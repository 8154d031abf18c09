------------------------ MODULE PacmanRepositoriesProofs ------------------------
(***************************************************************************)
(* Proof that parsePacmanRepositories reads what is written, for all       *)
(* configurations: ParsedAsWritten compares a parser that keeps a stack of *)
(* files and a current section with a reference that looks at the whole    *)
(* expanded text at once.  The first sections are about sequences, sets of *)
(* positions, signature levels and sections; then the parser's memory is   *)
(* related to the text so far (Agreement), and the stack of calls to the   *)
(* text that is left (RestOfText).                                         *)
(***************************************************************************)
EXTENDS PacmanRepositories, FiniteSetTheorems, TLAPS

-------------------------------------------------------------------------------
(* Sequences.  Concatenation is hidden behind Join, whose laws are all that the proofs use of it,
   and a fold over a sequence of sequences becomes a function with an equation for each step. *)

\* Among subsets of a finite set one contains no other: the form of induction that is used here.
LEMMA SmallestSubset ==
  ASSUME NEW S, IsFiniteSet(S), NEW F, F \subseteq SUBSET S, F # {}
  PROVE  \E T \in F : \A U \in F : U \subseteq T => U = T
<1>1. FiniteSubsetsOf(S) = SUBSET S
  BY FS_FiniteSubsetsOfFinite
<1>2. IsWellFoundedOn(StrictSubsetOrdering(S), SUBSET S)
  BY <1>1, FS_StrictSubsetOrderingWellFounded
<1>3. PICK T \in F : \A U \in F : <<U, T>> \notin StrictSubsetOrdering(S)
  BY <1>2, WFMin, Zenon
<1>4. QED
  BY <1>3 DEF StrictSubsetOrdering

\* Induction up to a bound, for a set of numbers: none of them is the first that is missing.
LEMMA UpTo ==
  ASSUME NEW n \in Nat, NEW A, 0 \in A, \A k \in 0..n - 1 : k \in A => k + 1 \in A
  PROVE  \A k \in 0..n : k \in A
<1> DEFINE Missing == {k \in 0..n : k \notin A}
           Initial == {0..k : k \in Missing}
<1>1. SUFFICES ASSUME Missing # {} PROVE FALSE
  OBVIOUS
<1>2. PICK T \in Initial : \A U \in Initial : U \subseteq T => U = T
  <2>1. \A k \in Missing : 0..k \subseteq 0..n
    OBVIOUS
  <2>2. Initial \subseteq SUBSET (0..n)
    BY <2>1, Zenon
  <2>3. Initial # {}
    BY <1>1, Zenon
  <2>4. IsFiniteSet(0..n)
    BY FS_Interval
  <2> DEFINE S == 0..n
  <2>5. Initial \subseteq SUBSET S /\ IsFiniteSet(S)
    BY <2>2, <2>4
  <2> HIDE DEF Initial, S
  <2>6. QED
    BY <2>3, <2>5, SmallestSubset
<1>3. PICK k \in Missing : T = 0..k
  OBVIOUS
<1>4. ASSUME NEW other \in Missing, other < k PROVE FALSE
  <2>1. 0..other \in Initial
    OBVIOUS
  <2>2. 0..other \subseteq 0..k /\ k \in 0..k /\ k \notin 0..other
    BY <1>4
  <2>3. QED
    BY <1>2, <1>3, <2>1, <2>2
<1>5. k \in 1..n
  BY <1>3
<1>6. k - 1 \in 0..n - 1 /\ k - 1 \notin Missing
  BY <1>4, <1>5
<1>7. QED
  BY <1>3, <1>5, <1>6

\* Concatenation with its laws, for proofs that look no further.
Join(s, t) == s \o t

\* The laws of concatenation.
LEMMA JoinType == ASSUME NEW S PROVE \A s, t \in Seq(S) : Join(s, t) \in Seq(S)
BY DEF Join

LEMMA JoinNothing == ASSUME NEW S PROVE \A s \in Seq(S) : Join(s, <<>>) = s /\ Join(<<>>, s) = s
<1> SUFFICES ASSUME NEW s \in Seq(S) PROVE Join(s, <<>>) = s /\ Join(<<>>, s) = s
  OBVIOUS
<1>1. s \o <<>> = s /\ <<>> \o s = s
  OBVIOUS
<1>2. QED
  BY <1>1 DEF Join

LEMMA JoinJoin ==
  ASSUME NEW S PROVE \A s, t, u \in Seq(S) : Join(Join(s, t), u) = Join(s, Join(t, u))
BY DEF Join

LEMMA JoinLength ==
  ASSUME NEW S
  PROVE  \A s, t \in Seq(S) : Len(Join(s, t)) = Len(s) + Len(t) /\ Len(s) \in Nat /\ Len(t) \in Nat
BY DEF Join

LEMMA JoinLeft == ASSUME NEW S PROVE \A s, t \in Seq(S) : \A i \in 1..Len(s) : Join(s, t)[i] = s[i]
BY DEF Join

LEMMA JoinRight == ASSUME NEW S PROVE \A s, t \in Seq(S) : \A i \in 1..Len(t) : Join(s, t)[Len(s) + i] = t[i]
BY DEF Join

\* f sums up a sequence of sequences from the left.
Flattens(f, seqs) ==
  /\ f[0] = <<>>
  /\ \A i \in 1..Len(seqs) : f[i] = Join(f[i - 1], seqs[i])

\* FlattenSeq is defined with a fold: there is a function that sums up, and the fold is its last value.
LEMMA FlattensExists ==
  ASSUME NEW S, NEW seqs \in Seq(Seq(S))
  PROVE  \E f \in [0..Len(seqs) -> Seq(S)] : Flattens(f, seqs) /\ FlattenSeq(seqs) = f[Len(seqs)]
<1> DEFINE n == Len(seqs)
<1>1. n \in Nat /\ \A i \in 1..n : seqs[i] \in Seq(S)
  OBVIOUS
<1>2. CASE n = 0
  <2>1. FlattenSeq(seqs) = <<>>
    BY <1>2 DEF FlattenSeq
  <2> DEFINE f == [i \in 0..0 |-> <<>>]
  <2>2. f \in [0..n -> Seq(S)] /\ f[0] = <<>>
    BY <1>2
  <2>3. f[Len(seqs)] = <<>> /\ 1..Len(seqs) = {}
    BY <1>2
  <2> HIDE DEF f
  <2>4. QED
    BY <2>1, <2>2, <2>3 DEF Flattens
<1>3. CASE n # 0
  <2> DEFINE Body(g, k) == [i \in 1..k |-> IF i = 1 THEN seqs[i] ELSE g[i - 1] \o seqs[i]]
             Partial(k) == \E g : g = Body(g, k)
             Reached == {k \in 0..n - 1 : Partial(k + 1)}
  <2>1. Partial(1)
    <3> DEFINE g == [i \in 1..1 |-> seqs[i]]
    <3>1. g = Body(g, 1)
      OBVIOUS
    <3>2. QED
      BY <3>1
  <2>2. ASSUME NEW k \in 1..n - 1, Partial(k) PROVE Partial(k + 1)
    <3>1. PICK g : g = Body(g, k)
      BY <2>2
    <3> DEFINE h == [i \in 1..k + 1 |-> IF i = 1 THEN seqs[i] ELSE g[i - 1] \o seqs[i]]
    <3>2. \A i \in 1..k : h[i] = g[i]
      <4>1. \A i \in 1..k : g[i] = IF i = 1 THEN seqs[i] ELSE g[i - 1] \o seqs[i]
        BY <3>1
      <4>2. \A i \in 1..k : h[i] = IF i = 1 THEN seqs[i] ELSE g[i - 1] \o seqs[i]
        OBVIOUS
      <4> HIDE DEF h, Body
      <4>3. QED
        BY <4>1, <4>2
    <3>3. \A i \in 1..k + 1 : i # 1 => i - 1 \in 1..k
      OBVIOUS
    <3>4. h = Body(h, k + 1)
      BY <3>2, <3>3
    <3>5. QED
      BY <3>4
  <2>3. \A k \in 0..n - 1 : k \in Reached
    <3> HIDE DEF Partial
    <3>1. 0 \in Reached
      <4>1. 0 \in 0..n - 1 /\ 0 + 1 = 1
        BY <1>1, <1>3
      <4>2. QED
        BY <2>1, <4>1
    <3>2. ASSUME NEW k \in 0..(n - 1) - 1, k \in Reached PROVE k + 1 \in Reached
      <4>1. k + 1 \in 1..n - 1 /\ k + 1 \in 0..n - 1
        BY <1>1
      <4>2. Partial(k + 1)
        BY <3>2
      <4>3. QED
        BY <2>2, <4>1, <4>2
    <3>3. n - 1 \in Nat
      BY <1>1, <1>3
    <3> HIDE DEF Reached
    <3>4. QED
      BY <3>1, <3>2, <3>3, UpTo
  <2>4. Partial(n)
    <3> HIDE DEF Partial
    <3>1. n - 1 \in 0..n - 1 /\ (n - 1) + 1 = n
      BY <1>1, <1>3
    <3>2. QED
      BY <2>3, <3>1
  <2> DEFINE flatten == CHOOSE g : g = Body(g, n)
  <2>5. flatten = Body(flatten, n)
    BY <2>4
  <2>6. FlattenSeq(seqs) = flatten[n]
    BY <1>3 DEF FlattenSeq
  <2> HIDE DEF flatten
  <2>7. \A i \in 1..n : flatten[i] = IF i = 1 THEN seqs[i] ELSE flatten[i - 1] \o seqs[i]
    BY <2>5
  <2> HIDE DEF Body, Partial, Reached
  <2> DEFINE f == [i \in 0..n |-> IF i = 0 THEN <<>> ELSE flatten[i]]
             Typed == {i \in 0..n : f[i] \in Seq(S)}
  <2>8. Flattens(f, seqs)
    <3>1. f[0] = <<>>
      BY <1>1
    <3>2. ASSUME NEW i \in 1..n PROVE f[i] = Join(f[i - 1], seqs[i])
      <4>1. CASE i = 1
        <5>1. f[i] = seqs[i] /\ f[i - 1] = <<>>
          BY <1>1, <2>7, <4>1
        <5>2. seqs[i] \in Seq(S)
          BY <1>1
        <5>3. QED
          BY <5>1, <5>2, JoinNothing
      <4>2. CASE i # 1
        <5>1. i - 1 \in 1..n /\ i - 1 # 0 /\ i \in 0..n /\ i - 1 \in 0..n /\ i # 0
          BY <1>1, <4>2
        <5>2. f[i] = f[i - 1] \o seqs[i]
          BY <2>7, <4>2, <5>1
        <5>3. QED
          BY <5>2 DEF Join
      <4>3. QED
        BY <4>1, <4>2
    <3> HIDE DEF f
    <3>3. QED
      BY <3>1, <3>2 DEF Flattens
  <2>9. \A i \in 0..n : i \in Typed
    <3>1. 0 \in Typed
      BY <1>1
    <3> HIDE DEF f
    <3>2. ASSUME NEW i \in 0..n - 1, i \in Typed PROVE i + 1 \in Typed
      <4>1. i + 1 \in 1..n /\ (i + 1) - 1 = i /\ i + 1 \in 0..n
        BY <1>1
      <4>2. f[i + 1] = Join(f[i], seqs[i + 1])
        BY <2>8, <4>1 DEF Flattens
      <4>5. f[i] \in Seq(S) /\ seqs[i + 1] \in Seq(S)
        BY <1>1, <3>2, <4>1
      <4>3. f[i + 1] \in Seq(S)
        BY <4>2, <4>5, JoinType
      <4>4. QED
        BY <4>1, <4>3
    <3> HIDE DEF Typed
    <3>3. QED
      BY <1>1, <3>1, <3>2, UpTo
  <2>10. f \in [0..n -> Seq(S)] /\ f[n] = flatten[n]
    BY <1>1, <1>3, <2>9
  <2>11. QED
    BY <2>6, <2>8, <2>10
<1>4. QED
  BY <1>2, <1>3

\* Flattening returns a sequence over the same set.
LEMMA FlattenType ==
  ASSUME NEW S PROVE \A seqs \in Seq(Seq(S)) : FlattenSeq(seqs) \in Seq(S)
<1> SUFFICES ASSUME NEW seqs \in Seq(Seq(S)) PROVE FlattenSeq(seqs) \in Seq(S)
  OBVIOUS
<1>1. PICK f \in [0..Len(seqs) -> Seq(S)] : Flattens(f, seqs) /\ FlattenSeq(seqs) = f[Len(seqs)]
  BY FlattensExists
<1>2. Len(seqs) \in 0..Len(seqs)
  OBVIOUS
<1>3. QED
  BY <1>1, <1>2

LEMMA FlattenEmpty == FlattenSeq(<<>>) = <<>>
BY DEF FlattenSeq

\* Flattening two parts one after the other is flattening the whole.
LEMMA FlattenConcat ==
  ASSUME NEW S, NEW s \in Seq(Seq(S)), NEW t \in Seq(Seq(S))
  PROVE  FlattenSeq(Join(s, t)) = Join(FlattenSeq(s), FlattenSeq(t))
<1> DEFINE st == Join(s, t)
           n == Len(s)
           m == Len(t)
<1>1. /\ st \in Seq(Seq(S)) /\ Len(st) = n + m /\ n \in Nat /\ m \in Nat
      /\ \A i \in 1..n : st[i] = s[i]
      /\ \A i \in 1..m : st[n + i] = t[i] /\ t[i] \in Seq(S)
  <2> DEFINE T == Seq(S)
  <2>1. s \in Seq(T) /\ t \in Seq(T) /\ \A i \in 1..m : t[i] \in T
    OBVIOUS
  <2> HIDE DEF T
  <2>2. QED
    <3>1. st \in Seq(T)
      BY <2>1, JoinType
    <3>2. Len(st) = n + m /\ n \in Nat /\ m \in Nat
      BY <2>1, JoinLength
    <3>3. \A i \in 1..n : st[i] = s[i]
      BY <2>1, JoinLeft
    <3>4. \A i \in 1..m : st[n + i] = t[i]
      BY <2>1, JoinRight
    <3> HIDE DEF st, n, m
    <3>5. QED
      BY <2>1, <3>1, <3>2, <3>3, <3>4 DEF T
<1>2. PICK f \in [0..n -> Seq(S)] : Flattens(f, s) /\ FlattenSeq(s) = f[n]
  BY FlattensExists
<1>3. PICK g \in [0..m -> Seq(S)] : Flattens(g, t) /\ FlattenSeq(t) = g[m]
  BY FlattensExists
<1> HIDE DEF st
<1>4. PICK h \in [0..n + m -> Seq(S)] : Flattens(h, st) /\ FlattenSeq(st) = h[n + m]
  <2>1. \E h \in [0..Len(st) -> Seq(S)] : Flattens(h, st) /\ FlattenSeq(st) = h[Len(st)]
    BY <1>1, FlattensExists
  <2>2. QED
    BY <1>1, <2>1
<1> HIDE DEF n, m
<1>5. /\ f[0] = <<>> /\ \A i \in 1..n : f[i] = Join(f[i - 1], s[i])
      /\ g[0] = <<>> /\ \A i \in 1..m : g[i] = Join(g[i - 1], t[i])
      /\ h[0] = <<>> /\ \A i \in 1..n + m : h[i] = Join(h[i - 1], st[i])
  BY <1>1, <1>2, <1>3, <1>4 DEF Flattens, n, m
<1> DEFINE Same == {i \in 0..n : f[i] = h[i]}
           Split == {i \in 0..m : h[n + i] = Join(f[n], g[i])}
<1>6. \A i \in 0..n : i \in Same
  <2>1. 0 \in Same
    BY <1>1, <1>5
  <2>2. ASSUME NEW k \in 0..n - 1, k \in Same PROVE k + 1 \in Same
    <3>1. k + 1 \in 1..n /\ (k + 1) - 1 = k /\ k + 1 \in 0..n /\ k + 1 \in 1..n + m
      BY <1>1
    <3>2. QED
      BY <1>1, <1>5, <2>2, <3>1
  <2> HIDE DEF Same
  <2>3. QED
    BY <1>1, <2>1, <2>2, UpTo
<1>7. f[n] \in Seq(S) /\ \A i \in 0..m : g[i] \in Seq(S)
  <2>1. n \in 0..n
    BY <1>1
  <2>2. QED
    BY <1>2, <1>3, <2>1
<1>8. \A i \in 0..m : i \in Split
  <2>1. 0 \in Split
    <3>1. n + 0 = n /\ n \in 0..n /\ 0 \in 0..m
      BY <1>1
    <3>2. Join(f[n], <<>>) = f[n]
      BY <1>7, JoinNothing
    <3>3. QED
      BY <1>5, <1>6, <3>1, <3>2
  <2>2. ASSUME NEW k \in 0..m - 1, k \in Split PROVE k + 1 \in Split
    <3>1. k + 1 \in 1..m /\ (k + 1) - 1 = k /\ k + 1 \in 0..m /\ n + (k + 1) \in 1..n + m
          /\ (n + (k + 1)) - 1 = n + k /\ k \in 0..m
      BY <1>1
    <3>2. h[n + (k + 1)] = Join(h[n + k], t[k + 1]) /\ g[k + 1] = Join(g[k], t[k + 1])
      BY <1>1, <1>5, <3>1
    <3>3. f[n] \in Seq(S) /\ g[k] \in Seq(S) /\ t[k + 1] \in Seq(S)
      BY <1>1, <1>7, <3>1
    <3>4. Join(Join(f[n], g[k]), t[k + 1]) = Join(f[n], Join(g[k], t[k + 1]))
      BY <3>3, JoinJoin
    <3>5. QED
      BY <2>2, <3>1, <3>2, <3>4
  <2> HIDE DEF Split
  <2>3. QED
    BY <1>1, <2>1, <2>2, UpTo
<1>9. m \in 0..m
  BY <1>1
<1>10. QED
  BY <1>2, <1>3, <1>4, <1>8, <1>9 DEF st

LEMMA FlattenOne == ASSUME NEW S PROVE \A s \in Seq(S) : FlattenSeq(<<s>>) = s
<1> SUFFICES ASSUME NEW a \in Seq(S) PROVE FlattenSeq(<<a>>) = a
  OBVIOUS
<1> DEFINE s == <<a>>
<1>1. s \in Seq(Seq(S)) /\ Len(s) = 1 /\ s[1] = a
  OBVIOUS
<1> HIDE DEF s
<1>2. PICK f \in [0..1 -> Seq(S)] : Flattens(f, s) /\ FlattenSeq(s) = f[1]
  BY <1>1, FlattensExists
<1>3. f[1] = Join(<<>>, a)
  BY <1>1, <1>2 DEF Flattens
<1>4. Join(<<>>, a) = a
  BY JoinNothing
<1>5. FlattenSeq(s) = a
  BY <1>2, <1>3, <1>4
<1>6. QED
  BY <1>5 DEF s

\* What follows the members before the l-th.
From(s, l) == [k \in 1..(Len(s) + 1 - l) |-> s[l + k - 1]]

LEMMA FromSplits ==
  ASSUME NEW S, NEW s \in Seq(S), NEW l \in 1..Len(s)
  PROVE  /\ From(s, l + 1) \in Seq(S) /\ <<s[l]>> \in Seq(S)
         /\ From(s, l) = Join(<<s[l]>>, From(s, l + 1))
<1> DEFINE one == <<s[l]>>
           rest == From(s, l + 1)
           both == Join(one, rest)
           n == Len(s) - l
<1>1. n \in Nat /\ one \in Seq(S) /\ Len(one) = 1 /\ one[1] = s[l]
  OBVIOUS
<1>2. rest = [k \in 1..n |-> s[(l + 1) + k - 1]]
  BY DEF From
<1>3. \A k \in 1..n : (l + 1) + k - 1 = l + k /\ s[l + k] \in S
  OBVIOUS
<1>4. rest \in Seq(S) /\ Len(rest) = n /\ \A k \in 1..n : rest[k] = s[l + k]
  <2> HIDE DEF n, rest
  <2>1. \A k \in 1..n : s[(l + 1) + k - 1] \in S
    BY <1>3
  <2>2. rest \in [1..n -> S]
    BY <1>2, <2>1
  <2>3. QED
    BY <1>1, <1>2, <1>3, <2>2
<1>5. From(s, l) = [k \in 1..n + 1 |-> s[l + k - 1]]
  <2>1. Len(s) + 1 - l = n + 1
    OBVIOUS
  <2>2. QED
    BY <2>1 DEF From
<1> HIDE DEF rest, one, n
<1>6. both \in Seq(S) /\ Len(both) = n + 1 /\ both[1] = s[l] /\ \A k \in 1..n : both[1 + k] = s[l + k]
  <2>1. /\ both \in Seq(S) /\ Len(both) = Len(one) + Len(rest)
        /\ \A i \in 1..Len(one) : both[i] = one[i]
        /\ \A i \in 1..Len(rest) : both[Len(one) + i] = rest[i]
    <3>1. one \in Seq(S) /\ rest \in Seq(S)
      BY <1>1, <1>4
    <3>2. both \in Seq(S)
      BY <3>1, JoinType
    <3>3. Len(both) = Len(one) + Len(rest)
      BY <3>1, JoinLength
    <3>4. \A i \in 1..Len(one) : both[i] = one[i]
      BY <3>1, JoinLeft
    <3>5. \A i \in 1..Len(rest) : both[Len(one) + i] = rest[i]
      BY <3>1, JoinRight
    <3> HIDE DEF both
    <3>6. QED
      BY <3>2, <3>3, <3>4, <3>5
  <2> HIDE DEF both
  <2>2. both[1] = s[l]
    BY <1>1, <2>1
  <2>3. \A k \in 1..n : both[1 + k] = s[l + k]
    BY <1>1, <1>4, <2>1
  <2>4. QED
    BY <1>1, <1>4, <2>1, <2>2, <2>3
<1> HIDE DEF both
<1>7. \A k \in 1..n + 1 : both[k] = s[l + k - 1]
  <2> SUFFICES ASSUME NEW k \in 1..n + 1 PROVE both[k] = s[l + k - 1]
    OBVIOUS
  <2>1. CASE k = 1
    BY <1>6, <2>1
  <2>2. CASE k # 1
    <3>1. k - 1 \in 1..n /\ 1 + (k - 1) = k /\ l + (k - 1) = l + k - 1
      BY <1>1, <2>2
    <3>2. QED
      BY <1>6, <3>1
  <2>3. QED
    BY <2>1, <2>2
<1>8. both = [k \in 1..n + 1 |-> both[k]]
  BY <1>1, <1>6
<1>9. QED
  BY <1>1, <1>4, <1>5, <1>7, <1>8 DEF one, rest, both

\* Flattening from some position is the sequence there, then what flattening leaves of the rest.
LEMMA FlattenFrom ==
  ASSUME NEW S, NEW s \in Seq(Seq(S)), NEW l \in 1..Len(s)
  PROVE  /\ FlattenSeq(From(s, l)) = Join(s[l], FlattenSeq(From(s, l + 1)))
         /\ s[l] \in Seq(S) /\ FlattenSeq(From(s, l + 1)) \in Seq(S)
<1> DEFINE one == <<s[l]>>
           rest == From(s, l + 1)
           T == Seq(S)
<1>1. rest \in Seq(T) /\ one \in Seq(T) /\ From(s, l) = Join(one, rest)
  <2>1. s \in Seq(T) /\ l \in 1..Len(s)
    OBVIOUS
  <2> HIDE DEF T
  <2>2. QED
    BY <2>1, FromSplits
<1>2. s[l] \in Seq(S)
  OBVIOUS
<1> HIDE DEF rest
<1>3. FlattenSeq(Join(one, rest)) = Join(FlattenSeq(one), FlattenSeq(rest))
  <2> HIDE DEF one
  <2>1. QED
    BY <1>1, FlattenConcat
<1>4. FlattenSeq(one) = s[l] /\ FlattenSeq(rest) \in Seq(S)
  BY <1>1, <1>2, FlattenOne, FlattenType
<1>5. QED
  BY <1>1, <1>2, <1>3, <1>4 DEF rest

-------------------------------------------------------------------------------
(* Sets of positions in a text: the n-th of them, and what happens to it if a line is appended *)

\* The members of P up to h; their number is the rank of h.
UpToMember(P, h) == {g \in P : g <= h}

\* The n-th member is the one of rank n.
LEMMA NthByRank ==
  ASSUME NEW P, NEW n
  PROVE  Nth(P, n) = CHOOSE i \in {h \in P : Cardinality(UpToMember(P, h)) = n} : TRUE
BY DEF Nth, UpToMember

\* Members have different ranks.
LEMMA RanksGrow ==
  ASSUME NEW P, IsFiniteSet(P), P \subseteq Int
  PROVE  /\ \A h \in P : Cardinality(UpToMember(P, h)) \in 1..Cardinality(P)
         /\ \A g, h \in P : Cardinality(UpToMember(P, g)) = Cardinality(UpToMember(P, h)) => g = h
<1>1. Cardinality(P) \in Nat
  BY FS_CardinalityType
<1>2. \A h \in P : /\ IsFiniteSet(UpToMember(P, h)) /\ Cardinality(UpToMember(P, h)) \in Nat
                   /\ Cardinality(UpToMember(P, h)) <= Cardinality(P)
  <2> SUFFICES ASSUME NEW h \in P
               PROVE  /\ IsFiniteSet(UpToMember(P, h)) /\ Cardinality(UpToMember(P, h)) \in Nat
                      /\ Cardinality(UpToMember(P, h)) <= Cardinality(P)
    OBVIOUS
  <2>1. UpToMember(P, h) \in SUBSET P
    BY DEF UpToMember
  <2>2. QED
    BY <2>1, FS_Subset, FS_CardinalityType
<1>3. \A h \in P : Cardinality(UpToMember(P, h)) # 0
  <2> SUFFICES ASSUME NEW h \in P PROVE Cardinality(UpToMember(P, h)) # 0
    OBVIOUS
  <2>1. h \in UpToMember(P, h)
    BY DEF UpToMember
  <2>2. QED
    BY <1>2, <2>1, FS_EmptySet
<1>4. ASSUME NEW g \in P, NEW h \in P, g < h PROVE Cardinality(UpToMember(P, g)) # Cardinality(UpToMember(P, h))
  <2>1. UpToMember(P, g) \in SUBSET UpToMember(P, h)
    <3>1. \A x \in UpToMember(P, g) : x \in Int /\ x <= g /\ x \in P
      BY DEF UpToMember
    <3>2. g \in Int /\ h \in Int
      OBVIOUS
    <3>3. \A x \in UpToMember(P, g) : x <= h
      BY <1>4, <3>1, <3>2
    <3>4. QED
      BY <3>1, <3>3 DEF UpToMember
  <2>2. h \in UpToMember(P, h) /\ h \notin UpToMember(P, g)
    <3>1. g \in Int /\ h \in Int
      OBVIOUS
    <3>2. QED
      BY <1>4, <3>1 DEF UpToMember
  <2>3. QED
    BY <1>2, <2>1, <2>2, FS_Subset
<1>5. ASSUME NEW g \in P, NEW h \in P, Cardinality(UpToMember(P, g)) = Cardinality(UpToMember(P, h)) PROVE g = h
  <2>1. g \in Int /\ h \in Int
    OBVIOUS
  <2>2. QED
    BY <1>4, <1>5, <2>1
<1>6. QED
  BY <1>1, <1>2, <1>3, <1>5

\* Up to the size of the set there is a member of every rank.
LEMMA NthIsMember ==
  ASSUME NEW P, IsFiniteSet(P), P \subseteq Int, NEW n \in 1..Cardinality(P)
  PROVE  Nth(P, n) \in P /\ Cardinality(UpToMember(P, Nth(P, n))) = n
<1> DEFINE m == Cardinality(P)
           rank == [h \in P |-> Cardinality(UpToMember(P, h))]
           Others == (1..m) \ {n}
<1>1. m \in Nat
  BY FS_CardinalityType
<1>2. SUFFICES ASSUME \A h \in P : Cardinality(UpToMember(P, h)) # n PROVE FALSE
  BY NthByRank
<1>3. rank \in [P -> Others]
  BY <1>2, RanksGrow
<1>4. IsFiniteSet(Others) /\ Cardinality(Others) = m - 1
  <2>1. IsFiniteSet(1..m) /\ Cardinality(1..m) = m
    BY <1>1, FS_Interval
  <2>2. QED
    BY <2>1, FS_RemoveElement
<1>5. \A g, h \in P : rank[g] = rank[h] => g = h
  BY RanksGrow
<1>6. Cardinality(Others) < Cardinality(P)
  BY <1>1, <1>4
<1> HIDE DEF Others, rank, m
<1>7. \E g, h \in P : g # h /\ rank[g] = rank[h]
  BY <1>3, <1>4, <1>6, FS_PigeonHole
<1>8. QED
  BY <1>5, <1>7

\* So that the members in order are a sequence.
LEMMA InOrderIsSequence ==
  ASSUME NEW P, IsFiniteSet(P), P \subseteq Int
  PROVE  InOrder(P) \in Seq(P) /\ Len(InOrder(P)) = Cardinality(P)
<1> DEFINE m == Cardinality(P)
<1>1. m \in Nat
  BY FS_CardinalityType
<1>2. \A n \in 1..m : Nth(P, n) \in P
  BY NthIsMember
<1>3. InOrder(P) = [n \in 1..m |-> Nth(P, n)]
  BY DEF InOrder
<1> HIDE DEF m
<1>4. InOrder(P) \in [1..m -> P]
  BY <1>2, <1>3
<1>5. QED
  BY <1>1, <1>4 DEF m

\* A greater number comes last.
LEMMA NthOfMore ==
  ASSUME NEW P, IsFiniteSet(P), P \subseteq Int, NEW top \in Int, \A p \in P : p < top
  PROVE  /\ Cardinality(P \cup {top}) = Cardinality(P) + 1
         /\ \A n \in 1..Cardinality(P) : Nth(P \cup {top}, n) = Nth(P, n)
         /\ Nth(P \cup {top}, Cardinality(P) + 1) = top
<1> DEFINE Q == P \cup {top}
           m == Cardinality(P)
<1>1. m \in Nat /\ top \notin P
  BY FS_CardinalityType
<1>2. IsFiniteSet(Q) /\ Cardinality(Q) = m + 1
  BY <1>1, FS_AddElement
<1>3. \A h \in P : UpToMember(Q, h) = UpToMember(P, h)
  <2> SUFFICES ASSUME NEW h \in P PROVE UpToMember(Q, h) = UpToMember(P, h)
    OBVIOUS
  <2>1. ~(top <= h)
    <3>1. h \in Int /\ h < top
      OBVIOUS
    <3>2. QED
      BY <3>1
  <2>2. QED
    BY <2>1 DEF UpToMember
<1>4. UpToMember(Q, top) = Q
  <2>1. \A p \in P : p <= top
    <3> SUFFICES ASSUME NEW p \in P PROVE p <= top
      OBVIOUS
    <3>1. p \in Int /\ p < top
      OBVIOUS
    <3>2. QED
      BY <3>1
  <2>2. top <= top
    OBVIOUS
  <2>3. \A q \in Q : q <= top
    BY <2>1, <2>2
  <2> HIDE DEF Q
  <2>4. QED
    BY <2>3 DEF UpToMember
<1>5. \A h \in P : Cardinality(UpToMember(P, h)) \in 1..m
  BY RanksGrow
<1> HIDE DEF m
<1>r. /\ Cardinality(UpToMember(Q, top)) = m + 1
      /\ \A h \in P : Cardinality(UpToMember(Q, h)) = Cardinality(UpToMember(P, h))
  BY <1>2, <1>3, <1>4, Zenon
<1>6. ASSUME NEW n \in 1..m PROVE Nth(Q, n) = Nth(P, n)
  <2>1. {h \in Q : Cardinality(UpToMember(Q, h)) = n} = {h \in P : Cardinality(UpToMember(P, h)) = n}
    <3>1. n # m + 1
      BY <1>1
    <3>2. QED
      BY <1>r, <3>1, Zenon
  <2>2. QED
    BY <2>1, NthByRank
<1>7. Nth(Q, m + 1) = top
  <2>1. {h \in Q : Cardinality(UpToMember(Q, h)) = m + 1} = {top}
    <3>1. \A k \in 1..m : k # m + 1
      BY <1>1
    <3>2. \A h \in P : Cardinality(UpToMember(Q, h)) # m + 1
      BY <1>5, <1>r, <3>1, Zenon
    <3>3. QED
      BY <1>r, <3>2, Zenon
  <2>2. QED
    BY <2>1, NthByRank
<1>8. QED
  BY <1>2, <1>6, <1>7 DEF m

\* What the lines of S say.
Values(S) == {line.value : line \in S}

\* Sets of positions in a text are finite and lie before what is appended.
LEMMA PositionsAreFinite ==
  ASSUME NEW S, NEW text \in Seq(S), NEW P, P \subseteq DOMAIN text
  PROVE  IsFiniteSet(P) /\ P \subseteq Int /\ Cardinality(P) \in Nat /\ \A p \in P : p < Len(text) + 1
<1>1. Len(text) \in Nat /\ DOMAIN text = 1..Len(text)
  OBVIOUS
<1>2. IsFiniteSet(1..Len(text))
  BY <1>1, FS_Interval
<1>3. IsFiniteSet(P)
  BY <1>1, <1>2, FS_Subset
<1>4. QED
  BY <1>1, <1>3, FS_CardinalityType

\* The values at some positions, in order, are a sequence.
LEMMA ValuesType ==
  ASSUME NEW S, NEW text \in Seq(S), NEW P, P \subseteq DOMAIN text
  PROVE  ValuesOf(text, P) \in Seq(Values(S)) /\ Len(ValuesOf(text, P)) = Cardinality(P)
<1> DEFINE m == Cardinality(P)
<1>1. m \in Nat /\ IsFiniteSet(P) /\ P \subseteq Int
  BY PositionsAreFinite
<1>2. \A n \in 1..m : text[Nth(P, n)].value \in Values(S)
  <2> SUFFICES ASSUME NEW n \in 1..m PROVE text[Nth(P, n)].value \in Values(S)
    OBVIOUS
  <2>1. Nth(P, n) \in P
    BY <1>1, NthIsMember
  <2>2. text[Nth(P, n)] \in S
    BY <2>1
  <2>3. QED
    BY <2>2 DEF Values
<1>3. ValuesOf(text, P) = [n \in 1..m |-> text[Nth(P, n)].value]
  BY DEF ValuesOf
<1> HIDE DEF m
<1>4. ValuesOf(text, P) \in [1..m -> Values(S)]
  BY <1>2, <1>3
<1>5. QED
  BY <1>1, <1>4 DEF m

\* What appending leaves, and what it adds.
LEMMA AppendIndex ==
  ASSUME NEW S
  PROVE  \A s \in Seq(S) : \A a \in S :
           /\ Append(s, a) \in Seq(S) /\ Len(Append(s, a)) = Len(s) + 1 /\ Len(s) \in Nat
           /\ DOMAIN s = 1..Len(s) /\ DOMAIN Append(s, a) = 1..Len(s) + 1
           /\ Append(s, a)[Len(s) + 1] = a
           /\ \A i \in 1..Len(s) : Append(s, a)[i] = s[i]
OBVIOUS

\* A line that is appended changes nothing at the positions before; one position more is one value more at the end.
LEMMA ValuesOfSame ==
  ASSUME NEW S, NEW text \in Seq(S), NEW line \in S, NEW P, P \subseteq DOMAIN text
  PROVE  ValuesOf(Append(text, line), P) = ValuesOf(text, P)
<1> DEFINE m == Cardinality(P)
           more == Append(text, line)
<1>1. m \in Nat /\ IsFiniteSet(P) /\ P \subseteq Int
  BY PositionsAreFinite
<1>2. \A i \in DOMAIN text : more[i] = text[i]
  OBVIOUS
<1> HIDE DEF m, more
<1>3. \A n \in 1..m : more[Nth(P, n)].value = text[Nth(P, n)].value
  BY <1>1, <1>2, NthIsMember DEF m
<1>4. ValuesOf(more, P) = [n \in 1..m |-> more[Nth(P, n)].value]
      /\ ValuesOf(text, P) = [n \in 1..m |-> text[Nth(P, n)].value]
  BY DEF ValuesOf, m
<1>5. QED
  BY <1>3, <1>4 DEF more

LEMMA ValuesOfMore ==
  ASSUME NEW S, NEW text \in Seq(S), NEW line \in S, NEW P, P \subseteq DOMAIN text
  PROVE  ValuesOf(Append(text, line), P \cup {Len(text) + 1}) = Append(ValuesOf(text, P), line.value)
<1> DEFINE m == Cardinality(P)
           more == Append(text, line)
           top == Len(text) + 1
           Q == P \cup {top}
           old == ValuesOf(text, P)
<1>1. m \in Nat /\ IsFiniteSet(P) /\ P \subseteq Int /\ top \in Int /\ \A p \in P : p < top
  BY PositionsAreFinite
<1>2. (\A i \in DOMAIN text : more[i] = text[i]) /\ more[top] = line
  OBVIOUS
<1>3. old \in Seq(Values(S)) /\ Len(old) = m /\ line.value \in Values(S)
  BY ValuesType DEF Values
<1>4. old = [n \in 1..m |-> text[Nth(P, n)].value]
  BY DEF ValuesOf
<1> HIDE DEF m, more, top, old
<1>5. /\ Cardinality(Q) = m + 1
      /\ \A n \in 1..m : Nth(Q, n) = Nth(P, n)
      /\ Nth(Q, m + 1) = top
  BY <1>1, NthOfMore DEF m
<1>6. \A n \in 1..m : more[Nth(Q, n)].value = old[n]
  <2> SUFFICES ASSUME NEW n \in 1..m PROVE more[Nth(Q, n)].value = old[n]
    OBVIOUS
  <2>1. Nth(P, n) \in P
    BY <1>1, NthIsMember DEF m
  <2>2. QED
    BY <1>2, <1>4, <1>5, <2>1
<1>7. more[Nth(Q, m + 1)].value = line.value
  BY <1>2, <1>5
<1>8. ValuesOf(more, Q) = [n \in 1..m + 1 |-> more[Nth(Q, n)].value]
  BY <1>5 DEF ValuesOf
<1>9. Append(old, line.value) = [n \in 1..m + 1 |-> Append(old, line.value)[n]]
  BY <1>1, <1>3
<1>10. /\ \A n \in 1..m : Append(old, line.value)[n] = old[n]
       /\ Append(old, line.value)[m + 1] = line.value
  BY <1>1, <1>3
<1>11. \A n \in 1..m + 1 : n \in 1..m \/ n = m + 1
  BY <1>1
<1> HIDE DEF Q
<1>12. \A n \in 1..m + 1 : more[Nth(Q, n)].value = Append(old, line.value)[n]
  BY <1>6, <1>7, <1>10, <1>11
<1>13. ValuesOf(more, Q) = Append(old, line.value)
  BY <1>8, <1>9, <1>12
<1>14. QED
  BY <1>13 DEF more, Q, top, old

-------------------------------------------------------------------------------
(* SigLevel: what a line of any number of tokens sets *)

\* g takes a step of Rule at each number up to a bound.
Recurs(g, bound, first, Rule) == g[0] = first /\ \A n \in 1..bound : g[n] = Rule[n][g[n - 1]]

\* A function that is defined by recursion on numbers up to a bound exists.
LEMMA RecursionExists ==
  ASSUME NEW States, NEW bound \in Nat, NEW first \in States, NEW Rule \in [1..bound -> [States -> States]]
  PROVE  \E g \in [0..bound -> States] : Recurs(g, bound, first, Rule)
<1> DEFINE Partial(k) == \E g \in [0..k -> States] : g[0] = first /\ \A n \in 1..k : g[n] = Rule[n][g[n - 1]]
           Reached == {k \in 0..bound : Partial(k)}
<1>1. Partial(0)
  <2> DEFINE g == [n \in 0..0 |-> first]
  <2>1. g \in [0..0 -> States] /\ g[0] = first /\ 1..0 = {}
    OBVIOUS
  <2> HIDE DEF g
  <2>2. QED
    BY <2>1
<1>2. ASSUME NEW k \in 0..bound - 1, Partial(k) PROVE Partial(k + 1)
  <2>1. PICK g \in [0..k -> States] : g[0] = first /\ \A n \in 1..k : g[n] = Rule[n][g[n - 1]]
    BY <1>2
  <2>2. k \in Nat /\ k \in 0..k /\ k + 1 \in 1..bound /\ 0 \in 0..k
    OBVIOUS
  <2> DEFINE b == Rule[k + 1][g[k]]
             h == [n \in 0..k + 1 |-> IF n = k + 1 THEN b ELSE g[n]]
  <2>3. b \in States
    BY <2>1, <2>2
  <2> HIDE DEF b
  <2>4. h \in [0..k + 1 -> States]
    BY <2>1, <2>2, <2>3
  <2>5. h[k + 1] = b /\ \A n \in 0..k : h[n] = g[n]
    BY <2>2
  <2> HIDE DEF h
  <2>6. h[0] = first
    BY <2>1, <2>2, <2>5
  <2>7. ASSUME NEW n \in 1..k + 1 PROVE h[n] = Rule[n][h[n - 1]]
    <3>1. CASE n = k + 1
      <4>1. h[n - 1] = g[k]
        BY <2>2, <2>5, <3>1
      <4>2. QED
        BY <2>5, <3>1, <4>1 DEF b
    <3>2. CASE n # k + 1
      <4>1. n \in 1..k /\ n \in 0..k /\ n - 1 \in 0..k
        BY <2>2, <3>2
      <4>2. h[n] = g[n] /\ h[n - 1] = g[n - 1]
        BY <2>5, <4>1
      <4>3. QED
        BY <2>1, <4>1, <4>2
    <3>3. QED
      BY <3>1, <3>2
  <2>8. QED
    BY <2>4, <2>6, <2>7
<1> HIDE DEF Partial
<1>3. 0 \in Reached
  BY <1>1
<1>4. \A k \in 0..bound - 1 : k \in Reached => k + 1 \in Reached
  BY <1>2
<1> HIDE DEF Reached
<1>5. \A k \in 0..bound : k \in Reached
  BY <1>3, <1>4, UpTo
<1>6. bound \in Reached
  BY <1>5
<1>7. Partial(bound)
  BY <1>6 DEF Reached
<1>8. QED
  BY <1>7 DEF Partial, Recurs

-------------------------------------------------------------------------------

\* The settings, and tokens that name known scopes.
Settings == [mask : SUBSET SigBits, value : SUBSET SigBits]

Scoped(tokens) == IsText(tokens) /\ \A j \in DOMAIN tokens : tokens[j].scopes \subseteq Scopes

\* A token enables some of the bits that it decides.
LEMMA TokenBits ==
  ASSUME NEW token, token.scopes \subseteq Scopes
  PROVE  Decided(token) \subseteq SigBits /\ Enabled(token) \subseteq Decided(token)
<1>1. Decided(token) \subseteq SigBits
  BY Zenon DEF Decided, SigBits
<1>2. CASE token.action = "Optional"
  <2>1. /\ Enabled(token) = token.scopes \X {"Checked", "Optional"}
        /\ Decided(token) = token.scopes \X {"Checked", "Optional"}
    BY <1>2 DEF Enabled, Decided
  <2>2. QED
    BY <1>1, <2>1
<1>3. CASE token.action = "Required"
  <2>1. Enabled(token) = token.scopes \X {"Checked"} /\ Decided(token) = token.scopes \X {"Checked", "Optional"}
    BY <1>3 DEF Enabled, Decided
  <2>2. QED
    BY <1>1, <2>1
<1>4. CASE token.action = "TrustAll"
  <2>1. Enabled(token) = token.scopes \X {"MarginalOk", "UnknownOk"}
        /\ Decided(token) = token.scopes \X {"MarginalOk", "UnknownOk"}
    BY <1>4 DEF Enabled, Decided
  <2>2. QED
    BY <1>1, <2>1
<1>5. CASE token.action \notin {"Optional", "Required", "TrustAll"}
  <2>1. Enabled(token) = token.scopes \X {}
    BY <1>5 DEF Enabled
  <2>2. QED
    BY <1>1, <2>1
<1>6. QED
  BY <1>2, <1>3, <1>4, <1>5

\* The tokens up to the n-th that decide a bit.
Deciders(tokens, n, bit) == {j \in 1..n : bit \in Decided(tokens[j])}

\* The last of the positions D has the say on a bit, and enables it.
SaidBy(tokens, D, bit) == \E j \in D : bit \in Enabled(tokens[j]) /\ \A k \in D : k <= j

\* The setting after n tokens: the mask is what was decided, the value what the last decider enabled.
Levels(tokens, n, setting) ==
  /\ setting \in Settings
  /\ \A bit : bit \in setting.mask <=> Deciders(tokens, n, bit) # {}
  /\ \A bit : bit \in setting.value <=> SaidBy(tokens, Deciders(tokens, n, bit), bit)

\* It holds before the first token, and one token more keeps it.
LEMMA LevelsOfNone ==
  ASSUME NEW tokens PROVE Levels(tokens, 0, NoSetting)
<1>1. \A bit : Deciders(tokens, 0, bit) = {}
  BY DEF Deciders
<1>2. NoSetting \in Settings /\ NoSetting.mask = {} /\ NoSetting.value = {}
  BY DEF NoSetting, Settings
<1>3. QED
  BY <1>1, <1>2 DEF Levels, SaidBy

LEMMA LevelsOfNext ==
  ASSUME NEW tokens, Scoped(tokens), NEW n \in 0..Len(tokens) - 1, NEW setting, Levels(tokens, n, setting)
  PROVE  Levels(tokens, n + 1, ApplyToken(setting, tokens[n + 1]))
<1> DEFINE m == n + 1
           token == tokens[m]
           new == ApplyToken(setting, token)
<1>1. tokens \in Seq(ToSet(tokens)) /\ \A j \in DOMAIN tokens : tokens[j].scopes \subseteq Scopes
  BY DEF Scoped, IsText
<1>2. n \in Nat /\ m \in DOMAIN tokens /\ m \in 1..m /\ n + 1 = m
  <2> DEFINE T == ToSet(tokens)
  <2>1. tokens \in Seq(T)
    BY <1>1
  <2> HIDE DEF T
  <2>2. QED
    BY <2>1
<1>3. Decided(token) \subseteq SigBits /\ Enabled(token) \subseteq Decided(token)
  BY <1>1, <1>2, TokenBits
<1>4. /\ new = [mask |-> setting.mask \cup Decided(token),
                value |-> (setting.value \ Decided(token)) \cup Enabled(token)]
      /\ setting.mask \subseteq SigBits /\ setting.value \subseteq SigBits
  BY DEF ApplyToken, Levels, Settings
<1> HIDE DEF new
<1>5. new \in Settings
  BY <1>3, <1>4 DEF Settings
<1> HIDE DEF m
<1>6. \A bit : Deciders(tokens, m, bit) = Deciders(tokens, n, bit) \cup (IF bit \in Decided(token) THEN {m} ELSE {})
  BY <1>2 DEF Deciders
<1>7. \A bit : \A j \in Deciders(tokens, n, bit) : j <= m /\ j # m /\ ~(m <= j)
  BY <1>2 DEF Deciders
<1>8. ASSUME NEW bit PROVE bit \in new.mask <=> Deciders(tokens, m, bit) # {}
  <2>1. bit \in setting.mask <=> Deciders(tokens, n, bit) # {}
    BY DEF Levels
  <2>2. bit \in new.mask <=> bit \in setting.mask \/ bit \in Decided(token)
    BY <1>4
  <2>3. QED
    BY <1>6, <2>1, <2>2
<1>9. ASSUME NEW bit PROVE bit \in new.value <=> SaidBy(tokens, Deciders(tokens, m, bit), bit)
  <2> DEFINE D == Deciders(tokens, n, bit)
             E == Deciders(tokens, m, bit)
  <2>1. bit \in setting.value <=> SaidBy(tokens, D, bit)
    BY DEF Levels
  <2>2. bit \in new.value <=> (bit \in setting.value /\ bit \notin Decided(token)) \/ bit \in Enabled(token)
    BY <1>4
  <2>3. CASE bit \in Decided(token)
    <3>1. E = D \cup {m}
      BY <1>6, <2>3
    <3>2. \A j \in D : j <= m /\ j # m /\ ~(m <= j)
      BY <1>7
    <3> HIDE DEF D, E
    <3>3. m <= m
      BY <1>2
    <3>4. SaidBy(tokens, E, bit) <=> bit \in Enabled(token)
      BY <3>1, <3>2, <3>3 DEF SaidBy
    <3>5. QED
      BY <2>2, <2>3, <3>4 DEF E
  <2>4. CASE bit \notin Decided(token)
    <3>1. E = D
      BY <1>6, <2>4
    <3>2. QED
      BY <1>3, <2>1, <2>2, <2>4, <3>1
  <2>5. QED
    BY <2>3, <2>4
<1>10. QED
  BY <1>5, <1>8, <1>9 DEF Levels, m, new

\* So that parseSigLevel returns, for any number of tokens, what their last deciders say.
LEMMA LevelIs ==
  ASSUME NEW tokens, Scoped(tokens)
  PROVE  Levels(tokens, Len(tokens), ParseSigLevel(tokens))
<1> DEFINE N == Len(tokens)
           Body(g) == [n \in 0..N |-> IF n = 0 THEN NoSetting ELSE ApplyToken(g[n - 1], tokens[n])]
           F == [n \in 1..N |-> [s \in Settings |-> ApplyToken(s, tokens[n])]]
<1>1. ParseSigLevel(tokens) = (CHOOSE g : g = Body(g))[N]
  BY DEF ParseSigLevel
<1>2. N \in Nat /\ DOMAIN tokens = 1..N
  <2> DEFINE T == ToSet(tokens)
  <2>1. tokens \in Seq(T)
    BY DEF Scoped, IsText
  <2> HIDE DEF T
  <2>2. QED
    BY <2>1
<1> HIDE DEF N
<1>3. ASSUME NEW s \in Settings, NEW n \in 1..N PROVE ApplyToken(s, tokens[n]) \in Settings
  <2>1. Decided(tokens[n]) \subseteq SigBits /\ Enabled(tokens[n]) \subseteq Decided(tokens[n])
    BY <1>2, TokenBits DEF Scoped
  <2>2. s.mask \subseteq SigBits /\ s.value \subseteq SigBits
    BY DEF Settings
  <2>3. QED
    BY <2>1, <2>2 DEF ApplyToken, Settings
<1>4. \A n \in 1..N : \A s \in Settings : F[n][s] = ApplyToken(s, tokens[n])
  OBVIOUS
<1>5. NoSetting \in Settings
  BY DEF NoSetting, Settings
<1>6. F \in [1..N -> [Settings -> Settings]]
  BY <1>3
<1> HIDE DEF F
<1>7. PICK h \in [0..N -> Settings] : h[0] = NoSetting /\ \A n \in 1..N : h[n] = F[n][h[n - 1]]
  <2> DEFINE S == Settings
             a == NoSetting
  <2>1. N \in Nat
    BY <1>2
  <2>2. a \in S
    BY <1>5
  <2>3. F \in [1..N -> [S -> S]]
    BY <1>6
  <2> HIDE DEF S, a
  <2>4. \E g \in [0..N -> S] : Recurs(g, N, a, F)
    BY <2>1, <2>2, <2>3, RecursionExists, Zenon
  <2>5. QED
    BY <2>4 DEF S, a, Recurs
<1>8. \A n \in 1..N : h[n] = ApplyToken(h[n - 1], tokens[n])
  <2> SUFFICES ASSUME NEW n \in 1..N PROVE h[n] = ApplyToken(h[n - 1], tokens[n])
    OBVIOUS
  <2>1. h[n - 1] \in Settings
    BY <1>2, <1>7
  <2>2. QED
    BY <1>4, <1>7, <2>1
<1>9. h = Body(h)
  <2> DEFINE B == Body(h)
  <2>1. \A n \in 0..N : h[n] = IF n = 0 THEN NoSetting ELSE ApplyToken(h[n - 1], tokens[n])
    BY <1>2, <1>7, <1>8
  <2>2. h = [n \in 0..N |-> h[n]]
    BY <1>7
  <2>3. QED
    BY <2>1, <2>2
<1> DEFINE g == CHOOSE x : x = Body(x)
<1>10. g = Body(g)
  <2> HIDE DEF Body
  <2>1. QED
    BY <1>9
<1> HIDE DEF g
<1>11. g[0] = NoSetting /\ \A n \in 1..N : g[n] = ApplyToken(g[n - 1], tokens[n])
  <2>1. \A n \in 0..N : g[n] = IF n = 0 THEN NoSetting ELSE ApplyToken(g[n - 1], tokens[n])
    BY <1>10
  <2>2. 0 \in 0..N /\ \A n \in 1..N : n \in 0..N /\ n # 0
    BY <1>2
  <2>3. QED
    BY <2>1, <2>2
<1> HIDE DEF Body
<1> DEFINE A == {n \in 0..N : Levels(tokens, n, g[n])}
<1>12. 0 \in A
  BY <1>2, <1>11, LevelsOfNone
<1>13. ASSUME NEW n \in 0..N - 1, n \in A PROVE n + 1 \in A
  <2>1. n + 1 \in 1..N /\ (n + 1) - 1 = n /\ n + 1 \in 0..N
    BY <1>2
  <2>2. g[n + 1] = ApplyToken(g[n], tokens[n + 1])
    BY <1>11, <2>1
  <2>3. Levels(tokens, n + 1, ApplyToken(g[n], tokens[n + 1]))
    BY <1>13, LevelsOfNext DEF N
  <2>4. QED
    BY <2>1, <2>2, <2>3
<1> HIDE DEF A
<1>14. \A n \in 0..N : n \in A
  BY <1>2, <1>12, <1>13, UpTo
<1>15. N \in A
  BY <1>2, <1>14
<1>16. Levels(tokens, N, g[N])
  BY <1>15 DEF A
<1>17. QED
  BY <1>1, <1>16 DEF g, N

-------------------------------------------------------------------------------
(* Sections: to which section the lines of a text belong, and those of a text with one line more *)

\* The headers up to a line, and what InSection asks of them.
HeadersTo(text, i) == {j \in 1..i : text[j].key = "section"}

LastHeader(text, headers, name) ==
  IF headers = {} THEN name = "" ELSE \E j \in headers : text[j].value = name /\ \A h \in headers : h <= j

\* InSection looks at nothing else, and so not at the lines that follow.
LEMMA InSectionIs ==
  ASSUME NEW text, NEW i, NEW name
  PROVE  InSection(text, i, name) <=> LastHeader(text, HeadersTo(text, i), name)
BY DEF InSection, HeadersTo, LastHeader

\* The section of a line depends on nothing behind it.
LEMMA SameSections ==
  ASSUME NEW text, NEW longer, NEW i \in Nat, \A j \in 1..i : longer[j] = text[j], NEW name
  PROVE  InSection(longer, i, name) <=> InSection(text, i, name)
<1>1. HeadersTo(longer, i) = HeadersTo(text, i) /\ HeadersTo(text, i) \subseteq 1..i
  BY DEF HeadersTo
<1>2. LastHeader(longer, HeadersTo(longer, i), name) <=> LastHeader(text, HeadersTo(text, i), name)
  BY <1>1 DEF LastHeader
<1>3. QED
  BY <1>2, InSectionIs

\* A line that is appended begins a section or belongs to the one before it.
LEMMA SectionOfMore ==
  ASSUME NEW S, NEW text \in Seq(S), NEW line \in S
  PROVE  /\ \A i \in 1..Len(text) : \A name : InSection(Append(text, line), i, name) <=> InSection(text, i, name)
         /\ \A name : InSection(Append(text, line), Len(text) + 1, name) <=>
                        IF line.key = "section" THEN name = line.value ELSE InSection(text, Len(text), name)
<1> DEFINE n == Len(text)
           m == n + 1
           more == Append(text, line)
<1>1. n \in Nat /\ more[m] = line /\ \A j \in 1..n : more[j] = text[j]
  BY AppendIndex
<1> HIDE DEF n, more
<1>2. ASSUME NEW i \in 1..n, NEW name PROVE InSection(more, i, name) <=> InSection(text, i, name)
  <2>1. i \in Nat /\ \A j \in 1..i : j \in 1..n
    BY <1>1
  <2>2. \A j \in 1..i : more[j] = text[j]
    BY <1>1, <2>1
  <2>3. QED
    BY <2>1, <2>2, SameSections
<1>3. ASSUME NEW name, line.key # "section" PROVE InSection(more, m, name) <=> InSection(text, n, name)
  <2>1. HeadersTo(more, m) = HeadersTo(text, n)
    BY <1>1, <1>3 DEF HeadersTo
  <2>2. HeadersTo(text, n) \subseteq 1..n
    BY DEF HeadersTo
  <2>3. LastHeader(more, HeadersTo(more, m), name) <=> LastHeader(text, HeadersTo(text, n), name)
    BY <1>1, <2>1, <2>2 DEF LastHeader
  <2>4. QED
    BY <2>3, InSectionIs
<1>4. ASSUME NEW name, line.key = "section" PROVE InSection(more, m, name) <=> name = line.value
  <2>1. m \in HeadersTo(more, m) /\ \A h \in HeadersTo(more, m) : h <= m /\ (m <= h => h = m)
    BY <1>1, <1>4 DEF HeadersTo
  <2>2. LastHeader(more, HeadersTo(more, m), name) <=> more[m].value = name
    BY <2>1 DEF LastHeader
  <2>3. QED
    BY <1>1, <2>2, InSectionIs
<1>5. QED
  BY <1>2, <1>3, <1>4 DEF n, more

\* Lines and headers are positions in the text.
LEMMA LinesAreIn ==
  ASSUME NEW S, NEW text \in Seq(S)
  PROVE  /\ Len(text) \in Nat /\ DOMAIN text = 1..Len(text)
         /\ \A name, key : Lines(text, name, key) \subseteq DOMAIN text
         /\ Headers(text) \subseteq DOMAIN text
BY DEF Lines, Headers

\* The lines of a section and of a key, after one line more.
LEMMA LinesOfMore ==
  ASSUME NEW S, NEW text \in Seq(S), NEW line \in S, NEW name, NEW key
  PROVE  Lines(Append(text, line), name, key) =
           Lines(text, name, key) \cup
             (IF line.key = key /\ InSection(Append(text, line), Len(text) + 1, name) THEN {Len(text) + 1} ELSE {})
<1> DEFINE n == Len(text)
           m == n + 1
           more == Append(text, line)
<1>1. /\ n \in Nat /\ more[m] = line /\ \A j \in 1..n : more[j] = text[j]
      /\ DOMAIN text = 1..n /\ DOMAIN more = 1..m
  BY AppendIndex
<1>2. \A i \in 1..n : InSection(more, i, name) <=> InSection(text, i, name)
  BY SectionOfMore
<1> HIDE DEF n, more
<1>3. \A i : i \in 1..m <=> i \in 1..n \/ i = m
  BY <1>1
<1>4. \A i : i \in Lines(more, name, key) <=> i \in 1..m /\ more[i].key = key /\ InSection(more, i, name)
  BY <1>1 DEF Lines
<1>5. \A i : i \in Lines(text, name, key) <=> i \in 1..n /\ text[i].key = key /\ InSection(text, i, name)
  BY <1>1 DEF Lines
<1>6. \A i \in 1..n : i \in Lines(more, name, key) <=> i \in Lines(text, name, key)
  BY <1>1, <1>2, <1>3, <1>4, <1>5
<1>7. m \in Lines(more, name, key) <=> line.key = key /\ InSection(more, m, name)
  BY <1>1, <1>3, <1>4
<1>8. m \notin Lines(text, name, key)
  BY <1>1, <1>5
<1>9. \A i \in Lines(more, name, key) : i \in 1..n \/ i = m
  BY <1>3, <1>4
<1>10. \A i \in Lines(text, name, key) : i \in 1..n
  BY <1>5
<1> HIDE DEF m
<1>11. QED
  BY <1>6, <1>7, <1>8, <1>9, <1>10 DEF m, n, more

\* They stay if it is of another key or in another section.
LEMMA LinesNotMore ==
  ASSUME NEW S, NEW text \in Seq(S), NEW line \in S
  PROVE  \A name, key : line.key # key \/ ~InSection(Append(text, line), Len(text) + 1, name) =>
           Lines(Append(text, line), name, key) = Lines(text, name, key)
<1> SUFFICES ASSUME NEW name, NEW key, line.key # key \/ ~InSection(Append(text, line), Len(text) + 1, name)
             PROVE  Lines(Append(text, line), name, key) = Lines(text, name, key)
  OBVIOUS
<1> DEFINE P == Lines(text, name, key)
           Q == Lines(Append(text, line), name, key)
<1>1. Q = P \cup (IF line.key = key /\ InSection(Append(text, line), Len(text) + 1, name) THEN {Len(text) + 1}
                ELSE {})
  BY LinesOfMore
<1> HIDE DEF P, Q
<1>2. Q = P
  BY <1>1
<1>3. QED
  BY <1>2 DEF P, Q

\* The headers after one line more.
LEMMA HeadersOfMore ==
  ASSUME NEW S, NEW text \in Seq(S), NEW line \in S
  PROVE  Headers(Append(text, line)) =
           Headers(text) \cup (IF line.key = "section" /\ line.value # "options" THEN {Len(text) + 1} ELSE {})
<1> DEFINE n == Len(text)
           m == n + 1
           more == Append(text, line)
<1>1. /\ n \in Nat /\ more[m] = line /\ \A j \in 1..n : more[j] = text[j]
      /\ DOMAIN text = 1..n /\ DOMAIN more = 1..m
  BY AppendIndex
<1> HIDE DEF n, more
<1>3. \A i : i \in 1..m <=> i \in 1..n \/ i = m
  BY <1>1
<1>4. \A i : i \in Headers(more) <=> i \in 1..m /\ more[i].key = "section" /\ more[i].value # "options"
  BY <1>1 DEF Headers
<1>5. \A i : i \in Headers(text) <=> i \in 1..n /\ text[i].key = "section" /\ text[i].value # "options"
  BY <1>1 DEF Headers
<1>6. \A i \in 1..n : i \in Headers(more) <=> i \in Headers(text)
  BY <1>1, <1>3, <1>4, <1>5
<1>7. m \in Headers(more) <=> line.key = "section" /\ line.value # "options"
  BY <1>1, <1>3, <1>4
<1>8. m \notin Headers(text)
  BY <1>1, <1>5
<1>9. \A i \in Headers(more) : i \in 1..n \/ i = m
  BY <1>3, <1>4
<1>10. \A i \in Headers(text) : i \in 1..n
  BY <1>5
<1> HIDE DEF m
<1>11. QED
  BY <1>6, <1>7, <1>8, <1>9, <1>10 DEF m, n, more

-------------------------------------------------------------------------------
(* What the SigLevel lines of a section set together, and how the reference reads the same off them *)

\* A line decides a bit, and what it says of it.
LineDecides(line, bit) == Deciders(line.value, Len(line.value), bit) # {}
\* A SigLevel line decides a bit, and what it says of it.
LineAllows(line, bit) == SaidBy(line.value, Deciders(line.value, Len(line.value), bit), bit)

\* The setting that the lines make together.
Agreed(setting, text, lines) ==
  /\ setting \in Settings
  /\ \A bit : bit \in setting.mask <=> \E i \in lines : LineDecides(text[i], bit)
  /\ \A bit : bit \in setting.value <=>
       \E i \in lines : /\ LineDecides(text[i], bit) /\ LineAllows(text[i], bit)
                        /\ \A g \in lines : LineDecides(text[g], bit) => g <= i

\* Without lines nothing is set.
LEMMA AgreedNone == ASSUME NEW text PROVE Agreed(NoSetting, text, {})
BY DEF Agreed, NoSetting, Settings

\* A line that is not one of them changes nothing.
LEMMA AgreedSame ==
  ASSUME NEW S, NEW text \in Seq(S), NEW line \in S, NEW lines, lines \subseteq DOMAIN text,
         NEW setting, Agreed(setting, text, lines)
  PROVE  Agreed(setting, Append(text, line), lines)
<1> DEFINE more == Append(text, line)
<1>1. \A i \in lines : more[i] = text[i]
  BY AppendIndex
<1> HIDE DEF more
<1>2. QED
  BY <1>1 DEF Agreed, more

\* A SigLevel line more refines the setting: where it decides it has the last word, elsewhere the
\* lines before it keep theirs.
LEMMA AgreedMore ==
  ASSUME NEW S, NEW text \in Seq(S), NEW line \in S, NEW lines, lines \subseteq DOMAIN text,
         NEW setting, Agreed(setting, text, lines), Scoped(line.value)
  PROVE  Agreed(Refined(setting, line.value), Append(text, line), lines \cup {Len(text) + 1})
<1> DEFINE n == Len(text)
           m == n + 1
           more == Append(text, line)
           level == ParseSigLevel(line.value)
           new == Refined(setting, line.value)
<1>1. /\ n \in Nat /\ more[m] = line /\ \A j \in 1..n : more[j] = text[j]
      /\ DOMAIN text = 1..n
  BY AppendIndex
<1>2. /\ level \in Settings
      /\ \A bit : bit \in level.mask <=> LineDecides(line, bit)
      /\ \A bit : bit \in level.value <=> LineAllows(line, bit)
  BY LevelIs DEF Levels, LineDecides, LineAllows
<1>3. new = [mask |-> setting.mask \cup level.mask,
             value |-> (level.value \cap level.mask) \cup (setting.value \ level.mask)]
  BY DEF Refined, Merge
<1>4. setting \in Settings
  BY DEF Agreed
<1> HIDE DEF n, more, level, new
<1>5. new \in Settings
  BY <1>2, <1>3, <1>4 DEF Settings
<1>6. /\ \A i \in lines : more[i] = text[i] /\ i <= m /\ ~(m <= i)
      /\ more[m] = line /\ m <= m
  BY <1>1
<1> HIDE DEF m
<1>7. ASSUME NEW bit PROVE bit \in new.mask <=> \E i \in lines \cup {m} : LineDecides(more[i], bit)
  <2>1. bit \in new.mask <=> bit \in setting.mask \/ bit \in level.mask
    BY <1>3
  <2>2. bit \in setting.mask <=> \E i \in lines : LineDecides(text[i], bit)
    BY DEF Agreed
  <2>3. QED
    BY <1>2, <1>6, <2>1, <2>2
<1>8. ASSUME NEW bit
      PROVE  bit \in new.value <=>
               \E i \in lines \cup {m} : /\ LineDecides(more[i], bit) /\ LineAllows(more[i], bit)
                                         /\ \A g \in lines \cup {m} : LineDecides(more[g], bit) => g <= i
  <2>1. bit \in new.value <=> \/ bit \in level.value /\ bit \in level.mask
                              \/ bit \in setting.value /\ bit \notin level.mask
    BY <1>3
  <2>2. bit \in setting.value <=>
          \E i \in lines : /\ LineDecides(text[i], bit) /\ LineAllows(text[i], bit)
                           /\ \A g \in lines : LineDecides(text[g], bit) => g <= i
    BY DEF Agreed
  <2>3. CASE LineDecides(line, bit)
    <3>1. bit \in new.value <=> LineAllows(line, bit)
      BY <1>2, <2>1, <2>3
    <3>2. QED
      BY <1>6, <2>3, <3>1
  <2>4. CASE ~LineDecides(line, bit)
    <3>1. bit \in new.value <=> bit \in setting.value
      BY <1>2, <2>1, <2>4
    <3>2. QED
      BY <1>6, <2>2, <2>4, <3>1
  <2>5. QED
    BY <2>3, <2>4
<1>9. QED
  BY <1>5, <1>7, <1>8 DEF Agreed, new, m, n, more

-------------------------------------------------------------------------------

\* The tokens of some lines, those that decide a bit, and their order: the parts of BitsOf.
Tokens(text, lines) == UNION {{i} \X DOMAIN text[i].value : i \in lines}
TokenAt(text, p) == text[p[1]].value[p[2]]
Deciding(text, lines, bit) == {p \in Tokens(text, lines) : bit \in Decided(TokenAt(text, p))}
Precedes(q, p) == q[1] < p[1] \/ (q[1] = p[1] /\ q[2] <= p[2])

\* BitsOf in these terms.
LEMMA BitsOfIs ==
  ASSUME NEW text, NEW name, NEW enclosing
  PROVE  LET lines == Lines(text, name, "SigLevel")
         IN BitsOf(text, name, enclosing) =
              {bit \in SigBits :
                 IF Deciding(text, lines, bit) = {} THEN bit \in enclosing
                 ELSE \E p \in Deciding(text, lines, bit) :
                        bit \in Enabled(TokenAt(text, p)) /\ \A q \in Deciding(text, lines, bit) : Precedes(q, p)}
BY DEF BitsOf, Deciding, Tokens, TokenAt, Precedes

\* The tokens that decide a bit are the deciders of each of the lines.
LEMMA DecidingIs ==
  ASSUME NEW text, NEW lines, \A i \in lines : Scoped(text[i].value), NEW bit
  PROVE  /\ \A p \in Deciding(text, lines, bit) :
              p[1] \in lines /\ p[2] \in Deciders(text[p[1]].value, Len(text[p[1]].value), bit)
         /\ \A i \in lines : \A j \in Deciders(text[i].value, Len(text[i].value), bit) :
              <<i, j>> \in Deciding(text, lines, bit)
<1>1. ASSUME NEW i \in lines PROVE DOMAIN text[i].value = 1..Len(text[i].value)
  <2> DEFINE v == text[i].value
             T == ToSet(v)
  <2>1. v \in Seq(T)
    BY DEF Scoped, IsText
  <2> HIDE DEF v, T
  <2>2. DOMAIN v = 1..Len(v)
    BY <2>1
  <2>3. QED
    BY <2>2 DEF v
<1>2. ASSUME NEW p \in Deciding(text, lines, bit)
      PROVE  p[1] \in lines /\ p[2] \in Deciders(text[p[1]].value, Len(text[p[1]].value), bit)
  <2>1. PICK i \in lines : p \in {i} \X DOMAIN text[i].value
    BY Zenon DEF Deciding, Tokens
  <2>2. p[1] = i /\ p[2] \in DOMAIN text[i].value
    BY <2>1
  <2>3. bit \in Decided(text[p[1]].value[p[2]])
    BY DEF Deciding, TokenAt
  <2>4. QED
    BY <1>1, <2>2, <2>3 DEF Deciders
<1>3. ASSUME NEW i \in lines, NEW j \in Deciders(text[i].value, Len(text[i].value), bit)
      PROVE  <<i, j>> \in Deciding(text, lines, bit)
  <2>1. j \in DOMAIN text[i].value /\ bit \in Decided(text[i].value[j])
    BY <1>1 DEF Deciders
  <2>2. <<i, j>> \in {i} \X DOMAIN text[i].value
    BY <2>1
  <2>3. <<i, j>> \in Tokens(text, lines)
    BY <2>2, Zenon DEF Tokens
  <2>4. QED
    BY <2>1, <2>3 DEF Deciding, TokenAt
<1>4. QED
  BY <1>2, <1>3

\* What the setting leaves of the enclosing level is what the reference asks for.
LEMMA AgreedBits ==
  ASSUME NEW S, NEW text \in Seq(S), NEW name, NEW enclosing, NEW setting,
         enclosing \subseteq SigBits,
         \A i \in Lines(text, name, "SigLevel") : Scoped(text[i].value),
         Agreed(setting, text, Lines(text, name, "SigLevel"))
  PROVE  Merge(setting, enclosing) = BitsOf(text, name, enclosing)
<1> DEFINE lines == Lines(text, name, "SigLevel")
           Says(bit) == \E i \in lines : /\ LineDecides(text[i], bit) /\ LineAllows(text[i], bit)
                                         /\ \A g \in lines : LineDecides(text[g], bit) => g <= i
           LastWord(bit) == \E p \in Deciding(text, lines, bit) :
                          bit \in Enabled(TokenAt(text, p)) /\ \A q \in Deciding(text, lines, bit) : Precedes(q, p)
           D(i, bit) == Deciders(text[i].value, Len(text[i].value), bit)
<1>1. lines \subseteq Int
  BY LinesAreIn
<1>2. BitsOf(text, name, enclosing) =
        {bit \in SigBits : IF Deciding(text, lines, bit) = {} THEN bit \in enclosing ELSE LastWord(bit)}
  BY BitsOfIs
<1>3. /\ setting.mask \subseteq SigBits /\ setting.value \subseteq SigBits
      /\ \A bit : bit \in setting.mask <=> \E i \in lines : LineDecides(text[i], bit)
      /\ \A bit : bit \in setting.value <=> Says(bit)
  BY DEF Agreed, Settings
<1>4. \A i \in lines : Scoped(text[i].value)
  OBVIOUS
<1> HIDE DEF lines
<1>5. \A bit : /\ \A p \in Deciding(text, lines, bit) : p[1] \in lines /\ p[2] \in D(p[1], bit)
               /\ \A i \in lines : \A j \in D(i, bit) : <<i, j>> \in Deciding(text, lines, bit)
  BY <1>4, DecidingIs
<1>6. \A i, bit : LineDecides(text[i], bit) <=> D(i, bit) # {}
  BY DEF LineDecides
<1>7. \A i, bit : LineAllows(text[i], bit) <=>
                    \E j \in D(i, bit) : bit \in Enabled(text[i].value[j]) /\ \A k \in D(i, bit) : k <= j
  BY DEF LineAllows, SaidBy
<1>8. \A i, bit : D(i, bit) \subseteq Int
  BY DEF Deciders
<1> HIDE DEF D
<1>9. ASSUME NEW bit PROVE bit \in setting.mask <=> Deciding(text, lines, bit) # {}
  <2>1. ASSUME NEW i \in lines, LineDecides(text[i], bit) PROVE Deciding(text, lines, bit) # {}
    <3>1. PICK j \in D(i, bit) : TRUE
      BY <1>6, <2>1
    <3>2. QED
      BY <1>5, <3>1
  <2>2. ASSUME NEW p \in Deciding(text, lines, bit) PROVE \E i \in lines : LineDecides(text[i], bit)
    <3>1. p[1] \in lines /\ p[2] \in D(p[1], bit)
      BY <1>5
    <3>2. LineDecides(text[p[1]], bit)
      BY <1>6, <3>1
    <3>3. QED
      BY <3>1, <3>2
  <2>3. QED
    BY <1>3, <2>1, <2>2
<1>10. ASSUME NEW bit PROVE Says(bit) <=> LastWord(bit)
  <2>1. ASSUME Says(bit) PROVE LastWord(bit)
    <3>1. PICK i \in lines : /\ LineDecides(text[i], bit) /\ LineAllows(text[i], bit)
                             /\ \A g \in lines : LineDecides(text[g], bit) => g <= i
      BY <2>1
    <3>2. PICK j \in D(i, bit) : bit \in Enabled(text[i].value[j]) /\ \A k \in D(i, bit) : k <= j
      BY <1>7, <3>1
    <3>3. <<i, j>> \in Deciding(text, lines, bit) /\ bit \in Enabled(TokenAt(text, <<i, j>>))
      BY <1>5, <3>2 DEF TokenAt
    <3>4. ASSUME NEW q \in Deciding(text, lines, bit) PROVE Precedes(q, <<i, j>>)
      <4>1. q[1] \in lines /\ q[2] \in D(q[1], bit)
        BY <1>5
      <4>2. q[1] <= i
        BY <1>6, <3>1, <4>1
      <4>3. q[1] = i => q[2] <= j
        BY <3>2, <4>1
      <4>4. q[1] \in Int /\ i \in Int
        BY <1>1, <4>1
      <4>5. QED
        BY <4>2, <4>3, <4>4 DEF Precedes
    <3>5. QED
      BY <3>3, <3>4
  <2>2. ASSUME LastWord(bit) PROVE Says(bit)
    <3>1. PICK p \in Deciding(text, lines, bit) :
            bit \in Enabled(TokenAt(text, p)) /\ \A q \in Deciding(text, lines, bit) : Precedes(q, p)
      BY <2>2
    <3>2. p[1] \in lines /\ p[2] \in D(p[1], bit)
      BY <1>5
    <3>3. \A g \in lines : \A k \in D(g, bit) : g < p[1] \/ (g = p[1] /\ k <= p[2])
      <4> SUFFICES ASSUME NEW g \in lines, NEW k \in D(g, bit) PROVE g < p[1] \/ (g = p[1] /\ k <= p[2])
        OBVIOUS
      <4>1. <<g, k>> \in Deciding(text, lines, bit)
        BY <1>5
      <4>2. Precedes(<<g, k>>, p)
        BY <3>1, <4>1
      <4>3. QED
        BY <4>2 DEF Precedes
    <3>4. p[1] \in Int /\ \A k \in D(p[1], bit) : k <= p[2]
      <4>1. p[1] \in Int
        BY <1>1, <3>2
      <4>2. QED
        BY <3>2, <3>3, <4>1
    <3>5. LineDecides(text[p[1]], bit) /\ LineAllows(text[p[1]], bit)
      BY <1>6, <1>7, <3>1, <3>2, <3>4 DEF TokenAt
    <3>6. ASSUME NEW g \in lines, LineDecides(text[g], bit) PROVE g <= p[1]
      <4>1. PICK k \in D(g, bit) : TRUE
        BY <1>6, <3>6
      <4>2. g \in Int /\ p[1] \in Int
        BY <1>1, <3>2
      <4>3. QED
        BY <3>3, <4>1, <4>2
    <3>7. QED
      BY <3>2, <3>5, <3>6
  <2>3. QED
    BY <2>1, <2>2
<1>11. \A bit : Says(bit) => bit \in setting.mask
  BY <1>3
<1> HIDE DEF Says, LastWord
<1>12. QED
  BY <1>2, <1>3, <1>9, <1>10 DEF Merge

-------------------------------------------------------------------------------
(* The parser and the text.  Agreement says that what the parser remembers is what the text that it
   has read so far says; one line more keeps it, or the text is refusable however it goes on. *)

\* Nothing in the text so far is a reason to refuse it.
Sound(text) ==
  /\ \A i \in DOMAIN text : text[i].key # "unreadable"
  /\ \A i \in DOMAIN text : text[i].key = "SigLevel" /\ ~InSection(text, i, "") => Parseable(text[i].value)
  /\ \A i, j \in Headers(text) : text[i].value = text[j].value => i = j

\* What the parser keeps of a repository.
Raw(S) == [name : Values(S), servers : Seq(Values(S)), sig : Settings]

\* There is a repository for each header.
Named(S, text, repos) ==
  /\ repos \in Seq(Raw(S))
  /\ Len(repos) = Len(ValuesOf(text, Headers(text)))
  /\ \A i \in 1..Len(repos) : repos[i].name = ValuesOf(text, Headers(text))[i]
  /\ \A h \in Headers(text) : \E i \in 1..Len(repos) : repos[i].name = text[h].value
  /\ \A i \in 1..Len(repos) : \E h \in Headers(text) : repos[i].name = text[h].value
  /\ \A i, j \in 1..Len(repos) : repos[i].name = repos[j].name => i = j

\* It has what the lines of its section say.  One without a name is refused in the end.
Filled(text, name, servers, sig) ==
  name # "" => /\ servers = ValuesOf(text, Lines(text, name, "Server"))
               /\ Agreed(sig, text, Lines(text, name, "SigLevel"))

\* No header has the name.
Unused(text, name) == \A h \in Headers(text) : text[h].value # name

\* A line that may follow a text.
MayFollow(text, line) ==
  /\ line.key # "unreadable"
  /\ line.key = "SigLevel" => Parseable(line.value) \/ InSection(text, Len(text), "")
  /\ line.key = "section" /\ line.value # "options" => Unused(text, line.value)

\* A sound text stays sound with a line that may follow.
LEMMA SoundMore ==
  ASSUME NEW S, NEW text \in Seq(S), NEW line \in S, Sound(text), MayFollow(text, line)
  PROVE  Sound(Append(text, line))
<1> DEFINE n == Len(text)
           m == n + 1
           more == Append(text, line)
<1>1. /\ n \in Nat /\ more[m] = line /\ \A j \in 1..n : more[j] = text[j]
      /\ DOMAIN text = 1..n /\ DOMAIN more = 1..m
  BY AppendIndex
<1> DEFINE H == Headers(text)
           K == Headers(more)
<1>2. /\ \A i \in 1..n : InSection(more, i, "") <=> InSection(text, i, "")
      /\ line.key # "section" => (InSection(more, m, "") <=> InSection(text, n, ""))
  BY SectionOfMore
<1>3. K = H \cup (IF line.key = "section" /\ line.value # "options" THEN {m} ELSE {})
  BY HeadersOfMore
<1>4. H \subseteq 1..n
  BY <1>1 DEF Headers
<1> HIDE DEF n, more
<1>5. \A i : i \in 1..m <=> i \in 1..n \/ i = m
  <2>1. n \in Nat
    BY <1>1
  <2>2. QED
    BY <2>1
<1>6. \A i \in 1..m : more[i].key # "unreadable"
  BY <1>1, <1>5 DEF Sound, MayFollow
<1>7. \A i \in 1..m : more[i].key = "SigLevel" /\ ~InSection(more, i, "") => Parseable(more[i].value)
  <2>1. \A i \in 1..n : more[i].key = "SigLevel" /\ ~InSection(more, i, "") => Parseable(more[i].value)
    BY <1>1, <1>2 DEF Sound
  <2>2. more[m].key = "SigLevel" /\ ~InSection(more, m, "") => Parseable(more[m].value)
    BY <1>1, <1>2 DEF n, MayFollow
  <2>3. QED
    BY <1>5, <2>1, <2>2
<1>8. \A i, j \in K : more[i].value = more[j].value => i = j
  <2>1. \A i, j \in H : more[i].value = more[j].value => i = j
    BY <1>1, <1>4 DEF Sound
  <2>2. CASE line.key = "section" /\ line.value # "options"
    <3>1. K = H \cup {m} /\ \A h \in H : more[h].value # more[m].value
      BY <1>1, <1>3, <1>4, <2>2 DEF MayFollow, Unused
    <3> HIDE DEF H, K, m
    <3>2. QED
      BY <2>1, <3>1
  <2>3. CASE ~(line.key = "section" /\ line.value # "options")
    BY <1>3, <2>1, <2>3
  <2>4. QED
    BY <2>2, <2>3
<1>9. QED
  BY <1>1, <1>6, <1>7, <1>8 DEF Sound, more

\* Lines that begin no repository leave the names alone.
LEMMA NamesSame ==
  ASSUME NEW S, NEW text \in Seq(S), NEW line \in S, ~(line.key = "section" /\ line.value # "options"),
         NEW repos, Named(S, text, repos),
         NEW others, others \in Seq(Raw(S)), Len(others) = Len(repos),
         \A i \in 1..Len(repos) : others[i].name = repos[i].name
  PROVE  Named(S, Append(text, line), others)
<1> DEFINE n == Len(text)
           more == Append(text, line)
           H == Headers(text)
<1>1. \A j \in 1..n : more[j] = text[j]
  BY AppendIndex
<1>2. H \subseteq DOMAIN text /\ DOMAIN text = 1..n
  BY LinesAreIn
<1>3. Headers(more) = H
  <2>1. Headers(more) = H \cup {}
    BY HeadersOfMore
  <2>2. QED
    BY <2>1
<1>4. ValuesOf(more, H) = ValuesOf(text, H)
  BY <1>2, ValuesOfSame
<1>5. \A h \in H : more[h].value = text[h].value
  BY <1>1, <1>2
<1> HIDE DEF more, H
<1> DEFINE k == Len(repos)
           v == ValuesOf(text, H)
<1>6. /\ k = Len(v)
      /\ \A i \in 1..k : repos[i].name = v[i]
      /\ \A h \in H : \E i \in 1..k : repos[i].name = text[h].value
      /\ \A i \in 1..k : \E h \in H : repos[i].name = text[h].value
      /\ \A i, j \in 1..k : repos[i].name = repos[j].name => i = j
  BY DEF Named, H
<1>7. Len(others) = k /\ \A i \in 1..k : others[i].name = repos[i].name
  OBVIOUS
<1> HIDE DEF k, v
<1>8. /\ Len(others) = Len(v)
      /\ \A i \in 1..k : others[i].name = v[i]
  BY <1>6, <1>7
<1>9. \A h \in H : \E i \in 1..k : others[i].name = more[h].value
  BY <1>5, <1>6, <1>7
<1>10. \A i \in 1..k : \E h \in H : others[i].name = more[h].value
  BY <1>5, <1>6, <1>7
<1>11. \A i, j \in 1..k : others[i].name = others[j].name => i = j
  BY <1>6, <1>7
<1>12. QED
  BY <1>3, <1>4, <1>7, <1>8, <1>9, <1>10, <1>11, Zenon DEF Named, more, v

\* A header begins the repository of its name.
LEMMA NamesMore ==
  ASSUME NEW S, NEW text \in Seq(S), NEW line \in S, line.key = "section", line.value # "options",
         NEW repos, Named(S, text, repos),
         Unused(text, line.value)
  PROVE  Named(S, Append(text, line), Append(repos, [name |-> line.value, servers |-> <<>>, sig |-> NoSetting]))
<1> DEFINE n == Len(text)
           m == n + 1
           more == Append(text, line)
           H == Headers(text)
           new == [name |-> line.value, servers |-> <<>>, sig |-> NoSetting]
           others == Append(repos, new)
           k == Len(repos)
           v == ValuesOf(text, H)
           w == ValuesOf(more, H \cup {m})
<1>1. more[m] = line /\ \A j \in 1..n : more[j] = text[j]
  BY AppendIndex
<1>2. H \subseteq DOMAIN text /\ DOMAIN text = 1..n
  BY LinesAreIn
<1>3. Headers(more) = H \cup {m}
  BY HeadersOfMore
<1>4. w = Append(v, line.value)
  BY <1>2, ValuesOfMore
<1>5. v \in Seq(Values(S))
  BY <1>2, ValuesType
<1>6. line.value \in Values(S)
  BY DEF Values
<1>7. new \in Raw(S)
  <2>1. NoSetting \in Settings
    BY DEF NoSetting, Settings
  <2>2. <<>> \in Seq(Values(S))
    OBVIOUS
  <2>3. QED
    BY <1>6, <2>1, <2>2 DEF Raw
<1>8. new.name = line.value
  OBVIOUS
<1>9. repos \in Seq(Raw(S)) /\ k = Len(v)
  BY DEF Named
<1> HIDE DEF new, v, w
<1>10. others \in Seq(Raw(S)) /\ Len(others) = k + 1 /\ k \in Nat /\ others[k + 1] = new
       /\ \A i \in 1..k : others[i] = repos[i]
  BY <1>7, <1>9, AppendIndex
<1>11. Len(w) = k + 1 /\ w[k + 1] = line.value /\ \A i \in 1..k : w[i] = v[i]
  BY <1>4, <1>5, <1>6, <1>9, AppendIndex
<1>12. \A i : i \in 1..k + 1 <=> i \in 1..k \/ i = k + 1
  BY <1>10
<1>13. \A h \in H : more[h].value = text[h].value /\ text[h].value # line.value
  BY <1>1, <1>2 DEF Unused
<1> HIDE DEF more, others
<1>14. \A i \in 1..k + 1 : others[i].name = w[i]
  BY <1>8, <1>10, <1>11, <1>12 DEF Named, v, H
<1>15. /\ \A h \in H : \E i \in 1..k : repos[i].name = text[h].value
       /\ \A i \in 1..k : \E h \in H : repos[i].name = text[h].value
       /\ \A i, j \in 1..k : repos[i].name = repos[j].name => i = j
  BY DEF Named
<1> HIDE DEF H, k, m
<1>16. \A h \in H \cup {m} : \E i \in 1..k + 1 : others[i].name = more[h].value
  BY <1>1, <1>8, <1>10, <1>12, <1>13, <1>15
<1>17. \A i \in 1..k + 1 : \E h \in H \cup {m} : others[i].name = more[h].value
  BY <1>1, <1>8, <1>10, <1>12, <1>13, <1>15
<1>18. \A i, j \in 1..k + 1 : others[i].name = others[j].name => i = j
  <2>1. \A i \in 1..k : others[i].name # line.value
    BY <1>10, <1>13, <1>15
  <2>2. QED
    BY <1>8, <1>10, <1>12, <1>15, <2>1
<1>19. Named(S, more, others)
  <2>1. Headers(more) = H \cup {m} /\ others \in Seq(Raw(S)) /\ Len(others) = k + 1 /\ Len(w) = k + 1
    BY <1>3, <1>10, <1>11 DEF H, m
  <2>2. ValuesOf(more, H \cup {m}) = w
    BY DEF w, H, m
  <2> DEFINE K == Headers(more)
             V == ValuesOf(more, K)
  <2>3. V = w /\ K = H \cup {m}
    BY <2>1, <2>2, Zenon
  <2> HIDE DEF V
  <2>4. Len(others) = Len(V) /\ \A i \in 1..Len(others) : others[i].name = V[i]
    BY <1>14, <2>1, <2>3
  <2>5. /\ \A h \in K : \E i \in 1..Len(others) : others[i].name = more[h].value
        /\ \A i \in 1..Len(others) : \E h \in K : others[i].name = more[h].value
        /\ \A i, j \in 1..Len(others) : others[i].name = others[j].name => i = j
    BY <1>16, <1>17, <1>18, <2>1, <2>3, Zenon
  <2>6. QED
    BY <2>1, <2>4, <2>5, Zenon DEF Named, V
<1>20. QED
  BY <1>19 DEF more, others, new

-------------------------------------------------------------------------------

\* Lines of other sections change nothing in a repository.
LEMMA FilledSame ==
  ASSUME NEW S, NEW text \in Seq(S), NEW line \in S, NEW name, NEW servers, NEW sig, Filled(text, name, servers, sig),
         line.key \in {"Server", "SigLevel"} => ~InSection(Append(text, line), Len(text) + 1, name)
  PROVE  Filled(Append(text, line), name, servers, sig)
<1> DEFINE more == Append(text, line)
           P == Lines(text, name, "Server")
           Q == Lines(text, name, "SigLevel")
<1>1. Lines(more, name, "Server") = P
  <2>1. line.key # "Server" \/ ~InSection(Append(text, line), Len(text) + 1, name)
    OBVIOUS
  <2>2. QED
    BY <2>1, LinesNotMore
<1>2. Lines(more, name, "SigLevel") = Q
  <2>1. line.key # "SigLevel" \/ ~InSection(Append(text, line), Len(text) + 1, name)
    OBVIOUS
  <2>2. QED
    BY <2>1, LinesNotMore
<1>3. P \subseteq DOMAIN text /\ Q \subseteq DOMAIN text
  BY LinesAreIn
<1>4. ValuesOf(more, P) = ValuesOf(text, P)
  BY <1>3, ValuesOfSame
<1>5. name # "" => servers = ValuesOf(text, P) /\ Agreed(sig, text, Q)
  BY DEF Filled
<1>6. name # "" => Agreed(sig, more, Q)
  BY <1>3, <1>5, AgreedSame
<1> HIDE DEF P, Q, more
<1>7. name # "" => /\ servers = ValuesOf(more, Lines(more, name, "Server"))
                   /\ Agreed(sig, more, Lines(more, name, "SigLevel"))
  BY <1>1, <1>2, <1>4, <1>5, <1>6
<1>8. QED
  BY <1>7 DEF Filled, more

\* A server is added to the repository of its section,
LEMMA FilledServer ==
  ASSUME NEW S, NEW text \in Seq(S), NEW line \in S, NEW name, NEW servers, NEW sig, Filled(text, name, servers, sig),
         line.key = "Server", InSection(text, Len(text), name)
  PROVE  Filled(Append(text, line), name, Append(servers, line.value), sig)
<1> DEFINE more == Append(text, line)
           m == Len(text) + 1
           P == Lines(text, name, "Server")
           Q == Lines(text, name, "SigLevel")
<1>0. InSection(more, m, name)
  BY SectionOfMore
<1>1. Lines(more, name, "Server") = P \cup {m}
  BY <1>0, LinesOfMore
<1>2. Lines(more, name, "SigLevel") = Q
  <2>1. line.key # "SigLevel"
    OBVIOUS
  <2>2. QED
    BY <2>1, LinesNotMore
<1>3. P \subseteq DOMAIN text /\ Q \subseteq DOMAIN text
  BY LinesAreIn
<1>4. ValuesOf(more, P \cup {m}) = Append(ValuesOf(text, P), line.value)
  BY <1>3, ValuesOfMore
<1>5. name # "" => servers = ValuesOf(text, P) /\ Agreed(sig, text, Q)
  BY DEF Filled
<1>6. name # "" => Agreed(sig, more, Q)
  BY <1>3, <1>5, AgreedSame
<1> HIDE DEF P, Q, more, m
<1>7. name # "" => /\ Append(servers, line.value) = ValuesOf(more, Lines(more, name, "Server"))
                   /\ Agreed(sig, more, Lines(more, name, "SigLevel"))
  BY <1>1, <1>2, <1>4, <1>5, <1>6
<1>8. QED
  BY <1>7 DEF Filled, more

\* and so is a signature level.
LEMMA FilledSigLevel ==
  ASSUME NEW S, NEW text \in Seq(S), NEW line \in S, NEW name, NEW servers, NEW sig, Filled(text, name, servers, sig),
         line.key = "SigLevel", Scoped(line.value), InSection(text, Len(text), name)
  PROVE  Filled(Append(text, line), name, servers, Refined(sig, line.value))
<1> DEFINE more == Append(text, line)
           m == Len(text) + 1
           P == Lines(text, name, "Server")
           Q == Lines(text, name, "SigLevel")
<1>0. InSection(more, m, name)
  BY SectionOfMore
<1>1. Lines(more, name, "Server") = P
  <2>1. line.key # "Server"
    OBVIOUS
  <2>2. QED
    BY <2>1, LinesNotMore
<1>2. Lines(more, name, "SigLevel") = Q \cup {m}
  BY <1>0, LinesOfMore
<1>3. P \subseteq DOMAIN text /\ Q \subseteq DOMAIN text
  BY LinesAreIn
<1>4. ValuesOf(more, P) = ValuesOf(text, P)
  BY <1>3, ValuesOfSame
<1>5. name # "" => servers = ValuesOf(text, P) /\ Agreed(sig, text, Q)
  BY DEF Filled
<1>6. name # "" => Agreed(Refined(sig, line.value), more, Q \cup {m})
  BY <1>3, <1>5, AgreedMore
<1> HIDE DEF P, Q, more, m
<1>7. name # "" => /\ servers = ValuesOf(more, Lines(more, name, "Server"))
                   /\ Agreed(Refined(sig, line.value), more, Lines(more, name, "SigLevel"))
  BY <1>1, <1>2, <1>4, <1>5, <1>6
<1>8. QED
  BY <1>7 DEF Filled, more

\* A name that is not used yet has no lines.
LEMMA FilledNew ==
  ASSUME NEW S, NEW text \in Seq(S), NEW name, name # "options", Unused(text, name)
  PROVE  Filled(text, name, <<>>, NoSetting)
<1>1. ASSUME NEW key, NEW i \in Lines(text, name, key), name # "" PROVE FALSE
  <2> DEFINE n == Len(text)
  <2>1. i \in 1..n /\ LastHeader(text, HeadersTo(text, i), name) /\ n \in Nat
    BY InSectionIs, LinesAreIn DEF Lines
  <2>2. PICK j \in HeadersTo(text, i) : text[j].value = name
    BY <1>1, <2>1 DEF LastHeader
  <2>3. j \in 1..i /\ text[j].key = "section"
    BY DEF HeadersTo
  <2>4. DOMAIN text = 1..n
    BY LinesAreIn
  <2> HIDE DEF n
  <2>5. j \in 1..n
    BY <2>1, <2>3
  <2>6. j \in Headers(text)
    BY <2>2, <2>3, <2>4, <2>5 DEF Headers
  <2>7. QED
    BY <2>2, <2>6 DEF Unused
<1>2. name # "" => Lines(text, name, "Server") = {} /\ Lines(text, name, "SigLevel") = {}
  BY <1>1
<1>3. ValuesOf(text, {}) = <<>>
  <2>1. Cardinality({}) = 0
    BY FS_EmptySet
  <2>2. 1..Cardinality({}) = {}
    BY <2>1
  <2>3. QED
    BY <2>2 DEF ValuesOf
<1>4. QED
  BY <1>2, <1>3, AgreedNone DEF Filled

\* All repositories are filled; the last one has the name of the section; the section is where the text ends.
AllFilled(text, repos) == \A i \in 1..Len(repos) : Filled(text, repos[i].name, repos[i].servers, repos[i].sig)

LastIs(repos, current) == Len(repos) > 0 /\ repos[Len(repos)].name = current

EndsIn(text, current) == \A name : InSection(text, Len(text), name) <=> name = current

\* What the parser remembers is what the text so far says.
Agreement(S, text, current, level, repos) ==
  /\ Sound(text)
  /\ EndsIn(text, current)
  /\ current \notin {"", "options"} => LastIs(repos, current)
  /\ Agreed(level, text, Lines(text, "options", "SigLevel"))
  /\ Named(S, text, repos)
  /\ AllFilled(text, repos)

\* Where a text ends after one line more.
LEMMA EndsMore ==
  ASSUME NEW S, NEW text \in Seq(S), NEW line \in S, NEW current, EndsIn(text, current)
  PROVE  /\ line.key # "section" => EndsIn(Append(text, line), current)
         /\ line.key = "section" => EndsIn(Append(text, line), line.value)
         /\ line.key # "section" => \A name : InSection(Append(text, line), Len(text) + 1, name) <=> name = current
<1>1. Len(Append(text, line)) = Len(text) + 1
  BY AppendIndex
<1>2. \A name : InSection(Append(text, line), Len(text) + 1, name) <=>
                        IF line.key = "section" THEN name = line.value ELSE InSection(text, Len(text), name)
  BY SectionOfMore
<1> DEFINE more == Append(text, line)
           m == Len(text) + 1
<1>3. /\ line.key # "section" => \A name : InSection(more, m, name) <=> name = current
      /\ line.key = "section" => \A name : InSection(more, m, name) <=> name = line.value
  BY <1>2 DEF EndsIn
<1> HIDE DEF more, m
<1>4. Len(more) = m
  BY <1>1 DEF more, m
<1>5. QED
  BY <1>3, <1>4, Zenon DEF EndsIn, more, m

\* What a reader of the repositories needs of Named.
LEMMA NamesOfHeaders ==
  ASSUME NEW S, NEW text, NEW repos, Named(S, text, repos)
  PROVE  /\ \A i \in 1..Len(repos) : repos[i].name # "options"
         /\ repos \in Seq(Raw(S)) /\ Len(repos) \in Nat
         /\ \A i \in 1..Len(repos) : repos[i] \in Raw(S)
         /\ \A i, j \in 1..Len(repos) : repos[i].name = repos[j].name => i = j
<1>1. repos \in Seq(Raw(S)) /\ \A i \in 1..Len(repos) : \E h \in Headers(text) : repos[i].name = text[h].value
  BY DEF Named
<1>2. \A i, j \in 1..Len(repos) : repos[i].name = repos[j].name => i = j
  BY DEF Named
<1>3. \A h \in Headers(text) : text[h].value # "options"
  BY DEF Headers
<1>4. \A i \in 1..Len(repos) : repos[i].name # "options"
  BY <1>1, <1>3
<1>5. repos \in Seq(Raw(S)) /\ Len(repos) \in Nat /\ \A i \in 1..Len(repos) : repos[i] \in Raw(S)
  <2> DEFINE R == Raw(S)
  <2>1. repos \in Seq(R)
    BY <1>1
  <2> HIDE DEF R
  <2>2. Len(repos) \in Nat /\ \A i \in 1..Len(repos) : repos[i] \in R
    BY <2>1
  <2>3. QED
    BY <2>1, <2>2 DEF R
<1>6. QED
  BY <1>2, <1>4, <1>5

\* A line changes nothing for the repositories that it does not speak of.
LEMMA OthersFilled ==
  ASSUME NEW S, NEW text \in Seq(S), NEW line \in S, NEW current, EndsIn(text, current),
         NEW repos, AllFilled(text, repos), NEW i \in 1..Len(repos),
         line.key \in {"Server", "SigLevel"} => repos[i].name # current \/ repos[i].name = ""
  PROVE  Filled(Append(text, line), repos[i].name, repos[i].servers, repos[i].sig)
<1>1. Filled(text, repos[i].name, repos[i].servers, repos[i].sig)
  BY DEF AllFilled
<1>2. CASE repos[i].name = ""
  BY <1>2 DEF Filled
<1>3. CASE repos[i].name # ""
  <2>1. line.key \in {"Server", "SigLevel"} => ~InSection(Append(text, line), Len(text) + 1, repos[i].name)
    <3>1. line.key # "section" => \A name : InSection(Append(text, line), Len(text) + 1, name) <=> name = current
      BY EndsMore
    <3>2. QED
      BY <1>3, <3>1
  <2> DEFINE r == repos[i]
  <2> HIDE DEF r
  <2>2. QED
    BY <1>1, <2>1, FilledSame DEF r
<1>4. QED
  BY <1>2, <1>3

\* Lines that are no SigLevel of the options leave the global level alone; one that is refines it.
LEMMA LevelSame ==
  ASSUME NEW S, NEW text \in Seq(S), NEW line \in S, NEW current, EndsIn(text, current),
         NEW level, Agreed(level, text, Lines(text, "options", "SigLevel")),
         line.key = "SigLevel" => current # "options"
  PROVE  Agreed(level, Append(text, line), Lines(Append(text, line), "options", "SigLevel"))
<1> DEFINE Q == Lines(text, "options", "SigLevel")
<1>1. line.key # "SigLevel" \/ ~InSection(Append(text, line), Len(text) + 1, "options")
  BY EndsMore
<1>2. Lines(Append(text, line), "options", "SigLevel") = Q
  BY <1>1, LinesNotMore
<1>3. Q \subseteq DOMAIN text
  BY LinesAreIn
<1>4. Agreed(level, Append(text, line), Q)
  BY <1>3, AgreedSame
<1>5. QED
  BY <1>2, <1>4

LEMMA LevelMore ==
  ASSUME NEW S, NEW text \in Seq(S), NEW line \in S, EndsIn(text, "options"),
         NEW level, Agreed(level, text, Lines(text, "options", "SigLevel")),
         line.key = "SigLevel", Scoped(line.value)
  PROVE  Agreed(Refined(level, line.value), Append(text, line), Lines(Append(text, line), "options", "SigLevel"))
<1> DEFINE Q == Lines(text, "options", "SigLevel")
           m == Len(text) + 1
<1>1. InSection(Append(text, line), m, "options")
  BY EndsMore
<1>2. Lines(Append(text, line), "options", "SigLevel") = Q \cup {m}
  BY <1>1, LinesOfMore
<1>3. Q \subseteq DOMAIN text
  BY LinesAreIn
<1>4. Agreed(Refined(level, line.value), Append(text, line), Q \cup {m})
  BY <1>3, AgreedMore
<1>5. QED
  BY <1>2, <1>4

\* The last repository is exchanged for another.
Replaced(repos, new) == [repos EXCEPT ![Len(repos)] = new]

\* A sequence with its last member replaced.
LEMMA LastReplaced ==
  ASSUME NEW R, NEW repos \in Seq(R), Len(repos) > 0, NEW new \in R
  PROVE  /\ Replaced(repos, new) \in Seq(R) /\ Len(Replaced(repos, new)) = Len(repos)
         /\ Replaced(repos, new)[Len(repos)] = new
         /\ Len(repos) \in 1..Len(repos)
BY DEF Replaced

\* The other members stay.
LEMMA OthersStay ==
  ASSUME NEW R, NEW repos \in Seq(R), NEW new, NEW i \in 1..Len(repos), i # Len(repos)
  PROVE  Replaced(repos, new)[i] = repos[i]
BY DEF Replaced

\* There is a last position.
LEMMA LastPosition == \A n \in Nat : n > 0 => n \in 1..n
OBVIOUS

\* A repository with other servers, and with another level.
LEMMA ChangedRecords ==
  ASSUME NEW S
  PROVE  \A r \in Raw(S) : \A x :
           /\ [r EXCEPT !.servers = x] = [name |-> r.name, servers |-> x, sig |-> r.sig]
           /\ [r EXCEPT !.sig = x] = [name |-> r.name, servers |-> r.servers, sig |-> x]
BY DEF Raw

-------------------------------------------------------------------------------

\* A line that means nothing to the parser: no header, and no SigLevel or Server of a section that takes it.
LEMMA AgreementQuiet ==
  ASSUME NEW S, NEW text \in Seq(S), NEW line \in S, NEW current, NEW level, NEW repos,
         Agreement(S, text, current, level, repos),
         line.key \notin {"section", "unreadable"},
         line.key = "SigLevel" => current = "",
         line.key = "Server" => current \in {"", "options"}
  PROVE  Agreement(S, Append(text, line), current, level, repos)
<1> DEFINE more == Append(text, line)
<1>1. /\ Sound(text) /\ EndsIn(text, current)
      /\ current \notin {"", "options"} => LastIs(repos, current)
      /\ Agreed(level, text, Lines(text, "options", "SigLevel"))
      /\ Named(S, text, repos) /\ AllFilled(text, repos)
  BY DEF Agreement
<1>2. MayFollow(text, line)
  BY <1>1 DEF MayFollow, EndsIn
<1>3. Sound(more)
  BY <1>1, <1>2, SoundMore
<1>4. EndsIn(more, current)
  BY <1>1, EndsMore
<1>5. Agreed(level, more, Lines(more, "options", "SigLevel"))
  BY <1>1, LevelSame
<1>6. Named(S, more, repos)
  BY <1>1, NamesSame, NamesOfHeaders
<1>7. ASSUME NEW i \in 1..Len(repos) PROVE Filled(more, repos[i].name, repos[i].servers, repos[i].sig)
  <2>1. repos[i].name # "options"
    BY <1>1, NamesOfHeaders
  <2>2. line.key \in {"Server", "SigLevel"} => repos[i].name # current \/ repos[i].name = ""
    BY <2>1
  <2>3. QED
    BY <1>1, <2>2, OthersFilled
<1>8. AllFilled(more, repos)
  BY <1>7 DEF AllFilled
<1> HIDE DEF more
<1>9. QED
  BY <1>1, <1>3, <1>4, <1>5, <1>6, <1>8 DEF Agreement, more

\* A SigLevel of the options.
LEMMA AgreementOptions ==
  ASSUME NEW S, NEW text \in Seq(S), NEW line \in S, NEW level, NEW repos,
         Agreement(S, text, "options", level, repos),
         line.key = "SigLevel", Scoped(line.value), Parseable(line.value)
  PROVE  Agreement(S, Append(text, line), "options", Refined(level, line.value), repos)
<1> DEFINE more == Append(text, line)
<1>1. /\ Sound(text) /\ EndsIn(text, "options")
      /\ Agreed(level, text, Lines(text, "options", "SigLevel"))
      /\ Named(S, text, repos) /\ AllFilled(text, repos)
  BY DEF Agreement
<1>2. MayFollow(text, line)
  BY DEF MayFollow
<1>3. Sound(more)
  BY <1>1, <1>2, SoundMore
<1>4. EndsIn(more, "options")
  BY <1>1, EndsMore
<1>5. Agreed(Refined(level, line.value), more, Lines(more, "options", "SigLevel"))
  BY <1>1, LevelMore
<1>6. Named(S, more, repos)
  BY <1>1, NamesSame, NamesOfHeaders
<1>7. ASSUME NEW i \in 1..Len(repos) PROVE Filled(more, repos[i].name, repos[i].servers, repos[i].sig)
  <2>1. repos[i].name # "options"
    BY <1>1, NamesOfHeaders
  <2>2. QED
    BY <1>1, <2>1, OthersFilled
<1>8. AllFilled(more, repos)
  BY <1>7 DEF AllFilled
<1> HIDE DEF more
<1>9. QED
  BY <1>3, <1>4, <1>5, <1>6, <1>8 DEF Agreement, more

\* A line that changes the repository of the section.
LEMMA AgreementLast ==
  ASSUME NEW S, NEW text \in Seq(S), NEW line \in S, NEW current, NEW level, NEW repos,
         Agreement(S, text, current, level, repos), current \notin {"", "options"},
         line.key # "section", MayFollow(text, line),
         NEW new \in Raw(S), new.name = current,
         Filled(Append(text, line), new.name, new.servers, new.sig)
  PROVE  Agreement(S, Append(text, line), current, level, Replaced(repos, new))
<1> DEFINE more == Append(text, line)
           n == Len(repos)
           others == Replaced(repos, new)
<1>1. /\ Sound(text) /\ EndsIn(text, current) /\ LastIs(repos, current)
      /\ Agreed(level, text, Lines(text, "options", "SigLevel"))
      /\ Named(S, text, repos) /\ AllFilled(text, repos)
  BY DEF Agreement
<1>2. /\ repos \in Seq(Raw(S)) /\ n \in Nat
      /\ \A i \in 1..n : repos[i].name # "options"
      /\ \A i, j \in 1..n : repos[i].name = repos[j].name => i = j
  BY <1>1, NamesOfHeaders
<1>3. /\ others \in Seq(Raw(S)) /\ Len(others) = n /\ others[n] = new
      /\ n \in 1..n
      /\ \A i \in 1..n : i # n => others[i] = repos[i]
  <2> DEFINE R == Raw(S)
  <2>1. repos \in Seq(R) /\ new \in R /\ n > 0
    BY <1>1, <1>2 DEF LastIs
  <2> HIDE DEF R
  <2>2. others \in Seq(R) /\ Len(others) = n /\ others[n] = new /\ n \in 1..n
        /\ \A i \in 1..n : i # n => others[i] = repos[i]
    <3>1. n > 0 /\ repos \in Seq(R) /\ new \in R
      BY <2>1
    <3>2. others \in Seq(R) /\ Len(others) = n
      BY <3>1, LastReplaced, Zenon
    <3>3. others[n] = new
      BY <3>1, LastReplaced, Zenon
    <3>4. n \in 1..n
      BY <3>1, LastReplaced, Zenon
    <3>5. \A i \in 1..n : i # n => others[i] = repos[i]
      <4> SUFFICES ASSUME NEW i \in 1..n, i # n PROVE others[i] = repos[i]
        OBVIOUS
      <4>1. QED
        BY <3>1, OthersStay, Zenon
    <3>6. QED
      BY <3>2, <3>3, <3>4, <3>5
  <2>3. QED
    BY <2>2 DEF R
<1>4. repos[n].name = current
  BY <1>1 DEF LastIs
<1>5. Sound(more)
  BY <1>1, SoundMore
<1>6. EndsIn(more, current)
  BY <1>1, EndsMore
<1>7. Agreed(level, more, Lines(more, "options", "SigLevel"))
  BY <1>1, LevelSame
<1> HIDE DEF others, n
<1>8. \A i \in 1..n : others[i].name = repos[i].name
  BY <1>3, <1>4
<1>9. Named(S, more, others)
  BY <1>1, <1>3, <1>8, NamesSame DEF n
<1>10. ASSUME NEW i \in 1..n PROVE Filled(more, others[i].name, others[i].servers, others[i].sig)
  <2>1. CASE i = n
    BY <1>3, <2>1
  <2>2. CASE i # n
    <3>1. repos[i].name # current
      BY <1>2, <1>3, <1>4, <2>2
    <3>2. Filled(more, repos[i].name, repos[i].servers, repos[i].sig)
      BY <1>1, <3>1, OthersFilled DEF n
    <3>3. others[i] = repos[i]
      BY <1>3, <2>2
    <3>4. QED
      BY <3>2, <3>3
  <2>3. QED
    BY <2>1, <2>2
<1>11. AllFilled(more, others)
  BY <1>3, <1>10 DEF AllFilled
<1>12. LastIs(others, current)
  <2>1. Len(others) = n /\ others[n].name = current
    BY <1>3
  <2>2. n > 0
    BY <1>1 DEF LastIs, n
  <2>3. QED
    BY <2>1, <2>2, Zenon DEF LastIs
<1> HIDE DEF more
<1>13. Agreement(S, more, current, level, others)
  BY <1>5, <1>6, <1>7, <1>9, <1>11, <1>12 DEF Agreement
<1>14. QED
  BY <1>13 DEF more, others, n

\* A server of the repository that was begun last.
LEMMA AgreementServer ==
  ASSUME NEW S, NEW text \in Seq(S), NEW line \in S, NEW current, NEW level, NEW repos,
         Agreement(S, text, current, level, repos), current \notin {"", "options"}, line.key = "Server"
  PROVE  Agreement(S, Append(text, line), current, level,
                   [repos EXCEPT ![Len(repos)].servers = Append(@, line.value)])
<1> DEFINE n == Len(repos)
           last == repos[n]
           new == [name |-> last.name, servers |-> Append(last.servers, line.value), sig |-> last.sig]
<1>1. /\ EndsIn(text, current) /\ LastIs(repos, current) /\ Named(S, text, repos) /\ AllFilled(text, repos)
  BY DEF Agreement
<1>2. n \in 1..n /\ last \in Raw(S) /\ last.name = current
  <2>1. n \in Nat /\ n > 0 /\ \A i \in 1..n : repos[i] \in Raw(S)
    BY <1>1, NamesOfHeaders DEF LastIs
  <2>2. n \in 1..n
    BY <2>1, LastPosition, Zenon
  <2>3. last.name = current
    BY <1>1 DEF LastIs
  <2>4. QED
    BY <2>1, <2>2, <2>3
<1>3. Filled(text, last.name, last.servers, last.sig)
  BY <1>1, <1>2 DEF AllFilled
<1>4. [repos EXCEPT ![n].servers = Append(@, line.value)] = Replaced(repos, new)
  <2>1. [last EXCEPT !.servers = Append(last.servers, line.value)] = new
    BY <1>2, ChangedRecords, Zenon
  <2>2. [repos EXCEPT ![n].servers = Append(@, line.value)] =
          [repos EXCEPT ![n] = [last EXCEPT !.servers = Append(last.servers, line.value)]]
    OBVIOUS
  <2> HIDE DEF new
  <2>3. QED
    BY <2>1, <2>2 DEF Replaced
<1>5. new \in Raw(S) /\ new.name = last.name /\ new.servers = Append(last.servers, line.value) /\ new.sig = last.sig
  <2>1. line.value \in Values(S)
    BY DEF Values
  <2> DEFINE V == Values(S)
  <2>2. last.name \in V /\ last.servers \in Seq(V) /\ last.sig \in Settings
    BY <1>2 DEF Raw
  <2> HIDE DEF V, last
  <2> DEFINE v == line.value
             s == last.servers
  <2>3. v \in V /\ s \in Seq(V)
    BY <2>1, <2>2 DEF V
  <2> HIDE DEF v, s
  <2>4. Append(s, v) \in Seq(V)
    BY <2>3, AppendIndex
  <2>5. QED
    BY <2>2, <2>4 DEF Raw, V, v, s
<1>6. MayFollow(text, line)
  BY DEF MayFollow
<1>7. InSection(text, Len(text), last.name)
  BY <1>1, <1>2 DEF EndsIn
<1> HIDE DEF last
<1>8. Filled(Append(text, line), last.name, Append(last.servers, line.value), last.sig)
  BY <1>3, <1>7, FilledServer
<1> HIDE DEF new
<1>9. Filled(Append(text, line), new.name, new.servers, new.sig)
  BY <1>5, <1>8
<1>10. Agreement(S, Append(text, line), current, level, Replaced(repos, new))
  BY <1>2, <1>5, <1>6, <1>9, AgreementLast
<1>11. QED
  BY <1>4, <1>10

\* A SigLevel of the repository that was begun last.
LEMMA AgreementSigLevel ==
  ASSUME NEW S, NEW text \in Seq(S), NEW line \in S, NEW current, NEW level, NEW repos,
         Agreement(S, text, current, level, repos), current \notin {"", "options"}, line.key = "SigLevel",
         Scoped(line.value), Parseable(line.value)
  PROVE  Agreement(S, Append(text, line), current, level,
                   [repos EXCEPT ![Len(repos)].sig = Refined(@, line.value)])
<1> DEFINE n == Len(repos)
           last == repos[n]
           new == [name |-> last.name, servers |-> last.servers, sig |-> Refined(last.sig, line.value)]
<1>1. /\ EndsIn(text, current) /\ LastIs(repos, current) /\ Named(S, text, repos) /\ AllFilled(text, repos)
  BY DEF Agreement
<1>2. n \in 1..n /\ last \in Raw(S) /\ last.name = current
  <2>1. n \in Nat /\ n > 0 /\ \A i \in 1..n : repos[i] \in Raw(S)
    BY <1>1, NamesOfHeaders DEF LastIs
  <2>2. n \in 1..n
    BY <2>1, LastPosition, Zenon
  <2>3. last.name = current
    BY <1>1 DEF LastIs
  <2>4. QED
    BY <2>1, <2>2, <2>3
<1>3. Filled(text, last.name, last.servers, last.sig)
  BY <1>1, <1>2 DEF AllFilled
<1>4. [repos EXCEPT ![n].sig = Refined(@, line.value)] = Replaced(repos, new)
  <2>1. [last EXCEPT !.sig = Refined(last.sig, line.value)] = new
    BY <1>2, ChangedRecords, Zenon
  <2>2. [repos EXCEPT ![n].sig = Refined(@, line.value)] =
          [repos EXCEPT ![n] = [last EXCEPT !.sig = Refined(last.sig, line.value)]]
    OBVIOUS
  <2> HIDE DEF new
  <2>3. QED
    BY <2>1, <2>2 DEF Replaced
<1>5. new \in Raw(S) /\ new.name = last.name /\ new.servers = last.servers /\ new.sig = Refined(last.sig, line.value)
  <2>1. last.name \in Values(S) /\ last.servers \in Seq(Values(S)) /\ last.sig \in Settings
    BY <1>2 DEF Raw
  <2>2. ParseSigLevel(line.value) \in Settings
    BY LevelIs DEF Levels
  <2> HIDE DEF last
  <2>3. Refined(last.sig, line.value) \in Settings
    BY <2>1, <2>2 DEF Refined, Merge, Settings
  <2>4. QED
    BY <2>1, <2>3 DEF Raw
<1>6. MayFollow(text, line)
  BY DEF MayFollow
<1>7. InSection(text, Len(text), last.name)
  BY <1>1, <1>2 DEF EndsIn
<1> HIDE DEF last
<1>8. Filled(Append(text, line), last.name, last.servers, Refined(last.sig, line.value))
  BY <1>3, <1>7, FilledSigLevel
<1> HIDE DEF new
<1>9. Filled(Append(text, line), new.name, new.servers, new.sig)
  BY <1>5, <1>8
<1>10. Agreement(S, Append(text, line), current, level, Replaced(repos, new))
  BY <1>2, <1>5, <1>6, <1>9, AgreementLast
<1>11. QED
  BY <1>4, <1>10

\* The options begin (again).
LEMMA AgreementOptionsBegin ==
  ASSUME NEW S, NEW text \in Seq(S), NEW line \in S, NEW current, NEW level, NEW repos,
         Agreement(S, text, current, level, repos), line.key = "section", line.value = "options"
  PROVE  Agreement(S, Append(text, line), line.value, level, repos)
<1> DEFINE more == Append(text, line)
<1>1. /\ Sound(text) /\ EndsIn(text, current)
      /\ Agreed(level, text, Lines(text, "options", "SigLevel"))
      /\ Named(S, text, repos) /\ AllFilled(text, repos)
  BY DEF Agreement
<1>2. MayFollow(text, line)
  BY DEF MayFollow
<1>3. Sound(more)
  BY <1>1, <1>2, SoundMore
<1>4. EndsIn(more, line.value)
  BY <1>1, EndsMore
<1>5. Agreed(level, more, Lines(more, "options", "SigLevel"))
  BY <1>1, LevelSame
<1>6. Named(S, more, repos)
  BY <1>1, NamesSame, NamesOfHeaders
<1>7. ASSUME NEW i \in 1..Len(repos) PROVE Filled(more, repos[i].name, repos[i].servers, repos[i].sig)
  BY <1>1, OthersFilled
<1>8. AllFilled(more, repos)
  BY <1>7 DEF AllFilled
<1> HIDE DEF more
<1>9. QED
  BY <1>3, <1>4, <1>5, <1>6, <1>8 DEF Agreement, more

\* A repository begins.
LEMMA AgreementBegin ==
  ASSUME NEW S, NEW text \in Seq(S), NEW line \in S, NEW current, NEW level, NEW repos,
         Agreement(S, text, current, level, repos), line.key = "section", line.value # "options",
         Unused(text, line.value)
  PROVE  Agreement(S, Append(text, line), line.value, level,
                   Append(repos, [name |-> line.value, servers |-> <<>>, sig |-> NoSetting]))
<1> DEFINE more == Append(text, line)
           new == [name |-> line.value, servers |-> <<>>, sig |-> NoSetting]
           others == Append(repos, new)
           n == Len(repos)
<1>1. /\ Sound(text) /\ EndsIn(text, current)
      /\ Agreed(level, text, Lines(text, "options", "SigLevel"))
      /\ Named(S, text, repos) /\ AllFilled(text, repos)
  BY DEF Agreement
<1>2. MayFollow(text, line)
  BY DEF MayFollow
<1>3. Sound(more)
  BY <1>1, <1>2, SoundMore
<1>4. EndsIn(more, line.value)
  BY <1>1, EndsMore
<1>5. Agreed(level, more, Lines(more, "options", "SigLevel"))
  BY <1>1, LevelSame
<1>6. Named(S, more, others)
  BY <1>1, NamesMore
<1>7. repos \in Seq(Raw(S)) /\ n \in Nat
  BY <1>1, NamesOfHeaders
<1>8. new \in Raw(S)
  <2>1. NoSetting \in Settings
    BY DEF NoSetting, Settings
  <2>2. line.value \in Values(S)
    BY DEF Values
  <2>3. <<>> \in Seq(Values(S))
    OBVIOUS
  <2>4. QED
    BY <2>1, <2>2, <2>3 DEF Raw
<1>9. Len(others) = n + 1 /\ others[n + 1] = new /\ \A i \in 1..n : others[i] = repos[i]
  <2> HIDE DEF new
  <2>1. QED
    BY <1>7, <1>8, AppendIndex
<1>10. new.name = line.value /\ new.servers = <<>> /\ new.sig = NoSetting
  OBVIOUS
<1>11. Filled(more, line.value, <<>>, NoSetting)
  <2>1. Filled(text, line.value, <<>>, NoSetting)
    BY FilledNew
  <2> DEFINE v == line.value
             none == <<>>
  <2>2. line.key \notin {"Server", "SigLevel"} /\ Filled(text, v, none, NoSetting)
    BY <2>1
  <2> HIDE DEF v, none
  <2>3. Filled(more, v, none, NoSetting)
    BY <2>2, FilledSame
  <2>4. QED
    BY <2>3 DEF v, none
<1>12. \A i : i \in 1..n + 1 => i \in 1..n \/ i = n + 1
  BY <1>7
<1> HIDE DEF others, new
<1>13. ASSUME NEW i \in 1..n + 1 PROVE Filled(more, others[i].name, others[i].servers, others[i].sig)
  <2>1. CASE i = n + 1
    <3>1. others[i].name = line.value /\ others[i].servers = <<>> /\ others[i].sig = NoSetting
      BY <1>9, <1>10, <2>1
    <3>2. QED
      BY <1>11, <3>1
  <2>2. CASE i \in 1..n
    <3>1. Filled(more, repos[i].name, repos[i].servers, repos[i].sig)
      <4>1. line.key \notin {"Server", "SigLevel"}
        OBVIOUS
      <4>2. QED
        BY <1>1, <2>2, <4>1, OthersFilled
    <3>2. others[i] = repos[i]
      BY <1>9, <2>2
    <3>3. QED
      BY <3>1, <3>2
  <2>3. QED
    BY <1>12, <2>1, <2>2
<1>14. AllFilled(more, others)
  BY <1>9, <1>13 DEF AllFilled
<1>15. LastIs(others, line.value)
  <2>1. Len(others) > 0
    BY <1>7, <1>9
  <2>2. others[Len(others)].name = line.value
    BY <1>9, <1>10
  <2>3. QED
    BY <2>1, <2>2 DEF LastIs
<1> HIDE DEF more, n
<1>16. Agreement(S, more, line.value, level, others)
  BY <1>3, <1>4, <1>5, <1>6, <1>14, <1>15 DEF Agreement
<1>17. QED
  BY <1>16 DEF more, others, new

\* Before the first line there is nothing to agree on.
LEMMA AgreementStart == ASSUME NEW S PROVE Agreement(S, <<>>, "", NoSetting, <<>>)
<1> DEFINE text == <<>>
<1>1. /\ Headers(text) = {} /\ DOMAIN text = {} /\ Len(text) = 0 /\ text \in Seq(S)
      /\ \A name, key : Lines(text, name, key) = {}
  BY DEF Headers, Lines
<1>2. Sound(text)
  BY <1>1 DEF Sound
<1>3. EndsIn(text, "")
  <2>1. HeadersTo(text, 0) = {}
    BY DEF HeadersTo
  <2>2. \A name : LastHeader(text, HeadersTo(text, 0), name) <=> name = ""
    BY <2>1 DEF LastHeader
  <2>3. QED
    BY <1>1, <2>2, InSectionIs DEF EndsIn
<1>4. Agreed(NoSetting, text, Lines(text, "options", "SigLevel"))
  BY <1>1, AgreedNone
<1>5. Named(S, text, text)
  <2>1. Len(ValuesOf(text, {})) = 0
    <3>1. ValuesOf(text, {}) \in Seq(Values(S)) /\ Len(ValuesOf(text, {})) = Cardinality({})
      BY <1>1, ValuesType
    <3>2. Cardinality({}) = 0
      BY FS_EmptySet
    <3>3. QED
      BY <3>1, <3>2
  <2>2. text \in Seq(Raw(S)) /\ 1..0 = {}
    OBVIOUS
  <2>3. QED
    BY <1>1, <2>1, <2>2 DEF Named
<1>6. AllFilled(text, text)
  BY <1>1 DEF AllFilled
<1> HIDE DEF text
<1>7. Agreement(S, text, "", NoSetting, text)
  BY <1>2, <1>3, <1>4, <1>5, <1>6 DEF Agreement
<1>8. QED
  BY <1>7 DEF text

-------------------------------------------------------------------------------

\* What cannot be made out in a beginning of the text cannot in all of it.
LEMMA RefusedBefore ==
  ASSUME NEW S, NEW text \in Seq(S), NEW rest \in Seq(S), ~Sound(text)
  PROVE  Refusable(Join(text, rest))
<1> DEFINE n == Len(text)
           whole == Join(text, rest)
<1>1. /\ n \in Nat /\ DOMAIN text = 1..n /\ \A i \in 1..n : whole[i] = text[i]
  BY JoinLeft, LinesAreIn
<1>2. \A i \in 1..n : i \in DOMAIN whole
  <2>1. whole \in Seq(S)
    BY JoinType
  <2>2. Len(whole) = n + Len(rest) /\ Len(rest) \in Nat
    BY JoinLength
  <2>3. DOMAIN whole = 1..Len(whole)
    BY <2>1, LinesAreIn
  <2> DEFINE k == Len(rest)
  <2>4. DOMAIN whole = 1..n + k /\ n \in Nat /\ k \in Nat
    BY <1>1, <2>2, <2>3
  <2> HIDE DEF n, k, whole
  <2>5. QED
    BY <2>4
<1> HIDE DEF n, whole
<1>3. ASSUME NEW i \in 1..n PROVE InSection(whole, i, "") <=> InSection(text, i, "")
  <2>1. i \in Nat /\ \A j \in 1..i : j \in 1..n
    BY <1>1
  <2>2. \A j \in 1..i : whole[j] = text[j]
    BY <1>1, <2>1
  <2>3. QED
    BY <2>1, <2>2, SameSections
<1>4. CASE \E i \in 1..n : text[i].key = "unreadable"
  BY <1>1, <1>2, <1>4 DEF Refusable, whole
<1>5. CASE \E i \in 1..n : text[i].key = "SigLevel" /\ ~InSection(text, i, "") /\ ~Parseable(text[i].value)
  <2>1. PICK i \in 1..n : text[i].key = "SigLevel" /\ ~InSection(text, i, "") /\ ~Parseable(text[i].value)
    BY <1>5
  <2>2. /\ i \in DOMAIN whole /\ whole[i].key = "SigLevel" /\ ~InSection(whole, i, "")
        /\ ~Parseable(whole[i].value)
    BY <1>1, <1>2, <1>3, <2>1
  <2>3. Refusable(whole)
    BY <2>2, Zenon DEF Refusable
  <2>4. QED
    BY <2>3 DEF whole
<1>6. CASE \E i, j \in Headers(text) : text[i].value = text[j].value /\ i # j
  <2>1. PICK i, j \in Headers(text) : text[i].value = text[j].value /\ i # j
    BY <1>6
  <2>2. /\ i \in 1..n /\ text[i].key = "section" /\ text[i].value # "options"
        /\ j \in 1..n /\ text[j].key = "section" /\ text[j].value # "options"
    BY <1>1 DEF Headers
  <2>3. i \in Headers(whole) /\ j \in Headers(whole) /\ whole[i].value = whole[j].value
    BY <1>1, <1>2, <2>1, <2>2 DEF Headers
  <2>4. Refusable(whole)
    BY <2>1, <2>3, Zenon DEF Refusable
  <2>5. QED
    BY <2>4 DEF whole
<1>7. QED
  BY <1>1, <1>4, <1>5, <1>6, Zenon DEF Sound

\* The lines at which the parser stops.
Stops(text, current, line) ==
  \/ line.key = "unreadable"
  \/ line.key = "SigLevel" /\ current # "" /\ ~Parseable(line.value)
  \/ line.key = "section" /\ line.value # "options" /\ ~Unused(text, line.value)

\* A line at which the parser stops makes the text unsound.
LEMMA NotSound ==
  ASSUME NEW S, NEW text \in Seq(S), NEW line \in S, NEW current, EndsIn(text, current), Stops(text, current, line)
  PROVE  ~Sound(Append(text, line))
<1> DEFINE n == Len(text)
           m == n + 1
           more == Append(text, line)
<1>1. /\ n \in Nat /\ more[m] = line /\ \A j \in 1..n : more[j] = text[j]
      /\ DOMAIN text = 1..n /\ DOMAIN more = 1..m
  BY AppendIndex
<1>2. m \in DOMAIN more
  <2> HIDE DEF n
  <2>1. QED
    BY <1>1
<1>3. CASE line.key = "unreadable"
  <2> HIDE DEF more, m
  <2>1. QED
    BY <1>1, <1>2, <1>3 DEF Sound, more
<1>4. CASE line.key = "SigLevel" /\ current # "" /\ ~Parseable(line.value)
  <2>1. ~InSection(more, m, "")
    <3>1. line.key # "section" => \A name : InSection(more, m, name) <=> name = current
      BY EndsMore
    <3>2. QED
      BY <1>4, <3>1
  <2> HIDE DEF more, m
  <2>2. ~Sound(more)
    BY <1>1, <1>2, <1>4, <2>1 DEF Sound
  <2>3. QED
    BY <2>2 DEF more
<1>5. CASE line.key = "section" /\ line.value # "options" /\ ~Unused(text, line.value)
  <2>1. PICK h \in Headers(text) : text[h].value = line.value
    BY <1>5 DEF Unused
  <2>2. h \in 1..n /\ text[h].key = "section" /\ text[h].value # "options"
    BY <1>1 DEF Headers
  <2>3. h # m /\ h \in 1..m
    <3>1. n \in Nat
      BY <1>1
    <3> HIDE DEF n
    <3>2. QED
      BY <2>2, <3>1
  <2> HIDE DEF more, m, n
  <2>4. h \in Headers(more) /\ m \in Headers(more) /\ more[h].value = more[m].value
    BY <1>1, <1>2, <1>5, <2>1, <2>2, <2>3 DEF Headers
  <2>5. ~Sound(more)
    BY <2>3, <2>4 DEF Sound
  <2>6. QED
    BY <2>5 DEF more
<1>6. QED
  BY <1>3, <1>4, <1>5 DEF Stops

-------------------------------------------------------------------------------
(* The result: an agreement on the whole text is what Finish needs to return what is written *)

\* The SigLevel lines of S name known scopes.
ScopedLines(S) == \A line \in S : line.key = "SigLevel" => Scoped(line.value)

\* A repository without servers is one whose section names none.
LEMMA ServersOf ==
  ASSUME NEW S, NEW text \in Seq(S), NEW name
  PROVE  ValuesOf(text, Lines(text, name, "Server")) = <<>> <=> Lines(text, name, "Server") = {}
<1> DEFINE P == Lines(text, name, "Server")
           v == ValuesOf(text, P)
<1>1. P \subseteq DOMAIN text
  BY LinesAreIn
<1>2. v \in Seq(Values(S)) /\ Len(v) = Cardinality(P) /\ IsFiniteSet(P)
  BY <1>1, ValuesType, PositionsAreFinite
<1>3. Cardinality(P) = 0 <=> P = {}
  BY <1>2, FS_EmptySet
<1> HIDE DEF P, v
<1>4. v = <<>> <=> Len(v) = 0
  <2> DEFINE V == Values(S)
  <2>1. v \in Seq(V)
    BY <1>2
  <2> HIDE DEF V
  <2>2. QED
    BY <2>1
<1>5. v = <<>> <=> P = {}
  BY <1>2, <1>3, <1>4
<1>6. QED
  BY <1>5 DEF P, v

\* The condition of Finish for an error.
Rejected(repos) == \E i \in DOMAIN repos : repos[i].name \in UnsafeNames \/ repos[i].servers = <<>>

\* It is what the reference says of the headers,
LEMMA FinishRefused ==
  ASSUME NEW S, NEW text \in Seq(S), NEW current, NEW level, NEW repos,
         Agreement(S, text, current, level, repos)
  PROVE  Rejected(repos) <=> \E i \in Headers(text) : text[i].value \in UnsafeNames
                                                        \/ Lines(text, text[i].value, "Server") = {}
<1> DEFINE n == Len(repos)
           H == Headers(text)
<1>1. Named(S, text, repos) /\ AllFilled(text, repos)
  BY DEF Agreement
<1>2. repos \in Seq(Raw(S)) /\ n \in Nat
  BY <1>1, NamesOfHeaders
<1>3. DOMAIN repos = 1..n
  <2> DEFINE R == Raw(S)
  <2>1. repos \in Seq(R)
    BY <1>2
  <2> HIDE DEF R
  <2>2. QED
    BY <2>1
<1>4. /\ \A h \in H : \E i \in 1..n : repos[i].name = text[h].value
      /\ \A i \in 1..n : \E h \in H : repos[i].name = text[h].value
  BY <1>1 DEF Named
<1>5. "" \in UnsafeNames
  BY RepositoriesAssumption, Zenon
<1>6. \A i \in 1..n : repos[i].name # "" => (repos[i].servers = <<>> <=> Lines(text, repos[i].name, "Server") = {})
  <2> SUFFICES ASSUME NEW i \in 1..n, repos[i].name # ""
               PROVE  repos[i].servers = <<>> <=> Lines(text, repos[i].name, "Server") = {}
    OBVIOUS
  <2>1. repos[i].servers = ValuesOf(text, Lines(text, repos[i].name, "Server"))
    BY <1>1 DEF AllFilled, Filled
  <2> DEFINE name == repos[i].name
  <2>2. ValuesOf(text, Lines(text, name, "Server")) = <<>> <=> Lines(text, name, "Server") = {}
    BY ServersOf
  <2>3. QED
    BY <2>1, <2>2
<1> HIDE DEF n, H
<1> DEFINE Bad(i) == repos[i].name \in UnsafeNames \/ repos[i].servers = <<>>
           Wrong(h) == text[h].value \in UnsafeNames \/ Lines(text, text[h].value, "Server") = {}
<1>7. ASSUME NEW i \in 1..n, NEW h \in H, repos[i].name = text[h].value PROVE Bad(i) <=> Wrong(h)
  <2>1. CASE repos[i].name = ""
    BY <1>5, <1>7, <2>1
  <2>2. CASE repos[i].name # ""
    BY <1>6, <1>7, <2>2
  <2>3. QED
    BY <2>1, <2>2
<1> HIDE DEF Bad, Wrong
<1>8. (\E i \in 1..n : Bad(i)) <=> \E h \in H : Wrong(h)
  BY <1>4, <1>7, Zenon
<1>9. QED
  BY <1>3, <1>8 DEF Bad, Wrong, Rejected, H

\* and, the text being sound so far, all that can be refused.
LEMMA FinishRefusable ==
  ASSUME NEW S, NEW text \in Seq(S), NEW current, NEW level, NEW repos,
         Agreement(S, text, current, level, repos)
  PROVE  Rejected(repos) <=> Refusable(text)
<1>1. Rejected(repos) <=> \E i \in Headers(text) : text[i].value \in UnsafeNames
                                                     \/ Lines(text, text[i].value, "Server") = {}
  BY FinishRefused
<1>2. Sound(text)
  BY DEF Agreement
<1>3. ~(\E i \in DOMAIN text : \/ text[i].key = "unreadable"
                               \/ text[i].key = "SigLevel" /\ ~InSection(text, i, "") /\ ~Parseable(text[i].value))
  BY <1>2, Zenon DEF Sound
<1>4. ~(\E i, j \in Headers(text) : i # j /\ text[i].value = text[j].value)
  BY <1>2, Zenon DEF Sound
<1>5. QED
  BY <1>1, <1>3, <1>4, Zenon DEF Refusable

-------------------------------------------------------------------------------

\* The result of Finish.
Finished(repos, level, known, gpg) ==
  [repositories |-> [i \in DOMAIN repos |->
     [name |-> repos[i].name, sig_level |-> Merge(repos[i].sig, level),
      servers |-> [j \in DOMAIN repos[i].servers |-> <<repos[i].servers[j], repos[i].name, known[1]>>]]],
   architectures |-> known, default_sig_level |-> level, gpg_directory |-> gpg]

\* The result is what the reference reads off the text.
Matches(text, res) ==
  LET level == BitsOf(text, "options", kPacmanDefaultSigLevel)
  IN /\ res.default_sig_level = level
     /\ [i \in DOMAIN res.repositories |-> res.repositories[i].name] = ValuesOf(text, Headers(text))
     /\ \A i \in DOMAIN res.repositories :
          LET repository == res.repositories[i]
              servers    == ValuesOf(text, Lines(text, repository.name, "Server"))
          IN /\ repository.sig_level = BitsOf(text, repository.name, level)
             /\ repository.servers = [j \in DOMAIN servers |->
                                        <<servers[j], repository.name, res.architectures[1]>>]

\* The default is a set of bits.
LEMMA DefaultBits == kPacmanDefaultSigLevel \subseteq SigBits
BY Zenon DEF kPacmanDefaultSigLevel, SigBits

\* The tokens of the SigLevel lines name known scopes.
LEMMA LinesAreScoped ==
  ASSUME NEW S, ScopedLines(S), NEW text \in Seq(S), NEW name
  PROVE  \A i \in Lines(text, name, "SigLevel") : Scoped(text[i].value)
<1> SUFFICES ASSUME NEW i \in Lines(text, name, "SigLevel") PROVE Scoped(text[i].value)
  OBVIOUS
<1>1. i \in DOMAIN text /\ text[i].key = "SigLevel"
  BY DEF Lines
<1>2. text[i] \in S
  BY <1>1
<1>3. QED
  BY <1>1, <1>2, Zenon DEF ScopedLines

\* What Finish returns is what the reference reads off the text.
LEMMA FinishMatches ==
  ASSUME NEW S, ScopedLines(S), NEW text \in Seq(S), NEW current, NEW setting, NEW repos, NEW known, NEW gpg,
         Agreement(S, text, current, setting, repos), ~Rejected(repos)
  PROVE  Matches(text, Finished(repos, Merge(setting, kPacmanDefaultSigLevel), known, gpg))
<1> DEFINE n == Len(repos)
           level == Merge(setting, kPacmanDefaultSigLevel)
           res == Finished(repos, level, known, gpg)
           v == ValuesOf(text, Headers(text))
<1>1. Named(S, text, repos) /\ AllFilled(text, repos) /\ Agreed(setting, text, Lines(text, "options", "SigLevel"))
  BY DEF Agreement
<1>2. repos \in Seq(Raw(S)) /\ n \in Nat
  BY <1>1, NamesOfHeaders
<1>3. DOMAIN repos = 1..n
  <2> DEFINE R == Raw(S)
  <2>1. repos \in Seq(R)
    BY <1>2
  <2> HIDE DEF R
  <2>2. QED
    BY <2>1
<1>4. level = BitsOf(text, "options", kPacmanDefaultSigLevel)
  BY <1>1, DefaultBits, LinesAreScoped, AgreedBits
<1>5. level \subseteq SigBits
  <2>1. setting.value \subseteq SigBits
    BY <1>1 DEF Agreed, Settings
  <2>2. QED
    BY <2>1, DefaultBits DEF Merge
<1>6. \A i \in 1..n : repos[i].name # ""
  <2>1. "" \in UnsafeNames
    BY RepositoriesAssumption, Zenon
  <2>2. QED
    BY <1>3, <2>1 DEF Rejected
<1>7. v = [i \in 1..n |-> repos[i].name]
  <2>1. v \in Seq(Values(S))
    BY LinesAreIn, ValuesType
  <2>2. Len(v) = n /\ \A i \in 1..n : repos[i].name = v[i]
    BY <1>1 DEF Named
  <2> DEFINE V == Values(S)
  <2>3. v \in Seq(V)
    BY <2>1
  <2> HIDE DEF V, v, n
  <2>4. v = [i \in 1..n |-> v[i]]
    BY <2>2, <2>3
  <2>5. QED
    BY <2>2, <2>4
<1> HIDE DEF level
<1>8. /\ res.default_sig_level = level /\ res.architectures = known
      /\ res.repositories = [i \in 1..n |->
           [name |-> repos[i].name, sig_level |-> Merge(repos[i].sig, level),
            servers |-> [j \in DOMAIN repos[i].servers |-> <<repos[i].servers[j], repos[i].name, known[1]>>]]]
  BY <1>3 DEF Finished
<1> HIDE DEF n, res, v
<1>9. DOMAIN res.repositories = 1..n
  BY <1>8
<1>10. ASSUME NEW i \in 1..n
       PROVE  /\ res.repositories[i].name = repos[i].name
              /\ res.repositories[i].sig_level = Merge(repos[i].sig, level)
              /\ res.repositories[i].servers =
                   [j \in DOMAIN repos[i].servers |-> <<repos[i].servers[j], repos[i].name, known[1]>>]
  BY <1>8
<1>11. [i \in DOMAIN res.repositories |-> res.repositories[i].name] = v
  BY <1>7, <1>9, <1>10
<1>12. ASSUME NEW i \in 1..n
       PROVE  /\ repos[i].servers = ValuesOf(text, Lines(text, repos[i].name, "Server"))
              /\ Merge(repos[i].sig, level) = BitsOf(text, repos[i].name, level)
  <2> DEFINE name == repos[i].name
             sig == repos[i].sig
  <2>1. Filled(text, name, repos[i].servers, sig)
    BY <1>1 DEF AllFilled, n
  <2>2. /\ repos[i].servers = ValuesOf(text, Lines(text, name, "Server"))
        /\ Agreed(sig, text, Lines(text, name, "SigLevel"))
    BY <1>6, <2>1 DEF Filled
  <2>3. \A h \in Lines(text, name, "SigLevel") : Scoped(text[h].value)
    BY LinesAreScoped
  <2> HIDE DEF name, sig
  <2>4. Merge(sig, level) = BitsOf(text, name, level)
    BY <1>5, <2>2, <2>3, AgreedBits
  <2>5. QED
    BY <2>2, <2>4 DEF name, sig
<1>13. ASSUME NEW i \in DOMAIN res.repositories
       PROVE  /\ res.repositories[i].sig_level = BitsOf(text, res.repositories[i].name, level)
              /\ res.repositories[i].servers =
                   [j \in DOMAIN ValuesOf(text, Lines(text, res.repositories[i].name, "Server")) |->
                      <<ValuesOf(text, Lines(text, res.repositories[i].name, "Server"))[j],
                        res.repositories[i].name, res.architectures[1]>>]
  <2>1. i \in 1..n
    BY <1>9
  <2>2. res.repositories[i].sig_level = BitsOf(text, res.repositories[i].name, level)
    BY <1>10, <1>12, <2>1
  <2> DEFINE w == ValuesOf(text, Lines(text, repos[i].name, "Server"))
             name == repos[i].name
  <2>3. repos[i].servers = w /\ res.repositories[i].name = name /\ res.architectures = known
    BY <1>8, <1>10, <1>12, <2>1
  <2>4. res.repositories[i].servers = [j \in DOMAIN repos[i].servers |-> <<repos[i].servers[j], name, known[1]>>]
    BY <1>10, <2>1
  <2>5. w = ValuesOf(text, Lines(text, res.repositories[i].name, "Server"))
    BY <2>3, Zenon
  <2> HIDE DEF w, name
  <2>6. res.repositories[i].servers = [j \in DOMAIN w |-> <<w[j], name, known[1]>>]
    BY <2>3, <2>4, Zenon
  <2>7. QED
    BY <2>2, <2>3, <2>5, <2>6, Zenon
<1>14. Matches(text, res)
  BY <1>4, <1>8, <1>11, <1>13, Zenon DEF Matches, v
<1>15. QED
  BY <1>14 DEF res, level

-------------------------------------------------------------------------------
(* The files, and the text that they stand for *)

\* The lines there are: those of the files and the one for what cannot be read.
FileLines == UNION {ToSet(texts[f]) : f \in {g \in DOMAIN texts : texts[g] # None}}
AllLines == FileLines \cup ToSet(Unreadable)
Keys == {"section", "Include", "GPGDir", "Architecture", "SigLevel", "Server"}

\* Unreadable is a text of one line.
LEMMA UnreadableIsText == Unreadable \in Seq(AllLines) /\ Len(Unreadable) = 1 /\ Unreadable[1].key = "unreadable"
<1> DEFINE l == [key |-> "unreadable", value |-> ""]
<1>1. Unreadable = <<l>> /\ l.key = "unreadable"
  BY DEF Unreadable
<1>2. l \in AllLines
  <2> HIDE DEF l
  <2>1. 1 \in DOMAIN Unreadable /\ Unreadable[1] = l
    BY <1>1
  <2>2. l \in ToSet(Unreadable)
    BY <2>1, Zenon DEF ToSet
  <2>3. QED
    BY <2>2, Zenon DEF AllLines
<1> HIDE DEF l
<1>3. QED
  BY <1>1, <1>2

\* The text of a file and its lines.
LEMMA TextIsText ==
  ASSUME texts \in Configurations, NEW f \in DOMAIN texts, texts[f] # None
  PROVE  texts[f] \in Seq(AllLines)
<1>1. texts[f] \in Seq(ToSet(texts[f]))
  BY RepositoriesAssumption DEF IsText
<1>2. ToSet(texts[f]) \subseteq AllLines
  BY DEF AllLines, FileLines
<1> DEFINE T == ToSet(texts[f])
           t == texts[f]
<1> HIDE DEF T, t
<1>3. t \in Seq(T) /\ T \subseteq AllLines
  BY <1>1, <1>2 DEF T, t
<1>4. t \in Seq(AllLines)
  BY <1>3
<1>5. QED
  BY <1>4 DEF t

LEMMA LineIsLine ==
  ASSUME texts \in Configurations, NEW f \in DOMAIN texts, texts[f] # None, NEW i \in DOMAIN texts[f]
  PROVE  /\ texts[f][i] \in AllLines /\ texts[f][i].key \in Keys
         /\ texts[f][i].key = "Include" =>
              IsFiniteSet(texts[f][i].value) /\ texts[f][i].value \subseteq DOMAIN texts /\ DOMAIN texts \subseteq Nat
         /\ texts[f][i].key = "SigLevel" =>
              /\ IsText(texts[f][i].value)
              /\ \A j \in DOMAIN texts[f][i].value : texts[f][i].value[j].scopes \subseteq Scopes
<1> DEFINE l == texts[f][i]
<1>1. l \in AllLines
  <2>1. l \in ToSet(texts[f])
    BY Zenon DEF ToSet
  <2>2. QED
    BY <2>1, Zenon DEF AllLines, FileLines
<1>2. /\ DOMAIN texts \subseteq Nat
      /\ l.key \in {"section", "Include", "GPGDir", "Architecture", "SigLevel", "Server"}
      /\ l.key = "Include" => IsFiniteSet(l.value) /\ l.value \subseteq DOMAIN texts
      /\ l.key = "SigLevel" => IsText(l.value) /\ \A j \in DOMAIN l.value : l.value[j].scopes \subseteq Scopes
  BY RepositoriesAssumption, Zenon
<1>3. QED
  BY <1>1, <1>2, Zenon DEF Keys

\* What files stand for at some depth.
Below == [DOMAIN texts -> Seq(AllLines)]

\* What included files stand for, and what a line does, is text.
LEMMA IncludedType ==
  ASSUME NEW included, NEW P, included \in Seq(P), P \subseteq DOMAIN texts, NEW below \in Below
  PROVE  [j \in DOMAIN included |-> below[included[j]]] \in Seq(Seq(AllLines))
<1> DEFINE T == Seq(AllLines)
           n == Len(included)
<1>1. n \in Nat /\ DOMAIN included = 1..n /\ \A j \in 1..n : included[j] \in DOMAIN texts
  OBVIOUS
<1>2. \A f \in DOMAIN texts : below[f] \in T
  BY DEF Below
<1> HIDE DEF T, n
<1>3. [j \in DOMAIN included |-> below[included[j]]] \in [1..n -> T]
  BY <1>1, <1>2
<1> DEFINE s == [j \in DOMAIN included |-> below[included[j]]]
<1> HIDE DEF s
<1>4. s \in Seq(T)
  BY <1>1, <1>3 DEF s
<1>5. QED
  BY <1>4 DEF s, T

LEMMA MeantType ==
  ASSUME texts \in Configurations, NEW f \in DOMAIN texts, texts[f] # None, NEW i \in DOMAIN texts[f],
         NEW below \in Below
  PROVE  Meant(texts[f][i], below) \in Seq(AllLines)
<1> DEFINE l == texts[f][i]
<1>0. /\ l \in AllLines
      /\ l.key = "Include" => IsFiniteSet(l.value) /\ l.value \subseteq DOMAIN texts /\ DOMAIN texts \subseteq Nat
  BY LineIsLine
<1> HIDE DEF l
<1>1. CASE l.key # "Include"
  <2>1. Meant(l, below) = <<l>>
    BY <1>1 DEF Meant
  <2>2. <<l>> \in Seq(AllLines)
    BY <1>0
  <2>3. QED
    BY <2>1, <2>2 DEF l
<1>2. CASE l.key = "Include" /\ l.value = {}
  BY <1>2, UnreadableIsText DEF Meant, l
<1>3. CASE l.key = "Include" /\ l.value # {}
  <2> DEFINE included == InOrder(l.value)
             seqs == [j \in DOMAIN included |-> below[included[j]]]
  <2>1. Meant(l, below) = FlattenSeq(seqs)
    BY <1>3 DEF Meant
  <2>2. included \in Seq(l.value)
    <3>1. IsFiniteSet(l.value) /\ l.value \subseteq Int
      BY <1>0, <1>3
    <3>2. QED
      BY <3>1, InOrderIsSequence
  <2>3. seqs \in Seq(Seq(AllLines))
    <3> HIDE DEF included
    <3>1. QED
      BY <1>0, <1>3, <2>2, IncludedType
  <2> HIDE DEF seqs
  <2>4. FlattenSeq(seqs) \in Seq(AllLines)
    BY <2>3, FlattenType
  <2>5. QED
    BY <2>1, <2>4 DEF l
<1>4. QED
  BY <1>1, <1>2, <1>3

\* The texts that the lines of a file mean.
Meanings(f, below) == [i \in DOMAIN texts[f] |-> Meant(texts[f][i], below)]

\* The meanings of the lines of a file are one text for each line.
LEMMA MeaningsType ==
  ASSUME texts \in Configurations, NEW f \in DOMAIN texts, texts[f] # None, NEW below \in Below
  PROVE  /\ Meanings(f, below) \in Seq(Seq(AllLines)) /\ Len(Meanings(f, below)) = Len(texts[f])
         /\ Len(texts[f]) \in Nat /\ DOMAIN texts[f] = 1..Len(texts[f])
<1> DEFINE T == Seq(AllLines)
           n == Len(texts[f])
           t == texts[f]
<1>1. n \in Nat /\ DOMAIN t = 1..n
  <2>1. t \in Seq(AllLines)
    BY TextIsText
  <2> HIDE DEF t
  <2>2. QED
    BY <2>1 DEF t
<1>2. \A i \in 1..n : Meant(texts[f][i], below) \in T
  BY <1>1, MeantType
<1> DEFINE s == Meanings(f, below)
<1>3. s = [i \in 1..n |-> Meant(texts[f][i], below)]
  BY <1>1 DEF Meanings
<1> HIDE DEF T, n, t, s
<1>4. s \in [1..n -> T]
  BY <1>2, <1>3
<1>5. s \in Seq(T) /\ Len(s) = n
  BY <1>1, <1>4
<1>6. QED
  BY <1>1, <1>5 DEF T, n, t, s

\* The depth from which the whole text is expanded: one call deeper than is allowed, which fails.
MaxDepth == kMaxIncludeDepth + 1

LEMMA DepthIsNat == kMaxIncludeDepth \in Nat /\ MaxDepth \in Nat
<1>1. kMaxIncludeDepth \in Nat
  BY RepositoriesAssumption, Zenon
<1>2. QED
  BY <1>1 DEF MaxDepth

\* One step of the recursion of Expanded.
TextsAt(depth, lower) ==
  [f \in DOMAIN texts |->
     IF depth = 0 \/ texts[f] = None THEN Unreadable ELSE FlattenSeq(Meanings(f, lower))]

\* The step returns texts.
LEMMA TextsAtType ==
  ASSUME texts \in Configurations, NEW depth, NEW lower, depth # 0 => lower \in Below
  PROVE  TextsAt(depth, lower) \in Below
<1>1. ASSUME NEW f \in DOMAIN texts
      PROVE  (IF depth = 0 \/ texts[f] = None THEN Unreadable ELSE FlattenSeq(Meanings(f, lower))) \in Seq(AllLines)
  <2>1. CASE depth = 0 \/ texts[f] = None
    BY <2>1, UnreadableIsText
  <2>2. CASE depth # 0 /\ texts[f] # None
    BY <2>2, MeaningsType, FlattenType
  <2>3. QED
    BY <2>1, <2>2
<1>2. QED
  BY <1>1 DEF TextsAt, Below

\* Files are expanded from the depth where nothing is read any more.
LEMMA ExpandedIs ==
  ASSUME texts \in Configurations
  PROVE  \A depth \in 0..MaxDepth :
           Expanded[depth] \in Below /\ Expanded[depth] = TextsAt(depth, Expanded[depth - 1])
<1> DEFINE Body(g, k) ==
             [depth \in 0..k |-> [file \in DOMAIN texts |->
                IF depth = 0 \/ texts[file] = None THEN Unreadable
                ELSE FlattenSeq([i \in DOMAIN texts[file] |-> Meant(texts[file][i], g[depth - 1])])]]
           Step(g, k) == [depth \in 0..k |-> TextsAt(depth, g[depth - 1])]
           Partial(k) == \E g : g = Step(g, k)
           Reached == {k \in 0..MaxDepth : Partial(k)}
<1>1. \A g, k : Body(g, k) = Step(g, k)
  BY DEF TextsAt, Meanings
<1>2. Expanded = CHOOSE g : g = Body(g, MaxDepth)
  BY DEF Expanded, MaxDepth
<1> HIDE DEF Body
<1>3. Partial(0)
  <2> DEFINE g == [depth \in 0..0 |-> TextsAt(depth, 0)]
  <2>1. g = Step(g, 0)
    <3>1. \A a, b : TextsAt(0, a) = TextsAt(0, b)
      BY DEF TextsAt
    <3>2. \A depth \in 0..0 : depth = 0
      OBVIOUS
    <3>3. \A depth \in 0..0 : TextsAt(depth, 0) = TextsAt(depth, g[depth - 1])
      <4> HIDE DEF g
      <4>1. QED
        BY <3>1, <3>2
    <3>4. g = [depth \in 0..0 |-> TextsAt(depth, 0)]
      OBVIOUS
    <3> HIDE DEF g
    <3>5. QED
      BY <3>3, <3>4
  <2>2. QED
    BY <2>1
<1>4. ASSUME NEW k \in 0..MaxDepth - 1, Partial(k) PROVE Partial(k + 1)
  <2>1. PICK g : g = Step(g, k)
    BY <1>4
  <2> DEFINE h == [depth \in 0..k + 1 |-> TextsAt(depth, g[depth - 1])]
  <2>2. \A depth \in 0..k : h[depth] = g[depth]
    <3>1. \A depth \in 0..k : g[depth] = TextsAt(depth, g[depth - 1])
      BY <2>1
    <3>2. \A depth \in 0..k : h[depth] = TextsAt(depth, g[depth - 1])
      OBVIOUS
    <3> HIDE DEF h
    <3>3. QED
      BY <3>1, <3>2
  <2>3. \A depth \in 0..k + 1 : TextsAt(depth, g[depth - 1]) = TextsAt(depth, h[depth - 1])
    <3> SUFFICES ASSUME NEW depth \in 0..k + 1 PROVE TextsAt(depth, g[depth - 1]) = TextsAt(depth, h[depth - 1])
      OBVIOUS
    <3> HIDE DEF h
    <3>1. CASE depth = 0
      BY <3>1 DEF TextsAt
    <3>2. CASE depth # 0
      <4>1. depth - 1 \in 0..k
        BY <3>2
      <4>2. QED
        BY <2>2, <4>1
    <3>3. QED
      BY <3>1, <3>2
  <2>4. h = [depth \in 0..k + 1 |-> TextsAt(depth, g[depth - 1])]
    OBVIOUS
  <2> HIDE DEF h
  <2>5. h = Step(h, k + 1)
    BY <2>3, <2>4
  <2>6. QED
    BY <2>5
<1>5. \A k \in 0..MaxDepth : k \in Reached
  <2> HIDE DEF Partial
  <2>1. 0 \in Reached
    <3>1. 0 \in 0..MaxDepth
      BY DepthIsNat
    <3>2. QED
      BY <1>3, <3>1
  <2>2. ASSUME NEW k \in 0..MaxDepth - 1, k \in Reached PROVE k + 1 \in Reached
    <3>1. k + 1 \in 0..MaxDepth
      BY DepthIsNat
    <3>2. Partial(k)
      BY <2>2
    <3>3. QED
      BY <1>4, <3>1, <3>2
  <2> HIDE DEF Reached
  <2>3. QED
    BY <2>1, <2>2, DepthIsNat, UpTo
<1>6. Expanded = Step(Expanded, MaxDepth)
  <2>1. \E g : g = Body(g, MaxDepth)
    <3>1. MaxDepth \in 0..MaxDepth
      BY DepthIsNat
    <3>2. Partial(MaxDepth)
      <4> HIDE DEF Partial
      <4>1. QED
        BY <1>5, <3>1
    <3>3. QED
      BY <1>1, <3>2
  <2>2. Expanded = Body(Expanded, MaxDepth)
    BY <1>2, <2>1
  <2>3. QED
    BY <1>1, <2>2
<1>7. \A depth \in 0..MaxDepth : Expanded[depth] = TextsAt(depth, Expanded[depth - 1])
  <2> DEFINE e == Expanded
  <2>1. e = Step(e, MaxDepth)
    BY <1>6
  <2> HIDE DEF e
  <2>2. \A depth \in 0..MaxDepth : e[depth] = TextsAt(depth, e[depth - 1])
    BY <2>1
  <2>3. QED
    BY <2>2 DEF e
<1> DEFINE Typed == {depth \in 0..MaxDepth : Expanded[depth] \in Below}
<1>8. \A depth \in 0..MaxDepth : depth \in Typed
  <2>1. 0 \in Typed
    <3>1. 0 \in 0..MaxDepth
      BY DepthIsNat
    <3>2. TextsAt(0, Expanded[0 - 1]) \in Below
      BY TextsAtType
    <3>3. QED
      BY <1>7, <3>1, <3>2
  <2>2. ASSUME NEW k \in 0..MaxDepth - 1, k \in Typed PROVE k + 1 \in Typed
    <3>1. k + 1 \in 0..MaxDepth /\ (k + 1) - 1 = k
      BY DepthIsNat
    <3>2. Expanded[k + 1] = TextsAt(k + 1, Expanded[k])
      BY <1>7, <3>1
    <3>3. TextsAt(k + 1, Expanded[k]) \in Below
      BY <2>2, TextsAtType
    <3>4. QED
      BY <3>1, <3>2, <3>3
  <2> HIDE DEF Typed
  <2>3. QED
    BY <2>1, <2>2, DepthIsNat, UpTo
<1>9. QED
  BY <1>7, <1>8

-------------------------------------------------------------------------------
(* The stack of calls, and what it still has to read of the text.  Opening, closing and including
   files move calls around and leave that the same; a line takes its first line away. *)

\* The calls of readFile.
Frame == [file : DOMAIN texts, depth : 0..MaxDepth, line : Nat]

\* A file that is open may be read and does not include too deep.
Fits(frame) ==
  /\ frame \in Frame
  /\ frame.line > 0 => /\ frame.depth <= kMaxIncludeDepth /\ texts[frame.file] # None
                       /\ frame.line <= Len(texts[frame.file]) + 1

\* A stack of calls, and what the files that a call includes stand for.
IsStack(fs) == fs \in Seq(Frame) /\ \A i \in 1..Len(fs) : Fits(fs[i])

Deeper(frame) == Expanded[kMaxIncludeDepth - frame.depth]

\* What a call of readFile still has to read, and what the stack of calls has.
RestOf(frame) ==
  IF frame.line = 0 THEN Expanded[MaxDepth - frame.depth][frame.file]
  ELSE FlattenSeq(From(Meanings(frame.file, Deeper(frame)), frame.line))

\* The innermost call reads first.
Rests(fs) == [i \in 1..Len(fs) |-> RestOf(fs[Len(fs) + 1 - i])]
RestOfText(fs) == FlattenSeq(Rests(fs))

\* A call at its next line.
Advanced(frame) == [frame EXCEPT !.line = @ + 1]

\* The fields of a call.
LEMMA FrameParts ==
  ASSUME NEW frame, frame \in Frame
  PROVE  /\ frame.file \in DOMAIN texts /\ frame.depth \in 0..MaxDepth /\ frame.line \in Nat
         /\ MaxDepth - frame.depth \in 0..MaxDepth
         /\ Advanced(frame) \in Frame /\ Advanced(frame).file = frame.file
         /\ Advanced(frame).depth = frame.depth /\ Advanced(frame).line = frame.line + 1
<1>1. frame.file \in DOMAIN texts /\ frame.depth \in 0..MaxDepth /\ frame.line \in Nat
  BY DEF Frame
<1>2. MaxDepth - frame.depth \in 0..MaxDepth
  BY <1>1, DepthIsNat
<1>3. Advanced(frame) = [file |-> frame.file, depth |-> frame.depth, line |-> frame.line + 1]
  BY DEF Advanced, Frame
<1>4. Advanced(frame) \in Frame
  BY <1>1, <1>3 DEF Frame
<1>5. QED
  BY <1>1, <1>2, <1>3, <1>4

\* A call that is not too deep may include.
LEMMA DeeperIsBelow ==
  ASSUME texts \in Configurations, NEW frame, frame \in Frame, frame.depth <= kMaxIncludeDepth
  PROVE  Deeper(frame) \in Below /\ (MaxDepth - frame.depth) - 1 = kMaxIncludeDepth - frame.depth
         /\ MaxDepth - frame.depth # 0 /\ MaxDepth - (frame.depth + 1) = kMaxIncludeDepth - frame.depth
<1>1. kMaxIncludeDepth - frame.depth \in 0..MaxDepth
  BY FrameParts, DepthIsNat DEF MaxDepth
<1>2. frame.depth \in Int /\ kMaxIncludeDepth \in Int
  BY FrameParts, DepthIsNat
<1>3. QED
  BY <1>1, <1>2, ExpandedIs DEF Deeper, MaxDepth

\* What calls still have to read is text.
LEMMA RestOfType ==
  ASSUME texts \in Configurations, NEW frame, Fits(frame)
  PROVE  RestOf(frame) \in Seq(AllLines)
<1>1. frame \in Frame
  BY DEF Fits
<1>2. CASE frame.line = 0
  <2>1. Expanded[MaxDepth - frame.depth] \in Below
    BY <1>1, FrameParts, ExpandedIs
  <2>2. QED
    BY <1>1, <1>2, <2>1, FrameParts DEF RestOf, Below
<1>3. CASE frame.line # 0
  <2> DEFINE s == Meanings(frame.file, Deeper(frame))
             T == Seq(AllLines)
  <2>1. frame.line > 0 /\ frame.line \in Nat
    BY <1>1, <1>3, FrameParts
  <2>2. frame.depth <= kMaxIncludeDepth /\ texts[frame.file] # None /\ frame.line <= Len(texts[frame.file]) + 1
    BY <2>1 DEF Fits
  <2>3. s \in Seq(T) /\ Len(s) = Len(texts[frame.file]) /\ Len(s) \in Nat
    BY <1>1, <2>2, FrameParts, DeeperIsBelow, MeaningsType
  <2>4. frame.line \in 1..Len(s) + 1
    BY <2>1, <2>2, <2>3
  <2> DEFINE n == Len(s) + 1 - frame.line
             l == frame.line
  <2>5. n \in Nat /\ \A k \in 1..n : l + k - 1 \in 1..Len(s)
    <3> DEFINE m == Len(s)
    <3>1. m \in Nat /\ l \in 1..m + 1 /\ n = m + 1 - l
      BY <2>3, <2>4
    <3> HIDE DEF n, m, l
    <3>2. n \in Nat /\ \A k \in 1..n : l + k - 1 \in 1..m
      BY <3>1
    <3>3. QED
      BY <3>2 DEF m
  <2> HIDE DEF s, T
  <2>6. \A k \in 1..n : s[l + k - 1] \in T
    BY <2>3, <2>5
  <2>7. From(s, l) = [k \in 1..n |-> s[l + k - 1]]
    BY DEF From
  <2> HIDE DEF n, l
  <2>8. From(s, l) \in [1..n -> T]
    BY <2>6, <2>7
  <2>9. From(s, l) \in Seq(T)
    BY <2>5, <2>8
  <2>10. FlattenSeq(From(s, l)) \in Seq(AllLines)
    BY <2>9, FlattenType DEF T
  <2>11. QED
    BY <1>3, <2>10 DEF RestOf, s, l
<1>4. QED
  BY <1>2, <1>3

LEMMA RestsType ==
  ASSUME texts \in Configurations, NEW fs, IsStack(fs)
  PROVE  Rests(fs) \in Seq(Seq(AllLines)) /\ Len(Rests(fs)) = Len(fs) /\ Len(fs) \in Nat
<1> DEFINE n == Len(fs)
           T == Seq(AllLines)
<1>1. n \in Nat
  BY DEF IsStack
<1>2. \A i \in 1..n : n + 1 - i \in 1..n
  BY <1>1
<1>3. \A i \in 1..n : RestOf(fs[n + 1 - i]) \in T
  BY <1>2, RestOfType DEF IsStack
<1>4. Rests(fs) = [i \in 1..n |-> RestOf(fs[n + 1 - i])]
  BY DEF Rests
<1> HIDE DEF n, T
<1>5. Rests(fs) \in [1..n -> T]
  BY <1>3, <1>4
<1> DEFINE r == Rests(fs)
<1> HIDE DEF r
<1>6. r \in Seq(T) /\ Len(r) = n
  BY <1>1, <1>5 DEF r
<1>7. QED
  BY <1>1, <1>6 DEF r, n, T

\* So is what the stack has.
LEMMA RestOfTextType ==
  ASSUME texts \in Configurations, NEW fs, IsStack(fs)
  PROVE  RestOfText(fs) \in Seq(AllLines)
BY RestsType, FlattenType DEF RestOfText

\* Calls on top of the stack are read first.
LEMMA RestOfCalls ==
  ASSUME texts \in Configurations, NEW fs, IsStack(fs), NEW calls, IsStack(calls)
  PROVE  IsStack(fs \o calls) /\ RestOfText(fs \o calls) = Join(FlattenSeq(Rests(calls)), RestOfText(fs))
<1> DEFINE all == Join(fs, calls)
           n == Len(fs)
           m == Len(calls)
           r == Rests(fs)
           c == Rests(calls)
           T == Seq(AllLines)
<1>1. fs \in Seq(Frame) /\ calls \in Seq(Frame)
  BY DEF IsStack
<1>2. all \in Seq(Frame)
  BY <1>1, JoinType
<1>3. Len(all) = n + m /\ n \in Nat /\ m \in Nat
  BY <1>1, JoinLength
<1>4. \A i \in 1..n : all[i] = fs[i]
  BY <1>1, JoinLeft
<1>5. \A i \in 1..m : all[n + i] = calls[i]
  BY <1>1, JoinRight
<1> HIDE DEF all
<1>6. \A i \in 1..n + m : i \in 1..n \/ (i - n \in 1..m /\ n + (i - n) = i)
  BY <1>3
<1>7. \A i \in 1..n + m : Fits(all[i])
  <2> SUFFICES ASSUME NEW i \in 1..n + m PROVE Fits(all[i])
    OBVIOUS
  <2>1. CASE i \in 1..n
    BY <1>4, <2>1 DEF IsStack
  <2>2. CASE i - n \in 1..m /\ n + (i - n) = i
    <3>1. all[i] = calls[i - n]
      BY <1>5, <2>2
    <3>2. QED
      BY <2>2, <3>1 DEF IsStack
  <2>3. QED
    BY <1>6, <2>1, <2>2
<1>8. IsStack(all)
  BY <1>2, <1>3, <1>7 DEF IsStack
<1>9. r \in Seq(T) /\ Len(r) = n /\ c \in Seq(T) /\ Len(c) = m
  BY RestsType
<1>10. /\ r = [i \in 1..n |-> RestOf(fs[n + 1 - i])]
       /\ c = [i \in 1..m |-> RestOf(calls[m + 1 - i])]
       /\ Rests(all) = [i \in 1..n + m |-> RestOf(all[n + m + 1 - i])]
  BY <1>3 DEF Rests
<1> HIDE DEF n, m, r, c, T
<1> DEFINE both == Join(c, r)
<1>11. both \in Seq(T)
  BY <1>9, JoinType
<1>12. Len(both) = m + n
  BY <1>9, JoinLength
<1>13. \A i \in 1..m : both[i] = c[i]
  BY <1>9, JoinLeft
<1>14. \A i \in 1..n : both[m + i] = r[i]
  BY <1>9, JoinRight
<1> HIDE DEF both
<1>15. ASSUME NEW i \in 1..n + m PROVE both[i] = RestOf(all[n + m + 1 - i])
  <2>1. CASE i \in 1..m
    <3>1. m + 1 - i \in 1..m /\ n + (m + 1 - i) = n + m + 1 - i
      BY <1>3, <2>1
    <3>2. all[n + (m + 1 - i)] = calls[m + 1 - i]
      BY <1>5, <3>1
    <3>3. both[i] = RestOf(calls[m + 1 - i])
      BY <1>10, <1>13, <2>1
    <3>4. QED
      BY <3>1, <3>2, <3>3
  <2>2. CASE i \notin 1..m
    <3>1. i - m \in 1..n /\ m + (i - m) = i /\ n + 1 - (i - m) = n + m + 1 - i /\ n + 1 - (i - m) \in 1..n
      BY <1>3, <2>2
    <3>2. both[m + (i - m)] = r[i - m]
      BY <1>14, <3>1
    <3>3. r[i - m] = RestOf(fs[n + 1 - (i - m)])
      BY <1>10, <3>1
    <3>4. QED
      BY <1>4, <3>1, <3>2, <3>3
  <2>3. QED
    BY <2>1, <2>2
<1>16. both = [i \in 1..n + m |-> both[i]]
  BY <1>3, <1>11, <1>12
<1>17. Rests(all) = both
  BY <1>10, <1>15, <1>16
<1>18. FlattenSeq(both) = Join(FlattenSeq(c), FlattenSeq(r))
  <2>1. c \in Seq(Seq(AllLines)) /\ r \in Seq(Seq(AllLines))
    BY <1>9 DEF T
  <2>2. QED
    BY <2>1, FlattenConcat DEF both
<1>19. fs \o calls = all
  BY DEF all, Join
<1>20. QED
  BY <1>8, <1>17, <1>18, <1>19 DEF RestOfText, r, c

\* The stack with its innermost call at the next line.
NextLineOf(fs) == [fs EXCEPT ![Len(fs)].line = @ + 1]

\* A sequence is its front and its last member.
LEMMA FrontIs ==
  ASSUME NEW S, NEW s \in Seq(S), s # <<>>
  PROVE  /\ Front(s) \in Seq(S) /\ Len(Front(s)) = Len(s) - 1 /\ Len(s) \in Nat \ {0} /\ s[Len(s)] \in S
         /\ \A i \in 1..Len(s) - 1 : Front(s)[i] = s[i]
         /\ s = Front(s) \o <<s[Len(s)]>>
         /\ \A a \in S : [s EXCEPT ![Len(s)] = a] = Front(s) \o <<a>>
BY DEF Front

\* A stack is the calls below and the innermost one.
LEMMA FramesSplit ==
  ASSUME texts \in Configurations, NEW fs, IsStack(fs), fs # <<>>
  PROVE  /\ Len(fs) \in Nat \ {0} /\ Fits(fs[Len(fs)]) /\ IsStack(Front(fs)) /\ Len(Front(fs)) = Len(fs) - 1
         /\ fs = Front(fs) \o <<fs[Len(fs)]>>
         /\ NextLineOf(fs) = Front(fs) \o <<Advanced(fs[Len(fs)])>>
<1> DEFINE n == Len(fs)
<1>1. fs \in Seq(Frame) /\ \A i \in 1..n : Fits(fs[i])
  BY DEF IsStack
<1>2. n \in Nat \ {0} /\ n \in 1..n /\ \A i \in 1..n - 1 : i \in 1..n
  BY <1>1
<1>3. Fits(fs[n])
  BY <1>1, <1>2
<1>4. /\ Front(fs) \in Seq(Frame) /\ Len(Front(fs)) = n - 1 /\ fs[n] \in Frame
      /\ \A i \in 1..n - 1 : Front(fs)[i] = fs[i]
      /\ fs = Front(fs) \o <<fs[n]>>
      /\ \A a \in Frame : [fs EXCEPT ![n] = a] = Front(fs) \o <<a>>
  BY <1>1, FrontIs
<1>5. \A i \in 1..n - 1 : Fits(Front(fs)[i])
  BY <1>1, <1>2, <1>4
<1>6. IsStack(Front(fs))
  BY <1>4, <1>5 DEF IsStack
<1>7. NextLineOf(fs) = [fs EXCEPT ![n] = Advanced(fs[n])]
  BY DEF NextLineOf, Advanced
<1>8. Advanced(fs[n]) \in Frame
  BY <1>4, FrameParts
<1>9. QED
  BY <1>2, <1>3, <1>4, <1>6, <1>7, <1>8

\* The stack of a single call.
LEMMA StackOfOne ==
  ASSUME texts \in Configurations, NEW frame, Fits(frame)
  PROVE  IsStack(<<frame>>) /\ FlattenSeq(Rests(<<frame>>)) = RestOf(frame)
<1>1. frame \in Frame
  BY DEF Fits
<1>2. <<frame>> \in Seq(Frame) /\ Len(<<frame>>) = 1 /\ \A i \in 1..1 : i = 1 /\ <<frame>>[i] = frame
  BY <1>1
<1>3. IsStack(<<frame>>)
  BY <1>2 DEF IsStack
<1>4. Rests(<<frame>>) = [i \in 1..1 |-> RestOf(<<frame>>[2 - i])]
  BY <1>2 DEF Rests
<1>5. \A i \in 1..1 : RestOf(<<frame>>[2 - i]) = RestOf(frame)
  BY <1>2
<1> DEFINE r == RestOf(frame)
<1>6. Rests(<<frame>>) = [i \in 1..1 |-> r]
  BY <1>4, <1>5
<1>7. r \in Seq(AllLines)
  BY RestOfType
<1> HIDE DEF r
<1>8. Rests(<<frame>>) = <<r>>
  BY <1>6
<1>9. FlattenSeq(<<r>>) = r
  BY <1>7, FlattenOne
<1>10. QED
  BY <1>3, <1>8, <1>9 DEF r

\* The call on top reads before those below it.
LEMMA TopRest ==
  ASSUME texts \in Configurations, NEW fs, IsStack(fs), fs # <<>>
  PROVE  /\ RestOfText(fs) = Join(RestOf(fs[Len(fs)]), RestOfText(Front(fs)))
         /\ Fits(Advanced(fs[Len(fs)])) =>
              /\ IsStack(NextLineOf(fs))
              /\ RestOfText(NextLineOf(fs)) = Join(RestOf(Advanced(fs[Len(fs)])), RestOfText(Front(fs)))
<1> DEFINE top == fs[Len(fs)]
<1>1. ASSUME NEW frame, Fits(frame)
      PROVE  /\ IsStack(Front(fs) \o <<frame>>)
             /\ RestOfText(Front(fs) \o <<frame>>) = Join(RestOf(frame), RestOfText(Front(fs)))
  <2>1. IsStack(<<frame>>) /\ FlattenSeq(Rests(<<frame>>)) = RestOf(frame)
    BY <1>1, StackOfOne
  <2>2. IsStack(Front(fs))
    BY FramesSplit
  <2>3. QED
    BY <2>1, <2>2, RestOfCalls
<1>2. Fits(top) /\ fs = Front(fs) \o <<top>> /\ NextLineOf(fs) = Front(fs) \o <<Advanced(top)>>
  BY FramesSplit
<1>3. RestOfText(fs) = Join(RestOf(top), RestOfText(Front(fs)))
  BY <1>1, <1>2
<1>4. QED
  BY <1>1, <1>2, <1>3

\* A file at one of its lines.
LEMMA OpenFrame ==
  ASSUME texts \in Configurations, NEW frame, Fits(frame), frame.line > 0
  PROVE  /\ frame \in Frame /\ frame.depth <= kMaxIncludeDepth /\ texts[frame.file] # None
         /\ frame.file \in DOMAIN texts
         /\ Meanings(frame.file, Deeper(frame)) \in Seq(Seq(AllLines))
         /\ Len(Meanings(frame.file, Deeper(frame))) = Len(texts[frame.file])
         /\ Len(texts[frame.file]) \in Nat /\ DOMAIN texts[frame.file] = 1..Len(texts[frame.file])
         /\ frame.line \in 1..Len(texts[frame.file]) + 1
<1>1. frame \in Frame /\ frame.depth <= kMaxIncludeDepth /\ texts[frame.file] # None
      /\ frame.line <= Len(texts[frame.file]) + 1
  BY DEF Fits
<1>2. frame.file \in DOMAIN texts /\ frame.line \in Nat
  BY <1>1, FrameParts
<1>3. Deeper(frame) \in Below
  BY <1>1, DeeperIsBelow
<1>4. /\ Meanings(frame.file, Deeper(frame)) \in Seq(Seq(AllLines))
      /\ Len(Meanings(frame.file, Deeper(frame))) = Len(texts[frame.file])
      /\ Len(texts[frame.file]) \in Nat /\ DOMAIN texts[frame.file] = 1..Len(texts[frame.file])
  BY <1>1, <1>2, <1>3, MeaningsType
<1>5. frame.line \in 1..Len(texts[frame.file]) + 1
  BY <1>1, <1>2, <1>4
<1>6. QED
  BY <1>1, <1>2, <1>4, <1>5

\* A call at a line has that line to read, then the lines after it.
LEMMA LineRest ==
  ASSUME texts \in Configurations, NEW frame, Fits(frame), frame.line > 0, frame.line <= Len(texts[frame.file])
  PROVE  /\ Fits(Advanced(frame))
         /\ frame.file \in DOMAIN texts /\ texts[frame.file] # None /\ frame.line \in DOMAIN texts[frame.file]
         /\ RestOf(frame) = Join(Meant(texts[frame.file][frame.line], Deeper(frame)), RestOf(Advanced(frame)))
         /\ Meant(texts[frame.file][frame.line], Deeper(frame)) \in Seq(AllLines)
<1> DEFINE s == Meanings(frame.file, Deeper(frame))
           l == frame.line
           a == Advanced(frame)
<1>1. /\ frame \in Frame /\ frame.depth <= kMaxIncludeDepth /\ texts[frame.file] # None
      /\ frame.file \in DOMAIN texts
      /\ s \in Seq(Seq(AllLines)) /\ Len(s) = Len(texts[frame.file])
      /\ Len(texts[frame.file]) \in Nat /\ DOMAIN texts[frame.file] = 1..Len(texts[frame.file])
      /\ l \in 1..Len(texts[frame.file]) + 1
  BY OpenFrame
<1>2. a \in Frame /\ a.file = frame.file /\ a.depth = frame.depth /\ a.line = l + 1
  BY <1>1, FrameParts
<1>3. l \in 1..Len(s) /\ l + 1 > 0 /\ l + 1 # 0 /\ l # 0 /\ l + 1 <= Len(s) + 1
  <2> DEFINE m == Len(texts[frame.file])
  <2>1. m \in Nat /\ l \in 1..m + 1 /\ l <= m /\ Len(s) = m
    BY <1>1
  <2> HIDE DEF m, l, s
  <2>2. QED
    BY <2>1
<1>4. Fits(a)
  BY <1>1, <1>2, <1>3 DEF Fits
<1>5. Deeper(a) = Deeper(frame)
  BY <1>2 DEF Deeper
<1>6. RestOf(frame) = FlattenSeq(From(s, l)) /\ RestOf(a) = FlattenSeq(From(s, l + 1))
  BY <1>2, <1>3, <1>5 DEF RestOf
<1>7. s[l] = Meant(texts[frame.file][l], Deeper(frame))
  BY <1>1, <1>3 DEF Meanings
<1> HIDE DEF s, l, a
<1>8. FlattenSeq(From(s, l)) = Join(s[l], FlattenSeq(From(s, l + 1))) /\ s[l] \in Seq(AllLines)
  BY <1>1, <1>3, FlattenFrom
<1>9. l \in DOMAIN texts[frame.file]
  BY <1>1, <1>3
<1>10. QED
  BY <1>1, <1>4, <1>6, <1>7, <1>8, <1>9 DEF l, a

\* A call that opens its file has all of it to read, or something unreadable.
LEMMA OpenRest ==
  ASSUME texts \in Configurations, NEW frame, Fits(frame), frame.line = 0
  PROVE  IF frame.depth > kMaxIncludeDepth \/ texts[frame.file] = None THEN RestOf(frame) = Unreadable
         ELSE Fits(Advanced(frame)) /\ RestOf(Advanced(frame)) = RestOf(frame)
<1> DEFINE d == MaxDepth - frame.depth
           a == Advanced(frame)
<1>1. frame \in Frame
  BY DEF Fits
<1>2. /\ frame.file \in DOMAIN texts /\ frame.depth \in 0..MaxDepth /\ d \in 0..MaxDepth
      /\ a \in Frame /\ a.file = frame.file /\ a.depth = frame.depth /\ a.line = 1
  BY <1>1, FrameParts
<1>3. Expanded[d] = TextsAt(d, Expanded[d - 1])
  BY <1>2, ExpandedIs
<1>4. RestOf(frame) = IF d = 0 \/ texts[frame.file] = None THEN Unreadable
                      ELSE FlattenSeq(Meanings(frame.file, Expanded[d - 1]))
  BY <1>2, <1>3 DEF RestOf, TextsAt
<1>5. d = 0 <=> frame.depth > kMaxIncludeDepth
  BY <1>2, DepthIsNat DEF MaxDepth
<1>6. CASE d = 0 \/ texts[frame.file] = None
  BY <1>4, <1>5, <1>6
<1>7. CASE d # 0 /\ texts[frame.file] # None
  <2>1. frame.depth <= kMaxIncludeDepth
    BY <1>2, <1>5, <1>7, DepthIsNat
  <2>2. Deeper(frame) \in Below /\ d - 1 = kMaxIncludeDepth - frame.depth
    BY <1>1, <2>1, DeeperIsBelow
  <2>3. Len(texts[frame.file]) \in Nat
    BY <1>2, <1>7, <2>2, MeaningsType
  <2>4. Fits(a)
    <3>1. 1 <= Len(texts[frame.file]) + 1
      BY <2>3
    <3>2. QED
      BY <1>2, <1>7, <2>1, <3>1 DEF Fits
  <2> DEFINE s == Meanings(frame.file, Deeper(frame))
  <2>5. Expanded[d - 1] = Deeper(frame) /\ Deeper(a) = Deeper(frame)
    BY <1>2, <2>2 DEF Deeper
  <2>6. RestOf(frame) = FlattenSeq(s)
    BY <1>4, <1>7, <2>5
  <2>7. RestOf(a) = FlattenSeq(From(s, 1))
    BY <1>2, <2>5 DEF RestOf
  <2>8. s \in Seq(Seq(AllLines))
    BY <1>2, <1>7, <2>2, MeaningsType
  <2>9. From(s, 1) = s
    <3> DEFINE T == Seq(AllLines)
    <3>1. s \in Seq(T)
      BY <2>8
    <3> HIDE DEF s, T
    <3>2. \A k \in 1..Len(s) : 1 + k - 1 = k
      BY <3>1
    <3>3. From(s, 1) = [k \in 1..Len(s) |-> s[k]]
      BY <3>1, <3>2 DEF From
    <3>4. QED
      BY <3>1, <3>3
  <2> HIDE DEF s, a, d
  <2>10. QED
    BY <1>5, <1>7, <2>4, <2>6, <2>7, <2>9 DEF a
<1>8. QED
  BY <1>6, <1>7

\* At the end of a file nothing is left.
LEMMA CloseRest ==
  ASSUME texts \in Configurations, NEW frame, Fits(frame), frame.line > 0, frame.line > Len(texts[frame.file])
  PROVE  RestOf(frame) = <<>>
<1> DEFINE s == Meanings(frame.file, Deeper(frame))
           l == frame.line
           m == Len(texts[frame.file])
<1>1. Len(s) = m /\ m \in Nat /\ l \in 1..m + 1 /\ l > m /\ s \in Seq(Seq(AllLines))
  BY OpenFrame
<1>2. RestOf(frame) = FlattenSeq(From(s, l))
  BY DEF RestOf
<1> HIDE DEF s, l, m
<1>3. Len(s) + 1 - l = 0
  BY <1>1
<1>4. From(s, l) = <<>>
  BY <1>3 DEF From
<1>5. QED
  BY <1>2, <1>4, FlattenEmpty

\* The calls for the files of an Include, the first one on top.
CallsOf(included, depth) ==
  [i \in DOMAIN included |-> [file |-> included[Len(included) + 1 - i], depth |-> depth + 1, line |-> 0]]

\* The calls of an Include are on the stack in reverse, so that the first file is read first.
LEMMA CallsAreStack ==
  ASSUME texts \in Configurations, NEW included, included \in Seq(DOMAIN texts),
         NEW depth, depth \in 0..kMaxIncludeDepth
  PROVE  /\ IsStack(CallsOf(included, depth))
         /\ Rests(CallsOf(included, depth)) =
              [j \in DOMAIN included |-> Expanded[kMaxIncludeDepth - depth][included[j]]]
<1> DEFINE n == Len(included)
           calls == CallsOf(included, depth)
           F == DOMAIN texts
<1> HIDE DEF F
<1>1. n \in Nat /\ DOMAIN included = 1..n /\ \A j \in 1..n : included[j] \in F
  BY DEF F
<1>2. \A i \in 1..n : n + 1 - i \in 1..n /\ n + 1 - (n + 1 - i) = i
  BY <1>1
<1>3. depth + 1 \in 0..MaxDepth /\ MaxDepth - (depth + 1) = kMaxIncludeDepth - depth
  BY DepthIsNat DEF MaxDepth
<1>4. calls = [i \in 1..n |-> [file |-> included[n + 1 - i], depth |-> depth + 1, line |-> 0]]
  BY <1>1 DEF CallsOf
<1> HIDE DEF n, calls
<1>5. ASSUME NEW i \in 1..n
      PROVE  /\ calls[i] \in Frame /\ calls[i].line = 0 /\ calls[i].file = included[n + 1 - i]
             /\ calls[i].depth = depth + 1
  <2>1. calls[i] = [file |-> included[n + 1 - i], depth |-> depth + 1, line |-> 0]
    BY <1>4
  <2>2. included[n + 1 - i] \in F
    BY <1>1, <1>2
  <2>3. 0 \in Nat
    OBVIOUS
  <2>4. calls[i] \in Frame
    BY <1>3, <2>1, <2>2, <2>3 DEF Frame, F
  <2>5. QED
    BY <2>1, <2>4
<1>6. calls \in [1..n -> Frame]
  BY <1>4, <1>5
<1>7. calls \in Seq(Frame) /\ Len(calls) = n
  BY <1>1, <1>6
<1>8. \A i \in 1..n : Fits(calls[i])
  BY <1>5 DEF Fits
<1>9. IsStack(calls)
  BY <1>7, <1>8 DEF IsStack
<1>10. Rests(calls) = [i \in 1..n |-> RestOf(calls[n + 1 - i])]
  BY <1>7 DEF Rests
<1>11. ASSUME NEW i \in 1..n PROVE RestOf(calls[n + 1 - i]) = Expanded[kMaxIncludeDepth - depth][included[i]]
  <2>1. calls[n + 1 - i].line = 0 /\ calls[n + 1 - i].depth = depth + 1 /\ calls[n + 1 - i].file = included[i]
    BY <1>2, <1>5
  <2>2. QED
    BY <1>3, <2>1 DEF RestOf
<1>12. Rests(calls) = [i \in 1..n |-> Expanded[kMaxIncludeDepth - depth][included[i]]]
  BY <1>10, <1>11
<1>13. QED
  BY <1>1, <1>9, <1>12 DEF calls

\* An Include replaces its line by the files, which is what the line stands for: what is left to read stays the same.
LEMMA IncludeRest ==
  ASSUME texts \in Configurations, NEW fs, IsStack(fs), fs # <<>>,
         fs[Len(fs)].line > 0, fs[Len(fs)].line <= Len(texts[fs[Len(fs)].file]),
         texts[fs[Len(fs)].file][fs[Len(fs)].line].key = "Include",
         texts[fs[Len(fs)].file][fs[Len(fs)].line].value # {}
  PROVE  LET calls == CallsOf(InOrder(texts[fs[Len(fs)].file][fs[Len(fs)].line].value), fs[Len(fs)].depth)
         IN  /\ IsStack(calls) /\ IsStack(NextLineOf(fs) \o calls)
             /\ RestOfText(NextLineOf(fs) \o calls) = RestOfText(fs)
<1> DEFINE top == fs[Len(fs)]
           line == texts[top.file][top.line]
           included == InOrder(line.value)
           calls == CallsOf(included, top.depth)
           lower == Front(fs)
<1>1. Fits(top) /\ IsStack(lower)
  BY FramesSplit
<1>2. /\ Fits(Advanced(top))
      /\ top.file \in DOMAIN texts /\ texts[top.file] # None /\ top.line \in DOMAIN texts[top.file]
      /\ RestOf(top) = Join(Meant(line, Deeper(top)), RestOf(Advanced(top)))
      /\ Meant(line, Deeper(top)) \in Seq(AllLines)
  BY <1>1, LineRest
<1>3. top \in Frame /\ top.depth <= kMaxIncludeDepth
  BY <1>1, OpenFrame
<1>4. top.depth \in 0..kMaxIncludeDepth
  <2>1. top.depth \in 0..MaxDepth
    BY <1>3, FrameParts
  <2>2. QED
    BY <1>3, <2>1, DepthIsNat DEF MaxDepth
<1>5. IsFiniteSet(line.value) /\ line.value \subseteq DOMAIN texts /\ DOMAIN texts \subseteq Nat
  <2>1. line.key = "Include"
    OBVIOUS
  <2>2. QED
    BY <1>2, <2>1, LineIsLine
<1>6. included \in Seq(DOMAIN texts)
  <2> DEFINE v == line.value
             F == DOMAIN texts
  <2>1. IsFiniteSet(v) /\ v \subseteq F /\ F \subseteq Nat
    BY <1>5
  <2> HIDE DEF v, F
  <2>2. InOrder(v) \in Seq(v)
    <3>1. IsFiniteSet(v)
      BY <2>1
    <3>2. v \subseteq Int
      BY <2>1
    <3>3. QED
      BY <3>1, <3>2, InOrderIsSequence
  <2>3. InOrder(v) \in Seq(F)
    <3> DEFINE o == InOrder(v)
    <3> HIDE DEF o
    <3>1. o \in Seq(v)
      BY <2>2 DEF o
    <3>0. v \subseteq F
      BY <2>1
    <3>2. o \in Seq(F)
      BY <3>0, <3>1
    <3>3. QED
      BY <3>2 DEF o
  <2>4. QED
    BY <2>3 DEF v, F
<1>7. Meant(line, Deeper(top)) = FlattenSeq([j \in DOMAIN included |-> Deeper(top)[included[j]]])
  BY DEF Meant
<1> HIDE DEF included
<1>8. IsStack(calls) /\ Rests(calls) = [j \in DOMAIN included |-> Deeper(top)[included[j]]]
  BY <1>4, <1>6, CallsAreStack DEF Deeper
<1>9. IsStack(NextLineOf(fs)) /\ RestOfText(NextLineOf(fs)) = Join(RestOf(Advanced(top)), RestOfText(lower))
      /\ RestOfText(fs) = Join(RestOf(top), RestOfText(lower))
  BY <1>2, TopRest
<1> HIDE DEF calls
<1>10. IsStack(NextLineOf(fs) \o calls)
       /\ RestOfText(NextLineOf(fs) \o calls) = Join(FlattenSeq(Rests(calls)), RestOfText(NextLineOf(fs)))
  BY <1>8, <1>9, RestOfCalls
<1> DEFINE a == Meant(line, Deeper(top))
           b == RestOf(Advanced(top))
           c == RestOfText(lower)
<1>11. a \in Seq(AllLines) /\ b \in Seq(AllLines) /\ c \in Seq(AllLines)
  BY <1>1, <1>2, RestOfType, RestOfTextType
<1>12. FlattenSeq(Rests(calls)) = a
  BY <1>7, <1>8
<1>13. RestOfText(NextLineOf(fs) \o calls) = Join(a, Join(b, c)) /\ RestOfText(fs) = Join(Join(a, b), c)
  BY <1>2, <1>9, <1>10, <1>12
<1> HIDE DEF a, b, c
<1>14. RestOfText(NextLineOf(fs) \o calls) = RestOfText(fs)
  BY <1>11, <1>13, JoinJoin
<1>15. QED
  BY <1>8, <1>10, <1>14 DEF calls, included

-------------------------------------------------------------------------------
(* The invariant and the steps.  What was read and what is left to read make up the whole text, and
   the parser agrees with the former. *)

\* The definitions above as operators of the files, to see that they are the same after a step.
FileLinesOf(t) == UNION {ToSet(t[f]) : f \in {g \in DOMAIN t : t[g] # None}}

ExpandedOf(t) == CHOOSE e : e =
  [depth \in 0..kMaxIncludeDepth + 1 |->
     [file \in DOMAIN t |->
        IF depth = 0 \/ t[file] = None THEN Unreadable
        ELSE FlattenSeq([i \in DOMAIN t[file] |-> Meant(t[file][i], e[depth - 1])])]]

FrameOf(t) == [file : DOMAIN t, depth : 0..MaxDepth, line : Nat]

StackOf(t, fs) ==
  /\ fs \in Seq(FrameOf(t))
  /\ \A i \in 1..Len(fs) :
       /\ fs[i] \in FrameOf(t)
       /\ fs[i].line > 0 => /\ fs[i].depth <= kMaxIncludeDepth /\ t[fs[i].file] # None
                            /\ fs[i].line <= Len(t[fs[i].file]) + 1

RestOfAll(t, e, fs) ==
  FlattenSeq([i \in 1..Len(fs) |->
    IF fs[Len(fs) + 1 - i].line = 0 THEN e[MaxDepth - fs[Len(fs) + 1 - i].depth][fs[Len(fs) + 1 - i].file]
    ELSE FlattenSeq(From([j \in DOMAIN t[fs[Len(fs) + 1 - i].file] |->
                            Meant(t[fs[Len(fs) + 1 - i].file][j], e[kMaxIncludeDepth - fs[Len(fs) + 1 - i].depth])],
                         fs[Len(fs) + 1 - i].line))])

\* The files stay as they are, and so does everything that is said of them.
LEMMA TextsStay ==
  ASSUME texts' = texts
  PROVE  /\ AllLines' = AllLines /\ WholeText' = WholeText
         /\ IsStack(frames)' <=> IsStack(frames')
         /\ RestOfText(frames)' = RestOfText(frames')
<1>1. FileLines = FileLinesOf(texts) /\ FileLines' = FileLinesOf(texts')
  BY Zenon DEF FileLines, FileLinesOf
<1>2. Expanded = ExpandedOf(texts) /\ Expanded' = ExpandedOf(texts')
  BY DEF Expanded, ExpandedOf
<1>3. Expanded' = Expanded
  BY <1>2
<1>4. WholeText = Expanded[kMaxIncludeDepth + 1][0] /\ WholeText' = Expanded'[kMaxIncludeDepth + 1][0]
  BY DEF WholeText
<1>5. (IsStack(frames') <=> StackOf(texts, frames')) /\ (IsStack(frames)' <=> StackOf(texts', frames'))
  BY DEF IsStack, StackOf, Fits, Frame, FrameOf
<1>6. RestOfText(frames') = RestOfAll(texts, Expanded, frames')
  BY DEF RestOfText, Rests, RestOf, Deeper, Meanings, RestOfAll
<1>7. RestOfText(frames)' = RestOfAll(texts', Expanded', frames')
  BY DEF RestOfText, Rests, RestOf, Deeper, Meanings, RestOfAll
<1>8. AllLines' = AllLines
  <2>1. FileLines' = FileLines
    BY <1>1
  <2>2. AllLines = FileLines \cup ToSet(Unreadable) /\ AllLines' = FileLines' \cup ToSet(Unreadable)
    BY Zenon DEF AllLines
  <2>3. QED
    BY <2>1, <2>2, Zenon
<1>9. WholeText' = WholeText
  BY <1>3, <1>4
<1>10. IsStack(frames)' <=> IsStack(frames')
  BY <1>5
<1>11. RestOfText(frames)' = RestOfText(frames')
  BY <1>3, <1>6, <1>7
<1>12. QED
  BY <1>8, <1>9, <1>10, <1>11

\* No file has a SigLevel line with other scopes.
LEMMA AllLinesAreScoped ==
  ASSUME texts \in Configurations
  PROVE  ScopedLines(AllLines)
<1> SUFFICES ASSUME NEW line \in AllLines, line.key = "SigLevel" PROVE Scoped(line.value)
  BY Zenon DEF ScopedLines
<1>1. CASE line \in ToSet(Unreadable)
  <2>1. PICK i \in DOMAIN Unreadable : line = Unreadable[i]
    BY <1>1, Zenon DEF ToSet
  <2>2. DOMAIN Unreadable = 1..1
    BY DEF Unreadable
  <2>3. line.key = "unreadable"
    BY <2>1, <2>2, UnreadableIsText
  <2>4. QED
    BY <2>3
<1>2. CASE line \in FileLines
  <2>1. PICK f \in {g \in DOMAIN texts : texts[g] # None} : line \in ToSet(texts[f])
    BY <1>2, Zenon DEF FileLines
  <2>2. PICK i \in DOMAIN texts[f] : line = texts[f][i]
    BY <2>1, Zenon DEF ToSet
  <2>3. f \in DOMAIN texts /\ texts[f] # None
    OBVIOUS
  <2>4. texts[f][i].key = "SigLevel" =>
              /\ IsText(texts[f][i].value)
              /\ \A j \in DOMAIN texts[f][i].value : texts[f][i].value[j].scopes \subseteq Scopes
    BY <2>3, LineIsLine
  <2>5. QED
    BY <2>2, <2>4, Zenon DEF Scoped
<1>3. QED
  BY <1>1, <1>2, Zenon DEF AllLines

-------------------------------------------------------------------------------

\* What was read and what is left to read make up the text, and the former is remembered.
ReadSoFar(read) ==
  /\ read \in Seq(AllLines)
  /\ WholeText = Join(read, RestOfText(frames))
  /\ Agreement(AllLines, read, section, global_sig, repositories)

\* The inductive invariant: as long as the parser reads, some text was read.
ReadInv ==
  /\ texts \in Configurations
  /\ IsStack(frames)
  /\ parsed \in {"reading", "read", "error", "done"}
  /\ parsed = "reading" => frames # <<>>
  /\ parsed = "read" => frames = <<>>
  /\ parsed \in {"reading", "read"} => \E read : ReadSoFar(read)
  /\ ParsedAsWritten

\* The property before and after a step.
LEMMA ParsedAsWrittenIs ==
  /\ ParsedAsWritten <=> /\ parsed = "error" => Refusable(WholeText)
                         /\ parsed = "done" => ~Refusable(WholeText) /\ Matches(WholeText, result)
  /\ ParsedAsWritten' <=> /\ parsed' = "error" => Refusable(WholeText')
                          /\ parsed' = "done" => ~Refusable(WholeText') /\ Matches(WholeText', result')
BY Zenon DEF ParsedAsWritten, Matches

\* A step after which the text is split between read and left, and the parser agrees with the former.
LEMMA Carried ==
  ASSUME ReadInv, texts' = texts, IsStack(frames'),
         \/ parsed' = "reading" /\ frames' # <<>>
         \/ parsed' = "read" /\ frames' = <<>>,
         NEW read, read \in Seq(AllLines), WholeText = Join(read, RestOfText(frames')),
         Agreement(AllLines, read, section', global_sig', repositories')
  PROVE  ReadInv'
<1>1. texts' \in Configurations /\ AllLines' = AllLines /\ WholeText' = WholeText
      /\ IsStack(frames)' /\ RestOfText(frames)' = RestOfText(frames')
  BY TextsStay DEF ReadInv
<1>2. ReadSoFar(read)'
  BY <1>1, Zenon DEF ReadSoFar
<1>3. parsed' \notin {"error", "done"}
  OBVIOUS
<1>4. ParsedAsWritten'
  BY <1>3, ParsedAsWrittenIs
<1>5. /\ parsed' \in {"reading", "read", "error", "done"}
      /\ parsed' = "reading" => frames' # <<>>
      /\ parsed' = "read" => frames' = <<>>
  OBVIOUS
<1>6. QED
  BY <1>1, <1>2, <1>4, <1>5, Zenon DEF ReadInv

\* A step that refuses a text that is refusable.
LEMMA Refusing ==
  ASSUME ReadInv, texts' = texts, frames' = frames, parsed' = "error", Refusable(WholeText)
  PROVE  ReadInv'
<1>1. texts' \in Configurations /\ WholeText' = WholeText /\ IsStack(frames)'
  BY TextsStay DEF ReadInv
<1>2. ParsedAsWritten'
  BY <1>1, ParsedAsWrittenIs
<1>3. /\ parsed' \in {"reading", "read", "error", "done"}
      /\ parsed' \notin {"reading", "read"}
  OBVIOUS
<1>4. QED
  BY <1>1, <1>2, <1>3 DEF ReadInv

\* Reading one line moves the border between what is read and what is left.
LEMMA OneMore ==
  ASSUME NEW S, NEW read \in Seq(S), NEW line \in S, NEW rest \in Seq(S)
  PROVE  /\ Append(read, line) \in Seq(S)
         /\ Join(read, Join(<<line>>, rest)) = Join(Append(read, line), rest)
<1>1. <<line>> \in Seq(S) /\ Append(read, line) \in Seq(S)
  OBVIOUS
<1>2. Append(read, line) = Join(read, <<line>>)
  BY DEF Join
<1>3. Join(Join(read, <<line>>), rest) = Join(read, Join(<<line>>, rest))
  <2> DEFINE one == <<line>>
  <2>1. one \in Seq(S)
    BY <1>1
  <2> HIDE DEF one
  <2>2. Join(Join(read, one), rest) = Join(read, Join(one, rest))
    BY <2>1, JoinJoin
  <2>3. QED
    BY <2>2 DEF one
<1>4. QED
  BY <1>1, <1>2, <1>3

\* A call at a line: the line comes first in what is left.
LEMMA LineAhead ==
  ASSUME ReadInv, frames # <<>>, NEW key, AtLine(key)
  PROVE  /\ parsed = "reading"
         /\ Line \in AllLines /\ Line.key = key
         /\ Top = frames[Len(frames)] /\ Line = texts[Top.file][Top.line]
         /\ Top.line > 0 /\ Top.line <= Len(texts[Top.file])
         /\ key = "SigLevel" => Scoped(Line.value)
         /\ IsStack(NextLineOf(frames)) /\ NextLineOf(frames) # <<>>
         /\ RestOfText(NextLineOf(frames)) \in Seq(AllLines)
         /\ RestOfText(frames) = Join(Meant(Line, Deeper(Top)), RestOfText(NextLineOf(frames)))
<1>1. texts \in Configurations /\ IsStack(frames) /\ Top = frames[Len(frames)]
      /\ Line = texts[Top.file][Top.line]
  BY Zenon DEF ReadInv, Top, Line
<1>2. parsed = "reading" /\ Top.line > 0 /\ Top.line <= Len(texts[Top.file]) /\ Line.key = key
  BY Zenon DEF AtLine
<1>3. Fits(Top) /\ IsStack(Front(frames)) /\ NextLineOf(frames) = Front(frames) \o <<Advanced(Top)>>
      /\ Len(frames) \in Nat \ {0} /\ frames \in Seq(Frame)
  BY <1>1, FramesSplit DEF IsStack
<1>4. /\ Fits(Advanced(Top)) /\ Top.file \in DOMAIN texts /\ texts[Top.file] # None
      /\ Top.line \in DOMAIN texts[Top.file]
      /\ RestOf(Top) = Join(Meant(Line, Deeper(Top)), RestOf(Advanced(Top)))
      /\ Meant(Line, Deeper(Top)) \in Seq(AllLines)
  BY <1>1, <1>2, <1>3, LineRest
<1>5. /\ Line \in AllLines
      /\ key = "SigLevel" => Scoped(Line.value)
  BY <1>1, <1>2, <1>4, LineIsLine DEF Scoped
<1>6. /\ IsStack(NextLineOf(frames))
      /\ RestOfText(frames) = Join(RestOf(Top), RestOfText(Front(frames)))
      /\ RestOfText(NextLineOf(frames)) = Join(RestOf(Advanced(Top)), RestOfText(Front(frames)))
  BY <1>1, <1>4, TopRest
<1>7. /\ RestOf(Advanced(Top)) \in Seq(AllLines) /\ RestOfText(Front(frames)) \in Seq(AllLines)
      /\ RestOfText(NextLineOf(frames)) \in Seq(AllLines)
  BY <1>1, <1>3, <1>4, <1>6, RestOfType, RestOfTextType
<1>8. RestOfText(frames) = Join(Meant(Line, Deeper(Top)), RestOfText(NextLineOf(frames)))
  BY <1>4, <1>6, <1>7, JoinJoin
<1>9. NextLineOf(frames) # <<>>
  <2>1. DOMAIN NextLineOf(frames) = DOMAIN frames
    BY DEF NextLineOf
  <2>2. DOMAIN frames = 1..Len(frames) /\ 1 \in 1..Len(frames)
    BY <1>3
  <2>3. QED
    BY <2>1, <2>2
<1>10. QED
  BY <1>1, <1>2, <1>5, <1>6, <1>7, <1>8, <1>9

\* Reading that line.
LEMMA ReadOn ==
  ASSUME ReadInv, frames # <<>>, NEW key, AtLine(key), key # "Include"
  PROVE  \E read : /\ ReadSoFar(read) /\ read \in Seq(AllLines) /\ Append(read, Line) \in Seq(AllLines)
                   /\ Agreement(AllLines, read, section, global_sig, repositories)
                   /\ WholeText = Join(Append(read, Line), RestOfText(NextLineOf(frames)))
<1>1. PICK read : ReadSoFar(read)
  BY LineAhead DEF ReadInv
<1>2. /\ read \in Seq(AllLines) /\ WholeText = Join(read, RestOfText(frames))
      /\ Agreement(AllLines, read, section, global_sig, repositories)
  BY <1>1, Zenon DEF ReadSoFar
<1>3. Line \in AllLines /\ Line.key = key /\ RestOfText(NextLineOf(frames)) \in Seq(AllLines)
      /\ RestOfText(frames) = Join(Meant(Line, Deeper(Top)), RestOfText(NextLineOf(frames)))
  BY LineAhead
<1>4. Meant(Line, Deeper(Top)) = <<Line>>
  BY <1>3 DEF Meant
<1>5. Append(read, Line) \in Seq(AllLines) /\ WholeText = Join(Append(read, Line), RestOfText(NextLineOf(frames)))
  BY <1>2, <1>3, <1>4, OneMore
<1>6. QED
  BY <1>1, <1>2, <1>5

\* NextLine as an operator of the stack.
LEMMA NextLineIs == NextLine <=> frames' = NextLineOf(frames)
BY DEF NextLine, NextLineOf

\* A line at which the parser stops is reason enough to refuse the whole text,
LEMMA StopsHere ==
  ASSUME ReadInv, NEW read, NEW line, line \in AllLines, NEW rest, rest \in Seq(AllLines),
         read \in Seq(AllLines), Agreement(AllLines, read, section, global_sig, repositories),
         WholeText = Join(Append(read, line), rest), Stops(read, section, line)
  PROVE  Refusable(WholeText)
<1>1. EndsIn(read, section)
  BY Zenon DEF Agreement
<1>2. ~Sound(Append(read, line))
  BY <1>1, NotSound
<1>3. Append(read, line) \in Seq(AllLines)
  OBVIOUS
<1>4. QED
  BY <1>2, <1>3, RefusedBefore

\* and so is a file that cannot be read, is too deep or does not exist.
LEMMA UnreadableAhead ==
  ASSUME ReadInv, parsed \in {"reading", "read"}, NEW rest, rest \in Seq(AllLines),
         RestOfText(frames) = Join(Unreadable, rest)
  PROVE  Refusable(WholeText)
<1>1. PICK read : ReadSoFar(read)
  BY DEF ReadInv
<1>2. /\ read \in Seq(AllLines) /\ WholeText = Join(read, RestOfText(frames))
      /\ Agreement(AllLines, read, section, global_sig, repositories)
  BY <1>1, Zenon DEF ReadSoFar
<1>3. /\ Unreadable = <<Unreadable[1]>> /\ Unreadable[1] \in AllLines /\ Unreadable[1].key = "unreadable"
  <2>1. Unreadable = <<Unreadable[1]>>
    BY DEF Unreadable
  <2>2. QED
    BY <2>1, UnreadableIsText
<1>4. WholeText = Join(Append(read, Unreadable[1]), rest)
  BY <1>2, <1>3, OneMore
<1>5. Stops(read, section, Unreadable[1])
  BY <1>3 DEF Stops
<1>6. QED
  BY <1>2, <1>3, <1>4, <1>5, StopsHere

\* While the parser reads there is an innermost call.
LEMMA Reading ==
  ASSUME ReadInv, parsed = "reading"
  PROVE  /\ texts \in Configurations /\ IsStack(frames) /\ frames # <<>> /\ Top = frames[Len(frames)]
         /\ Fits(Top) /\ IsStack(Front(frames)) /\ Len(Front(frames)) = Len(frames) - 1
         /\ Len(frames) \in Nat \ {0} /\ RestOfText(Front(frames)) \in Seq(AllLines)
         /\ RestOfText(frames) = Join(RestOf(Top), RestOfText(Front(frames)))
<1>1. texts \in Configurations /\ IsStack(frames) /\ frames # <<>> /\ Top = frames[Len(frames)]
  BY Zenon DEF ReadInv, Top
<1>2. Fits(Top) /\ IsStack(Front(frames)) /\ Len(Front(frames)) = Len(frames) - 1
      /\ Len(frames) \in Nat \ {0}
  BY <1>1, FramesSplit
<1>3. RestOfText(frames) = Join(RestOf(Top), RestOfText(Front(frames)))
  BY <1>1, TopRest
<1>4. RestOfText(Front(frames)) \in Seq(AllLines)
  BY <1>1, <1>2, RestOfTextType
<1>5. QED
  BY <1>1, <1>2, <1>3, <1>4

\* A step that leaves alone what is left to read and what the parser remembers.
LEMMA SameRead ==
  ASSUME ReadInv, parsed = "reading", texts' = texts, UNCHANGED parser, IsStack(frames'),
         RestOfText(frames') = RestOfText(frames),
         \/ parsed' = "reading" /\ frames' # <<>>
         \/ parsed' = "read" /\ frames' = <<>>
  PROVE  ReadInv'
<1>1. PICK read : ReadSoFar(read)
  BY DEF ReadInv
<1>2. /\ read \in Seq(AllLines) /\ WholeText = Join(read, RestOfText(frames))
      /\ Agreement(AllLines, read, section, global_sig, repositories)
  BY <1>1, Zenon DEF ReadSoFar
<1>3. section' = section /\ global_sig' = global_sig /\ repositories' = repositories
  BY DEF parser
<1>4. WholeText = Join(read, RestOfText(frames')) /\ Agreement(AllLines, read, section', global_sig', repositories')
  BY <1>2, <1>3
<1>5. QED
  BY <1>2, <1>4, Carried

\* OpenFile leaves the same to read, or meets what is unreadable.
LEMMA OpenFileReads == ASSUME ReadInv, OpenFile PROVE ReadInv'
<1>1. /\ parsed = "reading" /\ frames # <<>> /\ Top.line = 0 /\ texts' = texts /\ UNCHANGED parser
      /\ IF Top.depth > kMaxIncludeDepth \/ texts[Top.file] = None
         THEN parsed' = "error" /\ frames' = frames
         ELSE NextLine /\ parsed' = parsed
  BY DEF OpenFile
<1>2. /\ texts \in Configurations /\ IsStack(frames) /\ Top = frames[Len(frames)] /\ Fits(Top)
      /\ RestOfText(Front(frames)) \in Seq(AllLines)
      /\ RestOfText(frames) = Join(RestOf(Top), RestOfText(Front(frames)))
      /\ Len(frames) \in Nat \ {0}
  BY <1>1, Reading
<1>3. CASE Top.depth > kMaxIncludeDepth \/ texts[Top.file] = None
  <2>1. RestOf(Top) = Unreadable
    BY <1>1, <1>2, <1>3, OpenRest
  <2>2. Refusable(WholeText)
    BY <1>1, <1>2, <2>1, UnreadableAhead
  <2>3. QED
    BY <1>1, <1>3, <2>2, Refusing
<1>4. CASE ~(Top.depth > kMaxIncludeDepth \/ texts[Top.file] = None)
  <2>1. Fits(Advanced(Top)) /\ RestOf(Advanced(Top)) = RestOf(Top)
    BY <1>1, <1>2, <1>4, OpenRest
  <2>2. frames' = NextLineOf(frames) /\ parsed' = "reading"
    BY <1>1, <1>4, NextLineIs
  <2>3. /\ IsStack(NextLineOf(frames))
        /\ RestOfText(NextLineOf(frames)) = Join(RestOf(Advanced(Top)), RestOfText(Front(frames)))
    BY <1>1, <1>2, <2>1, TopRest
  <2>4. IsStack(frames') /\ RestOfText(frames') = RestOfText(frames)
    BY <1>2, <2>1, <2>2, <2>3
  <2>5. frames' # <<>>
    <3>1. DOMAIN frames' = DOMAIN frames
      BY <2>2 DEF NextLineOf
    <3>2. DOMAIN frames = 1..Len(frames) /\ 1 \in 1..Len(frames)
      BY <1>2 DEF IsStack
    <3>3. QED
      BY <3>1, <3>2
  <2>6. QED
    BY <1>1, <2>2, <2>4, <2>5, SameRead
<1>5. QED
  BY <1>3, <1>4

\* CloseFile drops a call that has nothing left.
LEMMA CloseFileReads == ASSUME ReadInv, CloseFile PROVE ReadInv'
<1>1. /\ parsed = "reading" /\ Top.line > 0 /\ Top.line > Len(texts[Top.file])
      /\ texts' = texts /\ UNCHANGED parser /\ frames' = Front(frames)
      /\ parsed' = IF Len(frames) = 1 THEN "read" ELSE parsed
  BY DEF CloseFile
<1>2. /\ texts \in Configurations /\ IsStack(frames) /\ Top = frames[Len(frames)] /\ Fits(Top)
      /\ IsStack(Front(frames)) /\ Len(Front(frames)) = Len(frames) - 1
      /\ RestOfText(Front(frames)) \in Seq(AllLines)
      /\ RestOfText(frames) = Join(RestOf(Top), RestOfText(Front(frames)))
      /\ Len(frames) \in Nat \ {0}
  BY <1>1, Reading
<1>3. RestOf(Top) = <<>>
  BY <1>1, <1>2, CloseRest
<1>4. IsStack(frames') /\ RestOfText(frames') = RestOfText(frames)
  BY <1>1, <1>2, <1>3, JoinNothing
<1>5. CASE Len(frames) = 1
  <2>1. Len(frames') = 0 /\ frames' \in Seq(Frame)
    BY <1>1, <1>2, <1>5 DEF IsStack
  <2>2. frames' = <<>>
    BY <2>1
  <2>3. parsed' = "read"
    BY <1>1, <1>5
  <2>4. QED
    BY <1>1, <1>4, <2>2, <2>3, SameRead
<1>6. CASE Len(frames) # 1
  <2>1. Len(frames') # 0
    BY <1>1, <1>2, <1>6
  <2>2. frames' # <<>>
    BY <2>1
  <2>3. parsed' = "reading"
    BY <1>1, <1>6
  <2>4. QED
    BY <1>1, <1>4, <2>2, <2>3, SameRead
<1>7. QED
  BY <1>5, <1>6

\* A stack with more calls is not empty.
LEMMA MoreFrames ==
  ASSUME NEW fs, IsStack(fs), fs # <<>>, NEW calls, IsStack(calls)
  PROVE  fs \o calls # <<>>
<1> DEFINE F == Frame
<1>1. fs \in Seq(F) /\ calls \in Seq(F)
  BY DEF IsStack
<1> HIDE DEF F
<1>2. Len(fs) \in Nat /\ Len(fs) # 0 /\ Len(calls) \in Nat
  BY <1>1
<1>3. fs \o calls \in Seq(F) /\ Len(fs \o calls) = Len(fs) + Len(calls)
  BY <1>1
<1>4. QED
  BY <1>2, <1>3

\* HandleInclude leaves the same to read, or meets what is unreadable.
LEMMA HandleIncludeReads == ASSUME ReadInv, frames # <<>>, HandleInclude PROVE ReadInv'
<1> DEFINE included == InOrder(Line.value)
           calls == CallsOf(included, Top.depth)
<1>1. /\ AtLine("Include") /\ texts' = texts
      /\ IF Line.value = {} THEN Refuse
         ELSE /\ frames' = NextLineOf(frames) \o calls
              /\ UNCHANGED <<parser, configuration_files, parsed>>
  BY DEF HandleInclude, CallsOf, NextLineOf
<1>2. /\ parsed = "reading" /\ Line.key = "Include"
      /\ Top = frames[Len(frames)] /\ Line = texts[Top.file][Top.line]
      /\ Top.line > 0 /\ Top.line <= Len(texts[Top.file])
      /\ IsStack(NextLineOf(frames)) /\ NextLineOf(frames) # <<>>
      /\ RestOfText(NextLineOf(frames)) \in Seq(AllLines)
      /\ RestOfText(frames) = Join(Meant(Line, Deeper(Top)), RestOfText(NextLineOf(frames)))
  BY <1>1, LineAhead
<1>3. texts \in Configurations /\ IsStack(frames)
  BY Zenon DEF ReadInv
<1>4. CASE Line.value = {}
  <2>1. Meant(Line, Deeper(Top)) = Unreadable
    BY <1>2, <1>4 DEF Meant
  <2>2. Refusable(WholeText)
    BY <1>2, <2>1, UnreadableAhead
  <2>3. parsed' = "error" /\ frames' = frames
    BY <1>1, <1>4 DEF Refuse
  <2>4. QED
    BY <1>1, <2>2, <2>3, Refusing
<1>5. CASE Line.value # {}
  <2>1. /\ IsStack(calls) /\ IsStack(NextLineOf(frames) \o calls)
        /\ RestOfText(NextLineOf(frames) \o calls) = RestOfText(frames)
    BY <1>2, <1>3, <1>5, IncludeRest
  <2>2. frames' = NextLineOf(frames) \o calls /\ UNCHANGED parser /\ parsed' = "reading"
    BY <1>1, <1>2, <1>5
  <2>3. IsStack(frames') /\ RestOfText(frames') = RestOfText(frames)
    BY <2>1, <2>2
  <2>4. frames' # <<>>
    <3>1. NextLineOf(frames) \o calls # <<>>
      BY <1>2, <2>1, MoreFrames
    <3>2. QED
      BY <2>2, <3>1
  <2>5. QED
    BY <1>1, <1>2, <2>2, <2>3, <2>4, SameRead
<1>6. QED
  BY <1>4, <1>5

\* A line that is read, and what its handler makes of it.
LEMMA LineRead ==
  ASSUME ReadInv, frames # <<>>, NEW key, AtLine(key), key # "Include", texts' = texts,
         NextLine, parsed' = parsed,
         NEW read, Append(read, Line) \in Seq(AllLines),
         WholeText = Join(Append(read, Line), RestOfText(NextLineOf(frames))),
         Agreement(AllLines, Append(read, Line), section', global_sig', repositories')
  PROVE  ReadInv'
<1>1. parsed = "reading" /\ IsStack(NextLineOf(frames)) /\ NextLineOf(frames) # <<>>
  BY LineAhead
<1>2. frames' = NextLineOf(frames)
  BY NextLineIs
<1>3. IsStack(frames') /\ frames' # <<>> /\ parsed' = "reading"
      /\ WholeText = Join(Append(read, Line), RestOfText(frames'))
  BY <1>1, <1>2
<1>4. QED
  BY <1>3, Carried

\* A line that is refused.
LEMMA LineRefused ==
  ASSUME ReadInv, frames # <<>>, NEW key, AtLine(key), key # "Include", texts' = texts, Refuse,
         NEW read, read \in Seq(AllLines),
         Agreement(AllLines, read, section, global_sig, repositories),
         WholeText = Join(Append(read, Line), RestOfText(NextLineOf(frames))),
         Stops(read, section, Line)
  PROVE  ReadInv'
<1>1. Line \in AllLines /\ RestOfText(NextLineOf(frames)) \in Seq(AllLines)
  BY LineAhead
<1>2. Refusable(WholeText)
  BY <1>1, StopsHere
<1>3. parsed' = "error" /\ frames' = frames
  BY DEF Refuse
<1>4. QED
  BY <1>2, <1>3, Refusing

\* A line that changes nothing that is remembered here.
LEMMA QuietLineReads ==
  ASSUME ReadInv, frames # <<>>, NEW key \in Keys \ {"section", "Include"}, AtLine(key), texts' = texts,
         NextLine, parsed' = parsed, section' = section, global_sig' = global_sig, repositories' = repositories,
         key = "SigLevel" => section = "",
         key = "Server" => section \in {"", "options"}
  PROVE  ReadInv'
<1>1. key # "Include" /\ key # "section" /\ key # "unreadable"
  BY DEF Keys
<1>2. PICK read : /\ read \in Seq(AllLines) /\ Append(read, Line) \in Seq(AllLines)
                  /\ Agreement(AllLines, read, section, global_sig, repositories)
                  /\ WholeText = Join(Append(read, Line), RestOfText(NextLineOf(frames)))
  BY <1>1, ReadOn
<1>3. Line \in AllLines /\ Line.key = key
  BY LineAhead
<1>4. /\ Line.key \notin {"section", "unreadable"}
      /\ Line.key = "SigLevel" => section = ""
      /\ Line.key = "Server" => section \in {"", "options"}
  BY <1>1, <1>3
<1>5. Agreement(AllLines, Append(read, Line), section, global_sig, repositories)
  BY <1>2, <1>3, <1>4, AgreementQuiet
<1>6. QED
  BY <1>1, <1>2, <1>5, LineRead

\* The handlers of the other lines.
LEMMA HandleOptionReads == ASSUME ReadInv, frames # <<>>, HandleOption PROVE ReadInv'
<1>1. /\ AtLine("GPGDir") \/ AtLine("Architecture")
      /\ texts' = texts /\ NextLine /\ parsed' = parsed
      /\ section' = section /\ global_sig' = global_sig /\ repositories' = repositories
  BY DEF HandleOption
<1>2. "GPGDir" \in Keys \ {"section", "Include"} /\ "Architecture" \in Keys \ {"section", "Include"}
  BY DEF Keys
<1>3. CASE AtLine("GPGDir")
  BY <1>1, <1>2, <1>3, QuietLineReads
<1>4. CASE AtLine("Architecture")
  BY <1>1, <1>2, <1>4, QuietLineReads
<1>5. QED
  BY <1>1, <1>3, <1>4

LEMMA SkipLineReads == ASSUME ReadInv, frames # <<>>, SkipLine PROVE ReadInv'
<1>1. /\ \/ AtLine("GPGDir") \/ AtLine("Architecture")
         \/ AtLine("SigLevel") /\ section = ""
         \/ AtLine("Server") /\ section \in {"", "options"}
      /\ texts' = texts /\ NextLine /\ parsed' = parsed
      /\ section' = section /\ global_sig' = global_sig /\ repositories' = repositories
  BY DEF SkipLine, parser, InRepository
<1>2. {"GPGDir", "Architecture", "SigLevel", "Server"} \subseteq Keys \ {"section", "Include"}
  BY DEF Keys
<1>3. CASE AtLine("GPGDir")
  BY <1>1, <1>2, <1>3, QuietLineReads
<1>4. CASE AtLine("Architecture")
  BY <1>1, <1>2, <1>4, QuietLineReads
<1>5. CASE AtLine("SigLevel") /\ section = ""
  BY <1>1, <1>2, <1>5, QuietLineReads
<1>6. CASE AtLine("Server") /\ section \in {"", "options"}
  BY <1>1, <1>2, <1>6, QuietLineReads
<1>7. QED
  BY <1>1, <1>3, <1>4, <1>5, <1>6

LEMMA HandleServerReads == ASSUME ReadInv, frames # <<>>, HandleServer PROVE ReadInv'
<1>1. /\ AtLine("Server") /\ section \notin {"", "options"}
      /\ repositories' = [repositories EXCEPT ![Len(repositories)].servers = Append(@, Line.value)]
      /\ texts' = texts /\ NextLine /\ parsed' = parsed /\ section' = section /\ global_sig' = global_sig
  BY Zenon DEF HandleServer, InRepository
<1>2. PICK read : /\ read \in Seq(AllLines) /\ Append(read, Line) \in Seq(AllLines)
                  /\ Agreement(AllLines, read, section, global_sig, repositories)
                  /\ WholeText = Join(Append(read, Line), RestOfText(NextLineOf(frames)))
  BY <1>1, ReadOn
<1>3. Line \in AllLines /\ Line.key = "Server"
  BY <1>1, LineAhead
<1>4. Agreement(AllLines, Append(read, Line), section', global_sig', repositories')
  BY <1>1, <1>2, <1>3, AgreementServer
<1>5. QED
  BY <1>1, <1>2, <1>4, LineRead

LEMMA HandleSigLevelReads == ASSUME ReadInv, frames # <<>>, HandleSigLevel PROVE ReadInv'
<1>1. /\ AtLine("SigLevel") /\ section # "" /\ texts' = texts
      /\ IF ~Parseable(Line.value) THEN Refuse
         ELSE /\ IF InOptions THEN global_sig' = Refined(global_sig, Line.value) /\ repositories' = repositories
                 ELSE /\ repositories' = [repositories EXCEPT ![Len(repositories)].sig = Refined(@, Line.value)]
                      /\ global_sig' = global_sig
              /\ NextLine /\ section' = section /\ parsed' = parsed
  BY DEF HandleSigLevel
<1>2. PICK read : /\ read \in Seq(AllLines) /\ Append(read, Line) \in Seq(AllLines)
                  /\ Agreement(AllLines, read, section, global_sig, repositories)
                  /\ WholeText = Join(Append(read, Line), RestOfText(NextLineOf(frames)))
  BY <1>1, ReadOn
<1>3. Line \in AllLines /\ Line.key = "SigLevel" /\ Scoped(Line.value)
  BY <1>1, LineAhead
<1>4. CASE ~Parseable(Line.value)
  <2>1. Stops(read, section, Line)
    BY <1>1, <1>3, <1>4 DEF Stops
  <2>2. Refuse
    BY <1>1, <1>4
  <2>3. QED
    BY <1>1, <1>2, <2>1, <2>2, LineRefused
<1>5. CASE Parseable(Line.value) /\ InOptions
  <2>1. section = "options" /\ section' = section /\ NextLine /\ parsed' = parsed
        /\ global_sig' = Refined(global_sig, Line.value) /\ repositories' = repositories
    BY <1>1, <1>5 DEF InOptions
  <2>2. Agreement(AllLines, Append(read, Line), "options", Refined(global_sig, Line.value), repositories)
    BY <1>2, <1>3, <1>5, <2>1, AgreementOptions
  <2>3. Agreement(AllLines, Append(read, Line), section', global_sig', repositories')
    BY <2>1, <2>2
  <2>4. QED
    BY <1>1, <1>2, <2>1, <2>3, LineRead
<1>6. CASE Parseable(Line.value) /\ ~InOptions
  <2>1. section \notin {"", "options"} /\ section' = section /\ NextLine /\ parsed' = parsed
        /\ global_sig' = global_sig
        /\ repositories' = [repositories EXCEPT ![Len(repositories)].sig = Refined(@, Line.value)]
    BY <1>1, <1>6 DEF InOptions
  <2>2. Agreement(AllLines, Append(read, Line), section, global_sig,
                  [repositories EXCEPT ![Len(repositories)].sig = Refined(@, Line.value)])
    BY <1>2, <1>3, <1>6, <2>1, AgreementSigLevel
  <2>3. Agreement(AllLines, Append(read, Line), section', global_sig', repositories')
    BY <2>1, <2>2
  <2>4. QED
    BY <1>1, <1>2, <2>1, <2>3, LineRead
<1>7. QED
  BY <1>4, <1>5, <1>6

LEMMA BeginSectionReads == ASSUME ReadInv, frames # <<>>, BeginSection PROVE ReadInv'
<1> DEFINE taken == Line.value # "options" /\ \E i \in DOMAIN repositories : repositories[i].name = Line.value
           new == [name |-> Line.value, servers |-> <<>>, sig |-> NoSetting]
<1>1. /\ AtLine("section") /\ texts' = texts
      /\ IF taken THEN Refuse
         ELSE /\ section' = Line.value
              /\ repositories' = IF Line.value = "options" THEN repositories ELSE Append(repositories, new)
              /\ NextLine /\ global_sig' = global_sig /\ parsed' = parsed
  BY DEF BeginSection
<1>2. PICK read : /\ read \in Seq(AllLines) /\ Append(read, Line) \in Seq(AllLines)
                  /\ Agreement(AllLines, read, section, global_sig, repositories)
                  /\ WholeText = Join(Append(read, Line), RestOfText(NextLineOf(frames)))
  BY <1>1, ReadOn
<1>3. Line \in AllLines /\ Line.key = "section"
  BY <1>1, LineAhead
<1>4. (\E i \in DOMAIN repositories : repositories[i].name = Line.value) <=> ~Unused(read, Line.value)
  <2>1. Named(AllLines, read, repositories)
    BY <1>2, Zenon DEF Agreement
  <2>2. DOMAIN repositories = 1..Len(repositories)
    BY <2>1, NamesOfHeaders
  <2>3. /\ \A h \in Headers(read) : \E i \in 1..Len(repositories) : repositories[i].name = read[h].value
        /\ \A i \in 1..Len(repositories) : \E h \in Headers(read) : repositories[i].name = read[h].value
    BY <2>1, Zenon DEF Named
  <2>4. QED
    BY <2>2, <2>3 DEF Unused
<1>5. CASE taken
  <2>1. Stops(read, section, Line)
    BY <1>3, <1>4, <1>5 DEF Stops
  <2>2. Refuse
    BY <1>1, <1>5
  <2>3. QED
    BY <1>1, <1>2, <2>1, <2>2, LineRefused
<1>6. CASE ~taken /\ Line.value = "options"
  <2>1. section' = Line.value /\ NextLine /\ parsed' = parsed /\ global_sig' = global_sig
        /\ repositories' = repositories
    BY <1>1, <1>6
  <2>2. Agreement(AllLines, Append(read, Line), Line.value, global_sig, repositories)
    BY <1>2, <1>3, <1>6, AgreementOptionsBegin
  <2>3. Agreement(AllLines, Append(read, Line), section', global_sig', repositories')
    BY <2>1, <2>2
  <2>4. QED
    BY <1>1, <1>2, <2>1, <2>3, LineRead
<1>7. CASE ~taken /\ Line.value # "options"
  <2>1. section' = Line.value /\ NextLine /\ parsed' = parsed /\ global_sig' = global_sig
        /\ repositories' = Append(repositories, new)
    BY <1>1, <1>7
  <2>2. Unused(read, Line.value) /\ Line.value # "options"
    BY <1>4, <1>7
  <2>3. Agreement(AllLines, Append(read, Line), Line.value, global_sig, Append(repositories, new))
    BY <1>2, <1>3, <2>2, AgreementBegin
  <2>4. Agreement(AllLines, Append(read, Line), section', global_sig', repositories')
    BY <2>1, <2>3
  <2>5. QED
    BY <1>1, <1>2, <2>1, <2>4, LineRead
<1>8. QED
  BY <1>5, <1>6, <1>7

\* In the end all is read, and the parser agrees with the whole text.
LEMMA FinishReads == ASSUME ReadInv, Finish PROVE ReadInv'
<1> DEFINE known == IF architectures = <<>> THEN <<machine>> ELSE architectures
           level == Merge(global_sig, kPacmanDefaultSigLevel)
<1>1. /\ parsed = "read" /\ texts' = texts /\ frames' = frames
      /\ IF Rejected(repositories) THEN parsed' = "error"
         ELSE parsed' = "done" /\ result' = Finished(repositories, level, known, gpgdir)
  BY DEF Finish, Rejected, Finished
<1>2. texts \in Configurations /\ frames = <<>> /\ ParsedAsWritten
  BY <1>1 DEF ReadInv
<1>3. PICK read : ReadSoFar(read)
  BY <1>1 DEF ReadInv
<1>4. /\ read \in Seq(AllLines) /\ WholeText = Join(read, RestOfText(frames))
      /\ Agreement(AllLines, read, section, global_sig, repositories)
  BY <1>3, Zenon DEF ReadSoFar
<1>5. RestOfText(frames) = <<>>
  <2>1. Rests(<<>>) = <<>>
    BY DEF Rests
  <2>2. QED
    BY <1>2, <2>1, FlattenEmpty, Zenon DEF RestOfText
<1>6. WholeText = read
  BY <1>4, <1>5, JoinNothing
<1>7. Rejected(repositories) <=> Refusable(WholeText)
  BY <1>4, <1>6, FinishRefusable
<1>8. CASE Rejected(repositories)
  BY <1>1, <1>7, <1>8, Refusing
<1>9. CASE ~Rejected(repositories)
  <2>1. parsed' = "done" /\ result' = Finished(repositories, level, known, gpgdir)
    BY <1>1, <1>9
  <2>2. ScopedLines(AllLines)
    BY <1>2, AllLinesAreScoped
  <2> HIDE DEF known
  <2>3. Matches(WholeText, Finished(repositories, level, known, gpgdir))
    BY <1>4, <1>6, <1>9, <2>2, FinishMatches
  <2>4. texts' \in Configurations /\ WholeText' = WholeText /\ IsStack(frames)'
    BY <1>1, <1>2, TextsStay DEF ReadInv
  <2>5. ParsedAsWritten'
    BY <1>7, <1>9, <2>1, <2>3, <2>4, ParsedAsWrittenIs
  <2>6. QED
    BY <2>1, <2>4, <2>5 DEF ReadInv
<1>10. QED
  BY <1>8, <1>9

\* At the start all is left to read.
LEMMA StartReads == ASSUME RepositoriesInit PROVE ReadInv
<1>1. /\ texts \in Configurations /\ frames = <<[file |-> 0, depth |-> 0, line |-> 0]>>
      /\ section = "" /\ global_sig = NoSetting /\ repositories = <<>> /\ parsed = "reading"
  BY DEF RepositoriesInit
<1> DEFINE first == [file |-> 0, depth |-> 0, line |-> 0]
<1>2. first \in Frame /\ first.line = 0 /\ first.file = 0 /\ first.depth = 0
  <2>1. 0 \in DOMAIN texts
    BY <1>1, RepositoriesAssumption, Zenon
  <2>2. 0 \in 0..MaxDepth /\ 0 \in Nat
    BY DepthIsNat
  <2>3. QED
    BY <2>1, <2>2 DEF Frame
<1>3. Fits(first)
  BY <1>2 DEF Fits
<1> HIDE DEF first
<1>4. IsStack(<<first>>) /\ FlattenSeq(Rests(<<first>>)) = RestOf(first)
  BY <1>1, <1>3, StackOfOne
<1>5. frames = <<first>>
  BY <1>1 DEF first
<1>6. IsStack(frames) /\ RestOfText(frames) = RestOf(first) /\ frames # <<>>
  BY <1>4, <1>5 DEF RestOfText
<1>7. RestOf(first) = WholeText
  BY <1>2, DepthIsNat DEF RestOf, WholeText, MaxDepth
<1>8. RestOf(first) \in Seq(AllLines)
  BY <1>1, <1>3, RestOfType
<1>9. Agreement(AllLines, <<>>, section, global_sig, repositories)
  BY <1>1, AgreementStart
<1>10. <<>> \in Seq(AllLines) /\ WholeText = Join(<<>>, RestOfText(frames))
  BY <1>6, <1>7, <1>8, JoinNothing
<1>11. ReadSoFar(<<>>)
  BY <1>9, <1>10 DEF ReadSoFar
<1>12. ParsedAsWritten
  BY <1>1, ParsedAsWrittenIs
<1>13. QED
  BY <1>1, <1>6, <1>11, <1>12 DEF ReadInv

\* A step that changes nothing.
LEMMA ReadStutters == ASSUME ReadInv, UNCHANGED repositoriesVars PROVE ReadInv'
<1>1. /\ texts' = texts /\ frames' = frames /\ UNCHANGED parser /\ parsed' = parsed /\ result' = result
  BY DEF repositoriesVars
<1>2. CASE parsed = "reading"
  <2>1. IsStack(frames') /\ RestOfText(frames') = RestOfText(frames) /\ frames' # <<>> /\ parsed' = "reading"
    BY <1>1, <1>2 DEF ReadInv
  <2>2. QED
    BY <1>1, <1>2, <2>1, SameRead
<1>3. CASE parsed = "read"
  <2>1. PICK read : ReadSoFar(read)
    BY <1>3 DEF ReadInv
  <2>2. /\ read \in Seq(AllLines) /\ WholeText = Join(read, RestOfText(frames'))
        /\ Agreement(AllLines, read, section', global_sig', repositories')
    BY <1>1, <2>1 DEF ReadSoFar, parser
  <2>3. IsStack(frames') /\ frames' = <<>> /\ parsed' = "read"
    BY <1>1, <1>3 DEF ReadInv
  <2>4. QED
    BY <1>1, <2>2, <2>3, Carried
<1>4. CASE parsed \in {"error", "done"}
  <2>1. texts' \in Configurations /\ WholeText' = WholeText /\ IsStack(frames)' /\ ParsedAsWritten
    BY <1>1, TextsStay DEF ReadInv
  <2>2. ParsedAsWritten'
    BY <1>1, <2>1, ParsedAsWrittenIs
  <2>3. parsed' \in {"reading", "read", "error", "done"} /\ parsed' \notin {"reading", "read"}
    BY <1>1, <1>4
  <2>4. QED
    BY <2>1, <2>2, <2>3 DEF ReadInv
<1>5. parsed \in {"reading", "read", "error", "done"}
  BY DEF ReadInv
<1>6. QED
  BY <1>2, <1>3, <1>4, <1>5

\* Each step keeps the invariant.
LEMMA ReadStep == ReadInv /\ [RepositoriesNext]_repositoriesVars => ReadInv'
<1> SUFFICES ASSUME ReadInv, [RepositoriesNext]_repositoriesVars PROVE ReadInv'
  OBVIOUS
<1>1. CASE OpenFile
  BY <1>1, OpenFileReads
<1>2. CASE CloseFile
  BY <1>2, CloseFileReads
<1>3. CASE frames # <<>> /\ BeginSection
  BY <1>3, BeginSectionReads
<1>4. CASE frames # <<>> /\ HandleInclude
  BY <1>4, HandleIncludeReads
<1>5. CASE frames # <<>> /\ HandleOption
  BY <1>5, HandleOptionReads
<1>6. CASE frames # <<>> /\ HandleSigLevel
  BY <1>6, HandleSigLevelReads
<1>7. CASE frames # <<>> /\ HandleServer
  BY <1>7, HandleServerReads
<1>8. CASE frames # <<>> /\ SkipLine
  BY <1>8, SkipLineReads
<1>9. CASE Finish
  BY <1>9, FinishReads
<1>10. CASE UNCHANGED repositoriesVars
  BY <1>10, ReadStutters
<1>11. QED
  BY <1>1, <1>2, <1>3, <1>4, <1>5, <1>6, <1>7, <1>8, <1>9, <1>10, Zenon DEF RepositoriesNext

\* ParsedAsWritten: for all configurations, however their files include each other and at every depth
\* that is allowed, what parsePacmanRepositories returns is what the expanded text says, and it fails
\* exactly on what it must refuse.
THEOREM TextsAreParsedAsWritten == RepositoriesSpec => []ParsedAsWritten
<1>1. RepositoriesInit => ReadInv
  BY StartReads
<1>2. ReadInv => ParsedAsWritten
  BY Zenon DEF ReadInv
<1>3. QED
  BY <1>1, <1>2, ReadStep, PTL DEF RepositoriesSpec

-------------------------------------------------------------------------------
(* Types: what is set of a signature level is also decided *)

\* A setting that sets only what it decides.
Decides(setting) == setting \in Settings /\ setting.value \subseteq setting.mask

\* It does after a line more.
LEMMA RefinedDecides ==
  ASSUME NEW setting, Decides(setting), NEW tokens, Scoped(tokens)
  PROVE  Decides(Refined(setting, tokens))
<1> DEFINE level == ParseSigLevel(tokens)
<1>1. Levels(tokens, Len(tokens), level)
  BY LevelIs
<1>2. level \in Settings /\ level.value \subseteq level.mask
  BY <1>1 DEF Levels, SaidBy
<1>3. setting \in Settings /\ setting.value \subseteq setting.mask
  BY DEF Decides
<1> HIDE DEF level
<1>4. Refined(setting, tokens) = [mask |-> setting.mask \cup level.mask, value |-> Merge(level, setting.value)]
  BY DEF Refined, level
<1>5. QED
  BY <1>2, <1>3, <1>4 DEF Decides, Merge, Settings

\* What the parser remembers of the signature levels.
SettingsDecide(level, repos) ==
  Decides(level) /\ \A i \in DOMAIN repos : repos[i].sig.value \subseteq repos[i].sig.mask

LEMMA LastChanged ==
  ASSUME NEW S, NEW repos \in Seq(Raw(S)), Len(repos) > 0, \A i \in DOMAIN repos : repos[i].sig.value \subseteq repos[i].sig.mask,
         NEW new, new.sig.value \subseteq new.sig.mask
  PROVE  \A i \in DOMAIN Replaced(repos, new) : Replaced(repos, new)[i].sig.value \subseteq Replaced(repos, new)[i].sig.mask
<1> DEFINE R == Raw(S)
<1>1. repos \in Seq(R)
  OBVIOUS
<1> HIDE DEF R
<1>2. DOMAIN repos = 1..Len(repos) /\ DOMAIN Replaced(repos, new) = DOMAIN repos /\ Len(repos) \in DOMAIN repos
  BY <1>1 DEF Replaced
<1>3. Replaced(repos, new)[Len(repos)] = new
  BY <1>2 DEF Replaced
<1>4. \A i \in DOMAIN repos : i # Len(repos) => Replaced(repos, new)[i] = repos[i]
  BY DEF Replaced
<1>5. QED
  BY <1>2, <1>3, <1>4

\* While a line is read the repositories are known, and a section that is no option is the last.
LEMMA AtRepositories ==
  ASSUME ReadInv, parsed = "reading"
  PROVE  /\ repositories \in Seq(Raw(AllLines)) /\ Len(repositories) \in Nat
         /\ section \notin {"", "options"} => Len(repositories) > 0
<1>1. PICK read : ReadSoFar(read)
  BY DEF ReadInv
<1>2. Agreement(AllLines, read, section, global_sig, repositories)
  BY <1>1, Zenon DEF ReadSoFar
<1>3. Named(AllLines, read, repositories)
  BY <1>2, Zenon DEF Agreement
<1>4. section \notin {"", "options"} => LastIs(repositories, section)
  BY <1>2, Zenon DEF Agreement
<1>5. QED
  BY <1>3, <1>4, NamesOfHeaders, Zenon DEF LastIs

LEMMA SectionDecides ==
  ASSUME ReadInv, frames # <<>>, SettingsDecide(global_sig, repositories), BeginSection
  PROVE  SettingsDecide(global_sig', repositories')
<1> DEFINE new == [name |-> Line.value, servers |-> <<>>, sig |-> NoSetting]
           R == Raw(AllLines)
<1>1. parsed = "reading" /\ global_sig' = global_sig
      /\ repositories' \in {repositories, Append(repositories, new)}
  BY DEF BeginSection, AtLine, Refuse, parser
<1>2. repositories \in Seq(R)
  BY <1>1, AtRepositories
<1>3. new.sig.value = {}
  BY DEF NoSetting
<1> HIDE DEF new, R
<1>4. CASE repositories' = repositories
  BY <1>1, <1>4
<1>5. CASE repositories' = Append(repositories, new)
  <2>1. DOMAIN repositories' = 1..Len(repositories) + 1 /\ DOMAIN repositories = 1..Len(repositories)
        /\ Len(repositories) \in Nat
    BY <1>2, <1>5
  <2>2. repositories'[Len(repositories) + 1] = new /\ \A i \in DOMAIN repositories : repositories'[i] = repositories[i]
    BY <1>2, <1>5
  <2>3. QED
    BY <1>1, <1>3, <2>1, <2>2 DEF SettingsDecide
<1>6. QED
  BY <1>1, <1>4, <1>5

LEMMA ServerDecides ==
  ASSUME ReadInv, frames # <<>>, SettingsDecide(global_sig, repositories), HandleServer
  PROVE  SettingsDecide(global_sig', repositories')
<1> DEFINE last == repositories[Len(repositories)]
           new == [last EXCEPT !.servers = Append(last.servers, Line.value)]
<1>1. parsed = "reading" /\ global_sig' = global_sig /\ section \notin {"", "options"}
      /\ repositories' = [repositories EXCEPT ![Len(repositories)].servers = Append(@, Line.value)]
  BY DEF HandleServer, AtLine, InRepository
<1>2. repositories \in Seq(Raw(AllLines)) /\ Len(repositories) > 0 /\ Len(repositories) \in Nat
  BY <1>1, AtRepositories
<1>3. repositories' = Replaced(repositories, new)
  BY <1>1 DEF Replaced
<1>4. last \in Raw(AllLines)
  BY <1>2
<1>5. new.sig = last.sig
  BY <1>4 DEF Raw
<1>6. new.sig.value \subseteq new.sig.mask
  BY <1>2, <1>5 DEF SettingsDecide
<1>7. \A i \in DOMAIN repositories : repositories[i].sig.value \subseteq repositories[i].sig.mask
  BY DEF SettingsDecide
<1> HIDE DEF new, last
<1>8. \A i \in DOMAIN repositories' : repositories'[i].sig.value \subseteq repositories'[i].sig.mask
  BY <1>2, <1>3, <1>6, <1>7, LastChanged
<1>9. QED
  BY <1>1, <1>8 DEF SettingsDecide

LEMMA LevelDecides ==
  ASSUME ReadInv, frames # <<>>, SettingsDecide(global_sig, repositories), HandleSigLevel
  PROVE  SettingsDecide(global_sig', repositories')
<1> DEFINE last == repositories[Len(repositories)]
           new == [last EXCEPT !.sig = Refined(last.sig, Line.value)]
<1>1. /\ parsed = "reading" /\ AtLine("SigLevel")
      /\ \/ global_sig' = global_sig /\ repositories' = repositories
         \/ global_sig' = Refined(global_sig, Line.value) /\ repositories' = repositories
         \/ /\ section \notin {"", "options"} /\ global_sig' = global_sig
            /\ repositories' = [repositories EXCEPT ![Len(repositories)].sig = Refined(@, Line.value)]
  BY DEF HandleSigLevel, AtLine, Refuse, parser, InOptions
<1>2. Scoped(Line.value)
  BY <1>1, LineAhead
<1>3. CASE global_sig' = Refined(global_sig, Line.value) /\ repositories' = repositories
  BY <1>2, <1>3, RefinedDecides DEF SettingsDecide
<1>4. CASE /\ section \notin {"", "options"} /\ global_sig' = global_sig
           /\ repositories' = [repositories EXCEPT ![Len(repositories)].sig = Refined(@, Line.value)]
  <2>1. repositories \in Seq(Raw(AllLines)) /\ Len(repositories) > 0 /\ Len(repositories) \in Nat
    BY <1>1, <1>4, AtRepositories
  <2>2. repositories' = Replaced(repositories, new)
    BY <1>4 DEF Replaced
  <2>3. last \in Raw(AllLines)
    BY <2>1
  <2>4. new.sig = Refined(last.sig, Line.value) /\ last.sig \in Settings
    BY <2>3 DEF Raw
  <2>5. Decides(last.sig)
    BY <2>1, <2>4 DEF SettingsDecide, Decides
  <2>6. new.sig.value \subseteq new.sig.mask
    BY <1>2, <2>4, <2>5, RefinedDecides DEF Decides
  <2> HIDE DEF new, last
  <2>7. QED
    BY <1>4, <2>1, <2>2, <2>6, LastChanged DEF SettingsDecide
<1>5. QED
  BY <1>1, <1>3, <1>4

\* RepositoriesTypeOK: no signature level says more than it decides, and nothing is returned early.
THEOREM RepositoriesTypes == RepositoriesSpec => []RepositoriesTypeOK
<1> DEFINE Inv == /\ ReadInv /\ SettingsDecide(global_sig, repositories)
                  /\ result # None => parsed = "done"
<1>1. RepositoriesInit => Inv
  <2> SUFFICES ASSUME RepositoriesInit PROVE Inv
    OBVIOUS
  <2>1. ReadInv
    BY StartReads
  <2>2. Decides(NoSetting)
    BY DEF Decides, NoSetting, Settings
  <2>3. global_sig = NoSetting /\ repositories = <<>> /\ result = None
    BY DEF RepositoriesInit
  <2>4. DOMAIN repositories = {}
    BY <2>3
  <2>5. SettingsDecide(global_sig, repositories)
    BY <2>2, <2>3, <2>4 DEF SettingsDecide
  <2>6. QED
    BY <2>1, <2>3, <2>5
<1>2. Inv /\ [RepositoriesNext]_repositoriesVars => Inv'
  <2> SUFFICES ASSUME Inv, [RepositoriesNext]_repositoriesVars PROVE Inv'
    OBVIOUS
  <2>1. ReadInv'
    BY ReadStep
  <2>2. SettingsDecide(global_sig, repositories)'
    <3>1. CASE global_sig' = global_sig /\ repositories' = repositories
      BY <3>1
    <3>2. CASE frames # <<>> /\ BeginSection
      BY <3>2, SectionDecides DEF SettingsDecide
    <3>3. CASE frames # <<>> /\ HandleSigLevel
      BY <3>3, LevelDecides DEF SettingsDecide
    <3>4. CASE frames # <<>> /\ HandleServer
      BY <3>4, ServerDecides DEF SettingsDecide
    <3>5. CASE OpenFile \/ CloseFile \/ HandleInclude \/ HandleOption \/ SkipLine \/ Finish \/ UNCHANGED repositoriesVars
      BY <3>1, <3>5 DEF OpenFile, CloseFile, HandleInclude, HandleOption, SkipLine, Finish, Refuse, parser, repositoriesVars
    <3>6. QED
      BY <3>2, <3>3, <3>4, <3>5, Zenon DEF RepositoriesNext
  <2>3. (result # None => parsed = "done")'
    <3>1. CASE result' = result /\ parsed # "done"
      BY <3>1
    <3>2. CASE result' = result /\ parsed' = parsed
      BY <3>2
    <3>3. CASE Finish
      BY <3>3 DEF Finish
    <3>4. CASE BeginSection \/ HandleInclude \/ HandleOption \/ HandleSigLevel \/ HandleServer \/ SkipLine
      BY <3>1, <3>4 DEF BeginSection, HandleInclude, HandleOption, HandleSigLevel, HandleServer, SkipLine, AtLine
    <3>5. CASE OpenFile \/ CloseFile
      BY <3>1, <3>5 DEF OpenFile, CloseFile
    <3>6. CASE UNCHANGED repositoriesVars
      BY <3>2, <3>6 DEF repositoriesVars
    <3>7. QED
      BY <3>3, <3>4, <3>5, <3>6 DEF RepositoriesNext
  <2>4. QED
    BY <2>1, <2>2, <2>3
<1>3. Inv => RepositoriesTypeOK
  BY DEF ReadInv, SettingsDecide, Decides, Settings, RepositoriesTypeOK
<1>4. QED
  BY <1>1, <1>2, <1>3, PTL DEF RepositoriesSpec
=================================================================================
