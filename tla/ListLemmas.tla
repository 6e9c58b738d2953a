----------------------------- MODULE ListLemmas -----------------------------
(***************************************************************************)
(* Facts about numbers, recursive functions and sequences that the proofs  *)
(* about the container and its clients share.                              *)
(***************************************************************************)
EXTENDS Integers, Sequences, SequencesExt, TLAPS, SequenceTheorems,
        WellFoundedInduction

(* Every nonempty set of natural numbers has a least element.              *)
LEMMA LeastNumber ==
  ASSUME NEW T \in SUBSET Nat, T # {}
  PROVE  \E x \in T : \A y \in T : x <= y
<1> DEFINE R == {ss \in Nat \X Nat : ss[1] < ss[2]}
<1>1. IsWellFoundedOn(OpToRel(<, Nat), Nat)
  BY NatLessThanWellFounded
<1>2. OpToRel(<, Nat) = R
  BY DEF OpToRel
<1>3. IsWellFoundedOn(R, Nat)
  BY <1>1, <1>2
<1> HIDE DEF R
<1>4. \E x \in T : \A y \in T : <<y, x>> \notin R
  BY <1>3, WFMin
<1>5. ASSUME NEW x \in Nat, NEW y \in Nat, <<y, x>> \notin R PROVE x <= y
  <2>1. y < x => <<y, x>> \in R
    BY DEF R
  <2> QED
    BY <1>5, <2>1
<1> QED
  BY <1>4, <1>5

(* Induction, for a property given as a set of numbers.                    *)
LEMMA Induction ==
  ASSUME NEW P, 0 \in P, \A n \in Nat : n \in P => n + 1 \in P
  PROVE  \A n \in Nat : n \in P
<1> DEFINE T == {n \in Nat : n \notin P}
<1> SUFFICES ASSUME T # {} PROVE FALSE
  OBVIOUS
<1>1. PICK x \in T : \A y \in T : x <= y
  <2> HIDE DEF T
  <2>1. T \in SUBSET Nat
    BY DEF T
  <2> QED
    BY <2>1, LeastNumber
<1>2. x \in Nat /\ x \notin P
  OBVIOUS
<1>3. x # 0 /\ x - 1 \in Nat
  BY <1>2
<1>4. x - 1 \in P
  <2>1. x - 1 \notin P => x <= x - 1
    BY <1>1, <1>3
  <2> QED
    BY <1>2, <2>1
<1>5. (x - 1) + 1 = x
  BY <1>2
<1> QED
  BY <1>2, <1>3, <1>4, <1>5

(* A recursive definition over 0..n has a solution: step[i][v] is what     *)
(* it makes at i of v, its value at i - 1.                                 *)
LEMMA Recursion ==
  ASSUME NEW V, NEW c \in V, NEW n \in Nat, NEW step \in [1..n -> [V -> V]]
  PROVE  \E f \in [0..n -> V] :
           /\ f[0] = c
           /\ \A i \in 1..n : f[i] = step[i][f[i - 1]]
<1> DEFINE Solves(f, m) == /\ f \in [0..m -> V]
                           /\ f[0] = c
                           /\ \A i \in 1..m : f[i] = step[i][f[i - 1]]
           P == {m \in Nat : m <= n => \E f : Solves(f, m)}
<1>1. 0 \in P
  <2> DEFINE g == [i \in 0..0 |-> c]
  <2>1. Solves(g, 0)
    OBVIOUS
  <2> QED
    BY <2>1
<1>2. ASSUME NEW m \in Nat, m \in P PROVE m + 1 \in P
  <2> SUFFICES ASSUME m + 1 <= n PROVE \E g : Solves(g, m + 1)
    OBVIOUS
  <2>1. PICK f : Solves(f, m)
    BY <1>2
  <2> DEFINE g == [i \in 0..(m + 1) |-> IF i <= m THEN f[i]
                                        ELSE step[m + 1][f[m]]]
  <2>2. step[m + 1][f[m]] \in V
    <3>1. m + 1 \in 1..n /\ f[m] \in V
      BY <2>1
    <3> QED
      BY <3>1
  <2>3. g \in [0..(m + 1) -> V] /\ g[0] = c
    BY <2>1, <2>2
  <2>4. \A i \in 0..m : g[i] = f[i]
    OBVIOUS
  <2>5. g[m + 1] = step[m + 1][g[m]]
    BY <2>4
  <2>6. \A i \in 1..(m + 1) : g[i] = step[i][g[i - 1]]
    <3> SUFFICES ASSUME NEW i \in 1..(m + 1) PROVE g[i] = step[i][g[i - 1]]
      OBVIOUS
    <3> HIDE DEF g
    <3>1. CASE i = m + 1
      <4>1. i - 1 = m
        BY <3>1
      <4> QED
        BY <2>5, <3>1, <4>1
    <3>2. CASE i # m + 1
      <4>1. i \in 1..m /\ i \in 0..m /\ i - 1 \in 0..m
        BY <3>2
      <4> QED
        BY <2>1, <2>4, <4>1
    <3> QED
      BY <3>1, <3>2
  <2> QED
    BY <2>3, <2>6
<1> HIDE DEF P
<1>3. n \in P
  BY <1>1, <1>2, Induction
<1> QED
  BY <1>3 DEF P

(* The same, in a form that is easily cited.                               *)
IsStep(step, n, V) == step \in [1..n -> [V -> V]]

Follows(f, c, n, step, V) ==
  f \in [0..n -> V] /\ f[0] = c /\ \A i \in 1..n : f[i] = step[i][f[i - 1]]

(* Whatever the steps, there is a function that follows them.              *)
LEMMA RecursionFollows ==
  ASSUME NEW V, NEW c, c \in V, NEW n, n \in Nat, NEW step, IsStep(step, n, V)
  PROVE  \E f : Follows(f, c, n, step, V)
<1>1. step \in [1..n -> [V -> V]]
  BY DEF IsStep
<1>2. \E f \in [0..n -> V] : f[0] = c /\ \A i \in 1..n : f[i] = step[i][f[i - 1]]
  BY <1>1, Recursion
<1> QED
  BY <1>2 DEF Follows

-----------------------------------------------------------------------------
(* The elements of a sequence.                                             *)
LEMMA ToSetFacts ==
  ASSUME NEW S, NEW s \in Seq(S)
  PROVE  /\ \A x : x \in ToSet(s) <=> \E k \in 1..Len(s) : s[k] = x
         /\ ToSet(s) \subseteq S
<1> DOMAIN s = 1..Len(s)
  OBVIOUS
<1> QED
  BY DEF ToSet

(* InsertAt of the community modules puts d in front of element i.         *)
LEMMA InsertFacts ==
  ASSUME NEW S, NEW s \in Seq(S), NEW d \in S, NEW i \in 1..(Len(s) + 1)
  PROVE  /\ InsertAt(s, i, d) \in Seq(S)
         /\ Len(InsertAt(s, i, d)) = Len(s) + 1
         /\ \A k \in 1..(Len(s) + 1) :
              InsertAt(s, i, d)[k] = IF k < i THEN s[k]
                                     ELSE IF k = i THEN d ELSE s[k - 1]
<1> DEFINE a == SubSeq(s, 1, i - 1)
           b == SubSeq(s, i, Len(s))
           c == a \o <<d>>
<1>1. a \in Seq(S) /\ Len(a) = i - 1 /\ \A k \in 1..(i - 1) : a[k] = s[k]
  BY SubSeqProperties
<1>2. b \in Seq(S) /\ Len(b) = Len(s) - i + 1
      /\ \A k \in 1..(Len(s) - i + 1) : b[k] = s[i + k - 1]
  BY SubSeqProperties
<1>3. c \in Seq(S) /\ Len(c) = i
      /\ \A k \in 1..i : c[k] = IF k < i THEN s[k] ELSE d
  <2>1. <<d>> \in Seq(S) /\ Len(<<d>>) = 1 /\ <<d>>[1] = d
    OBVIOUS
  <2> HIDE DEF a
  <2>2. /\ c \in Seq(S)
        /\ Len(c) = Len(a) + 1
        /\ \A k \in 1..(Len(a) + 1) : c[k] = IF k <= Len(a) THEN a[k] ELSE <<d>>[k - Len(a)]
    BY <1>1, <2>1, ConcatProperties
  <2> QED
    BY <1>1, <2>1, <2>2
<1>4. InsertAt(s, i, d) = c \o b
  BY DEF InsertAt
<1> HIDE DEF b, c
<1>5. /\ c \o b \in Seq(S)
      /\ Len(c \o b) = Len(c) + Len(b)
      /\ \A k \in 1..(Len(c) + Len(b)) :
           (c \o b)[k] = IF k <= Len(c) THEN c[k] ELSE b[k - Len(c)]
  BY <1>2, <1>3, ConcatProperties
<1> QED
  BY <1>2, <1>3, <1>4, <1>5

(* RemoveAt drops element i and moves the later ones one place forward.    *)
LEMMA RemoveFacts ==
  ASSUME NEW S, NEW s \in Seq(S), NEW i \in 1..Len(s)
  PROVE  /\ RemoveAt(s, i) \in Seq(S)
         /\ Len(RemoveAt(s, i)) = Len(s) - 1
         /\ \A k \in 1..(Len(s) - 1) :
              RemoveAt(s, i)[k] = IF k < i THEN s[k] ELSE s[k + 1]
<1> DEFINE a == SubSeq(s, 1, i - 1)
           b == SubSeq(s, i + 1, Len(s))
<1>1. a \in Seq(S) /\ Len(a) = i - 1 /\ \A k \in 1..(i - 1) : a[k] = s[k]
  BY SubSeqProperties
<1>2. b \in Seq(S) /\ Len(b) = Len(s) - i
      /\ \A k \in 1..(Len(s) - i) : b[k] = s[i + k]
  BY SubSeqProperties
<1>3. RemoveAt(s, i) = a \o b
  BY DEF RemoveAt
<1> HIDE DEF a, b
<1>4. /\ a \o b \in Seq(S)
      /\ Len(a \o b) = Len(a) + Len(b)
      /\ \A k \in 1..(Len(a) + Len(b)) :
           (a \o b)[k] = IF k <= Len(a) THEN a[k] ELSE b[k - Len(a)]
  BY <1>1, <1>2, ConcatProperties
<1> QED
  BY <1>1, <1>2, <1>3, <1>4

-----------------------------------------------------------------------------
(* pre[i] is the concatenation of the first i sequences of s.              *)
Concatenates(pre, S, s) ==
  /\ pre \in [0..Len(s) -> Seq(S)]
  /\ pre[0] = << >>
  /\ \A i \in 1..Len(s) : pre[i] = pre[i - 1] \o s[i]

(* FlattenSeq, unfolded.                                                   *)
LEMMA FlattenUnfolded ==
  ASSUME NEW S, NEW s \in Seq(Seq(S))
  PROVE  \E pre : Concatenates(pre, S, s) /\ FlattenSeq(s) = pre[Len(s)]
<1> DEFINE n == Len(s)
           V == Seq(S)
           cat(v, i) == v \o s[i]
           step == [i \in 1..n |-> [v \in V |-> cat(v, i)]]
           Solves(f) == f = [i \in 1..n |-> IF i = 1 THEN s[i] ELSE cat(f[i - 1], i)]
           flatten == CHOOSE f : Solves(f)
<1>1. n \in Nat /\ << >> \in V /\ \A i \in 1..n : s[i] \in V
  OBVIOUS
<1>2. \A i \in 1..n : \A v \in V : cat(v, i) \in V
  BY <1>1, ConcatProperties
<1>3. n # 0 => cat(<< >>, 1) = s[1]
  BY <1>1, ConcatEmptySeq
<1>4. n = 0 => FlattenSeq(s) = << >>
  BY EmptySeq DEF FlattenSeq
<1>5. n # 0 => FlattenSeq(s) = flatten[n]
  BY DEF FlattenSeq
<1> SUFFICES \E pre \in [0..n -> V] :
               /\ pre[0] = << >>
               /\ \A i \in 1..n : pre[i] = cat(pre[i - 1], i)
               /\ FlattenSeq(s) = pre[n]
  BY DEF Concatenates
<1> HIDE DEF n, V, cat
<1>6. PICK pre \in [0..n -> V] :
        pre[0] = << >> /\ \A i \in 1..n : pre[i] = cat(pre[i - 1], i)
  <2>1. step \in [1..n -> [V -> V]]
    BY <1>2
  <2>2. \A i \in 1..n : \A v \in V : step[i][v] = cat(v, i)
    OBVIOUS
  <2> DEFINE c == << >>
  <2> HIDE DEF step, c
  <2>3. PICK f \in [0..n -> V] :
          f[0] = c /\ \A i \in 1..n : f[i] = step[i][f[i - 1]]
    <3>1. c \in V /\ n \in Nat
      BY <1>1 DEF c
    <3> HIDE DEF flatten, Solves
    <3> QED
      BY <2>1, <3>1, Recursion, SMTT(20)
  <2>4. ASSUME NEW i \in 1..n PROVE f[i] = cat(f[i - 1], i)
    <3>1. f[i - 1] \in V
      BY <1>1
    <3> QED
      BY <2>2, <2>3, <3>1
  <2> QED
    BY <2>3, <2>4 DEF c
<1>7. CASE n = 0
  BY <1>4, <1>6, <1>7
<1>8. CASE n # 0
  <2>1. Solves([i \in 1..n |-> pre[i]])
    <3> DEFINE g == [i \in 1..n |-> pre[i]]
    <3>1. ASSUME NEW i \in 1..n
          PROVE  g[i] = IF i = 1 THEN s[i] ELSE cat(g[i - 1], i)
      <4>1. pre[i] = cat(pre[i - 1], i)
        BY <1>6
      <4>2. CASE i = 1
        BY <1>3, <1>6, <1>8, <4>1, <4>2
      <4>3. CASE i # 1
        <5>1. i - 1 \in 1..n
          BY <1>1, <4>3
        <5>2. g[i - 1] = pre[i - 1] /\ g[i] = pre[i]
          BY <5>1
        <5> QED
          BY <4>1, <4>3, <5>2
      <4> QED
        BY <4>2, <4>3
    <3> QED
      BY <3>1
  <2>2. Solves(flatten)
    BY <2>1
  <2> HIDE DEF flatten
  <2>3. \A i \in 1..n : flatten[i] = IF i = 1 THEN s[i] ELSE cat(flatten[i - 1], i)
    BY <2>2
  <2> DEFINE P == {i \in Nat : i + 1 <= n => flatten[i + 1] = pre[i + 1]}
  <2>4. 0 \in P
    <3>1. 1 \in 1..n
      BY <1>1, <1>8
    <3>2. pre[1] = cat(pre[0], 1)
      BY <1>6, <3>1
    <3> QED
      BY <1>3, <1>6, <1>8, <2>3, <3>1, <3>2
  <2>5. ASSUME NEW i \in Nat, i \in P PROVE i + 1 \in P
    <3> SUFFICES ASSUME i + 2 <= n PROVE flatten[i + 2] = pre[i + 2]
      BY <1>1
    <3>1. i + 2 \in 1..n /\ i + 2 # 1 /\ (i + 2) - 1 = i + 1 /\ i + 1 <= n
      BY <1>1
    <3>2. flatten[i + 2] = cat(flatten[i + 1], i + 2)
      BY <2>3, <3>1
    <3>3. pre[i + 2] = cat(pre[i + 1], i + 2)
      BY <1>6, <3>1
    <3>4. flatten[i + 1] = pre[i + 1]
      BY <2>5, <3>1
    <3> QED
      BY <3>2, <3>3, <3>4
  <2> HIDE DEF P
  <2>6. n - 1 \in Nat /\ n - 1 \in P
    <3>1. n - 1 \in Nat
      BY <1>1, <1>8
    <3> QED
      BY <2>4, <2>5, <3>1, Induction
  <2>7. (n - 1) + 1 = n
    BY <1>1
  <2>8. flatten[n] = pre[n]
    BY <1>1, <2>6, <2>7 DEF P
  <2> QED
    BY <1>5, <1>6, <1>8, <2>8
<1> QED
  BY <1>7, <1>8

(* There is one such concatenation, which FlattenSeq is the last of.       *)
LEMMA FlattenIs ==
  ASSUME NEW S, NEW s \in Seq(Seq(S)), NEW pre, Concatenates(pre, S, s)
  PROVE  FlattenSeq(s) = pre[Len(s)]
<1>1. PICK f : Concatenates(f, S, s) /\ FlattenSeq(s) = f[Len(s)]
  BY FlattenUnfolded
<1> DEFINE n == Len(s)
           P == {i \in Nat : i <= n => f[i] = pre[i]}
<1>2. n \in Nat
  OBVIOUS
<1>3. 0 \in P
  BY <1>1 DEF Concatenates
<1>4. ASSUME NEW i \in Nat, i \in P PROVE i + 1 \in P
  <2> SUFFICES ASSUME i + 1 <= n PROVE f[i + 1] = pre[i + 1]
    BY <1>4
  <2>1. i + 1 \in 1..n /\ (i + 1) - 1 = i /\ i <= n
    BY <1>2
  <2>2. f[i + 1] = f[i] \o s[i + 1] /\ pre[i + 1] = pre[i] \o s[i + 1]
    BY <1>1, <2>1 DEF Concatenates
  <2> QED
    BY <1>4, <2>1, <2>2
<1> HIDE DEF P
<1>5. n \in P
  BY <1>2, <1>3, <1>4, Induction
<1> QED
  BY <1>1, <1>2, <1>5 DEF P

-----------------------------------------------------------------------------
(* The concatenation of the first j sequences of s.                        *)
UpTo(s, j) == FlattenSeq([i \in 1..j |-> s[i]])

(* A concatenation is made one sequence at a time.                         *)
LEMMA UpToFacts ==
  ASSUME NEW S, NEW s \in Seq(Seq(S))
  PROVE  /\ UpTo(s, 0) = << >>
         /\ \A j \in 0..Len(s) : UpTo(s, j) \in Seq(S) /\ Len(UpTo(s, j)) \in Nat
         /\ \A j \in 1..Len(s) : /\ UpTo(s, j) = UpTo(s, j - 1) \o s[j]
                                 /\ s[j] \in Seq(S)
<1> DEFINE n == Len(s)
<1>1. PICK pre : Concatenates(pre, S, s)
  BY FlattenUnfolded
<1>2. n \in Nat /\ \A i \in 1..n : s[i] \in Seq(S)
  OBVIOUS
<1>3. ASSUME NEW j \in 0..n PROVE UpTo(s, j) = pre[j]
  <2> DEFINE t == [i \in 1..j |-> s[i]]
             f == [i \in 0..j |-> pre[i]]
  <2>1. t \in Seq(Seq(S)) /\ Len(t) = j
    BY <1>2
  <2>2. \A i \in 1..j : t[i] = s[i]
    OBVIOUS
  <2>b. /\ \A i \in 0..n : pre[i] \in Seq(S)
        /\ pre[0] = << >>
        /\ \A i \in 1..n : pre[i] = pre[i - 1] \o s[i]
    BY <1>1 DEF Concatenates
  <2>c. (\A i \in 0..j : i \in 0..n) /\ \A i \in 1..j : i \in 1..n
    BY <1>2
  <2>a. /\ \A i \in 0..j : pre[i] \in Seq(S)
        /\ pre[0] = << >>
        /\ \A i \in 1..j : pre[i] = pre[i - 1] \o s[i]
    BY <2>b, <2>c
  <2>3. f \in [0..j -> Seq(S)] /\ \A i \in 0..j : f[i] = pre[i]
    BY <2>a
  <2> HIDE DEF t, f
  <2>4. \A i \in 1..j : f[i] = f[i - 1] \o t[i]
    <3> SUFFICES ASSUME NEW i \in 1..j PROVE f[i] = f[i - 1] \o t[i]
      OBVIOUS
    <3>1. i \in 0..j /\ i - 1 \in 0..j
      BY <1>2
    <3> QED
      BY <2>2, <2>3, <2>a, <3>1
  <2>5. f[0] = << >>
    BY <1>2, <2>3, <2>a
  <2>6. Concatenates(f, S, t)
    BY <2>1, <2>3, <2>4, <2>5 DEF Concatenates
  <2>7. FlattenSeq(t) = f[j]
    BY <2>1, <2>6, FlattenIs
  <2>8. f[j] = pre[j]
    BY <1>2, <2>3
  <2> QED
    BY <2>7, <2>8 DEF UpTo, t
<1>4. UpTo(s, 0) = << >>
  BY <1>1, <1>2, <1>3 DEF Concatenates
<1>5. \A j \in 0..n : UpTo(s, j) \in Seq(S)
  BY <1>1, <1>3 DEF Concatenates
<1>6. ASSUME NEW j \in 1..n PROVE UpTo(s, j) = UpTo(s, j - 1) \o s[j]
  <2>1. j \in 0..n /\ j - 1 \in 0..n
    BY <1>2
  <2> QED
    BY <1>1, <1>3, <2>1 DEF Concatenates
<1>7. \A j \in 0..n : Len(UpTo(s, j)) \in Nat
  BY <1>5, LenProperties
<1> QED
  BY <1>2, <1>4, <1>5, <1>6, <1>7

(* Inserting into, or removing from, the front of a concatenation.         *)
LEMMA ConcatInsert ==
  ASSUME NEW S, NEW u \in Seq(S), NEW v \in Seq(S), NEW d \in S,
         NEW p \in 1..(Len(u) + 1)
  PROVE  InsertAt(u, p, d) \o v = InsertAt(u \o v, p, d)
<1> DEFINE a == InsertAt(u, p, d)
           b == u \o v
           c == a \o v
           m == Len(u)
           n == Len(v)
<1>1. /\ m \in Nat /\ n \in Nat
      /\ p \in 1..(m + 1)
  OBVIOUS
<1>2. /\ a \in Seq(S) /\ Len(a) = m + 1
      /\ \A k \in 1..(m + 1) : a[k] = IF k < p THEN u[k] ELSE IF k = p THEN d ELSE u[k - 1]
  BY InsertFacts
<1>3. /\ b \in Seq(S) /\ Len(b) = m + n
      /\ \A k \in 1..(m + n) : b[k] = IF k <= m THEN u[k] ELSE v[k - m]
  BY ConcatProperties
<1> HIDE DEF a, b
<1>4. /\ c \in Seq(S) /\ Len(c) = Len(a) + n
      /\ \A k \in 1..(Len(a) + n) : c[k] = IF k <= Len(a) THEN a[k] ELSE v[k - Len(a)]
  BY <1>2, ConcatProperties
<1> HIDE DEF c
<1>5. p \in 1..(Len(b) + 1)
  BY <1>1, <1>3
<1> DEFINE e == InsertAt(b, p, d)
<1>a. b \in Seq(S) /\ p \in 1..(Len(b) + 1) /\ d \in S
  BY <1>3, <1>5
<1>6. /\ e \in Seq(S) /\ Len(e) = Len(b) + 1
      /\ \A k \in 1..(Len(b) + 1) : e[k] = IF k < p THEN b[k] ELSE IF k = p THEN d ELSE b[k - 1]
  BY <1>a, InsertFacts, SMTT(60)
<1> HIDE DEF e, m, n
<1>7. Len(c) = m + n + 1 /\ Len(e) = m + n + 1
  BY <1>1, <1>2, <1>3, <1>4, <1>6
<1>8. ASSUME NEW k \in 1..(m + n + 1) PROVE c[k] = e[k]
  <2>1. CASE k <= m + 1
    <3>1. c[k] = IF k < p THEN u[k] ELSE IF k = p THEN d ELSE u[k - 1]
      BY <1>1, <1>2, <1>4, <2>1
    <3>2. e[k] = IF k < p THEN b[k] ELSE IF k = p THEN d ELSE b[k - 1]
      BY <1>1, <1>3, <1>6
    <3>3. k < p => b[k] = u[k]
      BY <1>1, <1>3
    <3>4. k > p => b[k - 1] = u[k - 1]
      <4>1. k > p => k - 1 \in 1..(m + n) /\ k - 1 <= m
        BY <1>1, <2>1
      <4> QED
        BY <1>3, <4>1
    <3> QED
      BY <1>1, <3>1, <3>2, <3>3, <3>4
  <2>2. CASE k > m + 1
    <3>1. c[k] = v[k - (m + 1)]
      BY <1>1, <1>2, <1>4, <2>2
    <3>2. e[k] = b[k - 1]
      BY <1>1, <1>3, <1>6, <2>2
    <3>3. b[k - 1] = v[(k - 1) - m] /\ (k - 1) - m = k - (m + 1)
      BY <1>1, <1>3, <2>2
    <3> QED
      BY <3>1, <3>2, <3>3
  <2> QED
    BY <1>1, <2>1, <2>2
<1>9. c = e
  BY <1>4, <1>6, <1>7, <1>8, SeqEqual
<1> QED
  BY <1>9 DEF a, b, c, e

(* Removing from the front part of a concatenation.                        *)
LEMMA ConcatRemove ==
  ASSUME NEW S, NEW u \in Seq(S), NEW v \in Seq(S), NEW p \in 1..Len(u)
  PROVE  RemoveAt(u, p) \o v = RemoveAt(u \o v, p)
<1> DEFINE a == RemoveAt(u, p)
           b == u \o v
           c == a \o v
           m == Len(u)
           n == Len(v)
<1>1. m \in Nat /\ n \in Nat /\ p \in 1..m
  OBVIOUS
<1>2. /\ a \in Seq(S) /\ Len(a) = m - 1
      /\ \A k \in 1..(m - 1) : a[k] = IF k < p THEN u[k] ELSE u[k + 1]
  BY RemoveFacts
<1>3. /\ b \in Seq(S) /\ Len(b) = m + n
      /\ \A k \in 1..(m + n) : b[k] = IF k <= m THEN u[k] ELSE v[k - m]
  BY ConcatProperties
<1> HIDE DEF a, b
<1>4. /\ c \in Seq(S) /\ Len(c) = Len(a) + n
      /\ \A k \in 1..(Len(a) + n) : c[k] = IF k <= Len(a) THEN a[k] ELSE v[k - Len(a)]
  BY <1>2, ConcatProperties
<1> HIDE DEF c
<1>5. p \in 1..Len(b)
  BY <1>1, <1>3
<1> DEFINE e == RemoveAt(b, p)
<1>6. /\ e \in Seq(S) /\ Len(e) = Len(b) - 1
      /\ \A k \in 1..(Len(b) - 1) : e[k] = IF k < p THEN b[k] ELSE b[k + 1]
  BY <1>3, <1>5, RemoveFacts
<1> HIDE DEF e, m, n
<1>7. Len(c) = m + n - 1 /\ Len(e) = m + n - 1
  BY <1>1, <1>2, <1>3, <1>4, <1>6
<1>8. ASSUME NEW k \in 1..(m + n - 1) PROVE c[k] = e[k]
  <2>1. CASE k <= m - 1
    <3>1. c[k] = IF k < p THEN u[k] ELSE u[k + 1]
      BY <1>1, <1>2, <1>4, <2>1
    <3>2. e[k] = IF k < p THEN b[k] ELSE b[k + 1]
      BY <1>1, <1>3, <1>6
    <3>3. b[k] = u[k] /\ b[k + 1] = u[k + 1]
      <4>1. k \in 1..(m + n) /\ k + 1 \in 1..(m + n) /\ k <= m /\ k + 1 <= m
        BY <1>1, <2>1
      <4> QED
        BY <1>3, <4>1
    <3> QED
      BY <3>1, <3>2, <3>3
  <2>2. CASE k > m - 1
    <3>1. c[k] = v[k - (m - 1)]
      BY <1>1, <1>2, <1>4, <2>2
    <3>2. e[k] = b[k + 1]
      BY <1>1, <1>3, <1>6, <2>2
    <3>3. b[k + 1] = v[(k + 1) - m] /\ (k + 1) - m = k - (m - 1)
      <4>1. /\ k + 1 \in 1..(m + n) /\ ~(k + 1 <= m)
            /\ (k + 1) - m = k - (m - 1)
        BY <1>1, <2>2
      <4> QED
        BY <1>3, <4>1
    <3> QED
      BY <3>1, <3>2, <3>3
  <2> QED
    BY <1>1, <2>1, <2>2
<1>9. c = e
  BY <1>4, <1>6, <1>7, <1>8, SeqEqual
<1> QED
  BY <1>9 DEF a, b, c, e

(* The same at the end of one.                                             *)
LEMMA AppendInsert ==
  ASSUME NEW S, NEW u \in Seq(S), NEW v \in Seq(S), NEW d \in S
  PROVE  u \o Append(v, d) = InsertAt(u \o v, Len(u \o v) + 1, d)
<1> DEFINE b == u \o v
           w == Append(v, d)
           c == u \o Append(v, d)
           m == Len(u)
           n == Len(v)
<1>1. m \in Nat /\ n \in Nat
  OBVIOUS
<1>2. /\ w \in Seq(S) /\ Len(w) = n + 1 /\ w[n + 1] = d
      /\ \A k \in 1..n : w[k] = v[k]
  BY AppendProperties
<1>3. /\ b \in Seq(S) /\ Len(b) = m + n
      /\ \A k \in 1..(m + n) : b[k] = IF k <= m THEN u[k] ELSE v[k - m]
  BY ConcatProperties
<1>4. /\ c \in Seq(S) /\ Len(c) = m + Len(w)
      /\ \A k \in 1..(m + Len(w)) : c[k] = IF k <= m THEN u[k] ELSE w[k - m]
  BY <1>2, ConcatProperties
<1> HIDE DEF b, c, w
<1> DEFINE p == Len(b) + 1
           e == InsertAt(b, p, d)
<1>5. p \in 1..(Len(b) + 1) /\ p = m + n + 1
  BY <1>1, <1>3
<1> HIDE DEF p
<1>a. b \in Seq(S) /\ p \in 1..(Len(b) + 1) /\ d \in S
  BY <1>3, <1>5
<1>6. /\ e \in Seq(S) /\ Len(e) = Len(b) + 1
      /\ \A k \in 1..(Len(b) + 1) : e[k] = IF k < p THEN b[k] ELSE IF k = p THEN d ELSE b[k - 1]
  <2>1. \A i \in 1..(Len(b) + 1) :
          /\ InsertAt(b, i, d) \in Seq(S) /\ Len(InsertAt(b, i, d)) = Len(b) + 1
          /\ \A k \in 1..(Len(b) + 1) :
               InsertAt(b, i, d)[k] = IF k < i THEN b[k] ELSE IF k = i THEN d ELSE b[k - 1]
    BY <1>a, InsertFacts
  <2> QED
    BY <1>a, <2>1
<1> HIDE DEF e, m, n
<1>7. Len(c) = m + n + 1 /\ Len(e) = m + n + 1
  BY <1>1, <1>2, <1>3, <1>4, <1>6
<1>8. ASSUME NEW k \in 1..(m + n + 1) PROVE c[k] = e[k]
  <2>1. CASE k = m + n + 1
    <3>1. c[k] = w[k - m] /\ k - m = n + 1
      BY <1>1, <1>2, <1>4, <2>1
    <3>2. e[k] = d
      BY <1>1, <1>3, <1>5, <1>6, <2>1
    <3> QED
      BY <1>2, <3>1, <3>2
  <2>2. CASE k # m + n + 1
    <3>1. e[k] = b[k]
      BY <1>1, <1>3, <1>5, <1>6, <2>2
    <3>2. k > m => k - m \in 1..n
      BY <1>1, <2>2
    <3>3. c[k] = IF k <= m THEN u[k] ELSE w[k - m]
      BY <1>1, <1>2, <1>4
    <3>a. k \in 1..(m + n)
      BY <1>1, <2>2
    <3>4. b[k] = IF k <= m THEN u[k] ELSE v[k - m]
      BY <1>3, <3>a
    <3> QED
      BY <1>1, <1>2, <3>1, <3>2, <3>3, <3>4
  <2> QED
    BY <2>1, <2>2
<1>9. c = e
  BY <1>4, <1>6, <1>7, <1>8, SeqEqual
<1> QED
  BY <1>9 DEF b, c, e, p

(* Removing the last element.                                              *)
LEMMA RemoveLast ==
  ASSUME NEW S, NEW u \in Seq(S), NEW x \in S
  PROVE  u \o << >> = RemoveAt(u \o <<x>>, Len(u \o <<x>>))
<1> DEFINE b == u \o <<x>>
           m == Len(u)
<1>1. m \in Nat /\ <<x>> \in Seq(S) /\ Len(<<x>>) = 1
  OBVIOUS
<1>2. /\ b \in Seq(S) /\ Len(b) = m + 1
      /\ \A k \in 1..m : b[k] = u[k]
  BY <1>1, ConcatProperties
<1>3. u \o << >> = u
  BY ConcatEmptySeq
<1> HIDE DEF b
<1> DEFINE p == Len(b)
           e == RemoveAt(b, p)
<1>4. p \in 1..Len(b) /\ p = m + 1
  BY <1>1, <1>2
<1> HIDE DEF p
<1>5. /\ e \in Seq(S) /\ Len(e) = Len(b) - 1
      /\ \A k \in 1..(Len(b) - 1) : e[k] = IF k < p THEN b[k] ELSE b[k + 1]
  BY <1>2, <1>4, RemoveFacts
<1> HIDE DEF e
<1>6. Len(e) = Len(u) /\ \A k \in 1..Len(u) : u[k] = e[k]
  BY <1>1, <1>2, <1>4, <1>5
<1>7. u = e
  BY <1>5, <1>6, SeqEqual
<1> QED
  BY <1>3, <1>7 DEF b, e, p

(* A longer concatenation is longer.                                       *)
LEMMA UpToLonger ==
  ASSUME NEW S, NEW s \in Seq(Seq(S)), NEW k \in 0..Len(s), NEW j \in k..Len(s)
  PROVE  Len(UpTo(s, k)) <= Len(UpTo(s, j))
<1> DEFINE n == Len(s)
           U(i) == UpTo(s, i)
           P == {m \in Nat : k + m <= n => Len(U(k)) <= Len(U(k + m))}
<1>1. n \in Nat /\ k \in 0..n /\ j \in k..n
  OBVIOUS
<1>2. /\ \A i \in 0..n : U(i) \in Seq(S) /\ Len(U(i)) \in Nat
      /\ \A i \in 1..n : U(i) = U(i - 1) \o s[i] /\ s[i] \in Seq(S)
  BY UpToFacts
<1> HIDE DEF U, n
<1>3. 0 \in P
  BY <1>1, <1>2
<1>4. ASSUME NEW m \in Nat, m \in P PROVE m + 1 \in P
  <2> SUFFICES ASSUME k + (m + 1) <= n PROVE Len(U(k)) <= Len(U(k + (m + 1)))
    BY <1>4
  <2> DEFINE i == k + (m + 1)
  <2>1. i \in 1..n /\ i - 1 = k + m /\ k + m <= n /\ k + m \in 0..n
    BY <1>1
  <2> HIDE DEF i
  <2>2. /\ U(i) = U(k + m) \o s[i] /\ s[i] \in Seq(S) /\ U(k + m) \in Seq(S)
        /\ Len(U(k + m)) \in Nat /\ Len(U(k)) \in Nat
    BY <1>1, <1>2, <2>1
  <2>3. Len(U(i)) = Len(U(k + m)) + Len(s[i]) /\ Len(s[i]) \in Nat
    BY <2>2, ConcatProperties, LenProperties
  <2>4. Len(U(k)) <= Len(U(k + m))
    BY <1>4, <2>1
  <2> DEFINE a == Len(U(k))
             b == Len(U(k + m))
             c == Len(s[i])
  <2>5. a \in Nat /\ b \in Nat /\ c \in Nat /\ Len(U(i)) = b + c /\ a <= b
    BY <2>2, <2>3, <2>4
  <2> HIDE DEF a, b, c
  <2>6. a <= Len(U(i))
    BY <2>5
  <2> QED
    BY <2>6 DEF a, i
<1> HIDE DEF P
<1>5. j - k \in Nat
  BY <1>1
<1>6. j - k \in P
  BY <1>3, <1>4, <1>5, Induction
<1>7. k + (j - k) = j /\ j <= n
  BY <1>1
<1>8. k + (j - k) <= n => Len(U(k)) <= Len(U(k + (j - k)))
  BY <1>6 DEF P
<1> QED
  BY <1>7, <1>8 DEF U

(* What is appended to the k-th sequence is inserted behind the first k.   *)
ChangedAt(s, t, k) ==
  Len(t) = Len(s) /\ \A i \in 1..Len(s) : i # k => t[i] = s[i]

Appended(s, t, k, d) == t[k] = Append(s[k], d)

(* Appending to one sequence inserts where the concatenation up to it      *)
(* ends.                                                                   *)
LEMMA UpToInsert ==
  ASSUME NEW S, NEW s \in Seq(Seq(S)), NEW t \in Seq(Seq(S)), NEW d \in S,
         NEW k \in 1..Len(s), ChangedAt(s, t, k), Appended(s, t, k, d)
  PROVE  \A j \in k..Len(s) :
           UpTo(t, j) = InsertAt(UpTo(s, j), Len(UpTo(s, k)) + 1, d)
<1> DEFINE n == Len(s)
           U(i) == UpTo(s, i)
           W(i) == UpTo(t, i)
           p == Len(UpTo(s, k)) + 1
           P == {m \in Nat : k + m <= n => W(k + m) = InsertAt(U(k + m), p, d)}
<1>1. n \in Nat /\ k \in 1..n /\ Len(t) = n
  BY DEF ChangedAt
<1>2. /\ \A i \in 0..n : U(i) \in Seq(S) /\ Len(U(i)) \in Nat
      /\ \A i \in 1..n : U(i) = U(i - 1) \o s[i] /\ s[i] \in Seq(S)
  BY UpToFacts
<1>3. \A i \in 1..n : W(i) = W(i - 1) \o t[i]
  BY <1>1, UpToFacts
<1>4. W(k - 1) = U(k - 1)
  <2>a. \A i \in 1..(k - 1) : i \in 1..n /\ i # k
    <3> HIDE DEF n
    <3> QED
      BY <1>1
  <2>1. \A i \in 1..(k - 1) : t[i] = s[i]
    BY <2>a DEF ChangedAt
  <2> QED
    BY <2>1 DEF UpTo
<1>5. \A i \in k..n : Len(U(k)) <= Len(U(i))
  <2>1. k \in 0..n
    BY <1>1
  <2> QED
    BY <2>1, UpToLonger
<1>6. p = Len(U(k)) + 1
  OBVIOUS
<1> HIDE DEF U, W, n, p
<1>7. 0 \in P
  <2>a. k - 1 \in 0..n
    BY <1>1
  <2>1. U(k) = U(k - 1) \o s[k] /\ s[k] \in Seq(S) /\ U(k - 1) \in Seq(S)
    BY <1>1, <1>2, <2>a
  <2>2. W(k) = U(k - 1) \o Append(s[k], d)
    BY <1>1, <1>3, <1>4 DEF Appended
  <2>b. d \in S
    OBVIOUS
  <2>c. U(k - 1) \o Append(s[k], d)
          = InsertAt(U(k - 1) \o s[k], Len(U(k - 1) \o s[k]) + 1, d)
    <3>1. \A u, v \in Seq(S) :
            u \o Append(v, d) = InsertAt(u \o v, Len(u \o v) + 1, d)
      <4> HIDE DEF P
      <4> QED
        BY <2>b, AppendInsert, ZenonT(30)
    <3> QED
      BY <2>1, <3>1
  <2>3. W(k) = InsertAt(U(k), p, d)
    BY <1>6, <2>1, <2>2, <2>c
  <2>4. k + 0 = k
    BY <1>1
  <2> QED
    BY <2>3, <2>4
<1>8. ASSUME NEW m \in Nat, m \in P PROVE m + 1 \in P
  <2> SUFFICES ASSUME k + (m + 1) <= n
               PROVE W(k + (m + 1)) = InsertAt(U(k + (m + 1)), p, d)
    BY <1>8
  <2> DEFINE i == k + (m + 1)
             h == k + m
  <2>1. i \in 1..n /\ i - 1 = h /\ h <= n /\ h \in 0..n /\ h \in k..n /\ i # k
    BY <1>1
  <2>2. W(h) = InsertAt(U(h), p, d)
    BY <1>8, <2>1
  <2> HIDE DEF i, h
  <2>3. /\ U(i) = U(h) \o s[i] /\ s[i] \in Seq(S) /\ U(h) \in Seq(S)
        /\ W(i) = W(h) \o t[i]
    BY <1>2, <1>3, <2>1
  <2>4. t[i] = s[i]
    BY <2>1 DEF n, ChangedAt
  <2>5. p \in 1..(Len(U(h)) + 1)
    <3>1. Len(U(k)) <= Len(U(h)) /\ Len(U(k)) \in Nat /\ Len(U(h)) \in Nat
      BY <1>1, <1>2, <1>5, <2>1
    <3> QED
      BY <1>6, <3>1
  <2>a. d \in S /\ U(h) \in Seq(S) /\ s[i] \in Seq(S)
    BY <2>3
  <2>b. \A u, v \in Seq(S) : \A q \in 1..(Len(u) + 1) :
          InsertAt(u, q, d) \o v = InsertAt(u \o v, q, d)
    <3> SUFFICES ASSUME NEW u \in Seq(S), NEW v \in Seq(S), NEW q \in 1..(Len(u) + 1)
                 PROVE  InsertAt(u, q, d) \o v = InsertAt(u \o v, q, d)
      OBVIOUS
    <3> QED
      BY <2>a, ConcatInsert, SMTT(20)
  <2>6. InsertAt(U(h), p, d) \o s[i] = InsertAt(U(h) \o s[i], p, d)
    BY <2>5, <2>a, <2>b
  <2>7. W(i) = InsertAt(U(i), p, d)
    BY <2>2, <2>3, <2>4, <2>6
  <2> QED
    BY <2>7 DEF i
<1> HIDE DEF P
<1>9. ASSUME NEW j \in k..n PROVE W(j) = InsertAt(U(j), p, d)
  <2>1. j - k \in Nat /\ k + (j - k) = j /\ j <= n
    BY <1>1
  <2>2. j - k \in P
    BY <1>7, <1>8, <2>1, Induction
  <2>3. k + (j - k) <= n => W(k + (j - k)) = InsertAt(U(k + (j - k)), p, d)
    BY <2>2 DEF P
  <2> QED
    BY <2>1, <2>3
<1> QED
  BY <1>9 DEF W, U, p, n

(* A sequence of one element that is emptied is removed.                   *)
Emptied(s, t, k, d) == s[k] = <<d>> /\ t[k] = << >>

(* Emptying one sequence removes where the concatenation up to it ends.    *)
LEMMA UpToRemove ==
  ASSUME NEW S, NEW s \in Seq(Seq(S)), NEW t \in Seq(Seq(S)), NEW d \in S,
         NEW k \in 1..Len(s), ChangedAt(s, t, k), Emptied(s, t, k, d)
  PROVE  \A j \in k..Len(s) :
           UpTo(t, j) = RemoveAt(UpTo(s, j), Len(UpTo(s, k)))
<1> DEFINE n == Len(s)
           U(i) == UpTo(s, i)
           W(i) == UpTo(t, i)
           p == Len(UpTo(s, k))
           P == {m \in Nat : k + m <= n => W(k + m) = RemoveAt(U(k + m), p)}
<1>1. n \in Nat /\ k \in 1..n /\ Len(t) = n
  BY DEF ChangedAt
<1>2. /\ \A i \in 0..n : U(i) \in Seq(S) /\ Len(U(i)) \in Nat
      /\ \A i \in 1..n : U(i) = U(i - 1) \o s[i] /\ s[i] \in Seq(S)
  BY UpToFacts
<1>3. \A i \in 1..n : W(i) = W(i - 1) \o t[i]
  BY <1>1, UpToFacts
<1>4. W(k - 1) = U(k - 1)
  <2>a. \A i \in 1..(k - 1) : i \in 1..n /\ i # k
    <3> HIDE DEF n
    <3> QED
      BY <1>1
  <2>1. \A i \in 1..(k - 1) : t[i] = s[i]
    BY <2>a DEF ChangedAt
  <2> QED
    BY <2>1 DEF UpTo
<1>5. \A i \in k..n : Len(U(k)) <= Len(U(i))
  <2>1. k \in 0..n
    BY <1>1
  <2> QED
    BY <2>1, UpToLonger
<1>6. p = Len(U(k))
  OBVIOUS
<1> HIDE DEF U, W, n, p
<1>c. k - 1 \in 0..n
  BY <1>1
<1>a. U(k) = U(k - 1) \o <<d>> /\ U(k - 1) \in Seq(S)
  BY <1>1, <1>2, <1>c DEF Emptied
<1>b. p \in Nat \ {0}
  <2>1. <<d>> \in Seq(S) /\ Len(<<d>>) = 1
    OBVIOUS
  <2>2. Len(U(k)) = Len(U(k - 1)) + 1 /\ Len(U(k - 1)) \in Nat
    BY <1>a, <2>1, ConcatProperties, LenProperties
  <2> QED
    BY <1>6, <2>2
<1>7. 0 \in P
  <2>1. W(k) = U(k - 1) \o << >>
    BY <1>1, <1>3, <1>4 DEF Emptied
  <2>2. W(k) = RemoveAt(U(k), p)
    BY <1>6, <1>a, <2>1, RemoveLast
  <2>3. k + 0 = k
    BY <1>1
  <2> QED
    BY <2>2, <2>3
<1>8. ASSUME NEW m \in Nat, m \in P PROVE m + 1 \in P
  <2> SUFFICES ASSUME k + (m + 1) <= n
               PROVE W(k + (m + 1)) = RemoveAt(U(k + (m + 1)), p)
    BY <1>8
  <2> DEFINE i == k + (m + 1)
             h == k + m
  <2>1. i \in 1..n /\ i - 1 = h /\ h <= n /\ h \in 0..n /\ h \in k..n /\ i # k
    BY <1>1
  <2>2. W(h) = RemoveAt(U(h), p)
    BY <1>8, <2>1
  <2> HIDE DEF i, h
  <2>3. /\ U(i) = U(h) \o s[i] /\ s[i] \in Seq(S) /\ U(h) \in Seq(S)
        /\ W(i) = W(h) \o t[i]
    BY <1>2, <1>3, <2>1
  <2>4. t[i] = s[i]
    BY <2>1 DEF n, ChangedAt
  <2>5. p \in 1..Len(U(h))
    <3>1. Len(U(k)) <= Len(U(h)) /\ Len(U(h)) \in Nat
      BY <1>2, <1>5, <2>1
    <3> QED
      BY <1>6, <1>b, <3>1
  <2>6. RemoveAt(U(h), p) \o s[i] = RemoveAt(U(h) \o s[i], p)
    BY <2>3, <2>5, ConcatRemove
  <2>7. W(i) = RemoveAt(U(i), p)
    BY <2>2, <2>3, <2>4, <2>6
  <2> QED
    BY <2>7 DEF i
<1> HIDE DEF P
<1>9. ASSUME NEW j \in k..n PROVE W(j) = RemoveAt(U(j), p)
  <2>1. j - k \in Nat /\ k + (j - k) = j /\ j <= n
    BY <1>1
  <2>2. j - k \in P
    BY <1>7, <1>8, <2>1, Induction
  <2>3. k + (j - k) <= n => W(k + (j - k)) = RemoveAt(U(k + (j - k)), p)
    BY <2>2 DEF P
  <2> QED
    BY <2>1, <2>3
<1> QED
  BY <1>9 DEF W, U, p, n

(* Sequences of one element each.                                          *)
LEMMA UpToSingles ==
  ASSUME NEW S, NEW s \in Seq(Seq(S)), NEW v \in Seq(S), Len(v) = Len(s),
         \A i \in 1..Len(s) : s[i] = <<v[i]>>
  PROVE  /\ \A j \in 0..Len(s) : Len(UpTo(s, j)) = j
         /\ UpTo(s, Len(s)) = v
<1> DEFINE n == Len(s)
           U(i) == UpTo(s, i)
           Copies(j) == Len(U(j)) = j /\ \A i \in 1..j : U(j)[i] = v[i]
           P == {j \in Nat : j <= n => Copies(j)}
<1>1. n \in Nat /\ Len(v) = n /\ \A i \in 1..n : v[i] \in S
  OBVIOUS
<1>2. /\ U(0) = << >>
      /\ \A i \in 0..n : U(i) \in Seq(S)
      /\ \A i \in 1..n : U(i) = U(i - 1) \o s[i]
  BY UpToFacts
<1>3. \A i \in 1..n : s[i] = <<v[i]>>
  OBVIOUS
<1> HIDE DEF U, n
<1>4. 0 \in P
  BY <1>2
<1>5. ASSUME NEW j \in Nat, j \in P PROVE j + 1 \in P
  <2> SUFFICES ASSUME j + 1 <= n PROVE Copies(j + 1)
    BY <1>5
  <2>1. j + 1 \in 1..n /\ (j + 1) - 1 = j /\ j <= n /\ j \in 0..n
    BY <1>1
  <2> DEFINE x == v[j + 1]
             a == U(j)
             b == U(j + 1)
  <2>2. b = a \o <<x>> /\ a \in Seq(S) /\ x \in S
    BY <1>1, <1>2, <1>3, <2>1
  <2>3. Len(a) = j /\ \A i \in 1..j : a[i] = v[i]
    BY <1>5, <2>1
  <2> HIDE DEF a, b
  <2>4. <<x>> \in Seq(S) /\ Len(<<x>>) = 1 /\ <<x>>[1] = x
    BY <2>2
  <2>5. /\ Len(b) = Len(a) + 1
        /\ \A i \in 1..(Len(a) + 1) : b[i] = IF i <= Len(a) THEN a[i] ELSE <<x>>[i - Len(a)]
    BY <2>2, <2>4, ConcatProperties
  <2>6. Len(b) = j + 1
    BY <2>3, <2>5
  <2>7. \A i \in 1..(j + 1) : b[i] = v[i]
    <3> HIDE DEF x
    <3>1. j \in Nat /\ Len(a) = j
      BY <1>5, <2>3
    <3>2. \A i \in 1..j : b[i] = v[i]
      BY <2>3, <2>5, <3>1
    <3>3. b[j + 1] = v[j + 1]
      <4>1. b[j + 1] = <<x>>[(j + 1) - j]
        BY <2>5, <3>1
      <4>2. (j + 1) - j = 1
        BY <3>1
      <4> QED
        BY <2>4, <4>1, <4>2 DEF x
    <3>4. \A i \in 1..(j + 1) : i \in 1..j \/ i = j + 1
      BY <3>1
    <3> QED
      BY <3>2, <3>3, <3>4
  <2> QED
    BY <2>6, <2>7 DEF b
<1> HIDE DEF P
<1>6. \A j \in Nat : j \in P
  BY <1>4, <1>5, Induction
<1>7. \A j \in 0..n : Copies(j)
  BY <1>1, <1>6 DEF P
<1>8. U(n) = v
  <2>1. Copies(n) /\ U(n) \in Seq(S)
    <3>1. n \in 0..n
      BY <1>1
    <3> HIDE DEF Copies, U, n
    <3> QED
      BY <1>2, <1>7, <3>1
  <2> QED
    BY <1>1, <2>1, SeqEqual
<1> QED
  BY <1>7, <1>8 DEF U, n

(* Where the elements of the parts are: part k begins behind the parts     *)
(* before it, and there is nothing else.                                   *)
Placed(s, j, k) ==
  \A m \in 1..Len(s[k]) :
    /\ Len(UpTo(s, k - 1)) + m \in 1..Len(UpTo(s, j))
    /\ UpTo(s, j)[Len(UpTo(s, k - 1)) + m] = s[k][m]

InPart(s, j, i) ==
  \E k \in 1..j : \E m \in 1..Len(s[k]) : i = Len(UpTo(s, k - 1)) + m

(* Which sequence, and where in it, an element of a concatenation is from. *)
LEMMA UpToAt ==
  ASSUME NEW S, NEW s \in Seq(Seq(S))
  PROVE  \A j \in 0..Len(s) :
           /\ \A k \in 1..j : Placed(s, j, k)
           /\ \A i \in 1..Len(UpTo(s, j)) : InPart(s, j, i)
<1> DEFINE n == Len(s)
           L(j) == Len(UpTo(s, j))
           Both(j) == /\ \A k \in 1..j : Placed(s, j, k)
                      /\ \A i \in 1..L(j) : InPart(s, j, i)
           P == {j \in Nat : j <= n => Both(j)}
<1>1. n \in Nat
  OBVIOUS
<1>2. /\ UpTo(s, 0) = << >>
      /\ \A j \in 0..n : UpTo(s, j) \in Seq(S) /\ L(j) \in Nat
      /\ \A j \in 1..n : UpTo(s, j) = UpTo(s, j - 1) \o s[j] /\ s[j] \in Seq(S)
  BY UpToFacts
<1> HIDE DEF n
<1>3. 0 \in P
  BY <1>2
<1>4. ASSUME NEW j \in Nat, j \in P PROVE j + 1 \in P
  <2> SUFFICES ASSUME j + 1 <= n PROVE Both(j + 1)
    BY <1>4
  <2> DEFINE a == UpTo(s, j)
             b == UpTo(s, j + 1)
             c == s[j + 1]
  <2>1. j + 1 \in 1..n /\ (j + 1) - 1 = j /\ j <= n /\ j \in 0..n
    BY <1>1
  <2>2. b = a \o c /\ a \in Seq(S) /\ c \in Seq(S) /\ L(j) \in Nat /\ Len(c) \in Nat
    <3>1. b = a \o c /\ c \in Seq(S)
      BY <1>2, <2>1
    <3>2. a \in Seq(S) /\ L(j) \in Nat
      BY <1>2, <2>1
    <3> QED
      BY <3>1, <3>2
  <2>3. Both(j)
    BY <1>4, <2>1
  <2>4. /\ Len(b) = L(j) + Len(c)
        /\ \A i \in 1..(L(j) + Len(c)) : b[i] = IF i <= L(j) THEN a[i] ELSE c[i - L(j)]
    <3>1. /\ Len(a \o c) = Len(a) + Len(c)
          /\ \A i \in 1..(Len(a) + Len(c)) :
               (a \o c)[i] = IF i <= Len(a) THEN a[i] ELSE c[i - Len(a)]
      <4> HIDE DEF a, b, c, P
      <4> QED
        BY <2>2, ConcatProperties
    <3> QED
      BY <2>2, <3>1
  <2>5. ASSUME NEW k \in 1..(j + 1) PROVE Placed(s, j + 1, k)
    <3>1. CASE k \in 1..j
      <4> SUFFICES ASSUME NEW m \in 1..Len(s[k])
                   PROVE  /\ L(k - 1) + m \in 1..Len(b)
                          /\ b[L(k - 1) + m] = s[k][m]
        BY DEF Placed
      <4>1. L(k - 1) + m \in 1..L(j) /\ a[L(k - 1) + m] = s[k][m]
        BY <2>3, <3>1 DEF Placed
      <4> HIDE DEF a, b, c, L
      <4> QED
        BY <2>2, <2>4, <4>1
    <3>2. CASE k = j + 1
      <4> SUFFICES ASSUME NEW m \in 1..Len(c)
                   PROVE  L(j) + m \in 1..Len(b) /\ b[L(j) + m] = c[m]
        BY <2>1, <3>2 DEF Placed
      <4> HIDE DEF a, b, c, L
      <4>1. /\ L(j) + m \in 1..(L(j) + Len(c)) /\ ~(L(j) + m <= L(j))
            /\ (L(j) + m) - L(j) = m
        BY <2>2
      <4> QED
        BY <2>4, <4>1
    <3> QED
      BY <3>1, <3>2
  <2>6. ASSUME NEW i \in 1..L(j + 1) PROVE InPart(s, j + 1, i)
    <3>0. i \in 1..(L(j) + Len(c))
      BY <2>4
    <3>1. CASE i \in 1..L(j)
      <4>1. InPart(s, j, i)
        BY <2>3, <3>1
      <4>2. 1..j \subseteq 1..(j + 1)
        BY <2>1
      <4> QED
        BY <4>1, <4>2 DEF InPart
    <3>2. CASE i \notin 1..L(j)
      <4> DEFINE m == i - L(j)
      <4>1. m \in 1..Len(c) /\ i = L(j) + m
        <5> HIDE DEF c, L
        <5> QED
          BY <2>2, <3>0, <3>2
      <4>2. j + 1 \in 1..(j + 1)
        BY <2>1
      <4> HIDE DEF m
      <4> QED
        BY <2>1, <4>1, <4>2 DEF InPart
    <3> QED
      BY <3>1, <3>2
  <2> QED
    BY <2>5, <2>6
<1> HIDE DEF P
<1>5. \A j \in Nat : j \in P
  BY <1>3, <1>4, Induction
<1> QED
  BY <1>1, <1>5 DEF P, n
=============================================================================
