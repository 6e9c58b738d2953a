------------------------- MODULE CodegenLinesProofs -------------------------
(***************************************************************************)
(* For every list of lines and every threshold: the loop of smart_format   *)
(* puts its blank lines around the long runs of assignments to one table   *)
(* and nowhere else (RunsSpaced).                                          *)
(***************************************************************************)
EXTENDS CodegenLines, ListLemmas, FiniteSetTheorems

-----------------------------------------------------------------------------
(* Numbers in order *)

(* A set of numbers has one next to a number, if it has a greater one.     *)
LEMMA NextExists ==
  ASSUME NEW A \in SUBSET Nat, NEW i \in A, NEW k \in A, i < k
  PROVE  \E n \in A : i < n /\ n <= k /\ NextOf(A, i) = {n}
<1> DEFINE T == {m \in A : i < m}
<1>1. T \in SUBSET Nat /\ k \in T
  OBVIOUS
<1>2. PICK n \in T : \A m \in T : n <= m
  <2> HIDE DEF T
  <2> QED
    BY <1>1, LeastNumber
<1>3. n \in A /\ i < n /\ n <= k
  BY <1>1, <1>2
<1>4. \A m \in A : m > i => m >= n
  BY <1>2, <1>3
<1>5. NextOf(A, i) = {n}
  <2>1. ASSUME NEW j \in A, j > i, \A m \in A : m > i => m >= j PROVE j = n
    <3>1. n >= j /\ j >= n
      BY <1>3, <1>4, <2>1
    <3> QED
      BY <1>3, <3>1
  <2> QED
    BY <1>3, <1>4, <2>1 DEF NextOf
<1> QED
  BY <1>3, <1>5

(* The one next to a number follows it directly.                           *)
LEMMA NextFacts ==
  ASSUME NEW A \in SUBSET Nat, NEW i \in A, NEW n, NextOf(A, i) = {n}
  PROVE  n \in A /\ i < n /\ \A k \in A : k > i => n <= k
<1>1. n \in NextOf(A, i)
  OBVIOUS
<1> QED
  BY <1>1 DEF NextOf

(* So does one that is before a number: the last of them.                  *)
LEMMA PreviousExists ==
  ASSUME NEW A \in SUBSET Nat, NEW i \in A, NEW p \in A, p < i
  PROVE  \E h \in A : p <= h /\ h < i /\ NextOf(A, h) = {i}
<1> DEFINE T == {d \in Nat : \E k \in A : k < i /\ d = i - k}
<1>1. T \in SUBSET Nat /\ i - p \in T
  OBVIOUS
<1>2. PICK d \in T : \A e \in T : d <= e
  <2> HIDE DEF T
  <2> QED
    BY <1>1, LeastNumber
<1>3. PICK h \in A : h < i /\ d = i - h
  OBVIOUS
<1>4. ASSUME NEW k \in A, k < i PROVE k <= h
  <2>1. i - k \in T
    BY <1>4
  <2>2. d <= i - k
    BY <1>2, <2>1
  <2> QED
    BY <1>3, <1>4, <2>2
<1>5. p <= h
  BY <1>4
<1>6. PICK n \in A : h < n /\ n <= i /\ NextOf(A, h) = {n}
  BY <1>3, NextExists
<1>7. n = i
  <2>1. ~(n < i)
    BY <1>3, <1>4, <1>6
  <2> QED
    BY <1>6, <2>1
<1> QED
  BY <1>3, <1>5, <1>6, <1>7

\* How many there are in between.
Count(A, i, j) == Cardinality(Between(A, i, j))

(* There are finitely many in between.                                     *)
LEMMA BetweenFinite ==
  ASSUME NEW A \in SUBSET Nat, NEW i \in Nat, NEW j \in Nat
  PROVE  IsFiniteSet(Between(A, i, j)) /\ Count(A, i, j) \in Nat
<1>1. IsFiniteSet(i..j)
  BY FS_Interval
<1>2. ASSUME NEW k \in Between(A, i, j) PROVE k \in i..j
  <2>1. k \in Nat /\ i <= k /\ k <= j
    BY DEF Between
  <2> QED
    BY <2>1
<1>3. IsFiniteSet(Between(A, i, j))
  BY <1>1, <1>2, FS_Subset
<1> QED
  BY <1>3, FS_CardinalityType DEF Count

(* Each number of the set adds one to how many there are up to it.         *)
LEMMA CountFacts ==
  ASSUME NEW A \in SUBSET Nat, NEW i \in Nat, NEW j \in Nat, i <= j
  PROVE  /\ Count(A, i, i) <= 1
         /\ i \in A => Count(A, i, i) = 1
         /\ j + 1 \in A => Count(A, i, j + 1) = Count(A, i, j) + 1
         /\ j + 1 \notin A => Count(A, i, j + 1) = Count(A, i, j)
<1> \A k \in A : k \in Nat
  OBVIOUS
<1>1. i \in A => Between(A, i, i) = {i}
  <2>1. ASSUME NEW k \in Between(A, i, i) PROVE k = i
    BY DEF Between
  <2>2. i \in A => i \in Between(A, i, i)
    BY DEF Between
  <2> QED
    BY <2>1, <2>2
<1>2. i \notin A => Between(A, i, i) = {}
  <2>1. ASSUME NEW k \in Between(A, i, i) PROVE k = i /\ k \in A
    BY DEF Between
  <2> QED
    BY <2>1
<1>3. Cardinality({i}) = 1 /\ Cardinality({}) = 0
  BY FS_Singleton, FS_EmptySet
<1>4. ASSUME j + 1 \in A PROVE Count(A, i, j + 1) = Count(A, i, j) + 1
  <2>1. Between(A, i, j + 1) = Between(A, i, j) \cup {j + 1}
    <3>1. ASSUME NEW k \in Between(A, i, j + 1) PROVE k \in Between(A, i, j) \cup {j + 1}
      BY DEF Between
    <3>2. ASSUME NEW k \in Between(A, i, j) PROVE k \in Between(A, i, j + 1)
      BY DEF Between
    <3>3. j + 1 \in Between(A, i, j + 1)
      BY <1>4 DEF Between
    <3> QED
      BY <3>1, <3>2, <3>3
  <2>2. j + 1 \notin Between(A, i, j)
    BY DEF Between
  <2>3. IsFiniteSet(Between(A, i, j))
    BY BetweenFinite
  <2> QED
    BY <2>1, <2>2, <2>3, FS_AddElement DEF Count
<1>5. ASSUME j + 1 \notin A PROVE Count(A, i, j + 1) = Count(A, i, j)
  <2>1. ASSUME NEW k \in Between(A, i, j + 1) PROVE k \in Between(A, i, j)
    BY <1>5 DEF Between
  <2>2. ASSUME NEW k \in Between(A, i, j) PROVE k \in Between(A, i, j + 1)
    BY DEF Between
  <2>3. Between(A, i, j + 1) = Between(A, i, j)
    BY <2>1, <2>2
  <2> QED
    BY <2>3 DEF Count
<1> QED
  BY <1>1, <1>2, <1>3, <1>4, <1>5 DEF Count

(* The more numbers, the more there are.                                   *)
LEMMA CountMonotone ==
  ASSUME NEW A \in SUBSET Nat, NEW i \in Nat, NEW j \in Nat, NEW k \in Nat,
         Between(A, i, j) \subseteq Between(A, i, k)
  PROVE  Count(A, i, j) <= Count(A, i, k)
<1>1. IsFiniteSet(Between(A, i, k))
  BY BetweenFinite
<1> QED
  BY <1>1, FS_Subset DEF Count

-----------------------------------------------------------------------------
(* Runs, as far as the loop has come *)

\* A run starts at p; the lines from p to j are to members of its table.
Starts(A, table, p) ==
  p \in A /\ table[p] # <<>> /\ \A h \in A : NextOf(A, h) = {p} => table[h] # table[p]
Same(A, table, p, j) == \A k \in Between(A, p, j) : table[k] = table[p]

\* What is long by line i: the starts of such runs, and the lines before
\* those that ended one.
LongAt(A, table, t, p, j) ==
  p <= j /\ Starts(A, table, p) /\ Same(A, table, p, j) /\ Count(A, p, j) >= t
Begins(A, table, t, i) == {p \in A : \E j \in p..i : LongAt(A, table, t, p, j)}
EndedBy(A, table, t, n) ==
  \E p \in A : \E j \in A : /\ LongAt(A, table, t, p, j)
                            /\ NextOf(A, j) = {n} /\ table[n] # table[p]
Ends(A, table, t, i) == {e \in Nat : e + 1 \in A /\ e + 1 <= i /\ EndedBy(A, table, t, e + 1)}

\* Line i is in no run, or in the one that starts at q, as far as the lines
\* before it tell.
Outside(A, table, i) == \A h \in A : h < i /\ NextOf(A, h) = {i} => table[h] = <<>>
Within(A, table, q, i) == q \in A /\ q < i /\ Starts(A, table, q) /\ Same(A, table, q, i - 1)

(* No two runs reach the same line.                                        *)
LEMMA OneStart ==
  ASSUME NEW A \in SUBSET Nat, NEW table, NEW p, NEW q, NEW j \in Nat,
         Starts(A, table, p), Starts(A, table, q), p <= j, q <= j,
         Same(A, table, p, j), Same(A, table, q, j)
  PROVE  p = q
<1>1. p \in A /\ q \in A /\ p \in Nat /\ q \in Nat
  BY DEF Starts
<1>2. ASSUME NEW a \in A, NEW b \in A, a < b, b <= j, Starts(A, table, b),
             Same(A, table, a, j)
      PROVE  FALSE
  <2>1. PICK h \in A : a <= h /\ h < b /\ NextOf(A, h) = {b}
    BY <1>2, PreviousExists
  <2>2. h \in Between(A, a, j) /\ b \in Between(A, a, j)
    BY <1>2, <2>1 DEF Between
  <2>3. table[h] = table[b]
    BY <1>2, <2>2 DEF Same
  <2> QED
    BY <1>2, <2>1, <2>3 DEF Starts
<1>3. ~(p < q) /\ ~(q < p)
  BY <1>1, <1>2
<1> QED
  BY <1>1, <1>3

(* The start of a long run is followed by another line of it.              *)
LEMMA LongIsLonger ==
  ASSUME NEW A \in SUBSET Nat, NEW table, NEW t \in Nat, t > 1, NEW p, NEW j \in Nat,
         LongAt(A, table, t, p, j)
  PROVE  p \in A /\ p < j
<1>1. p \in A /\ p \in Nat /\ p <= j /\ Count(A, p, j) >= t
  BY DEF LongAt, Starts
<1>2. Count(A, p, p) <= 1
  BY <1>1, CountFacts
<1>3. p # j
  <2>1. p = j => Count(A, p, p) >= t
    BY <1>1
  <2>2. Count(A, p, p) \in Nat
    BY <1>1, BetweenFinite
  <2> QED
    BY <1>2, <2>1, <2>2
<1> QED
  BY <1>1, <1>3

(* Each line adds the run that gets long with it and the one it ends.      *)
LEMMA BeginsStep ==
  ASSUME NEW A \in SUBSET Nat, NEW table, NEW t \in Nat, NEW i \in Nat, i > 0
  PROVE  Begins(A, table, t, i)
           = Begins(A, table, t, i - 1) \cup {p \in A : LongAt(A, table, t, p, i)}
<1>1. ASSUME NEW p \in A, NEW j \in p..i, LongAt(A, table, t, p, j), ~LongAt(A, table, t, p, i)
      PROVE  j \in p..(i - 1)
  <2>1. j # i
    BY <1>1
  <2> QED
    BY <2>1
<1>2. ASSUME NEW p \in A, LongAt(A, table, t, p, i) PROVE i \in p..i
  BY <1>2 DEF LongAt
<1>3. ASSUME NEW p \in A, NEW j \in p..(i - 1) PROVE j \in p..i
  OBVIOUS
<1> QED
  BY <1>1, <1>2, <1>3 DEF Begins

(* Line i adds at most one end to those of the lines before it.            *)
LEMMA EndsStep ==
  ASSUME NEW A \in SUBSET Nat, NEW table, NEW t \in Nat, NEW i \in Nat, i > 0
  PROVE  Ends(A, table, t, i)
           = Ends(A, table, t, i - 1)
               \cup (IF i \in A /\ EndedBy(A, table, t, i) THEN {i - 1} ELSE {})
<1>1. ASSUME NEW e \in Nat, e + 1 <= i, ~(e + 1 <= i - 1) PROVE e = i - 1
  BY <1>1
<1>2. i - 1 \in Nat /\ (i - 1) + 1 = i
  OBVIOUS
<1>3. ASSUME NEW e \in Nat, e + 1 <= i - 1 PROVE e + 1 <= i
  BY <1>3
<1>4. ASSUME NEW e \in Ends(A, table, t, i)
      PROVE  e \in Ends(A, table, t, i - 1) \/ (i \in A /\ EndedBy(A, table, t, i) /\ e = i - 1)
  <2>1. e \in Nat /\ e + 1 \in A /\ e + 1 <= i /\ EndedBy(A, table, t, e + 1)
    BY <1>4 DEF Ends
  <2>2. CASE e + 1 <= i - 1
    BY <2>1, <2>2 DEF Ends
  <2>3. CASE ~(e + 1 <= i - 1)
    <3>1. e = i - 1 /\ e + 1 = i
      BY <1>1, <1>2, <2>1, <2>3
    <3> QED
      BY <2>1, <3>1
  <2> QED
    BY <2>2, <2>3
<1>5. ASSUME NEW e \in Ends(A, table, t, i - 1) PROVE e \in Ends(A, table, t, i)
  BY <1>3, <1>5 DEF Ends
<1>6. i \in A /\ EndedBy(A, table, t, i) => i - 1 \in Ends(A, table, t, i)
  BY <1>2 DEF Ends
<1> QED
  BY <1>4, <1>5, <1>6

(* A line that assigns nothing changes neither.                            *)
LEMMA SkippedLine ==
  ASSUME NEW A \in SUBSET Nat, NEW table, NEW t \in Nat, t > 1, NEW i \in Nat, i > 0, i \notin A
  PROVE  /\ Begins(A, table, t, i) = Begins(A, table, t, i - 1)
         /\ Ends(A, table, t, i) = Ends(A, table, t, i - 1)
<1>1. ASSUME NEW p \in A, LongAt(A, table, t, p, i) PROVE p \in Begins(A, table, t, i - 1)
  <2>1. p < i /\ p \in Nat /\ i - 1 \in Nat /\ p <= i - 1 /\ (i - 1) + 1 = i
    BY <1>1, LongIsLonger
  <2>2. Count(A, p, i) = Count(A, p, i - 1)
    BY <2>1, CountFacts
  <2>3. \A k \in Between(A, p, i - 1) : k \in Between(A, p, i)
    BY <2>1 DEF Between
  <2>4. LongAt(A, table, t, p, i - 1)
    BY <1>1, <2>1, <2>2, <2>3 DEF LongAt, Same
  <2> QED
    BY <2>1, <2>4 DEF Begins
<1>2. /\ Begins(A, table, t, i)
           = Begins(A, table, t, i - 1) \cup {p \in A : LongAt(A, table, t, p, i)}
      /\ Ends(A, table, t, i)
           = Ends(A, table, t, i - 1)
               \cup (IF i \in A /\ EndedBy(A, table, t, i) THEN {i - 1} ELSE {})
  BY BeginsStep, EndsStep
<1> QED
  BY <1>1, <1>2

(* Nor does one in no run.                                                 *)
LEMMA OutsideLine ==
  ASSUME NEW A \in SUBSET Nat, NEW table, NEW t \in Nat, t > 1, NEW i \in Nat, i > 0,
         i \in A, Outside(A, table, i)
  PROVE  /\ Begins(A, table, t, i) = Begins(A, table, t, i - 1)
         /\ Ends(A, table, t, i) = Ends(A, table, t, i - 1)
<1>1. ASSUME NEW p \in A, LongAt(A, table, t, p, i) PROVE FALSE
  <2>1. p < i
    BY <1>1, LongIsLonger
  <2>2. PICK h \in A : p <= h /\ h < i /\ NextOf(A, h) = {i}
    BY <2>1, PreviousExists
  <2>3. h \in Between(A, p, i)
    BY <2>2 DEF Between
  <2>4. table[h] = table[p] /\ table[p] # <<>>
    BY <1>1, <2>3 DEF LongAt, Same, Starts
  <2> QED
    BY <2>2, <2>4 DEF Outside
<1>2. ASSUME EndedBy(A, table, t, i) PROVE FALSE
  <2>1. PICK p \in A, j \in A : LongAt(A, table, t, p, j) /\ NextOf(A, j) = {i}
    BY <1>2 DEF EndedBy
  <2>2. j < i /\ p <= j
    BY <2>1, NextFacts DEF LongAt
  <2>3. j \in Between(A, p, j)
    BY <2>2 DEF Between
  <2>4. table[j] = table[p] /\ table[p] # <<>>
    BY <2>1, <2>3 DEF LongAt, Same, Starts
  <2> QED
    BY <2>1, <2>2, <2>4 DEF Outside
<1>3. /\ Begins(A, table, t, i)
           = Begins(A, table, t, i - 1) \cup {p \in A : LongAt(A, table, t, p, i)}
      /\ Ends(A, table, t, i)
           = Ends(A, table, t, i - 1)
               \cup (IF i \in A /\ EndedBy(A, table, t, i) THEN {i - 1} ELSE {})
  BY BeginsStep, EndsStep
<1> QED
  BY <1>1, <1>2, <1>3

(* A line to a member of the table of the run may make it long.            *)
LEMMA InnerLine ==
  ASSUME NEW A \in SUBSET Nat, NEW table, NEW t \in Nat, t > 1, NEW i \in Nat, i > 0,
         i \in A, NEW q, Within(A, table, q, i), table[i] = table[q]
  PROVE  /\ Count(A, q, i) = Count(A, q, i - 1) + 1
         /\ Same(A, table, q, i)
         /\ Begins(A, table, t, i)
              = Begins(A, table, t, i - 1) \cup (IF Count(A, q, i) >= t THEN {q} ELSE {})
         /\ Ends(A, table, t, i) = Ends(A, table, t, i - 1)
<1>1. q \in A /\ q \in Nat /\ q <= i - 1 /\ i - 1 \in Nat /\ (i - 1) + 1 = i
  BY DEF Within
<1>2. Count(A, q, i) = Count(A, q, i - 1) + 1
  BY <1>1, CountFacts
<1>3. Same(A, table, q, i)
  <2>1. ASSUME NEW k \in Between(A, q, i), k # i PROVE k \in Between(A, q, i - 1)
    BY <1>1, <2>1 DEF Between
  <2> QED
    BY <2>1 DEF Same, Within
<1>4. Starts(A, table, q)
  BY DEF Within
<1>5. ASSUME NEW p \in A, LongAt(A, table, t, p, i) PROVE p = q
  <2>1. q <= i /\ p <= i /\ Starts(A, table, p) /\ Same(A, table, p, i)
    BY <1>1, <1>5 DEF LongAt
  <2> QED
    BY <1>3, <1>4, <2>1, OneStart
<1>6. LongAt(A, table, t, q, i) <=> Count(A, q, i) >= t
  BY <1>1, <1>3, <1>4 DEF LongAt
<1>7. ASSUME EndedBy(A, table, t, i) PROVE FALSE
  <2>1. PICK p \in A, j \in A :
          LongAt(A, table, t, p, j) /\ NextOf(A, j) = {i} /\ table[i] # table[p]
    BY <1>7 DEF EndedBy
  <2>2. j < i /\ p <= j /\ q <= j /\ j <= i - 1 /\ p \in Nat /\ j \in Nat
    <3>1. i \in A /\ j < i /\ \A k \in A : k > j => i <= k
      BY <2>1, NextFacts
    <3>2. ~(q > j)
      BY <1>1, <3>1
    <3> QED
      BY <1>1, <2>1, <3>1, <3>2 DEF LongAt
  <2>3. j \in Between(A, p, j) /\ j \in Between(A, q, i - 1)
    BY <2>2 DEF Between
  <2>4. table[j] = table[p] /\ table[j] = table[q]
    BY <2>1, <2>3 DEF LongAt, Same, Within
  <2> QED
    BY <2>1, <2>4
<1>8. /\ Begins(A, table, t, i)
           = Begins(A, table, t, i - 1) \cup {p \in A : LongAt(A, table, t, p, i)}
      /\ Ends(A, table, t, i)
           = Ends(A, table, t, i - 1)
               \cup (IF i \in A /\ EndedBy(A, table, t, i) THEN {i - 1} ELSE {})
  BY BeginsStep, EndsStep
<1>9. {p \in A : LongAt(A, table, t, p, i)} = IF Count(A, q, i) >= t THEN {q} ELSE {}
  BY <1>1, <1>5, <1>6
<1> QED
  BY <1>2, <1>3, <1>7, <1>8, <1>9

(* Another ends it.                                                        *)
LEMMA EndingLine ==
  ASSUME NEW A \in SUBSET Nat, NEW table, NEW t \in Nat, t > 1, NEW i \in Nat, i > 0,
         i \in A, NEW q, Within(A, table, q, i), table[i] # table[q]
  PROVE  /\ Begins(A, table, t, i) = Begins(A, table, t, i - 1)
         /\ Ends(A, table, t, i)
              = Ends(A, table, t, i - 1) \cup (IF Count(A, q, i - 1) >= t THEN {i - 1} ELSE {})
         /\ \A h \in A : h < i /\ NextOf(A, h) = {i} => table[h] = table[q]
<1>1. q \in A /\ q \in Nat /\ q < i /\ q <= i - 1 /\ i - 1 \in Nat /\ (i - 1) + 1 = i
  BY DEF Within
<1>2. Starts(A, table, q) /\ Same(A, table, q, i - 1)
  BY DEF Within
<1>3. ASSUME NEW h \in A, NextOf(A, h) = {i}
      PROVE  h < i /\ q <= h /\ h <= i - 1 /\ table[h] = table[q]
  <2>1. h < i /\ \A k \in A : k > h => i <= k
    BY <1>3, NextFacts
  <2>2. ~(q > h)
    BY <1>1, <2>1
  <2>3. q <= h /\ h <= i - 1
    BY <1>1, <2>1, <2>2
  <2>4. h \in Between(A, q, i - 1)
    BY <2>3 DEF Between
  <2> QED
    BY <1>2, <2>1, <2>3, <2>4 DEF Same
<1>4. ASSUME NEW p \in A, LongAt(A, table, t, p, i) PROVE FALSE
  <2>1. p < i
    BY <1>4, LongIsLonger
  <2>2. PICK h \in A : p <= h /\ h < i /\ NextOf(A, h) = {i}
    BY <2>1, PreviousExists
  <2>3. h \in Between(A, p, i) /\ i \in Between(A, p, i)
    BY <2>1, <2>2 DEF Between
  <2>4. table[h] = table[i]
    BY <1>4, <2>3 DEF LongAt, Same
  <2> QED
    BY <1>3, <2>2, <2>4
<1>5. PICK h \in A : q <= h /\ h < i /\ NextOf(A, h) = {i}
  BY <1>1, PreviousExists
<1>6. ASSUME NEW k \in A, k < i PROVE k <= h
  <2>1. \A m \in A : m > h => i <= m
    BY <1>5, NextFacts
  <2>2. ~(k > h)
    BY <1>6, <2>1
  <2> QED
    BY <2>2
<1>7. Between(A, q, h) = Between(A, q, i - 1)
  <2>1. ASSUME NEW k \in A, k <= i - 1 PROVE k <= h
    BY <1>6, <2>1
  <2>2. ASSUME NEW k \in A, k <= h PROVE k <= i - 1
    BY <1>5, <2>2
  <2> QED
    BY <2>1, <2>2 DEF Between
<1>8. EndedBy(A, table, t, i) <=> Count(A, q, i - 1) >= t
  <2>1. ASSUME EndedBy(A, table, t, i) PROVE Count(A, q, i - 1) >= t
    <3>1. PICK p \in A, j \in A : LongAt(A, table, t, p, j) /\ NextOf(A, j) = {i}
      BY <2>1 DEF EndedBy
    <3>2. j = h
      <4>1. j < i /\ \A m \in A : m > j => i <= m
        BY <3>1, NextFacts
      <4>2. ~(h > j) /\ j <= h
        BY <1>5, <1>6, <4>1
      <4> QED
        BY <4>2
    <3>3. Starts(A, table, p) /\ Same(A, table, p, h) /\ p <= h /\ h \in Nat
      BY <3>1, <3>2 DEF LongAt
    <3>4. Same(A, table, q, h)
      BY <1>2, <1>7 DEF Same
    <3>5. p = q
      BY <1>2, <1>5, <3>3, <3>4, OneStart
    <3>6. Count(A, q, h) >= t
      BY <3>1, <3>2, <3>5 DEF LongAt
    <3> QED
      BY <1>7, <3>6 DEF Count
  <2>2. ASSUME Count(A, q, i - 1) >= t PROVE EndedBy(A, table, t, i)
    <3>1. LongAt(A, table, t, q, h)
      BY <1>2, <1>5, <1>7, <2>2 DEF LongAt, Same, Count
    <3> QED
      BY <1>1, <1>5, <3>1 DEF EndedBy
  <2> QED
    BY <2>1, <2>2
<1>9. /\ Begins(A, table, t, i)
           = Begins(A, table, t, i - 1) \cup {p \in A : LongAt(A, table, t, p, i)}
      /\ Ends(A, table, t, i)
           = Ends(A, table, t, i - 1)
               \cup (IF i \in A /\ EndedBy(A, table, t, i) THEN {i - 1} ELSE {})
  BY BeginsStep, EndsStep
<1> QED
  BY <1>3, <1>4, <1>8, <1>9

-----------------------------------------------------------------------------
(* The runs in the end *)

(* A long run starts at p and reaches j, and what follows j is not of it.  *)
LEMMA LongestIs ==
  ASSUME NEW A \in SUBSET Nat, NEW table, NEW t \in Nat, NEW p \in A, NEW j \in A
  PROVE  <<p, j>> \in LongRuns(A, table, t)
           <=> /\ LongAt(A, table, t, p, j)
               /\ \A n \in NextOf(A, j) : table[n] # table[p]
<1> DEFINE long == Count(A, p, j) >= t
<1>1. <<p, j>> \in LongRuns(A, table, t) <=> p <= j /\ Longest(A, table, p, j) /\ long
  BY DEF LongRuns, Count
<1>2. ASSUME p <= j, Run(A, table, p, j), NEW h \in A, NextOf(A, h) = {p}
      PROVE  Run(A, table, h, j) <=> table[h] = table[p]
  <2>1. h < p /\ \A k \in A : k > h => p <= k
    BY <1>2, NextFacts
  <2>2. p \in Between(A, h, j)
    BY <1>2, <2>1 DEF Between
  <2>3. ASSUME NEW k \in Between(A, h, j), k # h PROVE k \in Between(A, p, j)
    BY <2>1, <2>3 DEF Between
  <2>4. Run(A, table, h, j) => table[h] = table[p]
    BY <2>2 DEF Run
  <2>5. ASSUME table[h] = table[p] PROVE Run(A, table, h, j)
    BY <1>2, <2>3, <2>5 DEF Run
  <2> QED
    BY <2>4, <2>5
<1>3. ASSUME p <= j, Run(A, table, p, j), NEW n \in NextOf(A, j)
      PROVE  Run(A, table, p, n) <=> table[n] = table[p]
  <2>1. n \in A /\ n > j /\ \A k \in A : k > j => k >= n
    BY DEF NextOf
  <2>2. n \in Between(A, p, n)
    BY <1>3, <2>1 DEF Between
  <2>3. ASSUME NEW k \in Between(A, p, n), k # n PROVE k \in Between(A, p, j)
    <3>1. k \in A /\ p <= k /\ k <= n /\ ~(k > j)
      BY <2>1, <2>3 DEF Between
    <3> QED
      BY <3>1 DEF Between
  <2>4. Run(A, table, p, n) => table[n] = table[p]
    BY <2>2 DEF Run
  <2>5. ASSUME table[n] = table[p] PROVE Run(A, table, p, n)
    BY <1>3, <2>3, <2>5 DEF Run
  <2> QED
    BY <2>4, <2>5
<1>4. ASSUME p <= j, Longest(A, table, p, j), long
      PROVE  LongAt(A, table, t, p, j) /\ \A n \in NextOf(A, j) : table[n] # table[p]
  <2>1. Run(A, table, p, j)
    BY <1>4 DEF Longest
  <2>2. Starts(A, table, p)
    BY <1>2, <1>4, <2>1 DEF Longest, Starts, Run
  <2>3. Same(A, table, p, j)
    BY <2>1 DEF Same, Run
  <2>4. \A n \in NextOf(A, j) : table[n] # table[p]
    BY <1>3, <1>4, <2>1 DEF Longest
  <2> QED
    BY <1>4, <2>2, <2>3, <2>4 DEF LongAt
<1>5. ASSUME LongAt(A, table, t, p, j), \A n \in NextOf(A, j) : table[n] # table[p]
      PROVE  p <= j /\ Longest(A, table, p, j) /\ long
  <2>1. p <= j /\ long /\ Starts(A, table, p) /\ Same(A, table, p, j)
    BY <1>5 DEF LongAt
  <2>2. Run(A, table, p, j)
    BY <2>1 DEF Run, Starts, Same
  <2>3. \A k \in NextOf(A, j) : ~Run(A, table, p, k)
    BY <1>3, <1>5, <2>1, <2>2
  <2>4. \A h \in A : NextOf(A, h) = {p} => ~Run(A, table, h, j)
    BY <1>2, <2>1, <2>2 DEF Starts
  <2> QED
    BY <2>1, <2>2, <2>3, <2>4 DEF Longest
<1> QED
  BY <1>1, <1>4, <1>5

(* Each begins where the loop says, and only there ...                     *)
LEMMA RunsBegin ==
  ASSUME NEW N \in Nat, NEW A \in SUBSET (1..N), NEW table, NEW t \in Nat, t > 1, NEW i \in Nat
  PROVE  i \in Begins(A, table, t, N) <=> \E j \in A : <<i, j>> \in LongRuns(A, table, t)
<1>1. A \in SUBSET Nat /\ \A k \in A : k \in 1..N
  OBVIOUS
<1>2. ASSUME i \in Begins(A, table, t, N)
      PROVE  \E j \in A : <<i, j>> \in LongRuns(A, table, t)
  <2>1. PICK m \in i..N : LongAt(A, table, t, i, m)
    BY <1>2 DEF Begins
  <2>2. i \in A /\ Starts(A, table, i) /\ Same(A, table, i, m) /\ Count(A, i, m) >= t
    BY <2>1 DEF LongAt, Starts
  <2> DEFINE T == {d \in Nat : \E k \in A : i <= k /\ d = N - k /\ Same(A, table, i, k)}
  <2>3. N - i \in T
    <3>1. Same(A, table, i, i)
      <4>1. ASSUME NEW k \in Between(A, i, i) PROVE k = i
        BY DEF Between
      <4> QED
        BY <4>1 DEF Same
    <3> QED
      BY <2>2, <3>1
  <2>4. PICK d \in T : \A e \in T : d <= e
    <3>1. T \in SUBSET Nat /\ T # {}
      BY <2>3
    <3> HIDE DEF T
    <3> QED
      BY <3>1, LeastNumber
  <2>5. PICK j \in A : i <= j /\ d = N - j /\ Same(A, table, i, j)
    BY <2>4
  <2>6. ASSUME NEW k \in A, i <= k, Same(A, table, i, k) PROVE k <= j
    <3>1. N - k \in T
      BY <1>1, <2>6
    <3>2. d <= N - k
      BY <2>4, <3>1
    <3> QED
      BY <1>1, <2>5, <3>2
  <2>7. ASSUME NEW n \in NextOf(A, j) PROVE table[n] # table[i]
    <3>1. n \in A /\ n > j /\ \A k \in A : k > j => k >= n
      BY DEF NextOf
    <3>2. ASSUME table[n] = table[i] PROVE FALSE
      <4>1. ASSUME NEW k \in Between(A, i, n) PROVE table[k] = table[i]
        <5>1. k \in A /\ i <= k /\ (k = n \/ k <= j)
          BY <1>1, <3>1 DEF Between
        <5>2. k # n => k \in Between(A, i, j)
          BY <5>1 DEF Between
        <5> QED
          BY <2>5, <3>2, <5>2 DEF Same
      <4>2. Same(A, table, i, n)
        BY <4>1 DEF Same
      <4>3. i <= n
        BY <1>1, <2>5, <3>1
      <4>4. n <= j
        BY <2>6, <3>1, <4>2, <4>3
      <4> QED
        BY <1>1, <3>1, <4>4
    <3> QED
      BY <3>2
  <2>8. Count(A, i, m) <= Count(A, i, j)
    <3>1. ASSUME NEW k \in Between(A, i, m) PROVE k \in Between(A, i, j)
      <4>1. k \in A /\ i <= k /\ k <= m
        BY <3>1 DEF Between
      <4>2. \A l \in Between(A, i, k) : l \in Between(A, i, m)
        BY <1>1, <4>1 DEF Between
      <4>3. Same(A, table, i, k)
        BY <2>2, <4>2 DEF Same
      <4>4. k <= j
        BY <2>6, <4>1, <4>3
      <4> QED
        BY <4>1, <4>4 DEF Between
    <3>2. Between(A, i, m) \subseteq Between(A, i, j) /\ i \in Nat /\ m \in Nat /\ j \in Nat
      BY <1>1, <3>1
    <3> QED
      BY <1>1, <3>2, CountMonotone
  <2>9. LongAt(A, table, t, i, j)
    <3>1. Count(A, i, m) \in Nat /\ Count(A, i, j) \in Nat
      BY <1>1, BetweenFinite
    <3> QED
      BY <2>2, <2>5, <2>8, <3>1 DEF LongAt
  <2>10. <<i, j>> \in LongRuns(A, table, t)
    BY <1>1, <2>2, <2>7, <2>9, LongestIs
  <2> QED
    BY <2>10
<1>3. ASSUME NEW j \in A, <<i, j>> \in LongRuns(A, table, t) PROVE i \in Begins(A, table, t, N)
  <2>1. i \in A
    BY <1>3 DEF LongRuns
  <2>2. LongAt(A, table, t, i, j)
    BY <1>1, <1>3, <2>1, LongestIs
  <2>3. j \in i..N
    BY <1>1, <2>2 DEF LongAt
  <2> QED
    BY <2>1, <2>2, <2>3 DEF Begins
<1> QED
  BY <1>2, <1>3

(* ... and ends in front of the line that ends it.                         *)
LEMMA RunsEnd ==
  ASSUME NEW N \in Nat, NEW A \in SUBSET (1..N), NEW table, NEW t \in Nat, NEW i \in Nat
  PROVE  i \in Ends(A, table, t, N)
           <=> \E p \in A, j \in A :
                 <<p, j>> \in LongRuns(A, table, t) /\ NextOf(A, j) = {i + 1}
<1>1. A \in SUBSET Nat /\ \A k \in A : k \in 1..N
  OBVIOUS
<1>2. ASSUME i \in Ends(A, table, t, N)
      PROVE  \E p \in A, j \in A :
               <<p, j>> \in LongRuns(A, table, t) /\ NextOf(A, j) = {i + 1}
  <2>1. PICK p \in A, j \in A : /\ LongAt(A, table, t, p, j)
                                /\ NextOf(A, j) = {i + 1} /\ table[i + 1] # table[p]
    BY <1>2 DEF Ends, EndedBy
  <2>2. <<p, j>> \in LongRuns(A, table, t)
    BY <1>1, <2>1, LongestIs
  <2> QED
    BY <2>1, <2>2
<1>3. ASSUME NEW p \in A, NEW j \in A,
             <<p, j>> \in LongRuns(A, table, t), NextOf(A, j) = {i + 1}
      PROVE  i \in Ends(A, table, t, N)
  <2>1. LongAt(A, table, t, p, j) /\ table[i + 1] # table[p]
    BY <1>1, <1>3, LongestIs
  <2>2. i + 1 \in A /\ i + 1 <= N
    BY <1>1, <1>3, NextFacts
  <2> QED
    BY <1>3, <2>1, <2>2 DEF Ends, EndedBy
<1> QED
  BY <1>2, <1>3

(* What the loop writes sets the runs apart.                               *)
LEMMA RunsAreSpaced ==
  ASSUME NEW N \in Nat, NEW A \in SUBSET (1..N), NEW table, NEW t \in Nat, t > 1
  PROVE  Spaced(A, LongRuns(A, table, t), Begins(A, table, t, N) \cup Ends(A, table, t, N))
<1> DEFINE runs == LongRuns(A, table, t)
           B == Begins(A, table, t, N)
           E == Ends(A, table, t, N)
<1>1. A \in SUBSET Nat /\ (\A k \in A : k \in 1..N) /\ B \subseteq A /\ E \subseteq Nat
  BY DEF Begins, Ends
<1>2. ASSUME NEW r \in runs
      PROVE  /\ r[1] \in A /\ r[2] \in A /\ r = <<r[1], r[2]>>
             /\ LongAt(A, table, t, r[1], r[2])
             /\ Starts(A, table, r[1]) /\ Same(A, table, r[1], r[2]) /\ r[1] <= r[2]
  <2>1. r[1] \in A /\ r[2] \in A /\ r = <<r[1], r[2]>>
    BY DEF LongRuns
  <2>2. LongAt(A, table, t, r[1], r[2])
    BY <1>1, <2>1, LongestIs
  <2> QED
    BY <2>1, <2>2 DEF LongAt
<1>3. ASSUME NEW r \in runs PROVE r[1] \in B
  BY <1>1, <1>2, RunsBegin
<1>4. ASSUME NEW r \in runs, NEW k \in r[1] + 1..r[2], k \in B PROVE FALSE
  <2>1. k \in A /\ k \in Nat /\ r[1] \in Nat /\ r[2] \in Nat /\ r[1] < k /\ k <= r[2]
    BY <1>1, <1>2, <1>4
  <2>2. Starts(A, table, k)
    BY <1>4 DEF Begins, LongAt
  <2>3. ASSUME NEW l \in Between(A, r[1], k) PROVE l \in Between(A, r[1], r[2])
    BY <1>1, <2>1 DEF Between
  <2>4. ASSUME NEW l \in Between(A, k, k) PROVE l = k
    BY <1>1, <2>1 DEF Between
  <2>5. Same(A, table, r[1], k)
    BY <1>2, <2>3 DEF Same
  <2>6. Same(A, table, k, k)
    BY <2>4 DEF Same
  <2>7. Starts(A, table, r[1]) /\ r[1] <= k /\ k <= k
    BY <1>2, <2>1
  <2>8. r[1] = k
    BY <1>1, <2>1, <2>2, <2>5, <2>6, <2>7, OneStart
  <2> QED
    BY <2>1, <2>8
<1>5. ASSUME NEW r \in runs, NEW k \in r[1] + 1..r[2], k \in E
      PROVE  k = r[2] /\ NextOf(A, r[2]) = {r[2] + 1}
  <2>1. k \in Nat /\ r[1] \in Nat /\ r[2] \in Nat /\ r[1] < k /\ k <= r[2]
    BY <1>1, <1>2, <1>5
  <2>2. PICK p \in A, j \in A : /\ LongAt(A, table, t, p, j)
                                /\ NextOf(A, j) = {k + 1} /\ table[k + 1] # table[p]
    BY <1>5 DEF Ends, EndedBy
  <2>3. k + 1 \in A /\ j < k + 1 /\ \A m \in A : m > j => k + 1 <= m
    BY <1>1, <2>2, NextFacts
  <2>4. ~(k < r[2])
    <3>1. SUFFICES ASSUME k < r[2] PROVE FALSE
      OBVIOUS
    <3>2. ~(r[1] > j)
      BY <1>2, <2>1, <2>3
    <3>3. j \in Between(A, r[1], r[2]) /\ k + 1 \in Between(A, r[1], r[2])
      BY <1>1, <2>1, <2>3, <3>1, <3>2 DEF Between
    <3>4. table[j] = table[k + 1]
      BY <1>2, <3>3 DEF Same
    <3>5. p <= j /\ j \in Between(A, p, j)
      BY <1>1, <2>2 DEF LongAt, Between
    <3>6. table[j] = table[p]
      BY <2>2, <3>5 DEF LongAt, Same
    <3> QED
      BY <2>2, <3>4, <3>6
  <2>5. k = r[2]
    BY <2>1, <2>4
  <2>6. ASSUME NEW m \in A, m > r[2] PROVE m >= r[2] + 1
    BY <1>1, <2>1, <2>6
  <2>7. r[2] + 1 \in A /\ r[2] + 1 > r[2]
    BY <2>1, <2>3, <2>5
  <2>8. ASSUME NEW m \in NextOf(A, r[2]) PROVE m = r[2] + 1
    <3>1. m \in A /\ m > r[2] /\ r[2] + 1 >= m
      BY <2>7, <2>8 DEF NextOf
    <3>2. m \in Nat
      BY <1>1, <3>1
    <3> QED
      BY <2>1, <3>1, <3>2
  <2>9. r[2] + 1 \in NextOf(A, r[2])
    BY <2>6, <2>7 DEF NextOf
  <2> QED
    BY <2>5, <2>8, <2>9
<1>6. ASSUME NEW r \in runs, NEW n \in NextOf(A, r[2]), n > r[2] + 1
      PROVE  Cardinality((r[2] + 1..n - 1) \cap (B \cup E)) = 1
  <2>1. n \in A /\ n > r[2] /\ \A m \in A : m > r[2] => m >= n
    BY DEF NextOf
  <2>2. n \in Nat /\ r[2] \in Nat
    BY <1>1, <1>2, <2>1
  <2>3. NextOf(A, r[2]) = {n}
    <3>1. ASSUME NEW m \in NextOf(A, r[2]) PROVE m = n
      <4>1. m \in A /\ m > r[2] /\ n >= m
        BY <2>1, <3>1 DEF NextOf
      <4>2. m >= n /\ m \in Nat
        BY <1>1, <2>1, <4>1
      <4> QED
        BY <2>2, <4>1, <4>2
    <3> QED
      BY <3>1
  <2>4. n - 1 \in Nat /\ (n - 1) + 1 = n /\ n - 1 \in r[2] + 1..n - 1
    BY <1>6, <2>2
  <2>5. n - 1 \in E
    <3>1. /\ r[1] \in A /\ r[2] \in A /\ <<r[1], r[2]>> \in runs
          /\ NextOf(A, r[2]) = {(n - 1) + 1}
      BY <1>2, <2>3, <2>4
    <3>2. ASSUME NEW e \in Nat, NextOf(A, r[2]) = {e + 1} PROVE e \in E
      BY <3>1, <3>2, RunsEnd
    <3> QED
      BY <2>4, <3>1, <3>2
  <2>6. ASSUME NEW k \in r[2] + 1..n - 1, k \in B PROVE FALSE
    <3>1. k \in A /\ k > r[2] /\ k < n
      BY <1>1, <2>2, <2>6
    <3>2. k >= n /\ k \in Nat
      BY <1>1, <2>1, <3>1
    <3> QED
      BY <2>2, <3>1, <3>2
  <2>7. ASSUME NEW k \in r[2] + 1..n - 1, k \in E PROVE k = n - 1
    <3>1. k \in Nat /\ k + 1 \in A /\ k + 1 > r[2] /\ k <= n - 1
      BY <2>2, <2>7 DEF Ends
    <3>2. k + 1 >= n
      BY <2>1, <3>1
    <3> QED
      BY <2>2, <3>1, <3>2
  <2>8. (r[2] + 1..n - 1) \cap (B \cup E) = {n - 1}
    BY <2>4, <2>5, <2>6, <2>7
  <2> QED
    BY <2>8, FS_Singleton
<1>7. ASSUME NEW k \in B \cup E
      PROVE  \E r \in runs : k = r[1] \/ \E n \in NextOf(A, r[2]) : k \in r[2]..n - 1
  <2>1. CASE k \in B
    <3>1. PICK j \in A : <<k, j>> \in runs
      BY <1>1, <2>1, RunsBegin
    <3>2. <<k, j>>[1] = k
      OBVIOUS
    <3> QED
      BY <3>1, <3>2
  <2>2. CASE k \in E
    <3>1. PICK p \in A, j \in A : <<p, j>> \in runs /\ NextOf(A, j) = {k + 1}
      BY <1>1, <2>2, RunsEnd
    <3>2. <<p, j>>[2] = j /\ k + 1 \in NextOf(A, j) /\ j < k + 1 /\ j \in Nat /\ k \in Nat
      BY <1>1, <2>2, <3>1, NextFacts
    <3>3. k \in j..(k + 1) - 1
      BY <3>2
    <3> QED
      BY <3>1, <3>2, <3>3
  <2> QED
    BY <1>7, <2>1, <2>2
<1> HIDE DEF runs, B, E
<1>8. Spaced(A, runs, B \cup E)
  BY <1>3, <1>4, <1>5, <1>6, <1>7 DEF Spaced
<1> QED
  BY <1>8 DEF runs, B, E

-----------------------------------------------------------------------------
(* The loop of smart_format *)

\* The state of the loop; S is what the texts in the map are made of.
Maps(S) == UNION {[D -> Seq(S)] : D \in SUBSET Nat}
Settables(S) == [map : Maps(S), on : BOOLEAN, start : Nat, start_idx : Nat, data : Nat]

\* A text is put into the map once more, or for the first time.
Inserted(r, m, pos, text, S) ==
  /\ r \in Maps(S)
  /\ DOMAIN r = DOMAIN m \cup {pos}
  /\ \A q \in DOMAIN m : q # pos => r[q] = m[q]
  /\ pos \notin DOMAIN m => r[pos] = text

(* insert_map returns such a map.                                          *)
LEMMA InsertMapFacts ==
  ASSUME NEW S, NEW m, m \in Maps(S), NEW pos, pos \in Nat, NEW text, text \in Seq(S)
  PROVE  Inserted(insert_map(m, pos, text), m, pos, text, S)
<1>1. PICK D \in SUBSET Nat : m \in [D -> Seq(S)]
  BY DEF Maps
<1> DEFINE E == D \cup {pos}
           r == insert_map(m, pos, text)
<1>2. r = [q \in E |-> CASE q # pos -> m[q]
                         [] q = pos /\ key_exist(m, pos) -> m[pos] \o text
                         [] q = pos /\ ~key_exist(m, pos) -> text]
  BY <1>1 DEF insert_map
<1> HIDE DEF r
<1>3. ASSUME NEW q \in D, q # pos PROVE r[q] = m[q] /\ m[q] \in Seq(S)
  BY <1>1, <1>2, <1>3
<1>4. pos \in D => r[pos] = m[pos] \o text /\ m[pos] \o text \in Seq(S)
  BY <1>1, <1>2, ConcatProperties DEF key_exist
<1>5. pos \notin D => r[pos] = text
  BY <1>1, <1>2 DEF key_exist
<1>6. r \in [E -> Seq(S)]
  <2>1. \A q \in E : r[q] \in Seq(S)
    BY <1>3, <1>4, <1>5
  <2> QED
    BY <1>2, <2>1
<1>7. r \in Maps(S) /\ DOMAIN r = D \cup {pos}
  BY <1>6 DEF Maps
<1> QED
  BY <1>1, <1>3, <1>5, <1>7 DEF r, Inserted

\* What a line does to the state, when runs are not cut.
Ended_(s, i, index, id, newlines) ==
  [ map |-> IF s.on THEN insert_map(s.map, i - 1, newlines) ELSE s.map, on |-> FALSE,
    start |-> IF index THEN 1 ELSE 0, start_idx |-> IF index THEN i ELSE 0,
    data |-> IF index THEN id ELSE 0 ]
Extended(s, i, id, t, newlines) ==
  LET first == IF s.data = 0 THEN i ELSE s.start_idx
      long == s.start + 1 >= t
  IN [ map |-> IF long /\ ~s.on /\ first \notin DOMAIN s.map
               THEN insert_map(s.map, first, newlines) ELSE s.map,
       on |-> long \/ s.on, start |-> s.start + 1, start_idx |-> first,
       data |-> IF s.data = 0 THEN id ELSE s.data ]
\* The state stays one.
LEMMA SettableKept ==
  ASSUME NEW S, NEW s, s \in Settables(S), NEW i \in Nat, i > 0, NEW newlines \in Seq(S),
         NEW index \in BOOLEAN, NEW id \in Nat, NEW t \in Nat
  PROVE  /\ Ended_(s, i, index, id, newlines) \in Settables(S)
         /\ Extended(s, i, id, t, newlines) \in Settables(S)
<1>1. /\ s.map \in Maps(S) /\ s.on \in BOOLEAN /\ s.start \in Nat /\ s.start_idx \in Nat
      /\ s.data \in Nat /\ i - 1 \in Nat
  BY DEF Settables
<1>2. ASSUME NEW p, p \in Nat PROVE insert_map(s.map, p, newlines) \in Maps(S)
  <2>1. Inserted(insert_map(s.map, p, newlines), s.map, p, newlines, S)
    BY <1>1, <1>2, InsertMapFacts
  <2> QED
    BY <2>1 DEF Inserted
<1>3. Ended_(s, i, index, id, newlines) \in Settables(S)
  BY <1>1, <1>2 DEF Settables, Ended_
<1>4. Extended(s, i, id, t, newlines) \in Settables(S)
  <2> DEFINE q == IF s.data = 0 THEN i ELSE s.start_idx
             long == s.start + 1 >= t
             map == IF long /\ ~s.on /\ q \notin DOMAIN s.map
                    THEN insert_map(s.map, q, newlines) ELSE s.map
             data == IF s.data = 0 THEN id ELSE s.data
  <2>1. Extended(s, i, id, t, newlines)
          = [map |-> map, on |-> (long \/ s.on), start |-> s.start + 1, start_idx |-> q,
             data |-> data]
    BY DEF Extended
  <2>2. (long \/ s.on) \in BOOLEAN /\ s.start + 1 \in Nat /\ q \in Nat /\ data \in Nat
    BY <1>1
  <2>3. map \in Maps(S)
    BY <1>1, <1>2, <2>2
  <2> HIDE DEF map, long, q, data
  <2> QED
    BY <2>1, <2>2, <2>3 DEF Settables
<1> QED
  BY <1>3, <1>4

Joins(s, text, index, id) == index /\ (s.data = 0 \/ text[s.data] = text[id])

(* SmartLine without a maximum: the line joins the run, which may then be  *)
(* long, or ends it and may start another.                                 *)
LEMMA SmartLineIs ==
  ASSUME NEW S, NEW s \in Settables(S), NEW i, NEW line, NEW heap, NEW text, NEW y,
         NEW f, f.max_threshold = 0, f.min_threshold \in Nat, f.min_threshold > 1,
         NEW index, index = IsIndex(heap[line.lvalue[1]]),
         NEW id, id = heap[line.lvalue[1]].lvalue,
         NEW newlines, newlines = emit_linebreak(y, Linebreaks.group_newlines)
  PROVE  SmartLine(s, i, line, heap, text, y, f)
           = IF Joins(s, text, index, id)
             THEN Extended(s, i, id, f.min_threshold, newlines)
             ELSE Ended_(s, i, index, id, newlines)
<1>1. /\ s = [ map |-> s.map, on |-> s.on, start |-> s.start, start_idx |-> s.start_idx,
               data |-> s.data ]
      /\ s.start \in Nat /\ s.on \in BOOLEAN
  BY DEF Settables
<1> DEFINE joins == index /\ (s.data = nullptr \/ text[s.data] = text[id])
           first == [s EXCEPT !.start_idx = IF s.data = nullptr THEN i ELSE @,
                              !.data = IF s.data = nullptr THEN id ELSE @,
                              !.start = IF f.min_threshold = 0 THEN @ ELSE @ + 1]
           over == f.max_threshold # 0 /\ first.start > f.max_threshold
           reached == f.min_threshold = 0 \/ first.start >= f.min_threshold
           on == [first EXCEPT !.on = TRUE,
                    !.map = IF ~s.on /\ ~key_exist(s.map, first.start_idx)
                            THEN insert_map(s.map, first.start_idx, newlines) ELSE @]
           end(r) == [ on |-> FALSE, start |-> IF index THEN 1 ELSE 0,
                       start_idx |-> IF index THEN i ELSE 0,
                       data |-> IF index THEN id ELSE nullptr,
                       map |-> IF r.on THEN insert_map(r.map, i - 1, newlines) ELSE r.map ]
<1>2. SmartLine(s, i, line, heap, text, y, f)
        = CASE ~joins -> end(s)
            [] joins /\ reached /\ over -> end(first)
            [] joins /\ reached /\ ~over -> on
            [] joins /\ ~reached -> first
  BY DEF SmartLine
<1>3. first = [ map |-> s.map, on |-> s.on, start |-> s.start + 1,
                start_idx |-> IF s.data = 0 THEN i ELSE s.start_idx,
                data |-> IF s.data = 0 THEN id ELSE s.data ]
  <2>1. f.min_threshold # 0
    OBVIOUS
  <2>2. first = [s EXCEPT !.start_idx = IF s.data = 0 THEN i ELSE s.start_idx,
                          !.data = IF s.data = 0 THEN id ELSE s.data,
                          !.start = s.start + 1]
    BY <2>1 DEF nullptr
  <2> DEFINE a == IF s.data = 0 THEN i ELSE s.start_idx
             b == IF s.data = 0 THEN id ELSE s.data
  <2> HIDE DEF a, b, first
  <2>3. first = [s EXCEPT !.start_idx = a, !.data = b, !.start = s.start + 1]
    BY <2>2 DEF a, b
  <2>4. first = [ map |-> s.map, on |-> s.on, start |-> s.start + 1, start_idx |-> a,
                  data |-> b ]
    BY <1>1, <2>3
  <2> QED
    BY <2>4 DEF a, b
<1>4. ~over /\ (reached <=> s.start + 1 >= f.min_threshold)
  BY <1>3
<1>5. joins <=> Joins(s, text, index, id)
  BY DEF Joins, nullptr
<1>6. end(s) = Ended_(s, i, index, id, newlines)
  BY DEF Ended_, nullptr
<1>7. on = [first EXCEPT !.on = TRUE,
              !.map = IF ~s.on /\ first.start_idx \notin DOMAIN s.map
                      THEN insert_map(s.map, first.start_idx, newlines) ELSE @]
  BY DEF key_exist
<1> HIDE DEF first, joins, over, reached
<1>8. reached => on = Extended(s, i, id, f.min_threshold, newlines)
  <2> DEFINE a == IF s.data = 0 THEN i ELSE s.start_idx
             b == IF s.data = 0 THEN id ELSE s.data
             m == IF ~s.on /\ a \notin DOMAIN s.map THEN insert_map(s.map, a, newlines) ELSE s.map
  <2>1. reached => Extended(s, i, id, f.min_threshold, newlines)
          = [map |-> m, on |-> TRUE, start |-> s.start + 1, start_idx |-> a, data |-> b]
    BY <1>1, <1>4 DEF Extended
  <2>2. first = [map |-> s.map, on |-> s.on, start |-> s.start + 1, start_idx |-> a, data |-> b]
    BY <1>3
  <2>3. on = [first EXCEPT !.on = TRUE, !.map = m]
    BY <1>7, <2>2
  <2> HIDE DEF a, b, m, on
  <2> DEFINE c == s.start + 1
  <2> HIDE DEF c
  <2>4. on = [[map |-> s.map, on |-> s.on, start |-> c, start_idx |-> a, data |-> b]
                EXCEPT !.on = TRUE, !.map = m]
    BY <2>2, <2>3 DEF c
  <2>5. on = [map |-> m, on |-> TRUE, start |-> c, start_idx |-> a, data |-> b]
    BY <2>4
  <2> QED
    BY <2>1, <2>5 DEF c
<1>9. ~reached => first = Extended(s, i, id, f.min_threshold, newlines)
  BY <1>1, <1>3, <1>4 DEF Extended
<1> HIDE DEF on, end
<1> QED
  BY <1>2, <1>4, <1>5, <1>6, <1>8, <1>9

\* What the loop knows before line i: the run it is in, or that it is in none,
\* and that the map has the blank lines of the runs so far.
NoneBefore(A, table, i) ==
  \A h \in A : h < i /\ (\A k \in A : ~(h < k /\ k < i)) => table[h] = <<>>
InRun(A, table, text, t, i, s) ==
  /\ Within(A, table, s.start_idx, i)
  /\ text[s.data] = table[s.start_idx]
  /\ s.start = Count(A, s.start_idx, i - 1)
  /\ s.on <=> s.start >= t
InNone(A, table, i, s) == s.start = 0 /\ ~s.on /\ NoneBefore(A, table, i)
Mapped(A, table, t, i, map, newlines) ==
  /\ DOMAIN map = Begins(A, table, t, i) \cup Ends(A, table, t, i)
  /\ \A q \in DOMAIN map : map[q] = newlines
LoopInv(A, table, text, t, i, s, S, newlines) ==
  /\ s \in Settables(S)
  /\ s.data = 0 => InNone(A, table, i, s)
  /\ s.data # 0 => InRun(A, table, text, t, i, s)
  /\ Mapped(A, table, t, i - 1, s.map, newlines)

(* In no run before line i, that line is outside of any.                   *)
LEMMA InNoneOutside ==
  ASSUME NEW A \in SUBSET Nat, NEW table, NEW i \in A, NoneBefore(A, table, i)
  PROVE  Outside(A, table, i)
<1> SUFFICES ASSUME NEW h \in A, h < i, NextOf(A, h) = {i} PROVE table[h] = <<>>
  BY DEF Outside
<1>1. \A k \in A : k > h => i <= k
  BY NextFacts
<1>2. ASSUME NEW k \in A, h < k, k < i PROVE FALSE
  BY <1>1, <1>2
<1> QED
  BY <1>2 DEF NoneBefore

(* A line to a member of another table than the assignment before it       *)
(* starts a run.                                                           *)
LEMMA RunsAreNext ==
  ASSUME NEW A \in SUBSET Nat, NEW table, NEW i \in A, table[i] # <<>>,
         \A h \in A : h < i /\ NextOf(A, h) = {i} => table[h] # table[i]
  PROVE  Within(A, table, i, i + 1) /\ Count(A, i, i) = 1
<1>1. i \in Nat /\ (i + 1) - 1 = i /\ i < i + 1
  <2>1. i \in Nat
    OBVIOUS
  <2> QED
    BY <2>1
<1>2. \A h \in A : NextOf(A, h) = {i} => h < i
  BY NextFacts
<1>3. Starts(A, table, i)
  BY <1>2 DEF Starts
<1>4. ASSUME NEW k \in Between(A, i, i) PROVE k = i
  BY DEF Between
<1>5. Same(A, table, i, (i + 1) - 1)
  BY <1>1, <1>4 DEF Same
<1>6. Count(A, i, i) = 1
  <2>1. i <= i
    BY <1>1
  <2> QED
    BY <1>1, <2>1, CountFacts
<1>7. Within(A, table, i, i + 1)
  BY <1>1, <1>3, <1>5 DEF Within
<1> QED
  BY <1>6, <1>7

(* A line that assigns nothing leaves what the loop knows.                 *)
LEMMA LoopSkips ==
  ASSUME NEW A \in SUBSET Nat, NEW table, NEW text, NEW t \in Nat, t > 1, NEW i \in Nat, i > 0,
         NEW S, NEW s, NEW newlines, i \notin A,
         LoopInv(A, table, text, t, i, s, S, newlines)
  PROVE  LoopInv(A, table, text, t, i + 1, s, S, newlines)
<1>1. i - 1 \in Nat /\ (i + 1) - 1 = i /\ (i - 1) + 1 = i
  OBVIOUS
<1>2. s \in Settables(S)
  BY DEF LoopInv
<1>3. Mapped(A, table, t, i, s.map, newlines)
  BY SkippedLine DEF LoopInv, Mapped
<1>4. ASSUME NEW k \in A PROVE k < i + 1 <=> k < i
  <2>1. k # i /\ k \in Nat
    OBVIOUS
  <2> QED
    BY <2>1
<1>5. s.data = 0 => InNone(A, table, i + 1, s)
  BY <1>4 DEF LoopInv, InNone, NoneBefore
<1>6. ASSUME s.data # 0 PROVE InRun(A, table, text, t, i + 1, s)
  <2> DEFINE q == s.start_idx
  <2>1. InRun(A, table, text, t, i, s)
    BY <1>6 DEF LoopInv
  <2>2. q \in A /\ q < i /\ Starts(A, table, q) /\ Same(A, table, q, i - 1)
    BY <2>1 DEF InRun, Within
  <2>3. Between(A, q, i) = Between(A, q, i - 1)
    <3>1. ASSUME NEW k \in A PROVE k <= i <=> k <= i - 1
      <4>1. k # i /\ k \in Nat
        OBVIOUS
      <4> QED
        BY <4>1
    <3> QED
      BY <3>1 DEF Between
  <2>4. Same(A, table, q, i) /\ Count(A, q, i) = Count(A, q, i - 1)
    BY <2>2, <2>3 DEF Same, Count
  <2>5. q < i + 1
    <3> HIDE DEF q
    <3>1. q \in Nat /\ q < i
      BY <2>2
    <3> QED
      BY <3>1
  <2> QED
    BY <1>1, <2>1, <2>2, <2>4, <2>5 DEF InRun, Within
<1> QED
  BY <1>1, <1>2, <1>3, <1>5, <1>6 DEF LoopInv

(* So does one that does not join the run: it gets the blank line of a     *)
(* long run that it ends.                                                  *)
LEMMA LoopEnds ==
  ASSUME NEW A \in SUBSET Nat, NEW table, NEW text, NEW t \in Nat, t > 1, NEW i \in Nat, i > 0,
         NEW S, NEW s, NEW newlines \in Seq(S), i \in A,
         NEW index \in BOOLEAN, NEW id \in Nat,
         index => id # 0 /\ table[i] = text[id] /\ table[i] # <<>>,
         ~index => table[i] = <<>>,
         ~Joins(s, text, index, id),
         LoopInv(A, table, text, t, i, s, S, newlines)
  PROVE  LoopInv(A, table, text, t, i + 1, Ended_(s, i, index, id, newlines), S, newlines)
<1> DEFINE r == Ended_(s, i, index, id, newlines)
           map == IF s.on THEN insert_map(s.map, i - 1, newlines) ELSE s.map
<1>1. i - 1 \in Nat /\ (i + 1) - 1 = i /\ (i - 1) + 1 = i
  OBVIOUS
<1>2. s \in Settables(S) /\ s.map \in Maps(S) /\ s.on \in BOOLEAN
  BY DEF LoopInv, Settables
<1>3. /\ r.map = map /\ r.on = FALSE
      /\ r.start = IF index THEN 1 ELSE 0
      /\ r.start_idx = IF index THEN i ELSE 0
      /\ r.data = IF index THEN id ELSE 0
  BY DEF Ended_
<1>5. r \in Settables(S)
  BY <1>2, SettableKept
<1> DEFINE before == Begins(A, table, t, i - 1) \cup Ends(A, table, t, i - 1)
<1>6. DOMAIN s.map = before /\ \A q \in DOMAIN s.map : s.map[q] = newlines
  BY DEF LoopInv, Mapped
<1>7. i - 1 \notin before
  <2>1. ASSUME i - 1 \in Begins(A, table, t, i - 1) PROVE FALSE
    <3>1. PICK j \in (i - 1)..(i - 1) : LongAt(A, table, t, i - 1, j)
      BY <2>1 DEF Begins
    <3>2. j = i - 1 /\ j \in Nat
      BY <1>1
    <3> QED
      BY <1>1, <3>1, <3>2, LongIsLonger
  <2>2. i - 1 \notin Ends(A, table, t, i - 1)
    BY <1>1 DEF Ends
  <2> QED
    BY <2>1, <2>2
<1> HIDE DEF r, map
<1>8. \/ /\ s.data = 0 /\ ~s.on /\ Outside(A, table, i)
      \/ /\ s.data # 0 /\ InRun(A, table, text, t, i, s)
         /\ table[i] # table[s.start_idx] /\ table[s.start_idx] # <<>>
  <2>1. CASE s.data = 0
    BY <2>1, InNoneOutside DEF LoopInv, InNone
  <2>2. CASE s.data # 0
    <3>1. InRun(A, table, text, t, i, s)
      BY <2>2 DEF LoopInv
    <3>2. table[s.start_idx] # <<>>
      BY <3>1 DEF InRun, Within, Starts
    <3>3. table[i] # table[s.start_idx]
      BY <2>2, <3>1, <3>2 DEF Joins, InRun
    <3> QED
      BY <2>2, <3>1, <3>2, <3>3
  <2> QED
    BY <2>1, <2>2
<1>9. /\ Begins(A, table, t, i) = Begins(A, table, t, i - 1)
      /\ Ends(A, table, t, i) = Ends(A, table, t, i - 1) \cup (IF s.on THEN {i - 1} ELSE {})
      /\ \A h \in A : h < i /\ NextOf(A, h) = {i} => table[h] = <<>> \/ table[h] # table[i]
  <2>1. CASE Outside(A, table, i) /\ ~s.on
    <3>1. /\ Begins(A, table, t, i) = Begins(A, table, t, i - 1)
          /\ Ends(A, table, t, i) = Ends(A, table, t, i - 1)
      BY <2>1, OutsideLine
    <3>2. \A h \in A : h < i /\ NextOf(A, h) = {i} => table[h] = <<>>
      BY <2>1 DEF Outside
    <3> QED
      BY <2>1, <3>1, <3>2
  <2>2. CASE /\ InRun(A, table, text, t, i, s)
             /\ table[i] # table[s.start_idx] /\ table[s.start_idx] # <<>>
    <3> DEFINE q == s.start_idx
    <3>1. Within(A, table, q, i) /\ (s.on <=> Count(A, q, i - 1) >= t)
      BY <2>2 DEF InRun
    <3> HIDE DEF q
    <3>2. table[i] # table[q]
      BY <2>2 DEF q
    <3>3. /\ Begins(A, table, t, i) = Begins(A, table, t, i - 1)
          /\ Ends(A, table, t, i)
               = Ends(A, table, t, i - 1) \cup (IF Count(A, q, i - 1) >= t THEN {i - 1} ELSE {})
          /\ \A h \in A : h < i /\ NextOf(A, h) = {i} => table[h] = table[q]
      BY <3>1, <3>2, EndingLine
    <3> QED
      BY <3>1, <3>2, <3>3
  <2> QED
    BY <1>8, <2>1, <2>2
<1>10. Mapped(A, table, t, i, map, newlines)
  <2>1. CASE s.on
    <3>1. /\ DOMAIN map = DOMAIN s.map \cup {i - 1}
          /\ \A q \in DOMAIN s.map : q # i - 1 => map[q] = s.map[q]
          /\ map[i - 1] = newlines
      <4>1. map = insert_map(s.map, i - 1, newlines)
        BY <2>1 DEF map
      <4>2. i - 1 \notin DOMAIN s.map
        BY <1>6, <1>7
      <4>3. Inserted(insert_map(s.map, i - 1, newlines), s.map, i - 1, newlines, S)
        BY <1>1, <1>2, InsertMapFacts
      <4> QED
        BY <4>1, <4>2, <4>3 DEF Inserted
    <3> QED
      BY <1>6, <1>7, <1>9, <2>1, <3>1 DEF Mapped
  <2>2. CASE ~s.on
    BY <1>6, <1>9, <2>2 DEF Mapped, map
  <2> QED
    BY <2>1, <2>2
<1>11. r.data = 0 => InNone(A, table, i + 1, r)
  <2> SUFFICES ASSUME ~index PROVE NoneBefore(A, table, i + 1)
    BY <1>3 DEF InNone
  <2> SUFFICES ASSUME NEW h \in A, h < i + 1, \A k \in A : ~(h < k /\ k < i + 1)
               PROVE  table[h] = <<>>
    BY DEF NoneBefore
  <2>1. ~(h < i /\ i < i + 1) /\ h \in Nat
    OBVIOUS
  <2>2. h = i
    BY <2>1
  <2> QED
    BY <2>2
<1>12. r.data # 0 => InRun(A, table, text, t, i + 1, r)
  <2> SUFFICES ASSUME index PROVE InRun(A, table, text, t, i + 1, r)
    BY <1>3
  <2>1. Within(A, table, i, i + 1) /\ Count(A, i, i) = 1
    <3>1. \A h \in A : h < i /\ NextOf(A, h) = {i} => table[h] # table[i]
      BY <1>9
    <3> QED
      BY <3>1, RunsAreNext
  <2>2. r.start_idx = i /\ r.start = 1 /\ r.data = id /\ ~r.on /\ ~(1 >= t)
    BY <1>3
  <2>3. text[r.data] = table[i] /\ r.start = Count(A, i, (i + 1) - 1)
    BY <1>1, <2>1, <2>2
  <2> QED
    BY <2>1, <2>2, <2>3 DEF InRun
<1>13. r.map = map
  BY <1>3
<1>14. LoopInv(A, table, text, t, i + 1, r, S, newlines)
  BY <1>1, <1>5, <1>10, <1>11, <1>12, <1>13 DEF LoopInv
<1> QED
  BY <1>14 DEF r

(* And one that joins it: with the line that makes it long, the run gets   *)
(* the blank line it begins with.                                          *)
LEMMA LoopJoins ==
  ASSUME NEW A \in SUBSET Nat, NEW table, NEW text, NEW t \in Nat, t > 1, NEW i \in Nat, i > 0,
         NEW S, NEW s, NEW newlines \in Seq(S), i \in A,
         NEW index \in BOOLEAN, NEW id \in Nat,
         index => id # 0 /\ table[i] = text[id] /\ table[i] # <<>>,
         Joins(s, text, index, id),
         LoopInv(A, table, text, t, i, s, S, newlines)
  PROVE  LoopInv(A, table, text, t, i + 1, Extended(s, i, id, t, newlines), S, newlines)
<1> DEFINE r == Extended(s, i, id, t, newlines)
           q == IF s.data = 0 THEN i ELSE s.start_idx
           long == s.start + 1 >= t
           map == IF long /\ ~s.on /\ q \notin DOMAIN s.map
                  THEN insert_map(s.map, q, newlines) ELSE s.map
           data == IF s.data = 0 THEN id ELSE s.data
<1>1. i - 1 \in Nat /\ (i + 1) - 1 = i /\ (i - 1) + 1 = i
  OBVIOUS
<1>2. /\ s \in Settables(S) /\ s.map \in Maps(S) /\ s.on \in BOOLEAN /\ s.start \in Nat
      /\ s.data \in Nat /\ s.start_idx \in Nat
  BY DEF LoopInv, Settables
<1>3. /\ r.map = map /\ r.on = (long \/ s.on) /\ r.start = s.start + 1
      /\ r.start_idx = q /\ r.data = data
  BY DEF Extended
<1>5. r \in Settables(S)
  BY <1>2, SettableKept
<1>6. index /\ id # 0 /\ table[i] = text[id] /\ table[i] # <<>>
  BY DEF Joins
<1>7. data # 0 /\ text[data] = table[i]
  BY <1>6 DEF Joins
<1> DEFINE before == Begins(A, table, t, i - 1) \cup Ends(A, table, t, i - 1)
<1>8. DOMAIN s.map = before /\ \A p \in DOMAIN s.map : s.map[p] = newlines
  BY DEF LoopInv, Mapped
<1>9. /\ Within(A, table, q, i + 1) /\ text[data] = table[q]
      /\ s.start + 1 = Count(A, q, i)
      /\ Begins(A, table, t, i) = Begins(A, table, t, i - 1) \cup (IF long THEN {q} ELSE {})
      /\ Ends(A, table, t, i) = Ends(A, table, t, i - 1)
      /\ s.on => long /\ q \in Begins(A, table, t, i - 1)
  <2>1. CASE s.data = 0
    <3>1. InNone(A, table, i, s)
      BY <2>1 DEF LoopInv
    <3>2. Outside(A, table, i) /\ s.start = 0 /\ ~s.on
      BY <3>1, InNoneOutside DEF InNone
    <3>3. Within(A, table, i, i + 1) /\ Count(A, i, i) = 1
      <4>1. \A h \in A : h < i /\ NextOf(A, h) = {i} => table[h] # table[i]
        BY <1>6, <3>2 DEF Outside
      <4> QED
        BY <1>6, <4>1, RunsAreNext
    <3>4. ~long
      BY <3>2
    <3>5. q = i
      BY <2>1
    <3>6. /\ Begins(A, table, t, i) = Begins(A, table, t, i - 1)
          /\ Ends(A, table, t, i) = Ends(A, table, t, i - 1)
      BY <3>2, OutsideLine
    <3> HIDE DEF long, q
    <3> QED
      BY <1>7, <3>2, <3>3, <3>4, <3>5, <3>6
  <2>2. CASE s.data # 0
    <3>1. q = s.start_idx /\ data = s.data
      BY <2>2
    <3>2. InRun(A, table, text, t, i, s)
      BY <2>2 DEF LoopInv
    <3>3. /\ Within(A, table, q, i) /\ text[data] = table[q]
          /\ s.start = Count(A, q, i - 1) /\ (s.on <=> s.start >= t)
      BY <3>1, <3>2 DEF InRun
    <3>4. table[i] = table[q]
      BY <1>7, <3>3
    <3> HIDE DEF q, data
    <3>5. /\ Count(A, q, i) = Count(A, q, i - 1) + 1
          /\ Same(A, table, q, i)
          /\ Begins(A, table, t, i)
               = Begins(A, table, t, i - 1) \cup (IF Count(A, q, i) >= t THEN {q} ELSE {})
          /\ Ends(A, table, t, i) = Ends(A, table, t, i - 1)
      <4>1. Within(A, table, q, i)
        BY <3>3
      <4> QED
        BY <3>4, <4>1, InnerLine, SMTT(30)
    <3>6. q \in A /\ q \in Nat /\ q < i /\ q < i + 1 /\ q <= i - 1 /\ Starts(A, table, q)
      <4>1. q \in A /\ q < i /\ Starts(A, table, q)
        BY <3>3 DEF Within
      <4> QED
        BY <4>1
    <3>7. Within(A, table, q, i + 1)
      BY <1>1, <3>5, <3>6 DEF Within
    <3>8. s.on => long
      BY <1>2, <3>3
    <3>9. s.on => q \in Begins(A, table, t, i - 1)
      <4>1. s.on => LongAt(A, table, t, q, i - 1)
        BY <3>3, <3>6 DEF LongAt, Within
      <4>2. i - 1 \in q..(i - 1)
        BY <1>1, <3>6
      <4> QED
        BY <3>6, <4>1, <4>2 DEF Begins
    <3>10. long <=> Count(A, q, i) >= t
      BY <3>3, <3>5
    <3> HIDE DEF long
    <3> QED
      BY <3>3, <3>5, <3>7, <3>8, <3>9, <3>10
  <2> QED
    BY <2>1, <2>2
<1> HIDE DEF r
<1>10. Mapped(A, table, t, i, map, newlines)
  <2>1. CASE long /\ ~s.on /\ q \notin DOMAIN s.map
    <3>1. Inserted(insert_map(s.map, q, newlines), s.map, q, newlines, S)
      <4>1. q \in Nat
        BY <1>2
      <4> HIDE DEF q
      <4> QED
        BY <1>2, <4>1, InsertMapFacts
    <3>2. map = insert_map(s.map, q, newlines)
      BY <2>1
    <3> HIDE DEF map, q, long
    <3>3. /\ DOMAIN map = DOMAIN s.map \cup {q}
          /\ \A p \in DOMAIN s.map : p # q => map[p] = s.map[p]
          /\ map[q] = newlines
      BY <2>1, <3>1, <3>2 DEF Inserted
    <3> QED
      BY <1>8, <1>9, <2>1, <3>3 DEF Mapped
  <2>2. CASE ~(long /\ ~s.on /\ q \notin DOMAIN s.map)
    <3>1. map = s.map
      BY <2>2
    <3> HIDE DEF map, q, long
    <3>2. DOMAIN s.map = Begins(A, table, t, i) \cup Ends(A, table, t, i)
      BY <1>8, <1>9, <2>2
    <3> QED
      BY <1>8, <3>1, <3>2 DEF Mapped
  <2> QED
    BY <2>1, <2>2
<1>11. InRun(A, table, text, t, i + 1, r)
  <2>1. r.on <=> r.start >= t
    BY <1>2, <1>3, <1>9
  <2> HIDE DEF q, data, long
  <2> QED
    BY <1>1, <1>3, <1>9, <2>1 DEF InRun
<1>12. LoopInv(A, table, text, t, i + 1, r, S, newlines)
  BY <1>1, <1>3, <1>5, <1>7, <1>10, <1>11 DEF LoopInv
<1> QED
  BY <1>12 DEF r

\* What smart_format is given: lines that are statements where they assign
\* something, and texts of the tables they assign to members of.
Given(lines, heap, text, A, table) ==
  /\ Len(lines) \in Nat
  /\ A = {i \in 1..Len(lines) : lines[i].lvalue # <<>>}
  /\ \A i \in A : /\ lines[i].line_type = "statement"
                  /\ LET lvalue == heap[lines[i].lvalue[1]]
                     IN /\ lvalue.lvalue \in Nat
                        /\ IsIndex(lvalue) \in BOOLEAN
                        /\ IsIndex(lvalue) => /\ lvalue.lvalue # 0
                                              /\ table[i] = text[lvalue.lvalue]
                                              /\ table[i] # <<>>
                        /\ ~IsIndex(lvalue) => table[i] = <<>>

(* Each line of the loop keeps what the loop knows.                        *)
LEMMA LoopStep ==
  ASSUME NEW lines, NEW heap, NEW text, NEW A, NEW table, Given(lines, heap, text, A, table),
         NEW y, NEW f, f.max_threshold = 0, f.min_threshold \in Nat, f.min_threshold > 1,
         NEW S, NEW newlines \in Seq(S),
         newlines = emit_linebreak(y, Linebreaks.group_newlines),
         NEW i \in 1..Len(lines), i \in A, NEW s, s \in Settables(S)
  PROVE  LET r == SmartLine(s, i, lines[i], heap, text, y, f)
         IN /\ r \in Settables(S)
            /\ LoopInv(A, table, text, f.min_threshold, i, s, S, newlines)
                 => LoopInv(A, table, text, f.min_threshold, i + 1, r, S, newlines)
<1> DEFINE lvalue == heap[lines[i].lvalue[1]]
           index == IsIndex(lvalue)
           id == lvalue.lvalue
           r == SmartLine(s, i, lines[i], heap, text, y, f)
           t == f.min_threshold
<1>1. /\ index \in BOOLEAN /\ id \in Nat
      /\ index => id # 0 /\ table[i] = text[id] /\ table[i] # <<>>
      /\ ~index => table[i] = <<>>
  BY DEF Given
<1>2. A \in SUBSET Nat /\ i \in Nat /\ i > 0
  BY DEF Given
<1>3. r = IF Joins(s, text, index, id) THEN Extended(s, i, id, t, newlines)
          ELSE Ended_(s, i, index, id, newlines)
  BY SmartLineIs
<1> HIDE DEF r, index, id, lvalue
<1>4. r \in Settables(S)
  BY <1>1, <1>2, <1>3, SettableKept
<1>5. ASSUME LoopInv(A, table, text, t, i, s, S, newlines)
      PROVE  LoopInv(A, table, text, t, i + 1, r, S, newlines)
  <2>1. CASE Joins(s, text, index, id)
    <3>1. LoopInv(A, table, text, t, i + 1, Extended(s, i, id, t, newlines), S, newlines)
      BY <1>1, <1>2, <1>5, <2>1, LoopJoins
    <3> QED
      BY <1>3, <2>1, <3>1
  <2>2. CASE ~Joins(s, text, index, id)
    <3>1. LoopInv(A, table, text, t, i + 1, Ended_(s, i, index, id, newlines), S, newlines)
      BY <1>1, <1>2, <1>5, <2>2, LoopEnds
    <3> QED
      BY <1>3, <2>2, <3>1
  <2> QED
    BY <2>1, <2>2
<1> QED
  BY <1>4, <1>5 DEF r

(* The loop starts in no run, with an empty map.                           *)
LEMMA LoopStarts ==
  ASSUME NEW S, NEW A \in SUBSET (Nat \ {0}), NEW table, NEW text, NEW t \in Nat, t > 1,
         NEW newlines
  PROVE  LoopInv(A, table, text, t, 1, SettableInit(<<>>), S, newlines)
<1> DEFINE s == SettableInit(<<>>)
<1>1. /\ s.map = <<>> /\ s.on = FALSE /\ s.start = 0 /\ s.start_idx = 0 /\ s.data = 0
      /\ s = [map |-> <<>>, on |-> FALSE, start |-> 0, start_idx |-> 0, data |-> 0]
  BY DEF SettableInit, nullptr
<1>2. <<>> \in [{} -> Seq(S)] /\ DOMAIN <<>> = {}
  OBVIOUS
<1>3. <<>> \in Maps(S)
  BY <1>2 DEF Maps
<1>4. s \in Settables(S)
  <2> DEFINE e == <<>>
  <2>1. s = [map |-> e, on |-> FALSE, start |-> 0, start_idx |-> 0, data |-> 0] /\ e \in Maps(S)
    BY <1>1, <1>3
  <2> HIDE DEF e, s
  <2> QED
    BY <2>1 DEF Settables
<1>5. \A h \in A : h \in Nat /\ ~(h < 1) /\ ~(h <= 0)
  OBVIOUS
<1>6. Begins(A, table, t, 0) = {} /\ Ends(A, table, t, 0) = {}
  <2>1. \A p \in A : p..0 = {}
    BY <1>5
  <2>2. \A e \in Nat : ~(e + 1 <= 0)
    OBVIOUS
  <2> QED
    BY <2>1, <2>2 DEF Begins, Ends
<1> HIDE DEF s
<1>7. InNone(A, table, 1, s)
  BY <1>1, <1>5 DEF InNone, NoneBefore
<1>8. Mapped(A, table, t, 1 - 1, s.map, newlines)
  BY <1>1, <1>2, <1>6 DEF Mapped
<1> QED
  BY <1>1, <1>4, <1>7, <1>8 DEF LoopInv, s

(* What smart_format returns, for every list of lines.                     *)
LEMMA SmartFormatIs ==
  ASSUME NEW lines, NEW heap, NEW A, NEW table, NEW y, NEW f,
         Given(lines, heap, Built(heap, y, f), A, table),
         ~f.smart_disabled,
         f.max_threshold = 0, f.min_threshold \in Nat, f.min_threshold > 1,
         NEW S, NEW newlines \in Seq(S),
         newlines = emit_linebreak(y, Linebreaks.group_newlines)
  PROVE  Mapped(A, table, f.min_threshold, Len(lines),
                smart_format(y, lines, <<>>, heap, f), newlines)
<1> DEFINE n == Len(lines)
           text == Built(heap, y, f)
           t == f.min_threshold
           V == Settables(S)
           c == SettableInit(<<>>)
           skips(i) == lines[i].line_type # "statement" \/ lines[i].lvalue = <<>>
           move(i, s) == IF skips(i) THEN s ELSE SmartLine(s, i, lines[i], heap, text, y, f)
           Solves(g) == g = [i \in 0..n |-> IF i = 0 THEN c ELSE move(i, g[i - 1])]
           upto == CHOOSE g : Solves(g)
           step == [i \in 1..n |-> [v \in V |-> move(i, v)]]
<1>1. smart_format(y, lines, <<>>, heap, f) = upto[n].map
  BY DEF smart_format
<1>2. n \in Nat /\ A \in SUBSET (Nat \ {0}) /\ \A i \in 1..n : skips(i) <=> i \notin A
  BY DEF Given
<1> HIDE DEF n, text, upto, skips
<1>3. LoopInv(A, table, text, t, 1, c, S, newlines)
  BY <1>2, LoopStarts
<1>4. c \in V
  BY <1>3 DEF LoopInv
<1>5. ASSUME NEW i \in 1..n, NEW s, s \in V
      PROVE  /\ move(i, s) \in V
             /\ LoopInv(A, table, text, t, i, s, S, newlines)
                  => LoopInv(A, table, text, t, i + 1, move(i, s), S, newlines)
  <2>1. CASE i \in A
    <3>1. move(i, s) = SmartLine(s, i, lines[i], heap, text, y, f)
      BY <1>2, <2>1
    <3> HIDE DEF move
    <3> QED
      BY <1>5, <2>1, <3>1, LoopStep DEF n, text
  <2>2. CASE i \notin A
    <3>1. move(i, s) = s
      BY <1>2, <2>2
    <3> HIDE DEF move
    <3>2. i \in Nat /\ i > 0 /\ A \in SUBSET Nat
      BY <1>2
    <3> QED
      BY <1>5, <2>2, <3>1, <3>2, LoopSkips
  <2> QED
    BY <2>1, <2>2
<1> HIDE DEF move, V, c
<1>6. Solves(upto)
  <2>1. IsStep(step, n, V)
    BY <1>5 DEF IsStep
  <2>2. \A i \in 1..n : \A v \in V : step[i][v] = move(i, v)
    OBVIOUS
  <2> HIDE DEF step, Solves
  <2>3. PICK g : Follows(g, c, n, step, V)
    BY <1>2, <1>4, <2>1, RecursionFollows
  <2>4. g \in [0..n -> V] /\ g[0] = c /\ \A i \in 1..n : g[i] = step[i][g[i - 1]]
    BY <2>3 DEF Follows
  <2>5. \A i \in 1..n : g[i] = move(i, g[i - 1])
    <3> SUFFICES ASSUME NEW i \in 1..n PROVE g[i] = move(i, g[i - 1])
      OBVIOUS
    <3>1. g[i - 1] \in V
      BY <1>2, <2>4
    <3> QED
      BY <2>2, <2>4, <3>1
  <2>6. Solves(g)
    <3>1. \A i \in 0..n : g[i] = IF i = 0 THEN c ELSE move(i, g[i - 1])
      BY <1>2, <2>4, <2>5
    <3> QED
      BY <2>4, <3>1 DEF Solves
  <2> QED
    BY <2>6 DEF upto
<1>7. upto[0] = c /\ \A i \in 1..n : upto[i] = move(i, upto[i - 1])
  BY <1>2, <1>6
<1> DEFINE P == {i \in Nat : i <= n => LoopInv(A, table, text, t, i + 1, upto[i], S, newlines)}
<1>8. 0 \in P
  BY <1>3, <1>7
<1>9. ASSUME NEW i \in Nat, i \in P PROVE i + 1 \in P
  <2> SUFFICES ASSUME i + 1 <= n
               PROVE  LoopInv(A, table, text, t, (i + 1) + 1, upto[i + 1], S, newlines)
    OBVIOUS
  <2>1. i + 1 \in 1..n /\ (i + 1) - 1 = i /\ i <= n
    BY <1>2
  <2>2. LoopInv(A, table, text, t, i + 1, upto[i], S, newlines)
    BY <1>9, <2>1
  <2>3. upto[i] \in V
    BY <2>2 DEF LoopInv, V
  <2>4. upto[i + 1] = move(i + 1, upto[i])
    BY <1>7, <2>1
  <2> QED
    BY <1>5, <2>1, <2>2, <2>3, <2>4
<1> HIDE DEF P
<1>10. n \in P
  BY <1>2, <1>8, <1>9, Induction
<1>11. LoopInv(A, table, text, t, n + 1, upto[n], S, newlines)
  BY <1>2, <1>10 DEF P
<1>12. Mapped(A, table, t, n, upto[n].map, newlines)
  <2>1. (n + 1) - 1 = n
    BY <1>2
  <2> QED
    BY <1>11, <2>1 DEF LoopInv
<1> QED
  BY <1>1, <1>12 DEF n

-----------------------------------------------------------------------------
(* What the lines and the expressions are *)

\* The text of expression n, made of the texts of the older ones.
TextAt(heap, n, text, y, f) ==
  build_unary(heap[n], y, f)
    \o (IF heap[n].constant = "nothing" THEN build_data(heap[n], text, y, f)
        ELSE build_constant(heap[n], text, y, f))

(* Each text that build returns is made so.                                *)
LEMMA BuiltIs ==
  ASSUME NEW heap, Len(heap) \in Nat, NEW y, NEW f
  PROVE  \A j \in 1..Len(heap) :
           \E text : Built(heap, y, f)[j] = TextAt(heap, j, text, y, f)
<1> DEFINE len == Len(heap)
           F(n, text) == TextAt(heap, n, text, y, f)
           Solves(g) == g = [n \in 0..len |-> IF n = 0 THEN <<>>
                                              ELSE Append(g[n - 1], F(n, g[n - 1]))]
           upto == CHOOSE g : Solves(g)
           Follow(g, m) == /\ DOMAIN g = 0..m /\ g[0] = <<>>
                           /\ \A n \in 1..m : g[n] = Append(g[n - 1], F(n, g[n - 1]))
<1>1. Built(heap, y, f) = upto[len]
  BY DEF Built, TextAt
<1>2. len \in Nat
  OBVIOUS
<1> HIDE DEF len, F
<1>3. \E g : Follow(g, len)
  <2> DEFINE P == {m \in Nat : \E g : Follow(g, m)}
  <2>1. 0 \in P
    <3> DEFINE g == [n \in 0..0 |-> <<>>]
    <3>1. Follow(g, 0)
      OBVIOUS
    <3> QED
      BY <3>1
  <2>2. ASSUME NEW m \in Nat, m \in P PROVE m + 1 \in P
    <3>1. PICK g : Follow(g, m)
      BY <2>2
    <3> DEFINE last == Append(g[m], F(m + 1, g[m]))
               h == [n \in 0..(m + 1) |-> IF n <= m THEN g[n] ELSE last]
    <3>2. \A n \in 0..m : h[n] = g[n]
      OBVIOUS
    <3>3. h[m + 1] = last
      OBVIOUS
    <3>4. DOMAIN h = 0..(m + 1) /\ h[0] = <<>>
      BY <3>1
    <3> HIDE DEF h
    <3>5. ASSUME NEW n \in 1..(m + 1) PROVE h[n] = Append(h[n - 1], F(n, h[n - 1]))
      <4>1. CASE n = m + 1
        <5>1. n - 1 = m /\ h[n - 1] = g[m]
          BY <3>2, <4>1
        <5> QED
          BY <3>3, <4>1, <5>1
      <4>2. CASE n # m + 1
        <5>1. n \in 1..m /\ h[n] = g[n] /\ h[n - 1] = g[n - 1]
          BY <3>2, <4>2
        <5> QED
          BY <3>1, <5>1
      <4> QED
        BY <4>1, <4>2
    <3>6. Follow(h, m + 1)
      BY <3>4, <3>5
    <3> HIDE DEF Follow
    <3>7. \E g1 : Follow(g1, m + 1)
      BY <3>6
    <3> QED
      BY <3>7
  <2> HIDE DEF P
  <2>3. len \in P
    BY <1>2, <2>1, <2>2, Induction
  <2> QED
    BY <2>3 DEF P
<1>4. Solves(upto)
  <2>1. PICK g : Follow(g, len)
    BY <1>3
  <2>2. \A n \in 0..len : n = 0 \/ n \in 1..len
    BY <1>2
  <2> DEFINE h == [n \in 0..len |-> g[n]]
  <2>3. \A n \in 1..len : h[n] = Append(h[n - 1], F(n, h[n - 1]))
    <3>1. \A n \in 1..len : n - 1 \in 0..len /\ n \in 0..len
      BY <1>2
    <3> QED
      BY <2>1, <3>1
  <2>4. h[0] = <<>>
    BY <1>2, <2>1
  <2>5. Solves(h)
    <3>1. \A n \in 0..len : h[n] = IF n = 0 THEN <<>> ELSE Append(h[n - 1], F(n, h[n - 1]))
      BY <2>2, <2>3, <2>4
    <3>2. h = [n \in 0..len |-> h[n]]
      OBVIOUS
    <3> HIDE DEF h
    <3> QED
      BY <3>1, <3>2
  <2> HIDE DEF h, Solves
  <2> QED
    BY <2>5 DEF upto
<1>5. upto[0] = <<>> /\ \A n \in 1..len : upto[n] = Append(upto[n - 1], F(n, upto[n - 1]))
  <2> HIDE DEF upto
  <2>1. 0 \in 0..len /\ \A n \in 1..len : n \in 0..len /\ n # 0
    BY <1>2
  <2>2. \A n \in 0..len : upto[n] = IF n = 0 THEN <<>> ELSE Append(upto[n - 1], F(n, upto[n - 1]))
    BY <1>4
  <2> QED
    BY <2>1, <2>2
<1> HIDE DEF upto
<1> DEFINE x(j) == F(j, upto[j - 1])
           S == {x(j) : j \in 1..len}
           Q == {m \in Nat : m <= len => /\ upto[m] \in Seq(S) /\ Len(upto[m]) = m
                                          /\ \A j \in 1..m : upto[m][j] = x(j)}
<1>6. 0 \in Q
  <2> HIDE DEF x, S
  <2>1. upto[0] \in Seq(S) /\ Len(upto[0]) = 0
    BY <1>5
  <2> QED
    BY <2>1
<1>7. ASSUME NEW m \in Nat, m \in Q PROVE m + 1 \in Q
  <2> SUFFICES ASSUME m + 1 <= len
               PROVE  /\ upto[m + 1] \in Seq(S) /\ Len(upto[m + 1]) = m + 1
                      /\ \A j \in 1..(m + 1) : upto[m + 1][j] = x(j)
    OBVIOUS
  <2>1. /\ upto[m] \in Seq(S) /\ Len(upto[m]) = m
        /\ \A j \in 1..m : upto[m][j] = x(j)
    BY <1>2, <1>7
  <2>2. m + 1 \in 1..len /\ (m + 1) - 1 = m
    BY <1>2
  <2>3. upto[m + 1] = Append(upto[m], x(m + 1)) /\ x(m + 1) \in S
    BY <1>5, <2>2
  <2> HIDE DEF x, S
  <2>4. /\ upto[m + 1] \in Seq(S) /\ Len(upto[m + 1]) = m + 1
        /\ upto[m + 1][m + 1] = x(m + 1)
        /\ \A j \in 1..m : upto[m + 1][j] = upto[m][j]
    BY <2>1, <2>3, AppendProperties
  <2>5. ASSUME NEW j \in 1..(m + 1) PROVE upto[m + 1][j] = x(j)
    <3>1. j = m + 1 \/ j \in 1..m
      OBVIOUS
    <3> QED
      BY <2>1, <2>4, <3>1
  <2> QED
    BY <2>4, <2>5
<1> HIDE DEF Q
<1>8. len \in Q
  BY <1>2, <1>6, <1>7, Induction
<1>9. \A j \in 1..len : upto[len][j] = x(j)
  BY <1>2, <1>8 DEF Q
<1> QED
  BY <1>1, <1>9 DEF len, F

(* The expressions a line assigns to.                                      *)
LEMMA HeapFacts ==
  /\ Len(Heap) = 15
  /\ Heap[1] = emitter_datatype_var(Fresh, <<"a">>)
  /\ Heap[2] = emitter_datatype_var(Fresh, <<"t">>)
  /\ ~IsIndex(Heap[1]) /\ Heap[1].lvalue = 0
  /\ IsIndex(Heap[3]) /\ Heap[3].lvalue = 2
  /\ IsIndex(Heap[4]) /\ Heap[4].lvalue = 1
<1>1. Len(Heap) = 15
  BY DEF Heap
<1>2. /\ Heap[1] = emitter_datatype_var(Fresh, <<"a">>)
      /\ Heap[2] = emitter_datatype_var(Fresh, <<"t">>)
      /\ Heap[3] = emitter_expr_table_idx(Fresh, 2, 1)
      /\ Heap[4] = emitter_expr_table_idx_generic(Fresh, 1, 2)
  BY DEF Heap
<1>3. Heap[1].kind = "var" /\ Heap[1].lvalue = 0
  BY <1>2 DEF emitter_datatype_var, Fresh, nullptr
<1>4. Heap[3].kind = "idx" /\ Heap[3].lvalue = 2
  BY <1>2 DEF emitter_expr_table_idx, Fresh
<1>5. Heap[4].kind = "idx_generic" /\ Heap[4].lvalue = 1
  BY <1>2 DEF emitter_expr_table_idx_generic, Fresh
<1> QED
  BY <1>1, <1>2, <1>3, <1>4, <1>5 DEF IsIndex

(* A variable is its name.                                                 *)
LEMMA VariableText ==
  ASSUME NEW y \in {"lua", "luau"}, NEW f, NEW heap, NEW n, NEW text, NEW name,
         heap[n] = emitter_datatype_var(Fresh, <<name>>)
  PROVE  TextAt(heap, n, text, y, f) # <<>>
<1> DEFINE e == heap[n]
<1>1. e.constant = "nothing" /\ e.kind = "var" /\ e.unary = <<>> /\ e.data = <<name>>
  BY DEF emitter_datatype_var, Fresh
<1>2. build_unary(e, y, f) = <<>>
  <2> DEFINE Solves(g) == g = [i \in 0..Len(e.unary) |->
                IF i = 0 THEN <<>> ELSE emit_unary(y, g[i - 1], e.unary[i], f)]
             upto == CHOOSE g : Solves(g)
  <2>1. build_unary(e, y, f) = upto[Len(e.unary)]
    BY DEF build_unary
  <2>2. Len(e.unary) = 0
    BY <1>1
  <2>3. Solves([i \in 0..0 |-> <<>>])
    BY <2>2
  <2>4. Solves(upto)
    BY <2>3
  <2> HIDE DEF upto
  <2>5. upto[0] = <<>>
    BY <2>2, <2>4
  <2> QED
    BY <2>1, <2>2, <2>5
<1>3. build_data(e, text, y, f) = emit_var(y, e.data)
  BY <1>1, Zenon DEF build_data
<1>4. emit_var(y, <<name>>) = <<name>>
  BY DEF emit_var, OneOf, Lua!emit_var, Luau!emit_var, Lua!Luau!emit_var
<1>5. TextAt(heap, n, text, y, f) = <<>> \o <<name>>
  BY <1>1, <1>2, <1>3, <1>4 DEF TextAt
<1>6. <<>> \o <<name>> # <<>>
  OBVIOUS
<1> QED
  BY <1>5, <1>6

\* A line that assigns something is a statement and assigns to one of these.
Assigning(line) == line.lvalue = <<>> \/ (/\ line.line_type = "statement"
                                          /\ line.lvalue \in {<<1>>, <<3>>, <<4>>})
Names == DOMAIN Reads \cup Comments

(* Every line that is lifted is such a line, with any comment.             *)
LEMMA LineFacts ==
  ASSUME NEW n \in Names
  PROVE  Assigning(Line(n)) /\ (n \in Comments => \A text : Assigning(set_comment(Line(n), text)))
<1>1. Statement.line_type = "statement" /\ Statement.lvalue = <<>> /\ Statement.rvalue = <<>>
  BY DEF Statement, set_line, FreshLine, nullptr
<1>2. Statement = [FreshLine EXCEPT !.line_type = "statement", !.expression = nullptr]
  BY DEF Statement, set_line, FreshLine, nullptr
<1>3. ASSUME NEW l \in {1, 3, 4}, NEW r PROVE Assigning(set_assignment(Statement, l, r))
  BY <1>1, <1>2 DEF Assigning, set_assignment, FreshLine, nullptr
<1>4. Assigning(set_arith(Statement, "add_", 1, 2))
  BY <1>1, <1>2 DEF Assigning, set_arith, FreshLine
<1>5. Assigning(set_new_variable(Statement, 1, <<"v">>))
  BY <1>1, <1>2 DEF Assigning, set_new_variable, FreshLine
<1>6. ASSUME NEW k PROVE Assigning(Expression(k))
  BY DEF Assigning, Expression, set_line, FreshLine
<1>7. ASSUME NEW a, NEW kind, kind \in {"comment", "expandable_comment"}, NEW text
      PROVE  /\ Assigning(set_comment(set_line(FreshLine, kind, nullptr), a))
             /\ Assigning(set_comment(set_comment(set_line(FreshLine, kind, nullptr), a), text))
  BY DEF Assigning, set_comment, set_line, FreshLine
<1>8. CASE n = "assign"
  <2>1. Line(n) = set_assignment(Statement, 1, 2)
    BY <1>8 DEF Line
  <2> QED
    BY <1>8, <2>1, <1>3 DEF Comments
<1>9. CASE n = "settable"
  <2>1. Line(n) = set_assignment(Statement, 3, 1)
    BY <1>9 DEF Line
  <2> QED
    BY <1>9, <2>1, <1>3 DEF Comments
<1>10. CASE n = "setother"
  <2>1. Line(n) = set_assignment(Statement, 4, 1)
    BY <1>10 DEF Line
  <2> QED
    BY <1>10, <2>1, <1>3 DEF Comments
<1>11. CASE n = "add"
  <2>1. Line(n) = set_arith(Statement, "add_", 1, 2)
    BY <1>11 DEF Line
  <2> QED
    BY <1>11, <2>1, <1>4 DEF Comments
<1>12. CASE n = "local"
  <2>1. Line(n) = set_new_variable(Statement, 1, <<"v">>)
    BY <1>12 DEF Line
  <2> QED
    BY <1>12, <2>1, <1>5 DEF Comments
<1>13. CASE n = "call"
  <2>1. Line(n) = Expression(5)
    BY <1>13 DEF Line
  <2> QED
    BY <1>13, <2>1, <1>6 DEF Comments
<1>14. CASE n = "if"
  <2>1. Line(n) = Expression(6)
    BY <1>14 DEF Line
  <2> QED
    BY <1>14, <2>1, <1>6 DEF Comments
<1>15. CASE n = "elseif"
  <2>1. Line(n) = Expression(7)
    BY <1>15 DEF Line
  <2> QED
    BY <1>15, <2>1, <1>6 DEF Comments
<1>16. CASE n = "else"
  <2>1. Line(n) = Expression(8)
    BY <1>16 DEF Line
  <2> QED
    BY <1>16, <2>1, <1>6 DEF Comments
<1>17. CASE n = "end"
  <2>1. Line(n) = Expression(9)
    BY <1>17 DEF Line
  <2> QED
    BY <1>17, <2>1, <1>6 DEF Comments
<1>18. CASE n = "while"
  <2>1. Line(n) = Expression(10)
    BY <1>18 DEF Line
  <2> QED
    BY <1>18, <2>1, <1>6 DEF Comments
<1>19. CASE n = "repeat"
  <2>1. Line(n) = Expression(11)
    BY <1>19 DEF Line
  <2> QED
    BY <1>19, <2>1, <1>6 DEF Comments
<1>20. CASE n = "until"
  <2>1. Line(n) = Expression(12)
    BY <1>20 DEF Line
  <2> QED
    BY <1>20, <2>1, <1>6 DEF Comments
<1>21. CASE n = "break"
  <2>1. Line(n) = Expression(13)
    BY <1>21 DEF Line
  <2> QED
    BY <1>21, <2>1, <1>6 DEF Comments
<1>22. CASE n = "for"
  <2>1. Line(n) = Expression(14)
    BY <1>22 DEF Line
  <2> QED
    BY <1>22, <2>1, <1>6 DEF Comments
<1>23. CASE n = "do"
  <2>1. Line(n) = Expression(15)
    BY <1>23 DEF Line
  <2> QED
    BY <1>23, <2>1, <1>6 DEF Comments
<1>24. CASE n = "comment"
  <2>1. Line(n) = set_comment(set_line(FreshLine, "comment", nullptr), <<"note">>)
    BY <1>24 DEF Line
  <2> QED
    BY <1>24, <2>1, <1>7 DEF Comments
<1>25. CASE n = "expandable"
  <2>1. Line(n) = set_comment(set_line(FreshLine, "expandable_comment", nullptr), <<"note">>)
    BY <1>25 DEF Line
  <2> QED
    BY <1>25, <2>1, <1>7 DEF Comments
<1>26. DOMAIN Reads = {"assign", "settable", "setother", "add", "local", "call", "if", "elseif",
                       "else", "end", "while", "repeat", "until", "break", "for", "do"}
  BY DEF Reads
<1> QED
  BY <1>8, <1>9, <1>10, <1>11, <1>12, <1>13, <1>14, <1>15, <1>16, <1>17, <1>18, <1>19, <1>20,
     <1>21, <1>22, <1>23, <1>24, <1>25, <1>26 DEF Names, Comments

(* The lines there are, as smart_format is given them.                     *)
LEMMA LinesGiven ==
  ASSUME kinds \in Seq(Names), syn \in {"lua", "luau"},
         NEW text, text = Built(Heap, syn, fmt)
  PROVE  /\ Len(Lines) = Len(kinds) /\ DOMAIN Lines = 1..Len(kinds)
         /\ Given(Lines, Heap, text, Assigns, [i \in Assigns |-> TableOf(i, text)])
<1> DEFINE N == Len(kinds)
           line(i) == IF kinds[i] \in Comments
                      THEN set_comment(Line(kinds[i]), <<"note" \o ToString(i)>>)
                      ELSE Line(kinds[i])
<1>1. N \in Nat /\ \A i \in 1..N : kinds[i] \in Names
  OBVIOUS
<1>2. Lines = [i \in 1..N |-> line(i)]
  BY DEF Lines
<1>3. ASSUME NEW i \in 1..N PROVE Assigning(line(i))
  BY <1>1, <1>3, LineFacts, Zenon
<1> HIDE DEF line
<1>4. DOMAIN Lines = 1..N /\ Len(Lines) = N /\ \A i \in 1..N : Assigning(Lines[i])
  BY <1>1, <1>2, <1>3
<1>5. Assigns = {i \in 1..Len(Lines) : Lines[i].lvalue # <<>>}
  BY <1>4 DEF Assigns
<1>6. text[1] # <<>> /\ text[2] # <<>>
  <2>1. 1 \in 1..Len(Heap) /\ 2 \in 1..Len(Heap) /\ Len(Heap) \in Nat
    BY HeapFacts
  <2>2. PICK a, b : text[1] = TextAt(Heap, 1, a, syn, fmt) /\ text[2] = TextAt(Heap, 2, b, syn, fmt)
    BY <2>1, BuiltIs
  <2>3. TextAt(Heap, 1, a, syn, fmt) # <<>>
    BY HeapFacts, VariableText
  <2>4. TextAt(Heap, 2, b, syn, fmt) # <<>>
    BY HeapFacts, VariableText
  <2> QED
    BY <2>2, <2>3, <2>4
<1> DEFINE table == [i \in Assigns |-> TableOf(i, text)]
<1>7. ASSUME NEW i \in Assigns
      PROVE  /\ Lines[i].line_type = "statement"
             /\ LET lvalue == Heap[Lines[i].lvalue[1]]
                IN /\ lvalue.lvalue \in Nat
                   /\ IsIndex(lvalue) \in BOOLEAN
                   /\ IsIndex(lvalue) => /\ lvalue.lvalue # 0
                                         /\ table[i] = text[lvalue.lvalue]
                                         /\ table[i] # <<>>
                   /\ ~IsIndex(lvalue) => table[i] = <<>>
  <2> DEFINE lvalue == Heap[Lines[i].lvalue[1]]
  <2>1. Lines[i].line_type = "statement" /\ Lines[i].lvalue \in {<<1>>, <<3>>, <<4>>}
    BY <1>4, <1>5 DEF Assigning
  <2>2. Lines[i].lvalue[1] \in {1, 3, 4}
    BY <2>1
  <2>3. lvalue.lvalue \in {0, 1, 2} /\ (IsIndex(lvalue) <=> lvalue.lvalue # 0)
    BY <2>2, HeapFacts
  <2>4. table[i] = IF IsIndex(lvalue) THEN text[lvalue.lvalue] ELSE <<>>
    BY DEF TableOf
  <2>5. IsIndex(lvalue) \in BOOLEAN
    BY DEF IsIndex
  <2> HIDE DEF lvalue, table
  <2>6. /\ lvalue.lvalue \in Nat
        /\ IsIndex(lvalue) => /\ lvalue.lvalue # 0
                              /\ table[i] = text[lvalue.lvalue]
                              /\ table[i] # <<>>
        /\ ~IsIndex(lvalue) => table[i] = <<>>
    BY <1>6, <2>3, <2>4
  <2> QED
    BY <2>1, <2>5, <2>6 DEF lvalue
<1> HIDE DEF table
<1>8. Given(Lines, Heap, text, Assigns, table)
  BY <1>1, <1>4, <1>5, <1>7 DEF Given
<1> QED
  BY <1>4, <1>8 DEF table

(* A group of lines is set apart by one line break.                        *)
LEMMA NewlineFacts ==
  ASSUME NEW y \in {"lua", "luau"}
  PROVE  \E S : /\ emit_linebreak(y, Linebreaks.group_newlines) \in Seq(S)
                /\ Len(emit_linebreak(y, Linebreaks.group_newlines)) = 1
<1> DEFINE a == [i \in 1..1 |-> Lua!Luau!LineBreak]
           b == [i \in 1..1 |-> Luau!LineBreak]
           r == emit_linebreak(y, Linebreaks.group_newlines)
<1>1. Linebreaks.group_newlines = 1
  BY DEF Linebreaks
<1>2. r = OneOf(y, a, b)
  BY <1>1 DEF emit_linebreak, Lua!emit_linebreak, Luau!emit_linebreak, Lua!Luau!emit_linebreak
<1>3. r = a \/ r = b
  BY <1>2 DEF OneOf
<1>4. a \in Seq({Lua!Luau!LineBreak}) /\ Len(a) = 1
  OBVIOUS
<1>5. b \in Seq({Luau!LineBreak}) /\ Len(b) = 1
  OBVIOUS
<1> HIDE DEF a, b, r
<1>6. \E S : r \in Seq(S) /\ Len(r) = 1
  BY <1>3, <1>4, <1>5
<1> QED
  BY <1>6 DEF r

-----------------------------------------------------------------------------
(* The specification *)

\* The lines are of the kinds there are, and the map is what smart_format
\* made of all of them.
SpacingInv ==
  /\ syn \in Syntaxes /\ fmt \in Formats
  /\ kinds \in Seq(Names)
  /\ ~formatted => line_data_map = <<>>
  /\ formatted => line_data_map = smart_format(syn, Lines, <<>>, Heap, fmt)

(* SpacingInv holds in every state: what generate does leaves the map as   *)
(* smart_format left it, and smart_format is called once, on all lines.    *)
THEOREM SpacingInvariance == Spec => []SpacingInv
<1>1. Init => SpacingInv
  BY DEF Init, SpacingInv
<1>2. SpacingInv /\ [Next]_vars => SpacingInv'
  <2> SUFFICES ASSUME SpacingInv, [Next]_vars PROVE SpacingInv'
    OBVIOUS
  <2>0. Kinds \subseteq Names /\ "until" \in Names /\ "end" \in Names
    BY KindsAssumption DEF Names, Reads
  <2>1. ASSUME NEW n \in Kinds, Lift(n) PROVE SpacingInv'
    <3>1. /\ kinds' = Append(kinds, n) /\ n \in Names /\ ~formatted
          /\ UNCHANGED <<syn, fmt, line_data_map, formatted>>
      BY <2>0, <2>1 DEF Lift
    <3>2. kinds' \in Seq(Names)
      BY <3>1, AppendProperties DEF SpacingInv
    <3> QED
      BY <3>1, <3>2 DEF SpacingInv
  <2>2. CASE Close
    <3>1. /\ \E n \in {"until", "end"} : kinds' = Append(kinds, n)
          /\ ~formatted /\ UNCHANGED <<syn, fmt, line_data_map, formatted>>
      BY <2>2 DEF Close
    <3>2. kinds' \in Seq(Names)
      BY <2>0, <3>1, AppendProperties DEF SpacingInv
    <3> QED
      BY <3>1, <3>2 DEF SpacingInv
  <2>3. CASE SmartFormat
    <3>1. /\ ~formatted /\ formatted' = TRUE /\ UNCHANGED <<syn, fmt, kinds>>
          /\ line_data_map' = smart_format(syn, Lines, line_data_map, Heap, fmt)
      BY <2>3 DEF SmartFormat
    <3>2. line_data_map = <<>> /\ Lines' = Lines
      BY <3>1 DEF SpacingInv, Lines
    <3> QED
      BY <3>1, <3>2 DEF SpacingInv
  <2>4. CASE Generated \/ UNCHANGED vars
    <3>1. UNCHANGED <<syn, fmt, kinds, line_data_map, formatted>>
      BY <2>4 DEF Generated, vars
    <3>2. Lines' = Lines
      BY <3>1 DEF Lines
    <3> QED
      BY <3>1, <3>2 DEF SpacingInv
  <2> QED
    BY <2>1, <2>2, <2>3, <2>4 DEF Next
<1> QED
  BY <1>1, <1>2, PTL DEF Spec

(* RunsSpaced for every list of lines, however long, and every threshold:  *)
(* smart_format puts a blank line in front of each long run, one between   *)
(* the run and the assignment that ends it if there are lines in between,  *)
(* and no other but inside of runs that end directly (RunsUnbroken).       *)
THEOREM RunsAlwaysSpaced == Spec => []RunsSpaced
<1>1. SpacingInv => RunsSpaced
  <2> SUFFICES ASSUME SpacingInv, formatted, ~fmt.smart_disabled,
                      fmt.max_threshold = 0, fmt.min_threshold > 1
               PROVE  RunsSpaced
    BY DEF RunsSpaced, Spacing
  <2> DEFINE N == Len(kinds)
             text == Built(Heap, syn, fmt)
             t == fmt.min_threshold
             A == Assigns
             table == [i \in A |-> TableOf(i, text)]
             newlines == emit_linebreak(syn, Linebreaks.group_newlines)
             map == line_data_map
  <2>1. syn \in {"lua", "luau"} /\ t \in Nat /\ kinds \in Seq(Names) /\ N \in Nat
    BY CodegenLinesAssumption DEF SpacingInv
  <2>2. /\ Len(Lines) = N /\ DOMAIN Lines = 1..N
        /\ Given(Lines, Heap, text, A, table)
    BY <2>1, LinesGiven
  <2>3. PICK S : newlines \in Seq(S) /\ Len(newlines) = 1
    BY <2>1, NewlineFacts
  <2>4. Mapped(A, table, t, N, map, newlines)
    <3>1. map = smart_format(syn, Lines, <<>>, Heap, fmt)
      BY DEF SpacingInv
    <3> HIDE DEF table, A, newlines
    <3>2. Mapped(A, table, t, Len(Lines), smart_format(syn, Lines, <<>>, Heap, fmt), newlines)
      BY <2>1, <2>2, <2>3, SmartFormatIs DEF newlines
    <3> QED
      BY <2>2, <3>1, <3>2
  <2>5. A \in SUBSET (1..N)
    BY <2>2 DEF Given
  <2> HIDE DEF N, text, t, A, table, newlines
  <2>6. Spaced(A, LongRuns(A, table, t), DOMAIN map)
    <3>1. t > 1
      BY DEF t
    <3>2. Spaced(A, LongRuns(A, table, t), Begins(A, table, t, N) \cup Ends(A, table, t, N))
      BY <2>1, <2>5, <3>1, RunsAreSpaced
    <3> QED
      BY <2>4, <3>2 DEF Mapped
  <2>7. \A k \in DOMAIN map : Len(map[k]) = 1
    BY <2>3, <2>4 DEF Mapped
  <2>8. LongRuns(A, table, t) = Runs
    BY DEF Runs, A, table, text, t
  <2> QED
    BY <2>6, <2>7, <2>8 DEF RunsSpaced, A
<1> QED
  BY <1>1, SpacingInvariance, PTL
=============================================================================
