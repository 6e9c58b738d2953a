-------------------------- MODULE LuauLayoutProofs --------------------------
(***************************************************************************)
(* Where lifting puts the instructions, for every function the compiler    *)
(* emits: every edit lands (EditsLand), every bytecode instruction becomes *)
(* its own instructions, in place (InstructionsInPlace), compares keep     *)
(* their outcome (ComparesKept) and control goes where the bytecode goes   *)
(* (FlowPreserved).  The inductive invariant is LiftInv with LayoutInv of  *)
(* module LuauLayout.                                                      *)
(***************************************************************************)
EXTENDS LuauLayout, LuauLiftProofs

-----------------------------------------------------------------------------
(***************************************************************************)
(* Sorted vectors.                                                         *)
(***************************************************************************)

Ranks == [Obj -> Int]

(* Inserting d in front of an element that ranks higher, behind one that   *)
(* ranks lower, keeps a vector sorted, and what is behind moves by one.    *)
LEMMA SortedInsert ==
  ASSUME NEW rank \in Ranks, NEW p \in Seq(Ptr), Sorted(p, rank), NEW d \in Obj,
         NEW pos \in 0..(Len(p) - 1), p[pos + 1] # NULL, rank[d] < rank[p[pos + 1]],
         \A k \in 1..pos : rank[p[k]] < rank[d],
         NEW s, s = InsertedAt(p, d, pos)
  PROVE  /\ Sorted(s, rank)
         /\ Len(s) > Len(p)
         /\ ToSet(s) \ {NULL} = (ToSet(p) \ {NULL}) \union {d}
         /\ \A k \in (pos + 1)..Len(p) : s[k + 1] = p[k]
<1> DEFINE q == Padded(p, pos)
<1>0. Len(p) \in Nat /\ pos \in Nat /\ d \in Ptr /\ d # NULL
  BY NullAssumption DEF Ptr
<1>1. /\ q \in Seq(Ptr) /\ Len(q) \in Nat /\ Len(q) >= Len(p) /\ Len(q) >= pos
      /\ \A k \in 1..Len(q) : q[k] = IF k <= Len(p) THEN p[k] ELSE NULL
      /\ s \in Seq(Ptr) /\ Len(s) = Len(q) + 1
      /\ \A k \in 1..(Len(q) + 1) :
           s[k] = IF k < pos + 1 THEN q[k] ELSE IF k = pos + 1 THEN d ELSE q[k - 1]
  <2>1. InsertedAs(p, d, pos)
    BY <1>0, InsertionMade
  <2> QED
    BY <2>1 DEF InsertedAs
<1>2. \A k \in 1..Len(p) : p[k] \in Ptr
  OBVIOUS
<1>3. \A k \in 1..pos : k \in 1..Len(p) /\ p[k] # NULL
  BY <1>0 DEF Sorted
<1> HIDE DEF q
<1>4. \A k \in 1..Len(s) :
        \/ k <= pos /\ k \in 1..Len(p) /\ s[k] = p[k]
        \/ k = pos + 1 /\ s[k] = d
        \/ k > pos + 1 /\ k - 1 \in 1..Len(p) /\ s[k] = p[k - 1]
        \/ k > Len(p) + 1 /\ s[k] = NULL
  <2> SUFFICES ASSUME NEW k \in 1..Len(s)
               PROVE  \/ k <= pos /\ k \in 1..Len(p) /\ s[k] = p[k]
                      \/ k = pos + 1 /\ s[k] = d
                      \/ k > pos + 1 /\ k - 1 \in 1..Len(p) /\ s[k] = p[k - 1]
                      \/ k > Len(p) + 1 /\ s[k] = NULL
    OBVIOUS
  <2>1. k \in 1..(Len(q) + 1)
    BY <1>1
  <2>2. CASE k < pos + 1
    <3>1. k \in 1..Len(q) /\ k <= Len(p) /\ k \in 1..Len(p)
      BY <2>1, <2>2, <1>0, <1>1
    <3> QED
      BY <3>1, <2>1, <2>2, <1>0, <1>1
  <2>3. CASE k = pos + 1
    BY <2>1, <2>3, <1>0, <1>1
  <2>4. CASE k > pos + 1
    <3>1. k - 1 \in 1..Len(q) /\ s[k] = q[k - 1]
      BY <2>1, <2>4, <1>0, <1>1
    <3>2. s[k] = IF k - 1 <= Len(p) THEN p[k - 1] ELSE NULL
      BY <3>1, <1>1
    <3>3. CASE k - 1 <= Len(p)
      BY <3>1, <3>2, <3>3, <2>4, <1>0
    <3>4. CASE k - 1 > Len(p)
      BY <3>1, <3>2, <3>4, <2>4, <1>0
    <3> QED
      BY <3>3, <3>4, <3>1, <1>0, <1>1
  <2> QED
    BY <2>1, <2>2, <2>3, <2>4, <1>0
<1>5. \A k \in (pos + 1)..Len(p) : k + 1 \in 1..Len(s) /\ s[k + 1] = p[k]
  <2> SUFFICES ASSUME NEW k \in (pos + 1)..Len(p)
               PROVE  k + 1 \in 1..Len(s) /\ s[k + 1] = p[k]
    OBVIOUS
  <2>1. k + 1 \in 1..(Len(q) + 1) /\ (k + 1) - 1 = k /\ k \in 1..Len(q)
    BY <1>0, <1>1
  <2> QED
    BY <2>1, <1>0, <1>1
<1>6. /\ pos + 1 \in 1..Len(s) /\ s[pos + 1] = d
      /\ \A k \in 1..pos : k \in 1..Len(s) /\ s[k] = p[k]
  <2>1. pos + 1 \in 1..Len(s) /\ pos + 1 \in 1..(Len(q) + 1)
    BY <1>0, <1>1
  <2>2. s[pos + 1] = d
    BY <2>1, <1>1, <1>0
  <2>3. ASSUME NEW k \in 1..pos PROVE k \in 1..Len(s) /\ s[k] = p[k]
    <3>1. k \in 1..Len(s)
      BY <1>0, <1>1
    <3> QED
      BY <3>1, <1>4, <1>0
  <2> QED
    BY <2>1, <2>2, <2>3
<1>7. ASSUME NEW k \in 1..Len(s), NEW l \in 1..Len(s), k < l, s[l] # NULL
      PROVE  s[k] # NULL /\ rank[s[k]] < rank[s[l]]
  <2>0. \A i, j \in 1..Len(p) :
          i < j /\ p[j] # NULL => p[i] # NULL /\ rank[p[i]] < rank[p[j]]
    BY DEF Sorted
  <2>1. \A j \in (pos + 1)..Len(p) :
          p[j] # NULL => rank[d] < rank[p[j]]
    <3> SUFFICES ASSUME NEW j \in (pos + 1)..Len(p), p[j] # NULL
                 PROVE  rank[d] < rank[p[j]]
      OBVIOUS
    <3>1. j \in 1..Len(p) /\ pos + 1 \in 1..Len(p)
      BY <1>0
    <3>2. p[j] \in Obj /\ p[pos + 1] \in Obj
      BY <3>1, <1>2 DEF Ptr
    <3>3. rank[d] \in Int /\ rank[p[j]] \in Int /\ rank[p[pos + 1]] \in Int
      BY <3>2 DEF Ranks
    <3>4. j = pos + 1 \/ rank[p[pos + 1]] < rank[p[j]]
      BY <3>1, <2>0, <1>0
    <3> QED
      BY <3>3, <3>4
  <2>2. CASE k <= pos
    <3>1. k \in 1..pos /\ k \in 1..Len(p) /\ s[k] = p[k] /\ p[k] # NULL /\ p[k] \in Obj
      BY <2>2, <1>0, <1>3, <1>4, <1>2 DEF Ptr
    <3>2. CASE l <= pos
      BY <3>1, <3>2, <2>0, <1>4, <1>7, <1>0
    <3>3. CASE l = pos + 1
      BY <3>1, <3>3, <1>4, <1>0
    <3>4. CASE l > pos + 1
      <4>1. l - 1 \in 1..Len(p) /\ s[l] = p[l - 1] /\ k < l - 1
        BY <3>4, <2>2, <1>4, <1>7, <1>0
      <4> QED
        BY <4>1, <3>1, <2>0, <1>7
    <3> QED
      BY <3>2, <3>3, <3>4, <1>0, <1>1
  <2>3. CASE k > pos
    <3>1. l - 1 \in 1..Len(p) /\ s[l] = p[l - 1] /\ l - 1 \in (pos + 1)..Len(p)
      BY <2>3, <1>4, <1>7, <1>0, <1>1
    <3>2. CASE k = pos + 1
      BY <3>1, <3>2, <2>1, <1>4, <1>7, <1>0
    <3>3. CASE k > pos + 1
      <4>1. k - 1 \in 1..Len(p) /\ s[k] = p[k - 1] /\ k - 1 < l - 1
        <5>1. k - 1 \in 1..Len(p)
          BY <3>1, <3>3, <1>0, <1>1, <1>7
        <5>2. s[k] = p[k - 1]
          BY <5>1, <3>3, <1>4, <1>0
        <5> QED
          BY <5>1, <5>2, <1>7
      <4> QED
        BY <4>1, <3>1, <2>0, <1>7
    <3> QED
      BY <2>3, <3>2, <3>3, <1>0
  <2> QED
    BY <2>2, <2>3, <1>0
<1>8. ToSet(s) \ {NULL} = (ToSet(p) \ {NULL}) \union {d}
  <2>0. /\ \A x : x \in ToSet(s) <=> \E k \in 1..Len(s) : s[k] = x
        /\ \A x : x \in ToSet(p) <=> \E k \in 1..Len(p) : p[k] = x
    BY <1>1, ToSetFacts
  <2>1. ASSUME NEW x \in ToSet(s), x # NULL PROVE x = d \/ x \in ToSet(p)
    <3>1. PICK k \in 1..Len(s) : s[k] = x
      BY <2>0
    <3>2. \/ s[k] = d \/ s[k] = NULL
          \/ \E j \in 1..Len(p) : s[k] = p[j]
      BY <1>4
    <3> QED
      BY <3>1, <3>2, <2>0, <2>1
  <2>2. ASSUME NEW x \in ToSet(p) PROVE x \in ToSet(s)
    <3>1. PICK k \in 1..Len(p) : p[k] = x
      BY <2>0
    <3>2. CASE k <= pos
      BY <3>1, <3>2, <1>6, <2>0, <1>0
    <3>3. CASE k > pos
      <4>1. k \in (pos + 1)..Len(p)
        BY <3>3, <1>0
      <4> QED
        BY <4>1, <3>1, <1>5, <2>0
    <3> QED
      BY <3>2, <3>3, <1>0
  <2>3. d \in ToSet(s)
    BY <1>6, <2>0
  <2> QED
    BY <2>1, <2>2, <2>3, <1>0
<1> QED
  BY <1>1, <1>0, <1>5, <1>7, <1>8 DEF Sorted

(* s is p without its element i.                                           *)
Without(s, p, i, rank) ==
  /\ s \in Seq(Ptr) /\ Sorted(s, rank)
  /\ Len(s) = Len(p) - 1
  /\ ToSet(s) \ {NULL} = (ToSet(p) \ {NULL}) \ {p[i]}
  /\ \A k \in (i + 1)..Len(p) : s[k - 1] = p[k]

(* Erasing an element keeps a vector sorted, and of a vector without       *)
(* repetitions takes just that.                                            *)
LEMMA SortedRemove ==
  ASSUME NEW rank \in Ranks, NEW p, PendingOK(p), Sorted(p, rank), NEW i \in 1..Len(p),
         NEW s, s = RemoveAt(p, i)
  PROVE  Without(s, p, i, rank)
<1>0. p \in Seq(Ptr) /\ Len(p) \in Nat /\ i \in Nat
  BY DEF PendingOK
<1>1. /\ s \in Seq(Ptr) /\ Len(s) = Len(p) - 1
      /\ \A k \in 1..(Len(p) - 1) : s[k] = IF k < i THEN p[k] ELSE p[k + 1]
  BY <1>0, RemoveFacts
<1>2. \A k \in 1..Len(s) :
        \E m \in 1..Len(p) : s[k] = p[m] /\ m = IF k < i THEN k ELSE k + 1
  <2> SUFFICES ASSUME NEW k \in 1..Len(s)
               PROVE  \E m \in 1..Len(p) :
                        s[k] = p[m] /\ m = IF k < i THEN k ELSE k + 1
    OBVIOUS
  <2>1. k \in 1..Len(p) /\ k + 1 \in 1..Len(p) /\ s[k] = IF k < i THEN p[k] ELSE p[k + 1]
    BY <1>0, <1>1
  <2>2. CASE k < i
    <3>1. s[k] = p[k]
      BY <2>1, <2>2
    <3> QED
      BY <3>1, <2>1, <2>2, <1>0
  <2>3. CASE ~(k < i)
    BY <2>1, <2>3, <1>0
  <2> QED
    BY <2>2, <2>3
<1>3. /\ \A k \in 1..(i - 1) : k \in 1..Len(s) /\ s[k] = p[k]
      /\ \A k \in (i + 1)..Len(p) : k - 1 \in 1..Len(s) /\ s[k - 1] = p[k]
  <2>1. ASSUME NEW k \in 1..(i - 1) PROVE k \in 1..Len(s) /\ s[k] = p[k]
    BY <1>0, <1>1, <1>2
  <2>2. ASSUME NEW k \in (i + 1)..Len(p) PROVE k - 1 \in 1..Len(s) /\ s[k - 1] = p[k]
    <3>1. k - 1 \in 1..Len(s) /\ (k - 1) + 1 = k /\ k - 1 >= i
      BY <1>0, <1>1
    <3> QED
      BY <3>1, <1>0, <1>2
  <2> QED
    BY <2>1, <2>2
<1>4. ASSUME NEW k \in 1..Len(s), NEW l \in 1..Len(s), k < l, s[l] # NULL
      PROVE  s[k] # NULL /\ rank[s[k]] < rank[s[l]]
  <2>1. PICK m \in 1..Len(p) : s[k] = p[m] /\ m = IF k < i THEN k ELSE k + 1
    BY <1>2
  <2>2. PICK n \in 1..Len(p) : s[l] = p[n] /\ n = IF l < i THEN l ELSE l + 1
    BY <1>2
  <2>3. m < n
    BY <2>1, <2>2, <1>4, <1>0
  <2> QED
    BY <2>1, <2>2, <2>3, <1>4 DEF Sorted
<1>5. ToSet(s) \ {NULL} = (ToSet(p) \ {NULL}) \ {p[i]}
  <2>0. /\ \A x : x \in ToSet(s) <=> \E k \in 1..Len(s) : s[k] = x
        /\ \A x : x \in ToSet(p) <=> \E k \in 1..Len(p) : p[k] = x
    BY <1>0, <1>1, ToSetFacts
  <2>1. ASSUME NEW x \in ToSet(s), x # NULL PROVE x \in ToSet(p) /\ x # p[i]
    <3>1. PICK k \in 1..Len(s) : s[k] = x
      BY <2>0
    <3>2. PICK m \in 1..Len(p) : s[k] = p[m] /\ m # i
      BY <1>2, <1>0
    <3>3. p[m] # p[i]
      BY <3>1, <3>2, <2>1 DEF PendingOK
    <3> QED
      BY <3>1, <3>2, <3>3, <2>0
  <2>2. ASSUME NEW x \in ToSet(p), x # p[i] PROVE x \in ToSet(s)
    <3>1. PICK k \in 1..Len(p) : p[k] = x
      BY <2>0
    <3>2. CASE k < i
      BY <3>1, <3>2, <1>3, <2>0, <1>0
    <3>3. CASE k > i
      <4>1. k \in (i + 1)..Len(p)
        BY <3>3, <1>0
      <4> QED
        BY <4>1, <3>1, <1>3, <2>0
    <3> QED
      BY <3>1, <3>2, <3>3, <2>2, <1>0
  <2> QED
    BY <2>1, <2>2
<1> QED
  BY <1>1, <1>3, <1>4, <1>5 DEF Sorted, Without

(* A sorted vector of instructions has none twice.                         *)
LEMMA SortedUnique ==
  ASSUME NEW rank \in Ranks, NEW v \in Seq(Obj), Sorted(v, rank)
  PROVE  /\ \A j, k \in 1..Len(v) : v[j] = v[k] => j = k
         /\ \A j, k \in 1..Len(v) : rank[v[j]] < rank[v[k]] => j < k
         /\ \A j, k \in 1..Len(v) : j < k => rank[v[j]] < rank[v[k]]
<1>1. \A j \in 1..Len(v) : j \in Nat /\ v[j] \in Obj /\ v[j] # NULL /\ rank[v[j]] \in Int
  BY NullAssumption DEF Ranks
<1>2. \A j, k \in 1..Len(v) : j < k => rank[v[j]] < rank[v[k]]
  BY <1>1 DEF Sorted
<1>3. ASSUME NEW j \in 1..Len(v), NEW k \in 1..Len(v), v[j] = v[k] PROVE j = k
  <2>1. ~(j < k) /\ ~(k < j)
    BY <1>1, <1>2, <1>3
  <2> QED
    BY <2>1, <1>1
<1>4. ASSUME NEW j \in 1..Len(v), NEW k \in 1..Len(v), rank[v[j]] < rank[v[k]] PROVE j < k
  <2>1. ~(k < j) /\ j # k
    BY <1>1, <1>2, <1>4
  <2> QED
    BY <2>1, <1>1
<1> QED
  BY <1>2, <1>3, <1>4

-----------------------------------------------------------------------------
(***************************************************************************)
(* The edits of a queue.                                                   *)
(***************************************************************************)

(* A committed vector and a queue of edits of it.                          *)
Edited(v, q, rank) ==
  /\ v \in Seq(Obj) /\ Sorted(v, rank)
  /\ q \in Seq(Edit)
  /\ \A k \in 1..Len(q) :
       /\ EditFits(q[k], Offset(q, k), v, rank)
       /\ \A l \in 1..(k - 1) : Succeeds(q[l], q[k], rank)

(* Where the vector is unchanged from, and how far it moved, before edit n.*)
Moved(q, n) == IF n = 1 THEN 0 ELSE q[n - 1].at + 1

(* What an edit that fits says, by what it does.                           *)
LEMMA EditFacts ==
  ASSUME NEW v, NEW q, NEW rank, Edited(v, q, rank), NEW n \in 1..Len(q)
  PROVE  /\ Len(v) \in Nat /\ Len(q) \in Nat /\ n \in Nat
         /\ q[n].at \in Nat /\ q[n].at + 1 < Len(v) /\ q[n].pos \in Int
         /\ q[n].at + 1 \in 1..Len(v) /\ q[n].at + 2 \in 1..Len(v)
         /\ q[n].act \in {"add", "remove"}
         /\ q[n].act = "add" => /\ q[n].pos = q[n].at + 1 + Offset(q, n)
                                /\ q[n].d \in Obj \ ToSet(v)
                                /\ rank[v[q[n].at + 1]] < rank[q[n].d]
                                /\ rank[q[n].d] < rank[v[q[n].at + 2]]
                                /\ Moved(q, n) <= q[n].at + 1
         /\ q[n].act = "remove" => /\ q[n].pos = q[n].at + Offset(q, n)
                                   /\ Moved(q, n) <= q[n].at
         /\ Moved(q, n) \in Nat
         /\ Offset(q, n) \in Int
         /\ Moved(q, n + 1) = q[n].at + 1
         /\ Offset(q, n + 1) = IF q[n].act = "add" THEN q[n].pos - q[n].at
                                                   ELSE q[n].pos - q[n].at - 1
<1>0. Len(v) \in Nat /\ Len(q) \in Nat /\ n \in Nat /\ \A k \in 1..Len(q) : q[k] \in Edit
  BY DEF Edited
<1>1. /\ q[n].at \in Nat /\ q[n].pos \in Int
      /\ EditFits(q[n], Offset(q, n), v, rank)
  BY <1>0 DEF Edited, Edit
<1>2. n # 1 => n - 1 \in 1..(n - 1) /\ n - 1 \in 1..Len(q)
  BY <1>0
<1>3. n # 1 => /\ Succeeds(q[n - 1], q[n], rank) /\ q[n - 1] \in Edit
               /\ q[n - 1].at \in Nat /\ q[n - 1].pos \in Int
  BY <1>0, <1>2 DEF Edited, Edit
<1>4. Moved(q, n) \in Nat /\ Offset(q, n) \in Int
  BY <1>3 DEF Moved, Offset
<1>5. n + 1 # 1 /\ (n + 1) - 1 = n
  BY <1>0
<1>6. /\ Moved(q, n + 1) = q[n].at + 1
      /\ Offset(q, n + 1) = IF q[n].act = "add" THEN q[n].pos - q[n].at
                                                ELSE q[n].pos - q[n].at - 1
  BY <1>5 DEF Moved, Offset
<1>7. /\ q[n].act = "add" => Moved(q, n) <= q[n].at + 1
      /\ q[n].act = "remove" => Moved(q, n) <= q[n].at
  BY <1>1, <1>3 DEF Moved, Succeeds
<1>8. q[n].at + 1 \in 1..Len(v) /\ q[n].at + 2 \in 1..Len(v)
  BY <1>0, <1>1 DEF EditFits
<1> QED
  BY <1>0, <1>1, <1>4, <1>6, <1>7, <1>8 DEF EditFits

(* The next edit lands: its position is that of what it was meant for.     *)
LEMMA ReplayLands ==
  ASSUME NEW rank, NEW v, NEW q, Edited(v, q, rank), NEW p, NEW n \in 1..Len(q),
         Replays(p, v, q, n, rank)
  PROVE  /\ q[n].pos \in 0..(Len(p) - 1)
         /\ p[q[n].pos + 1] = v[q[n].at + IF q[n].act = "add" THEN 2 ELSE 1]
<1> DEFINE at == q[n].at
           offset == Offset(q, n)
<1>0. /\ Len(v) \in Nat /\ at \in Nat /\ at + 1 < Len(v) /\ offset \in Int
      /\ q[n].act \in {"add", "remove"} /\ Moved(q, n) \in Nat
  BY EditFacts
<1>1. \A j \in Moved(q, n)..(Len(v) - 1) :
        /\ j + offset \in 0..(Len(p) - 1)
        /\ p[j + offset + 1] = v[j + 1]
  BY DEF Replays, Moved
<1>2. CASE q[n].act = "add"
  <2>1. q[n].pos = at + 1 + offset /\ Moved(q, n) <= at + 1
    BY <1>2, EditFacts
  <2>2. at + 1 \in Moved(q, n)..(Len(v) - 1)
    BY <2>1, <1>0
  <2>3. (at + 1) + 1 = at + 2
    BY <1>0
  <2> QED
    BY <2>1, <2>2, <2>3, <1>1, <1>2
<1>3. CASE q[n].act = "remove"
  <2>1. q[n].pos = at + offset /\ Moved(q, n) <= at
    BY <1>3, EditFacts
  <2>2. at \in Moved(q, n)..(Len(v) - 1)
    BY <2>1, <1>0
  <2> QED
    BY <2>1, <2>2, <1>1, <1>3
<1> QED
  BY <1>0, <1>2, <1>3

(* What is kept and what is new before edit n.                             *)
Keeps(q, n, j) == \A k \in 1..(n - 1) : ~(q[k].act = "remove" /\ q[k].at + 1 = j)

LEMMA ContentFacts ==
  ASSUME NEW v, NEW q, NEW n
  PROVE  \A x : x \in Content(v, q, n) <=>
                  \/ \E j \in 1..Len(v) : Keeps(q, n, j) /\ x = v[j]
                  \/ \E k \in 1..(n - 1) : q[k].act = "add" /\ x = q[k].d
  BY DEF Content, Keeps

(* What the vector holds changes by just the edit.                         *)
LEMMA ContentNext ==
  ASSUME NEW rank \in Ranks, NEW v, NEW q, Edited(v, q, rank), NEW n \in 1..Len(q)
  PROVE  /\ q[n].act = "add" => Content(v, q, n + 1) = Content(v, q, n) \union {q[n].d}
         /\ q[n].act = "remove" =>
              Content(v, q, n + 1) = Content(v, q, n) \ {v[q[n].at + 1]}
<1>0. /\ n \in Nat /\ Len(q) \in Nat /\ q[n].at \in Nat /\ q[n].at + 1 \in 1..Len(v)
      /\ q[n].act \in {"add", "remove"}
  BY EditFacts
<1>1. /\ \A k : k \in 1..((n + 1) - 1) <=> k \in 1..(n - 1) \/ k = n
      /\ \A k \in 1..(n - 1) : k \in 1..Len(q)
  BY <1>0
<1>2. /\ \A j : Keeps(q, n + 1, j) <=> /\ Keeps(q, n, j)
                                       /\ ~(q[n].act = "remove" /\ q[n].at + 1 = j)
  BY <1>1 DEF Keeps
<1>3. \A x : x \in Content(v, q, n + 1) <=>
               \/ \E j \in 1..Len(v) : Keeps(q, n + 1, j) /\ x = v[j]
               \/ \E k \in 1..(n - 1) : q[k].act = "add" /\ x = q[k].d
               \/ q[n].act = "add" /\ x = q[n].d
  <2>1. \A x : (\E k \in 1..((n + 1) - 1) : q[k].act = "add" /\ x = q[k].d)
                 <=> \/ \E k \in 1..(n - 1) : q[k].act = "add" /\ x = q[k].d
                     \/ q[n].act = "add" /\ x = q[n].d
    BY <1>1
  <2> QED
    BY <2>1, ContentFacts
<1>4. CASE q[n].act = "add"
  <2>1. \A j : Keeps(q, n + 1, j) <=> Keeps(q, n, j)
    BY <1>2, <1>4
  <2> QED
    BY <2>1, <1>3, <1>4, ContentFacts
<1>5. CASE q[n].act = "remove"
  <2>1. \A j \in 1..Len(v) : v[j] = v[q[n].at + 1] => j = q[n].at + 1
    BY <1>0, SortedUnique DEF Edited
  <2>2. \A k \in 1..(n - 1) : q[k].act = "add" => q[k].d # v[q[n].at + 1]
    <3> SUFFICES ASSUME NEW k \in 1..(n - 1), q[k].act = "add"
                 PROVE  q[k].d # v[q[n].at + 1]
      OBVIOUS
    <3>1. q[k].d \notin ToSet(v)
      BY <1>1, EditFacts
    <3>2. v[q[n].at + 1] \in ToSet(v)
      BY <1>0 DEF ToSet
    <3> QED
      BY <3>1, <3>2
  <2>3. \A j : Keeps(q, n + 1, j) <=> Keeps(q, n, j) /\ q[n].at + 1 # j
    BY <1>2, <1>5
  <2>4. ASSUME NEW x
        PROVE  x \in Content(v, q, n + 1) <=> x \in Content(v, q, n) /\ x # v[q[n].at + 1]
    <3>1. (\E j \in 1..Len(v) : Keeps(q, n + 1, j) /\ x = v[j])
            <=> (\E j \in 1..Len(v) : Keeps(q, n, j) /\ x = v[j]) /\ x # v[q[n].at + 1]
      BY <2>1, <2>3
    <3>2. (\E k \in 1..(n - 1) : q[k].act = "add" /\ x = q[k].d) => x # v[q[n].at + 1]
      BY <2>2
    <3> QED
      BY <3>1, <3>2, <1>3, <1>5, ContentFacts
  <2> QED
    BY <2>4, <1>5
<1> QED
  BY <1>0, <1>4, <1>5

(* What ranks below the instruction an insertion goes in front of ranks    *)
(* below what is inserted.                                                 *)
LEMMA InsertsBetween ==
  ASSUME NEW rank \in Ranks, NEW v, NEW q, Edited(v, q, rank), NEW n \in 1..Len(q),
         q[n].act = "add", NEW x \in Content(v, q, n), rank[x] < rank[v[q[n].at + 2]]
  PROVE  rank[x] < rank[q[n].d]
<1> DEFINE e == q[n]
<1>0. /\ n \in Nat /\ Len(q) \in Nat /\ Len(v) \in Nat /\ e.at \in Nat
      /\ e.at + 1 \in 1..Len(v) /\ e.at + 2 \in 1..Len(v)
      /\ e.d \in Obj /\ rank[v[e.at + 1]] < rank[e.d]
  BY EditFacts
<1>1. \A j \in 1..Len(v) : v[j] \in Obj /\ rank[v[j]] \in Int
  BY DEF Edited, Ranks
<1>2. rank[e.d] \in Int
  BY <1>0 DEF Ranks
<1>3. ASSUME NEW j \in 1..Len(v), x = v[j] PROVE rank[x] < rank[e.d]
  <2>1. j < e.at + 2
    BY <1>0, <1>3, SortedUnique DEF Edited
  <2>2. j = e.at + 1 \/ j < e.at + 1
    BY <2>1, <1>0
  <2>3. rank[v[j]] = rank[v[e.at + 1]] \/ rank[v[j]] < rank[v[e.at + 1]]
    BY <2>2, <1>0, SortedUnique DEF Edited
  <2>4. rank[v[j]] \in Int /\ rank[v[e.at + 1]] \in Int
    BY <1>0, <1>1
  <2>5. \A a, b, c \in Int : (a = b \/ a < b) /\ b < c => a < c
    OBVIOUS
  <2>6. rank[v[j]] < rank[e.d]
    BY <2>3, <2>4, <2>5, <1>0, <1>2
  <2> QED
    BY <2>6, <1>3
<1>4. ASSUME NEW k \in 1..(n - 1), q[k].act = "add", x = q[k].d
      PROVE  rank[x] < rank[e.d]
  BY <1>4 DEF Edited, Succeeds
<1> QED
  BY <1>3, <1>4, ContentFacts

(* The pending vector after an insertion.                                  *)
LEMMA ReplayAdd ==
  ASSUME NEW rank \in Ranks, NEW v, NEW q, Edited(v, q, rank), NEW n \in 1..Len(q),
         NEW p, PendingOK(p), Replays(p, v, q, n, rank), q[n].act = "add",
         NEW s, s = InsertedAt(p, q[n].d, q[n].pos)
  PROVE  Replays(s, v, q, n + 1, rank)
<1> DEFINE at == q[n].at
           pos == q[n].pos
           d == q[n].d
           from == Moved(q, n)
           offset == Offset(q, n)
           moved == Offset(q, n + 1)
           m == Len(v)
<1>1. /\ n \in Nat /\ Len(q) \in Nat /\ m \in Nat /\ at \in Nat /\ offset \in Int
      /\ at + 1 \in 1..m /\ at + 2 \in 1..m
      /\ d \in Obj /\ rank[d] < rank[v[at + 2]]
      /\ pos = at + 1 + offset /\ from \in Nat /\ from <= at + 1
      /\ Moved(q, n + 1) = at + 1 /\ moved = pos - at
  BY EditFacts
<1>2. /\ p \in Seq(Ptr) /\ Len(p) \in Nat /\ Sorted(p, rank)
      /\ ToSet(p) \ {NULL} = Content(v, q, n)
      /\ \A j \in from..(m - 1) : /\ j + offset \in 0..(Len(p) - 1)
                                  /\ p[j + offset + 1] = v[j + 1]
  BY DEF PendingOK, Replays, Moved
<1>3. pos \in 0..(Len(p) - 1) /\ p[pos + 1] = v[at + 2]
  BY ReplayLands
<1>4. v[at + 2] \in Obj
  BY <1>1 DEF Edited
<1>5. ASSUME NEW x \in Content(v, q, n), rank[x] < rank[v[at + 2]] PROVE rank[x] < rank[d]
  BY <1>5, InsertsBetween
<1>6. Content(v, q, n + 1) = Content(v, q, n) \union {d}
  BY ContentNext
<1>7. s = InsertedAt(p, d, pos)
  OBVIOUS
<1> HIDE DEF at, pos, d, from, offset, moved, m
<1>8. p[pos + 1] # NULL /\ pos + 1 \in 1..Len(p) /\ pos \in Nat
  BY <1>2, <1>3, <1>4, NullAssumption
<1>9. \A k \in 1..pos : rank[p[k]] < rank[d]
  <2> SUFFICES ASSUME NEW k \in 1..pos PROVE rank[p[k]] < rank[d]
    OBVIOUS
  <2>1. k \in 1..Len(p) /\ k < pos + 1
    BY <1>2, <1>8
  <2>2. p[k] # NULL /\ rank[p[k]] < rank[p[pos + 1]]
    BY <2>1, <1>2, <1>8 DEF Sorted
  <2>3. p[k] \in Content(v, q, n)
    BY <2>1, <2>2, <1>2, ToSetFacts
  <2> QED
    BY <2>2, <2>3, <1>3, <1>5
<1>10. /\ Sorted(s, rank) /\ Len(s) > Len(p)
       /\ ToSet(s) \ {NULL} = (ToSet(p) \ {NULL}) \union {d}
       /\ \A k \in (pos + 1)..Len(p) : s[k + 1] = p[k]
  <2>1. rank[d] < rank[p[pos + 1]]
    BY <1>1, <1>3
  <2> QED
    BY <2>1, <1>1, <1>2, <1>3, <1>7, <1>8, <1>9, SortedInsert
<1>11. Len(s) \in Nat
  <2>1. d \in Ptr /\ pos \in Nat
    BY <1>1, <1>8 DEF Ptr
  <2>2. InsertedAs(p, d, pos)
    BY <2>1, <1>2, InsertionMade
  <2> QED
    BY <2>2, <1>7 DEF InsertedAs
<1>12. ASSUME NEW j \in (at + 1)..(m - 1)
       PROVE  j + moved \in 0..(Len(s) - 1) /\ s[j + moved + 1] = v[j + 1]
  <2>1. j \in from..(m - 1) /\ j >= at + 1 /\ j \in Nat
    BY <1>1
  <2>2. j + offset \in 0..(Len(p) - 1) /\ p[j + offset + 1] = v[j + 1]
    BY <2>1, <1>2
  <2>3. moved = offset + 1
    BY <1>1
  <2>4. j + offset + 1 \in (pos + 1)..Len(p)
    <3>0. \A x, y, z \in Int : x >= y => x + z >= y + z /\ x + z \in Int
      OBVIOUS
    <3>1. j + offset >= pos /\ j + offset \in Int
      BY <3>0, <2>1, <1>1
    <3>2. \A x, y \in Int, z \in Nat : x >= y /\ x \in 0..(z - 1) => x + 1 \in (y + 1)..z
      OBVIOUS
    <3> QED
      BY <3>1, <3>2, <2>2, <1>2, <1>8
  <2>5. s[(j + offset + 1) + 1] = p[j + offset + 1]
    BY <2>4, <1>10
  <2>6. j + moved + 1 = (j + offset + 1) + 1
    BY <2>1, <2>3, <1>1
  <2>7. j + moved \in 0..(Len(s) - 1)
    BY <2>1, <2>2, <2>3, <1>1, <1>2, <1>10, <1>11
  <2> QED
    BY <2>2, <2>5, <2>6, <2>7
<1>13. n + 1 \in 1..(Len(q) + 1) /\ n + 1 # 1 /\ (n + 1) - 1 = n
  BY <1>1
<1> QED
  BY <1>2, <1>6, <1>10, <1>12, <1>13 DEF Replays, at, moved, m

(* ... after a removal.                                                    *)
LEMMA ReplayRemove ==
  ASSUME NEW rank \in Ranks, NEW v, NEW q, Edited(v, q, rank), NEW n \in 1..Len(q),
         NEW p, PendingOK(p), Replays(p, v, q, n, rank), q[n].act = "remove",
         NEW s, s = RemovedAt(p, q[n].pos)
  PROVE  Replays(s, v, q, n + 1, rank)
<1> DEFINE at == q[n].at
           pos == q[n].pos
           from == Moved(q, n)
           offset == Offset(q, n)
           moved == Offset(q, n + 1)
           m == Len(v)
<1>1. /\ n \in Nat /\ Len(q) \in Nat /\ m \in Nat /\ at \in Nat /\ offset \in Int
      /\ pos = at + offset /\ from \in Nat /\ from <= at
      /\ moved = pos - at - 1
  BY EditFacts
<1>2. /\ p \in Seq(Ptr) /\ Len(p) \in Nat /\ Sorted(p, rank)
      /\ ToSet(p) \ {NULL} = Content(v, q, n)
      /\ \A j \in from..(m - 1) : /\ j + offset \in 0..(Len(p) - 1)
                                  /\ p[j + offset + 1] = v[j + 1]
  BY DEF PendingOK, Replays, Moved
<1>3. pos \in 0..(Len(p) - 1) /\ p[pos + 1] = v[at + 1]
  BY ReplayLands
<1>4. Content(v, q, n + 1) = Content(v, q, n) \ {v[at + 1]}
  BY ContentNext
<1>5. s = RemoveAt(p, pos + 1)
  BY DEF RemovedAt
<1> HIDE DEF at, pos, from, offset, moved, m
<1>6. pos + 1 \in 1..Len(p) /\ pos \in Nat
  BY <1>2, <1>3
<1>7. /\ Sorted(s, rank) /\ Len(s) = Len(p) - 1
      /\ ToSet(s) \ {NULL} = (ToSet(p) \ {NULL}) \ {p[pos + 1]}
      /\ \A k \in ((pos + 1) + 1)..Len(p) : s[k - 1] = p[k]
  <2>1. Without(s, p, pos + 1, rank)
    BY <1>2, <1>5, <1>6, SortedRemove
  <2> QED
    BY <2>1 DEF Without
<1>8. ToSet(s) \ {NULL} = Content(v, q, n + 1)
  BY <1>2, <1>3, <1>4, <1>7
<1>9. ASSUME NEW j \in (at + 1)..(m - 1)
      PROVE  j + moved \in 0..(Len(s) - 1) /\ s[j + moved + 1] = v[j + 1]
  <2>1. j \in from..(m - 1) /\ j >= at + 1 /\ j \in Nat
    BY <1>1
  <2>2. j + offset \in 0..(Len(p) - 1) /\ p[j + offset + 1] = v[j + 1]
    BY <2>1, <1>2
  <2>3. moved = offset - 1
    BY <1>1
  <2>4. j + offset + 1 \in ((pos + 1) + 1)..Len(p)
    BY <2>1, <2>2, <1>1, <1>2
  <2>5. s[(j + offset + 1) - 1] = p[j + offset + 1]
    BY <2>4, <1>7
  <2>6. j + moved + 1 = (j + offset + 1) - 1
    BY <2>1, <2>3, <1>1
  <2>7. j + moved \in 0..(Len(s) - 1)
    BY <2>1, <2>2, <2>3, <2>4, <1>1, <1>2, <1>6, <1>7
  <2> QED
    BY <2>2, <2>5, <2>6, <2>7
<1>10. n + 1 \in 1..(Len(q) + 1) /\ n + 1 # 1 /\ (n + 1) - 1 = n
  BY <1>1
<1> QED
  BY <1>7, <1>8, <1>9, <1>10 DEF Replays, at, moved, m

-----------------------------------------------------------------------------
(***************************************************************************)
(* Queueing an edit.                                                       *)
(***************************************************************************)

(* t is the queue of m with one more edit, counted.                        *)
Queued(t, m, e) ==
  /\ t \in Managers
  /\ e \in Edit
  /\ t.queue = Append(m.queue, e)
  /\ t.sync = 1 + IF e.act = "add" THEN e.pos - e.at ELSE e.pos - e.at - 1

(* One more element.                                                       *)
LEMMA QueuedFacts ==
  ASSUME NEW m \in Managers, NEW t, NEW e, Queued(t, m, e)
  PROVE  /\ Len(m.queue) \in Nat /\ Len(t.queue) = Len(m.queue) + 1
         /\ \A k \in 1..Len(m.queue) : k \in 1..Len(t.queue) /\ t.queue[k] = m.queue[k]
         /\ \A k \in 1..Len(t.queue) : k \in 1..Len(m.queue) \/ k = Len(t.queue)
         /\ Len(t.queue) \in 1..Len(t.queue)
         /\ t.queue[Len(t.queue)] = e
<1>1. m.queue \in Seq(Edit) /\ Len(m.queue) \in Nat /\ e \in Edit
  BY DEF Managers, Queued
<1>2. /\ Len(t.queue) = Len(m.queue) + 1
      /\ \A k \in 1..Len(m.queue) : t.queue[k] = m.queue[k]
      /\ t.queue[Len(m.queue) + 1] = e
  BY <1>1 DEF Queued
<1> QED
  BY <1>1, <1>2

(* What an edit that fits makes of a queue that fits.                      *)
LEMMA QueueFitsMore ==
  ASSUME NEW rank, NEW v, NEW m \in Managers, QueueFits(m, v, rank), NEW e, NEW t,
         Queued(t, m, e), EditFits(e, Offset(m.queue, Len(m.queue) + 1), v, rank),
         \A k \in 1..Len(m.queue) : Succeeds(m.queue[k], e, rank)
  PROVE  QueueFits(t, v, rank)
<1> DEFINE q == m.queue
           r == t.queue
           n == Len(m.queue)
<1>0. /\ n \in Nat /\ Len(r) = n + 1
      /\ \A k \in 1..n : k \in 1..Len(r) /\ r[k] = q[k]
      /\ \A k \in 1..Len(r) : k \in 1..n \/ k = n + 1
      /\ n + 1 \in 1..Len(r)
      /\ r[n + 1] = e
  BY QueuedFacts
<1>1. /\ \A k \in 1..n : /\ EditFits(q[k], Offset(q, k), v, rank)
                         /\ \A l \in 1..(k - 1) : Succeeds(q[l], q[k], rank)
      /\ EditFits(e, Offset(q, n + 1), v, rank)
      /\ \A k \in 1..n : Succeeds(q[k], e, rank)
  BY DEF QueueFits
<1>2. t.sync = 1 + IF e.act = "add" THEN e.pos - e.at ELSE e.pos - e.at - 1
  BY DEF Queued
<1> HIDE DEF q, r, n
<1>3. \A k \in 1..(n + 1) : Offset(r, k) = Offset(q, k)
  <2> SUFFICES ASSUME NEW k \in 1..(n + 1) PROVE Offset(r, k) = Offset(q, k)
    OBVIOUS
  <2>1. k # 1 => k - 1 \in 1..n
    BY <1>0
  <2> QED
    BY <2>1, <1>0 DEF Offset
<1>4. t.sync = 1 + Offset(r, Len(r) + 1)
  <2>1. Len(r) + 1 # 1 /\ (Len(r) + 1) - 1 = n + 1
    BY <1>0
  <2> QED
    BY <2>1, <1>0, <1>2 DEF Offset
<1>5. ASSUME NEW k \in 1..Len(r)
      PROVE  /\ EditFits(r[k], Offset(r, k), v, rank)
             /\ \A l \in 1..(k - 1) : Succeeds(r[l], r[k], rank)
  <2>1. k \in 1..(n + 1) /\ \A l \in 1..(k - 1) : l \in 1..n
    BY <1>0
  <2>2. CASE k \in 1..n
    BY <2>1, <2>2, <1>0, <1>1, <1>3
  <2>3. CASE k = n + 1
    BY <2>1, <2>3, <1>0, <1>1, <1>3
  <2> QED
    BY <2>2, <2>3, <1>0
<1> QED
  BY <1>4, <1>5 DEF QueueFits, r

(* Every queued edit names an instruction up to at, and inserts something  *)
(* that ranks below r.                                                     *)
Below(m, at, r, rank) ==
  \A k \in 1..Len(m.queue) :
    /\ m.queue[k].at <= at
    /\ m.queue[k].act = "add" => rank[m.queue[k].d] < r

(* The numbers in a queue.                                                 *)
LEMMA QueueTyped ==
  ASSUME NEW m \in Managers
  PROVE  /\ Len(m.queue) \in Nat /\ m.sync \in Int
         /\ \A k \in 1..Len(m.queue) :
              m.queue[k] \in Edit /\ m.queue[k].pos \in Int /\ m.queue[k].at \in Nat
         /\ Offset(m.queue, Len(m.queue) + 1) \in Int
<1> DEFINE q == m.queue
           n == Len(q)
<1>1. q \in Seq(Edit) /\ n \in Nat /\ m.sync \in Int
  BY DEF Managers
<1>2. \A k \in 1..n : q[k] \in Edit
  BY <1>1
<1>3. \A e \in Edit : e.pos \in Int /\ e.at \in Nat
  BY DEF Edit
<1>4. \A k \in 1..n : q[k].pos \in Int /\ q[k].at \in Nat
  BY <1>2, <1>3
<1> HIDE DEF q, n
<1>5. /\ (n + 1) - 1 = n
      /\ n + 1 # 1 => n \in 1..n
  BY <1>1
<1>6. Offset(q, n + 1) \in Int
  <2>1. CASE n + 1 = 1
    BY <2>1 DEF Offset
  <2>2. CASE n + 1 # 1
    <3>1. q[n].pos - q[n].at \in Int /\ q[n].pos - q[n].at - 1 \in Int
      BY <2>2, <1>4, <1>5
    <3> QED
      BY <3>1, <2>2, <1>5 DEF Offset
  <2> QED
    BY <2>1, <2>2
<1> QED
  BY <1>1, <1>2, <1>4, <1>6 DEF q, n

(* What queueing does.                                                     *)
LEMMA QueueAddIs ==
  ASSUME NEW m \in Managers, NEW idx \in Nat, NEW d \in Ptr
  PROVE  Queued(QueueAdd(m, idx, d), m,
                [act |-> "add", pos |-> idx + m.sync, at |-> idx, d |-> d])
<1>1. m.queue \in Seq(Edit) /\ m.sync \in Int
  BY DEF Managers
<1> DEFINE e == [act |-> "add", pos |-> idx + m.sync, at |-> idx, d |-> d]
           t == QueueAdd(m, idx, d)
<1>2. e \in Edit
  BY <1>1 DEF Edit
<1>3. t.queue = Append(m.queue, e) /\ t.sync = m.sync + 1 /\ t \in Managers
  BY <1>1, <1>2 DEF QueueAdd, Managers
<1>4. m.sync + 1 = 1 + (e.pos - e.at)
  BY <1>1
<1> QED
  BY <1>2, <1>3, <1>4 DEF Queued

(* The same of a removal.                                                  *)
LEMMA QueueRemoveIs ==
  ASSUME NEW m \in Managers, NEW idx \in Nat
  PROVE  Queued(QueueRemove(m, idx), m,
                [act |-> "remove", pos |-> idx + m.sync - 1, at |-> idx, d |-> NULL])
<1>1. m.queue \in Seq(Edit) /\ m.sync \in Int
  BY DEF Managers
<1> DEFINE e == [act |-> "remove", pos |-> idx + m.sync - 1, at |-> idx, d |-> NULL]
           t == QueueRemove(m, idx)
<1>2. e \in Edit
  BY <1>1 DEF Edit, Ptr
<1>3. t.queue = Append(m.queue, e) /\ t.sync = m.sync - 1 /\ t \in Managers
  BY <1>1, <1>2 DEF QueueRemove, Managers
<1>4. m.sync - 1 = 1 + (e.pos - e.at - 1)
  BY <1>1
<1> QED
  BY <1>2, <1>3, <1>4 DEF Queued

(* An insertion behind all that was queued fits.                           *)
LEMMA AddFits ==
  ASSUME NEW rank, NEW v, NEW m \in Managers, QueueFits(m, v, rank),
         NEW idx \in Nat, idx + 1 < Len(v), NEW d \in Obj \ ToSet(v),
         rank[v[idx + 1]] < rank[d], rank[d] < rank[v[idx + 2]],
         Below(m, idx, rank[d], rank)
  PROVE  QueueFits(QueueAdd(m, idx, d), v, rank)
<1> DEFINE e == [act |-> "add", pos |-> idx + m.sync, at |-> idx, d |-> d]
           t == QueueAdd(m, idx, d)
           offset == Offset(m.queue, Len(m.queue) + 1)
<1>1. Queued(t, m, e)
  BY QueueAddIs DEF Ptr
<1>2. e.act = "add" /\ e.at = idx /\ e.d = d /\ e.pos = idx + m.sync
  OBVIOUS
<1> HIDE DEF e, t
<1>3. m.sync \in Int /\ m.sync = 1 + offset
  BY DEF Managers, QueueFits
<1>4. offset \in Int
  BY QueueTyped
<1> HIDE DEF offset
<1>5. e.pos = e.at + 1 + offset
  BY <1>2, <1>3, <1>4
<1>6. EditFits(e, offset, v, rank)
  BY <1>2, <1>5 DEF EditFits
<1>7. \A k \in 1..Len(m.queue) : Succeeds(m.queue[k], e, rank)
  BY <1>2 DEF Below, Succeeds
<1> QED
  BY <1>1, <1>6, <1>7, QueueFitsMore DEF t, offset

(* A removal behind all that was queued fits.                              *)
LEMMA RemoveFits ==
  ASSUME NEW rank, NEW v, NEW m \in Managers, QueueFits(m, v, rank),
         NEW idx \in Nat, idx + 1 < Len(v),
         \A k \in 1..Len(m.queue) : m.queue[k].at < idx
  PROVE  QueueFits(QueueRemove(m, idx), v, rank)
<1> DEFINE e == [act |-> "remove", pos |-> idx + m.sync - 1, at |-> idx, d |-> NULL]
           t == QueueRemove(m, idx)
           offset == Offset(m.queue, Len(m.queue) + 1)
<1>1. Queued(t, m, e)
  BY QueueRemoveIs
<1>2. e.act = "remove" /\ e.at = idx /\ e.pos = idx + m.sync - 1
  OBVIOUS
<1> HIDE DEF e, t
<1>3. m.sync \in Int /\ m.sync = 1 + offset
  BY DEF Managers, QueueFits
<1>4. offset \in Int
  BY QueueTyped
<1> HIDE DEF offset
<1>5. e.pos = e.at + offset
  BY <1>2, <1>3, <1>4
<1>6. EditFits(e, offset, v, rank)
  BY <1>2, <1>5 DEF EditFits
<1>7. \A k \in 1..Len(m.queue) : Succeeds(m.queue[k], e, rank)
  BY <1>2 DEF Succeeds
<1> QED
  BY <1>1, <1>6, <1>7, QueueFitsMore DEF t, offset

-----------------------------------------------------------------------------
(***************************************************************************)
(* Opcodes and ranks.                                                      *)
(***************************************************************************)

TranslatedOps ==
  {"OP_NOP", "OP_MOVE", "OP_LOADBOOL", "OP_SELF", "OP_JUMP", "OP_JUMPBACK",
   "OP_INITFORLOOPN", "OP_INITFORLOOPG", "OP_INITFORLOOPSPECIAL", "OP_FORLOOPN",
   "OP_FORLOOPG", "OP_RETURN"}

(* What parse_instructions emits.                                          *)
LEMMA TranslatedFacts ==
  ASSUME NEW b PROVE Translated(b) \in TranslatedOps
  BY DEF Translated, TranslatedOps

(* The roles of opcodes, and their kinds.                                  *)
LEMMA Roles ==
  /\ \A op : Role(op) \in 0..3
  /\ \A op \in TranslatedOps : /\ Role(op) = 0
                               /\ KindOf(op) = IF op = "OP_NOP" THEN "nop"
                                               ELSE IF op \in TakesJump THEN "jump"
                                               ELSE "other"
  /\ \A op \in {"OP_CMPS", "OP_CMP"} : Role(op) = 1 /\ KindOf(op) = "other"
  /\ \A op \in Branches : Role(op) = 2 /\ KindOf(op) = "jump"
  /\ \A op \in Settings : Role(op) = 2 /\ KindOf(op) = "other"
  /\ Role("OP_POPARG") = 3 /\ KindOf("OP_POPARG") = "other"
<1>1. \A op : Role(op) \in 0..3
  BY DEF Role
<1>2. \A op \in TranslatedOps : op \notin {"OP_CMPS", "OP_CMP", "OP_POPARG"}
                                          \union Branches \union Settings
  BY DEF TranslatedOps, Branches, Settings
<1>3. \A op \in {"OP_CMPS", "OP_CMP"} : op # "OP_NOP" /\ op \notin TakesJump \union Branches
  BY DEF TakesJump, Branches
<1>4. \A op \in Branches \union Settings : op \notin {"OP_NOP", "OP_CMPS", "OP_CMP"}
  BY DEF Branches, Settings
<1>5. \A op \in Settings : op \notin TakesJump \union Branches
  BY DEF Branches, Settings, TakesJump
<1>6. "OP_POPARG" \notin {"OP_NOP", "OP_CMPS", "OP_CMP"} \union Branches \union Settings
                           \union TakesJump
  BY DEF Branches, Settings, TakesJump
<1> QED
  BY <1>1, <1>2, <1>3, <1>4, <1>5, <1>6 DEF Role, KindOf

(* The opcodes of a compare.                                               *)
LEMMA HalfOpcodes ==
  /\ \A op : CompareOp(op) \in {"OP_CMPS", "OP_CMP"}
  /\ \A op \in Tests \union Binary : JumpOp(op) \in Branches
  /\ \A op \in Binary \ JumpOnly : SetOp(op) \in Settings
  BY DEF CompareOp, JumpOp, SetOp, Tests, Binary, JumpOnly, Branches, Settings

(* The rank of an instruction, in numbers.                                 *)
LEMMA RankFacts ==
  ASSUME NEW n \in Nat, code \in Codes(n)
  PROVE  /\ Rank \in Ranks
         /\ \A d \in Obj : /\ code[d] \in [op : ILOps, at : 0..n]
                           /\ code[d].at \in 0..n
                           /\ code[d] = [op |-> code[d].op, at |-> code[d].at]
                           /\ Rank[d] = 4 * code[d].at + Role(code[d].op)
                           /\ Role(code[d].op) \in 0..3
<1>1. \A d \in Obj : /\ code[d] \in [op : ILOps, at : 0..n]
                     /\ code[d].at \in 0..n
                     /\ code[d] = [op |-> code[d].op, at |-> code[d].at]
  BY DEF Codes
<1>2. \A d \in Obj : Role(code[d].op) \in 0..3
  BY Roles
<1>3. \A d \in Obj : Rank[d] = 4 * code[d].at + Role(code[d].op)
  BY DEF Rank
<1>4. \A d \in Obj : 4 * code[d].at + Role(code[d].op) \in Int
  <2>1. \A a \in 0..n, b \in 0..3 : 4 * a + b \in Int
    OBVIOUS
  <2> QED
    BY <1>1, <1>2, <2>1
<1> QED
  BY <1>1, <1>2, <1>3, <1>4 DEF Rank, Ranks

(* A queue fits under other ranks if they are the same of what it is about.*)
LEMMA QueueFitsRanked ==
  ASSUME NEW rank, NEW new, NEW S, NEW v \in Seq(S), NEW m \in Managers,
         QueueFits(m, v, rank), \A x \in S : new[x] = rank[x],
         \A k \in 1..Len(m.queue) : m.queue[k].act = "add" => m.queue[k].d \in S
  PROVE  QueueFits(m, v, new)
<1> DEFINE q == m.queue
<1>1. ASSUME NEW k \in 1..Len(q), EditFits(q[k], Offset(q, k), v, rank)
      PROVE  EditFits(q[k], Offset(q, k), v, new)
  <2>1. q[k].at \in Nat
    BY QueueTyped
  <2>2. q[k].at + 1 < Len(v) => q[k].at + 1 \in 1..Len(v) /\ q[k].at + 2 \in 1..Len(v)
    BY <2>1
  <2>3. q[k].at + 1 < Len(v) => v[q[k].at + 1] \in S /\ v[q[k].at + 2] \in S
    BY <2>2
  <2> QED
    BY <1>1, <2>3 DEF EditFits
<1>2. ASSUME NEW k \in 1..Len(q), NEW l \in 1..(k - 1), Succeeds(q[l], q[k], rank)
      PROVE  Succeeds(q[l], q[k], new)
  <2>1. l \in 1..Len(q)
    BY QueueTyped
  <2> QED
    BY <1>2, <2>1 DEF Succeeds
<1> QED
  BY <1>1, <1>2 DEF QueueFits

(* So does a sorted vector.                                                *)
LEMMA SortedRanked ==
  ASSUME NEW rank, NEW new, NEW S, NEW s \in Seq(S \union {NULL}), Sorted(s, rank),
         \A x \in S : new[x] = rank[x]
  PROVE  Sorted(s, new)
<1>1. \A k \in 1..Len(s) : s[k] = NULL \/ s[k] \in S
  OBVIOUS
<1> QED
  BY <1>1 DEF Sorted

-----------------------------------------------------------------------------
(***************************************************************************)
(* The bytecode.                                                           *)
(***************************************************************************)

(* Addresses grow.                                                         *)
LEMMA AddressesGrow ==
  ASSUME ProgramOK(prog), NEW i \in 1..Len(prog), NEW j \in 1..Len(prog), i < j
  PROVE  prog[i].addr < prog[j].addr
<1> DEFINE n == Len(prog)
           a(k) == prog[k].addr
           P == {d \in Nat : i + 1 + d <= n => a(i) < a(i + 1 + d)}
<1>0. /\ n \in Nat /\ i \in Nat /\ j \in Nat
      /\ \A k \in 1..n : a(k) \in Nat
      /\ \A k \in 1..(n - 1) : a(k) < a(k + 1)
  <2>1. /\ n \in Nat \ {0}
        /\ \A k \in 1..n : a(k) \in Nat /\ prog[k].len \in {1, 2}
    BY InstructionFacts
  <2>2. \A k \in 1..(n - 1) : a(k + 1) = a(k) + prog[k].len
    BY DEF ProgramOK
  <2>3. \A x, y \in Nat, l \in {1, 2} : y = x + l => x < y
    OBVIOUS
  <2>4. \A k \in 1..(n - 1) : k \in 1..n /\ k + 1 \in 1..n
    BY <2>1
  <2>5. \A k \in 1..(n - 1) : a(k) < a(k + 1)
    <3> SUFFICES ASSUME NEW k \in 1..(n - 1) PROVE a(k) < a(k + 1)
      OBVIOUS
    <3>1. a(k) \in Nat /\ a(k + 1) \in Nat /\ prog[k].len \in {1, 2}
      BY <2>1, <2>4
    <3>2. a(k + 1) = a(k) + prog[k].len
      BY <2>2
    <3> QED
      BY <3>1, <3>2, <2>3
  <2> QED
    BY <2>1, <2>5
<1> HIDE DEF a
<1>1. 0 \in P
  <2>1. i + 1 <= n => i \in 1..(n - 1)
    BY <1>0
  <2>2. i + 1 + 0 = i + 1
    BY <1>0
  <2> QED
    BY <1>0, <2>1, <2>2
<1>2. ASSUME NEW d \in Nat, d \in P PROVE d + 1 \in P
  <2> SUFFICES ASSUME i + 1 + (d + 1) <= n PROVE a(i) < a(i + 1 + (d + 1))
    OBVIOUS
  <2>1. /\ i + 1 + d \in 1..(n - 1) /\ i + 1 + d \in 1..n /\ i + 1 + d <= n
        /\ (i + 1 + d) + 1 = i + 1 + (d + 1)
        /\ i + 1 + (d + 1) \in 1..n /\ i \in 1..n
    BY <1>0
  <2>2. a(i) < a(i + 1 + d) /\ a(i + 1 + d) < a(i + 1 + (d + 1))
    BY <2>1, <1>0, <1>2
  <2>3. a(i) \in Nat /\ a(i + 1 + d) \in Nat /\ a(i + 1 + (d + 1)) \in Nat
    BY <2>1, <1>0
  <2> QED
    BY <2>2, <2>3
<1> HIDE DEF P
<1>3. \A d \in Nat : d \in P
  BY <1>1, <1>2, Induction
<1>4. j - (i + 1) \in Nat /\ i + 1 + (j - (i + 1)) = j /\ j <= n
  BY <1>0
<1>5. j - (i + 1) \in P
  BY <1>3, <1>4
<1>6. a(i) < a(j)
  BY <1>4, <1>5 DEF P
<1> QED
  BY <1>6 DEF a

(* The instructions have different addresses.                              *)
LEMMA AddressesDiffer ==
  ASSUME ProgramOK(prog), NEW i \in 1..Len(prog), NEW j \in 1..Len(prog),
         prog[i].addr = prog[j].addr
  PROVE  i = j
<1>1. prog[i].addr \in Nat /\ i \in Nat /\ j \in Nat
  BY InstructionFacts
<1>2. ~(i < j) /\ ~(j < i)
  BY <1>1, AddressesGrow
<1> QED
  BY <1>1, <1>2

(* Before the edits visit_addr finds the very instruction that was made of *)
(* the bytecode instruction at that address.                               *)
LEMMA VisitsOriginal ==
  ASSUME ProgramOK(prog), dis \in Seq(Obj), Originals(dis, Len(prog)),
         NEW i \in 1..Len(prog)
  PROVE  VisitAddr(prog[i].addr) = dis[i]
<1>1. Visitable(prog[i].addr)
  BY OriginalsVisitable
<1>2. /\ VisitAddr(prog[i].addr) \in ToSet(dis)
      /\ obj[VisitAddr(prog[i].addr)].addr = prog[i].addr
  BY <1>1, VisitFacts
<1>3. PICK k \in 1..Len(dis) : dis[k] = VisitAddr(prog[i].addr)
  BY <1>2, ToSetFacts
<1>4. k \in 1..Len(prog) /\ obj[dis[k]].addr = prog[k].addr
  BY DEF Originals, Original
<1> QED
  BY <1>2, <1>3, <1>4, AddressesDiffer

(* A pair of LOADB is recognised.                                          *)
LEMMA PairIsSet ==
  ASSUME ProgramOK(prog), NEW j \in 1..Len(prog), Pair(prog, j)
  PROVE  SetCmp(j)
<1>1. /\ Len(prog) \in Nat /\ j + 3 \in 1..Len(prog) /\ j + 1 \in 1..Len(prog)
      /\ j + 2 \in 1..Len(prog) /\ j < Len(prog) /\ j \in Nat
  BY InstructionFacts DEF Pair
<1>2. prog[j + 1].to = j + 3 /\ j + 3 # 0
  BY <1>1 DEF Pair
<1>3. prog[j + 1].jmp = prog[j + 3].addr - prog[j + 1].addr - 1
  BY <1>1, <1>2 DEF ProgramOK
<1>4. prog[j + 1].addr < prog[j + 2].addr /\ prog[j + 2].addr < prog[j + 3].addr
  BY <1>1, AddressesGrow
<1>5. /\ prog[j + 1].addr \in Nat /\ prog[j + 2].addr \in Nat /\ prog[j + 3].addr \in Nat
  BY <1>1, InstructionFacts
<1>6. \A a, b, c \in Nat : a < b /\ b < c => c - a - 1 # 0
  OBVIOUS
<1>7. prog[j + 1].jmp # 0
  BY <1>3, <1>4, <1>5, <1>6
<1> QED
  BY <1>1, <1>7 DEF SetCmp, Pair

(* A compare whose outcome becomes a value, and its LOADB.                 *)
LEMMA SetFacts ==
  ASSUME ProgramOK(prog), NEW j \in 1..Len(prog), Compared(j), SetCmp(j)
  PROVE  /\ j \in Nat /\ j + 1 \in 1..Len(prog) /\ j + 2 \in 1..Len(prog)
         /\ j + 3 \in 1..Len(prog)
         /\ prog[j].op \in Binary \ JumpOnly
         /\ prog[j + 1].op = "LOP_LOADB" /\ prog[j + 2].op = "LOP_LOADB"
         /\ prog[j].to = j + 2 /\ prog[j + 1].to = j + 3 /\ prog[j + 2].to = j + 3
         /\ prog[j + 3].op # "LOP_LOADB"
<1>1. Pair(prog, j)
  BY SetIsPair DEF Compared
<1>2. Len(prog) \in Nat /\ j \in Nat
  BY InstructionFacts
<1>3. j + 1 \in 1..Len(prog) /\ j + 2 \in 1..Len(prog)
  BY <1>1, <1>2 DEF Pair
<1>4. prog[j].op \in Binary \ JumpOnly
  BY <1>1 DEF Pair, Compared, JumpOnly
<1> QED
  BY <1>1, <1>2, <1>3, <1>4 DEF Pair

(* What a compare takes in is a LOADB that its outcome makes superfluous.  *)
LEMMA AbsorbedFacts ==
  ASSUME ProgramOK(prog), NEW i \in 1..Len(prog), Absorbed(i)
  PROVE  /\ prog[i].op = "LOP_LOADB"
         /\ \E j \in 1..Len(prog) : Compared(j) /\ SetCmp(j) /\ i \in {j + 1, j + 2}
<1>1. PICK j \in 1..(i - 1) : Compared(j) /\ SetCmp(j) /\ i \in {j + 1, j + 2}
  BY DEF Absorbed
<1>2. j \in 1..Len(prog)
  BY InstructionFacts
<1> QED
  BY <1>1, <1>2, SetFacts

(* A compare is not the last instruction, and no other one takes it in.    *)
LEMMA ComparedFacts ==
  ASSUME ProgramOK(prog), NEW i \in 1..Len(prog), Compared(i)
  PROVE  /\ i < Len(prog)
         /\ ~Absorbed(i)
         /\ Translated(prog[i]) = "OP_NOP"
         /\ SetCmp(i) => UseOp(i) \in Settings
         /\ ~SetCmp(i) => UseOp(i) \in Branches
<1>0. Len(prog) \in Nat /\ i \in Nat
  BY InstructionFacts
<1>1. prog[i].op \in Tests \union Binary
  BY DEF Compared
<1>2. prog[i].op # "LOP_LOADB" /\ prog[i].op # "LOP_RETURN"
  BY <1>1, OpcodesDiffer
<1>3. i < Len(prog)
  BY <1>0, <1>2 DEF ProgramOK
<1>4. ~Absorbed(i)
  BY <1>2, AbsorbedFacts
<1>5. Translated(prog[i]) = "OP_NOP"
  BY <1>1 DEF Translated, Tests, Binary
<1>6. SetCmp(i) => UseOp(i) \in Settings
  BY SetFacts, HalfOpcodes DEF UseOp
<1>7. ~SetCmp(i) => UseOp(i) \in Branches
  BY <1>1, HalfOpcodes DEF UseOp
<1> QED
  BY <1>3, <1>4, <1>5, <1>6, <1>7

(* A call of self is lifted to one instruction before it gets OP_POPARG.   *)
LEMMA SelfCallFacts ==
  ASSUME ProgramOK(prog), NEW i \in 1..Len(prog), SelfCall(i)
  PROVE  /\ Translated(prog[i]) = "OP_SELF"
         /\ ~Absorbed(i) /\ ~Compared(i)
         /\ i < Len(prog)
<1>1. Translated(prog[i]) = "OP_SELF"
  BY Zenon DEF SelfCall, Translated
<1>2. prog[i].op # "LOP_LOADB" /\ prog[i].op # "LOP_RETURN"
  BY Zenon DEF SelfCall
<1>3. ~Compared(i)
  BY Zenon DEF SelfCall, Compared, Tests, Binary
<1>4. ~Absorbed(i)
  BY <1>2, AbsorbedFacts, Zenon
<1>5. i # Len(prog)
  BY <1>2, Zenon DEF ProgramOK
<1>6. Len(prog) \in Nat
  BY InstructionFacts, Zenon
<1>7. \A m \in Nat : \A x \in 1..m : x # m => x < m
  OBVIOUS
<1> QED
  BY <1>1, <1>3, <1>4, <1>5, <1>6, <1>7, Zenon

(* Which instructions get one.                                             *)
LEMMA PopsArgIs ==
  ASSUME NEW d PROVE PopsArg(d) <=> code[d].op = "OP_SELF" /\ SelfCall(code[d].at)
  BY Zenon DEF PopsArg, SelfCall

(* What AfterParse and AfterResolve ask for depends on the program only.   *)
LEMMA SameProgram ==
  ASSUME prog' = prog
  PROVE  /\ \A i : Compared(i)' = Compared(i) /\ SetCmp(i)' = SetCmp(i)
                   /\ UseOp(i)' = UseOp(i) /\ Halves(i)' = Halves(i)
         /\ AfterParse' = AfterParse
         /\ AfterResolve' = AfterResolve
<1>1. \A i : Compared(i)' = Compared(i) /\ SetCmp(i)' = SetCmp(i)
             /\ UseOp(i)' = UseOp(i)
  BY DEF Compared, SetCmp, UseOp
<1>2. \A i : Halves(i)' = Halves(i)
  BY <1>1 DEF Halves
<1>3. \A i : Expansion(i)' = Expansion(i)
  BY <1>1 DEF Expansion, Absorbed
<1>4. \A i : SelfCall(i)' = SelfCall(i)
  BY Zenon DEF SelfCall
<1> QED
  BY <1>1, <1>2, <1>3, <1>4 DEF AfterParse, AfterResolve

-----------------------------------------------------------------------------
(***************************************************************************)
(* What is queued.                                                         *)
(***************************************************************************)

(* Insertions, for any opcodes of the instructions.                        *)
Given(q, c) == {c[q[k].d] : k \in {k \in 1..Len(q) : q[k].act = "add"}}

(* t queues one insertion, one removal more than m.                        *)
Adds(t, m, e) ==
  /\ \A c : Given(t.queue, c) = Given(m.queue, c) \union {c[e.d]}
  /\ Removals(t.queue) = Removals(m.queue)

Removes(t, m, e) ==
  /\ \A c : Given(t.queue, c) = Given(m.queue, c)
  /\ Removals(t.queue) = Removals(m.queue) \union {e.at}

(* One more edit.                                                          *)
LEMMA GivenMore ==
  ASSUME NEW m \in Managers, NEW t, NEW e, Queued(t, m, e)
  PROVE  /\ e.act = "add" => Adds(t, m, e)
         /\ e.act = "remove" => Removes(t, m, e)
<1>1. /\ \A k \in 1..Len(m.queue) : k \in 1..Len(t.queue) /\ t.queue[k] = m.queue[k]
      /\ \A k \in 1..Len(t.queue) : k \in 1..Len(m.queue) \/ k = Len(t.queue)
      /\ Len(t.queue) \in 1..Len(t.queue)
      /\ t.queue[Len(t.queue)] = e
  BY QueuedFacts
<1>2. ASSUME NEW c
      PROVE  \A x : x \in Given(t.queue, c) <=>
                      \/ x \in Given(m.queue, c)
                      \/ e.act = "add" /\ x = c[e.d]
  BY <1>1 DEF Given
<1>3. \A x : x \in Removals(t.queue) <=>
               \/ x \in Removals(m.queue)
               \/ e.act = "remove" /\ x = e.at
  BY <1>1 DEF Removals
<1>4. CASE e.act = "add"
  <2>1. \A c : Given(t.queue, c) = Given(m.queue, c) \union {c[e.d]}
    BY <1>2, <1>4
  <2>2. Removals(t.queue) = Removals(m.queue)
    BY <1>3, <1>4
  <2> QED
    BY <1>4, <2>1, <2>2 DEF Adds
<1>5. CASE e.act = "remove"
  <2>1. ASSUME NEW c PROVE Given(t.queue, c) = Given(m.queue, c)
    <3>1. \A x : x \in Given(t.queue, c) <=> x \in Given(m.queue, c)
      BY <1>2, <1>5
    <3> QED
      BY <3>1
  <2>2. Removals(t.queue) = Removals(m.queue) \union {e.at}
    BY <1>3, <1>5
  <2> QED
    BY <1>5, <2>1, <2>2 DEF Removes
<1> QED
  BY <1>4, <1>5

(* Only what is queued matters.                                            *)
LEMMA GivenSame ==
  ASSUME NEW q, NEW c, NEW f,
         \A k \in 1..Len(q) : q[k].act = "add" => f[q[k].d] = c[q[k].d]
  PROVE  Given(q, f) = Given(q, c)
  BY DEF Given

(* Every queued edit, by what the queue inserts and removes.               *)
LEMMA QueueEdits ==
  ASSUME NEW v, NEW m, NEW rank, QueueFits(m, v, rank), NEW k \in 1..Len(m.queue), NEW c
  PROVE  \/ m.queue[k].act = "add" /\ c[m.queue[k].d] \in Given(m.queue, c)
         \/ m.queue[k].act = "remove" /\ m.queue[k].at \in Removals(m.queue)
<1>1. m.queue[k].act \in {"add", "remove"}
  BY DEF QueueFits, EditFits
<1> QED
  BY <1>1 DEF Given, Removals

(* Nothing is queued yet.                                                  *)
LEMMA NothingQueued ==
  /\ \A v, rank : QueueFits(EmptyManager, v, rank)
  /\ \A c : Given(EmptyManager.queue, c) = {}
  /\ Removals(EmptyManager.queue) = {}
  BY DEF EmptyManager, QueueFits, Given, Removals, Offset

(* T holds the opcodes w asks for, one by one.                             *)
Holds(T, c, n, w) ==
  /\ \A d \in T : \E i \in 1..n : \E op \in w[i] : c[d] = [op |-> op, at |-> i]
  /\ \A i \in 1..n : \A op \in w[i] : \E d \in T : c[d] = [op |-> op, at |-> i]

(* That is what LaidOut says of them.                                      *)
LEMMA HoldsThem ==
  ASSUME NEW T, NEW c, NEW n, NEW w
  PROVE  Holds(T, c, n, w) <=>
           {c[d] : d \in T} = UNION {{[op |-> op, at |-> i] : op \in w[i]} : i \in 1..n}
<1> DEFINE U == UNION {{[op |-> op, at |-> i] : op \in w[i]} : i \in 1..n}
<1>1. \A x : x \in U <=> \E i \in 1..n : \E op \in w[i] : x = [op |-> op, at |-> i]
  OBVIOUS
<1> HIDE DEF U
<1>2. ASSUME Holds(T, c, n, w) PROVE {c[d] : d \in T} = U
  <2>1. ASSUME NEW d \in T PROVE c[d] \in U
    BY <1>1, <1>2 DEF Holds
  <2>2. ASSUME NEW x \in U PROVE \E d \in T : x = c[d]
    BY <1>1, <1>2 DEF Holds
  <2>3. \A x : x \in {c[d] : d \in T} <=> x \in U
    BY <2>1, <2>2
  <2> QED
    BY <2>3
<1>3. ASSUME {c[d] : d \in T} = U PROVE Holds(T, c, n, w)
  <2>1. \A d \in T : c[d] \in U
    BY <1>3
  <2>2. \A x \in U : \E d \in T : x = c[d]
    BY <1>3
  <2> QED
    BY <2>1, <2>2, <1>1 DEF Holds
<1> QED
  BY <1>2, <1>3 DEF U

(* The opcode of an instruction that is asked for.                         *)
LEMMA HoldsFacts ==
  ASSUME NEW T, NEW c, NEW n, NEW w, Holds(T, c, n, w), NEW d \in T
  PROVE  c[d].at \in 1..n /\ c[d].op \in w[c[d].at]
<1>1. PICK i \in 1..n : \E op \in w[i] : c[d] = [op |-> op, at |-> i]
  BY DEF Holds
<1> QED
  BY <1>1

-----------------------------------------------------------------------------
(***************************************************************************)
(* What the edits make of the two vectors.                                 *)
(***************************************************************************)

(* An expansion, opcode by opcode.                                         *)
LEMMA ExpansionFacts ==
  ASSUME NEW i
  PROVE  /\ \A op : op \in Expansion(i) <=> \/ ~Absorbed(i) /\ op = Translated(prog[i])
                                            \/ Compared(i) /\ op \in {CompareOp(prog[i].op), UseOp(i)}
         /\ \A x : x \in Halves(i) <=>
                     \E op \in {CompareOp(prog[i].op), UseOp(i)} : x = [op |-> op, at |-> i]
  BY DEF Expansion, Halves

(* The queue of parse_compares, edit by edit.                              *)
LEMMA ComparesQueuedFacts ==
  ASSUME NEW i, ComparesQueued(i)
  PROVE  /\ \A x : x \in Given(pm.queue, code) <=>
                     \E j \in 1..(i - 1) : Compared(j) /\ x \in Halves(j)
         /\ \A x : x \in Removals(pm.queue) <=>
                     \E j \in 1..(i - 1) : Compared(j) /\ SetCmp(j) /\ x \in {j, j + 1}
<1>1. /\ Given(pm.queue, code) = UNION {Halves(j) : j \in {j \in 1..(i - 1) : Compared(j)}}
      /\ Removals(pm.queue)
           = UNION {{j, j + 1} : j \in {j \in 1..(i - 1) : Compared(j) /\ SetCmp(j)}}
  BY DEF ComparesQueued, Given, Insertions
<1> QED
  BY <1>1

(* Every edit of parse_compares made, the pending vector is as AfterParse  *)
(* asks for.                                                               *)
LEMMA ParseLaidOut ==
  ASSUME LiftInv, OneForOne(dis), ComparesQueued(Len(prog) + 1),
         Replays(p_dis, dis, pm.queue, lift.i, Rank), lift.i > Len(pm.queue)
  PROVE  LaidOut(p_dis, AfterParse)
<1> DEFINE q == pm.queue
           n == Len(q) + 1
           T == ToSet(p_dis) \ {NULL}
           m == Len(prog)
<1>1. /\ m \in Nat \ {0} /\ Len(q) \in Nat /\ lift.i \in Nat
  BY StateFacts
<1>3. lift.i = n /\ (m + 1) - 1 = m /\ n - 1 = Len(q)
  <2>1. lift.i \in 1..(Len(q) + 1)
    BY DEF Replays
  <2>2. lift.i > Len(q)
    OBVIOUS
  <2> HIDE DEF q, m
  <2> QED
    BY <2>1, <2>2, <1>1
<1>4. Sorted(p_dis, Rank) /\ T = Content(dis, q, n)
  BY <1>3 DEF Replays
<1>5. Len(dis) = m /\ \A j \in 1..m : code[dis[j]] = [op |-> Translated(prog[j]), at |-> j]
  BY DEF OneForOne
<1>6. /\ \A x : x \in Given(q, code) <=> \E j \in 1..m : Compared(j) /\ x \in Halves(j)
      /\ \A x : x \in Removals(q) <=>
                  \E j \in 1..m : Compared(j) /\ SetCmp(j) /\ x \in {j, j + 1}
  BY <1>3, ComparesQueuedFacts
<1>7. \A x : x \in T <=> \/ \E j \in 1..m : Keeps(q, n, j) /\ x = dis[j]
                         \/ \E k \in 1..Len(q) : q[k].act = "add" /\ x = q[k].d
  <2>1. \A x : x \in Content(dis, q, n) <=>
                  \/ \E j \in 1..Len(dis) : Keeps(q, n, j) /\ x = dis[j]
                  \/ \E k \in 1..(n - 1) : q[k].act = "add" /\ x = q[k].d
    BY ContentFacts
  <2> HIDE DEF q, n, T, m
  <2> QED
    BY <2>1, <1>3, <1>4, <1>5
<1>8. \A k \in 1..Len(q) : q[k].at \in Nat
  BY QueueTyped, StateFacts
<1>9. \A i \in 1..m : Keeps(q, n, i) <=> ~Absorbed(i)
  <2> SUFFICES ASSUME NEW i \in 1..m PROVE Keeps(q, n, i) <=> ~Absorbed(i)
    OBVIOUS
  <2>1. Keeps(q, n, i) <=> ~\E k \in 1..Len(q) : q[k].act = "remove" /\ q[k].at + 1 = i
    BY <1>3 DEF Keeps
  <2>2. ASSUME Absorbed(i) PROVE ~Keeps(q, n, i)
    <3>1. PICK j \in 1..m : Compared(j) /\ SetCmp(j) /\ i \in {j + 1, j + 2}
      BY <2>2, AbsorbedFacts DEF LiftInv
    <3>2. i - 1 \in {j, j + 1} /\ (i - 1) + 1 = i
      <4>1. \A x, y \in Nat : x \in {y + 1, y + 2} => x - 1 \in {y, y + 1} /\ (x - 1) + 1 = x
        OBVIOUS
      <4> QED
        BY <4>1, <3>1, <1>1
    <3>3. i - 1 \in Removals(q)
      BY <3>1, <3>2, <1>6
    <3> QED
      BY <3>2, <3>3, <2>1 DEF Removals
  <2>3. ASSUME ~Keeps(q, n, i) PROVE Absorbed(i)
    <3>1. PICK k \in 1..Len(q) : q[k].act = "remove" /\ q[k].at + 1 = i
      BY <2>1, <2>3
    <3>2. q[k].at \in Removals(q)
      BY <3>1 DEF Removals
    <3>3. PICK j \in 1..m : Compared(j) /\ SetCmp(j) /\ q[k].at \in {j, j + 1}
      BY <3>2, <1>6
    <3>4. i \in {j + 1, j + 2} /\ j \in 1..(i - 1)
      <4>1. \A x \in Nat \ {0} : \A y \in {x, x + 1} :
              y + 1 \in {x + 1, x + 2} /\ x \in 1..((y + 1) - 1)
        OBVIOUS
      <4>2. j \in Nat \ {0}
        BY <1>1
      <4> QED
        BY <4>1, <4>2, <3>1, <3>3
    <3> QED
      BY <3>3, <3>4 DEF Absorbed
  <2> QED
    BY <2>2, <2>3
<1> HIDE DEF q, n, T, m
<1>10. ASSUME NEW d \in T
       PROVE  \E i \in 1..m : \E op \in AfterParse[i] : code[d] = [op |-> op, at |-> i]
  <2>1. \A i \in 1..m : AfterParse[i] = Expansion(i)
    BY DEF AfterParse, m
  <2>2. CASE \E j \in 1..m : Keeps(q, n, j) /\ d = dis[j]
    <3>1. PICK j \in 1..m : Keeps(q, n, j) /\ d = dis[j]
      BY <2>2
    <3>2. Translated(prog[j]) \in Expansion(j)
      BY <3>1, <1>9, ExpansionFacts
    <3> QED
      BY <3>1, <3>2, <2>1, <1>5
  <2>3. CASE \E k \in 1..Len(q) : q[k].act = "add" /\ d = q[k].d
    <3>1. code[d] \in Given(q, code)
      BY <2>3 DEF Given
    <3>2. PICK j \in 1..m : Compared(j) /\ code[d] \in Halves(j)
      BY <3>1, <1>6
    <3>3. PICK op \in {CompareOp(prog[j].op), UseOp(j)} : code[d] = [op |-> op, at |-> j]
      BY <3>2, ExpansionFacts
    <3>4. op \in Expansion(j)
      BY <3>2, ExpansionFacts
    <3> QED
      BY <3>3, <3>4, <2>1
  <2> QED
    BY <2>2, <2>3, <1>7
<1>11. ASSUME NEW i \in 1..m, NEW op \in AfterParse[i]
       PROVE  \E d \in T : code[d] = [op |-> op, at |-> i]
  <2>1. op \in Expansion(i)
    BY DEF AfterParse, m
  <2>2. CASE ~Absorbed(i) /\ op = Translated(prog[i])
    <3>1. dis[i] \in T
      BY <2>2, <1>7, <1>9
    <3> QED
      BY <3>1, <2>2, <1>5
  <2>3. CASE Compared(i) /\ op \in {CompareOp(prog[i].op), UseOp(i)}
    <3>1. [op |-> op, at |-> i] \in Halves(i)
      BY <2>3, ExpansionFacts
    <3>2. [op |-> op, at |-> i] \in Given(q, code)
      BY <3>1, <2>3, <1>6
    <3>3. PICK k \in 1..Len(q) : q[k].act = "add" /\ code[q[k].d] = [op |-> op, at |-> i]
      BY <3>2 DEF Given
    <3> QED
      BY <3>3, <1>7
  <2> QED
    BY <2>1, <2>2, <2>3, ExpansionFacts
<1>12. {code[d] : d \in T} = UNION {{[op |-> op, at |-> i] : op \in AfterParse[i]} : i \in 1..m}
  <2>1. Holds(T, code, m, AfterParse)
    BY <1>10, <1>11 DEF Holds
  <2> QED
    BY <2>1, HoldsThem
<1> QED
  BY <1>4, <1>12 DEF LaidOut, T, m

(* Every edit of resolve_instructions made.                                *)
LEMMA ResolveLaidOut ==
  ASSUME LiftInv, LaidOut(dis, AfterParse), PopsQueued(Len(dis) + 1),
         Replays(p_dis, dis, rm.queue, lift.i, Rank), lift.i > Len(rm.queue)
  PROVE  LaidOut(p_dis, AfterResolve)
<1> DEFINE q == rm.queue
           n == Len(q) + 1
           T == ToSet(p_dis) \ {NULL}
           m == Len(prog)
<1>1. /\ m \in Nat \ {0} /\ Len(q) \in Nat /\ lift.i \in Nat /\ Len(dis) \in Nat
      /\ dis \in Seq(Obj)
  BY StateFacts
<1>2. lift.i = n /\ n - 1 = Len(q) /\ (Len(dis) + 1) - 1 = Len(dis)
  <2>1. lift.i \in 1..(Len(q) + 1)
    BY DEF Replays
  <2>2. lift.i > Len(q)
    OBVIOUS
  <2> HIDE DEF q, m
  <2> QED
    BY <2>1, <2>2, <1>1
<1>3. Sorted(p_dis, Rank) /\ T = Content(dis, q, n)
  BY <1>2 DEF Replays
<1>4. Holds(ToSet(dis), code, m, AfterParse)
  <2>1. NULL \notin ToSet(dis)
    BY <1>1, ToSetFacts, NullAssumption
  <2>2. ToSet(dis) \ {NULL} = ToSet(dis)
    BY <2>1
  <2> QED
    BY <2>2, HoldsThem DEF LaidOut
<1>5. /\ \A x : x \in Given(q, code) <=>
                  \E k \in 1..Len(dis) : PopsArg(dis[k])
                                         /\ x = [op |-> "OP_POPARG", at |-> code[dis[k]].at]
      /\ Removals(q) = {}
  BY <1>2 DEF PopsQueued, Given, Insertions
<1>6. \A x : x \in T <=> \/ x \in ToSet(dis)
                         \/ \E k \in 1..Len(q) : q[k].act = "add" /\ x = q[k].d
  <2>1. \A x : x \in Content(dis, q, n) <=>
                  \/ \E j \in 1..Len(dis) : Keeps(q, n, j) /\ x = dis[j]
                  \/ \E k \in 1..(n - 1) : q[k].act = "add" /\ x = q[k].d
    BY ContentFacts
  <2>2. \A j : Keeps(q, n, j)
    BY <1>2, <1>5 DEF Keeps, Removals
  <2>3. \A x : x \in ToSet(dis) <=> \E j \in 1..Len(dis) : dis[j] = x
    BY <1>1, ToSetFacts
  <2> HIDE DEF q, n, T, m
  <2> QED
    BY <2>1, <2>2, <2>3, <1>2, <1>3
<1> HIDE DEF q, n, T, m
<1>7. \A i \in 1..m : AfterParse[i] = Expansion(i)
  BY DEF AfterParse, m
<1>11. \A i \in 1..m : \A op : op \in AfterResolve[i] <=>
                                \/ op \in Expansion(i)
                                \/ SelfCall(i) /\ op = "OP_POPARG"
  <2>1. \A i \in 1..m :
          AfterResolve[i] = Expansion(i) \union (IF SelfCall(i) THEN {"OP_POPARG"} ELSE {})
    BY DEF AfterResolve, m
  <2> QED
    BY <2>1
<1>8. ASSUME NEW d \in T
      PROVE  \E i \in 1..m : \E op \in AfterResolve[i] : code[d] = [op |-> op, at |-> i]
  <2>1. CASE d \in ToSet(dis)
    <3>1. PICK i \in 1..m : \E op \in AfterParse[i] : code[d] = [op |-> op, at |-> i]
      BY <2>1, <1>4 DEF Holds
    <3>2. PICK op \in AfterParse[i] : code[d] = [op |-> op, at |-> i]
      BY <3>1
    <3> QED
      BY <3>1, <3>2, <1>7, <1>11
  <2>2. CASE \E k \in 1..Len(q) : q[k].act = "add" /\ d = q[k].d
    <3>1. code[d] \in Given(q, code)
      BY <2>2 DEF Given
    <3>2. PICK k \in 1..Len(dis) : /\ PopsArg(dis[k])
                                   /\ code[d] = [op |-> "OP_POPARG", at |-> code[dis[k]].at]
      BY <3>1, <1>5
    <3>3. dis[k] \in ToSet(dis)
      BY <1>1, ToSetFacts
    <3>4. code[dis[k]].at \in 1..m
      BY <3>3, <1>4, HoldsFacts
    <3>5. SelfCall(code[dis[k]].at)
      BY <3>2, PopsArgIs
    <3> QED
      BY <3>2, <3>4, <3>5, <1>11
  <2> QED
    BY <2>1, <2>2, <1>6
<1>9. ASSUME NEW i \in 1..m, NEW op \in AfterResolve[i]
      PROVE  \E d \in T : code[d] = [op |-> op, at |-> i]
  <2>1. CASE op \in Expansion(i)
    <3>1. PICK d \in ToSet(dis) : code[d] = [op |-> op, at |-> i]
      BY <2>1, <1>4, <1>7 DEF Holds
    <3> QED
      BY <3>1, <1>6
  <2>2. CASE SelfCall(i) /\ op = "OP_POPARG"
    <3>1. Translated(prog[i]) = "OP_SELF" /\ ~Absorbed(i)
      BY <2>2, SelfCallFacts DEF LiftInv, m
    <3>2. "OP_SELF" \in AfterParse[i]
      BY <3>1, <1>7, ExpansionFacts
    <3>3. PICK d \in ToSet(dis) : code[d] = [op |-> "OP_SELF", at |-> i]
      BY <3>2, <1>4 DEF Holds
    <3>4. PICK k \in 1..Len(dis) : dis[k] = d
      BY <1>1, ToSetFacts
    <3>5. PopsArg(dis[k]) /\ code[dis[k]].at = i
      BY <3>3, <3>4, <2>2, PopsArgIs
    <3>6. [op |-> "OP_POPARG", at |-> i] \in Given(q, code)
      BY <3>5, <1>5
    <3>7. PICK l \in 1..Len(q) : /\ q[l].act = "add"
                                 /\ code[q[l].d] = [op |-> "OP_POPARG", at |-> i]
      BY <3>6 DEF Given
    <3> QED
      BY <3>7, <2>2, <1>6
  <2> QED
    BY <2>1, <2>2, <1>11
<1>10. {code[d] : d \in T} = UNION {{[op |-> op, at |-> i] : op \in AfterResolve[i]} : i \in 1..m}
  <2>1. Holds(T, code, m, AfterResolve)
    BY <1>8, <1>9 DEF Holds
  <2> QED
    BY <2>1, HoldsThem
<1> QED
  BY <1>3, <1>10 DEF LaidOut, T, m
-----------------------------------------------------------------------------
(***************************************************************************)
(* The invariant, phase by phase.                                          *)
(***************************************************************************)

Laid == Parsing /\ Resolving /\ Eliminating

(* What a step must establish, by the phase it leads to.                   *)
LEMMA PhasesLaid ==
  /\ lift'.phase \in {"parse", "first commit"} => Laid'
  /\ /\ lift'.phase = "compares"
     /\ lift'.i <= Len(prog') + 1
     /\ QueueFits(pm, dis, Rank)'
     /\ ComparesQueued(lift.i)'
     => Laid'
  /\ /\ lift'.phase = "jumps"
     /\ QueueFits(pm, dis, Rank)'
     /\ ComparesQueued(Len(prog) + 1)'
     => Laid'
  /\ /\ lift'.phase = "parse edits"
     /\ QueueFits(pm, dis, Rank)'
     /\ ComparesQueued(Len(prog) + 1)'
     /\ OneForOne(dis)'
     /\ Replays(p_dis, dis, pm.queue, lift.i, Rank)'
     => Laid'
  /\ /\ lift'.phase = "parse commit"
     /\ LaidOut(p_dis, AfterParse)'
     /\ Idle' => dis' = p_dis'
     => Laid'
  /\ /\ lift'.phase = "operands"
     /\ LaidOut(p_dis, AfterParse)'
     /\ dis' = p_dis'
     => Laid'
  /\ /\ lift'.phase = "selfs"
     /\ LaidOut(p_dis, AfterParse)'
     /\ dis' = p_dis'
     /\ lift'.i <= Len(dis') + 1
     /\ QueueFits(rm, dis, Rank)'
     /\ PopsQueued(lift.i)'
     => Laid'
  /\ /\ lift'.phase = "resolve edits"
     /\ LaidOut(dis, AfterParse)'
     /\ QueueFits(rm, dis, Rank)'
     /\ PopsQueued(Len(dis) + 1)'
     /\ Replays(p_dis, dis, rm.queue, lift.i, Rank)'
     => Laid'
  /\ /\ lift'.phase = "resolve commit"
     /\ LaidOut(p_dis, AfterResolve)'
     /\ Idle' => dis' = p_dis' /\ cm'.resolved
     /\ ~Idle' => cm'.resolve
     => Laid'
  /\ /\ lift'.phase \in {"junk", "done"}
     /\ JCInv'
     /\ jc'.phase = "off" => LaidOut(p_dis, AfterResolve)'
     /\ jc'.phase # "off" => LaidOut(jc.copy, AfterResolve)'
     => Laid'
<1>1. lift'.phase \in {"parse", "first commit"} => Laid'
  BY Zenon DEF Laid, Parsing, Resolving, Eliminating
<1>2. /\ lift'.phase = "compares"
      /\ lift'.i <= Len(prog') + 1
      /\ QueueFits(pm, dis, Rank)'
      /\ ComparesQueued(lift.i)'
      => Laid'
  BY Zenon DEF Laid, Parsing, Resolving, Eliminating
<1>3. /\ lift'.phase = "jumps"
      /\ QueueFits(pm, dis, Rank)'
      /\ ComparesQueued(Len(prog) + 1)'
      => Laid'
  BY Zenon DEF Laid, Parsing, Resolving, Eliminating
<1>4. /\ lift'.phase = "parse edits"
      /\ QueueFits(pm, dis, Rank)'
      /\ ComparesQueued(Len(prog) + 1)'
      /\ OneForOne(dis)'
      /\ Replays(p_dis, dis, pm.queue, lift.i, Rank)'
      => Laid'
  BY Zenon DEF Laid, Parsing, Resolving, Eliminating
<1>5. /\ lift'.phase = "parse commit"
      /\ LaidOut(p_dis, AfterParse)'
      /\ Idle' => dis' = p_dis'
      => Laid'
  BY Zenon DEF Laid, Parsing, Resolving, Eliminating
<1>6. /\ lift'.phase = "operands"
      /\ LaidOut(p_dis, AfterParse)'
      /\ dis' = p_dis'
      => Laid'
  BY Zenon DEF Laid, Parsing, Resolving, Eliminating
<1>7. /\ lift'.phase = "selfs"
      /\ LaidOut(p_dis, AfterParse)'
      /\ dis' = p_dis'
      /\ lift'.i <= Len(dis') + 1
      /\ QueueFits(rm, dis, Rank)'
      /\ PopsQueued(lift.i)'
      => Laid'
  BY Zenon DEF Laid, Parsing, Resolving, Eliminating
<1>8. /\ lift'.phase = "resolve edits"
      /\ LaidOut(dis, AfterParse)'
      /\ QueueFits(rm, dis, Rank)'
      /\ PopsQueued(Len(dis) + 1)'
      /\ Replays(p_dis, dis, rm.queue, lift.i, Rank)'
      => Laid'
  BY Zenon DEF Laid, Parsing, Resolving, Eliminating
<1>9. /\ lift'.phase = "resolve commit"
      /\ LaidOut(p_dis, AfterResolve)'
      /\ Idle' => dis' = p_dis' /\ cm'.resolved
      /\ ~Idle' => cm'.resolve
      => Laid'
  BY Zenon DEF Laid, Parsing, Resolving, Eliminating
<1>10. /\ lift'.phase \in {"junk", "done"}
       /\ JCInv'
       /\ jc'.phase = "off" => LaidOut(p_dis, AfterResolve)'
       /\ jc'.phase # "off" => LaidOut(jc.copy, AfterResolve)'
       => Laid'
  BY Zenon DEF Laid, Parsing, Resolving, Eliminating
<1> QED
  BY Zenon, <1>1, <1>2, <1>3, <1>4, <1>5, <1>6, <1>7, <1>8, <1>9, <1>10

(* A step that changes no instruction and loses none of the pending ones.  *)
LEMMA WiredStays ==
  ASSUME Wired, prog' = prog, code' = code, made' = made,
         \A x \in made : obj'[x].ref = obj[x].ref /\ obj'[x].kind = obj[x].kind,
         \/ lift'.phase \in {"junk", "done"}
         \/ /\ lift.phase \notin {"junk", "done"}
            /\ ToSet(p_dis) \subseteq ToSet(p_dis') \union {NULL}
  PROVE  Wired'
<1>1. ASSUME NEW d \in made
      PROVE  /\ code'[d].at # 0
             /\ obj'[d].kind = KindOf(code'[d].op)
             /\ obj'[d].ref # NULL =>
                  LET to == prog'[code'[d].at].to IN
                    /\ IsJump(d)'
                    /\ to # 0
                    /\ prog'[to].op # "LOP_LOADB"
                    /\ code'[obj'[d].ref] = [op |-> Translated(prog'[to]), at |-> to]
  BY <1>1 DEF Wired, IsJump
<1>2. ASSUME NEW d \in made, lift'.phase \notin {"junk", "done"}
      PROVE  obj'[d].ref \in ToSet(p_dis') \union {NULL}
  <2>1. obj[d].ref \in ToSet(p_dis) \union {NULL} /\ obj'[d].ref = obj[d].ref
    BY <1>2 DEF Wired
  <2> QED
    BY <1>2, <2>1
<1> QED
  BY <1>1, <1>2 DEF Wired

(* Nothing is made yet.                                                    *)
LEMMA LayoutInit == LiftInit => LayoutInv
<1> SUFFICES ASSUME LiftInit PROVE LayoutInv
  OBVIOUS
<1>1. made = {} /\ lift.phase = "parse"
  BY DEF LiftInit, ILInit
<1>2. Wired
  BY <1>1 DEF Wired
<1>3. Parsing /\ Resolving /\ Eliminating
  BY Zenon, <1>1 DEF Parsing, Resolving, Eliminating
<1> QED
  BY <1>2, <1>3 DEF LayoutInv

(* Before the first edit the pending vector is the committed one.          *)
LEMMA ReplayStarts ==
  ASSUME NEW rank, NEW v \in Seq(Obj), Sorted(v, rank), NEW q, Len(q) \in Nat
  PROVE  Replays(v, v, q, 1, rank)
<1>1. Len(v) \in Nat /\ 1 \in 1..(Len(q) + 1)
  OBVIOUS
<1>2. Offset(q, 1) = 0
  BY DEF Offset
<1>3. ToSet(v) \ {NULL} = Content(v, q, 1)
  <2>1. \A x : x \in Content(v, q, 1) <=>
                  \/ \E j \in 1..Len(v) : Keeps(q, 1, j) /\ x = v[j]
                  \/ \E k \in 1..(1 - 1) : q[k].act = "add" /\ x = q[k].d
    BY ContentFacts
  <2>2. 1..(1 - 1) = {}
    OBVIOUS
  <2>3. \A j : Keeps(q, 1, j)
    BY <2>2 DEF Keeps
  <2>4. /\ \A x : x \in ToSet(v) <=> \E j \in 1..Len(v) : v[j] = x
        /\ ToSet(v) \subseteq Obj
    BY ToSetFacts
  <2> QED
    BY <2>1, <2>2, <2>3, <2>4, NullAssumption
<1>4. ASSUME NEW j \in 0..(Len(v) - 1)
      PROVE  j + 0 \in 0..(Len(v) - 1) /\ v[j + 0 + 1] = v[j + 1]
  BY <1>1
<1> QED
  BY <1>1, <1>2, <1>3, <1>4 DEF Replays

(* What parse_instructions left is sorted.                                 *)
LEMMA OneForOneSorted ==
  ASSUME LiftInv, OneForOne(dis)
  PROVE  Sorted(dis, Rank)
<1>1. Len(prog) \in Nat /\ dis \in Seq(Obj) /\ code \in Codes(Len(prog))
  BY StateFacts
<1>2. /\ Len(dis) = Len(prog)
      /\ \A i \in 1..Len(prog) : code[dis[i]] = [op |-> Translated(prog[i]), at |-> i]
  BY DEF OneForOne
<1>3. ASSUME NEW i \in 1..Len(dis) PROVE dis[i] # NULL /\ Rank[dis[i]] = 4 * i
  <2>1. dis[i] \in Obj
    BY <1>1
  <2>2. code[dis[i]].at = i /\ Role(code[dis[i]].op) = 0
    <3>1. code[dis[i]] = [op |-> Translated(prog[i]), at |-> i]
      BY <1>2
    <3>2. Role(Translated(prog[i])) = 0
      BY TranslatedFacts, Roles
    <3> QED
      BY <3>1, <3>2
  <2>3. Rank[dis[i]] = 4 * code[dis[i]].at + Role(code[dis[i]].op)
    BY <1>1, <2>1, RankFacts
  <2>4. i \in Nat
    BY <1>1, <1>2
  <2> QED
    BY <2>1, <2>2, <2>3, <2>4, NullAssumption
<1>4. \A k, l \in 1..Len(dis) : k < l => 4 * k < 4 * l
  BY <1>1, <1>2
<1> QED
  BY <1>3, <1>4 DEF Sorted

-----------------------------------------------------------------------------
(***************************************************************************)
(* The steps from one phase to the next.                                   *)
(***************************************************************************)

(* A step that only goes on to the next phase.                             *)
LEMMA WiredOn ==
  ASSUME LayoutInv, UNCHANGED <<ilVars, prog, code>>,
         lift.phase \notin {"junk", "done"}
  PROVE  Wired'
<1>1. prog' = prog /\ code' = code /\ made' = made /\ obj' = obj /\ p_dis' = p_dis
  BY DEF ilVars
<1>2. ToSet(p_dis) \subseteq ToSet(p_dis') \union {NULL}
  BY <1>1
<1> QED
  BY <1>1, <1>2, WiredStays DEF LayoutInv

(* A queue of parse_compares while nothing of it changes.                  *)
LEMMA ComparesStay ==
  ASSUME UNCHANGED <<code, prog, pm>>
  PROVE  \A i : ComparesQueued(i) => ComparesQueued(i)'
<1>1. ASSUME NEW i, ComparesQueued(i) PROVE ComparesQueued(i)'
  <2>1. Insertions(pm.queue)' = Insertions(pm.queue)
    BY DEF Insertions
  <2>2. Removals(pm.queue)' = Removals(pm.queue)
    BY DEF Removals
  <2>3. /\ \A j : Compared(j)' = Compared(j)
        /\ \A j : SetCmp(j)' = SetCmp(j)
        /\ \A j : Halves(j)' = Halves(j)
    BY SameProgram
  <2>4. UNION {Halves(j)' : j \in {j \in 1..(i - 1) : Compared(j)'}}
          = UNION {Halves(j) : j \in {j \in 1..(i - 1) : Compared(j)}}
    BY <2>3
  <2>5. UNION {{j, j + 1} : j \in {j \in 1..(i - 1) : Compared(j)' /\ SetCmp(j)'}}
          = UNION {{j, j + 1} : j \in {j \in 1..(i - 1) : Compared(j) /\ SetCmp(j)}}
    BY <2>3
  <2> QED
    BY <1>1, <2>1, <2>2, <2>4, <2>5 DEF ComparesQueued
<1> QED
  BY <1>1

(* Nothing is queued when parse_compares starts.                           *)
LEMMA FirstCommittedLays ==
  ASSUME LiftInv, LayoutInv, FirstCommitted PROVE LayoutInv'
<1>1. /\ lift.phase = "first commit" /\ UNCHANGED <<ilVars, jc, prog, code, pm, rm>>
      /\ lift'.phase = "compares" /\ lift'.i = 1
  BY Entered, PhaseFacts DEF FirstCommitted
<1>2. pm' = EmptyManager
  BY Zenon, <1>1 DEF LiftInv, Queues
<1>3. 1..(1 - 1) = {} /\ Len(prog) \in Nat \ {0}
  BY StateFacts
<1>4. ComparesQueued(lift.i)'
  <2>1. Given(pm'.queue, code') = {} /\ Removals(pm'.queue) = {}
    BY <1>2, NothingQueued
  <2>2. 1..(lift'.i - 1) = {}
    BY <1>1, <1>3
  <2> QED
    BY <2>1, <2>2 DEF ComparesQueued, Insertions, Given, Removals
<1>5. QueueFits(pm, dis, Rank)' /\ lift'.i <= Len(prog') + 1
  <2>1. QueueFits(EmptyManager, dis', Rank')
    BY NothingQueued
  <2>2. QueueFits(pm, dis, Rank)'
    BY <1>2, <2>1
  <2>3. prog' = prog /\ lift'.i = 1
    BY <1>1
  <2> QED
    BY <1>3, <2>2, <2>3
<1>6. Laid'
  BY <1>1, <1>4, <1>5, PhasesLaid
<1>7. Wired'
  <2>1. lift.phase \notin {"junk", "done"}
    BY Zenon, <1>1
  <2> QED
    BY <1>1, <2>1, WiredOn
<1> QED
  BY <1>6, <1>7 DEF LayoutInv, Laid

(* All compares are queued.                                                *)
LEMMA ComparesParsedLays ==
  ASSUME LiftInv, LayoutInv, ComparesParsed PROVE LayoutInv'
<1>1. /\ lift.phase = "compares" /\ UNCHANGED <<ilVars, jc, prog, code, pm, rm>>
      /\ lift'.phase = "jumps" /\ lift'.i = 1 /\ lift.i > Len(prog)
  BY Entered, PhaseFacts DEF ComparesParsed
<1>2. lift.i = Len(prog) + 1 /\ QueueFits(pm, dis, Rank) /\ ComparesQueued(lift.i)
  <2>1. lift.i <= Len(prog) + 1 /\ QueueFits(pm, dis, Rank) /\ ComparesQueued(lift.i)
    BY Zenon, <1>1 DEF LayoutInv, Parsing
  <2>2. lift.i \in Nat /\ Len(prog) \in Nat
    BY StateFacts
  <2> QED
    BY <1>1, <2>1, <2>2
<1>3. /\ UNCHANGED <<dis, code, prog, pm>>
      /\ Rank' = Rank
  BY <1>1 DEF ilVars, Rank
<1>4. QueueFits(pm, dis, Rank)'
  BY <1>2, <1>3 DEF QueueFits, EditFits, Succeeds
<1>5. ComparesQueued(Len(prog) + 1)'
  <2>1. ComparesQueued(Len(prog) + 1)
    BY <1>2
  <2> QED
    BY <1>3, <2>1, ComparesStay
<1>6. Laid'
  BY <1>1, <1>4, <1>5, PhasesLaid
<1>7. Wired'
  BY <1>1, WiredOn
<1> QED
  BY <1>6, <1>7 DEF LayoutInv, Laid

(* The edits start from what parse_instructions left.                      *)
LEMMA JumpsParsedLays ==
  ASSUME LiftInv, LayoutInv, JumpsParsed PROVE LayoutInv'
<1>1. /\ lift.phase = "jumps" /\ UNCHANGED <<ilVars, jc, prog, code, pm, rm>>
      /\ lift'.phase = "parse edits" /\ lift'.i = 1
  BY Entered, PhaseFacts DEF JumpsParsed
<1>2. QueueFits(pm, dis, Rank) /\ ComparesQueued(Len(prog) + 1)
  BY Zenon, <1>1 DEF LayoutInv, Parsing
<1>3. /\ UNCHANGED <<dis, p_dis, code, prog, pm>>
      /\ Rank' = Rank
  BY <1>1 DEF ilVars, Rank
<1>4. QueueFits(pm, dis, Rank)'
  BY <1>2, <1>3 DEF QueueFits, EditFits, Succeeds
<1>5. ComparesQueued(Len(prog) + 1)'
  <2>1. ComparesQueued(Len(prog) + 1)
    BY <1>2
  <2> QED
    BY <1>3, <2>1, ComparesStay
<1>6. Originals(dis, Len(prog)) /\ dis = p_dis
  BY <1>1 DEF LiftInv, AsParsed
<1>7. OneForOne(dis) /\ Sorted(dis, Rank)
  <2>1. OneForOne(dis)
    BY <1>6 DEF OneForOne, Originals, Original
  <2> QED
    BY <2>1, OneForOneSorted
<1>8. OneForOne(dis)'
  BY <1>3, <1>7 DEF OneForOne
<1>9. Replays(p_dis, dis, pm.queue, lift.i, Rank)'
  <2>1. dis \in Seq(Obj) /\ Len(pm.queue) \in Nat
    BY StateFacts
  <2>2. Replays(dis, dis, pm.queue, 1, Rank)
    BY <1>7, <2>1, ReplayStarts
  <2> QED
    BY <1>1, <1>3, <1>6, <2>2
<1>10. Laid'
  BY <1>1, <1>4, <1>5, <1>8, <1>9, PhasesLaid
<1>11. Wired'
  BY <1>1, WiredOn
<1> QED
  BY <1>10, <1>11 DEF LayoutInv, Laid

(* What the vectors must hold while neither they nor the instructions      *)
(* change.                                                                 *)
LEMMA LaidOutKept ==
  ASSUME prog' = prog, code' = code
  PROVE  /\ p_dis' = p_dis /\ LaidOut(p_dis, AfterParse) => LaidOut(p_dis, AfterParse)'
         /\ p_dis' = p_dis /\ LaidOut(p_dis, AfterResolve) => LaidOut(p_dis, AfterResolve)'
         /\ dis' = dis /\ LaidOut(dis, AfterParse) => LaidOut(dis, AfterParse)'
         /\ \A s : LaidOut(s, AfterResolve) => LaidOut(s, AfterResolve)'
<1>1. AfterParse' = AfterParse /\ AfterResolve' = AfterResolve /\ Rank' = Rank
  BY SameProgram DEF Rank
<1> QED
  BY <1>1 DEF LaidOut

(* ... and a queue of resolve_instructions.                                *)
LEMMA PopsKept ==
  ASSUME UNCHANGED <<code, prog, dis, rm>>
  PROVE  /\ QueueFits(rm, dis, Rank) => QueueFits(rm, dis, Rank)'
         /\ \A i : PopsQueued(i) => PopsQueued(i)'
<1>1. Rank' = Rank
  BY DEF Rank
<1>2. QueueFits(rm, dis, Rank) => QueueFits(rm, dis, Rank)'
  BY <1>1 DEF QueueFits, EditFits, Succeeds
<1>3. ASSUME NEW i, PopsQueued(i) PROVE PopsQueued(i)'
  <2>1. Insertions(rm.queue)' = Insertions(rm.queue)
    BY DEF Insertions
  <2>2. Removals(rm.queue)' = Removals(rm.queue)
    BY DEF Removals
  <2>3. {[op |-> "OP_POPARG", at |-> code'[dis'[k]].at] :
            k \in {k \in 1..(i - 1) : PopsArg(dis[k])'}}
          = {[op |-> "OP_POPARG", at |-> code[dis[k]].at] :
               k \in {k \in 1..(i - 1) : PopsArg(dis[k])}}
    BY DEF PopsArg
  <2>4. rm'.queue = rm.queue
    OBVIOUS
  <2> QED
    BY <1>3, <2>1, <2>2, <2>3, <2>4 DEF PopsQueued
<1> QED
  BY <1>2, <1>3

(* No OP_POPARG is queued when resolve_instructions starts.                *)
LEMMA JumpOperandsResolvedLays ==
  ASSUME LiftInv, LayoutInv, JumpOperandsResolved PROVE LayoutInv'
<1>1. /\ lift.phase = "operands" /\ UNCHANGED <<ilVars, jc, prog, code, pm, rm>>
      /\ lift'.phase = "selfs" /\ lift'.i = 1
  BY Entered, PhaseFacts DEF JumpOperandsResolved
<1>2. rm' = EmptyManager
  BY Zenon, <1>1 DEF LiftInv, Queues
<1>3. LaidOut(p_dis, AfterParse) /\ dis = p_dis
  BY Zenon, <1>1 DEF LayoutInv, Resolving
<1>4. LaidOut(p_dis, AfterParse)' /\ dis' = p_dis'
  BY <1>1, <1>3, LaidOutKept DEF ilVars
<1>5. QueueFits(rm, dis, Rank)'
  <2>1. QueueFits(EmptyManager, dis', Rank')
    BY NothingQueued
  <2> QED
    BY <1>2, <2>1
<1>6. PopsQueued(lift.i)'
  <2>1. Given(rm'.queue, code') = {} /\ Removals(rm'.queue) = {}
    BY <1>2, NothingQueued
  <2>2. 1..(lift'.i - 1) = {} /\ 1..Len(rm'.queue) = {}
    BY <1>1, <1>2 DEF EmptyManager
  <2> QED
    BY <2>1, <2>2 DEF PopsQueued, Insertions, Given, Removals
<1>7. lift'.i <= Len(dis') + 1
  <2>1. Len(dis) \in Nat /\ dis' = dis
    BY <1>1, StateFacts DEF ilVars
  <2> QED
    BY <1>1, <2>1
<1>8. Laid'
  BY <1>1, <1>4, <1>5, <1>6, <1>7, PhasesLaid
<1>9. Wired'
  BY <1>1, WiredOn
<1> QED
  BY <1>8, <1>9 DEF LayoutInv, Laid

(* The edits of resolve_instructions start from what the commit published. *)
LEMMA InstructionsResolvedLays ==
  ASSUME LiftInv, LayoutInv, InstructionsResolved PROVE LayoutInv'
<1>1. /\ lift.phase = "selfs" /\ UNCHANGED <<ilVars, jc, prog, code, pm, rm>>
      /\ lift'.phase = "resolve edits" /\ lift'.i = 1 /\ lift.i > Len(p_dis)
  BY Entered, PhaseFacts DEF InstructionsResolved
<1>2. /\ LaidOut(p_dis, AfterParse) /\ dis = p_dis
      /\ lift.i <= Len(dis) + 1
      /\ QueueFits(rm, dis, Rank) /\ PopsQueued(lift.i)
  BY Zenon, <1>1 DEF LayoutInv, Resolving
<1>3. PopsQueued(Len(dis) + 1)
  <2>1. lift.i > Len(p_dis)
    BY <1>1
  <2>2. lift.i \in Nat /\ Len(dis) \in Nat
    BY StateFacts
  <2>3. lift.i = Len(dis) + 1
    BY <1>2, <2>1, <2>2
  <2> QED
    BY <1>2, <2>3
<1>4. UNCHANGED <<p_dis, dis, code, prog, rm>> /\ Rank' = Rank
  BY <1>1 DEF ilVars, Rank
<1>5. LaidOut(dis, AfterParse)'
  <2>1. LaidOut(dis, AfterParse)
    BY <1>2
  <2> QED
    BY <1>4, <2>1, LaidOutKept
<1>6. QueueFits(rm, dis, Rank)' /\ PopsQueued(Len(dis) + 1)'
  <2>1. QueueFits(rm, dis, Rank)'
    BY <1>2, <1>4, PopsKept
  <2>2. PopsQueued(Len(dis) + 1)'
    BY <1>3, <1>4, PopsKept
  <2> QED
    BY <2>1, <2>2
<1>7. Replays(p_dis, dis, rm.queue, lift.i, Rank)'
  <2>1. dis \in Seq(Obj) /\ Len(rm.queue) \in Nat
    BY StateFacts
  <2>2. Replays(dis, dis, rm.queue, 1, Rank)
    BY <1>2, <2>1, ReplayStarts DEF LaidOut
  <2> QED
    BY <1>1, <1>2, <1>4, <2>2
<1>8. Laid'
  BY <1>1, <1>5, <1>6, <1>7, PhasesLaid
<1>9. Wired'
  BY <1>1, WiredOn
<1> QED
  BY <1>8, <1>9 DEF LayoutInv, Laid

-----------------------------------------------------------------------------
(***************************************************************************)
(* Making the edits.                                                       *)
(***************************************************************************)

(* An edit that fits is made where it belongs, and takes away no more than *)
(* it should.                                                              *)
LEMMA EditReplays ==
  ASSUME LiftInv, NEW m, EditNext(m), Edited(dis, m.queue, Rank),
         Replays(p_dis, dis, m.queue, lift.i, Rank)
  PROVE  /\ Replays(p_dis', dis, m.queue, lift.i + 1, Rank)
         /\ lift.i \in 1..Len(m.queue)
         /\ ToSet(p_dis') \ {NULL} = Content(dis, m.queue, lift.i + 1)
         /\ \A x \in ToSet(p_dis) : \/ x \in ToSet(p_dis') \union {NULL}
                                    \/ /\ m.queue[lift.i].act = "remove"
                                       /\ x = dis[m.queue[lift.i].at + 1]
<1> DEFINE i == lift.i
           q == m.queue
           e == q[i]
<1>1. i <= Len(q) /\ MakeEdit(e)
  BY DEF EditNext
<1>2. /\ i \in Nat \ {0} /\ PendingOK(p_dis) /\ Rank \in Ranks
      /\ q \in Seq(Edit) /\ Len(q) \in Nat
  BY StateFacts, RankFacts DEF Edited
<1>3. i \in 1..Len(q)
  BY <1>1, <1>2
<1>4. e.act \in {"add", "remove"}
  BY <1>3, EditFacts
<1>5. Replays(p_dis', dis, q, i + 1, Rank)
  <2>1. CASE e.act = "add"
    <3>1. p_dis' = InsertedAt(p_dis, e.d, e.pos)
      BY <1>1, <2>1 DEF MakeEdit, AppendDisAt
    <3> QED
      BY <1>2, <1>3, <2>1, <3>1, ReplayAdd
  <2>2. CASE e.act = "remove"
    <3>1. p_dis' = RemovedAt(p_dis, e.pos)
      BY <1>1, <2>2 DEF MakeEdit, RemoveDisAt
    <3> QED
      BY <1>2, <1>3, <2>2, <3>1, ReplayRemove
  <2> QED
    BY <1>4, <2>1, <2>2
<1>6. /\ ToSet(p_dis') \ {NULL} = Content(dis, q, i + 1)
      /\ ToSet(p_dis) \ {NULL} = Content(dis, q, i)
  BY <1>5 DEF Replays
<1>7. /\ e.act = "add" => Content(dis, q, i + 1) = Content(dis, q, i) \union {e.d}
      /\ e.act = "remove" =>
           Content(dis, q, i + 1) = Content(dis, q, i) \ {dis[e.at + 1]}
  <2>1. Rank \in Ranks /\ Edited(dis, q, Rank)
    BY <1>2
  <2> HIDE DEF i, q
  <2> QED
    BY <1>3, <2>1, ContentNext
<1> HIDE DEF i, q, e
<1>8. \A x \in ToSet(p_dis) : \/ x \in ToSet(p_dis') \union {NULL}
                              \/ e.act = "remove" /\ x = dis[e.at + 1]
  BY <1>4, <1>6, <1>7
<1> QED
  BY <1>3, <1>5, <1>6, <1>8 DEF i, q, e

(* What an edit removes is nobody's reference: it is a LOADB.              *)
LEMMA ParseEditLays ==
  ASSUME LiftInv, LayoutInv, ParseEdit PROVE LayoutInv'
<1>1. lift.phase = "parse edits" /\ EditNext(pm)
  BY DEF ParseEdit
<1>2. /\ Advance /\ UNCHANGED <<obj, made, dis, cm, jc, prog, code, pm, rm>>
      /\ lift'.phase = lift.phase /\ lift'.i = lift.i + 1
  BY <1>1, Advanced DEF EditNext
<1>3. QueueFits(pm, dis, Rank) /\ ComparesQueued(Len(prog) + 1)
  BY Zenon, <1>1 DEF LayoutInv, Parsing
<1>4. OneForOne(dis) /\ Replays(p_dis, dis, pm.queue, lift.i, Rank)
  BY Zenon, <1>1 DEF LayoutInv, Parsing
<1>5. Rank' = Rank
  BY <1>2 DEF Rank
<1>6. Edited(dis, pm.queue, Rank)
  <2>1. dis \in Seq(Obj) /\ pm.queue \in Seq(Edit)
    BY StateFacts DEF Managers
  <2> QED
    BY <1>3, <1>4, <2>1, OneForOneSorted DEF Edited, QueueFits
<1>7. EditNext(pm)
  BY <1>1
<1>8. /\ Replays(p_dis', dis, pm.queue, lift.i + 1, Rank)
      /\ lift.i \in 1..Len(pm.queue)
      /\ \A x \in ToSet(p_dis) : \/ x \in ToSet(p_dis') \union {NULL}
                                 \/ /\ pm.queue[lift.i].act = "remove"
                                    /\ x = dis[pm.queue[lift.i].at + 1]
  BY <1>4, <1>6, <1>7, EditReplays
<1>9. Laid'
  <2>1. QueueFits(pm, dis, Rank)'
    BY <1>2, <1>3, <1>5 DEF QueueFits, EditFits, Succeeds
  <2>2. ComparesQueued(Len(prog) + 1)'
    <3>1. ComparesQueued(Len(prog) + 1)
      BY <1>3
    <3>2. UNCHANGED <<code, prog, pm>>
      BY <1>2
    <3> QED
      BY <3>1, <3>2, ComparesStay
  <2>3. OneForOne(dis)'
    BY <1>2, <1>4 DEF OneForOne
  <2>4. Replays(p_dis, dis, pm.queue, lift.i, Rank)'
    BY <1>2, <1>5, <1>8
  <2>5. lift'.phase = "parse edits"
    BY <1>1, <1>2
  <2> QED
    BY <2>1, <2>2, <2>3, <2>4, <2>5, PhasesLaid
<1>10. lift.phase \notin {"junk", "done"}
  BY Zenon, <1>1
<1>11. ASSUME NEW d \in made PROVE obj[d].ref \in ToSet(p_dis') \union {NULL}
  <2>1. /\ code[d].at # 0
        /\ obj[d].ref # NULL =>
             /\ IsJump(d)
             /\ prog[code[d].at].to # 0
             /\ prog[prog[code[d].at].to].op # "LOP_LOADB"
             /\ code[obj[d].ref] = [op |-> Translated(prog[prog[code[d].at].to]),
                                    at |-> prog[code[d].at].to]
        /\ obj[d].ref \in ToSet(p_dis) \union {NULL}
    BY <1>10 DEF LayoutInv, Wired
  <2>2. ASSUME pm.queue[lift.i].act = "remove", obj[d].ref # NULL,
               obj[d].ref = dis[pm.queue[lift.i].at + 1]
        PROVE  FALSE
    <3>1. pm.queue[lift.i].at \in Removals(pm.queue)
      BY <1>8, <2>2 DEF Removals
    <3>2. PICK j \in 1..((Len(prog) + 1) - 1) :
                 Compared(j) /\ SetCmp(j) /\ pm.queue[lift.i].at \in {j, j + 1}
      BY <1>3, <3>1, ComparesQueuedFacts
    <3>3. j \in 1..Len(prog) /\ ProgramOK(prog)
      BY StateFacts, InstructionFacts DEF LiftInv
    <3>4. /\ j + 1 \in 1..Len(prog) /\ j + 2 \in 1..Len(prog) /\ j \in Nat
          /\ prog[j + 1].op = "LOP_LOADB" /\ prog[j + 2].op = "LOP_LOADB"
      BY <3>2, <3>3, SetFacts
    <3>5. /\ pm.queue[lift.i].at + 1 \in 1..Len(prog)
          /\ prog[pm.queue[lift.i].at + 1].op = "LOP_LOADB"
      <4>1. CASE pm.queue[lift.i].at = j
        BY <3>4, <4>1
      <4>2. CASE pm.queue[lift.i].at = j + 1
        <5>1. pm.queue[lift.i].at + 1 = j + 2
          BY <3>4, <4>2
        <5> QED
          BY <3>4, <5>1
      <4> QED
        BY <3>2, <4>1, <4>2
    <3>6. code[obj[d].ref].at = pm.queue[lift.i].at + 1
      <4>1. code[obj[d].ref] = [op |-> Translated(prog[pm.queue[lift.i].at + 1]),
                                at |-> pm.queue[lift.i].at + 1]
        BY <1>4, <2>2, <3>5 DEF OneForOne
      <4> QED
        BY <4>1
    <3>7. code[obj[d].ref].at = prog[code[d].at].to
      BY <2>1, <2>2
    <3> QED
      BY <2>1, <2>2, <3>5, <3>6, <3>7
  <2> QED
    BY <1>8, <2>1, <2>2
<1>12. Wired'
  <2>1. \A d \in made' :
          /\ code'[d].at # 0
          /\ obj'[d].kind = KindOf(code'[d].op)
          /\ obj'[d].ref # NULL =>
               LET to == prog'[code'[d].at].to IN
                 /\ IsJump(d)'
                 /\ to # 0
                 /\ prog'[to].op # "LOP_LOADB"
                 /\ code'[obj'[d].ref] = [op |-> Translated(prog'[to]), at |-> to]
    BY <1>2 DEF LayoutInv, Wired, IsJump
  <2>2. \A d \in made' : obj'[d].ref \in ToSet(p_dis') \union {NULL}
    BY <1>2, <1>11
  <2> QED
    BY <2>1, <2>2 DEF Wired
<1> QED
  BY <1>9, <1>12 DEF LayoutInv, Laid

(* resolve_instructions removes nothing.                                   *)
LEMMA ResolveEditLays ==
  ASSUME LiftInv, LayoutInv, ResolveEdit PROVE LayoutInv'
<1>1. lift.phase = "resolve edits" /\ EditNext(rm)
  BY DEF ResolveEdit
<1>2. /\ Advance /\ UNCHANGED <<obj, made, dis, cm, jc, prog, code, pm, rm>>
      /\ lift'.phase = lift.phase /\ lift'.i = lift.i + 1
  BY <1>1, Advanced DEF EditNext
<1>3. QueueFits(rm, dis, Rank) /\ PopsQueued(Len(dis) + 1)
  BY Zenon, <1>1 DEF LayoutInv, Resolving
<1>4. LaidOut(dis, AfterParse) /\ Replays(p_dis, dis, rm.queue, lift.i, Rank)
  BY Zenon, <1>1 DEF LayoutInv, Resolving
<1>5. Rank' = Rank
  BY <1>2 DEF Rank
<1>6. Edited(dis, rm.queue, Rank)
  <2>1. dis \in Seq(Obj) /\ rm.queue \in Seq(Edit)
    BY StateFacts DEF Managers
  <2> QED
    BY <1>3, <1>4, <2>1 DEF Edited, QueueFits, LaidOut
<1>7. EditNext(rm)
  BY <1>1
<1>8. /\ Replays(p_dis', dis, rm.queue, lift.i + 1, Rank)
      /\ lift.i \in 1..Len(rm.queue)
      /\ \A x \in ToSet(p_dis) : \/ x \in ToSet(p_dis') \union {NULL}
                                 \/ /\ rm.queue[lift.i].act = "remove"
                                    /\ x = dis[rm.queue[lift.i].at + 1]
  BY <1>4, <1>6, <1>7, EditReplays
<1>9. Laid'
  <2>1. QueueFits(rm, dis, Rank)'
    BY <1>2, <1>3, PopsKept
  <2>2. PopsQueued(Len(dis) + 1)'
    <3>1. PopsQueued(Len(dis) + 1)
      BY <1>3
    <3>2. UNCHANGED <<code, prog, dis, rm>>
      BY <1>2
    <3> QED
      BY <3>1, <3>2, PopsKept
  <2>3. LaidOut(dis, AfterParse)'
    BY <1>2, <1>4, LaidOutKept
  <2>4. Replays(p_dis, dis, rm.queue, lift.i, Rank)'
    BY <1>2, <1>5, <1>8
  <2>5. lift'.phase = "resolve edits"
    BY <1>1, <1>2
  <2> QED
    BY <2>1, <2>2, <2>3, <2>4, <2>5, PhasesLaid
<1>10. Wired'
  <2>1. lift.phase \notin {"junk", "done"}
    BY Zenon, <1>1
  <2>2. rm.queue[lift.i].act # "remove"
    BY <1>3, <1>8 DEF PopsQueued, Removals
  <2>3. ToSet(p_dis) \subseteq ToSet(p_dis') \union {NULL}
    BY <1>8, <2>2
  <2> QED
    BY <1>2, <2>1, <2>3, WiredStays DEF LayoutInv
<1> QED
  BY <1>9, <1>10 DEF LayoutInv, Laid

(* All edits made: the pending vector is laid out, and the commit starts.  *)
LEMMA ParseEditsMadeLays ==
  ASSUME LiftInv, LayoutInv, ParseEditsMade PROVE LayoutInv'
<1>1. lift.phase = "parse edits" /\ EditsMade(pm, "parse commit")
  BY DEF ParseEditsMade
<1>2. /\ lift.i > Len(pm.queue) /\ CommitDis(TRUE)
      /\ UNCHANGED <<obj, made, p_dis, dis, jc, prog, code, pm, rm>>
      /\ lift'.phase = "parse commit" /\ lift'.i = 1
  BY <1>1, Entered, PhaseFacts DEF EditsMade
<1>3. ComparesQueued(Len(prog) + 1)
  BY Zenon, <1>1 DEF LayoutInv, Parsing
<1>4. OneForOne(dis) /\ Replays(p_dis, dis, pm.queue, lift.i, Rank)
  BY Zenon, <1>1 DEF LayoutInv, Parsing
<1>5. lift.i > Len(pm.queue) /\ UNCHANGED <<obj, made, p_dis, dis, prog, code>>
  BY <1>2
<1>6. LaidOut(p_dis, AfterParse)
  BY <1>3, <1>4, <1>5, ParseLaidOut
<1>7. LaidOut(p_dis, AfterParse)'
  BY <1>5, <1>6, LaidOutKept
<1>8. ~Idle'
  BY <1>2, CommitStarted
<1>9. Laid'
  BY <1>2, <1>7, <1>8, PhasesLaid
<1>10. Wired'
  <2>1. lift.phase \notin {"junk", "done"}
    BY Zenon, <1>1
  <2>2. ToSet(p_dis) \subseteq ToSet(p_dis') \union {NULL}
    BY <1>5
  <2> QED
    BY <1>5, <2>1, <2>2, WiredStays DEF LayoutInv
<1> QED
  BY <1>9, <1>10 DEF LayoutInv, Laid

(* The same of the resolver.                                               *)
LEMMA ResolveEditsMadeLays ==
  ASSUME LiftInv, LayoutInv, ResolveEditsMade PROVE LayoutInv'
<1>1. lift.phase = "resolve edits" /\ EditsMade(rm, "resolve commit")
  BY DEF ResolveEditsMade
<1>2. /\ lift.i > Len(rm.queue) /\ CommitDis(TRUE)
      /\ UNCHANGED <<obj, made, p_dis, dis, jc, prog, code, pm, rm>>
      /\ lift'.phase = "resolve commit" /\ lift'.i = 1
  BY <1>1, Entered, PhaseFacts DEF EditsMade
<1>3. PopsQueued(Len(dis) + 1)
  BY Zenon, <1>1 DEF LayoutInv, Resolving
<1>4. LaidOut(dis, AfterParse) /\ Replays(p_dis, dis, rm.queue, lift.i, Rank)
  BY Zenon, <1>1 DEF LayoutInv, Resolving
<1>5. lift.i > Len(rm.queue) /\ UNCHANGED <<obj, made, p_dis, dis, prog, code>>
  BY <1>2
<1>6. LaidOut(p_dis, AfterResolve)
  BY <1>3, <1>4, <1>5, ResolveLaidOut
<1>7. LaidOut(p_dis, AfterResolve)'
  BY <1>5, <1>6, LaidOutKept
<1>8. ~Idle' /\ cm'.resolve
  BY <1>2, CommitStarted
<1>9. Laid'
  BY <1>2, <1>7, <1>8, PhasesLaid
<1>10. Wired'
  <2>1. lift.phase \notin {"junk", "done"}
    BY Zenon, <1>1
  <2>2. ToSet(p_dis) \subseteq ToSet(p_dis') \union {NULL}
    BY <1>5
  <2> QED
    BY <1>5, <2>1, <2>2, WiredStays DEF LayoutInv
<1> QED
  BY <1>9, <1>10 DEF LayoutInv, Laid

(* The commit has published what was laid out.                             *)
LEMMA ParseCommittedLays ==
  ASSUME LiftInv, LayoutInv, ParseCommitted PROVE LayoutInv'
<1>1. /\ lift.phase = "parse commit" /\ Idle /\ UNCHANGED <<ilVars, jc, prog, code, rm>>
      /\ lift'.phase = "operands" /\ lift'.i = 1
  BY Entered, PhaseFacts DEF ParseCommitted
<1>2. LaidOut(p_dis, AfterParse) /\ dis = p_dis
  BY Zenon, <1>1 DEF LayoutInv, Parsing
<1>3. UNCHANGED <<obj, made, p_dis, dis, prog, code>>
  BY <1>1 DEF ilVars
<1>4. LaidOut(p_dis, AfterParse)' /\ dis' = p_dis'
  BY <1>2, <1>3, LaidOutKept
<1>5. Laid'
  BY <1>1, <1>4, PhasesLaid
<1>6. Wired'
  BY <1>1, WiredOn
<1> QED
  BY <1>5, <1>6 DEF LayoutInv, Laid

(* resolve_jump_operands writes addresses only.                            *)
LEMMA ResolveJumpOperandLays ==
  ASSUME LiftInv, LayoutInv, ResolveJumpOperand PROVE LayoutInv'
<1> DEFINE d == p_dis[lift.i]
<1>1. /\ lift.phase = "operands" /\ lift.i <= Len(p_dis)
      /\ obj' = IF IsJump(d) THEN [obj EXCEPT ![d] = Resolved(d)] ELSE obj
      /\ Advance /\ UNCHANGED <<made, p_dis, dis, cm, jc, prog, code, pm, rm>>
      /\ lift'.phase = lift.phase
  BY Advanced DEF ResolveJumpOperand
<1>2. LaidOut(p_dis, AfterParse) /\ dis = p_dis
  BY Zenon, <1>1 DEF LayoutInv, Resolving
<1>3. LaidOut(p_dis, AfterParse)' /\ dis' = p_dis'
  BY <1>1, <1>2, LaidOutKept
<1>4. Laid'
  BY <1>1, <1>3, PhasesLaid
<1>5. \A x \in made : obj'[x].ref = obj[x].ref /\ obj'[x].kind = obj[x].kind
  <2>1. obj \in [Obj -> Instr] /\ made \subseteq Obj
    BY StateFacts
  <2>2. obj[d] \in Instr => Resolved(d).ref = obj[d].ref /\ Resolved(d).kind = obj[d].kind
    BY DEF Resolved, Instr
  <2>3. ASSUME NEW x \in made PROVE obj'[x].ref = obj[x].ref /\ obj'[x].kind = obj[x].kind
    <3>1. x \in Obj /\ obj[x] \in Instr
      BY <2>1
    <3>2. CASE obj' = obj
      BY <3>2
    <3>3. CASE obj' = [obj EXCEPT ![d] = Resolved(d)] /\ x = d
      <4>1. obj'[x] = Resolved(d)
        BY <2>1, <3>1, <3>3
      <4> QED
        BY <2>2, <3>1, <3>3, <4>1
    <3>4. CASE obj' = [obj EXCEPT ![d] = Resolved(d)] /\ x # d
      <4>1. obj'[x] = obj[x]
        BY <2>1, <3>1, <3>4
      <4> QED
        BY <4>1
    <3> QED
      BY <1>1, <3>2, <3>3, <3>4
  <2> QED
    BY <2>3
<1>6. Wired'
  <2>1. ToSet(p_dis) \subseteq ToSet(p_dis') \union {NULL} /\ lift.phase \notin {"junk", "done"}
    BY <1>1
  <2> QED
    BY <1>1, <1>5, <2>1, WiredStays DEF LayoutInv
<1> QED
  BY <1>4, <1>6 DEF LayoutInv, Laid

-----------------------------------------------------------------------------
(***************************************************************************)
(* The commits.                                                            *)
(***************************************************************************)

(* A commit drops null pointers, and what it was called with stays.        *)
LEMMA CommitMoves ==
  ASSUME LiftInv, CommitStep
  PROVE  /\ made' = made
         /\ \A x \in made : obj'[x].ref = obj[x].ref /\ obj'[x].kind = obj[x].kind
         /\ ToSet(p_dis') \ {NULL} = ToSet(p_dis) \ {NULL}
         /\ Sorted(p_dis, Rank) => Sorted(p_dis', Rank)
         /\ ~Idle /\ cm'.resolve = cm.resolve
         /\ Idle' => dis' = p_dis' /\ cm'.resolved = cm.resolve
<1>1. /\ PendingOK(p_dis) /\ cm \in Commitments /\ Rank \in Ranks /\ ILInv /\ ILTypeOK
  BY StateFacts, RankFacts DEF LiftInv, ILInv
<1>2. ~Idle /\ (Idle' => dis' = p_dis')
  BY <1>1, CommitEnds
<1>3. cm'.resolve = cm.resolve /\ (Idle' => cm'.resolved = cm.resolve)
  BY <1>1, <1>2 DEF CommitStep, StripNull, Stripped, Validate, ResolveAddress,
                    AddressesResolved, ResolveJump, JumpsResolved, Publish,
                    Commitments, Idle
<1>4. CASE StripNull
  <2>1. PICK i \in 1..Len(p_dis) : p_dis[i] = NULL /\ p_dis' = RemoveAt(p_dis, i)
    BY <1>4 DEF StripNull
  <2>2. Sorted(p_dis, Rank) => Without(p_dis', p_dis, i, Rank)
    BY <1>1, <2>1, SortedRemove
  <2>3. ToSet(p_dis') \ {NULL} = ToSet(p_dis) \ {NULL}
    <3>1. i \in 1..Len(p_dis) /\ p_dis \in Seq(Ptr) /\ Len(p_dis) \in Nat
      BY <1>1 DEF PendingOK
    <3>2. SameListing(p_dis', p_dis, Obj)
      BY <2>1, <3>1, RemoveKeepsListing, NullAssumption
    <3>3. ToSet(p_dis) \subseteq Ptr
      BY <3>1, ToSetFacts
    <3>4. ToSet(p_dis') \subseteq ToSet(p_dis)
      BY <1>1, <2>1, RemoveKeeps
    <3> QED
      BY <3>2, <3>3, <3>4 DEF SameListing, Ptr
  <2>4. Sorted(p_dis, Rank) => Sorted(p_dis', Rank)
    BY <2>2 DEF Without
  <2>5. obj' = obj /\ made' = made
    BY <1>4 DEF StripNull
  <2> QED
    BY <1>2, <1>3, <2>3, <2>4, <2>5
<1>5. CASE Stripped
  <2>1. obj' = obj /\ made' = made /\ p_dis' = p_dis
    BY <1>5 DEF Stripped
  <2> QED
    BY <1>2, <1>3, <2>1
<1>6. CASE ~StripNull /\ ~Stripped
  <2>1. cm.stage \in {"validate", "addresses", "jumps", "publish"}
    BY <1>6 DEF CommitStep, Validate, ResolveAddress, AddressesResolved, ResolveJump,
                JumpsResolved, Publish
  <2>2. NULL \notin ToSet(p_dis)
    BY <1>1, <2>1 DEF ILInv, NoGaps
  <2>3. /\ \A x \in made : obj'[x].ref = obj[x].ref /\ obj'[x].kind = obj[x].kind
        /\ p_dis' = p_dis /\ made' = made
    BY <1>1, <2>2, CommitLeavesReferences
  <2> QED
    BY <1>2, <1>3, <2>3
<1> QED
  BY <1>4, <1>5, <1>6

(* So it publishes what was laid out.                                      *)
LEMMA LiftCommitStepLays ==
  ASSUME LiftInv, LayoutInv, LiftCommitStep PROVE LayoutInv'
<1>1. CommitStep /\ UNCHANGED <<jc, prog, code, pm, rm, lift>>
  BY DEF LiftCommitStep
<1>2. /\ made' = made
      /\ \A x \in made : obj'[x].ref = obj[x].ref /\ obj'[x].kind = obj[x].kind
      /\ ToSet(p_dis') \ {NULL} = ToSet(p_dis) \ {NULL}
      /\ Sorted(p_dis, Rank) => Sorted(p_dis', Rank)
      /\ ~Idle /\ cm'.resolve = cm.resolve
      /\ Idle' => dis' = p_dis' /\ cm'.resolved = cm.resolve
  BY <1>1, CommitMoves
<1>3. AfterParse' = AfterParse /\ AfterResolve' = AfterResolve /\ Rank' = Rank
  BY <1>1, SameProgram DEF Rank
<1>4. /\ LaidOut(p_dis, AfterParse) => LaidOut(p_dis, AfterParse)'
      /\ LaidOut(p_dis, AfterResolve) => LaidOut(p_dis, AfterResolve)'
  BY <1>1, <1>2, <1>3 DEF LaidOut
<1>5. Laid'
  <2>1. CASE lift.phase = "first commit"
    BY <1>1, <2>1, PhasesLaid
  <2>2. CASE lift.phase = "parse commit"
    <3>1. LaidOut(p_dis, AfterParse)
      BY Zenon, <2>2 DEF LayoutInv, Parsing
    <3>2. Idle' => dis' = p_dis'
      BY <1>2
    <3> QED
      BY <1>1, <1>4, <2>2, <3>1, <3>2, PhasesLaid
  <2>3. CASE lift.phase = "resolve commit"
    <3>1. LaidOut(p_dis, AfterResolve)
      BY Zenon, <2>3 DEF LayoutInv, Resolving
    <3>2. cm.resolve
      BY Zenon, <1>2, <2>3 DEF LayoutInv, Resolving
    <3>3. (Idle' => dis' = p_dis' /\ cm'.resolved) /\ (~Idle' => cm'.resolve)
      BY <1>2, <3>2
    <3> QED
      BY <1>1, <1>4, <2>3, <3>1, <3>3, PhasesLaid
  <2>4. CASE lift.phase = "junk" /\ jc.phase = "commit"
    <3>1. JCInv /\ LaidOut(jc.copy, AfterResolve)
      BY <2>4 DEF LayoutInv, Eliminating
    <3>2. JCInv'
      BY <1>1, <3>1, JCInvNext DEF JCNext
    <3>3. LaidOut(jc.copy, AfterResolve)' /\ jc'.phase # "off" /\ lift'.phase = "junk"
      BY <1>1, <2>4, <3>1, LaidOutKept
    <3> QED
      BY <3>2, <3>3, PhasesLaid
  <2> QED
    BY <1>2, <2>1, <2>2, <2>3, <2>4 DEF LiftInv, Waits, Commits
<1>6. Wired'
  <2>1. \/ lift'.phase \in {"junk", "done"}
        \/ /\ lift.phase \notin {"junk", "done"}
           /\ ToSet(p_dis) \subseteq ToSet(p_dis') \union {NULL}
    BY <1>1, <1>2
  <2> QED
    BY <1>1, <1>2, <2>1, WiredStays DEF LayoutInv
<1> QED
  BY <1>5, <1>6 DEF LayoutInv, Laid

-----------------------------------------------------------------------------
(***************************************************************************)
(* junk_code.                                                              *)
(***************************************************************************)

(* lift returns a container junk_code can be called on: all of it is       *)
(* committed, and no jump leads out of it.                                 *)
LEMMA ResolveCommittedLays ==
  ASSUME LiftInv, LayoutInv, ResolveCommitted PROVE LayoutInv'
<1>1. /\ lift.phase = "resolve commit" /\ Idle /\ UNCHANGED <<ilVars, jc, prog, code, pm>>
      /\ lift'.phase = "junk" /\ lift'.i = 1
  BY Entered, PhaseFacts DEF ResolveCommitted
<1>2. LaidOut(p_dis, AfterResolve) /\ dis = p_dis /\ cm.resolved
  BY Zenon, <1>1 DEF LayoutInv, Resolving
<1>3. jc = JunkIdle
  BY Zenon, <1>1 DEF LiftInv, JunkLast
<1>4. NULL \notin ToSet(p_dis)
  BY Zenon, <1>1 DEF LiftInv, NoNulls
<1>5. Unset = {}
  BY Zenon, <1>1 DEF LiftInv, Targets
<1>6. lift.phase \notin {"junk", "done"} /\ Idle
  BY Zenon, <1>1
<1>7. ILInv /\ JCTypeOK /\ ToSet(dis) \subseteq made
  BY StateFacts DEF LiftInv, LiftTypeOK
<1>8. \A d \in made : /\ obj[d].ref \in ToSet(p_dis) \union {NULL}
                      /\ obj[d].ref # NULL => IsJump(d)
                      /\ IsJump(d) => obj[d].ref # NULL
  BY <1>5, <1>6 DEF LayoutInv, Wired, Unset
<1>9. JCInv
  <2>1. jc.phase = "off"
    BY <1>3 DEF JunkIdle
  <2>2. Contained
    BY <1>2, <1>4 DEF Contained
  <2>3. CommitsLast /\ Unreferenced
    BY <1>6, <2>1 DEF CommitsLast, Unreferenced
  <2>4. TargetsSurvive
    BY <1>7, <1>8 DEF TargetsSurvive
  <2>5. CommittedBefore
    BY <1>2, <1>7, <1>8, <2>1 DEF CommittedBefore
  <2>6. Sifted /\ Published
    BY <2>1 DEF Sifted, Published
  <2> QED
    BY <1>7, <2>2, <2>3, <2>4, <2>5, <2>6 DEF JCInv, JCSafe
<1>10. UNCHANGED <<ilVars, jc, prog, code>>
  BY <1>1
<1>11. JCInv'
  BY <1>9, <1>10, JCInvNext DEF jcVars
<1>12. Laid'
  <2>1. LaidOut(p_dis, AfterResolve)' /\ jc'.phase = "off"
    BY <1>2, <1>3, <1>10, LaidOutKept DEF ilVars, JunkIdle
  <2> QED
    BY <1>1, <1>11, <2>1, PhasesLaid
<1>13. Wired'
  BY <1>6, <1>10, WiredOn
<1> QED
  BY <1>12, <1>13 DEF LayoutInv, Laid

(* junk_code works on the copy it was called on.                           *)
LEMMA JunkPassLays ==
  ASSUME LiftInv, LayoutInv, JunkPass PROVE LayoutInv'
<1>1. lift.phase = "junk" /\ JunkWork /\ UNCHANGED <<prog, code, pm, rm, lift>>
  BY DEF JunkPass
<1>2. /\ JCInv /\ (jc.phase = "off" => LaidOut(p_dis, AfterResolve))
      /\ jc.phase # "off" => LaidOut(jc.copy, AfterResolve)
  BY <1>1 DEF LayoutInv, Eliminating
<1>3. JCInv'
  BY <1>1, <1>2, JCInvNext DEF JCNext
<1>4. obj' = obj /\ made' = made
  BY <1>1 DEF JunkWork, JunkCall, JunkLook, JunkErase, JunkErased, JunkCommit, JunkReturn,
              ilVars
<1>5. \/ jc.phase = "off" /\ jc'.copy = p_dis /\ jc'.phase = "loop"
      \/ jc.phase # "off" /\ jc'.copy = jc.copy /\ jc'.phase # "off"
  <2>1. CASE JunkCall
    BY <2>1 DEF JunkCall
  <2>2. CASE JunkLook \/ JunkErase \/ JunkErased \/ JunkCommit \/ JunkReturn
    <3>1. jc \in [copy : Seq(Obj), i : Nat,
                  phase : {"off", "loop", "erase", "commit", "done"}]
      BY DEF LiftInv, LiftTypeOK, JCTypeOK
    <3>2. jc.phase # "off" /\ jc'.copy = jc.copy /\ jc'.phase # "off"
      BY <2>2, <3>1 DEF JunkLook, JunkErase, JunkErased, JunkCommit, JunkReturn
    <3> QED
      BY <3>2
  <2> QED
    BY <1>1, <2>1, <2>2 DEF JunkWork
<1>6. jc'.phase # "off" /\ LaidOut(jc.copy, AfterResolve)'
  <2>1. \A s : LaidOut(s, AfterResolve) => LaidOut(s, AfterResolve)'
    BY <1>1, LaidOutKept
  <2>2. LaidOut(jc'.copy, AfterResolve)
    BY <1>2, <1>5
  <2> QED
    BY <1>5, <2>1, <2>2
<1>7. Laid'
  <2>1. lift'.phase = "junk"
    BY <1>1
  <2> QED
    BY <1>3, <1>6, <2>1, PhasesLaid
<1>8. Wired'
  BY <1>1, <1>4, WiredStays DEF LayoutInv
<1> QED
  BY <1>7, <1>8 DEF LayoutInv, Laid

(* It returns.                                                             *)
LEMMA LiftReturnLays ==
  ASSUME LiftInv, LayoutInv, LiftReturn PROVE LayoutInv'
<1>1. /\ lift.phase = "junk" /\ jc.phase = "done"
      /\ UNCHANGED <<ilVars, jc, prog, code, pm, rm>>
      /\ lift'.phase = "done"
  BY Entered, PhaseFacts DEF LiftReturn
<1>2. JCInv /\ LaidOut(jc.copy, AfterResolve)
  BY <1>1 DEF LayoutInv, Eliminating
<1>3. JCInv'
  BY <1>1, <1>2, JCInvNext DEF jcVars
<1>4. LaidOut(jc.copy, AfterResolve)'
  <2>1. \A s : LaidOut(s, AfterResolve) => LaidOut(s, AfterResolve)'
    BY <1>1, LaidOutKept
  <2>2. LaidOut(jc'.copy, AfterResolve)
    BY <1>1, <1>2
  <2> QED
    BY <2>1, <2>2
<1>5. Laid'
  BY <1>1, <1>3, <1>4, PhasesLaid
<1>6. Wired'
  <2>1. obj' = obj /\ made' = made
    BY <1>1 DEF ilVars
  <2> QED
    BY <1>1, <2>1, WiredStays DEF LayoutInv
<1> QED
  BY <1>5, <1>6 DEF LayoutInv, Laid

-----------------------------------------------------------------------------
(***************************************************************************)
(* Allocation.                                                             *)
(***************************************************************************)

(* A new instruction that fits in: its reference, if it has one, leads to  *)
(* what parse_instructions made of the instruction the bytecode jumps to.  *)
FitsIn(r, e) ==
  /\ e.at # 0
  /\ r.kind = KindOf(e.op)
  /\ r.ref # NULL =>
       LET to == prog[e.at].to IN
         /\ r.kind = "jump"
         /\ to # 0
         /\ prog[to].op # "LOP_LOADB"
         /\ r.ref \in made /\ r.ref \in ToSet(p_dis)
         /\ code[r.ref] = [op |-> Translated(prog[to]), at |-> to]

(* Instructions are allocated, the others stay as they are.                *)
LEMMA WiredGrows ==
  ASSUME LiftInv, Wired, lift.phase \notin {"junk", "done"}, prog' = prog,
         ToSet(p_dis) \subseteq ToSet(p_dis'),
         \A x \in made : obj'[x] = obj[x] /\ code'[x] = code[x],
         \A x \in made' : x \notin made => FitsIn(obj'[x], code'[x])
  PROVE  Wired'
<1>1. \A x \in made : obj[x].ref \in made \union {NULL}
  BY DEF LiftInv, ILInv, Allocated
<1>2. ASSUME NEW d \in made', d \in made
      PROVE  /\ code'[d].at # 0
             /\ obj'[d].kind = KindOf(code'[d].op)
             /\ obj'[d].ref # NULL =>
                  LET to == prog'[code'[d].at].to IN
                    /\ IsJump(d)'
                    /\ to # 0
                    /\ prog'[to].op # "LOP_LOADB"
                    /\ code'[obj'[d].ref] = [op |-> Translated(prog'[to]), at |-> to]
             /\ obj'[d].ref \in ToSet(p_dis') \union {NULL}
  BY <1>1, <1>2 DEF Wired, IsJump
<1>3. ASSUME NEW d \in made', d \notin made
      PROVE  /\ code'[d].at # 0
             /\ obj'[d].kind = KindOf(code'[d].op)
             /\ obj'[d].ref # NULL =>
                  LET to == prog'[code'[d].at].to IN
                    /\ IsJump(d)'
                    /\ to # 0
                    /\ prog'[to].op # "LOP_LOADB"
                    /\ code'[obj'[d].ref] = [op |-> Translated(prog'[to]), at |-> to]
             /\ obj'[d].ref \in ToSet(p_dis') \union {NULL}
  BY <1>3 DEF FitsIn, IsJump
<1> QED
  BY <1>2, <1>3 DEF Wired

(* parse_instructions gives each opcode its kind, and no reference.        *)
LEMMA ParsedKind ==
  ASSUME NEW b, lift.pc \in Int
  PROVE  Parsed(b).kind = KindOf(Translated(b)) /\ Parsed(b).ref = NULL
<1> DEFINE op == Translated(b)
<1>1. KindOf(op) = IF op = "OP_NOP" THEN "nop" ELSE IF op \in TakesJump THEN "jump" ELSE "other"
  BY TranslatedFacts, Roles
<1>2. "OP_NOP" \notin TakesJump
  BY DEF TakesJump
<1>3. CASE op \in TakesJump
  <2>1. Parsed(b) = [kind |-> "jump", ref |-> NULL, addr |-> lift.pc, jmp |-> b.jmp,
                     ref_addr |-> b.ref_addr]
    BY <1>3 DEF Parsed
  <2>2. KindOf(op) = "jump"
    BY <1>1, <1>2, <1>3
  <2> QED
    BY <2>1, <2>2
<1>4. CASE op \notin TakesJump
  <2> DEFINE k == IF op = "OP_NOP" THEN "nop" ELSE "other"
  <2>1. Parsed(b) = Bare(k, lift.pc)
    BY <1>4 DEF Parsed, Bare
  <2>2. KindOf(op) = k /\ k \in Kinds
    BY <1>1, <1>4 DEF Kinds
  <2> HIDE DEF k, op
  <2> QED
    BY <2>1, <2>2, BareFacts DEF op
<1> QED
  BY <1>3, <1>4

(* The lifted instructions of the bytecode, one after the other.           *)
LEMMA ParseInstructionLays ==
  ASSUME Unlimited, LiftInv, LayoutInv, ParseInstruction PROVE LayoutInv'
<1> DEFINE d == Fresh(made)
           b == prog[lift.i]
<1>1. /\ lift.phase = "parse"
      /\ Make(d, Parsed(b)) /\ AppendDis(d)
      /\ code' = [code EXCEPT ![d] = [op |-> Translated(b), at |-> lift.i]]
      /\ lift' = [lift EXCEPT !.i = @ + 1, !.pc = @ + b.len]
      /\ UNCHANGED <<dis, cm, jc, prog, pm, rm>>
  BY DEF ParseInstruction
<1>2. d \in Obj /\ d \notin made
  <2>1. IsFiniteSet(made)
    BY DEF LiftInv
  <2> QED
    BY <2>1, FreshFacts
<1>3. Parsed(b).kind = KindOf(Translated(b)) /\ Parsed(b).ref = NULL
  BY StateFacts, ParsedKind
<1>4. lift.i # 0 /\ lift \in Lifts /\ obj \in [Obj -> Instr] /\ code \in Codes(Len(prog))
      /\ made \subseteq Obj /\ PendingOK(p_dis) /\ p_dis \in Seq(Ptr)
  BY StateFacts
<1> HIDE DEF d, b
<1>5. /\ made' = made \union {d} /\ obj' = [obj EXCEPT ![d] = Parsed(b)]
      /\ p_dis' = Append(p_dis, d)
  BY <1>1 DEF Make, AppendDis
<1>6. /\ \A x \in made : obj'[x] = obj[x] /\ code'[x] = code[x]
      /\ obj'[d] = Parsed(b) /\ code'[d] = [op |-> Translated(b), at |-> lift.i]
  BY <1>1, <1>2, <1>4, <1>5 DEF Codes
<1>7. FitsIn(obj'[d], code'[d])
  BY <1>3, <1>4, <1>6 DEF FitsIn
<1>8. ToSet(p_dis) \subseteq ToSet(p_dis')
  <2>1. d \notin ToSet(p_dis)
    BY <1>2, <1>4, StateFacts, NullAssumption
  <2> QED
    BY <1>2, <1>4, <1>5, <2>1, AppendKeeps
<1>9. Wired'
  <2>1. lift.phase \notin {"junk", "done"} /\ prog' = prog
    BY <1>1
  <2>2. \A x \in made' : x \notin made => x = d
    BY <1>5
  <2> QED
    BY <1>6, <1>7, <1>8, <2>1, <2>2, WiredGrows DEF LayoutInv
<1>10. lift'.phase = "parse"
  BY <1>1, <1>4 DEF Lifts
<1>11. Laid'
  BY <1>10, PhasesLaid
<1> QED
  BY <1>9, <1>11 DEF LayoutInv, Laid

(* The first commit starts.                                                *)
LEMMA InstructionsParsedLays ==
  ASSUME LiftInv, LayoutInv, InstructionsParsed PROVE LayoutInv'
<1>1. /\ lift.phase = "parse" /\ UNCHANGED <<obj, made, p_dis, dis, jc, prog, code, pm, rm>>
      /\ lift'.phase = "first commit"
  BY Entered, PhaseFacts DEF InstructionsParsed
<1>2. Laid'
  BY <1>1, PhasesLaid
<1>3. lift.phase \notin {"junk", "done"} /\ UNCHANGED <<obj, made, p_dis, prog, code>>
  BY Zenon, <1>1
<1>4. ToSet(p_dis) \subseteq ToSet(p_dis') \union {NULL}
  BY <1>3
<1>5. Wired'
  BY <1>3, <1>4, WiredStays DEF LayoutInv
<1> QED
  BY <1>2, <1>5 DEF LayoutInv, Laid

-----------------------------------------------------------------------------
(***************************************************************************)
(* parse_compares.                                                         *)
(***************************************************************************)

(* Queueing what a compare becomes behind all that was queued before.      *)
TwoQueued(t, m, v, rank, i, c, u) ==
  /\ t \in Managers /\ QueueFits(t, v, rank)
  /\ \A k \in 1..Len(t.queue) : t.queue[k].at < i
  /\ \A f : Given(t.queue, f) = Given(m.queue, f) \union {f[c], f[u]}
  /\ Removals(t.queue) = Removals(m.queue)

LEMMA TwoInsertions ==
  ASSUME NEW rank \in Ranks, NEW v \in Seq(Obj), NEW m \in Managers, QueueFits(m, v, rank),
         NEW i \in Nat \ {0}, i < Len(v), NEW c \in Obj \ ToSet(v), NEW u \in Obj \ ToSet(v),
         rank[v[i]] < rank[c], rank[c] < rank[u], rank[u] < rank[v[i + 1]],
         \A k \in 1..Len(m.queue) :
           /\ m.queue[k].at < i - 1
           /\ m.queue[k].act = "add" => m.queue[k].d \in Obj /\ rank[m.queue[k].d] < rank[c]
  PROVE  TwoQueued(JumpEdits(m, i, c, u), m, v, rank, i, c, u)
<1> DEFINE s == QueueAdd(m, i - 1, c)
           t == QueueAdd(s, i - 1, u)
           x == [act |-> "add", pos |-> (i - 1) + m.sync, at |-> i - 1, d |-> c]
           y == [act |-> "add", pos |-> (i - 1) + s.sync, at |-> i - 1, d |-> u]
<1>1. /\ i - 1 \in Nat /\ (i - 1) + 1 = i /\ (i - 1) + 2 = i + 1 /\ Len(v) \in Nat
      /\ c \in Ptr /\ u \in Ptr /\ i \in 1..Len(v) /\ i + 1 \in 1..Len(v)
  BY DEF Ptr
<1>2. rank[c] \in Int /\ rank[u] \in Int /\ rank[v[i]] \in Int /\ rank[v[i + 1]] \in Int
  <2>1. v[i] \in Obj /\ v[i + 1] \in Obj
    BY <1>1
  <2> QED
    BY <2>1 DEF Ranks
<1>3. Queued(s, m, x)
  BY <1>1, QueueAddIs
<1>4. s \in Managers
  BY <1>3 DEF Queued
<1>5. Queued(t, s, y)
  BY <1>1, <1>4, QueueAddIs
<1>6. x.act = "add" /\ x.at = i - 1 /\ x.d = c /\ y.act = "add" /\ y.at = i - 1 /\ y.d = u
  OBVIOUS
<1>7. \A k \in 1..Len(m.queue) : m.queue[k].at \in Nat
  BY QueueTyped
<1>8. t = JumpEdits(m, i, c, u)
  BY DEF JumpEdits
<1> HIDE DEF x, y
<1>9. QueueFits(s, v, rank)
  <2>1. Below(m, i - 1, rank[c], rank)
    <3>1. \A at \in Nat : at < i - 1 => at <= i - 1
      BY <1>1
    <3> QED
      BY <1>7, <3>1 DEF Below
  <2>2. rank[v[(i - 1) + 1]] < rank[c] /\ rank[c] < rank[v[(i - 1) + 2]]
    BY <1>1, <1>2
  <2>3. (i - 1) + 1 < Len(v)
    BY <1>1
  <2> QED
    BY <1>1, <2>1, <2>2, <2>3, AddFits
<1> HIDE DEF s
<1>10. \A k \in 1..Len(s.queue) :
         /\ s.queue[k].at \in Nat /\ s.queue[k].at <= i - 1
         /\ s.queue[k].act = "add" => rank[s.queue[k].d] < rank[u]
  <2>1. ASSUME NEW k \in 1..Len(s.queue)
        PROVE  /\ s.queue[k].at \in Nat /\ s.queue[k].at <= i - 1
               /\ s.queue[k].act = "add" => rank[s.queue[k].d] < rank[u]
    <3>1. CASE k \in 1..Len(m.queue)
      <4>1. s.queue[k] = m.queue[k]
        BY <1>3, <3>1, QueuedFacts
      <4>2. \A a, b \in Int : a < b /\ b < rank[u] => a < rank[u]
        BY <1>2
      <4>3. m.queue[k].act = "add" => rank[m.queue[k].d] \in Int
        BY <3>1 DEF Ranks
      <4>4. m.queue[k].act = "add" => rank[m.queue[k].d] < rank[u]
        BY <1>2, <3>1, <4>2, <4>3
      <4>5. m.queue[k].at \in Nat /\ m.queue[k].at < i - 1
        BY <1>7, <3>1
      <4>6. m.queue[k].at <= i - 1
        BY <1>1, <4>5
      <4> QED
        BY <4>1, <4>4, <4>5, <4>6
    <3>2. CASE k = Len(s.queue)
      <4>1. s.queue[k] = x
        BY <1>3, <3>2, QueuedFacts
      <4> QED
        BY <1>1, <1>6, <4>1
    <3> QED
      BY <1>3, <3>1, <3>2, QueuedFacts
  <2> QED
    BY <2>1
<1>11. QueueFits(t, v, rank)
  <2>1. Below(s, i - 1, rank[u], rank)
    BY <1>10 DEF Below
  <2>2. rank[v[(i - 1) + 1]] < rank[u] /\ rank[u] < rank[v[(i - 1) + 2]]
    BY <1>1, <1>2
  <2>3. (i - 1) + 1 < Len(v)
    BY <1>1
  <2> QED
    BY <1>1, <1>4, <1>9, <2>1, <2>2, <2>3, AddFits
<1> HIDE DEF t
<1>12. ASSUME NEW k \in 1..Len(t.queue) PROVE t.queue[k].at < i
  <2>1. CASE k \in 1..Len(s.queue)
    <3>1. t.queue[k] = s.queue[k]
      BY <1>5, <1>4, <2>1, QueuedFacts
    <3>2. s.queue[k].at \in Nat /\ s.queue[k].at <= i - 1
      BY <1>10, <2>1
    <3> QED
      BY <3>1, <3>2
  <2>2. CASE k = Len(t.queue)
    <3>1. t.queue[k] = y
      BY <1>5, <1>4, <2>2, QueuedFacts
    <3> QED
      BY <1>6, <3>1
  <2> QED
    BY <1>5, <1>4, <2>1, <2>2, QueuedFacts
<1>13. Adds(s, m, x) /\ Adds(t, s, y)
  BY <1>3, <1>4, <1>5, <1>6, GivenMore
<1>14. /\ \A f : Given(t.queue, f) = Given(m.queue, f) \union {f[c], f[u]}
       /\ Removals(t.queue) = Removals(m.queue)
  <2>1. /\ \A f : Given(s.queue, f) = Given(m.queue, f) \union {f[c]}
        /\ \A f : Given(t.queue, f) = Given(s.queue, f) \union {f[u]}
    BY <1>6, <1>13 DEF Adds
  <2>2. Removals(t.queue) = Removals(m.queue)
    BY <1>13 DEF Adds
  <2>3. ASSUME NEW f PROVE Given(t.queue, f) = Given(m.queue, f) \union {f[c], f[u]}
    <3>1. /\ Given(s.queue, f) = Given(m.queue, f) \union {f[c]}
          /\ Given(t.queue, f) = Given(s.queue, f) \union {f[u]}
      BY <2>1
    <3> QED
      BY <3>1
  <2> QED
    BY <2>2, <2>3
<1>15. t \in Managers
  BY <1>5 DEF Queued
<1> QED
  BY <1>8, <1>11, <1>12, <1>14, <1>15 DEF TwoQueued

(* The two removals of a compare that becomes a value.                     *)
TwoUnqueued(t, m, v, rank, i) ==
  /\ QueueFits(t, v, rank)
  /\ \A f : Given(t.queue, f) = Given(m.queue, f)
  /\ Removals(t.queue) = Removals(m.queue) \union {i, i + 1}

LEMMA TwoRemovals ==
  ASSUME NEW rank, NEW v, NEW m \in Managers, QueueFits(m, v, rank), NEW i \in Nat \ {0},
         Len(v) \in Nat, i + 2 < Len(v), \A k \in 1..Len(m.queue) : m.queue[k].at < i,
         NEW t, t = QueueRemove(QueueRemove(m, i), i + 1)
  PROVE  TwoUnqueued(t, m, v, rank, i)
<1> DEFINE s == QueueRemove(m, i)
           x == [act |-> "remove", pos |-> i + m.sync - 1, at |-> i, d |-> NULL]
           y == [act |-> "remove", pos |-> (i + 1) + s.sync - 1, at |-> i + 1, d |-> NULL]
<1>1. i \in Nat /\ i + 1 \in Nat /\ i + 1 < Len(v) /\ (i + 1) + 1 < Len(v)
  OBVIOUS
<1>2. Queued(s, m, x)
  BY <1>1, QueueRemoveIs
<1>3. s \in Managers
  BY <1>2 DEF Queued
<1>4. Queued(t, s, y)
  BY <1>1, <1>3, QueueRemoveIs
<1>5. x.act = "remove" /\ x.at = i /\ y.act = "remove" /\ y.at = i + 1
  OBVIOUS
<1> HIDE DEF x, y
<1>6. QueueFits(s, v, rank)
  BY <1>1, RemoveFits
<1>7. t = QueueRemove(s, i + 1)
  OBVIOUS
<1> HIDE DEF s
<1>8. ASSUME NEW k \in 1..Len(s.queue) PROVE s.queue[k].at < i + 1
  <2>1. CASE k \in 1..Len(m.queue)
    <3>1. s.queue[k] = m.queue[k]
      BY <1>2, <2>1, QueuedFacts
    <3>2. m.queue[k].at \in Nat /\ m.queue[k].at < i
      BY <2>1, QueueTyped
    <3> QED
      BY <3>1, <3>2
  <2>2. CASE k = Len(s.queue)
    <3>1. s.queue[k] = x
      BY <1>2, <2>2, QueuedFacts
    <3> QED
      BY <1>5, <3>1
  <2> QED
    BY <1>2, <2>1, <2>2, QueuedFacts
<1>9. QueueFits(t, v, rank)
  BY <1>1, <1>3, <1>6, <1>7, <1>8, RemoveFits
<1>10. Removes(s, m, x) /\ Removes(t, s, y)
  BY <1>2, <1>3, <1>4, <1>5, GivenMore
<1>11. \A f : Given(t.queue, f) = Given(m.queue, f)
  BY <1>10 DEF Removes
<1>12. Removals(t.queue) = Removals(m.queue) \union {i, i + 1}
  <2>1. /\ Removals(s.queue) = Removals(m.queue) \union {i}
        /\ Removals(t.queue) = Removals(s.queue) \union {i + 1}
    BY <1>5, <1>10 DEF Removes
  <2> QED
    BY <2>1
<1> QED
  BY <1>9, <1>11, <1>12 DEF TwoUnqueued

(* What was queued for the compares in front of compare i comes before it. *)
LEMMA ComparesBelow ==
  ASSUME LiftInv, OneForOne(dis), NEW i \in 1..Len(prog), Compared(i),
         QueueFits(pm, dis, Rank), ComparesQueued(i)
  PROVE  \A k \in 1..Len(pm.queue) :
           /\ pm.queue[k].at < i - 1
           /\ pm.queue[k].act = "add" => Rank[pm.queue[k].d] < 4 * i
<1>1. /\ Len(prog) \in Nat /\ dis \in Seq(Obj) /\ code \in Codes(Len(prog))
      /\ ProgramOK(prog) /\ i \in Nat
  BY StateFacts DEF LiftInv
<1>2. prog[i].op # "LOP_LOADB"
  BY OpcodesDiffer DEF Compared
<1> SUFFICES ASSUME NEW k \in 1..Len(pm.queue)
             PROVE  /\ pm.queue[k].at < i - 1
                    /\ pm.queue[k].act = "add" => Rank[pm.queue[k].d] < 4 * i
  OBVIOUS
<1> DEFINE e == pm.queue[k]
<1>3. e \in Edit /\ e.at \in Nat
  BY StateFacts, QueueTyped
<1>4. CASE e.act = "add" /\ code[e.d] \in Given(pm.queue, code)
  <2>1. PICK j \in 1..(i - 1) : Compared(j) /\ code[e.d] \in Halves(j)
    BY <1>4, ComparesQueuedFacts
  <2>2. code[e.d].at = j
    BY <2>1, ExpansionFacts
  <2>3. /\ e.d \in Obj /\ e.at + 1 < Len(dis) /\ Rank[dis[e.at + 1]] < Rank[e.d]
    BY <1>4 DEF QueueFits, EditFits
  <2>4. Rank[e.d] = 4 * j + Role(code[e.d].op) /\ Role(code[e.d].op) \in 0..3
    BY <1>1, <2>2, <2>3, RankFacts
  <2>5. Rank[dis[e.at + 1]] = 4 * (e.at + 1)
    <3>1. e.at + 1 \in 1..Len(dis) /\ Len(dis) = Len(prog)
      BY <1>1, <1>3, <2>3 DEF OneForOne
    <3>2. dis[e.at + 1] \in Obj
      BY <1>1, <3>1
    <3>3. code[dis[e.at + 1]] = [op |-> Translated(prog[e.at + 1]), at |-> e.at + 1]
      BY <3>1 DEF OneForOne
    <3>4. Role(Translated(prog[e.at + 1])) = 0
      BY TranslatedFacts, Roles
    <3>5. Rank[dis[e.at + 1]] = 4 * code[dis[e.at + 1]].at + Role(code[dis[e.at + 1]].op)
      BY <1>1, <3>2, RankFacts
    <3>6. code[dis[e.at + 1]].at = e.at + 1 /\ Role(code[dis[e.at + 1]].op) = 0
      BY <3>3, <3>4
    <3> QED
      BY <1>3, <3>5, <3>6
  <2>6. \A at, l, r \in Int : 4 * (at + 1) < 4 * l + r /\ r <= 3 /\ l <= i - 1
                                => at < i - 1 /\ 4 * l + r < 4 * i
    BY <1>1
  <2>7. j \in Int /\ j <= i - 1 /\ Role(code[e.d].op) \in Int /\ Role(code[e.d].op) <= 3
    BY <1>1, <2>4
  <2>8. e.at \in Int /\ 4 * (e.at + 1) < 4 * j + Role(code[e.d].op)
    BY <1>3, <2>3, <2>4, <2>5
  <2>9. e.at < i - 1 /\ 4 * j + Role(code[e.d].op) < 4 * i
    BY <2>6, <2>7, <2>8
  <2> QED
    BY <2>4, <2>9
<1>5. CASE e.act = "remove" /\ e.at \in Removals(pm.queue)
  <2>1. PICK j \in 1..(i - 1) : Compared(j) /\ SetCmp(j) /\ e.at \in {j, j + 1}
    BY <1>5, ComparesQueuedFacts
  <2>2. prog[j + 1].op = "LOP_LOADB" /\ prog[j + 2].op = "LOP_LOADB" /\ j \in Nat
    <3>1. j \in 1..Len(prog)
      BY <1>1
    <3> QED
      BY <1>1, <2>1, <3>1, SetFacts
  <2>3. i # j + 1 /\ i # j + 2
    BY <1>2, <2>2
  <2>4. j <= i - 1
    OBVIOUS
  <2>5. j + 1 < i - 1
    BY <1>1, <2>2, <2>3, <2>4
  <2> QED
    BY <1>1, <1>5, <2>1, <2>2, <2>5
<1> QED
  BY <1>4, <1>5, QueueEdits

(* Allocating changes no rank of what was there, so that a queue still     *)
(* fits and the pending vector stays sorted.                               *)
LEMMA AllocationKeeps ==
  ASSUME LiftInv, code' \in Codes(Len(prog)), \A x \in made : code'[x] = code[x]
  PROVE  /\ Rank' \in Ranks
         /\ \A d \in Obj : Rank'[d] = 4 * code'[d].at + Role(code'[d].op)
         /\ \A d \in made : Rank'[d] = Rank[d]
         /\ QueueFits(pm, dis, Rank) => QueueFits(pm, dis, Rank')
         /\ QueueFits(rm, dis, Rank) => QueueFits(rm, dis, Rank')
         /\ Given(pm.queue, code') = Given(pm.queue, code)
         /\ Given(rm.queue, code') = Given(rm.queue, code)
         /\ Sorted(p_dis, Rank) => Sorted(p_dis, Rank')
<1>1. /\ made \subseteq Obj /\ code \in Codes(Len(prog)) /\ pm \in Managers /\ rm \in Managers
      /\ Len(prog) \in Nat
      /\ dis \in Seq(made) /\ p_dis \in Seq(made \union {NULL})
      /\ \A k \in 1..Len(pm.queue) : pm.queue[k].act = "add" => pm.queue[k].d \in made
      /\ \A k \in 1..Len(rm.queue) : rm.queue[k].act = "add" => rm.queue[k].d \in made
  <2>1. \A S, T, s : s \in Seq(S) /\ ToSet(s) \subseteq T => s \in Seq(T)
    BY ToSetFacts, SeqDef
  <2>2. /\ dis \in Seq(Obj) /\ p_dis \in Seq(Ptr)
        /\ ToSet(p_dis) \subseteq made \union {NULL} /\ ToSet(dis) \subseteq made
    BY StateFacts
  <2> QED
    BY <2>1, <2>2, StateFacts DEF LiftInv, Queues, QueueOK
<1>2. Rank' = [d \in Obj |-> 4 * code'[d].at + Role(code'[d].op)]
  BY DEF Rank
<1>3. Rank' \in Ranks
  <2>1. ASSUME NEW d \in Obj PROVE 4 * code'[d].at + Role(code'[d].op) \in Int
    <3>1. code'[d].at \in Nat
      BY <1>1 DEF Codes
    <3>2. Role(code'[d].op) \in Int
      BY Roles
    <3> QED
      BY <3>1, <3>2
  <2> QED
    BY <1>2, <2>1 DEF Ranks
<1>4. \A d \in made : Rank'[d] = Rank[d]
  BY <1>1, <1>2 DEF Rank
<1>5. /\ QueueFits(pm, dis, Rank) => QueueFits(pm, dis, Rank')
      /\ QueueFits(rm, dis, Rank) => QueueFits(rm, dis, Rank')
  BY <1>1, <1>4, QueueFitsRanked
<1>6. /\ Given(pm.queue, code') = Given(pm.queue, code)
      /\ Given(rm.queue, code') = Given(rm.queue, code)
  BY <1>1, GivenSame
<1>7. Sorted(p_dis, Rank) => Sorted(p_dis, Rank')
  BY <1>1, <1>4, SortedRanked
<1> QED
  BY <1>2, <1>3, <1>4, <1>5, <1>6, <1>7

(* Either rewriting of a compare.                                          *)
LEMMA CompareLays ==
  ASSUME LiftInv, LiftInv', LayoutInv, lift.phase = "compares", NEW i, i = lift.i,
         i \in 1..Len(prog), Compared(i),
         NEW c \in Obj \ made, NEW u \in Obj \ (made \union {c}), NEW r \in Instr,
         FitsIn(r, [op |-> UseOp(i), at |-> i]), EmitCompare(i, c, u, UseOp(i), r),
         pm' = IF SetCmp(i) THEN SetEdits(pm, i, c, u) ELSE JumpEdits(pm, i, c, u),
         Advance, UNCHANGED <<p_dis, dis, cm, jc, prog, rm>>
  PROVE  LayoutInv'
<1> DEFINE n == Len(prog)
           s == Bare("other", prog[i].addr)
           t == JumpEdits(pm, i, c, u)
<1>1. /\ n \in Nat /\ i \in Nat \ {0} /\ ProgramOK(prog) /\ dis \in Seq(Obj)
      /\ obj \in [Obj -> Instr] /\ code \in Codes(n) /\ pm \in Managers /\ made \subseteq Obj
      /\ ToSet(dis) \subseteq made
  BY StateFacts DEF LiftInv
<1>2. Originals(dis, n) /\ dis = p_dis
  BY DEF LiftInv, AsParsed
<1>3. OneForOne(dis) /\ Len(dis) = n
  BY <1>2 DEF OneForOne, Originals, Original
<1>4. QueueFits(pm, dis, Rank) /\ ComparesQueued(i)
  BY Zenon DEF LayoutInv, Parsing
<1>5. /\ i < n
      /\ SetCmp(i) => UseOp(i) \in Settings
      /\ ~SetCmp(i) => UseOp(i) \in Branches
  BY <1>1, ComparedFacts
<1>6. /\ made' = made \union {c, u}
      /\ obj' = [obj EXCEPT ![c] = s, ![u] = r]
      /\ code' = [code EXCEPT ![c] = [op |-> CompareOp(prog[i].op), at |-> i],
                              ![u] = [op |-> UseOp(i), at |-> i]]
  BY DEF EmitCompare, Bare
<1>7. s.kind = "other" /\ s.ref = NULL
  <2>1. prog[i].addr \in Int /\ "other" \in Kinds
    BY <1>1, InstructionFacts DEF Kinds
  <2> QED
    BY <2>1, BareFacts
<1> HIDE DEF s, n, t
<1>8. /\ \A x \in made : obj'[x] = obj[x] /\ code'[x] = code[x]
      /\ obj'[c] = s /\ obj'[u] = r
      /\ code'[c] = [op |-> CompareOp(prog[i].op), at |-> i]
      /\ code'[u] = [op |-> UseOp(i), at |-> i]
  BY <1>1, <1>6 DEF Codes
<1>9. code' \in Codes(n)
  BY DEF LiftInv, LiftTypeOK, Codes, n
<1>10. /\ Rank' \in Ranks
       /\ \A d \in Obj : Rank'[d] = 4 * code'[d].at + Role(code'[d].op)
       /\ \A d \in made : Rank'[d] = Rank[d]
       /\ QueueFits(pm, dis, Rank')
       /\ Given(pm.queue, code') = Given(pm.queue, code)
  BY <1>4, <1>8, <1>9, AllocationKeeps DEF n
<1>11. /\ Role(CompareOp(prog[i].op)) = 1 /\ Role(UseOp(i)) = 2
       /\ KindOf(CompareOp(prog[i].op)) = "other"
  BY <1>5, HalfOpcodes, Roles
<1>12. Rank'[c] = 4 * i + 1 /\ Rank'[u] = 4 * i + 2
  <2>1. /\ code'[c].at = i /\ Role(code'[c].op) = 1
        /\ code'[u].at = i /\ Role(code'[u].op) = 2
    BY <1>8, <1>11
  <2> QED
    BY <1>10, <2>1
<1>13. ASSUME NEW k \in 1..n PROVE Rank'[dis[k]] = 4 * k
  <2>1. dis[k] \in made
    BY <1>1, <1>3, ToSetFacts
  <2>2. code'[dis[k]] = [op |-> Translated(prog[k]), at |-> k]
    BY <1>3, <1>8, <2>1 DEF OneForOne, n
  <2>3. Role(Translated(prog[k])) = 0 /\ k \in Nat
    BY <1>1, TranslatedFacts, Roles
  <2>4. code'[dis[k]].at = k /\ Role(code'[dis[k]].op) = 0
    BY <2>2, <2>3
  <2> QED
    BY <1>1, <1>10, <2>1, <2>3, <2>4
<1>14. i + 1 \in 1..n /\ i \in 1..n
  BY <1>1, <1>5
<1>15. \A k \in 1..Len(pm.queue) :
         /\ pm.queue[k].at < i - 1
         /\ pm.queue[k].act = "add" => /\ pm.queue[k].d \in Obj
                                       /\ Rank'[pm.queue[k].d] < Rank'[c]
  <2>1. ASSUME NEW k \in 1..Len(pm.queue)
        PROVE  /\ pm.queue[k].at < i - 1
               /\ pm.queue[k].act = "add" => /\ pm.queue[k].d \in made
                                             /\ Rank[pm.queue[k].d] < 4 * i
    <3>1. pm.queue[k].at < i - 1 /\ (pm.queue[k].act = "add" => Rank[pm.queue[k].d] < 4 * i)
      BY <1>3, <1>4, ComparesBelow
    <3> QED
      BY <3>1 DEF LiftInv, Queues, QueueOK
  <2>2. \A a \in Int : a < 4 * i => a < 4 * i + 1
    BY <1>1
  <2>3. ASSUME NEW d \in made, Rank[d] < 4 * i PROVE d \in Obj /\ Rank'[d] < Rank'[c]
    <3>1. Rank'[d] = Rank[d] /\ Rank'[d] \in Int
      BY <1>1, <1>10, <2>3 DEF Ranks
    <3> QED
      BY <1>1, <1>12, <2>2, <2>3, <3>1
  <2> QED
    BY <2>1, <2>3
<1>16. TwoQueued(t, pm, dis, Rank', i, c, u)
  <2>1. c \in Obj \ ToSet(dis) /\ u \in Obj \ ToSet(dis)
    BY <1>1
  <2>2. /\ Rank'[dis[i]] < Rank'[c] /\ Rank'[c] < Rank'[u] /\ Rank'[u] < Rank'[dis[i + 1]]
    <3>1. /\ 4 * i < 4 * i + 1 /\ 4 * i + 1 < 4 * i + 2 /\ 4 * i + 2 < 4 * (i + 1)
      BY <1>1
    <3> QED
      BY <1>12, <1>13, <1>14, <3>1
  <2>3. i < Len(dis)
    BY <1>3, <1>5
  <2> QED
    BY <1>1, <1>10, <1>15, <2>1, <2>2, <2>3, TwoInsertions DEF t
<1>17. /\ QueueFits(pm', dis, Rank')
       /\ \A f : Given(pm'.queue, f) = Given(pm.queue, f) \union {f[c], f[u]}
       /\ Removals(pm'.queue)
            = IF SetCmp(i) THEN Removals(pm.queue) \union {i, i + 1} ELSE Removals(pm.queue)
  <2>1. CASE SetCmp(i)
    <3>1. pm' = QueueRemove(QueueRemove(t, i), i + 1)
      BY <2>1 DEF SetEdits, t
    <3>2. i + 2 < Len(dis) /\ Len(dis) \in Nat
      <4>1. i + 3 \in 1..n
        BY <1>1, <2>1, SetFacts DEF n
      <4> QED
        BY <1>1, <1>3, <4>1
    <3>3. /\ QueueFits(pm', dis, Rank')
          /\ \A f : Given(pm'.queue, f) = Given(t.queue, f)
          /\ Removals(pm'.queue) = Removals(t.queue) \union {i, i + 1}
      <4>1. t \in Managers /\ QueueFits(t, dis, Rank')
        BY <1>16 DEF TwoQueued
      <4>2. \A k \in 1..Len(t.queue) : t.queue[k].at < i
        BY <1>16 DEF TwoQueued
      <4>3. i \in Nat \ {0}
        BY <1>1
      <4> HIDE DEF t
      <4>4. ASSUME NEW w, w = QueueRemove(QueueRemove(t, i), i + 1)
            PROVE  TwoUnqueued(w, t, dis, Rank', i)
        BY <3>2, <4>1, <4>2, <4>3, <4>4, TwoRemovals
      <4> QED
        BY <3>1, <4>4 DEF TwoUnqueued
    <3> QED
      BY <1>16, <2>1, <3>3 DEF TwoQueued
  <2>2. CASE ~SetCmp(i)
    BY <1>16, <2>2 DEF TwoQueued, t
  <2> QED
    BY <2>1, <2>2
<1>18. ComparesQueued(i + 1)'
  <2>1. (i + 1) - 1 = i /\ \A j : j \in 1..i <=> j \in 1..(i - 1) \/ j = i
    BY <1>1
  <2>2. Insertions(pm.queue)' = Given(pm'.queue, code')
    BY DEF Insertions, Given
  <2>3. Halves(i) = {code'[c], code'[u]}
    BY <1>8 DEF Halves
  <2>4. Given(pm'.queue, code') = Given(pm.queue, code) \union Halves(i)
    BY <1>10, <1>17, <2>3
  <2>5. /\ Given(pm.queue, code) = UNION {Halves(j) : j \in {j \in 1..(i - 1) : Compared(j)}}
        /\ Removals(pm.queue)
             = UNION {{j, j + 1} : j \in {j \in 1..(i - 1) : Compared(j) /\ SetCmp(j)}}
    BY <1>4 DEF ComparesQueued, Insertions, Given
  <2>6. Given(pm'.queue, code') = UNION {Halves(j) : j \in {j \in 1..i : Compared(j)}}
    BY <2>1, <2>4, <2>5
  <2>7. Removals(pm'.queue)
          = UNION {{j, j + 1} : j \in {j \in 1..i : Compared(j) /\ SetCmp(j)}}
    BY <1>17, <2>1, <2>5
  <2>8. /\ \A j : Compared(j)' = Compared(j)
        /\ \A j : SetCmp(j)' = SetCmp(j)
        /\ \A j : Halves(j)' = Halves(j)
    BY SameProgram
  <2> QED
    BY <2>1, <2>2, <2>6, <2>7, <2>8 DEF ComparesQueued
<1>19. Laid'
  <2>1. lift'.phase = "compares" /\ lift'.i = i + 1
    BY Advanced
  <2>2. QueueFits(pm, dis, Rank)' /\ ComparesQueued(lift.i)'
    BY <1>17, <1>18, <2>1
  <2>3. lift'.i <= Len(prog') + 1
    BY <1>1, <1>5, <2>1 DEF n
  <2> QED
    BY <2>1, <2>2, <2>3, PhasesLaid
<1>20. Wired'
  <2>1. FitsIn(obj'[c], code'[c])
    BY <1>1, <1>7, <1>8, <1>11 DEF FitsIn
  <2>2. FitsIn(obj'[u], code'[u])
    BY <1>8
  <2>3. \A x \in made' : x \notin made => FitsIn(obj'[x], code'[x])
    BY <1>6, <2>1, <2>2
  <2> QED
    BY <1>8, <2>3, WiredGrows DEF LayoutInv
<1> QED
  BY <1>19, <1>20 DEF LayoutInv, Laid

(* Before the edits a jump that leads to the start of a unit is found what *)
(* parse_instructions made of the instruction it leads to.                 *)
LEMMA TargetFound ==
  ASSUME ProgramOK(prog), dis \in Seq(Obj), Originals(dis, Len(prog)),
         NEW i \in 1..Len(prog), Single(prog, i), prog[i].to # 0
  PROVE  /\ prog[i].to \in 1..Len(prog) /\ prog[prog[i].to].op # "LOP_LOADB"
         /\ Visitable(prog[i].ref_addr)
         /\ VisitAddr(prog[i].ref_addr) = dis[prog[i].to]
         /\ VisitAddr(prog[i].ref_addr) \in made
         /\ VisitAddr(prog[i].ref_addr) \in ToSet(dis)
         /\ code[VisitAddr(prog[i].ref_addr)]
              = [op |-> Translated(prog[prog[i].to]), at |-> prog[i].to]
<1> DEFINE to == prog[i].to
<1>1. to \in 0..Len(prog) /\ Len(prog) \in Nat
  BY InstructionFacts
<1>2. to \in 1..Len(prog)
  BY <1>1
<1>3. prog[i].ref_addr = prog[to].addr
  BY DEF ProgramOK
<1>4. VisitAddr(prog[to].addr) = dis[to] /\ Visitable(prog[to].addr)
  BY <1>2, VisitsOriginal, OriginalsVisitable
<1>5. Original(dis[to], to) /\ Len(dis) = Len(prog)
  BY <1>2 DEF Originals
<1>6. dis[to] \in ToSet(dis)
  BY <1>2, <1>5, ToSetFacts
<1> QED
  BY <1>2, <1>3, <1>4, <1>5, <1>6 DEF Original, Single

(* A compare that jumps is a unit of its own.                              *)
LEMMA JumpingCompare ==
  ASSUME ProgramOK(prog), NEW i \in 1..Len(prog), Compared(i), ~SetCmp(i)
  PROVE  Single(prog, i) /\ prog[i].to # 0
<1>1. prog[i].op # "LOP_LOADB"
  BY OpcodesDiffer DEF Compared
<1>2. ~Pair(prog, i)
  BY PairIsSet
<1>3. Single(prog, i)
  <2>1. \A j : Pair(prog, j) => prog[j + 1].op = "LOP_LOADB" /\ prog[j + 2].op = "LOP_LOADB"
    BY DEF Pair
  <2> QED
    BY <1>1, <1>2, <2>1 DEF ProgramOK
<1>4. prog[i].to \in 1..Len(prog)
  BY JumpsLead DEF Compared
<1>5. prog[i].to # 0
  BY <1>4
<1> QED
  BY <1>3, <1>5

(* An instruction that is no compare queues nothing.                       *)
LEMMA ComparesSkip ==
  ASSUME NEW i \in Nat \ {0}, ~Compared(i), ComparesQueued(i)
  PROVE  ComparesQueued(i + 1)
<1>1. (i + 1) - 1 = i /\ \A j : j \in 1..i <=> j \in 1..(i - 1) \/ j = i
  OBVIOUS
<1>2. {j \in 1..i : Compared(j)} = {j \in 1..(i - 1) : Compared(j)}
  BY <1>1
<1>3. {j \in 1..i : Compared(j) /\ SetCmp(j)} = {j \in 1..(i - 1) : Compared(j) /\ SetCmp(j)}
  BY <1>1
<1> QED
  BY <1>1, <1>2, <1>3 DEF ComparesQueued

(* parse_compares splits every compare.                                    *)
LEMMA ParseCompareLays ==
  ASSUME Unlimited, LiftInv, LayoutInv, ParseCompare PROVE LayoutInv'
<1>1. LiftInv'
  BY ParseCompareKeeps
<1>2. PICK i, c, u :
        /\ i = lift.i /\ c = Fresh(made) /\ u = Fresh(made \union {c})
        /\ lift.phase = "compares" /\ i <= Len(prog)
        /\ UNCHANGED <<p_dis, dis, cm, jc, prog, rm>>
        /\ \/ ~Compared(i) /\ Advance /\ UNCHANGED <<obj, made, code, pm>>
           \/ /\ Compared(i)
              /\ SetCmp(i)
              /\ EmitCompare(i, c, u, UseOp(i), Bare("other", prog[i].addr))
              /\ pm' = SetEdits(pm, i, c, u)
              /\ Advance
           \/ /\ Compared(i)
              /\ ~SetCmp(i)
              /\ EmitCompare(i, c, u, UseOp(i), EmittedJump(i, VisitAddr(prog[i].ref_addr)))
              /\ pm' = JumpEdits(pm, i, c, u)
              /\ Advance
           \/ Compared(i) /\ ~SetCmp(i) /\ ~Visitable(prog[i].ref_addr)
  BY DEF ParseCompare, Bare, UseOp, Compared
<1>3. c \in Obj \ made /\ u \in Obj \ (made \union {c})
  <2>1. IsFiniteSet(made)
    BY DEF LiftInv
  <2>2. IsFiniteSet(made \union {c})
    BY <2>1, FS_AddElement
  <2> QED
    BY <1>2, <2>1, <2>2, FreshFacts
<1>4. /\ i \in 1..Len(prog) /\ ProgramOK(prog) /\ Len(prog) \in Nat /\ i \in Nat \ {0}
      /\ dis \in Seq(Obj) /\ obj \in [Obj -> Instr] /\ made \subseteq Obj
  BY <1>2, StateFacts DEF LiftInv
<1>5. Originals(dis, Len(prog)) /\ p_dis = dis
  BY Zenon, <1>2 DEF LiftInv, AsParsed
<1>6. prog[i].addr \in Int /\ prog[i].ref_addr \in Int
  BY <1>4, InstructionFacts
<1>7. CASE ~Compared(i) /\ Advance /\ UNCHANGED <<obj, made, code, pm>>
  <2>1. lift'.phase = "compares" /\ lift'.i = i + 1
    BY <1>2, <1>7, Advanced
  <2>2. QueueFits(pm, dis, Rank) /\ ComparesQueued(i)
    BY Zenon, <1>2 DEF LayoutInv, Parsing
  <2>3. QueueFits(pm, dis, Rank)'
    <3>1. pm' = pm /\ dis' = dis /\ Rank' = Rank
      BY <1>2, <1>7 DEF Rank
    <3> QED
      BY <2>2, <3>1
  <2>4. ComparesQueued(lift.i)'
    <3>1. ComparesQueued(i + 1)
      BY <1>4, <1>7, <2>2, ComparesSkip
    <3>2. ComparesQueued(i + 1)'
      BY <1>2, <1>7, <3>1, ComparesStay
    <3> QED
      BY <2>1, <3>2
  <2>5. lift'.i <= Len(prog') + 1
    <3>1. lift'.i = i + 1 /\ prog' = prog
      BY <1>2, <2>1
    <3> QED
      BY <1>4, <3>1
  <2>6. Laid'
    BY <2>1, <2>3, <2>4, <2>5, PhasesLaid
  <2>7. Wired'
    <3>1. UNCHANGED <<ilVars, prog, code>> /\ lift.phase \notin {"junk", "done"}
      BY Zenon, <1>2, <1>7 DEF ilVars
    <3> QED
      BY <3>1, WiredOn
  <2> QED
    BY <2>6, <2>7 DEF LayoutInv, Laid
<1>8. CASE /\ Compared(i)
           /\ SetCmp(i)
           /\ EmitCompare(i, c, u, UseOp(i), Bare("other", prog[i].addr))
           /\ pm' = SetEdits(pm, i, c, u)
           /\ Advance
  <2> DEFINE r == Bare("other", prog[i].addr)
  <2>1. r \in Instr /\ r.kind = "other" /\ r.ref = NULL
    <3>1. "other" \in Kinds
      BY DEF Kinds
    <3> QED
      BY <1>6, <3>1, BareFacts
  <2>2. KindOf(UseOp(i)) = "other" /\ i # 0
    BY <1>4, <1>8, ComparedFacts, Roles
  <2>3. FitsIn(r, [op |-> UseOp(i), at |-> i])
    BY <2>1, <2>2 DEF FitsIn
  <2>4. pm' = IF SetCmp(i) THEN SetEdits(pm, i, c, u) ELSE JumpEdits(pm, i, c, u)
    BY <1>8
  <2> QED
    BY <1>1, <1>2, <1>3, <1>4, <1>8, <2>1, <2>3, <2>4, CompareLays
<1>9. CASE /\ Compared(i)
           /\ ~SetCmp(i)
           /\ EmitCompare(i, c, u, UseOp(i), EmittedJump(i, VisitAddr(prog[i].ref_addr)))
           /\ pm' = JumpEdits(pm, i, c, u)
           /\ Advance
  <2> DEFINE v == VisitAddr(prog[i].ref_addr)
             r == EmittedJump(i, v)
  <2>1. /\ prog[i].to \in 1..Len(prog) /\ prog[prog[i].to].op # "LOP_LOADB"
        /\ v \in made /\ v \in ToSet(dis)
        /\ code[v] = [op |-> Translated(prog[prog[i].to]), at |-> prog[i].to]
    BY <1>4, <1>5, <1>9, JumpingCompare, TargetFound
  <2> HIDE DEF v
  <2>2. r \in Instr /\ r.kind = "jump" /\ r.ref = v /\ r.ref # NULL
    <3>1. v \in Obj /\ v # NULL /\ v \in Ptr
      BY <1>4, <2>1, NullAssumption DEF Ptr
    <3>2. obj[v].addr \in Int
      BY <1>4, <3>1 DEF Instr
    <3>3. prog[i].addr + obj[v].addr \in Int /\ "jump" \in Kinds
      BY <1>6, <3>2 DEF Kinds
    <3> QED
      BY <1>6, <3>1, <3>2, <3>3 DEF EmittedJump, Instr
  <2>3. KindOf(UseOp(i)) = "jump" /\ i # 0 /\ prog[i].to # 0
    <3>1. UseOp(i) \in Branches
      BY <1>4, <1>9, ComparedFacts
    <3> QED
      BY <1>4, <2>1, <3>1, Roles
  <2>4. FitsIn(r, [op |-> UseOp(i), at |-> i])
    BY <1>5, <2>1, <2>2, <2>3 DEF FitsIn
  <2>5. pm' = IF SetCmp(i) THEN SetEdits(pm, i, c, u) ELSE JumpEdits(pm, i, c, u)
    BY <1>9
  <2> QED
    BY <1>1, <1>2, <1>3, <1>4, <1>9, <2>2, <2>4, <2>5, CompareLays DEF v
<1>10. ~(Compared(i) /\ ~SetCmp(i) /\ ~Visitable(prog[i].ref_addr))
  BY <1>4, <1>5, JumpingCompare, TargetFound
<1> QED
  BY <1>2, <1>7, <1>8, <1>9, <1>10

-----------------------------------------------------------------------------
(***************************************************************************)
(* parse_jumps.                                                            *)
(***************************************************************************)

(* An instruction with a jump operand is a unit of its own.                *)
LEMMA JumpingUnit ==
  ASSUME ProgramOK(prog), NEW i \in 1..Len(prog), Translated(prog[i]) \in TakesJump
  PROVE  Single(prog, i) /\ prog[i].to # 0
<1>1. prog[i].op \notin {"LOP_LOADB"} \union Tests \union Binary \union WithConstant
  BY DEF Translated, TakesJump, Tests, Binary, WithConstant
<1>2. ~Pair(prog, i)
  BY <1>1, OpcodesAssumption DEF Pair
<1>3. \A j : Pair(prog, j) => prog[j + 1].op = "LOP_LOADB" /\ prog[j + 2].op = "LOP_LOADB"
  BY DEF Pair
<1>4. Single(prog, i)
  BY <1>1, <1>2, <1>3 DEF ProgramOK
<1>5. prog[i].to \in 1..Len(prog)
  BY OperandsLead
<1>6. prog[i].to # 0
  BY <1>5
<1> QED
  BY <1>4, <1>6

(* parse_jumps stores the reference of every jump that parse_instructions  *)
(* made.                                                                   *)
LEMMA ParseJumpLays ==
  ASSUME LiftInv, LayoutInv, ParseJump PROVE LayoutInv'
<1> DEFINE i == lift.i
           d == dis[i]
           t == VisitAddr(prog[i].ref_addr)
<1>1. /\ lift.phase = "jumps" /\ i <= Len(dis)
      /\ UNCHANGED <<made, p_dis, dis, jc, prog, code, pm, rm>>
      /\ \/ ~IsJump(d) /\ Advance /\ UNCHANGED <<obj, cm>>
         \/ /\ IsJump(d) /\ Visitable(obj[d].ref_addr)
            /\ SetRef(d, VisitAddr(obj[d].ref_addr)) /\ Advance
         \/ IsJump(d) /\ ~Visitable(obj[d].ref_addr)
  BY DEF ParseJump
<1>2. Originals(dis, Len(prog)) /\ p_dis = dis
  BY Zenon, <1>1 DEF LiftInv, AsParsed
<1>3. QueueFits(pm, dis, Rank) /\ ComparesQueued(Len(prog) + 1)
  BY Zenon, <1>1 DEF LayoutInv, Parsing
<1>4. Wired /\ lift.phase \notin {"junk", "done"}
  BY Zenon, <1>1 DEF LayoutInv
<1>5. /\ ProgramOK(prog) /\ dis \in Seq(Obj) /\ made \subseteq Obj /\ obj \in [Obj -> Instr]
      /\ i \in 1..Len(dis) /\ Len(prog) \in Nat
  BY <1>1, StateFacts DEF LiftInv
<1>6. i \in 1..Len(prog) /\ Original(d, i)
  BY <1>2, <1>5 DEF Originals
<1>7. IsJump(d) => /\ Translated(prog[i]) \in TakesJump
                   /\ obj[d].ref_addr = prog[i].ref_addr
  <2>1. ASSUME IsJump(d) PROVE Translated(prog[i]) \in TakesJump
    <3>1. code[d].op = Translated(prog[i]) /\ d \in made
      BY <1>6 DEF Original
    <3>2. KindOf(Translated(prog[i])) = "jump"
      BY <1>4, <2>1, <3>1 DEF Wired, IsJump
    <3> QED
      BY <3>2, TranslatedFacts, Roles
  <2> QED
    BY <1>6, <2>1 DEF Original
<1>8. IsJump(d) => /\ prog[i].to # 0 /\ prog[prog[i].to].op # "LOP_LOADB"
                   /\ Visitable(prog[i].ref_addr)
                   /\ t \in made /\ t \in ToSet(dis)
                   /\ code[t] = [op |-> Translated(prog[prog[i].to]), at |-> prog[i].to]
  BY <1>2, <1>5, <1>6, <1>7, JumpingUnit, TargetFound
<1> HIDE DEF t
<1>9. /\ Advance
      /\ \/ obj' = obj
         \/ IsJump(d) /\ obj' = [obj EXCEPT ![d].ref = t]
  BY <1>1, <1>7, <1>8 DEF SetRef, t
<1>10. lift'.phase = "jumps"
  BY <1>1, <1>9, Advanced
<1>11. Laid'
  <2>1. QueueFits(pm, dis, Rank)'
    <3>1. pm' = pm /\ dis' = dis /\ Rank' = Rank
      BY <1>1 DEF Rank
    <3> QED
      BY <1>3, <3>1
  <2>2. ComparesQueued(Len(prog) + 1)'
    <3>1. UNCHANGED <<code, prog, pm>>
      BY <1>1
    <3>2. ComparesQueued(Len(prog) + 1)
      BY <1>3
    <3> QED
      BY <3>1, <3>2, ComparesStay
  <2> QED
    BY <1>10, <2>1, <2>2, PhasesLaid
<1>12. Wired'
  <2>1. CASE obj' = obj
    <3>1. \A x \in made : obj'[x].ref = obj[x].ref /\ obj'[x].kind = obj[x].kind
      BY <2>1
    <3>2. ToSet(p_dis) \subseteq ToSet(p_dis') \union {NULL}
      BY <1>1
    <3> QED
      BY <1>1, <1>4, <3>1, <3>2, WiredStays
  <2>2. CASE IsJump(d) /\ obj' = [obj EXCEPT ![d].ref = t]
    <3>1. \A x \in made : /\ obj'[x].kind = obj[x].kind
                          /\ x # d => obj'[x].ref = obj[x].ref
      <4>1. \A r \in Instr : [r EXCEPT !.ref = t].kind = r.kind
        BY DEF Instr
      <4>2. \A x \in made : x \in Obj /\ obj[x] \in Instr
        BY <1>5
      <4>3. /\ obj'[d] = [obj[d] EXCEPT !.ref = t]
            /\ \A x \in made : x # d => obj'[x] = obj[x]
        BY <1>5, <1>6, <2>2, <4>2 DEF Original
      <4> QED
        BY <4>1, <4>2, <4>3
    <3>2. obj'[d].ref = t
      <4>1. d \in Obj /\ obj[d] \in Instr
        BY <1>5, <1>6 DEF Original
      <4>2. obj'[d] = [obj[d] EXCEPT !.ref = t]
        BY <1>5, <2>2, <4>1
      <4> QED
        BY <4>1, <4>2 DEF Instr
    <3>3. code[d].at = i
      BY <1>6 DEF Original
    <3>4. ASSUME NEW x \in made
          PROVE  /\ code'[x].at # 0
                 /\ obj'[x].kind = KindOf(code'[x].op)
                 /\ obj'[x].ref # NULL =>
                      LET to == prog'[code'[x].at].to IN
                        /\ IsJump(x)'
                        /\ to # 0
                        /\ prog'[to].op # "LOP_LOADB"
                        /\ code'[obj'[x].ref] = [op |-> Translated(prog'[to]), at |-> to]
      <4>1. CASE x = d
        BY <1>1, <1>4, <1>8, <2>2, <3>1, <3>2, <3>3, <4>1 DEF Wired, IsJump
      <4>2. CASE x # d
        BY <1>1, <1>4, <3>1, <4>2 DEF Wired, IsJump
      <4> QED
        BY <4>1, <4>2
    <3>5. \A x \in made : obj'[x].ref \in ToSet(p_dis) \union {NULL}
      BY <1>2, <1>4, <1>8, <2>2, <3>1, <3>2 DEF Wired
    <3> QED
      BY <1>1, <3>4, <3>5 DEF Wired
  <2> QED
    BY <1>9, <2>1, <2>2
<1> QED
  BY <1>11, <1>12 DEF LayoutInv, Laid

-----------------------------------------------------------------------------
(***************************************************************************)
(* resolve_instructions.                                                   *)
(***************************************************************************)

(* A vector of instructions that is laid out, instruction by instruction.  *)
LEMMA LaidFacts ==
  ASSUME NEW s \in Seq(Obj), NEW w, LaidOut(s, w)
  PROVE  Holds(ToSet(s), code, Len(prog), w) /\ Sorted(s, Rank)
<1>1. ToSet(s) \ {NULL} = ToSet(s)
  <2>1. ToSet(s) \subseteq Obj
    BY ToSetFacts
  <2> QED
    BY <2>1, NullAssumption
<1>2. {code[d] : d \in ToSet(s)} = UNION {{[op |-> op, at |-> i] : op \in w[i]} : i \in 1..Len(prog)}
  BY <1>1 DEF LaidOut
<1> QED
  BY <1>2, HoldsThem DEF LaidOut

(* The last instruction of a function is lifted to the last of the IL.     *)
LEMMA ReturnFacts ==
  ASSUME ProgramOK(prog), NEW n, n = Len(prog)
  PROVE  /\ n \in Nat /\ n \in 1..n
         /\ prog[n].op = "LOP_RETURN"
         /\ Translated(prog[n]) = "OP_RETURN"
         /\ ~Absorbed(n) /\ ~Compared(n)
<1>1. n \in Nat \ {0}
  BY InstructionFacts
<1>2. n \in 1..n
  BY <1>1
<1>3. prog[n].op = "LOP_RETURN"
  BY <1>2 DEF ProgramOK
<1>4. Translated(prog[n]) = "OP_RETURN"
  BY <1>3 DEF Translated
<1>5. ~Absorbed(n)
  BY <1>2, <1>3, AbsorbedFacts
<1>6. ~Compared(n)
  BY <1>3 DEF Compared, Tests, Binary
<1> QED
  BY <1>1, <1>2, <1>3, <1>4, <1>5, <1>6

(* What follows a call of self ranks behind its OP_POPARG.                 *)
LEMMA SelfCallNext ==
  ASSUME LiftInv, LaidOut(dis, AfterParse), NEW i \in 1..Len(dis), PopsArg(dis[i]),
         NEW x, x = code[dis[i]].at
  PROVE  /\ x \in 1..Len(prog) /\ i < Len(dis)
         /\ Rank[dis[i]] = 4 * x
         /\ 4 * x + 3 < Rank[dis[i + 1]]
<1> DEFINE n == Len(prog)
<1>1. /\ n \in Nat /\ ProgramOK(prog) /\ dis \in Seq(Obj) /\ code \in Codes(n)
      /\ Len(dis) \in Nat /\ i \in Nat
  BY StateFacts DEF LiftInv
<1>2. Holds(ToSet(dis), code, n, AfterParse) /\ Sorted(dis, Rank)
  BY <1>1, LaidFacts
<1>3. \A k \in 1..Len(dis) : dis[k] \in ToSet(dis) /\ dis[k] \in Obj
  BY <1>1, ToSetFacts
<1>4. code[dis[i]].op = "OP_SELF" /\ SelfCall(x)
  BY PopsArgIs
<1>5. x \in 1..n
  BY <1>2, <1>3, HoldsFacts
<1>6. Translated(prog[x]) = "OP_SELF" /\ ~Compared(x) /\ x < n
  BY <1>1, <1>4, <1>5, SelfCallFacts
<1>7. Role("OP_SELF") = 0
  BY Roles DEF TranslatedOps
<1>8. Rank \in Ranks /\ Rank[dis[i]] = 4 * x
  <2>1. /\ Rank \in Ranks
        /\ Rank[dis[i]] = 4 * code[dis[i]].at + Role(code[dis[i]].op)
    BY <1>1, <1>3, RankFacts
  <2>2. Rank[dis[i]] = 4 * x + 0 /\ x \in Int
    BY <1>4, <1>5, <1>7, <2>1
  <2> QED
    BY <2>1, <2>2
<1>9. i < Len(dis)
  <2>1. "OP_RETURN" \in AfterParse[n] /\ n \in 1..n
    BY <1>1, ReturnFacts, ExpansionFacts DEF AfterParse
  <2>2. PICK e \in ToSet(dis) : code[e] = [op |-> "OP_RETURN", at |-> n]
    BY <1>2, <2>1 DEF Holds
  <2>3. PICK k \in 1..Len(dis) : dis[k] = e
    BY <1>1, ToSetFacts
  <2>4. Role("OP_RETURN") = 0 /\ e \in Obj
    BY <1>3, <2>3, Roles DEF TranslatedOps
  <2>5. code[e].at = n /\ code[e].op = "OP_RETURN"
    BY <2>2
  <2>6. Rank[e] = 4 * n
    <3>1. Rank[e] = 4 * code[e].at + Role(code[e].op)
      BY <1>1, <2>4, RankFacts
    <3>2. Rank[e] = 4 * n + 0
      BY <2>4, <2>5, <3>1
    <3> QED
      BY <1>1, <3>2
  <2>7. Rank[dis[i]] < Rank[dis[k]]
    BY <1>1, <1>5, <1>6, <1>8, <2>3, <2>6
  <2>8. i < k
    BY <1>1, <1>2, <1>8, <2>7, SortedUnique
  <2> QED
    BY <1>1, <2>8
<1>10. i + 1 \in 1..Len(dis) /\ i < i + 1
  BY <1>1, <1>9
<1>11. Rank[dis[i]] < Rank[dis[i + 1]]
  BY <1>1, <1>2, <1>8, <1>10, SortedUnique
<1> DEFINE f == dis[i + 1]
           y == code[f].at
<1>12. y \in 1..n /\ code[f].op \in AfterParse[y] /\ f \in Obj
  BY <1>2, <1>3, <1>10, HoldsFacts
<1>13. Rank[f] = 4 * y + Role(code[f].op) /\ Role(code[f].op) \in 0..3
  BY <1>1, <1>12, RankFacts
<1> HIDE DEF f
<1>14. y # x
  <2>1. ASSUME y = x PROVE FALSE
    <3>1. code[f].op = "OP_SELF"
      BY <1>6, <1>12, <2>1, ExpansionFacts DEF AfterParse
    <3>2. Rank[f] = 4 * x
      BY <1>1, <1>5, <1>7, <1>13, <2>1, <3>1
    <3> QED
      BY <1>5, <1>8, <1>11, <3>2 DEF f
  <2> QED
    BY <2>1
<1>15. \A b, r \in Int : 4 * x < 4 * b + r /\ r <= 3 /\ b # x /\ r >= 0 => 4 * x + 3 < 4 * b + r
  BY <1>5
<1>16. 4 * x < Rank[f]
  BY <1>8, <1>11 DEF f
<1>17. y \in Int /\ Role(code[f].op) \in Int /\ Role(code[f].op) <= 3 /\ Role(code[f].op) >= 0
  BY <1>12, <1>13
<1>18. 4 * x + 3 < Rank[f]
  BY <1>13, <1>14, <1>15, <1>16, <1>17
<1> QED
  BY <1>5, <1>8, <1>9, <1>18 DEF f

(* What was queued for the calls in front of one comes before it.          *)
LEMMA PopsBelow ==
  ASSUME LiftInv, LaidOut(dis, AfterParse), NEW i \in 1..Len(dis), PopsArg(dis[i]),
         PopsQueued(i), NEW k \in 1..Len(rm.queue)
  PROVE  /\ rm.queue[k].at <= i - 1
         /\ rm.queue[k].act = "add" => /\ rm.queue[k].d \in made
                                       /\ Rank[rm.queue[k].d] < 4 * code[dis[i]].at + 3
<1> DEFINE e == rm.queue[k]
<1>1. /\ dis \in Seq(Obj) /\ code \in Codes(Len(prog)) /\ Len(prog) \in Nat
      /\ Len(dis) \in Nat /\ i \in Nat /\ made \subseteq Obj
  BY StateFacts DEF LiftInv
<1>2. e.at \in Int /\ e.at <= i - 1
  <2>1. e.at \in Nat /\ e.at + 1 < i
    BY StateFacts, QueueTyped DEF PopsQueued
  <2> QED
    BY <1>1, <2>1
<1>3. ASSUME e.act = "add" PROVE e.d \in made /\ Rank[e.d] < 4 * code[dis[i]].at + 3
  <2>1. e.d \in made
    BY <1>3 DEF LiftInv, Queues, QueueOK
  <2>2. code[e.d] \in Insertions(rm.queue)
    BY <1>3 DEF Insertions
  <2>3. PICK j \in 1..(i - 1) : /\ PopsArg(dis[j])
                                /\ code[e.d] = [op |-> "OP_POPARG", at |-> code[dis[j]].at]
    BY <2>2 DEF PopsQueued
  <2>4. j \in 1..Len(dis) /\ j < i
    BY <1>1
  <2>5. /\ code[dis[j]].at \in 1..Len(prog) /\ Rank[dis[j]] = 4 * code[dis[j]].at
        /\ code[dis[i]].at \in 1..Len(prog) /\ Rank[dis[i]] = 4 * code[dis[i]].at
    BY <2>3, <2>4, SelfCallNext
  <2>6. Rank[dis[j]] < Rank[dis[i]]
    <3>1. Rank \in Ranks /\ Sorted(dis, Rank)
      BY <1>1, RankFacts, LaidFacts
    <3> QED
      BY <1>1, <2>4, <3>1, SortedUnique
  <2>7. code[e.d].at = code[dis[j]].at /\ code[e.d].op = "OP_POPARG"
    BY <2>3
  <2>8. Rank[e.d] = 4 * code[dis[j]].at + 3
    <3>1. Rank[e.d] = 4 * code[e.d].at + Role(code[e.d].op)
      BY <1>1, <2>1, RankFacts
    <3>2. Role("OP_POPARG") = 3
      BY Roles
    <3> QED
      BY <2>7, <3>1, <3>2
  <2>9. \A p, q \in Int : 4 * p < 4 * q => 4 * p + 3 < 4 * q + 3
    OBVIOUS
  <2>10. code[dis[j]].at \in Int /\ code[dis[i]].at \in Int
    BY <2>5
  <2> QED
    BY <2>1, <2>5, <2>6, <2>8, <2>9, <2>10
<1> QED
  BY <1>2, <1>3

(* A call that needs no OP_POPARG queues nothing.                          *)
LEMMA PopsSkip ==
  ASSUME NEW i \in Nat \ {0}, ~PopsArg(dis[i]), PopsQueued(i), rm \in Managers
  PROVE  PopsQueued(i + 1)
<1>1. (i + 1) - 1 = i /\ \A j : j \in 1..i <=> j \in 1..(i - 1) \/ j = i
  OBVIOUS
<1>2. {k \in 1..i : PopsArg(dis[k])} = {k \in 1..(i - 1) : PopsArg(dis[k])}
  BY <1>1
<1>3. \A k \in 1..Len(rm.queue) : rm.queue[k].at + 1 < i + 1
  <2>1. \A k \in 1..Len(rm.queue) : rm.queue[k].at \in Nat /\ rm.queue[k].at + 1 < i
    BY QueueTyped DEF PopsQueued
  <2> QED
    BY <2>1
<1> QED
  BY <1>1, <1>2, <1>3 DEF PopsQueued

(* The OP_POPARG of a call that needs one.                                 *)
LEMMA PopsOne ==
  ASSUME LiftInv, LiftInv', LayoutInv, lift.phase = "selfs", NEW i, i = lift.i,
         i \in 1..Len(dis), PopsArg(dis[i]), NEW a \in Obj \ made, NEW r \in Instr,
         r.kind = "other", r.ref = NULL, Make(a, r),
         code' = [code EXCEPT ![a] = [op |-> "OP_POPARG", at |-> code[dis[i]].at]],
         rm' = QueueAdd(rm, i - 1, a), Advance, UNCHANGED <<p_dis, dis, cm, jc, prog, pm>>
  PROVE  LayoutInv'
<1> DEFINE n == Len(prog)
           x == code[dis[i]].at
           e == [act |-> "add", pos |-> (i - 1) + rm.sync, at |-> i - 1, d |-> a]
<1>1. /\ n \in Nat /\ i \in Nat \ {0} /\ i - 1 \in Nat /\ dis \in Seq(Obj)
      /\ obj \in [Obj -> Instr] /\ code \in Codes(n) /\ rm \in Managers /\ made \subseteq Obj
      /\ ToSet(dis) \subseteq made /\ Len(dis) \in Nat
  BY StateFacts
<1>2. LaidOut(p_dis, AfterParse) /\ dis = p_dis
  BY Zenon DEF LayoutInv, Resolving
<1>3. QueueFits(rm, dis, Rank) /\ PopsQueued(i)
  BY Zenon DEF LayoutInv, Resolving
<1>4. LaidOut(dis, AfterParse)
  BY <1>2
<1>5. /\ x \in 1..n /\ i < Len(dis)
      /\ Rank[dis[i]] = 4 * x
      /\ 4 * x + 3 < Rank[dis[i + 1]]
  BY <1>4, SelfCallNext
<1>6. made' = made \union {a} /\ obj' = [obj EXCEPT ![a] = r]
  BY DEF Make
<1> HIDE DEF x, n
<1>7. /\ \A y \in made : obj'[y] = obj[y] /\ code'[y] = code[y]
      /\ obj'[a] = r /\ code'[a] = [op |-> "OP_POPARG", at |-> x]
  BY <1>1, <1>6 DEF Codes, x
<1>8. code' \in Codes(n)
  BY DEF LiftInv, LiftTypeOK, Codes, n
<1>9. /\ Rank' \in Ranks
      /\ \A d \in Obj : Rank'[d] = 4 * code'[d].at + Role(code'[d].op)
      /\ \A d \in made : Rank'[d] = Rank[d]
      /\ QueueFits(rm, dis, Rank')
      /\ Given(rm.queue, code') = Given(rm.queue, code)
      /\ Sorted(p_dis, Rank) => Sorted(p_dis, Rank')
  BY <1>3, <1>7, <1>8, AllocationKeeps DEF n
<1>10. Rank'[a] = 4 * x + 3
  <2>1. code'[a].at = x /\ code'[a].op = "OP_POPARG"
    BY <1>7
  <2>2. Role("OP_POPARG") = 3
    BY Roles
  <2>3. Rank'[a] = 4 * code'[a].at + Role(code'[a].op)
    BY <1>9
  <2> QED
    BY <2>1, <2>2, <2>3
<1>11. \A k \in 1..Len(dis) : dis[k] \in made /\ dis[k] \in ToSet(dis)
  BY <1>1, ToSetFacts
<1>12. QueueFits(rm', dis, Rank')
  <2>1. (i - 1) + 1 = i /\ (i - 1) + 2 = i + 1 /\ i + 1 \in 1..Len(dis) /\ i \in 1..Len(dis)
    <3>1. i \in Int /\ Len(dis) \in Nat /\ i >= 1 /\ i < Len(dis)
      BY <1>1, <1>5
    <3>2. (i - 1) + 1 = i /\ (i - 1) + 2 = i + 1
      BY <3>1
    <3>3. i + 1 \in 1..Len(dis)
      BY <3>1
    <3> QED
      BY <3>2, <3>3
  <2>2. (i - 1) + 1 < Len(dis)
    BY <1>5, <2>1
  <2>3. a \in Obj \ ToSet(dis)
    BY <1>1
  <2>4. Rank'[dis[i]] < Rank'[a]
    <3>1. Rank'[dis[i]] = 4 * x
      BY <1>5, <1>9, <1>11
    <3> QED
      BY <1>5, <1>10, <3>1
  <2>5. Rank'[a] < Rank'[dis[i + 1]]
    <3>1. Rank'[dis[i + 1]] = Rank[dis[i + 1]]
      BY <1>9, <1>11, <2>1
    <3> QED
      BY <1>5, <1>10, <3>1
  <2>6. Below(rm, i - 1, Rank'[a], Rank')
    <3>1. ASSUME NEW k \in 1..Len(rm.queue)
          PROVE  /\ rm.queue[k].at <= i - 1
                 /\ rm.queue[k].act = "add" => Rank'[rm.queue[k].d] < Rank'[a]
      <4>1. /\ rm.queue[k].at <= i - 1
            /\ rm.queue[k].act = "add" => /\ rm.queue[k].d \in made
                                          /\ Rank[rm.queue[k].d] < 4 * x + 3
        BY <1>3, <1>4, PopsBelow DEF x
      <4> QED
        BY <1>9, <1>10, <4>1
    <3> QED
      BY <3>1 DEF Below
  <2>7. /\ Rank'[dis[(i - 1) + 1]] < Rank'[a] /\ Rank'[a] < Rank'[dis[(i - 1) + 2]]
    BY <2>1, <2>4, <2>5
  <2>8. QueueFits(QueueAdd(rm, i - 1, a), dis, Rank')
    BY <1>1, <1>9, <2>2, <2>3, <2>6, <2>7, AddFits
  <2> QED
    BY <2>8
<1>13. Queued(rm', rm, e)
  <2>1. a \in Ptr
    BY DEF Ptr
  <2>2. Queued(QueueAdd(rm, i - 1, a), rm, e)
    BY <1>1, <2>1, QueueAddIs
  <2> QED
    BY <2>2
<1>14. Adds(rm', rm, e)
  BY <1>1, <1>13, GivenMore
<1>15. PopsQueued(i + 1)'
  <2>1. (i + 1) - 1 = i /\ \A j : j \in 1..i <=> j \in 1..(i - 1) \/ j = i
    BY <1>1
  <2>2. Insertions(rm.queue)' = Given(rm'.queue, code')
    BY DEF Insertions, Given
  <2>3. Given(rm'.queue, code') = Given(rm.queue, code) \union {code'[a]}
    BY <1>9, <1>14 DEF Adds
  <2> DEFINE P(k) == PopsArg(dis[k])
             F(k) == [op |-> "OP_POPARG", at |-> code[dis[k]].at]
  <2>4. Given(rm.queue, code) = {F(k) : k \in {k \in 1..(i - 1) : P(k)}}
    BY <1>3 DEF PopsQueued, Insertions, Given
  <2>5. code'[a] = F(i) /\ P(i)
    BY <1>7 DEF x
  <2>6. \A k \in 1..i : code'[dis'[k]].at = code[dis[k]].at /\ PopsArg(dis[k])' = P(k)
    <3>1. \A k \in 1..i : k \in 1..Len(dis)
      BY <1>1
    <3>2. \A k \in 1..i : code'[dis[k]] = code[dis[k]]
      BY <1>7, <1>11, <3>1
    <3> QED
      BY <3>2 DEF PopsArg
  <2>7. Given(rm'.queue, code')
          = {[op |-> "OP_POPARG", at |-> code'[dis'[k]].at] : k \in {k \in 1..i : PopsArg(dis[k])'}}
    <3>1. {[op |-> "OP_POPARG", at |-> code'[dis'[k]].at] : k \in {k \in 1..i : PopsArg(dis[k])'}}
            = {F(k) : k \in {k \in 1..i : P(k)}}
      BY <2>6
    <3> HIDE DEF P, F
    <3>2. {F(k) : k \in {k \in 1..i : P(k)}} = {F(k) : k \in {k \in 1..(i - 1) : P(k)}} \union {F(i)}
      BY <2>1, <2>5
    <3> QED
      BY <2>3, <2>4, <2>5, <3>1, <3>2
  <2>8. Removals(rm'.queue) = {} /\ Removals(rm.queue)' = Removals(rm'.queue)
    BY <1>3, <1>14 DEF Adds, PopsQueued, Removals
  <2>9. \A k \in 1..Len(rm'.queue) : rm'.queue[k].at + 1 < i + 1
    <3>1. /\ Len(rm.queue) \in Nat
          /\ \A k \in 1..Len(rm.queue) : rm'.queue[k] = rm.queue[k]
          /\ \A k \in 1..Len(rm'.queue) : k \in 1..Len(rm.queue) \/ k = Len(rm'.queue)
          /\ rm'.queue[Len(rm'.queue)] = e
      BY <1>1, <1>13, QueuedFacts
    <3>2. \A k \in 1..Len(rm.queue) : rm.queue[k].at \in Nat /\ rm.queue[k].at + 1 < i
      BY <1>1, <1>3, QueueTyped DEF PopsQueued
    <3>3. e.at = i - 1 /\ (i - 1) + 1 < i + 1
      BY <1>1
    <3>4. \A m \in Nat : m + 1 < i => m + 1 < i + 1
      BY <1>1
    <3> HIDE DEF e
    <3> QED
      BY <3>1, <3>2, <3>3, <3>4
  <2> QED
    BY <2>1, <2>2, <2>7, <2>8, <2>9 DEF PopsQueued
<1>16. LaidOut(p_dis, AfterParse)' /\ dis' = p_dis'
  <2>1. AfterParse' = AfterParse
    BY SameProgram
  <2>2. Sorted(p_dis, Rank)'
    BY <1>2, <1>9 DEF LaidOut
  <2>3. {code'[d] : d \in ToSet(p_dis') \ {NULL}} = {code[d] : d \in ToSet(p_dis) \ {NULL}}
    BY <1>1, <1>2, <1>7
  <2> QED
    BY <1>2, <2>1, <2>2, <2>3 DEF LaidOut
<1>17. Laid'
  <2>1. lift'.phase = "selfs" /\ lift'.i = i + 1
    BY Advanced
  <2>2. QueueFits(rm, dis, Rank)' /\ PopsQueued(lift.i)'
    BY <1>12, <1>15, <2>1
  <2>3. lift'.i <= Len(dis') + 1
    BY <1>1, <1>5, <2>1
  <2> QED
    BY <1>16, <2>1, <2>2, <2>3, PhasesLaid
<1>18. Wired'
  <2>1. FitsIn(obj'[a], code'[a])
    <3>1. KindOf("OP_POPARG") = "other" /\ x # 0
      BY <1>5, Roles
    <3> QED
      BY <1>7, <3>1 DEF FitsIn
  <2>2. \A y \in made' : y \notin made => FitsIn(obj'[y], code'[y])
    BY <1>6, <2>1
  <2>3. Wired /\ lift.phase \notin {"junk", "done"} /\ prog' = prog
    BY Zenon DEF LayoutInv
  <2>4. ToSet(p_dis) \subseteq ToSet(p_dis')
    OBVIOUS
  <2> QED
    BY <1>7, <2>2, <2>3, <2>4, WiredGrows
<1> QED
  BY <1>17, <1>18 DEF LayoutInv, Laid

(* resolve_instructions queues an OP_POPARG for just the calls that need   *)
(* one.                                                                    *)
LEMMA ResolveInstructionLays ==
  ASSUME Unlimited, LiftInv, LayoutInv, ResolveInstruction PROVE LayoutInv'
<1>1. LiftInv'
  BY ResolveInstructionKeeps
<1>2. PICK i, d, a :
        /\ i = lift.i /\ d = p_dis[i] /\ a = Fresh(made)
        /\ lift.phase = "selfs" /\ i <= Len(p_dis) /\ Advance
        /\ UNCHANGED <<p_dis, dis, cm, jc, prog, pm>>
        /\ \/ /\ PopsArg(d)
              /\ Make(a, Bare("other", obj[d].addr))
              /\ code' = [code EXCEPT ![a] = [op |-> "OP_POPARG", at |-> code[d].at]]
              /\ rm' = QueueAdd(rm, i - 1, a)
           \/ ~PopsArg(d) /\ UNCHANGED <<obj, made, code, rm>>
  BY DEF ResolveInstruction, Bare
<1>3. /\ LaidOut(p_dis, AfterParse) /\ dis = p_dis
      /\ QueueFits(rm, dis, Rank) /\ PopsQueued(i)
  BY Zenon, <1>2 DEF LayoutInv, Resolving
<1>4. /\ i \in 1..Len(dis) /\ d = dis[i] /\ Len(dis) \in Nat /\ i \in Nat \ {0}
      /\ dis \in Seq(Obj) /\ obj \in [Obj -> Instr] /\ rm \in Managers
  BY <1>2, <1>3, StateFacts
<1>5. a \in Obj \ made
  <2>1. IsFiniteSet(made)
    BY DEF LiftInv
  <2> QED
    BY <1>2, <2>1, FreshFacts
<1>6. CASE /\ PopsArg(d)
           /\ Make(a, Bare("other", obj[d].addr))
           /\ code' = [code EXCEPT ![a] = [op |-> "OP_POPARG", at |-> code[d].at]]
           /\ rm' = QueueAdd(rm, i - 1, a)
  <2> DEFINE r == Bare("other", obj[d].addr)
  <2>1. r \in Instr /\ r.kind = "other" /\ r.ref = NULL
    <3>1. obj[d] \in Instr
      BY <1>4
    <3>2. obj[d].addr \in Int /\ "other" \in Kinds
      BY <3>1 DEF Instr, Kinds
    <3> QED
      BY <3>2, BareFacts
  <2> HIDE DEF r
  <2> QED
    BY <1>1, <1>2, <1>4, <1>5, <1>6, <2>1, PopsOne DEF r
<1>7. CASE ~PopsArg(d) /\ UNCHANGED <<obj, made, code, rm>>
  <2>1. lift'.phase = "selfs" /\ lift'.i = i + 1
    BY <1>2, Advanced
  <2>2. UNCHANGED <<code, prog, dis, rm>>
    BY <1>2, <1>7
  <2>3. QueueFits(rm, dis, Rank)'
    BY <1>3, <2>2, PopsKept
  <2>4. PopsQueued(lift.i)'
    <3>1. PopsQueued(i + 1)
      BY <1>3, <1>4, <1>7, PopsSkip
    <3>2. PopsQueued(i + 1)'
      BY <2>2, <3>1, PopsKept
    <3> QED
      BY <2>1, <3>2
  <2>5. LaidOut(p_dis, AfterParse)' /\ dis' = p_dis'
    <3>1. p_dis' = p_dis /\ dis' = dis
      BY <1>2
    <3> QED
      BY <1>2, <1>3, <1>7, <3>1, LaidOutKept
  <2>6. lift'.i <= Len(dis') + 1
    BY <1>4, <2>1, <2>2
  <2>7. Laid'
    BY <2>1, <2>3, <2>4, <2>5, <2>6, PhasesLaid
  <2>8. Wired'
    <3>1. UNCHANGED <<ilVars, prog, code>> /\ lift.phase \notin {"junk", "done"}
      BY Zenon, <1>2, <1>7 DEF ilVars
    <3> QED
      BY <3>1, WiredOn
  <2> QED
    BY <2>7, <2>8 DEF LayoutInv, Laid
<1> QED
  BY <1>2, <1>6, <1>7

-----------------------------------------------------------------------------
(***************************************************************************)
(* The layout, invariantly.                                                *)
(***************************************************************************)

(* A step that changes nothing.                                            *)
LEMMA LayoutUnchanged ==
  ASSUME LiftInv, LayoutInv, UNCHANGED liftVars PROVE LayoutInv'
<1>1. /\ UNCHANGED <<obj, made, p_dis, dis, cm, jc, prog, code, pm, rm, lift>>
      /\ UNCHANGED jcVars
  BY DEF liftVars, ilVars, jcVars
<1>2. Rank' = Rank
  BY <1>1 DEF Rank
<1>3. /\ \A i : ComparesQueued(i) => ComparesQueued(i)'
      /\ \A i : PopsQueued(i) => PopsQueued(i)'
      /\ QueueFits(rm, dis, Rank) => QueueFits(rm, dis, Rank)'
  BY <1>1, ComparesStay, PopsKept
<1>4. QueueFits(pm, dis, Rank) => QueueFits(pm, dis, Rank)'
  BY <1>1, <1>2
<1>5. /\ Replays(p_dis, dis, pm.queue, lift.i, Rank) => Replays(p_dis, dis, pm.queue, lift.i, Rank)'
      /\ Replays(p_dis, dis, rm.queue, lift.i, Rank) => Replays(p_dis, dis, rm.queue, lift.i, Rank)'
  BY <1>1, <1>2
<1>6. /\ LaidOut(p_dis, AfterParse) => LaidOut(p_dis, AfterParse)'
      /\ LaidOut(p_dis, AfterResolve) => LaidOut(p_dis, AfterResolve)'
      /\ LaidOut(dis, AfterParse) => LaidOut(dis, AfterParse)'
      /\ \A s : LaidOut(s, AfterResolve) => LaidOut(s, AfterResolve)'
  BY <1>1, LaidOutKept
<1>7. OneForOne(dis) => OneForOne(dis)'
  BY <1>1 DEF OneForOne
<1>8. Parsing'
  <2>1. /\ ComparesQueued(lift.i) => ComparesQueued(lift.i)'
        /\ ComparesQueued(Len(prog) + 1) => ComparesQueued(Len(prog) + 1)'
    BY <1>1, <1>3
  <2>2. Parsing
    BY DEF LayoutInv
  <2>3. Idle' <=> Idle
    BY <1>1 DEF Idle
  <2> QED
    BY Zenon, <1>1, <1>4, <1>5, <1>6, <1>7, <2>1, <2>2, <2>3 DEF Parsing
<1>9. Resolving'
  <2>1. /\ PopsQueued(lift.i) => PopsQueued(lift.i)'
        /\ PopsQueued(Len(dis) + 1) => PopsQueued(Len(dis) + 1)'
    BY <1>1, <1>3
  <2>2. Resolving
    BY DEF LayoutInv
  <2>3. Idle' <=> Idle
    BY <1>1 DEF Idle
  <2> QED
    BY Zenon, <1>1, <1>3, <1>5, <1>6, <2>1, <2>2, <2>3 DEF Resolving
<1>10. Eliminating'
  <2>1. Eliminating
    BY DEF LayoutInv
  <2>2. JCInv => JCInv'
    BY <1>1, JCInvNext
  <2>3. LaidOut(jc.copy, AfterResolve) => LaidOut(jc.copy, AfterResolve)'
    BY <1>1, <1>6
  <2> QED
    BY Zenon, <1>1, <1>6, <2>1, <2>2, <2>3 DEF Eliminating
<1>11. Wired'
  <2>1. Wired
    BY DEF LayoutInv
  <2> QED
    BY Zenon, <1>1, <2>1 DEF Wired, IsJump
<1> QED
  BY <1>8, <1>9, <1>10, <1>11 DEF LayoutInv

(* Every step of lifting keeps the layout.                                 *)
LEMMA LayoutInvNext ==
  ASSUME Unlimited PROVE LiftInv /\ LayoutInv /\ [LiftNext]_liftVars => LayoutInv'
<1> SUFFICES ASSUME LiftInv, LayoutInv, [LiftNext]_liftVars PROVE LayoutInv'
  OBVIOUS
<1>1. CASE UNCHANGED liftVars
  BY <1>1, LayoutUnchanged
<1>2. CASE \/ ParseInstruction \/ InstructionsParsed \/ FirstCommitted
  BY <1>2, ParseInstructionLays, InstructionsParsedLays, FirstCommittedLays
<1>3. CASE \/ ParseCompare \/ ComparesParsed \/ ParseJump \/ JumpsParsed
  BY <1>3, ParseCompareLays, ComparesParsedLays, ParseJumpLays, JumpsParsedLays
<1>4. CASE \/ ParseEdit \/ ParseEditsMade \/ ParseCommitted
  BY <1>4, ParseEditLays, ParseEditsMadeLays, ParseCommittedLays
<1>5. CASE \/ ResolveJumpOperand \/ JumpOperandsResolved
  BY <1>5, ResolveJumpOperandLays, JumpOperandsResolvedLays
<1>6. CASE \/ ResolveInstruction \/ InstructionsResolved
  BY <1>6, ResolveInstructionLays, InstructionsResolvedLays
<1>7. CASE \/ ResolveEdit \/ ResolveEditsMade \/ ResolveCommitted
  BY <1>7, ResolveEditLays, ResolveEditsMadeLays, ResolveCommittedLays
<1>8. CASE \/ JunkPass \/ LiftReturn \/ LiftCommitStep
  BY <1>8, JunkPassLays, LiftReturnLays, LiftCommitStepLays
<1> QED
  BY <1>1, <1>2, <1>3, <1>4, <1>5, <1>6, <1>7, <1>8 DEF LiftNext

(* Where the instructions stand while a function is lifted, at every step  *)
(* of it: sorted by rank, of every bytecode instruction just what it       *)
(* becomes, every queued edit at the position that fits it, every jump to  *)
(* what was made of the instruction the bytecode jumps to.                 *)
THEOREM LayoutInvariance == ASSUME Unlimited PROVE LiftSpec => [](LiftInv /\ LayoutInv)
<1>1. LiftInit => LiftInv /\ LayoutInv
  BY LiftInvInit, LayoutInit
<1>2. LiftInv /\ LayoutInv /\ [LiftNext]_liftVars => LiftInv' /\ LayoutInv'
  BY LiftInvNext, LayoutInvNext
<1> QED
  BY <1>1, <1>2, PTL DEF LiftSpec

(* An edit of a queue that fits lands.                                     *)
LEMMA FitsLands ==
  ASSUME LiftInv, NEW m \in Managers, QueueFits(m, dis, Rank), Sorted(dis, Rank),
         Replays(p_dis, dis, m.queue, lift.i, Rank)
  PROVE  Lands(m)
<1>1. dis \in Seq(Obj) /\ m.queue \in Seq(Edit) /\ lift.i \in Nat \ {0} /\ Len(p_dis) \in Nat
  BY StateFacts DEF Managers
<1>2. Edited(dis, m.queue, Rank)
  BY <1>1 DEF Edited, QueueFits
<1>3. ASSUME lift.i <= Len(m.queue) PROVE lift.i \in 1..Len(m.queue)
  BY <1>1, <1>3
<1>4. ASSUME lift.i <= Len(m.queue)
      PROVE  LET e == m.queue[lift.i] IN
               /\ e.pos < Len(p_dis)
               /\ p_dis[e.pos + 1] = dis[e.at + IF e.act = "add" THEN 2 ELSE 1]
  <2>1. /\ m.queue[lift.i].pos \in 0..(Len(p_dis) - 1)
        /\ p_dis[m.queue[lift.i].pos + 1]
             = dis[m.queue[lift.i].at + IF m.queue[lift.i].act = "add" THEN 2 ELSE 1]
    BY <1>2, <1>3, <1>4, ReplayLands
  <2> QED
    BY <1>1, <2>1
<1> QED
  BY <1>4 DEF Lands

(* Every edit lands: a removal takes the instruction its callback looked   *)
(* at, an insertion comes between the two it belongs between, and none is  *)
(* made behind the end of the vector.                                      *)
THEOREM EditsAlwaysLand == ASSUME Unlimited PROVE LiftSpec => []EditsLand
<1>1. ASSUME LiftInv, LayoutInv PROVE EditsLand
  <2>1. ASSUME lift.phase = "parse edits" PROVE Lands(pm)
    <3>1. /\ QueueFits(pm, dis, Rank) /\ OneForOne(dis)
          /\ Replays(p_dis, dis, pm.queue, lift.i, Rank)
      BY Zenon, <1>1, <2>1 DEF LayoutInv, Parsing
    <3>2. Sorted(dis, Rank) /\ pm \in Managers
      BY <1>1, <3>1, OneForOneSorted, StateFacts
    <3> QED
      BY <1>1, <3>1, <3>2, FitsLands
  <2>2. ASSUME lift.phase = "resolve edits" PROVE Lands(rm)
    <3>1. /\ QueueFits(rm, dis, Rank) /\ LaidOut(dis, AfterParse)
          /\ Replays(p_dis, dis, rm.queue, lift.i, Rank)
      BY Zenon, <1>1, <2>2 DEF LayoutInv, Resolving
    <3>2. Sorted(dis, Rank) /\ rm \in Managers
      BY <1>1, <3>1, StateFacts DEF LaidOut
    <3> QED
      BY <1>1, <3>1, <3>2, FitsLands
  <2> QED
    BY Zenon, <2>1, <2>2 DEF EditsLand
<1>2. LiftInv /\ LayoutInv => EditsLand
  BY <1>1
<1> QED
  BY <1>2, LayoutInvariance, PTL

-----------------------------------------------------------------------------
(***************************************************************************)
(* What lifting returns.                                                   *)
(***************************************************************************)

(* A jump whose opcode settles it has a reference when junk_code runs.     *)
LEMMA JumpsWired ==
  ASSUME LiftInv, lift.phase = "done", NEW d \in made, IsJump(d)
  PROVE  obj[d].ref # NULL
<1>1. Unset = {}
  BY DEF LiftInv, Targets
<1> QED
  BY <1>1 DEF Unset

(* The committed vector is sorted, and holds what AfterResolve asks for,   *)
(* less some OP_NOP.                                                       *)
LEMMA FinalFacts ==
  ASSUME LiftInv, LayoutInv, Done
  PROVE  /\ dis \in Seq(Obj) /\ Len(dis) \in Nat
         /\ \A k, l \in 1..Len(dis) : k < l => Rank[dis[k]] < Rank[dis[l]]
         /\ \A k \in 1..Len(dis) : /\ dis[k] \in ToSet(dis) /\ dis[k] \in made
                                   /\ code[dis[k]].at \in 1..Len(prog)
                                   /\ code[dis[k]].op \in AfterResolve[code[dis[k]].at]
                                   /\ obj[dis[k]].kind = KindOf(code[dis[k]].op)
         /\ \A i \in 1..Len(prog) : \A op \in AfterResolve[i] :
              op # "OP_NOP" => \E k \in 1..Len(dis) : code[dis[k]] = [op |-> op, at |-> i]
<1> DEFINE n == Len(prog)
<1>1. lift.phase = "done" /\ jc.phase = "done" /\ jc.phase # "off"
  BY DEF Done, LiftInv, JunkLast
<1>2. JCInv /\ LaidOut(jc.copy, AfterResolve)
  BY <1>1 DEF LayoutInv, Eliminating
<1>3. /\ dis \in Seq(Obj) /\ Len(dis) \in Nat /\ ToSet(dis) \subseteq made
      /\ jc.copy \in Seq(Obj) /\ n \in Nat /\ code \in Codes(n) /\ made \subseteq Obj
  BY StateFacts DEF LiftInv, LiftTypeOK, JCTypeOK
<1>4. /\ ToSet(dis) = {d \in ToSet(jc.copy) : Needed(d)}
      /\ SameListing(dis, jc.copy, ToSet(dis))
  BY <1>1, <1>2, SiftedIsExact DEF JunkExact
<1>5. Holds(ToSet(jc.copy), code, n, AfterResolve) /\ Sorted(jc.copy, Rank)
  BY <1>2, <1>3, LaidFacts
<1>6. \A k \in 1..Len(dis) : dis[k] \in ToSet(dis) /\ dis[k] \in made /\ dis[k] \in Obj
  BY <1>3, ToSetFacts
<1>7. ASSUME NEW k \in 1..Len(dis), NEW l \in 1..Len(dis), k < l
      PROVE  Rank[dis[k]] < Rank[dis[l]]
  <2>1. Before(dis, dis[k], dis[l])
    <3>1. k \in 1..Len(dis) /\ l \in 1..Len(dis) /\ k < l
      BY <1>7
    <3> QED
      BY <3>1 DEF Before
  <2>2. Before(jc.copy, dis[k], dis[l])
    BY <1>4, <1>6, <2>1 DEF SameListing
  <2>3. PICK p, q \in 1..Len(jc.copy) : p < q /\ jc.copy[p] = dis[k] /\ jc.copy[q] = dis[l]
    BY <2>2 DEF Before
  <2>4. jc.copy[q] # NULL
    BY <1>6, <2>3, NullAssumption
  <2> QED
    BY <1>5, <2>3, <2>4 DEF Sorted
<1>8. ASSUME NEW k \in 1..Len(dis)
      PROVE  /\ code[dis[k]].at \in 1..n
             /\ code[dis[k]].op \in AfterResolve[code[dis[k]].at]
             /\ obj[dis[k]].kind = KindOf(code[dis[k]].op)
  <2>1. dis[k] \in ToSet(jc.copy)
    BY <1>4, <1>6
  <2> QED
    BY <1>5, <1>6, <2>1, HoldsFacts DEF LayoutInv, Wired
<1>9. ASSUME NEW i \in 1..n, NEW op \in AfterResolve[i], op # "OP_NOP"
      PROVE  \E k \in 1..Len(dis) : code[dis[k]] = [op |-> op, at |-> i]
  <2>1. PICK d \in ToSet(jc.copy) : code[d] = [op |-> op, at |-> i]
    BY <1>5 DEF Holds
  <2>2. code[d].op = op
    BY <2>1
  <2>3. d \in made
    BY <1>1, <1>2 DEF JCInv, Sifted
  <2>4. obj[d].kind # "nop"
    <3>1. obj[d].kind = KindOf(op)
      BY <2>2, <2>3 DEF LayoutInv, Wired
    <3> QED
      BY <1>9, <3>1 DEF KindOf
  <2>5. d \in ToSet(dis)
    BY <1>4, <2>1, <2>4 DEF Needed, IsNop
  <2> QED
    BY <1>3, <2>1, <2>5, ToSetFacts
<1> QED
  BY <1>3, <1>6, <1>7, <1>8, <1>9

(* A jump leads to what was made of the instruction the bytecode jumps to. *)
LEMMA JumpFacts ==
  ASSUME LiftInv, LayoutInv, Done, NEW k \in 1..Len(dis), IsJump(dis[k]),
         NEW to, to = prog[code[dis[k]].at].to
  PROVE  /\ to # 0 /\ prog[to].op # "LOP_LOADB"
         /\ \E q \in 1..Len(dis) : /\ obj[dis[k]].ref = dis[q]
                                   /\ code[dis[q]] = [op |-> Translated(prog[to]), at |-> to]
<1>1. lift.phase = "done"
  BY DEF Done
<1>2. dis[k] \in made /\ dis[k] \in ToSet(dis) /\ dis \in Seq(Obj)
  BY FinalFacts
<1>3. obj[dis[k]].ref # NULL
  BY <1>1, <1>2, JumpsWired
<1>4. /\ to # 0 /\ prog[to].op # "LOP_LOADB"
      /\ code[obj[dis[k]].ref] = [op |-> Translated(prog[to]), at |-> to]
  BY <1>2, <1>3 DEF LayoutInv, Wired
<1>5. obj[dis[k]].ref \in ToSet(dis)
  <2>1. JCInv /\ jc.phase = "done"
    BY <1>1 DEF LiftInv, JunkLast, LayoutInv, Eliminating
  <2>2. obj[dis[k]].ref \in ToSet(p_dis)
    BY <1>2, <2>1 DEF JCInv, JCSafe, TargetsSurvive
  <2>3. dis = p_dis
    BY <2>1 DEF JCInv, JCSafe, Published, CommitsLast
  <2> QED
    BY <2>2, <2>3
<1>6. PICK q \in 1..Len(dis) : dis[q] = obj[dis[k]].ref
  BY <1>2, <1>5, ToSetFacts
<1> QED
  BY <1>4, <1>6

(* The order of the committed vector is that of the bytecode, and among    *)
(* what was made of the same instruction that of the roles.                *)
LEMMA FinalOrder ==
  ASSUME LiftInv, LayoutInv, Done, NEW k \in 1..Len(dis), NEW l \in 1..Len(dis)
  PROVE  /\ k < l <=> \/ code[dis[k]].at < code[dis[l]].at
                      \/ /\ code[dis[k]].at = code[dis[l]].at
                         /\ Role(code[dis[k]].op) < Role(code[dis[l]].op)
         /\ code[dis[k]] = code[dis[l]] => k = l
<1>1. /\ Len(prog) \in Nat /\ code \in Codes(Len(prog)) /\ made \subseteq Obj /\ Len(dis) \in Nat
  BY StateFacts
<1>2. dis[k] \in Obj /\ dis[l] \in Obj
  BY <1>1, FinalFacts
<1> DEFINE a == code[dis[k]].at
           b == code[dis[l]].at
           r == Role(code[dis[k]].op)
           s == Role(code[dis[l]].op)
<1>3. /\ Rank[dis[k]] = 4 * a + r /\ Rank[dis[l]] = 4 * b + s
      /\ a \in Nat /\ b \in Nat /\ r \in 0..3 /\ s \in 0..3
  <2>1. \A d \in Obj : /\ Rank[d] = 4 * code[d].at + Role(code[d].op)
                        /\ code[d].at \in 0..Len(prog) /\ Role(code[d].op) \in 0..3
    BY <1>1, RankFacts
  <2>2. 0..Len(prog) \subseteq Nat
    BY <1>1
  <2> QED
    BY <1>2, <2>1, <2>2
<1>4. /\ k < l => Rank[dis[k]] < Rank[dis[l]]
      /\ l < k => Rank[dis[l]] < Rank[dis[k]]
  BY FinalFacts
<1>5. code[dis[k]] = code[dis[l]] => a = b /\ r = s
  OBVIOUS
<1>6. k = l => a = b /\ r = s
  OBVIOUS
<1> HIDE DEF a, b, r, s
<1>7. 4 * a + r < 4 * b + s <=> a < b \/ (a = b /\ r < s)
  BY <1>3
<1>8. 4 * b + s < 4 * a + r <=> b < a \/ (a = b /\ s < r)
  BY <1>3
<1>9. k \in Int /\ l \in Int
  BY <1>1
<1>10. k < l <=> a < b \/ (a = b /\ r < s)
  BY <1>3, <1>4, <1>6, <1>7, <1>8, <1>9
<1>11. a = b /\ r = s => k = l
  BY <1>3, <1>4, <1>7, <1>8, <1>9
<1> QED
  BY <1>5, <1>10, <1>11 DEF a, b, r, s

(* What i was lifted to, opcode by opcode.                                 *)
LEMMA ResolvedFacts ==
  ASSUME NEW i \in 1..Len(prog)
  PROVE  \A op : op \in AfterResolve[i] <=>
                   \/ ~Absorbed(i) /\ op = Translated(prog[i])
                   \/ Compared(i) /\ op \in {CompareOp(prog[i].op), UseOp(i)}
                   \/ SelfCall(i) /\ op = "OP_POPARG"
<1>1. AfterResolve[i] = Expansion(i) \union (IF SelfCall(i) THEN {"OP_POPARG"} ELSE {})
  BY DEF AfterResolve
<1> QED
  BY <1>1, ExpansionFacts

(* The positions of what was made of i.                                    *)
LEMMA MadeOfFacts ==
  ASSUME LiftInv, LayoutInv, Done, NEW i \in 1..Len(prog)
  PROVE  /\ \A k : k \in MadeOf(i) <=> k \in 1..Len(dis) /\ code[dis[k]].at = i
         /\ \A k : k \in Working(i) <=> /\ k \in 1..Len(dis) /\ code[dis[k]].at = i
                                        /\ code[dis[k]].op # "OP_NOP"
         /\ \A k \in MadeOf(i) : code[dis[k]].op \in AfterResolve[i]
<1>1. \A k \in 1..Len(dis) : IsNop(dis[k]) <=> code[dis[k]].op = "OP_NOP"
  <2>1. \A op : KindOf(op) = "nop" <=> op = "OP_NOP"
    BY DEF KindOf
  <2> QED
    BY <2>1, FinalFacts DEF IsNop
<1>2. \A k \in 1..Len(dis) : code[dis[k]].op \in AfterResolve[code[dis[k]].at]
  BY FinalFacts
<1> QED
  BY <1>1, <1>2 DEF MadeOf, Working

(* Nothing but OP_NOP.                                                     *)
LEMMA ExpandsNone ==
  ASSUME LiftInv, LayoutInv, Done, NEW i \in 1..Len(prog), AfterResolve[i] \subseteq {"OP_NOP"}
  PROVE  Expands(i, << >>)
<1>1. Working(i) = {}
  BY MadeOfFacts
<1>2. 0 \in 0..Len(dis) /\ Len(<< >>) = 0 /\ (0 + 1)..(0 + 0) = {} /\ 1..0 = {}
  BY StateFacts
<1> QED
  BY <1>1, <1>2 DEF Expands

(* One opcode, at one position.                                            *)
Alone(i, op, k) ==
  /\ k \in 1..Len(dis) /\ code[dis[k]] = [op |-> op, at |-> i]
  /\ MadeOf(i) = {k}

LEMMA ExpandsOne ==
  ASSUME LiftInv, LayoutInv, Done, NEW i \in 1..Len(prog), NEW op, op # "OP_NOP",
         AfterResolve[i] = {op}
  PROVE  Expands(i, <<op>>) /\ \E k : Alone(i, op, k)
<1>1. PICK k \in 1..Len(dis) : code[dis[k]] = [op |-> op, at |-> i]
  BY FinalFacts
<1>2. code[dis[k]].at = i /\ code[dis[k]].op = op
  BY <1>1
<1>3. ASSUME NEW l \in MadeOf(i) PROVE l = k
  <2>1. l \in 1..Len(dis) /\ code[dis[l]].at = i /\ code[dis[l]].op = op
    BY <1>3, MadeOfFacts
  <2>2. code[dis[l]] = [op |-> code[dis[l]].op, at |-> code[dis[l]].at]
    <3>1. /\ Len(prog) \in Nat /\ code \in Codes(Len(prog)) /\ made \subseteq Obj
      BY StateFacts
    <3>2. dis[l] \in Obj
      BY <2>1, <3>1, FinalFacts
    <3> QED
      BY <3>1, <3>2, RankFacts
  <2>3. code[dis[l]] = code[dis[k]]
    BY <1>1, <2>1, <2>2
  <2> QED
    BY <2>1, <2>3, FinalOrder
<1>4. MadeOf(i) = {k} /\ Working(i) = {k}
  BY <1>1, <1>2, <1>3, MadeOfFacts
<1>5. Expands(i, <<op>>)
  <2>1. k - 1 \in 0..Len(dis) /\ Len(dis) \in Nat /\ k \in Int
    BY StateFacts
  <2>2. Len(<<op>>) = 1 /\ ((k - 1) + 1)..((k - 1) + 1) = {k} /\ (k - 1) + 1 = k /\ <<op>>[1] = op
    BY <2>1
  <2>3. Working(i) = ((k - 1) + 1)..((k - 1) + Len(<<op>>))
    BY <1>4, <2>2
  <2>4. \A j \in 1..Len(<<op>>) : code[dis[(k - 1) + j]].op = <<op>>[j]
    BY <1>2, <2>2
  <2> QED
    BY <2>1, <2>3, <2>4 DEF Expands
<1> QED
  BY <1>1, <1>4, <1>5 DEF Alone

(* An instruction of the committed vector is its opcode and its origin.    *)
LEMMA FinalCode ==
  ASSUME LiftInv, LayoutInv, Done, NEW k \in 1..Len(dis)
  PROVE  code[dis[k]] = [op |-> code[dis[k]].op, at |-> code[dis[k]].at]
<1>1. Len(prog) \in Nat /\ code \in Codes(Len(prog)) /\ made \subseteq Obj
  BY StateFacts
<1>2. dis[k] \in Obj
  BY <1>1, FinalFacts
<1> QED
  BY <1>1, <1>2, RankFacts

(* Two opcodes, one behind the other, and nothing behind them.             *)
Both(i, a, b, k) ==
  /\ k \in 1..Len(dis) /\ code[dis[k]] = [op |-> a, at |-> i]
  /\ k + 1 \in 1..Len(dis) /\ code[dis[k + 1]] = [op |-> b, at |-> i]
  /\ Working(i) = {k, k + 1}
  /\ k + 1 \in MadeOf(i)
  /\ \A l \in MadeOf(i) : l <= k + 1

LEMMA ExpandsTwo ==
  ASSUME LiftInv, LayoutInv, Done, NEW i \in 1..Len(prog), NEW a, NEW b,
         a # "OP_NOP", b # "OP_NOP", Role(a) < Role(b),
         {a, b} \subseteq AfterResolve[i], AfterResolve[i] \subseteq {"OP_NOP", a, b}
  PROVE  Expands(i, <<a, b>>) /\ \E k : Both(i, a, b, k)
<1>1. PICK p \in 1..Len(dis) : code[dis[p]] = [op |-> a, at |-> i]
  BY FinalFacts
<1>2. PICK q \in 1..Len(dis) : code[dis[q]] = [op |-> b, at |-> i]
  BY FinalFacts
<1>3. /\ code[dis[p]].at = i /\ code[dis[p]].op = a
      /\ code[dis[q]].at = i /\ code[dis[q]].op = b
  BY <1>1, <1>2
<1>4. /\ Role(a) \in 0..3 /\ Role(b) \in 0..3 /\ Role("OP_NOP") = 0
      /\ Len(dis) \in Nat /\ p \in Nat /\ q \in Nat /\ i \in Nat
  BY Roles, StateFacts DEF TranslatedOps
<1>5. p < q
  BY <1>3, FinalOrder
<1>6. ASSUME NEW l \in MadeOf(i)
      PROVE  /\ l \in 1..Len(dis) /\ code[dis[l]].at = i
             /\ code[dis[l]].op \in {"OP_NOP", a, b}
             /\ code[dis[l]].op = a => l = p
             /\ code[dis[l]].op = b => l = q
  <2>1. l \in 1..Len(dis) /\ code[dis[l]].at = i /\ code[dis[l]].op \in {"OP_NOP", a, b}
    BY <1>6, MadeOfFacts
  <2>2. code[dis[l]] = [op |-> code[dis[l]].op, at |-> i]
    BY <2>1, FinalCode
  <2>3. code[dis[l]].op = a => code[dis[l]] = code[dis[p]]
    BY <1>1, <2>2
  <2>4. code[dis[l]].op = b => code[dis[l]] = code[dis[q]]
    BY <1>2, <2>2
  <2> QED
    BY <2>1, <2>3, <2>4, FinalOrder
<1>7. \A l \in MadeOf(i) : l <= q
  <2>1. ASSUME NEW l \in MadeOf(i), q < l PROVE FALSE
    <3>1. l \in 1..Len(dis) /\ code[dis[l]].at = i /\ code[dis[l]].op \in {"OP_NOP", a, b}
      BY <1>6
    <3>2. Role(b) < Role(code[dis[l]].op)
      <4>1. ~(i < i)
        BY <1>4
      <4> QED
        BY <1>3, <2>1, <3>1, <4>1, FinalOrder
    <3> QED
      BY <1>4, <3>1, <3>2
  <2>2. \A l \in MadeOf(i) : l \in Int
    BY <1>6
  <2> QED
    BY <1>4, <2>1, <2>2
<1>8. q = p + 1
  <2>1. ASSUME p + 1 < q PROVE FALSE
    <3>1. p + 1 \in 1..Len(dis) /\ p < p + 1
      BY <1>4, <2>1
    <3> DEFINE m == p + 1
               at == code[dis[m]].at
               op == code[dis[m]].op
    <3>2. \/ i < at
          \/ i = at /\ Role(a) < Role(op)
      BY <1>3, <3>1, FinalOrder
    <3>3. \/ at < i
          \/ at = i /\ Role(op) < Role(b)
      BY <1>3, <2>1, <3>1, FinalOrder
    <3>4. at \in Int
      BY <3>1, FinalFacts
    <3>5. at = i
      BY <1>4, <3>2, <3>3, <3>4
    <3>6. m \in MadeOf(i)
      BY <3>1, <3>5, MadeOfFacts
    <3>7. op \in {"OP_NOP", a, b}
      BY <1>6, <3>6
    <3>8. Role(a) < Role(op) /\ Role(op) < Role(b)
      BY <1>4, <3>2, <3>3, <3>5
    <3> QED
      BY <1>4, <3>7, <3>8
  <2> QED
    BY <1>4, <1>5, <2>1
<1>9. Working(i) = {p, p + 1} /\ p + 1 \in MadeOf(i)
  <2>1. p \in Working(i) /\ q \in Working(i) /\ q \in MadeOf(i)
    BY <1>3, MadeOfFacts
  <2>2. ASSUME NEW l \in Working(i) PROVE l \in {p, q}
    <3>1. l \in MadeOf(i) /\ code[dis[l]].op # "OP_NOP"
      BY MadeOfFacts
    <3> QED
      BY <1>6, <3>1
  <2> QED
    BY <1>8, <2>1, <2>2
<1>10. Both(i, a, b, p)
  BY <1>1, <1>2, <1>7, <1>8, <1>9 DEF Both
<1>11. Expands(i, <<a, b>>)
  <2>1. /\ p - 1 \in 0..Len(dis) /\ (p - 1) + 1 = p /\ (p - 1) + 2 = p + 1
        /\ p..(p + 1) = {p, p + 1}
    BY <1>4
  <2>2. Len(<<a, b>>) = 2 /\ 1..2 = {1, 2} /\ <<a, b>>[1] = a /\ <<a, b>>[2] = b
    OBVIOUS
  <2>3. Working(i) = ((p - 1) + 1)..((p - 1) + Len(<<a, b>>))
    BY <1>9, <2>1, <2>2
  <2>4. \A j \in 1..Len(<<a, b>>) : code[dis[(p - 1) + j]].op = <<a, b>>[j]
    BY <1>3, <1>8, <2>1, <2>2
  <2> QED
    BY <2>1, <2>3, <2>4 DEF Expands
<1> QED
  BY <1>10, <1>11

-----------------------------------------------------------------------------
(***************************************************************************)
(* What each bytecode instruction becomes.                                 *)
(***************************************************************************)

(* No compare with a constant: the lifter turns one into an OP_NOP, jump   *)
(* and all.                                                                *)
NoConstants == Compares \intersect WithConstant = {}

(* Every LOADB belongs to a compare that becomes a value, and goes.        *)
LEMMA LoadFacts ==
  ASSUME NoConstants, ProgramOK(prog), NEW i \in 1..Len(prog), prog[i].op = "LOP_LOADB"
  PROVE  /\ InPair(i) /\ Absorbed(i)
         /\ \E j \in 1..Len(prog) : Compared(j) /\ SetCmp(j) /\ i \in {j + 1, j + 2}
         /\ AfterResolve[i] = {}
<1>1. ~Single(prog, i) /\ ~Pair(prog, i) /\ ~Compared(i) /\ ~SelfCall(i)
  BY OpcodesDiffer DEF Single, Pair, Compared, SelfCall
<1>2. PICK j \in 1..Len(prog) : Pair(prog, j) /\ i \in {j + 1, j + 2}
  BY <1>1 DEF ProgramOK
<1>3. SetCmp(j) /\ prog[j].to = j + 2
  BY <1>2, PairIsSet DEF Pair
<1>4. Compared(j)
  BY <1>2, OpcodesAssumption DEF Pair, Compared, NoConstants
<1>5. i \in Nat /\ j \in Nat /\ j \in 1..(i - 1)
  <2>1. Len(prog) \in Nat
    BY InstructionFacts
  <2> QED
    BY <1>2, <2>1
<1>6. Absorbed(i)
  BY <1>2, <1>3, <1>4, <1>5 DEF Absorbed
<1>7. InPair(i)
  <2>1. prog[j].to \in {i, i + 1}
    BY <1>2, <1>3, <1>5
  <2> QED
    BY <1>5, <2>1 DEF InPair
<1>8. AfterResolve[i] = {}
  BY <1>1, <1>6, ResolvedFacts
<1> QED
  BY <1>2, <1>3, <1>4, <1>6, <1>7, <1>8

(* A compare leaves an OP_NOP and its two parts.                           *)
LEMMA CompareShape ==
  ASSUME ProgramOK(prog), NEW i \in 1..Len(prog), Compared(i)
  PROVE  /\ AfterResolve[i] = {"OP_NOP", CompareOp(prog[i].op), UseOp(i)}
         /\ CompareOp(prog[i].op) # "OP_NOP" /\ UseOp(i) # "OP_NOP"
         /\ Role(CompareOp(prog[i].op)) = 1 /\ Role(UseOp(i)) = 2
         /\ UseOp(i) \in ILOps
         /\ UseOp(i) \in IF SetCmp(i) THEN Settings ELSE Branches
         /\ KindOf(CompareOp(prog[i].op)) = "other"
         /\ i < Len(prog)
<1>1. /\ i < Len(prog) /\ ~Absorbed(i) /\ Translated(prog[i]) = "OP_NOP"
      /\ UseOp(i) \in IF SetCmp(i) THEN Settings ELSE Branches
  BY ComparedFacts
<1>2. ~SelfCall(i)
  BY DEF Compared, SelfCall, Tests, Binary
<1>3. AfterResolve[i] = {"OP_NOP", CompareOp(prog[i].op), UseOp(i)}
  BY <1>1, <1>2, ResolvedFacts
<1>4. CompareOp(prog[i].op) \in {"OP_CMPS", "OP_CMP"}
  BY HalfOpcodes
<1>5. UseOp(i) \in ILOps /\ UseOp(i) # "OP_NOP"
  BY <1>1 DEF ILOps, Settings, Branches
<1> QED
  BY <1>1, <1>3, <1>4, <1>5, Roles

(* A call of self that keeps its register.                                 *)
LEMMA SelfShape ==
  ASSUME ProgramOK(prog), NEW i \in 1..Len(prog), SelfCall(i)
  PROVE  /\ AfterResolve[i] = {"OP_SELF", "OP_POPARG"}
         /\ Role("OP_SELF") < Role("OP_POPARG")
         /\ i < Len(prog)
<1>1. Translated(prog[i]) = "OP_SELF" /\ ~Absorbed(i) /\ ~Compared(i) /\ i < Len(prog)
  BY SelfCallFacts
<1>2. Role("OP_SELF") = 0 /\ Role("OP_POPARG") = 3
  BY Roles DEF TranslatedOps
<1> QED
  BY <1>1, <1>2, ResolvedFacts

(* All others become one instruction.                                      *)
LEMMA PlainShape ==
  ASSUME NoConstants, ProgramOK(prog), NEW i \in 1..Len(prog),
         prog[i].op # "LOP_LOADB", ~Compared(i), ~SelfCall(i)
  PROVE  /\ AfterResolve[i] = {Translated(prog[i])}
         /\ Translated(prog[i]) \in ILOps
         /\ Translated(prog[i]) = "OP_NOP" <=> prog[i].op = "LOP_NOP"
         /\ Single(prog, i)
<1>1. ~Absorbed(i)
  BY AbsorbedFacts
<1>2. ~Pair(prog, i) /\ Single(prog, i)
  <2>1. ~Pair(prog, i)
    BY OpcodesAssumption DEF Pair, Compared, NoConstants
  <2>2. \A j : Pair(prog, j) => prog[j + 1].op = "LOP_LOADB" /\ prog[j + 2].op = "LOP_LOADB"
    BY DEF Pair
  <2> QED
    BY <2>1, <2>2 DEF ProgramOK
<1>3. prog[i].op \in {"LOP_MOVE", "LOP_NOP", "LOP_NAMECALL", "LOP_RETURN"}
                       \union Unconditional \union Conditional
  BY <1>2, OpcodesAssumption
  DEF Single, FallThrough, SelfCall, Compared, NoConstants
<1>4. Translated(prog[i]) \in ILOps
  BY TranslatedFacts DEF TranslatedOps, ILOps
<1>5. Translated(prog[i]) = "OP_NOP" <=> prog[i].op = "LOP_NOP"
  BY <1>3 DEF Translated, Unconditional, Conditional
<1> QED
  BY <1>1, <1>2, <1>4, <1>5, ResolvedFacts

-----------------------------------------------------------------------------
(***************************************************************************)
(* InstructionsInPlace.                                                    *)
(***************************************************************************)

(* A compare becomes the setting of the flag and its use.                  *)
LEMMA CompareExpands ==
  ASSUME LiftInv, LayoutInv, Done, NEW i \in 1..Len(prog), Compared(i)
  PROVE  /\ Expands(i, <<CompareOp(prog[i].op), UseOp(i)>>) /\ UseOp(i) \in ILOps
         /\ \E k : Both(i, CompareOp(prog[i].op), UseOp(i), k)
<1> DEFINE a == CompareOp(prog[i].op)
           b == UseOp(i)
<1>1. ProgramOK(prog)
  BY DEF LiftInv
<1>2. /\ AfterResolve[i] = {"OP_NOP", a, b} /\ a # "OP_NOP" /\ b # "OP_NOP"
      /\ Role(a) = 1 /\ Role(b) = 2 /\ b \in ILOps
  BY <1>1, CompareShape
<1> HIDE DEF a, b
<1>3. Role(a) < Role(b) /\ {a, b} \subseteq AfterResolve[i] /\ AfterResolve[i] \subseteq {"OP_NOP", a, b}
  BY <1>2
<1>4. Expands(i, <<a, b>>) /\ \E k : Both(i, a, b, k)
  BY <1>2, <1>3, ExpandsTwo
<1> QED
  BY <1>2, <1>4 DEF a, b

(* A call of self that keeps its register is followed by OP_POPARG.        *)
LEMMA SelfExpands ==
  ASSUME LiftInv, LayoutInv, Done, NEW i \in 1..Len(prog), SelfCall(i)
  PROVE  /\ Expands(i, <<"OP_SELF", "OP_POPARG">>)
         /\ \E k : Both(i, "OP_SELF", "OP_POPARG", k)
<1>1. ProgramOK(prog)
  BY DEF LiftInv
<1>2. AfterResolve[i] = {"OP_SELF", "OP_POPARG"} /\ Role("OP_SELF") < Role("OP_POPARG")
  BY <1>1, SelfShape
<1> QED
  BY <1>2, ExpandsTwo

(* What each bytecode instruction became, kind by kind.                    *)
LEMMA Expanded ==
  ASSUME NoConstants, LiftInv, LayoutInv, Done, NEW i \in 1..Len(prog)
  PROVE  /\ InPair(i) \/ prog[i].op = "LOP_NOP" => Expands(i, << >>)
         /\ SelfCall(i) => Expands(i, <<"OP_SELF", "OP_POPARG">>)
         /\ prog[i].op \in Tests => \E use \in ILOps : Expands(i, <<"OP_CMPS", use>>)
         /\ prog[i].op \in Binary => \E use \in ILOps : Expands(i, <<"OP_CMP", use>>)
         /\ \/ InPair(i) \/ SelfCall(i) \/ Compared(i) \/ prog[i].op = "LOP_NOP"
            \/ \E one \in ILOps : Expands(i, <<one>>)
<1>1. ProgramOK(prog)
  BY DEF LiftInv
<1>2. ASSUME prog[i].op = "LOP_LOADB" PROVE InPair(i) /\ Expands(i, << >>)
  <2>1. AfterResolve[i] = {} /\ InPair(i)
    BY <1>1, <1>2, LoadFacts
  <2> QED
    BY <2>1, ExpandsNone
<1>3. ASSUME prog[i].op = "LOP_NOP" PROVE Expands(i, << >>)
  <2>1. prog[i].op # "LOP_LOADB" /\ ~Compared(i) /\ ~SelfCall(i)
    <3>1. prog[i].op # "LOP_LOADB" /\ ~Compared(i)
      BY <1>3 DEF Compared, Tests, Binary
    <3>2. ~SelfCall(i)
      BY Zenon, <1>3 DEF SelfCall
    <3> QED
      BY <3>1, <3>2
  <2>2. AfterResolve[i] = {Translated(prog[i])} /\ Translated(prog[i]) = "OP_NOP"
    BY <1>1, <1>3, <2>1, PlainShape
  <2> QED
    BY <2>2, ExpandsNone
<1>4. ASSUME prog[i].op \in Tests PROVE \E use \in ILOps : Expands(i, <<"OP_CMPS", use>>)
  <2>1. Compared(i) /\ CompareOp(prog[i].op) = "OP_CMPS"
    BY <1>4 DEF Compared, CompareOp
  <2> QED
    BY <2>1, CompareExpands
<1>5. ASSUME prog[i].op \in Binary PROVE \E use \in ILOps : Expands(i, <<"OP_CMP", use>>)
  <2>1. Compared(i) /\ CompareOp(prog[i].op) = "OP_CMP"
    BY <1>5 DEF Compared, CompareOp, Tests, Binary
  <2> QED
    BY <2>1, CompareExpands
<1>6. ASSUME prog[i].op # "LOP_LOADB", ~SelfCall(i), ~Compared(i), prog[i].op # "LOP_NOP"
      PROVE  \E one \in ILOps : Expands(i, <<one>>)
  <2>1. /\ AfterResolve[i] = {Translated(prog[i])} /\ Translated(prog[i]) \in ILOps
        /\ Translated(prog[i]) # "OP_NOP"
    BY <1>1, <1>6, PlainShape
  <2>2. Expands(i, <<Translated(prog[i])>>)
    BY <2>1, ExpandsOne
  <2> QED
    BY <2>1, <2>2
<1>7. InPair(i) => prog[i].op = "LOP_LOADB"
  BY DEF InPair
<1> QED
  BY Zenon, <1>2, <1>3, <1>4, <1>5, <1>6, <1>7, SelfExpands

(* Every bytecode instruction became its own instructions, in place, for   *)
(* functions without compares with a constant: those become OP_NOP.        *)
THEOREM InPlaceAlways ==
  ASSUME Unlimited, NoConstants PROVE LiftSpec => []InstructionsInPlace
<1>1. ASSUME LiftInv, LayoutInv, Done, NEW i \in 1..Len(prog)
      PROVE  LET op == prog[i].op IN
               CASE InPair(i) \/ op = "LOP_NOP" -> Expands(i, << >>)
                 [] op = "LOP_NAMECALL self"    -> Expands(i, <<"OP_SELF", "OP_POPARG">>)
                 [] op \in Tests                -> \E use \in ILOps : Expands(i, <<"OP_CMPS", use>>)
                 [] op \in Binary               -> \E use \in ILOps : Expands(i, <<"OP_CMP", use>>)
                 [] OTHER                       -> \E one \in ILOps : Expands(i, <<one>>)
  <2>1. /\ InPair(i) \/ prog[i].op = "LOP_NOP" => Expands(i, << >>)
        /\ prog[i].op = "LOP_NAMECALL self" => Expands(i, <<"OP_SELF", "OP_POPARG">>)
        /\ prog[i].op \in Tests => \E use \in ILOps : Expands(i, <<"OP_CMPS", use>>)
        /\ prog[i].op \in Binary => \E use \in ILOps : Expands(i, <<"OP_CMP", use>>)
        /\ \/ InPair(i) \/ prog[i].op = "LOP_NAMECALL self"
           \/ prog[i].op \in Tests \/ prog[i].op \in Binary \/ prog[i].op = "LOP_NOP"
           \/ \E one \in ILOps : Expands(i, <<one>>)
    BY Zenon, <1>1, Expanded DEF SelfCall, Compared
  <2> QED
    BY Zenon, <2>1
<1>2. ASSUME LiftInv, LayoutInv, Done, NEW k \in 2..Len(dis)
      PROVE  code[dis[k - 1]].at <= code[dis[k]].at
  <2>1. k \in 1..Len(dis) /\ k - 1 \in 1..Len(dis) /\ k - 1 < k
    BY <1>2, StateFacts
  <2>2. \/ code[dis[k - 1]].at < code[dis[k]].at
        \/ code[dis[k - 1]].at = code[dis[k]].at
    BY <1>2, <2>1, FinalOrder
  <2>3. code[dis[k - 1]].at \in 1..Len(prog) /\ code[dis[k]].at \in 1..Len(prog)
    BY <1>2, <2>1, FinalFacts
  <2>4. \A x, y \in 1..Len(prog) : x < y \/ x = y => x <= y
    BY <1>2, StateFacts
  <2> QED
    BY <2>2, <2>3, <2>4
<1>3. LiftInv /\ LayoutInv => InstructionsInPlace
  BY Zenon, <1>1, <1>2 DEF InstructionsInPlace
<1> QED
  BY <1>3, LayoutInvariance, PTL

-----------------------------------------------------------------------------
(***************************************************************************)
(* ComparesKept.                                                           *)
(***************************************************************************)

(* The compares whose negation the lifter takes for the other order, which *)
(* the unordered outcome of a NaN is not, are not used.                    *)
NegationsOrdered == Compares \intersect {"LOP_JUMPIFNOTLE", "LOP_JUMPIFNOTLT"} = {}

(* What uses the outcome of a compare is the last that works.              *)
LEMMA UseIsLast ==
  ASSUME LiftInv, LayoutInv, Done, NEW i \in 1..Len(prog), Compared(i)
  PROVE  code[dis[Max(Working(i))]].op = UseOp(i)
<1>1. PICK k : Both(i, CompareOp(prog[i].op), UseOp(i), k)
  BY CompareExpands
<1>2. k \in 1..Len(dis) /\ Working(i) = {k, k + 1} /\ code[dis[k + 1]].op = UseOp(i)
  BY <1>1 DEF Both
<1>3. k \in Int
  BY <1>2, StateFacts
<1>4. Max(Working(i)) = k + 1
  BY <1>2, <1>3 DEF Max
<1> QED
  BY <1>2, <1>4

(* The outcome of each opcode.                                             *)
LEMMA OutcomesKept ==
  ASSUME ProgramOK(prog), NegationsOrdered, NEW i \in 1..Len(prog), prog[i].op \in Binary
  PROVE  TrueWhen(UseOp(i)) = JumpsWhen(prog[i].op)
<1>1. prog[i].op \in {"LOP_JUMPIFEQ", "LOP_JUMPIFLE", "LOP_JUMPIFLT", "LOP_JUMPIFNOTEQ"}
  <2>1. prog[i].op \in Compares
    <3>1. ~(prog[i].op = "LOP_LOADB") /\ prog[i].op \notin Plain \union Jumps \union {"LOP_RETURN"}
      BY OpcodesDiffer DEF Binary
    <3>2. \A j : Pair(prog, j) => prog[j + 1].op = "LOP_LOADB" /\ prog[j + 2].op = "LOP_LOADB"
      BY DEF Pair
    <3>3. Pair(prog, i) \/ Single(prog, i)
      BY <3>1, <3>2 DEF ProgramOK
    <3> QED
      BY <3>1, <3>3 DEF Pair, Single
  <2> QED
    BY <2>1 DEF NegationsOrdered, Binary
<1>2. UseOp(i) \in {SetOp(prog[i].op), JumpOp(prog[i].op)}
  BY DEF UseOp
<1>3. CASE prog[i].op = "LOP_JUMPIFEQ"
  BY <1>2, <1>3 DEF SetOp, JumpOp, TrueWhen, JumpsWhen
<1>4. CASE prog[i].op = "LOP_JUMPIFLE"
  BY <1>2, <1>4 DEF SetOp, JumpOp, TrueWhen, JumpsWhen
<1>5. CASE prog[i].op = "LOP_JUMPIFLT"
  BY <1>2, <1>5 DEF SetOp, JumpOp, TrueWhen, JumpsWhen
<1>6. CASE prog[i].op = "LOP_JUMPIFNOTEQ"
  BY <1>2, <1>6 DEF SetOp, JumpOp, TrueWhen, JumpsWhen
<1> QED
  BY <1>1, <1>3, <1>4, <1>5, <1>6

(* A compare of two registers has the outcome of the bytecode's, for       *)
(* functions without a negated order: LOP_JUMPIFNOTLE becomes GREATER,     *)
(* which a NaN is not.                                                     *)
THEOREM OutcomesAlwaysKept ==
  ASSUME Unlimited, NegationsOrdered PROVE LiftSpec => []ComparesKept
<1>1. LiftInv /\ LayoutInv => ComparesKept
  <2> SUFFICES ASSUME LiftInv, LayoutInv, Done, NEW i \in 1..Len(prog), prog[i].op \in Binary
               PROVE  TrueWhen(code[dis[Max(Working(i))]].op) = JumpsWhen(prog[i].op)
    BY DEF ComparesKept
  <2>1. ProgramOK(prog)
    BY DEF LiftInv
  <2>2. Compared(i)
    BY DEF Compared
  <2>3. code[dis[Max(Working(i))]].op = UseOp(i)
    BY <2>2, UseIsLast
  <2> QED
    BY <2>1, <2>3, OutcomesKept
<1> QED
  BY <1>1, LayoutInvariance, PTL

-----------------------------------------------------------------------------
(***************************************************************************)
(* Where control enters what an instruction became.                        *)
(***************************************************************************)

(* Position k is the first of what was made of i or of what follows it.    *)
Enters(i, k) ==
  /\ k \in 1..Len(dis) /\ code[dis[k]].at >= i
  /\ \A j \in 1..(k - 1) : code[dis[j]].at < i

(* There is only one.                                                      *)
LEMMA EntryIs ==
  ASSUME LiftInv, LayoutInv, Done, NEW i \in Int, NEW k, Enters(i, k)
  PROVE  Entry(i) = k
<1>1. /\ k \in 1..Len(dis) /\ code[dis[k]].at >= i
      /\ \A j \in 1..(k - 1) : code[dis[j]].at < i
  BY DEF Enters
<1>2. Len(dis) \in Nat /\ Len(prog) \in Nat
  BY StateFacts
<1>3. \A j \in 1..Len(dis) : code[dis[j]].at \in 1..Len(prog)
  BY FinalFacts
<1>4. ASSUME NEW l \in 1..Len(dis), code[dis[l]].at >= i,
             \A j \in 1..(l - 1) : code[dis[j]].at < i
      PROVE  l = k
  <2>1. code[dis[k]].at \in Int /\ code[dis[l]].at \in Int
    BY <1>1, <1>2, <1>3
  <2>2. ~(k < l)
    <3>1. k < l => k \in 1..(l - 1)
      BY <1>1, <1>2
    <3> QED
      BY <1>1, <1>4, <2>1, <3>1
  <2>3. ~(l < k)
    <3>1. l < k => l \in 1..(k - 1)
      BY <1>1, <1>2
    <3> QED
      BY <1>1, <1>4, <2>1, <3>1
  <2> QED
    BY <1>1, <1>2, <2>2, <2>3
<1> QED
  BY <1>1, <1>4 DEF Entry

(* There is one, the final OP_RETURN at the latest.                        *)
LEMMA EntryExists ==
  ASSUME LiftInv, LayoutInv, Done, NEW i \in 1..Len(prog)
  PROVE  \E k : Enters(i, k)
<1> DEFINE T == {k \in 1..Len(dis) : code[dis[k]].at >= i}
<1>1. ProgramOK(prog) /\ Len(dis) \in Nat /\ Len(prog) \in Nat
  BY StateFacts DEF LiftInv
<1>2. \E r \in 1..Len(dis) : code[dis[r]].at = Len(prog)
  <2>1. Len(prog) \in 1..Len(prog) /\ ~Absorbed(Len(prog))
        /\ Translated(prog[Len(prog)]) = "OP_RETURN"
    BY <1>1, ReturnFacts
  <2>2. "OP_RETURN" \in AfterResolve[Len(prog)]
    BY <2>1, ResolvedFacts
  <2>3. "OP_RETURN" # "OP_NOP"
    OBVIOUS
  <2>4. PICK r \in 1..Len(dis) : code[dis[r]] = [op |-> "OP_RETURN", at |-> Len(prog)]
    BY <2>1, <2>2, <2>3, FinalFacts
  <2> QED
    BY <2>4
<1>3. T \in SUBSET Nat /\ T # {}
  BY <1>1, <1>2
<1>4. PICK k \in T : \A y \in T : k <= y
  BY <1>3, LeastNumber
<1>5. k \in 1..Len(dis) /\ code[dis[k]].at >= i
  BY <1>4
<1>6. ASSUME NEW j \in 1..(k - 1) PROVE code[dis[j]].at < i
  <2>1. j \in 1..Len(dis) /\ ~(k <= j)
    BY <1>1, <1>5
  <2>2. ~(code[dis[j]].at >= i)
    BY <1>4, <2>1
  <2>3. code[dis[j]].at \in Int
    BY <2>1, FinalFacts
  <2> QED
    BY <2>2, <2>3
<1> QED
  BY <1>5, <1>6 DEF Enters

(* The first that was made of i.                                           *)
LEMMA FirstEnters ==
  ASSUME LiftInv, LayoutInv, Done, NEW i \in 1..Len(prog), NEW k \in MadeOf(i),
         \A l \in MadeOf(i) : k <= l
  PROVE  Entry(i) = k
<1>1. k \in 1..Len(dis) /\ code[dis[k]].at = i /\ Len(dis) \in Nat /\ i \in Int
  BY StateFacts DEF MadeOf
<1>2. ASSUME NEW j \in 1..(k - 1) PROVE code[dis[j]].at < i
  <2>1. j \in 1..Len(dis) /\ j < k /\ ~(k <= j)
    BY <1>1
  <2>2. code[dis[j]].at < i \/ code[dis[j]].at = i
    BY <1>1, <2>1, FinalOrder
  <2>3. code[dis[j]].at # i
    BY <2>1 DEF MadeOf
  <2> QED
    BY <2>2, <2>3
<1>3. Enters(i, k)
  BY <1>1, <1>2 DEF Enters
<1> QED
  BY <1>1, <1>3, EntryIs

(* What follows the last that was made of i enters what i + 1 became.      *)
LEMMA NextEnters ==
  ASSUME LiftInv, LayoutInv, Done, NEW i \in 1..Len(prog), i < Len(prog),
         NEW m \in MadeOf(i), \A l \in MadeOf(i) : l <= m
  PROVE  Entry(i + 1) = m + 1
<1>1. /\ m \in 1..Len(dis) /\ code[dis[m]].at = i /\ Len(dis) \in Nat
      /\ i \in Int /\ i + 1 \in 1..Len(prog) /\ Len(prog) \in Nat
  BY StateFacts DEF MadeOf
<1>2. PICK k : Enters(i + 1, k)
  BY <1>1, EntryExists
<1>3. k \in 1..Len(dis) /\ code[dis[k]].at >= i + 1 /\ code[dis[k]].at \in Int
  BY <1>2, FinalFacts DEF Enters
<1>4. m < k
  <2>1. code[dis[m]].at < code[dis[k]].at
    BY <1>1, <1>3
  <2> QED
    BY <1>1, <1>3, <2>1, FinalOrder
<1>5. m + 1 \in 1..Len(dis) /\ m < m + 1 /\ ~(m + 1 <= m)
  BY <1>1, <1>3, <1>4
<1>6. code[dis[m + 1]].at >= i + 1
  <2>1. i < code[dis[m + 1]].at \/ i = code[dis[m + 1]].at
    BY <1>1, <1>5, FinalOrder
  <2>2. i # code[dis[m + 1]].at
    BY <1>5 DEF MadeOf
  <2>3. code[dis[m + 1]].at \in Int
    BY <1>5, FinalFacts
  <2> QED
    BY <1>1, <2>1, <2>2, <2>3
<1>7. ASSUME NEW j \in 1..((m + 1) - 1) PROVE code[dis[j]].at < i + 1
  <2>1. j \in 1..Len(dis) /\ (j < m \/ j = m)
    BY <1>1
  <2>2. code[dis[j]].at < i \/ code[dis[j]].at = i
    BY <1>1, <2>1, FinalOrder
  <2>3. code[dis[j]].at \in Int
    BY <2>1, FinalFacts
  <2> QED
    BY <1>1, <2>2, <2>3
<1>8. Enters(i + 1, m + 1)
  BY <1>5, <1>6, <1>7 DEF Enters
<1> QED
  BY <1>1, <1>8, EntryIs

(* Control that enters what became nothing enters what follows it.         *)
LEMMA NothingEnters ==
  ASSUME LiftInv, LayoutInv, Done, NEW i \in 1..Len(prog), i < Len(prog), MadeOf(i) = {}
  PROVE  Entry(i) = Entry(i + 1)
<1>1. /\ Len(dis) \in Nat /\ i \in Int /\ i + 1 \in 1..Len(prog) /\ i + 1 \in Int
  BY StateFacts
<1>2. PICK k : Enters(i + 1, k)
  BY <1>1, EntryExists
<1>3. /\ k \in 1..Len(dis) /\ code[dis[k]].at >= i + 1 /\ code[dis[k]].at \in Int
      /\ \A j \in 1..(k - 1) : code[dis[j]].at < i + 1
  BY <1>2, FinalFacts DEF Enters
<1>4. code[dis[k]].at >= i
  BY <1>1, <1>3
<1>5. ASSUME NEW j \in 1..(k - 1) PROVE code[dis[j]].at < i
  <2>1. j \in 1..Len(dis)
    BY <1>1, <1>3
  <2>2. code[dis[j]].at # i /\ code[dis[j]].at \in Int
    BY <2>1, FinalFacts DEF MadeOf
  <2> QED
    BY <1>1, <1>3, <2>2
<1>6. Enters(i, k)
  BY <1>3, <1>4, <1>5 DEF Enters
<1> QED
  BY <1>1, <1>2, <1>6, EntryIs

(* A jump enters what the instruction the bytecode jumps to became.        *)
LEMMA JumpEnters ==
  ASSUME LiftInv, LayoutInv, Done, NEW k \in 1..Len(dis), IsJump(dis[k]),
         NEW to, to = prog[code[dis[k]].at].to
  PROVE  PositionOf(obj[dis[k]].ref) = Entry(to)
<1>1. PICK q \in 1..Len(dis) : /\ obj[dis[k]].ref = dis[q]
                               /\ code[dis[q]] = [op |-> Translated(prog[to]), at |-> to]
  BY JumpFacts
<1>2. code[dis[q]].at = to /\ code[dis[q]].op = Translated(prog[to])
  BY <1>1
<1>3. /\ to \in 1..Len(prog) /\ Len(dis) \in Nat /\ q \in MadeOf(to) /\ to \in Int
  BY <1>2, FinalFacts, StateFacts DEF MadeOf
<1>4. PositionOf(dis[q]) = q
  <2>1. \A p \in 1..Len(dis) : dis[p] = dis[q] => p = q
    BY FinalOrder
  <2> QED
    BY <2>1 DEF PositionOf
<1>5. ASSUME NEW l \in MadeOf(to) PROVE q <= l
  <2>1. l \in 1..Len(dis) /\ code[dis[l]].at = to
    BY DEF MadeOf
  <2>2. Role(code[dis[q]].op) = 0 /\ Role(code[dis[l]].op) \in 0..3
    BY <1>2, TranslatedFacts, Roles
  <2>3. ~(l < q)
    BY <1>2, <1>3, <2>1, <2>2, FinalOrder
  <2> QED
    BY <1>3, <2>1, <2>3
<1>6. Entry(to) = q
  BY <1>3, <1>5, FirstEnters
<1> QED
  BY <1>1, <1>4, <1>6

-----------------------------------------------------------------------------
(***************************************************************************)
(* FlowPreserved.                                                          *)
(***************************************************************************)

(* No special for loop: the lifter drops its jump.                         *)
NoSpecials == Jumps \intersect {"LOP_FORGPREP_INEXT", "LOP_FORGPREP_NEXT"} = {}

(* Control goes on from what i became to what its successors became.       *)
Flows(i) ==
  LET S  == MadeOf(i)
      to == {Entry(s) : s \in Successors(prog, i)}
  IN  IF S = {} THEN to = {Entry(i)}
      ELSE /\ ILSuccessors(Max(S)) = to
           /\ \A k \in S \ {Max(S)} : ~IsJump(dis[k])

(* Position m is the last of what i became, and the only jump if it is one.*)
LastOf(i, m) ==
  /\ m \in MadeOf(i)
  /\ \A l \in MadeOf(i) : l <= m
  /\ \A l \in MadeOf(i) : l # m => ~IsJump(dis[l])

LEMMA LastFlows ==
  ASSUME LiftInv, LayoutInv, Done, NEW i \in 1..Len(prog), NEW m, LastOf(i, m),
         ILSuccessors(m) = {Entry(s) : s \in Successors(prog, i)}
  PROVE  Flows(i)
<1>1. m \in MadeOf(i) /\ (\A l \in MadeOf(i) : l <= m) /\ MadeOf(i) \subseteq Int
  BY StateFacts DEF LastOf, MadeOf
<1>2. Max(MadeOf(i)) = m
  <2>1. \A x \in MadeOf(i) : (\A y \in MadeOf(i) : x >= y) => x = m
    BY <1>1
  <2>2. \A y \in MadeOf(i) : m >= y
    BY <1>1
  <2> QED
    BY <1>1, <2>1, <2>2 DEF Max
<1>3. \A k \in MadeOf(i) \ {m} : ~IsJump(dis[k])
  BY DEF LastOf
<1> QED
  BY <1>1, <1>2, <1>3 DEF Flows

(* The three kinds of last instruction: it only falls through, it only     *)
(* jumps, it does either.                                                  *)
LEMMA FallsThrough ==
  ASSUME LiftInv, LayoutInv, Done, NEW i \in 1..Len(prog), i < Len(prog),
         NEW m, LastOf(i, m), NEW op, op = code[dis[m]].op,
         KindOf(op) # "jump", op # "OP_RETURN",
         {Entry(s) : s \in Successors(prog, i)} = {Entry(i + 1)}
  PROVE  Flows(i)
<1>1. m \in 1..Len(dis) /\ ~IsJump(dis[m])
  <2>1. m \in 1..Len(dis)
    BY DEF LastOf, MadeOf
  <2> QED
    BY <2>1, FinalFacts DEF IsJump
<1>2. Entry(i + 1) = m + 1
  BY NextEnters DEF LastOf
<1>3. ILSuccessors(m) = {m + 1}
  BY <1>1 DEF ILSuccessors
<1> QED
  BY <1>2, <1>3, LastFlows

LEMMA OnlyJumps ==
  ASSUME LiftInv, LayoutInv, Done, NEW i \in 1..Len(prog),
         NEW m, LastOf(i, m), NEW op, op = code[dis[m]].op,
         KindOf(op) = "jump", op \in ILUnconditional,
         Successors(prog, i) = {prog[i].to}
  PROVE  Flows(i)
<1>1. m \in 1..Len(dis) /\ code[dis[m]].at = i /\ IsJump(dis[m])
  <2>1. m \in 1..Len(dis) /\ code[dis[m]].at = i
    BY DEF LastOf, MadeOf
  <2> QED
    BY <2>1, FinalFacts DEF IsJump
<1>2. PositionOf(obj[dis[m]].ref) = Entry(prog[i].to)
  BY <1>1, JumpEnters
<1>3. ILSuccessors(m) = {PositionOf(obj[dis[m]].ref)}
  BY <1>1 DEF ILSuccessors
<1>4. {Entry(s) : s \in Successors(prog, i)} = {Entry(prog[i].to)}
  OBVIOUS
<1> QED
  BY <1>2, <1>3, <1>4, LastFlows

LEMMA JumpsOrNot ==
  ASSUME LiftInv, LayoutInv, Done, NEW i \in 1..Len(prog), i < Len(prog),
         NEW m, LastOf(i, m), NEW op, op = code[dis[m]].op,
         KindOf(op) = "jump", op \notin ILUnconditional, op # "OP_RETURN",
         Successors(prog, i) = {i + 1, prog[i].to}
  PROVE  Flows(i)
<1>1. m \in 1..Len(dis) /\ code[dis[m]].at = i /\ IsJump(dis[m])
  <2>1. m \in 1..Len(dis) /\ code[dis[m]].at = i
    BY DEF LastOf, MadeOf
  <2> QED
    BY <2>1, FinalFacts DEF IsJump
<1>2. PositionOf(obj[dis[m]].ref) = Entry(prog[i].to)
  BY <1>1, JumpEnters
<1>3. Entry(i + 1) = m + 1
  BY NextEnters DEF LastOf
<1>4. ILSuccessors(m) = {m + 1, PositionOf(obj[dis[m]].ref)}
  BY <1>1 DEF ILSuccessors
<1>5. {Entry(s) : s \in Successors(prog, i)} = {Entry(i + 1), Entry(prog[i].to)}
  OBVIOUS
<1> QED
  BY <1>2, <1>3, <1>4, <1>5, LastFlows

(* What the two LOADB of a compare became is nothing, so all of them enter *)
(* what follows the second.                                                *)
LEMMA PairEnters ==
  ASSUME NoConstants, LiftInv, LayoutInv, Done, NEW j \in 1..Len(prog), Compared(j), SetCmp(j)
  PROVE  /\ Entry(j + 1) = Entry(j + 3) /\ Entry(j + 2) = Entry(j + 3)
         /\ MadeOf(j + 1) = {} /\ MadeOf(j + 2) = {}
<1>1. ProgramOK(prog) /\ Len(prog) \in Nat
  BY StateFacts DEF LiftInv
<1>2. /\ j + 1 \in 1..Len(prog) /\ j + 2 \in 1..Len(prog) /\ j + 3 \in 1..Len(prog)
      /\ prog[j + 1].op = "LOP_LOADB" /\ prog[j + 2].op = "LOP_LOADB" /\ j \in Nat
  BY <1>1, SetFacts
<1>3. MadeOf(j + 1) = {} /\ MadeOf(j + 2) = {}
  <2>1. AfterResolve[j + 1] = {} /\ AfterResolve[j + 2] = {}
    BY <1>1, <1>2, LoadFacts
  <2> QED
    BY <1>2, <2>1, MadeOfFacts
<1>4. (j + 1) + 1 = j + 2 /\ (j + 2) + 1 = j + 3 /\ j + 1 < Len(prog) /\ j + 2 < Len(prog)
  BY <1>1, <1>2
<1>5. Entry(j + 1) = Entry((j + 1) + 1)
  BY <1>2, <1>3, <1>4, NothingEnters
<1>6. Entry(j + 2) = Entry((j + 2) + 1)
  BY <1>2, <1>3, <1>4, NothingEnters
<1> QED
  BY <1>3, <1>4, <1>5, <1>6

(* A LOADB: it skips what became nothing either.                           *)
LEMMA LoadFlows ==
  ASSUME NoConstants, LiftInv, LayoutInv, Done, NEW i \in 1..Len(prog),
         prog[i].op = "LOP_LOADB"
  PROVE  Flows(i)
<1>1. ProgramOK(prog)
  BY DEF LiftInv
<1>2. PICK j \in 1..Len(prog) : Compared(j) /\ SetCmp(j) /\ i \in {j + 1, j + 2}
  BY <1>1, LoadFacts
<1>3. prog[i].to = j + 3 /\ j \in Nat
  BY <1>1, <1>2, SetFacts
<1>4. Entry(i) = Entry(j + 3) /\ MadeOf(i) = {}
  BY <1>2, PairEnters
<1>5. Successors(prog, i) = {j + 3}
  <2>1. {prog[i].to} \ {0} = {j + 3}
    BY <1>3
  <2> QED
    BY <2>1 DEF Successors
<1>6. {Entry(s) : s \in Successors(prog, i)} = {Entry(i)}
  BY <1>4, <1>5
<1> QED
  BY <1>4, <1>6 DEF Flows

(* An instruction that neither jumps nor ends the function.                *)
LEMMA NextOnly ==
  ASSUME ProgramOK(prog), NEW i \in 1..Len(prog), prog[i].to = 0,
         prog[i].op \notin Unconditional \union {"LOP_LOADB", "LOP_RETURN"}
  PROVE  i < Len(prog) /\ {Entry(s) : s \in Successors(prog, i)} = {Entry(i + 1)}
<1>1. i # Len(prog) /\ Len(prog) \in Nat
  BY InstructionFacts DEF ProgramOK
<1>2. Successors(prog, i) = {i + 1}
  BY DEF Successors
<1> QED
  BY <1>1, <1>2

(* An OP_NOP, whether junk_code took it or, as the target of a jump, left  *)
(* it.                                                                     *)
LEMMA NopFlows ==
  ASSUME NoConstants, LiftInv, LayoutInv, Done, NEW i \in 1..Len(prog),
         prog[i].op = "LOP_NOP"
  PROVE  Flows(i)
<1>1. ProgramOK(prog)
  BY DEF LiftInv
<1>2. prog[i].op # "LOP_LOADB" /\ ~Compared(i) /\ ~SelfCall(i)
  <2>1. prog[i].op # "LOP_LOADB" /\ ~Compared(i)
    BY DEF Compared, Tests, Binary
  <2>2. ~SelfCall(i)
    BY Zenon DEF SelfCall
  <2> QED
    BY <2>1, <2>2
<1>3. AfterResolve[i] = {"OP_NOP"} /\ Single(prog, i)
  BY <1>1, <1>2, PlainShape
<1>4. prog[i].to = 0 /\ prog[i].op \notin Unconditional \union {"LOP_LOADB", "LOP_RETURN"}
  BY <1>3, OpcodesAssumption
  DEF Single, Unconditional, Conditional, Tests, Binary, WithConstant
<1>5. i < Len(prog) /\ {Entry(s) : s \in Successors(prog, i)} = {Entry(i + 1)}
  BY <1>1, <1>4, NextOnly
<1>6. CASE MadeOf(i) = {}
  BY <1>5, <1>6, NothingEnters DEF Flows
<1>7. CASE MadeOf(i) # {}
  <2>1. PICK m : m \in MadeOf(i)
    BY <1>7
  <2>2. \A l \in MadeOf(i) : /\ l \in 1..Len(dis)
                             /\ code[dis[l]] = [op |-> "OP_NOP", at |-> i]
    <3>1. \A l \in MadeOf(i) : /\ l \in 1..Len(dis) /\ code[dis[l]].at = i
                               /\ code[dis[l]].op = "OP_NOP"
      BY <1>3, MadeOfFacts
    <3> QED
      BY <3>1, FinalCode
  <2>3. \A l \in MadeOf(i) : l = m
    BY <2>1, <2>2, FinalOrder
  <2>4. m \in Int
    BY <2>1, <2>2, StateFacts
  <2>5. LastOf(i, m)
    BY <2>1, <2>3, <2>4 DEF LastOf
  <2>6. code[dis[m]].op = "OP_NOP" /\ KindOf("OP_NOP") # "jump" /\ "OP_NOP" # "OP_RETURN"
    BY <2>1, <2>2 DEF KindOf
  <2> QED
    BY <1>5, <2>5, <2>6, FallsThrough
<1> QED
  BY <1>6, <1>7

(* The only instruction that was made of i is the last.                    *)
LEMMA AloneIsLast ==
  ASSUME LiftInv, NEW i, NEW op, NEW k, Alone(i, op, k)
  PROVE  LastOf(i, k) /\ code[dis[k]].op = op
<1>1. k \in Int /\ MadeOf(i) = {k} /\ code[dis[k]].op = op
  BY StateFacts DEF Alone
<1> QED
  BY <1>1 DEF LastOf

(* The second of two is, with at most an OP_NOP in front.                  *)
LEMMA BothIsLast ==
  ASSUME LiftInv, LayoutInv, Done, NEW i \in 1..Len(prog), NEW a, NEW b, NEW k,
         Both(i, a, b, k), AfterResolve[i] \subseteq {"OP_NOP", a, b}, KindOf(a) # "jump"
  PROVE  LastOf(i, k + 1) /\ code[dis[k + 1]].op = b
<1>1. /\ k \in 1..Len(dis) /\ k + 1 \in 1..Len(dis)
      /\ code[dis[k + 1]] = [op |-> b, at |-> i]
      /\ k + 1 \in MadeOf(i) /\ \A l \in MadeOf(i) : l <= k + 1
  BY DEF Both
<1>2. ASSUME NEW l \in MadeOf(i), l # k + 1 PROVE ~IsJump(dis[l])
  <2>1. l \in 1..Len(dis) /\ code[dis[l]].at = i /\ code[dis[l]].op \in {"OP_NOP", a, b}
    BY <1>2, MadeOfFacts
  <2>2. code[dis[l]].op # b
    <3>1. code[dis[l]] = [op |-> code[dis[l]].op, at |-> i]
      BY <2>1, FinalCode
    <3>2. code[dis[l]] # code[dis[k + 1]]
      BY <1>1, <1>2, <2>1, FinalOrder
    <3> QED
      BY <1>1, <3>1, <3>2
  <2>3. KindOf("OP_NOP") = "nop"
    BY DEF KindOf
  <2>4. KindOf(code[dis[l]].op) # "jump"
    BY <2>1, <2>2, <2>3
  <2> QED
    BY <2>1, <2>4, FinalFacts DEF IsJump
<1> QED
  BY <1>1, <1>2 DEF LastOf

(* The final OP_RETURN.                                                    *)
LEMMA ReturnFlows ==
  ASSUME NoConstants, LiftInv, LayoutInv, Done, NEW i \in 1..Len(prog), i = Len(prog)
  PROVE  Flows(i)
<1>1. ProgramOK(prog)
  BY DEF LiftInv
<1>2. prog[i].op = "LOP_RETURN" /\ Translated(prog[i]) = "OP_RETURN" /\ ~Compared(i)
  BY <1>1, ReturnFacts
<1>3. prog[i].op # "LOP_LOADB" /\ ~SelfCall(i)
  BY Zenon, <1>2 DEF SelfCall
<1>4. AfterResolve[i] = {"OP_RETURN"} /\ Single(prog, i)
  BY <1>1, <1>2, <1>3, PlainShape
<1>5. prog[i].to = 0
  BY <1>2, <1>4 DEF Single
<1>6. {Entry(s) : s \in Successors(prog, i)} = {}
  BY <1>2, <1>5 DEF Successors
<1>7. PICK k : Alone(i, "OP_RETURN", k)
  <2>1. "OP_RETURN" # "OP_NOP"
    OBVIOUS
  <2> QED
    BY <1>4, <2>1, ExpandsOne
<1>8. LastOf(i, k) /\ code[dis[k]].op = "OP_RETURN" /\ k \in 1..Len(dis)
  BY <1>7, AloneIsLast DEF Alone
<1>9. ~IsJump(dis[k])
  <2>1. KindOf("OP_RETURN") = "other"
    BY DEF KindOf, TakesJump, Branches
  <2> QED
    BY <1>8, <2>1, FinalFacts DEF IsJump
<1>10. ILSuccessors(k) = {}
  BY <1>8, <1>9 DEF ILSuccessors
<1> QED
  BY <1>6, <1>8, <1>10, LastFlows

(* A compare that jumps goes on to both of its successors; one that        *)
(* becomes a value to what follows its LOADB.                              *)
LEMMA CompareFlows ==
  ASSUME NoConstants, LiftInv, LayoutInv, Done, NEW i \in 1..Len(prog), Compared(i)
  PROVE  Flows(i)
<1> DEFINE a == CompareOp(prog[i].op)
           b == UseOp(i)
<1>1. ProgramOK(prog)
  BY DEF LiftInv
<1>2. /\ AfterResolve[i] = {"OP_NOP", a, b} /\ KindOf(a) = "other" /\ i < Len(prog)
      /\ b \in IF SetCmp(i) THEN Settings ELSE Branches
  BY <1>1, CompareShape
<1>3. PICK k : Both(i, a, b, k)
  BY CompareExpands
<1>4. LastOf(i, k + 1) /\ code[dis[k + 1]].op = b
  <2> HIDE DEF a, b
  <2> QED
    BY <1>2, <1>3, BothIsLast
<1>5. /\ prog[i].op \notin Unconditional \union {"LOP_LOADB", "LOP_RETURN"}
      /\ prog[i].to \in 1..Len(prog) /\ Len(prog) \in Nat
  <2>1. prog[i].op \in Tests \union Binary
    BY DEF Compared
  <2>2. prog[i].to \in 1..Len(prog) /\ Len(prog) \in Nat
    BY <1>1, <2>1, JumpsLead, InstructionFacts
  <2> QED
    BY <2>1, <2>2 DEF Tests, Binary, Unconditional
<1>6. Successors(prog, i) = {i + 1, prog[i].to}
  <2>1. {prog[i].to} \ {0} = {prog[i].to}
    BY <1>5
  <2> QED
    BY <1>5, <2>1 DEF Successors
<1>7. CASE SetCmp(i)
  <2>1. b \in Settings
    BY <1>2, <1>7
  <2>2. KindOf(b) # "jump" /\ b # "OP_RETURN"
    BY <2>1, Roles DEF Settings
  <2>3. prog[i].to = i + 2 /\ Entry(i + 1) = Entry(i + 2)
    BY <1>1, <1>7, SetFacts, PairEnters
  <2>4. {Entry(s) : s \in Successors(prog, i)} = {Entry(i + 1)}
    BY <1>6, <2>3
  <2> HIDE DEF a, b
  <2> QED
    BY <1>2, <1>4, <2>2, <2>4, FallsThrough
<1>8. CASE ~SetCmp(i)
  <2>1. b \in Branches
    BY <1>2, <1>8
  <2>2. KindOf(b) = "jump" /\ b # "OP_RETURN" /\ b \notin ILUnconditional
    BY <2>1, Roles DEF Branches, ILUnconditional
  <2> HIDE DEF a, b
  <2> QED
    BY <1>2, <1>4, <1>6, <2>2, JumpsOrNot
<1> QED
  BY <1>7, <1>8

(* A call of self goes on behind its OP_POPARG.                            *)
LEMMA SelfFlows ==
  ASSUME LiftInv, LayoutInv, Done, NEW i \in 1..Len(prog), SelfCall(i)
  PROVE  Flows(i)
<1>1. ProgramOK(prog)
  BY DEF LiftInv
<1>2. AfterResolve[i] = {"OP_SELF", "OP_POPARG"} /\ i < Len(prog)
  BY <1>1, SelfShape
<1>3. PICK k : Both(i, "OP_SELF", "OP_POPARG", k)
  BY SelfExpands
<1>4. KindOf("OP_SELF") = "other" /\ KindOf("OP_POPARG") = "other"
  BY DEF KindOf, TakesJump, Branches
<1>5. LastOf(i, k + 1) /\ code[dis[k + 1]].op = "OP_POPARG"
  <2>1. "other" # "jump"
    OBVIOUS
  <2> QED
    BY <1>2, <1>3, <1>4, <2>1, BothIsLast
<1>6. prog[i].op \notin Unconditional \union {"LOP_LOADB", "LOP_RETURN"}
  BY Zenon DEF SelfCall, Unconditional
<1>7. prog[i].op \notin Jumps \union Compares
  <2>1. prog[i].op \notin Unconditional \union Conditional \union Tests \union Binary \union WithConstant
    BY Zenon DEF SelfCall, Unconditional, Conditional, Tests, Binary, WithConstant
  <2> QED
    BY Zenon, <2>1, OpcodesAssumption
<1>8. prog[i].to = 0
  <2>1. prog[i].op # "LOP_LOADB"
    BY <1>6
  <2>2. \A j : Pair(prog, j) => /\ prog[j].op \in Compares
                                /\ prog[j + 1].op = "LOP_LOADB" /\ prog[j + 2].op = "LOP_LOADB"
    BY DEF Pair
  <2>3. Single(prog, i)
    BY <1>1, <1>7, <2>1, <2>2 DEF ProgramOK
  <2> QED
    BY <1>7, <2>3 DEF Single
<1>9. {Entry(s) : s \in Successors(prog, i)} = {Entry(i + 1)}
  BY <1>1, <1>6, <1>8, NextOnly
<1>10. "OP_POPARG" # "OP_RETURN" /\ "other" # "jump"
  OBVIOUS
<1> QED
  BY <1>2, <1>4, <1>5, <1>9, <1>10, FallsThrough

(* What the instructions that become one jump as.                          *)
LEMMA JumpOpcodes ==
  /\ \A b : b.op \in Unconditional \ {"LOP_FORGPREP_INEXT", "LOP_FORGPREP_NEXT"} =>
              KindOf(Translated(b)) = "jump" /\ Translated(b) \in ILUnconditional
  /\ \A b : b.op \in Conditional =>
              /\ KindOf(Translated(b)) = "jump"
              /\ Translated(b) \notin ILUnconditional \union {"OP_RETURN"}
  /\ \A b : b.op \in {"LOP_MOVE", "LOP_NAMECALL"} =>
              Translated(b) \in {"OP_MOVE", "OP_SELF"}
<1>1. \A op \in {"OP_JUMP", "OP_JUMPBACK", "OP_INITFORLOOPG", "OP_INITFORLOOPN",
                 "OP_FORLOOPN", "OP_FORLOOPG"} : KindOf(op) = "jump"
  BY DEF KindOf, TakesJump
<1>2. \A b : b.op \in Unconditional \ {"LOP_FORGPREP_INEXT", "LOP_FORGPREP_NEXT"} =>
               Translated(b) \in {"OP_JUMP", "OP_JUMPBACK", "OP_INITFORLOOPG"}
  BY DEF Unconditional, Translated
<1>3. \A b : b.op \in Conditional =>
               Translated(b) \in {"OP_INITFORLOOPN", "OP_FORLOOPN", "OP_FORLOOPG"}
  BY DEF Conditional, Translated
<1>4. \A b : b.op \in {"LOP_MOVE", "LOP_NAMECALL"} =>
               Translated(b) \in {"OP_MOVE", "OP_SELF"}
  BY DEF Translated
<1>5. /\ {"OP_JUMP", "OP_JUMPBACK", "OP_INITFORLOOPG"} \subseteq ILUnconditional
      /\ \A op \in {"OP_INITFORLOOPN", "OP_FORLOOPN", "OP_FORLOOPG"} :
           op \notin ILUnconditional \union {"OP_RETURN"}
  BY DEF ILUnconditional
<1> QED
  BY <1>1, <1>2, <1>3, <1>4, <1>5

(* All others: what falls through, jumps or does either still does.        *)
LEMMA PlainFlows ==
  ASSUME NoConstants, NoSpecials, LiftInv, LayoutInv, Done, NEW i \in 1..Len(prog),
         i # Len(prog), prog[i].op # "LOP_LOADB", prog[i].op # "LOP_NOP",
         ~Compared(i), ~SelfCall(i)
  PROVE  Flows(i)
<1> DEFINE op == Translated(prog[i])
<1>1. ProgramOK(prog) /\ Len(prog) \in Nat
  BY StateFacts DEF LiftInv
<1>2. AfterResolve[i] = {op} /\ op # "OP_NOP" /\ Single(prog, i)
  BY <1>1, PlainShape
<1>3. PICK m : Alone(i, op, m)
  <2> HIDE DEF op
  <2> QED
    BY <1>2, ExpandsOne
<1>4. LastOf(i, m) /\ code[dis[m]].op = op
  BY <1>3, AloneIsLast
<1>5. prog[i].op # "LOP_RETURN" /\ i < Len(prog) /\ prog[i].to \in 0..Len(prog)
  BY <1>1, InstructionFacts DEF ProgramOK
<1>6. /\ prog[i].op \in {"LOP_MOVE", "LOP_NAMECALL"}
                          \union (Unconditional \ {"LOP_FORGPREP_INEXT", "LOP_FORGPREP_NEXT"})
                          \union Conditional
      /\ prog[i].op \in Unconditional \union Conditional => prog[i].to # 0
      /\ prog[i].op \in {"LOP_MOVE", "LOP_NAMECALL"} => prog[i].to = 0
  <2>1. prog[i].op \in {"LOP_MOVE", "LOP_NAMECALL"} \union Unconditional \union Conditional
    BY <1>2, <1>5, OpcodesAssumption
    DEF Single, FallThrough, SelfCall, Compared, NoConstants
  <2>2. prog[i].op \in Unconditional \union Conditional => prog[i].op \in Jumps /\ prog[i].to # 0
    BY <1>2, OpcodesDiffer DEF Single
  <2>3. prog[i].op \in {"LOP_MOVE", "LOP_NAMECALL"} => prog[i].op \notin Jumps \union Compares
    BY OpcodesAssumption DEF Unconditional, Conditional, Tests, Binary, WithConstant
  <2>4. prog[i].op \in {"LOP_MOVE", "LOP_NAMECALL"} => prog[i].to = 0
    BY <1>2, <1>5, <2>3 DEF Single
  <2> QED
    BY <2>1, <2>2, <2>4 DEF NoSpecials
<1>7. CASE prog[i].op \in {"LOP_MOVE", "LOP_NAMECALL"}
  <2>1. op \in {"OP_MOVE", "OP_SELF"}
    BY <1>7, JumpOpcodes
  <2>2. KindOf(op) # "jump" /\ op # "OP_RETURN"
    BY <2>1 DEF KindOf, TakesJump, Branches
  <2>3. {Entry(s) : s \in Successors(prog, i)} = {Entry(i + 1)}
    <3>1. prog[i].op \notin Unconditional \union {"LOP_LOADB", "LOP_RETURN"}
      BY <1>7 DEF Unconditional
    <3> QED
      BY <1>1, <1>6, <1>7, <3>1, NextOnly
  <2> HIDE DEF op
  <2> QED
    BY <1>4, <1>5, <2>2, <2>3, FallsThrough
<1>8. CASE prog[i].op \in Unconditional
  <2>1. KindOf(op) = "jump" /\ op \in ILUnconditional
    <3>1. prog[i].op \in Unconditional \ {"LOP_FORGPREP_INEXT", "LOP_FORGPREP_NEXT"}
      BY <1>6, <1>8 DEF Unconditional, Conditional
    <3> QED
      BY <3>1, JumpOpcodes
  <2>2. Successors(prog, i) = {prog[i].to}
    <3>1. {prog[i].to} \ {0} = {prog[i].to}
      BY <1>6, <1>8
    <3> QED
      BY <1>8, <3>1 DEF Successors
  <2> HIDE DEF op
  <2> QED
    BY <1>4, <2>1, <2>2, OnlyJumps
<1>9. CASE prog[i].op \in Conditional
  <2>1. KindOf(op) = "jump" /\ op \notin ILUnconditional /\ op # "OP_RETURN"
    BY <1>9, JumpOpcodes
  <2>2. Successors(prog, i) = {i + 1, prog[i].to}
    <3>1. {prog[i].to} \ {0} = {prog[i].to}
      BY <1>6, <1>9
    <3>2. prog[i].op \notin Unconditional \union {"LOP_LOADB", "LOP_RETURN"}
      BY <1>9 DEF Unconditional, Conditional
    <3> QED
      BY <3>1, <3>2 DEF Successors
  <2> HIDE DEF op
  <2> QED
    BY <1>4, <1>5, <2>1, <2>2, JumpsOrNot
<1> QED
  BY <1>6, <1>7, <1>8, <1>9

(* The lifted function goes where the bytecode goes, for functions without *)
(* compares with a constant and special for loops: the lifter drops the    *)
(* jumps of both.                                                          *)
THEOREM FlowAlwaysPreserved ==
  ASSUME Unlimited, NoConstants, NoSpecials PROVE LiftSpec => []FlowPreserved
<1>1. ASSUME LiftInv, LayoutInv, Done, NEW i \in 1..Len(prog) PROVE Flows(i)
  <2>1. i = Len(prog) => Flows(i)
    BY <1>1, ReturnFlows
  <2>2. prog[i].op = "LOP_LOADB" => Flows(i)
    BY <1>1, LoadFlows
  <2>3. prog[i].op = "LOP_NOP" => Flows(i)
    BY <1>1, NopFlows
  <2>4. Compared(i) => Flows(i)
    BY <1>1, CompareFlows
  <2>5. SelfCall(i) => Flows(i)
    BY <1>1, SelfFlows
  <2> QED
    BY <1>1, <2>1, <2>2, <2>3, <2>4, <2>5, PlainFlows
<1>2. LiftInv /\ LayoutInv => FlowPreserved
  BY <1>1 DEF FlowPreserved, Flows
<1> QED
  BY <1>2, LayoutInvariance, PTL
=============================================================================
