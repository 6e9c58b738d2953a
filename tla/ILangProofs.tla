---------------------------- MODULE ILangProofs ----------------------------
(***************************************************************************)
(* Proofs about the IL container, for any set of instructions: its type    *)
(* invariant, the uniqueness of pending instructions, and what a resolving *)
(* commit establishes and every later edit leaves alone.  The inductive    *)
(* invariant is ILInv of module ILang.                                     *)
(***************************************************************************)
EXTENDS ILang, ListLemmas

(* append_dis(d, idx): the vector, followed by null pointers.              *)
LEMMA PaddedFacts ==
  ASSUME NEW s \in Seq(Ptr), NEW idx \in Nat
  PROVE  /\ Padded(s, idx) \in Seq(Ptr)
         /\ Len(Padded(s, idx)) = IF Len(s) # idx THEN Len(s) + idx ELSE Len(s)
         /\ \A k \in 1..Len(Padded(s, idx)) :
              Padded(s, idx)[k] = IF k <= Len(s) THEN s[k] ELSE NULL
<1> DEFINE pad == [k \in 1..idx |-> NULL]
           b == IF Len(s) # idx THEN s \o pad ELSE s
<1>1. pad \in Seq(Ptr) /\ Len(pad) = idx /\ \A k \in 1..idx : pad[k] = NULL
  <2>1. NULL \in Ptr
    BY DEF Ptr
  <2>2. pad \in [1..idx -> Ptr]
    BY <2>1
  <2> HIDE DEF pad
  <2>3. pad \in Seq(Ptr)
    BY <2>2, SeqDef
  <2>4. DOMAIN pad = 1..idx /\ DOMAIN pad = 1..Len(pad) /\ Len(pad) \in Nat
    BY <2>2, <2>3, LenProperties
  <2>5. Len(pad) = idx
    BY <2>4
  <2> QED
    BY <2>3, <2>5 DEF pad
<1> HIDE DEF pad
<1>2. /\ b \in Seq(Ptr)
      /\ Len(b) = IF Len(s) # idx THEN Len(s) + idx ELSE Len(s)
      /\ \A k \in 1..Len(b) : b[k] = IF k <= Len(s) THEN s[k] ELSE NULL
  <2>1. CASE Len(s) # idx
    <3>1. /\ s \o pad \in Seq(Ptr)
          /\ Len(s \o pad) = Len(s) + Len(pad)
          /\ \A k \in 1..(Len(s) + Len(pad)) :
               (s \o pad)[k] = IF k <= Len(s) THEN s[k] ELSE pad[k - Len(s)]
      BY <1>1, ConcatProperties
    <3>2. b = s \o pad
      BY <2>1
    <3> HIDE DEF b
    <3>3. /\ b \in Seq(Ptr)
          /\ Len(b) = Len(s) + idx
          /\ \A k \in 1..(Len(s) + idx) :
               b[k] = IF k <= Len(s) THEN s[k] ELSE pad[k - Len(s)]
      BY <1>1, <3>1, <3>2
    <3> QED
      BY <1>1, <2>1, <3>3
  <2>2. CASE Len(s) = idx
    BY <2>2
  <2> QED
    BY <2>1, <2>2
<1>3. Padded(s, idx) = b
  BY DEF Padded, pad
<1> QED
  BY <1>2, <1>3

(* ... and d inserted into that.                                           *)
InsertedAs(s, d, idx) ==
  /\ Padded(s, idx) \in Seq(Ptr)
  /\ Len(Padded(s, idx)) \in Nat
  /\ Len(Padded(s, idx)) >= Len(s)
  /\ Len(Padded(s, idx)) >= idx
  /\ \A k \in 1..Len(Padded(s, idx)) :
       Padded(s, idx)[k] = IF k <= Len(s) THEN s[k] ELSE NULL
  /\ InsertedAt(s, d, idx) \in Seq(Ptr)
  /\ Len(InsertedAt(s, d, idx)) = Len(Padded(s, idx)) + 1
  /\ \A k \in 1..(Len(Padded(s, idx)) + 1) :
       InsertedAt(s, d, idx)[k] = IF k < idx + 1 THEN Padded(s, idx)[k]
                                  ELSE IF k = idx + 1 THEN d
                                  ELSE Padded(s, idx)[k - 1]

(* Inserting puts d there and moves nothing in front of it.                *)
LEMMA InsertionMade ==
  ASSUME NEW s \in Seq(Ptr), NEW d \in Ptr, NEW idx \in Nat
  PROVE  InsertedAs(s, d, idx)
<1> DEFINE b == Padded(s, idx)
           i == idx + 1
<1>1. /\ b \in Seq(Ptr)
      /\ Len(b) = IF Len(s) # idx THEN Len(s) + idx ELSE Len(s)
      /\ \A k \in 1..Len(b) : b[k] = IF k <= Len(s) THEN s[k] ELSE NULL
  BY PaddedFacts
<1> HIDE DEF b
<1>2. Len(s) \in Nat /\ Len(b) \in Nat /\ Len(b) >= Len(s) /\ Len(b) >= idx
  BY <1>1
<1>3. i \in 1..(Len(b) + 1)
  BY <1>2
<1>a. b \in Seq(Ptr)
  BY <1>1
<1> HIDE DEF i
<1>4. /\ InsertAt(b, i, d) \in Seq(Ptr)
      /\ Len(InsertAt(b, i, d)) = Len(b) + 1
      /\ \A k \in 1..(Len(b) + 1) :
           InsertAt(b, i, d)[k] = IF k < i THEN b[k]
                                  ELSE IF k = i THEN d ELSE b[k - 1]
  <2>1. d \in Ptr
    OBVIOUS
  <2> QED
    BY <1>a, <1>3, <2>1, InsertFacts, SMTT(60)
<1>5. InsertedAt(s, d, idx) = InsertAt(b, i, d)
  BY DEF InsertedAt, b, i
<1>6. /\ InsertedAt(s, d, idx) \in Seq(Ptr)
      /\ Len(InsertedAt(s, d, idx)) = Len(b) + 1
      /\ \A k \in 1..(Len(b) + 1) :
           InsertedAt(s, d, idx)[k] = IF k < i THEN b[k]
                                      ELSE IF k = i THEN d ELSE b[k - 1]
  BY <1>4, <1>5
<1> QED
  BY <1>1, <1>2, <1>6 DEF b, i, InsertedAs

(* The same, part by part.                                                 *)
LEMMA InsertedFacts ==
  ASSUME NEW s \in Seq(Ptr), NEW d \in Ptr, NEW idx \in Nat
  PROVE  /\ Padded(s, idx) \in Seq(Ptr)
         /\ Len(Padded(s, idx)) \in Nat
         /\ Len(Padded(s, idx)) >= Len(s)
         /\ Len(Padded(s, idx)) >= idx
         /\ \A k \in 1..Len(Padded(s, idx)) :
              Padded(s, idx)[k] = IF k <= Len(s) THEN s[k] ELSE NULL
         /\ InsertedAt(s, d, idx) \in Seq(Ptr)
         /\ Len(InsertedAt(s, d, idx)) = Len(Padded(s, idx)) + 1
         /\ \A k \in 1..(Len(Padded(s, idx)) + 1) :
              InsertedAt(s, d, idx)[k] = IF k < idx + 1 THEN Padded(s, idx)[k]
                                         ELSE IF k = idx + 1 THEN d
                                         ELSE Padded(s, idx)[k - 1]
<1>1. InsertedAs(s, d, idx)
  BY InsertionMade
<1> QED
  BY <1>1 DEF InsertedAs

-----------------------------------------------------------------------------
(* The part of the invariant an edit of the pending vector can disturb.    *)
PendingOK(p) ==
  /\ p \in Seq(Ptr)
  /\ \A i, j \in 1..Len(p) : p[i] = p[j] /\ p[i] # NULL => i = j

(* append_dis and append_dis(d, idx) of an instruction that is not there.  *)
LEMMA AppendKeeps ==
  ASSUME NEW p, PendingOK(p), NEW d \in Obj, d \notin ToSet(p)
  PROVE  /\ PendingOK(Append(p, d))
         /\ ToSet(Append(p, d)) = ToSet(p) \union {d}
<1>1. p \in Seq(Ptr) /\ d \in Ptr
  BY DEF PendingOK, Ptr
<1>2. /\ Append(p, d) \in Seq(Ptr)
      /\ Len(Append(p, d)) = Len(p) + 1
      /\ \A k \in 1..(Len(p) + 1) : Append(p, d)[k] = IF k <= Len(p) THEN p[k] ELSE d
  BY <1>1
<1>3. \A k \in 1..Len(p) : p[k] # d
  BY <1>1, ToSetFacts
<1>4. PendingOK(Append(p, d))
  BY <1>1, <1>2, <1>3 DEF PendingOK
<1>5. ASSUME NEW x PROVE x \in ToSet(Append(p, d)) <=> x \in ToSet(p) \/ x = d
  <2>1. x \in ToSet(Append(p, d)) <=> \E k \in 1..(Len(p) + 1) : Append(p, d)[k] = x
    BY <1>2, ToSetFacts
  <2>2. x \in ToSet(p) <=> \E k \in 1..Len(p) : p[k] = x
    BY <1>1, ToSetFacts
  <2>3. Len(p) \in Nat
    BY <1>1
  <2> HIDE DEF PendingOK
  <2> DEFINE q == Append(p, d)
  <2>4. \A k \in 1..(Len(p) + 1) : q[k] = IF k <= Len(p) THEN p[k] ELSE d
    BY <1>2
  <2> HIDE DEF q
  <2>5. (\E k \in 1..(Len(p) + 1) : q[k] = x) <=> (\E k \in 1..Len(p) : p[k] = x) \/ x = d
    BY <2>3, <2>4
  <2> QED
    BY <2>1, <2>2, <2>5 DEF q
<1> QED
  BY <1>4, <1>5

(* Inserting a new instruction keeps the pending vector free of            *)
(* repetitions.                                                            *)
LEMMA InsertKeeps ==
  ASSUME NEW p, PendingOK(p), NEW d \in Obj, d \notin ToSet(p), NEW idx \in Nat
  PROVE  /\ PendingOK(InsertedAt(p, d, idx))
         /\ ToSet(InsertedAt(p, d, idx)) \subseteq ToSet(p) \union {d, NULL}
<1> DEFINE q == InsertedAt(p, d, idx)
<1>1. p \in Seq(Ptr) /\ d \in Ptr
  BY DEF PendingOK, Ptr
<1> DEFINE b == Padded(p, idx)
<1>a. /\ b \in Seq(Ptr)
      /\ Len(b) \in Nat /\ Len(b) >= Len(p) /\ Len(b) >= idx
      /\ \A k \in 1..Len(b) : b[k] = IF k <= Len(p) THEN p[k] ELSE NULL
  <2>1. p \in Seq(Ptr) /\ d \in Ptr /\ idx \in Nat
    BY <1>1
  <2>2. InsertedAs(p, d, idx)
    BY <2>1, InsertionMade
  <2> QED
    BY <2>2 DEF InsertedAs
<1>b. /\ q \in Seq(Ptr)
      /\ Len(q) = Len(b) + 1
      /\ \A k \in 1..(Len(b) + 1) :
           q[k] = IF k < idx + 1 THEN b[k]
                  ELSE IF k = idx + 1 THEN d ELSE b[k - 1]
  <2>1. p \in Seq(Ptr) /\ d \in Ptr /\ idx \in Nat
    BY <1>1
  <2>2. InsertedAs(p, d, idx)
    BY <2>1, InsertionMade
  <2> QED
    BY <2>2 DEF InsertedAs
<1>2. /\ b \in Seq(Ptr)
      /\ Len(b) \in Nat /\ Len(b) >= Len(p) /\ Len(b) >= idx
      /\ \A k \in 1..Len(b) : b[k] = IF k <= Len(p) THEN p[k] ELSE NULL
      /\ q \in Seq(Ptr)
      /\ Len(q) = Len(b) + 1
      /\ \A k \in 1..(Len(b) + 1) :
           q[k] = IF k < idx + 1 THEN b[k]
                  ELSE IF k = idx + 1 THEN d ELSE b[k - 1]
  <2> HIDE DEF b, q
  <2> QED
    BY <1>a, <1>b
<1> HIDE DEF q, b
<1>3. Len(p) \in Nat
  BY <1>1
<1>4. \A k \in 1..Len(p) : p[k] # d
  BY <1>1, ToSetFacts
<1>5. d # NULL
  BY NullAssumption
<1>6. \A k \in 1..Len(b) : b[k] # d
  BY <1>2, <1>3, <1>4, <1>5
<1>7. \A i, j \in 1..Len(b) : b[i] = b[j] /\ b[i] # NULL => i = j
  BY <1>2, <1>3 DEF PendingOK
<1>8. \A i, j \in 1..Len(q) : q[i] = q[j] /\ q[i] # NULL => i = j
  <2> SUFFICES ASSUME NEW i \in 1..Len(q), NEW j \in 1..Len(q),
                      q[i] = q[j], q[i] # NULL
               PROVE  i = j
    OBVIOUS
  <2> DEFINE at(k) == IF k < idx + 1 THEN k ELSE k - 1
  <2>1. ASSUME NEW k \in 1..Len(q), k # idx + 1
        PROVE  at(k) \in 1..Len(b) /\ q[k] = b[at(k)] /\ q[k] # d
    BY <1>2, <1>6, <2>1
  <2>2. q[idx + 1] = d
    BY <1>2
  <2>3. CASE i = idx + 1 \/ j = idx + 1
    BY <2>1, <2>2, <2>3
  <2>4. CASE i # idx + 1 /\ j # idx + 1
    <3>1. b[at(i)] = b[at(j)] /\ b[at(i)] # NULL
      BY <2>1, <2>4
    <3>2. at(i) = at(j)
      BY <1>7, <2>1, <2>4, <3>1
    <3> QED
      BY <2>4, <3>2
  <2> QED
    BY <2>3, <2>4
<1>9. ASSUME NEW x \in ToSet(q) PROVE x \in ToSet(p) \union {d, NULL}
  <2>1. PICK k \in 1..Len(q) : q[k] = x
    BY <1>2, ToSetFacts
  <2>2. x = d \/ \E j \in 1..Len(b) : x = b[j]
    BY <1>2, <1>3, <2>1
  <2>3. x = d \/ x = NULL \/ \E j \in 1..Len(p) : x = p[j]
    BY <1>2, <1>3, <2>2
  <2> QED
    BY <1>1, <2>3, ToSetFacts
<1> QED
  BY <1>2, <1>8, <1>9 DEF PendingOK, q

(* Erasing an element.                                                     *)
LEMMA RemoveKeeps ==
  ASSUME NEW p, PendingOK(p), NEW i \in 1..Len(p)
  PROVE  /\ PendingOK(RemoveAt(p, i))
         /\ ToSet(RemoveAt(p, i)) \subseteq ToSet(p)
<1>1. p \in Seq(Ptr)
  BY DEF PendingOK
<1>2. /\ RemoveAt(p, i) \in Seq(Ptr)
      /\ Len(RemoveAt(p, i)) = Len(p) - 1
      /\ \A k \in 1..(Len(p) - 1) :
           RemoveAt(p, i)[k] = IF k < i THEN p[k] ELSE p[k + 1]
  BY <1>1, RemoveFacts
<1>3. PendingOK(RemoveAt(p, i))
  BY <1>1, <1>2 DEF PendingOK
<1>4. ASSUME NEW x \in ToSet(RemoveAt(p, i)) PROVE x \in ToSet(p)
  BY <1>1, <1>2, ToSetFacts
<1> QED
  BY <1>3, <1>4

(* Erasing one occurrence of z leaves everything else where it was.        *)
LEMMA RemoveKeepsListing ==
  ASSUME NEW S, NEW s \in Seq(S), NEW i \in 1..Len(s), NEW T, s[i] \notin T
  PROVE  SameListing(RemoveAt(s, i), s, T)
<1> DEFINE t == RemoveAt(s, i)
           n == Len(s)
           to(k) == IF k < i THEN k ELSE k - 1
           from(k) == IF k < i THEN k ELSE k + 1
<1>1. /\ n \in Nat /\ i \in 1..n /\ t \in Seq(S) /\ Len(t) = n - 1
      /\ \A k \in 1..(n - 1) : t[k] = s[from(k)]
  <2>1. /\ t \in Seq(S) /\ Len(t) = n - 1
        /\ \A k \in 1..(n - 1) : t[k] = IF k < i THEN s[k] ELSE s[k + 1]
    BY RemoveFacts
  <2> HIDE DEF t
  <2> QED
    BY <2>1
<1> HIDE DEF t, n
<1>2. \A k \in 1..(n - 1) : from(k) \in 1..n
  BY <1>1
<1>3. \A k \in 1..n : k # i => to(k) \in 1..(n - 1) /\ t[to(k)] = s[k]
  BY <1>1
<1>4. \A k, l \in 1..n : k # i /\ l # i /\ k < l => to(k) < to(l)
  BY <1>1
<1>5. \A k, l \in 1..(n - 1) : k < l => from(k) < from(l)
  BY <1>1
<1> HIDE DEF to, from
<1>6. ASSUME NEW x \in T PROVE x \in ToSet(t) <=> x \in ToSet(s)
  <2>1. /\ x \in ToSet(t) <=> \E k \in 1..(n - 1) : t[k] = x
        /\ x \in ToSet(s) <=> \E k \in 1..n : s[k] = x
    BY <1>1, ToSetFacts DEF n
  <2>2. \A k \in 1..n : s[k] = x => k # i
    OBVIOUS
  <2> QED
    BY <1>1, <1>2, <1>3, <2>1, <2>2
<1>7. ASSUME NEW x \in T, NEW y \in T PROVE Before(t, x, y) <=> Before(s, x, y)
  <2>1. Before(t, x, y) => Before(s, x, y)
    <3> SUFFICES ASSUME NEW k \in 1..(n - 1), NEW l \in 1..(n - 1),
                        k < l, t[k] = x, t[l] = y
                 PROVE  Before(s, x, y)
      BY <1>1 DEF Before
    <3>1. /\ from(k) \in 1..n /\ from(l) \in 1..n /\ from(k) < from(l)
          /\ s[from(k)] = x /\ s[from(l)] = y
      BY <1>1, <1>2, <1>5
    <3> QED
      BY <3>1 DEF Before, n
  <2>2. Before(s, x, y) => Before(t, x, y)
    <3> SUFFICES ASSUME NEW k \in 1..n, NEW l \in 1..n, k < l, s[k] = x, s[l] = y
                 PROVE  Before(t, x, y)
      BY DEF Before, n
    <3>1. k # i /\ l # i
      OBVIOUS
    <3>2. /\ to(k) \in 1..(n - 1) /\ to(l) \in 1..(n - 1) /\ to(k) < to(l)
          /\ t[to(k)] = x /\ t[to(l)] = y
      BY <1>3, <1>4, <3>1
    <3> QED
      BY <1>1, <3>2 DEF Before
  <2> QED
    BY <2>1, <2>2
<1> QED
  BY <1>6, <1>7 DEF SameListing, t

-----------------------------------------------------------------------------
(***************************************************************************)
(* The inductive invariant.                                                *)
(***************************************************************************)

(* A new container satisfies it.                                           *)
LEMMA ILInvInit == ILInit => ILInv
<1> SUFFICES ASSUME ILInit PROVE ILInv
  OBVIOUS
<1>1. p_dis \in Seq(Ptr) /\ dis \in Seq(Obj) /\ Len(p_dis) = 0 /\ Len(dis) = 0
  BY DEF ILInit
<1>2. Blank \in Instr
  BY DEF Blank, Instr, Kinds, Ptr
<1>3. ILTypeOK
  BY <1>1, <1>2 DEF ILInit, ILTypeOK, Stages
<1>4. ToSet(p_dis) = {} /\ ToSet(dis) = {}
  BY DEF ILInit, ToSet
<1>5. Allocated
  BY <1>4 DEF Allocated, ILInit
<1>6. PendingUnique /\ NoGaps
  BY <1>1 DEF PendingUnique, NoGaps, ILInit
<1>7. Numbered = 0 /\ Retargeted = 0
  BY DEF ILInit, Numbered, Retargeted
<1>8. CommitProgress
  BY <1>1, <1>7 DEF CommitProgress
<1>9. ~Resolvable
  BY DEF Resolvable, ILInit
<1> QED
  BY <1>3, <1>5, <1>6, <1>8, <1>9 DEF ILInv, CommittedAddresses, JumpsAgree

(* While no commit runs, an operation that leaves what is committed and    *)
(* what is allocated as it is keeps everything that a commit established.  *)
LEMMA OutsideCommit ==
  ASSUME ILInv, Idle, ILTypeOK', dis' = dis, cm' = cm,
         \A x \in made : obj'[x] = obj[x]
  PROVE  NoGaps' /\ CommitProgress' /\ CommittedAddresses' /\ JumpsAgree'
<1>1. NoGaps'
  BY DEF NoGaps, Idle
<1>2. Numbered' = 0 /\ Retargeted' = 0
  BY DEF Numbered, Retargeted, Idle
<1>3. Len(p_dis') \in Nat
  BY DEF ILTypeOK
<1>4. CommitProgress'
  BY <1>2, <1>3 DEF CommitProgress
<1>5. Resolvable' = Resolvable
  BY DEF Resolvable, Settled
<1>6. /\ \A x \in ToSet(dis) : x \in made
      /\ \A k \in 1..Len(dis) : dis[k] \in ToSet(dis)
      /\ \A x \in made : obj[x].ref # NULL => obj[x].ref \in made
  <2>1. dis \in Seq(Obj)
    BY DEF ILInv, ILTypeOK
  <2> QED
    BY <2>1, ToSetFacts DEF ILInv, Allocated
<1>7. CommittedAddresses'
  BY <1>5, <1>6 DEF ILInv, CommittedAddresses
<1>8. ASSUME NEW x \in ToSet(dis), Agrees(x) PROVE Agrees(x)'
  BY <1>6, <1>8 DEF Agrees, IsJump
<1>9. JumpsAgree'
  BY <1>5, <1>8 DEF ILInv, JumpsAgree
<1> QED
  BY <1>1, <1>4, <1>7, <1>9

(* What std::make_shared changes.                                          *)
LEMMA MakeFacts ==
  ASSUME ILInv, NEW d \in Obj, NEW r \in NewInstr, Make(d, r)
  PROVE  /\ d \notin ToSet(p_dis) /\ d \notin ToSet(dis)
         /\ made' = made \union {d} /\ made' \subseteq Obj
         /\ obj' \in [Obj -> Instr]
         /\ \A x \in made : obj'[x] = obj[x]
         /\ \A x \in made' : obj'[x].ref \in made' \union {NULL}
<1>1. r \in Instr /\ r.ref \in made \union {NULL}
  BY DEF NewInstr, Instr, Ptr, ILInv, ILTypeOK
<1>2. d \notin made /\ d # NULL
  BY NullAssumption DEF Make
<1>3. obj \in [Obj -> Instr] /\ made \subseteq Obj
  BY DEF ILInv, ILTypeOK
<1>4. obj' = [obj EXCEPT ![d] = r] /\ made' = made \union {d}
  BY DEF Make
<1>5. obj' \in [Obj -> Instr] /\ \A x \in made : obj'[x] = obj[x]
  BY <1>1, <1>2, <1>3, <1>4
<1>6. \A x \in made' : obj'[x].ref \in made' \union {NULL}
  BY <1>1, <1>3, <1>4, <1>5 DEF ILInv, Allocated
<1> QED
  BY <1>2, <1>3, <1>4, <1>5, <1>6 DEF ILInv, Allocated

(* append_dis(d) keeps the invariant: d is new, and committed instructions *)
(* are untouched.                                                          *)
LEMMA ClientAppendKeeps == ILInv /\ ClientAppend => ILInv'
<1> SUFFICES ASSUME ILInv, ClientAppend PROVE ILInv'
  OBVIOUS
<1>1. PICK d \in Obj, r \in NewInstr : Make(d, r) /\ AppendDis(d)
  BY DEF ClientAppend
<1>2. Idle /\ dis' = dis /\ cm' = cm
  BY DEF ClientAppend
<1>3. PendingOK(p_dis)
  BY DEF ILInv, ILTypeOK, PendingUnique, PendingOK
<1>4. PendingOK(p_dis') /\ ToSet(p_dis') = ToSet(p_dis) \union {d}
  BY <1>1, <1>3, MakeFacts, AppendKeeps DEF AppendDis
<1>5. ILTypeOK'
  BY <1>1, <1>2, <1>4, MakeFacts DEF ILInv, ILTypeOK, PendingOK
<1>6. Allocated'
  BY <1>1, <1>2, <1>4, MakeFacts DEF ILInv, Allocated
<1>7. PendingUnique'
  BY <1>4 DEF PendingUnique, PendingOK
<1>8. NoGaps' /\ CommitProgress' /\ CommittedAddresses' /\ JumpsAgree'
  BY <1>1, <1>2, <1>5, MakeFacts, OutsideCommit
<1> QED
  BY <1>5, <1>6, <1>7, <1>8 DEF ILInv

(* append_dis(d, idx), nulls included, keeps the invariant.                *)
LEMMA ClientAppendAtKeeps == ILInv /\ ClientAppendAt => ILInv'
<1> SUFFICES ASSUME ILInv, ClientAppendAt PROVE ILInv'
  OBVIOUS
<1>1. PICK d \in Obj, r \in NewInstr, idx \in 0..(Len(p_dis) + 1) :
        Make(d, r) /\ AppendDisAt(d, idx)
  BY DEF ClientAppendAt
<1>2. Idle /\ dis' = dis /\ cm' = cm
  BY DEF ClientAppendAt
<1>3. PendingOK(p_dis) /\ idx \in Nat
  BY DEF ILInv, ILTypeOK, PendingUnique, PendingOK
<1>4. PendingOK(p_dis') /\ ToSet(p_dis') \subseteq ToSet(p_dis) \union {d, NULL}
  BY <1>1, <1>3, MakeFacts, InsertKeeps DEF AppendDisAt
<1>5. ILTypeOK'
  BY <1>1, <1>2, <1>4, MakeFacts DEF ILInv, ILTypeOK, PendingOK
<1>6. Allocated'
  BY <1>1, <1>2, <1>4, MakeFacts DEF ILInv, Allocated
<1>7. PendingUnique'
  BY <1>4 DEF PendingUnique, PendingOK
<1>8. NoGaps' /\ CommitProgress' /\ CommittedAddresses' /\ JumpsAgree'
  BY <1>1, <1>2, <1>5, MakeFacts, OutsideCommit
<1> QED
  BY <1>5, <1>6, <1>7, <1>8 DEF ILInv

(* Instructions are allocated, and maybe appended or queued.               *)
LEMMA AllocatingKeeps ==
  ASSUME ILInv, Idle, dis' = dis, cm' = cm, PendingOK(p_dis'),
         made \subseteq made', made' \subseteq Obj,
         ToSet(p_dis') \subseteq made' \union {NULL},
         obj' \in [Obj -> Instr],
         \A x \in made : obj'[x] = obj[x],
         \A x \in made' \ made : obj'[x].ref \in made' \union {NULL}
  PROVE  ILInv'
<1>1. ILTypeOK'
  BY DEF ILInv, ILTypeOK, PendingOK
<1>2. Allocated'
  BY DEF ILInv, Allocated
<1>3. PendingUnique'
  BY DEF PendingOK, PendingUnique
<1>4. NoGaps' /\ CommitProgress' /\ CommittedAddresses' /\ JumpsAgree'
  BY <1>1, OutsideCommit
<1> QED
  BY <1>1, <1>2, <1>3, <1>4 DEF ILInv

(* Inserting what is allocated and not yet pending.                        *)
LEMMA InsertionKeeps ==
  ASSUME ILInv, Idle, NEW d \in made, d \notin ToSet(p_dis), NEW idx \in Nat,
         p_dis' = InsertedAt(p_dis, d, idx), UNCHANGED <<obj, made, dis, cm>>
  PROVE  /\ ILInv'
         /\ ToSet(p_dis') \subseteq ToSet(p_dis) \union {d, NULL}
<1>1. PendingOK(p_dis) /\ d \in Obj
  BY DEF ILInv, ILTypeOK, PendingUnique, PendingOK
<1>2. PendingOK(p_dis') /\ ToSet(p_dis') \subseteq ToSet(p_dis) \union {d, NULL}
  BY <1>1, InsertKeeps
<1>3. ILTypeOK' /\ Allocated' /\ PendingUnique'
  BY <1>2 DEF ILInv, ILTypeOK, Allocated, PendingUnique, PendingOK
<1>4. NoGaps' /\ CommitProgress' /\ CommittedAddresses' /\ JumpsAgree'
  BY <1>3, OutsideCommit
<1> QED
  BY <1>2, <1>3, <1>4 DEF ILInv

(* Erasing pending instructions while no commit runs.                      *)
LEMMA RemovalKeeps ==
  ASSUME ILInv, Idle, NEW i \in 1..Len(p_dis), p_dis' = RemoveAt(p_dis, i),
         UNCHANGED <<obj, made, dis, cm>>
  PROVE  ILInv'
<1>1. PendingOK(p_dis)
  BY DEF ILInv, ILTypeOK, PendingUnique, PendingOK
<1>2. PendingOK(p_dis') /\ ToSet(p_dis') \subseteq ToSet(p_dis)
  BY <1>1, RemoveKeeps
<1>3. ILTypeOK' /\ Allocated' /\ PendingUnique'
  BY <1>2 DEF ILInv, ILTypeOK, Allocated, PendingUnique, PendingOK
<1>4. NoGaps' /\ CommitProgress' /\ CommittedAddresses' /\ JumpsAgree'
  BY <1>3, OutsideCommit
<1> QED
  BY <1>3, <1>4 DEF ILInv

(* remove_dis(idx) keeps the invariant.                                    *)
LEMMA ClientRemoveAtKeeps == ILInv /\ ClientRemoveAt => ILInv'
<1> SUFFICES ASSUME ILInv, ClientRemoveAt PROVE ILInv'
  OBVIOUS
<1>1. PICK idx \in 0..Len(p_dis) : RemoveDisAt(idx)
  BY DEF ClientRemoveAt
<1>2. idx + 1 \in 1..Len(p_dis) /\ p_dis' = RemoveAt(p_dis, idx + 1)
  BY <1>1 DEF RemoveDisAt, RemovedAt, ILInv, ILTypeOK
<1> QED
  BY <1>2, RemovalKeeps DEF ClientRemoveAt

(* remove_dis(d) keeps the invariant.                                      *)
LEMMA ClientRemoveKeeps == ILInv /\ ClientRemove => ILInv'
  BY RemovalKeeps DEF ClientRemove, RemoveDis

(* Setting the reference of a jump ends what the last commit resolved.     *)
LEMMA ClientSetRefKeeps == ILInv /\ ClientSetRef => ILInv'
<1> SUFFICES ASSUME ILInv, ClientSetRef PROVE ILInv'
  OBVIOUS
<1>1. PICK d \in made, r \in made : SetRef(d, r)
  BY DEF ClientSetRef
<1>2. Idle /\ UNCHANGED <<made, p_dis, dis>>
  BY DEF ClientSetRef
<1>3. /\ obj \in [Obj -> Instr] /\ made \subseteq Obj
      /\ obj' = [obj EXCEPT ![d].ref = r]
      /\ cm' = [cm EXCEPT !.resolved = FALSE]
  BY <1>1 DEF SetRef, ILInv, ILTypeOK
<1>4. r \in Ptr /\ d \in Obj
  BY <1>3 DEF Ptr
<1>5. obj' \in [Obj -> Instr]
  BY <1>3, <1>4 DEF Instr
<1>6. ILTypeOK'
  BY <1>2, <1>3, <1>5 DEF ILInv, ILTypeOK
<1>7. Allocated'
  <2>1. \A x \in made : obj'[x].ref = IF x = d THEN r ELSE obj[x].ref
    BY <1>3, <1>4 DEF Instr
  <2> QED
    BY <1>2, <2>1 DEF ILInv, Allocated
<1>8. PendingUnique'
  BY <1>2 DEF ILInv, PendingUnique
<1>9. cm'.stage = "idle" /\ cm'.resolved = FALSE
  BY <1>2, <1>3 DEF Idle, ILInv, ILTypeOK
<1>10. NoGaps' /\ CommittedAddresses' /\ JumpsAgree'
  BY <1>9 DEF NoGaps, CommittedAddresses, JumpsAgree, Resolvable
<1>11. Numbered' = 0 /\ Retargeted' = 0
  BY <1>9 DEF Numbered, Retargeted
<1>12. CommitProgress'
  BY <1>6, <1>11 DEF CommitProgress, ILTypeOK
<1> QED
  BY <1>6, <1>7, <1>8, <1>10, <1>12 DEF ILInv

-----------------------------------------------------------------------------
(***************************************************************************)
(* The steps of commit_dis.                                                *)
(***************************************************************************)

(* A commit starts with nothing counted yet.                               *)
LEMMA ClientCommitKeeps == ILInv /\ ClientCommit => ILInv'
<1> SUFFICES ASSUME ILInv, ClientCommit PROVE ILInv'
  OBVIOUS
<1>1. PICK b \in BOOLEAN : cm' = [cm EXCEPT !.stage = "strip", !.resolve = b]
  BY DEF ClientCommit, CommitDis
<1>2. Idle /\ UNCHANGED <<obj, made, p_dis, dis>>
  BY DEF ClientCommit, CommitDis
<1>3. cm'.stage = "strip" /\ cm'.resolved = cm.resolved /\ ILTypeOK'
  BY <1>1, <1>2 DEF ILInv, ILTypeOK, Stages
<1>4. Allocated' /\ PendingUnique' /\ NoGaps'
  BY <1>2, <1>3 DEF ILInv, Allocated, PendingUnique, NoGaps
<1>5. Numbered' = 0 /\ Retargeted' = 0
  BY <1>3 DEF Numbered, Retargeted
<1>6. CommitProgress'
  BY <1>3, <1>5 DEF CommitProgress, ILTypeOK
<1>7. Resolvable' = Resolvable
  BY <1>2, <1>3 DEF Resolvable, Settled, Idle
<1>8. CommittedAddresses' /\ JumpsAgree'
  BY <1>2, <1>7 DEF ILInv, CommittedAddresses, JumpsAgree, Agrees, IsJump
<1> QED
  BY <1>3, <1>4, <1>6, <1>8 DEF ILInv

(* Erasing a null loses no instruction.                                    *)
LEMMA StripNullKeeps == ILInv /\ StripNull => ILInv'
<1> SUFFICES ASSUME ILInv, StripNull PROVE ILInv'
  OBVIOUS
<1>1. PICK i \in 1..Len(p_dis) : p_dis' = RemoveAt(p_dis, i)
  BY DEF StripNull
<1>2. cm.stage = "strip" /\ UNCHANGED <<obj, made, dis, cm>>
  BY DEF StripNull
<1>3. PendingOK(p_dis)
  BY DEF ILInv, ILTypeOK, PendingUnique, PendingOK
<1>4. PendingOK(p_dis') /\ ToSet(p_dis') \subseteq ToSet(p_dis)
  BY <1>1, <1>3, RemoveKeeps
<1>5. ILTypeOK' /\ Allocated' /\ PendingUnique'
  BY <1>2, <1>4 DEF ILInv, ILTypeOK, Allocated, PendingUnique, PendingOK
<1>6. NoGaps' /\ Numbered' = 0 /\ Retargeted' = 0
  BY <1>2 DEF NoGaps, Numbered, Retargeted
<1>7. CommitProgress'
  BY <1>5, <1>6 DEF CommitProgress, ILTypeOK
<1>8. CommittedAddresses' /\ JumpsAgree'
  BY <1>2 DEF ILInv, CommittedAddresses, JumpsAgree, Agrees, IsJump, Resolvable, Settled
<1> QED
  BY <1>5, <1>6, <1>7, <1>8 DEF ILInv

(* When the nulls are gone every pending pointer is an instruction.        *)
LEMMA StrippedKeeps == ILInv /\ Stripped => ILInv'
<1> SUFFICES ASSUME ILInv, Stripped PROVE ILInv'
  OBVIOUS
<1>1. cm.stage = "strip" /\ UNCHANGED <<obj, made, p_dis, dis>>
  BY DEF Stripped
<1>2. cm'.stage = "validate" /\ cm'.resolved = cm.resolved /\ ILTypeOK'
  BY <1>1 DEF Stripped, ILInv, ILTypeOK, Stages
<1>3. Allocated' /\ PendingUnique' /\ NoGaps'
  BY <1>1, <1>2 DEF Stripped, ILInv, Allocated, PendingUnique, NoGaps
<1>4. Numbered' = 0 /\ Retargeted' = 0
  BY <1>2 DEF Numbered, Retargeted
<1>5. CommitProgress'
  BY <1>2, <1>4 DEF CommitProgress, ILTypeOK
<1>6. Resolvable' = Resolvable
  BY <1>1, <1>2 DEF Resolvable, Settled
<1>7. CommittedAddresses' /\ JumpsAgree'
  BY <1>1, <1>6 DEF ILInv, CommittedAddresses, JumpsAgree, Agrees, IsJump
<1> QED
  BY <1>2, <1>3, <1>5, <1>7 DEF ILInv

(* validate changes nothing, whether it throws or not.                     *)
LEMMA ValidateKeeps == ILInv /\ Validate => ILInv'
<1> SUFFICES ASSUME ILInv, Validate PROVE ILInv'
  OBVIOUS
<1>1. /\ cm.stage = "validate"
      /\ UNCHANGED <<obj, made, p_dis, dis>>
      /\ cm \in [stage : Stages, i : Nat \ {0}, resolve : BOOLEAN, resolved : BOOLEAN]
  BY DEF Validate, ILInv, ILTypeOK
<1>2. \/ cm' = [cm EXCEPT !.stage = "thrown"]
      \/ cm' = [cm EXCEPT !.stage = "addresses", !.i = 1]
      \/ ~cm.resolve /\ cm' = [cm EXCEPT !.stage = "publish"]
  BY DEF Validate
<1>3. /\ cm'.stage \in {"thrown", "addresses", "publish"}
      /\ cm'.resolved = cm.resolved
      /\ cm'.stage = "addresses" => cm'.i = 1
      /\ cm'.stage = "publish" => ~cm'.resolve
      /\ cm' \in [stage : Stages, i : Nat \ {0}, resolve : BOOLEAN, resolved : BOOLEAN]
  <2>1. CASE cm' = [cm EXCEPT !.stage = "thrown"]
    BY <1>1, <2>1 DEF Stages
  <2>2. CASE cm' = [cm EXCEPT !.stage = "addresses", !.i = 1]
    <3>1. 1 \in Nat \ {0} /\ "addresses" \in Stages
      BY DEF Stages
    <3>2. /\ cm' = [stage |-> "addresses", i |-> 1,
                    resolve |-> cm.resolve, resolved |-> cm.resolved]
          /\ cm.resolve \in BOOLEAN /\ cm.resolved \in BOOLEAN
      BY <1>1, <2>2
    <3> QED
      BY <3>1, <3>2
  <2>3. CASE ~cm.resolve /\ cm' = [cm EXCEPT !.stage = "publish"]
    BY <1>1, <2>3 DEF Stages
  <2> QED
    BY <1>2, <2>1, <2>2, <2>3
<1>a. ILTypeOK'
  BY <1>1, <1>3 DEF ILInv, ILTypeOK
<1>4. Allocated' /\ PendingUnique' /\ NoGaps'
  BY <1>1 DEF ILInv, Allocated, PendingUnique, NoGaps
<1>5. Numbered' = 0 /\ Retargeted' = 0
  BY <1>3 DEF Numbered, Retargeted
<1>6. CommitProgress'
  BY <1>a, <1>5 DEF CommitProgress, ILTypeOK
<1>7. Resolvable' => Resolvable
  BY <1>1, <1>3 DEF Resolvable, Settled
<1>8. CommittedAddresses' /\ JumpsAgree'
  BY <1>1, <1>7 DEF ILInv, CommittedAddresses, JumpsAgree, Agrees, IsJump
<1> QED
  BY <1>a, <1>4, <1>6, <1>8 DEF ILInv

(* The number of a pending instruction is its place: what is numbered      *)
(* later is another instruction.                                           *)
LEMMA ResolveAddressKeeps == ILInv /\ ResolveAddress => ILInv'
<1> SUFFICES ASSUME ILInv, ResolveAddress PROVE ILInv'
  OBVIOUS
<1> DEFINE n == cm.i
           d == p_dis[n]
<1>1. /\ cm.stage = "addresses" /\ n <= Len(p_dis)
      /\ UNCHANGED <<made, p_dis, dis>>
      /\ cm \in [stage : Stages, i : Nat \ {0}, resolve : BOOLEAN, resolved : BOOLEAN]
      /\ cm' = [cm EXCEPT !.i = @ + 1]
      /\ obj' = [obj EXCEPT ![d].addr = n - 1]
      /\ obj \in [Obj -> Instr] /\ p_dis \in Seq(Ptr) /\ made \subseteq Obj
  BY DEF ResolveAddress, ILInv, ILTypeOK
<1>2. /\ Numbered = n - 1 /\ Retargeted = 0
      /\ Numbered' = n /\ Retargeted' = 0
  BY <1>1 DEF Numbered, Retargeted
<1>3. \A k \in 1..Len(p_dis) : p_dis[k] \in Obj /\ p_dis[k] # NULL
  <2>1. \A k \in 1..Len(p_dis) : p_dis[k] # NULL
    BY <1>1, ToSetFacts DEF ILInv, NoGaps
  <2> QED
    BY <1>1, <2>1 DEF Ptr
<1>4. /\ obj' \in [Obj -> Instr]
      /\ \A x \in Obj : /\ obj'[x].addr = IF x = d THEN n - 1 ELSE obj[x].addr
                        /\ obj'[x].ref = obj[x].ref
  <2>1. n - 1 \in Int
    BY <1>1
  <2>2. \A x \in Instr : /\ [x EXCEPT !.addr = n - 1] \in Instr
                         /\ [x EXCEPT !.addr = n - 1].addr = n - 1
                         /\ [x EXCEPT !.addr = n - 1].ref = x.ref
    BY <2>1 DEF Instr
  <2>3. \A x \in Obj : obj'[x] = IF x = d THEN [obj[x] EXCEPT !.addr = n - 1] ELSE obj[x]
    BY <1>1
  <2>4. ASSUME NEW x \in Obj
        PROVE  /\ obj'[x] \in Instr
               /\ obj'[x].addr = IF x = d THEN n - 1 ELSE obj[x].addr
               /\ obj'[x].ref = obj[x].ref
    <3>1. obj[x] \in Instr
      BY <1>1
    <3>2. CASE x = d
      <4>1. obj'[x] = [obj[x] EXCEPT !.addr = n - 1]
        BY <2>3, <3>2
      <4> QED
        BY <2>2, <3>1, <3>2, <4>1
    <3>3. CASE x # d
      BY <2>3, <3>1, <3>3
    <3> QED
      BY <3>1, <3>2, <3>3
  <2>5. obj' \in [Obj -> Instr]
    <3>1. obj \in [Obj -> Instr] /\ obj' = [obj EXCEPT ![d].addr = n - 1]
      BY <1>1
    <3> HIDE DEF d, n
    <3> QED
      BY <2>4, <3>1
  <2> QED
    BY <2>4, <2>5
<1>5. ILTypeOK'
  <2>1. cm' \in [stage : Stages, i : Nat \ {0}, resolve : BOOLEAN, resolved : BOOLEAN]
    BY <1>1
  <2> QED
    BY <1>1, <1>4, <2>1 DEF ILInv, ILTypeOK
<1>6. Allocated' /\ PendingUnique' /\ NoGaps'
  BY <1>1, <1>4 DEF ILInv, Allocated, PendingUnique, NoGaps
<1>7. CommitProgress'
  <2>1. \A k \in 1..(n - 1) : obj[p_dis[k]].addr = k - 1
    BY <1>2 DEF ILInv, CommitProgress
  <2>2. n \in 1..Len(p_dis) /\ n - 1 \in Nat
    BY <1>1
  <2>3. \A k \in 1..(n - 1) : p_dis[k] # d
    BY <1>3, <2>2 DEF ILInv, PendingUnique
  <2>4. \A k \in 1..n : obj'[p_dis[k]].addr = k - 1
    <3>1. \A k \in 1..(n - 1) : obj'[p_dis[k]].addr = k - 1
      <4>1. \A k \in 1..(n - 1) : k \in 1..Len(p_dis)
        BY <2>2
      <4> QED
        BY <1>3, <1>4, <2>1, <2>3, <4>1
    <3>2. obj'[p_dis[n]].addr = n - 1
      BY <1>3, <1>4, <2>2
    <3>3. \A k \in 1..n : k \in 1..(n - 1) \/ k = n
      BY <2>2
    <3> QED
      BY <3>1, <3>2, <3>3
  <2> QED
    BY <1>1, <1>2, <2>4 DEF CommitProgress
<1>8. ~Resolvable'
  BY <1>1 DEF Resolvable, Settled
<1> QED
  BY <1>5, <1>6, <1>7, <1>8 DEF ILInv, CommittedAddresses, JumpsAgree

(* After the loop over addresses every pending instruction is numbered.    *)
LEMMA AddressesResolvedKeeps == ILInv /\ AddressesResolved => ILInv'
<1> SUFFICES ASSUME ILInv, AddressesResolved PROVE ILInv'
  OBVIOUS
<1>1. /\ cm.stage = "addresses" /\ cm.i > Len(p_dis)
      /\ UNCHANGED <<obj, made, p_dis, dis>>
      /\ cm \in [stage : Stages, i : Nat \ {0}, resolve : BOOLEAN, resolved : BOOLEAN]
      /\ cm' = [cm EXCEPT !.stage = "jumps", !.i = 1]
      /\ Len(p_dis) \in Nat
  BY DEF AddressesResolved, ILInv, ILTypeOK
<1>2. Numbered = cm.i - 1 /\ Numbered' = Len(p_dis) /\ Retargeted' = 0
  BY <1>1 DEF Numbered, Retargeted
<1>a. cm' \in [stage : Stages, i : Nat \ {0}, resolve : BOOLEAN, resolved : BOOLEAN]
  <2>1. 1 \in Nat \ {0} /\ "jumps" \in Stages
    BY DEF Stages
  <2>2. /\ cm' = [stage |-> "jumps", i |-> 1,
                  resolve |-> cm.resolve, resolved |-> cm.resolved]
        /\ cm.resolve \in BOOLEAN /\ cm.resolved \in BOOLEAN
    BY <1>1
  <2> QED
    BY <2>1, <2>2
<1>b. ILTypeOK'
  BY <1>1, <1>a DEF ILInv, ILTypeOK
<1>3. Allocated' /\ PendingUnique' /\ NoGaps' /\ ~Resolvable'
  BY <1>1 DEF ILInv, Allocated, PendingUnique, NoGaps, Resolvable, Settled
<1>4. CommitProgress'
  BY <1>1, <1>2 DEF ILInv, CommitProgress
<1> QED
  BY <1>b, <1>3, <1>4 DEF ILInv, CommittedAddresses, JumpsAgree

(* Retargeting a jump moves no instruction and no reference, so that the   *)
(* jumps retargeted before it keep agreeing.                               *)
LEMMA RetargetFacts ==
  ASSUME ILInv, NEW d \in made, obj[d].ref # NULL,
         obj' = [obj EXCEPT ![d] = Resolved(d)]
  PROVE  /\ obj' \in [Obj -> Instr]
         /\ \A x \in made : /\ obj'[x].addr = obj[x].addr
                            /\ obj'[x].ref = obj[x].ref
                            /\ obj'[x].kind = obj[x].kind
         /\ \A x \in made : x # d => obj'[x] = obj[x]
         /\ Agrees(d)'
<1>1. obj \in [Obj -> Instr] /\ made \subseteq Obj /\ d \in Obj
      /\ obj[d].ref \in made
  BY DEF ILInv, ILTypeOK, Allocated
<1>2. obj[d] \in Instr /\ obj[obj[d].ref] \in Instr
  BY <1>1
<1>3. /\ obj[obj[d].ref].addr - obj[d].addr \in Int
      /\ obj[obj[d].ref].addr \in Int
  BY <1>2 DEF Instr
<1>4. /\ Resolved(d) \in Instr
      /\ Resolved(d).addr = obj[d].addr
      /\ Resolved(d).ref = obj[d].ref
      /\ Resolved(d).kind = obj[d].kind
      /\ Resolved(d).jmp = obj[obj[d].ref].addr - obj[d].addr
      /\ Resolved(d).ref_addr = obj[obj[d].ref].addr
  BY <1>2, <1>3 DEF Resolved, Instr
<1> DEFINE r == Resolved(d)
<1> HIDE DEF r
<1>5. obj' = [obj EXCEPT ![d] = r]
  BY DEF r
<1>6. obj' \in [Obj -> Instr] /\ obj'[d] = r /\ \A x \in Obj : x # d => obj'[x] = obj[x]
  BY <1>1, <1>4, <1>5 DEF r
<1>7. \A x \in made : /\ obj'[x].addr = obj[x].addr
                      /\ obj'[x].ref = obj[x].ref
                      /\ obj'[x].kind = obj[x].kind
  BY <1>1, <1>4, <1>6 DEF r
<1>8. Agrees(d)'
  BY <1>1, <1>4, <1>6, <1>7 DEF Agrees, IsJump, r
<1> QED
  BY <1>1, <1>6, <1>7, <1>8

(* One more jump has its final operand, and no address changes any more.   *)
LEMMA ResolveJumpKeeps == ILInv /\ ResolveJump => ILInv'
<1> SUFFICES ASSUME ILInv, ResolveJump PROVE ILInv'
  OBVIOUS
<1>1. /\ cm.stage = "jumps" /\ cm.i \in 1..Len(p_dis)
      /\ UNCHANGED <<made, p_dis, dis>>
      /\ cm \in [stage : Stages, i : Nat \ {0}, resolve : BOOLEAN, resolved : BOOLEAN]
      /\ p_dis \in Seq(Ptr) /\ Len(p_dis) \in Nat /\ made \subseteq Obj
  BY DEF ResolveJump, ILInv, ILTypeOK
<1>2. \A k \in 1..Len(p_dis) : p_dis[k] \in made
  BY <1>1, ToSetFacts DEF ILInv, NoGaps, Allocated
<1>n. PICK n \in 1..Len(p_dis) : n = cm.i
  BY <1>1
<1>d. PICK d \in made : d = p_dis[n]
  BY <1>2
<1>s. \/ ~IsJump(d) /\ cm' = [cm EXCEPT !.i = @ + 1] /\ obj' = obj
      \/ /\ IsJump(d) /\ obj[d].ref # NULL
         /\ cm' = [cm EXCEPT !.i = @ + 1] /\ obj' = [obj EXCEPT ![d] = Resolved(d)]
      \/ cm' = [cm EXCEPT !.stage = "crashed"] /\ obj' = obj
  BY <1>n, <1>d DEF ResolveJump
<1>3. /\ Numbered = Len(p_dis) /\ Retargeted = n - 1
      /\ \A k \in 1..Len(p_dis) : obj[p_dis[k]].addr = k - 1
      /\ \A k \in 1..(n - 1) : Agrees(p_dis[k])
  BY <1>1, <1>n DEF Numbered, Retargeted, ILInv, CommitProgress
<1>4. CASE ~IsJump(d) /\ cm' = [cm EXCEPT !.i = @ + 1] /\ obj' = obj
  <2>1. cm' = [cm EXCEPT !.i = @ + 1] /\ obj' = obj
    BY <1>4
  <2>2. ILTypeOK'
    <3>1. cm' \in [stage : Stages, i : Nat \ {0}, resolve : BOOLEAN, resolved : BOOLEAN]
      BY <1>1, <2>1
    <3> QED
      BY <1>1, <2>1, <3>1 DEF ILInv, ILTypeOK
  <2>3. Allocated' /\ PendingUnique' /\ NoGaps' /\ ~Resolvable'
    BY <1>1, <2>1 DEF ILInv, Allocated, PendingUnique, NoGaps, Resolvable, Settled
  <2>4. Numbered' = Len(p_dis) /\ Retargeted' = n
    BY <1>1, <1>n, <2>1 DEF Numbered, Retargeted
  <2>5. \A k \in 1..n : Agrees(p_dis[k])
    BY <1>1, <1>3, <1>4, <1>d DEF Agrees
  <2>6. CommitProgress'
    BY <1>1, <1>3, <2>1, <2>4, <2>5 DEF CommitProgress, Agrees, IsJump
  <2> QED
    BY <2>2, <2>3, <2>6 DEF ILInv, CommittedAddresses, JumpsAgree
<1>5. CASE /\ IsJump(d) /\ obj[d].ref # NULL
           /\ cm' = [cm EXCEPT !.i = @ + 1] /\ obj' = [obj EXCEPT ![d] = Resolved(d)]
  <2>1. /\ obj[d].ref # NULL
        /\ cm' = [cm EXCEPT !.i = @ + 1] /\ obj' = [obj EXCEPT ![d] = Resolved(d)]
    BY <1>5
  <2>2. /\ obj' \in [Obj -> Instr]
        /\ \A x \in made : /\ obj'[x].addr = obj[x].addr
                           /\ obj'[x].ref = obj[x].ref
                           /\ obj'[x].kind = obj[x].kind
        /\ \A x \in made : x # d => obj'[x] = obj[x]
        /\ Agrees(d)'
    BY <2>1, RetargetFacts
  <2>3. cm' \in [stage : Stages, i : Nat \ {0}, resolve : BOOLEAN, resolved : BOOLEAN]
    BY <1>1, <2>1
  <2>4. ILTypeOK'
    BY <1>1, <2>2, <2>3 DEF ILInv, ILTypeOK
  <2>5. Allocated' /\ PendingUnique' /\ NoGaps' /\ ~Resolvable'
    BY <1>1, <2>1, <2>2 DEF ILInv, Allocated, PendingUnique, NoGaps, Resolvable, Settled
  <2>6. Numbered' = Len(p_dis) /\ Retargeted' = n
    BY <1>1, <1>n, <2>1 DEF Numbered, Retargeted
  <2>7. \A k \in 1..Len(p_dis) : obj'[p_dis[k]].addr = k - 1
    BY <1>2, <1>3, <2>2
  <2>8. ASSUME NEW k \in 1..n PROVE Agrees(p_dis[k])'
    <3>1. PICK x \in made : x = p_dis[k]
      BY <1>1, <1>2
    <3>2. Agrees(x)'
      <4>1. CASE k = n
        BY <1>d, <2>2, <3>1, <4>1
      <4>2. CASE k # n
        <5>1. x # d
          BY <1>1, <1>d, <3>1, <4>2, NullAssumption DEF ILInv, PendingUnique
        <5>2. Agrees(x) /\ obj'[x] = obj[x]
          BY <1>3, <2>2, <3>1, <4>2, <5>1
        <5>3. obj[x].ref # NULL => obj[x].ref \in made
          BY DEF ILInv, Allocated
        <5> QED
          BY <2>2, <5>2, <5>3 DEF Agrees, IsJump
      <4> QED
        BY <4>1, <4>2
    <3>3. p_dis'[k] = x
      BY <1>1, <3>1
    <3> QED
      BY <3>2, <3>3 DEF Agrees, IsJump
  <2>9. CommitProgress'
    BY <1>1, <2>6, <2>7, <2>8 DEF CommitProgress
  <2> QED
    BY <2>4, <2>5, <2>9 DEF ILInv, CommittedAddresses, JumpsAgree
<1>6. CASE cm' = [cm EXCEPT !.stage = "crashed"] /\ obj' = obj
  <2>1. cm' = [cm EXCEPT !.stage = "crashed"] /\ obj' = obj
    BY <1>6
  <2>2. ILTypeOK'
    BY <1>1, <2>1 DEF ILInv, ILTypeOK, Stages
  <2>3. Allocated' /\ PendingUnique' /\ NoGaps' /\ ~Resolvable'
    BY <1>1, <2>1 DEF ILInv, Allocated, PendingUnique, NoGaps, Resolvable, Settled
  <2>4. Numbered' = 0 /\ Retargeted' = 0
    BY <1>1, <2>1 DEF Numbered, Retargeted
  <2>5. CommitProgress'
    BY <1>1, <2>4 DEF CommitProgress
  <2> QED
    BY <2>2, <2>3, <2>5 DEF ILInv, CommittedAddresses, JumpsAgree
<1> QED
  BY <1>s, <1>4, <1>5, <1>6

(* After the loop over jumps every pending jump has its final operand.     *)
LEMMA JumpsResolvedKeeps == ILInv /\ JumpsResolved => ILInv'
<1> SUFFICES ASSUME ILInv, JumpsResolved PROVE ILInv'
  OBVIOUS
<1>1. /\ cm.stage = "jumps" /\ cm.i > Len(p_dis)
      /\ UNCHANGED <<obj, made, p_dis, dis>>
      /\ cm \in [stage : Stages, i : Nat \ {0}, resolve : BOOLEAN, resolved : BOOLEAN]
      /\ cm' = [cm EXCEPT !.stage = "publish"]
      /\ Len(p_dis) \in Nat
  BY DEF JumpsResolved, ILInv, ILTypeOK
<1>2. /\ Numbered = Len(p_dis) /\ Retargeted = cm.i - 1
      /\ \A k \in 1..Len(p_dis) : obj[p_dis[k]].addr = k - 1
      /\ \A k \in 1..Len(p_dis) : Agrees(p_dis[k])
  BY <1>1 DEF Numbered, Retargeted, ILInv, CommitProgress
<1>3. ILTypeOK'
  BY <1>1 DEF ILInv, ILTypeOK, Stages
<1>4. Allocated' /\ PendingUnique' /\ NoGaps' /\ ~Resolvable'
  BY <1>1 DEF ILInv, Allocated, PendingUnique, NoGaps, Resolvable, Settled
<1>5. Numbered' \in {0, Len(p_dis)} /\ Retargeted' \in {0, Len(p_dis)}
  BY <1>1 DEF Numbered, Retargeted
<1>6. CommitProgress'
  BY <1>1, <1>2, <1>5 DEF CommitProgress, Agrees, IsJump
<1> QED
  BY <1>3, <1>4, <1>6 DEF ILInv, CommittedAddresses, JumpsAgree

(* What a resolving commit publishes is numbered and retargeted.           *)
LEMMA PublishKeeps == ILInv /\ Publish => ILInv'
<1> SUFFICES ASSUME ILInv, Publish PROVE ILInv'
  OBVIOUS
<1>1. /\ cm.stage = "publish"
      /\ UNCHANGED <<obj, made, p_dis>> /\ dis' = p_dis
      /\ cm \in [stage : Stages, i : Nat \ {0}, resolve : BOOLEAN, resolved : BOOLEAN]
      /\ cm' = [cm EXCEPT !.stage = "idle", !.resolved = cm.resolve]
      /\ p_dis \in Seq(Ptr) /\ Len(p_dis) \in Nat /\ made \subseteq Obj
  BY DEF Publish, ILInv, ILTypeOK
<1>2. NULL \notin ToSet(p_dis) /\ ToSet(p_dis) \subseteq made
  BY <1>1 DEF ILInv, NoGaps, Allocated
<1>3. \A k \in 1..Len(p_dis) : p_dis[k] \in Obj
  BY <1>1, <1>2, ToSetFacts
<1>4. dis' \in Seq(Obj)
  BY <1>1, <1>3
<1>5. cm'.stage = "idle" /\ cm'.resolved = cm.resolve
      /\ cm' \in [stage : Stages, i : Nat \ {0}, resolve : BOOLEAN, resolved : BOOLEAN]
  <2>1. "idle" \in Stages
    BY DEF Stages
  <2> QED
    BY <1>1, <2>1
<1>6. ILTypeOK'
  BY <1>1, <1>4, <1>5 DEF ILInv, ILTypeOK
<1>7. Allocated' /\ PendingUnique' /\ NoGaps'
  BY <1>1, <1>2, <1>5 DEF ILInv, Allocated, PendingUnique, NoGaps
<1>8. Numbered' = 0 /\ Retargeted' = 0
  BY <1>5 DEF Numbered, Retargeted
<1>9. CommitProgress'
  BY <1>1, <1>8 DEF CommitProgress
<1>10. Resolvable' => /\ \A k \in 1..Len(p_dis) : obj[p_dis[k]].addr = k - 1
                      /\ \A k \in 1..Len(p_dis) : Agrees(p_dis[k])
  BY <1>1, <1>5 DEF Resolvable, Numbered, Retargeted, ILInv, CommitProgress
<1>11. CommittedAddresses'
  BY <1>1, <1>10 DEF CommittedAddresses
<1>12. JumpsAgree'
  <2>1. Resolvable' => \A x \in ToSet(p_dis) : Agrees(x)
    BY <1>1, <1>10, ToSetFacts
  <2> QED
    BY <1>1, <2>1 DEF JumpsAgree, Agrees, IsJump
<1> QED
  BY <1>6, <1>7, <1>9, <1>11, <1>12 DEF ILInv

(* Every step of a commit, whoever called it.                              *)
LEMMA CommitStepKeeps == ILInv /\ CommitStep => ILInv'
  BY StripNullKeeps, StrippedKeeps, ValidateKeeps, ResolveAddressKeeps,
     AddressesResolvedKeeps, ResolveJumpKeeps, JumpsResolvedKeeps, PublishKeeps
     DEF CommitStep

(* A commit runs from its call to the step that publishes what is pending. *)
LEMMA CommitEnds ==
  ASSUME ILTypeOK, CommitStep PROVE ~Idle /\ (Idle' => dis' = p_dis')
<1>1. ~Idle
  BY DEF CommitStep, StripNull, Stripped, Validate, ResolveAddress,
         AddressesResolved, ResolveJump, JumpsResolved, Publish, Idle
<1>2. CASE Publish
  BY <1>1, <1>2 DEF Publish
<1>3. CASE ~Publish
  <2>1. cm \in [stage : Stages, i : Nat \ {0}, resolve : BOOLEAN, resolved : BOOLEAN]
    BY DEF ILTypeOK
  <2>2. StripNull \/ Stripped => cm'.stage # "idle"
    BY <2>1 DEF StripNull, Stripped
  <2>3. Validate => cm'.stage # "idle"
    BY <2>1 DEF Validate
  <2>4. ResolveAddress \/ AddressesResolved => cm'.stage # "idle"
    BY <2>1 DEF ResolveAddress, AddressesResolved
  <2>5. ResolveJump => cm'.stage # "idle"
    BY <2>1 DEF ResolveJump
  <2>6. JumpsResolved => cm'.stage # "idle"
    BY <2>1 DEF JumpsResolved
  <2> QED
    BY <1>1, <1>3, <2>2, <2>3, <2>4, <2>5, <2>6 DEF CommitStep, Idle
<1> QED
  BY <1>2, <1>3

(* Every step of any client, and of a commit, keeps the invariant.         *)
LEMMA ILInvNext == ILInv /\ [ILNext]_ilVars => ILInv'
<1> SUFFICES ASSUME ILInv, [ILNext]_ilVars PROVE ILInv'
  OBVIOUS
<1>1. CASE ILNext
  BY <1>1, ClientAppendKeeps, ClientAppendAtKeeps, ClientRemoveAtKeeps,
     ClientRemoveKeeps, ClientSetRefKeeps, ClientCommitKeeps, CommitStepKeeps
     DEF ILNext
<1>2. CASE UNCHANGED ilVars
  BY <1>2 DEF ilVars, ILInv, ILTypeOK, Allocated, PendingUnique, NoGaps,
     CommitProgress, Numbered, Retargeted, CommittedAddresses, JumpsAgree,
     Agrees, IsJump, Resolvable, Settled
<1> QED
  BY <1>1, <1>2

-----------------------------------------------------------------------------
(* The invariant holds in every state any client can bring a container to. *)
THEOREM Invariance == ILSpec => []ILInv
<1>1. ILInit => ILInv
  BY ILInvInit
<1>2. ILInv /\ [ILNext]_ilVars => ILInv'
  BY ILInvNext
<1> QED
  BY <1>1, <1>2, PTL DEF ILSpec

(* The fields of ilang keep their types: no null pointer is ever published *)
(* (the first loop of commit_dis).                                         *)
THEOREM TypeCorrect == ILSpec => []ILTypeOK
<1>1. ILInv => ILTypeOK
  BY DEF ILInv
<1> QED
  BY <1>1, Invariance, PTL

(* No instruction is pending twice, whatever append_dis and remove_dis     *)
(* were called with.                                                       *)
THEOREM PendingIsUnique == ILSpec => []PendingUnique
<1>1. ILInv => PendingUnique
  BY DEF ILInv
<1> QED
  BY <1>1, Invariance, PTL

(* After commit_dis(true) addresses are positions, until the next commit   *)
(* numbers anew or a reference is rewritten.                               *)
THEOREM AddressesArePositions == ILSpec => []CommittedAddresses
<1>1. ILInv => CommittedAddresses
  BY DEF ILInv
<1> QED
  BY <1>1, Invariance, PTL

(* After commit_dis(true) the jump operands agree with the references.     *)
THEOREM OperandsAgree == ILSpec => []JumpsAgree
<1>1. ILInv => JumpsAgree
  BY DEF ILInv
<1> QED
  BY <1>1, Invariance, PTL

(* Addresses that are positions name one instruction each, so that the     *)
(* visitors find by address what the references say.                       *)
LEMMA LookupFollows == ILInv => LookupByAddress
<1> SUFFICES ASSUME ILInv, Resolvable PROVE LookupByAddress
  BY DEF LookupByAddress
<1>1. /\ dis \in Seq(Obj) /\ Len(dis) \in Nat
      /\ \A x : x \in ToSet(dis) <=> \E k \in 1..Len(dis) : dis[k] = x
      /\ \A k \in 1..Len(dis) : obj[dis[k]].addr = k - 1
      /\ \A x \in ToSet(dis) : Agrees(x)
      /\ \A x \in ToSet(dis) : x # NULL
  <2>1. dis \in Seq(Obj) /\ Len(dis) \in Nat
    BY DEF ILInv, ILTypeOK
  <2>2. /\ \A x : x \in ToSet(dis) <=> \E k \in 1..Len(dis) : dis[k] = x
        /\ ToSet(dis) \subseteq Obj
    BY <2>1, ToSetFacts
  <2> QED
    BY <2>1, <2>2, NullAssumption DEF ILInv, CommittedAddresses, JumpsAgree
<1>2. ASSUME NEW x \in ToSet(dis), NEW y \in ToSet(dis), obj[x].addr = obj[y].addr
      PROVE  x = y
  BY <1>1, <1>2
<1>3. ASSUME NEW x \in ToSet(dis), IsJump(x), obj[x].ref \in ToSet(dis)
      PROVE  /\ Visitable(obj[x].ref_addr)
             /\ VisitAddr(obj[x].ref_addr) = obj[x].ref
  <2>1. obj[x].ref_addr = obj[obj[x].ref].addr
    BY <1>1, <1>3 DEF Agrees
  <2>2. PICK j \in 1..Len(dis) : dis[j] = obj[x].ref
    BY <1>1, <1>3
  <2>3. obj[x].ref_addr = j - 1
    BY <1>1, <2>1, <2>2
  <2> DEFINE First(i) == /\ obj[dis[i]].addr = obj[x].ref_addr
                         /\ \A k \in 1..(i - 1) : obj[dis[k]].addr # obj[x].ref_addr
  <2>4. First(j) /\ \A i \in 1..Len(dis) : First(i) => i = j
    BY <1>1, <2>3
  <2>5. VisitAddr(obj[x].ref_addr) = dis[CHOOSE i \in 1..Len(dis) : First(i)]
    BY DEF VisitAddr
  <2> HIDE DEF First
  <2>6. (CHOOSE i \in 1..Len(dis) : First(i)) = j
    BY <2>4
  <2> QED
    BY <1>3, <2>1, <2>2, <2>5, <2>6 DEF Visitable
<1>4. ASSUME \A y \in ToSet(dis) : obj[y].ref \in ToSet(dis) \union {NULL},
             NEW x \in ToSet(dis)
      PROVE  VisitRef(obj[x].addr) = {y \in ToSet(dis) : obj[y].ref = x}
  BY <1>1, <1>2, <1>4 DEF VisitRef
<1> QED
  BY <1>3, <1>4 DEF LookupByAddress

(* visit_addr on the target of a committed jump returns the instruction    *)
(* its reference points to, and visit_ref the jumps to an instruction.     *)
THEOREM LookupIsIdentity == ILSpec => []LookupByAddress
  BY LookupFollows, Invariance, PTL

(* No step of a commit loses, adds or moves an instruction that is pending,*)
(* the last one commits these, and every other leaves what was committed.  *)
THEOREM CommitPublishesListing == ILSpec => CommitKeepsListing
<1> DEFINE Keeps == /\ SameListing(p_dis', p_dis, Obj)
                    /\ IF cm.stage = "publish" THEN SameListing(dis', p_dis, Obj)
                                               ELSE dis' = dis
<1>1. ASSUME ILInv, ILNext, ~Idle PROVE Keeps
  <2>1. CASE StripNull
    <3>1. PICK i \in 1..Len(p_dis) : p_dis[i] = NULL /\ p_dis' = RemoveAt(p_dis, i)
      BY <2>1 DEF StripNull
    <3>2. p_dis \in Seq(Ptr) /\ p_dis[i] \notin Obj
      BY <1>1, <3>1, NullAssumption DEF ILInv, ILTypeOK
    <3>3. SameListing(p_dis', p_dis, Obj)
      BY <3>1, <3>2, RemoveKeepsListing
    <3> QED
      BY <2>1, <3>3 DEF StripNull
  <2>2. CASE Publish
    BY <2>2 DEF Publish, SameListing
  <2>3. CASE p_dis' = p_dis /\ dis' = dis /\ cm.stage # "publish"
    BY <2>3 DEF SameListing
  <2>4. \/ StripNull \/ Publish
        \/ p_dis' = p_dis /\ dis' = dis /\ cm.stage # "publish"
    BY <1>1 DEF ILNext, ClientAppend, ClientAppendAt, ClientRemoveAt,
       ClientRemove, ClientSetRef, ClientCommit, CommitDis, CommitStep, Stripped,
       Validate, ResolveAddress, AddressesResolved, ResolveJump, JumpsResolved
  <2> QED
    BY <2>1, <2>2, <2>3, <2>4
<1>2. ILInv /\ ILNext => (~Idle => Keeps)
  BY <1>1
<1>3. ILInv /\ [ILNext]_ilVars => [~Idle => Keeps]_ilVars
  BY <1>2
<1> QED
  BY <1>3, Invariance, PTL DEF ILSpec, CommitKeepsListing
=============================================================================
