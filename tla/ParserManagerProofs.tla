------------------------- MODULE ParserManagerProofs -------------------------
(***************************************************************************)
(* parser_manager with one callback that queues edits, on containers of    *)
(* any length: the position queued for an edit is right when its turn      *)
(* comes (EditsOnTarget), and a run is a step of EditSpec.                 *)
(***************************************************************************)
EXTENDS ParserManager, ILangProofs, FiniteSetTheorems

(* Shift, as sync_idx counts: one up or down for each edit.                *)
LEMMA ShiftFacts ==
  ASSUME NEW q, NEW k \in Nat \ {0}
  PROVE  /\ Shift(q, 1) = 0
         /\ Shift(q, k) \in Int
         /\ Shift(q, k + 1) = Shift(q, k) + (IF q[k].act = "add" THEN 1 ELSE -1)
<1> DEFINE A(m) == {i \in 1..(m - 1) : q[i].act = "add"}
           R(m) == {i \in 1..(m - 1) : q[i].act # "add"}
<1>1. A(1) = {} /\ R(1) = {}
  OBVIOUS
<1>2. IsFiniteSet(A(k)) /\ IsFiniteSet(R(k))
  <2>1. IsFiniteSet(1..(k - 1))
    BY FS_Interval
  <2> QED
    BY <2>1, FS_Subset
<1>3. k \notin A(k) /\ k \notin R(k)
  OBVIOUS
<1>4. /\ q[k].act = "add" => A(k + 1) = A(k) \union {k} /\ R(k + 1) = R(k)
      /\ q[k].act # "add" => R(k + 1) = R(k) \union {k} /\ A(k + 1) = A(k)
  OBVIOUS
<1>5. /\ Shift(q, 1) = Cardinality(A(1)) - Cardinality(R(1))
      /\ Shift(q, k) = Cardinality(A(k)) - Cardinality(R(k))
      /\ Shift(q, k + 1) = Cardinality(A(k + 1)) - Cardinality(R(k + 1))
  BY DEF Shift
<1> HIDE DEF A, R
<1> DEFINE a == Cardinality(A(k))
           r == Cardinality(R(k))
<1>6. /\ a \in Nat /\ r \in Nat
      /\ Cardinality(A(k) \union {k}) = a + 1
      /\ Cardinality(R(k) \union {k}) = r + 1
  BY <1>2, <1>3, FS_CardinalityType, FS_AddElement
<1>7. Shift(q, 1) = 0
  BY <1>1, <1>5, FS_EmptySet
<1>8. q[k].act = "add" => Shift(q, k + 1) = (a + 1) - r
  BY <1>4, <1>5, <1>6
<1>9. q[k].act # "add" => Shift(q, k + 1) = a - (r + 1)
  BY <1>4, <1>5, <1>6
<1>10. Shift(q, k) = a - r
  BY <1>5
<1> HIDE DEF a, r
<1> QED
  BY <1>6, <1>7, <1>8, <1>9, <1>10

(* Queueing one more edit.                                                 *)
LEMMA QueuedFacts ==
  ASSUME NEW q \in Seq(Edit), NEW e \in Edit
  PROVE  /\ Append(q, e) \in Seq(Edit)
         /\ Len(Append(q, e)) = Len(q) + 1
         /\ Append(q, e)[Len(q) + 1] = e
         /\ \A k \in 1..Len(q) : Append(q, e)[k] = q[k]
         /\ \A k \in 1..(Len(q) + 1) : Shift(Append(q, e), k) = Shift(q, k)
<1>1. /\ Append(q, e) \in Seq(Edit) /\ Len(Append(q, e)) = Len(q) + 1
      /\ Append(q, e)[Len(q) + 1] = e
      /\ \A k \in 1..Len(q) : Append(q, e)[k] = q[k]
      /\ Len(q) \in Nat
  OBVIOUS
<1>2. ASSUME NEW k \in 1..(Len(q) + 1)
      PROVE  Shift(Append(q, e), k) = Shift(q, k)
  <2>1. \A i \in 1..(k - 1) : Append(q, e)[i] = q[i]
    BY <1>1
  <2> QED
    BY <2>1 DEF Shift
<1> QED
  BY <1>1, <1>2

-----------------------------------------------------------------------------
(***************************************************************************)
(* The container under the steps of the manager.                           *)
(***************************************************************************)

(* A callback allocates what it wants inserted.                            *)
LEMMA AllocationKeeps ==
  ASSUME ILInv, Idle, NEW d \in Obj, Make(d, Plain), UNCHANGED <<p_dis, dis, cm>>
  PROVE  /\ ILInv'
         /\ d \notin ToSet(p_dis) /\ d \notin ToSet(dis) /\ d \notin made
         /\ made' = made \union {d}
<1>1. Plain \in NewInstr
  <2>1. Plain = [kind |-> "other", ref |-> NULL, addr |-> 0, jmp |-> 0, ref_addr |-> 0]
    BY DEF Plain, Blank
  <2> QED
    BY <2>1 DEF NewInstr, Kinds
<1>2. /\ d \notin ToSet(p_dis) /\ d \notin ToSet(dis)
      /\ made' = made \union {d} /\ made' \subseteq Obj
      /\ obj' \in [Obj -> Instr]
      /\ \A x \in made : obj'[x] = obj[x]
      /\ \A x \in made' : obj'[x].ref \in made' \union {NULL}
  BY <1>1, MakeFacts
<1>3. ILTypeOK' /\ Allocated' /\ PendingUnique'
  BY <1>2 DEF ILInv, ILTypeOK, Allocated, PendingUnique
<1>4. NoGaps' /\ CommitProgress' /\ CommittedAddresses' /\ JumpsAgree'
  BY <1>2, <1>3, OutsideCommit
<1> QED
  BY <1>2, <1>3, <1>4 DEF ILInv, Make

(* What the parts of the invariant say of the types.                       *)
LEMMA PMTypes ==
  ASSUME PMInv
  PROVE  /\ obj \in [Obj -> Instr] /\ made \subseteq Obj
         /\ p_dis \in Seq(Ptr) /\ Len(p_dis) \in Nat
         /\ dis \in Seq(Obj) /\ Len(dis) \in Nat
         /\ pm.queue \in Seq(Edit) /\ Len(pm.queue) \in Nat
         /\ pm = [queue |-> pm.queue, sync |-> pm.sync]
         /\ pm.sync \in Int
         /\ pm.sync = 1 + Shift(pm.queue, Len(pm.queue) + 1)
         /\ run \in [phase : {"callbacks", "apply", "commit"}, callback : Nat,
                    from : Nat, next : Nat]
         /\ NULL \notin ToSet(dis)
<1>1. dis \in Seq(Obj) /\ p_dis \in Seq(Ptr)
  BY DEF PMInv, PMTypeOK, ILTypeOK
<1>2. NULL \notin ToSet(dis)
  BY <1>1, ToSetFacts, NullAssumption
<1> QED
  BY <1>1, <1>2 DEF PMInv, PMTypeOK, ILTypeOK, Managers

-----------------------------------------------------------------------------
(* A manager with nothing queued, over a container that is committed.      *)
Resting ==
  ILInv /\ Idle /\ pm = EmptyManager /\ run = NotRunning /\ p_dis = dis

(* Before the first callback of a run nothing is queued.                   *)
LEMMA NothingQueued == Resting => PMInv
<1> SUFFICES ASSUME ILInv, Idle, pm = EmptyManager, run = NotRunning, p_dis = dis
             PROVE  PMInv
  BY DEF Resting
<1>1. /\ pm.queue = << >> /\ pm.sync = 1 /\ Len(pm.queue) = 0
      /\ pm \in Managers
  BY DEF EmptyManager, Managers
<1>2. /\ run = [phase |-> "callbacks", callback |-> 1, from |-> 0, next |-> 1]
      /\ run.phase = "callbacks" /\ run.callback = 1 /\ run.next = 1
  BY DEF NotRunning
<1>3. Shift(pm.queue, 1) = 0
  BY ShiftFacts
<1>4. PMTypeOK
  BY <1>1, <1>2, <1>3 DEF PMTypeOK, ILInv
<1>5. InOrder /\ Positioned /\ Fresh
  BY <1>1 DEF InOrder, Positioned, Fresh
<1>6. Aligned
  <2>1. Len(dis) \in Nat
    BY DEF ILInv, ILTypeOK
  <2> QED
    BY <1>1, <1>2, <1>3, <2>1 DEF Aligned, Frontier
<1> QED
  BY <1>1, <1>2, <1>4, <1>5, <1>6 DEF PMInv

(* A manager starts that way.                                              *)
LEMMA PMInvInit == PMInit => PMInv
<1> SUFFICES ASSUME PMInit PROVE PMInv
  OBVIOUS
<1>1. PICK n \in 0..Len(Base) : dis = SubSeq(Base, 1, n)
  BY DEF PMInit
<1>2. /\ dis \in Seq(Obj) /\ Len(dis) = n
      /\ \A k \in 1..n : dis[k] = Base[k]
  BY <1>1, BaseAssumption, SubSeqProperties
<1>3. \A i, j \in 1..Len(dis) : dis[i] = dis[j] => i = j
  BY <1>1, <1>2, BaseAssumption DEF IsInjective
<1>4. /\ p_dis = dis /\ made = ToSet(dis) /\ pm = EmptyManager /\ run = NotRunning
      /\ cm = [stage |-> "idle", i |-> 1, resolve |-> FALSE, resolved |-> FALSE]
      /\ obj = [d \in Obj |-> IF d \in ToSet(dis) THEN Plain ELSE Blank]
  BY DEF PMInit
<1>5. ToSet(dis) \subseteq Obj
  BY <1>2, ToSetFacts
<1>6. /\ Plain \in Instr /\ Blank \in Instr
      /\ Plain.ref = NULL /\ Blank.ref = NULL
  BY DEF Plain, Blank, Instr, Kinds, Ptr
<1>7. obj \in [Obj -> Instr] /\ \A d \in Obj : obj[d].ref = NULL
  BY <1>4, <1>6
<1>8. ILTypeOK
  <2>1. p_dis \in Seq(Ptr)
    BY <1>2, <1>4 DEF Ptr
  <2>2. "idle" \in Stages /\ 1 \in Nat \ {0}
    BY DEF Stages
  <2> QED
    BY <1>2, <1>4, <1>5, <1>7, <2>1, <2>2 DEF ILTypeOK
<1>9. Allocated /\ PendingUnique
  BY <1>3, <1>4, <1>5, <1>7 DEF Allocated, PendingUnique
<1>10. NoGaps /\ ~Resolvable
  BY <1>4 DEF NoGaps, Resolvable
<1>11. CommitProgress
  <2>1. Numbered = 0 /\ Retargeted = 0
    BY <1>4 DEF Numbered, Retargeted
  <2> QED
    BY <1>2, <1>4, <2>1 DEF CommitProgress
<1>12. ILInv
  BY <1>8, <1>9, <1>10, <1>11 DEF ILInv, CommittedAddresses, JumpsAgree
<1>13. Idle
  BY <1>4 DEF Idle
<1> QED
  BY <1>4, <1>12, <1>13, NothingQueued DEF Resting

(***************************************************************************)
(* The callback.                                                           *)
(***************************************************************************)

(* It queues the edit e, which names no instruction before those named     *)
(* earlier, at the position that sync_idx says.                            *)
Queues(e) ==
  /\ e \in Edit
  /\ pm' = [queue |-> Append(pm.queue, e),
            sync |-> IF e.act = "add" THEN pm.sync + 1 ELSE pm.sync - 1]
  /\ run' = [run EXCEPT !.from = e.at + 1]
  /\ e.at < Len(dis)
  /\ IF e.act = "add" THEN e.at + 1 >= run.from ELSE e.at >= run.from
  /\ e.act = "add" => e.pos = e.at + pm.sync
  /\ e.act = "remove" => e.pos = e.at + pm.sync - 1
  /\ e.act = "remove_ptr" => e.d = dis[e.at + 1]
  /\ e.act = "add" => e.d \in made' \ (made \union ToSet(dis))

(* Queueing one edit of an instruction not yet passed keeps the invariant. *)
LEMMA QueueKeeps ==
  ASSUME PMInv, run.phase = "callbacks", ILInv', Idle',
         p_dis' = p_dis, dis' = dis, made \subseteq made',
         NEW e, Queues(e)
  PROVE  PMInv'
<1> DEFINE q == pm.queue
           n == Len(pm.queue)
           qq == Append(pm.queue, e)
<1>1. /\ q \in Seq(Edit) /\ n \in Nat /\ Len(dis) \in Nat
      /\ pm.sync \in Int /\ pm.sync = 1 + Shift(q, n + 1)
      /\ run \in [phase : {"callbacks", "apply", "commit"}, callback : Nat,
                 from : Nat, next : Nat]
      /\ e \in Edit
  BY PMTypes DEF Queues
<1>2. /\ qq \in Seq(Edit) /\ Len(qq) = n + 1 /\ qq[n + 1] = e
      /\ \A k \in 1..n : qq[k] = q[k]
      /\ \A k \in 1..(n + 1) : Shift(qq, k) = Shift(q, k)
  BY <1>1, QueuedFacts
<1>3. pm'.queue = qq /\ pm'.sync = IF e.act = "add" THEN pm.sync + 1 ELSE pm.sync - 1
  BY DEF Queues
<1>a. e.at \in Nat /\ e.pos \in Int
  <2> HIDE DEF q, n
  <2> QED
    BY <1>1 DEF Edit
<1>b. \A k \in 1..n : q[k].at \in Nat
  <2>1. \A k \in 1..n : q[k] \in Edit
    BY <1>1, ElementOfSeq
  <2> HIDE DEF q, n
  <2> QED
    BY <2>1 DEF Edit
<1>4. /\ run'.phase = "callbacks" /\ run'.callback = 1 /\ run'.next = 1
      /\ run'.from = e.at + 1 /\ run.next = 1
      /\ run' \in [phase : {"callbacks", "apply", "commit"}, callback : Nat,
                  from : Nat, next : Nat]
      /\ p_dis = dis /\ \A k \in 1..n : q[k].at < run.from
  <2>1. /\ run.callback = 1 /\ run.next = 1 /\ p_dis = dis
        /\ \A k \in 1..n : q[k].at < run.from
    BY DEF PMInv
  <2>2. run' = [run EXCEPT !.from = e.at + 1]
    BY DEF Queues
  <2> HIDE DEF q, n, qq
  <2>3. e.at + 1 \in Nat
    BY <1>a
  <2>4. /\ run'.phase = "callbacks" /\ run'.callback = 1 /\ run'.next = 1
        /\ run'.from = e.at + 1
        /\ run' \in [phase : {"callbacks", "apply", "commit"}, callback : Nat,
                    from : Nat, next : Nat]
    BY <1>1, <2>1, <2>2, <2>3
  <2> QED
    BY <2>1, <2>4
<1>c. run.from \in Nat
  BY <1>1
<1> HIDE DEF q, n, qq
<1>5. PMTypeOK'
  <2>a. n + 1 \in Nat \ {0}
    BY <1>1
  <2>1. /\ Shift(qq, n + 1) \in Int
        /\ Shift(qq, (n + 1) + 1) = Shift(qq, n + 1) + (IF e.act = "add" THEN 1 ELSE -1)
    BY <1>2, <2>a, ShiftFacts
  <2>b. Shift(qq, n + 1) = Shift(q, n + 1)
    BY <1>2, <2>a
  <2>2. pm'.sync = 1 + Shift(qq, Len(qq) + 1) /\ pm'.sync \in Int
    <3>1. /\ pm.sync = 1 + Shift(qq, n + 1) /\ pm.sync \in Int
          /\ Len(qq) = n + 1
      BY <1>1, <1>2, <2>b
    <3>2. pm'.sync = IF e.act = "add" THEN pm.sync + 1 ELSE pm.sync - 1
      BY <1>3
    <3> QED
      BY <2>1, <3>1, <3>2
  <2>3. pm' \in Managers
    BY <1>2, <1>3, <2>2 DEF Managers, qq, Queues
  <2> QED
    BY <1>3, <1>4, <2>2, <2>3 DEF PMTypeOK, ILInv
<1>6. InOrder'
  <2>1. ASSUME NEW k \in 1..(n + 1), NEW l \in 1..(n + 1), k < l
        PROVE  IF qq[l].act = "add" THEN qq[k].at <= qq[l].at ELSE qq[k].at < qq[l].at
    <3>1. k \in 1..n /\ qq[k] = q[k]
      BY <1>1, <1>2, <2>1
    <3>2. CASE l = n + 1
      <4>1. qq[l] = e /\ q[k].at < run.from /\ q[k].at \in Nat
        BY <1>2, <1>4, <1>b, <3>1, <3>2
      <4>2. IF e.act = "add" THEN e.at + 1 >= run.from ELSE e.at >= run.from
        BY DEF Queues
      <4> QED
        BY <1>a, <1>c, <3>1, <4>1, <4>2
    <3>3. CASE l # n + 1
      <4>1. l \in 1..n /\ qq[l] = q[l]
        BY <1>1, <1>2, <3>3
      <4>2. IF q[l].act = "add" THEN q[k].at <= q[l].at ELSE q[k].at < q[l].at
        BY <1>4, <2>1, <3>1, <4>1 DEF PMInv, InOrder, q, n
      <4> QED
        BY <3>1, <4>1, <4>2
    <3> QED
      BY <3>2, <3>3
  <2> QED
    BY <1>2, <1>3, <2>1 DEF InOrder
<1>7. Positioned'
  <2> DEFINE At(k) ==
        /\ qq[k].at < Len(dis)
        /\ qq[k].act = "add" => qq[k].pos = qq[k].at + 1 + Shift(qq, k)
        /\ qq[k].act = "remove" => qq[k].pos = qq[k].at + Shift(qq, k)
        /\ qq[k].act = "remove_ptr" => qq[k].d = dis[qq[k].at + 1]
  <2>1. At(n + 1)
    <3>1. n + 1 \in Nat \ {0} /\ n + 1 \in 1..(n + 1)
      BY <1>1
    <3>2. Shift(q, n + 1) \in Int
      BY <3>1, ShiftFacts
    <3>3. Shift(qq, n + 1) = pm.sync - 1 /\ qq[n + 1] = e
      BY <1>1, <1>2, <3>1, <3>2
    <3>4. /\ e.at < Len(dis)
          /\ e.act = "add" => e.pos = e.at + pm.sync
          /\ e.act = "remove" => e.pos = e.at + pm.sync - 1
          /\ e.act = "remove_ptr" => e.d = dis[e.at + 1]
      BY DEF Queues
    <3>5. e.act = "add" => e.pos = e.at + 1 + Shift(qq, n + 1)
      <4> SUFFICES ASSUME e.act = "add" PROVE e.pos = e.at + 1 + Shift(qq, n + 1)
        OBVIOUS
      <4> HIDE DEF qq
      <4>1. e.pos = e.at + pm.sync /\ Shift(qq, n + 1) = pm.sync - 1
        BY <3>3, <3>4
      <4>2. pm.sync \in Int /\ e.at \in Nat
        BY <1>1, <1>a DEF Edit
      <4> QED
        BY <4>1, <4>2
    <3>6. e.act = "remove" => e.pos = e.at + Shift(qq, n + 1)
      <4> SUFFICES ASSUME e.act = "remove" PROVE e.pos = e.at + Shift(qq, n + 1)
        OBVIOUS
      <4> HIDE DEF qq
      <4>1. e.pos = e.at + pm.sync - 1 /\ Shift(qq, n + 1) = pm.sync - 1
        BY <3>3, <3>4
      <4>2. pm.sync \in Int /\ e.at \in Nat
        BY <1>1, <1>a DEF Edit
      <4> QED
        BY <4>1, <4>2
    <3> HIDE DEF qq
    <3> QED
      BY <3>3, <3>4, <3>5, <3>6
  <2>2. ASSUME NEW k \in 1..n PROVE At(k)
    <3>1. qq[k] = q[k] /\ Shift(qq, k) = Shift(q, k)
      BY <1>1, <1>2
    <3>2. Positioned
      BY DEF PMInv
    <3> QED
      BY <3>1, <3>2 DEF Positioned, q, n
  <2>3. \A k \in 1..Len(qq) : k = n + 1 \/ k \in 1..n
    BY <1>1, <1>2
  <2>4. \A k \in 1..Len(qq) : At(k)
    BY <2>1, <2>2, <2>3
  <2> QED
    BY <1>3, <2>4 DEF Positioned
<1>8. Fresh'
  <2>1. \A l \in 1..n : qq[l] = q[l]
    BY <1>2
  <2>2. \A l \in 1..n : qq[l].act = "add" => qq[l].d \in made \ ToSet(dis)
    BY <2>1 DEF PMInv, Fresh, q, n
  <2>3. \A k, l \in 1..n : /\ qq[k].act = "add" /\ qq[l].act = "add"
                            /\ qq[l].d = qq[k].d => l = k
    BY <2>1 DEF PMInv, Fresh, q, n
  <2>4. qq[n + 1].act = "add" => qq[n + 1].d \in made' \ (made \union ToSet(dis))
    BY <1>2 DEF Queues
  <2>5. \A k \in 1..Len(qq) : k = n + 1 \/ k \in 1..n
    BY <1>1, <1>2
  <2>6. \A k \in 1..Len(qq) : qq[k].act = "add" =>
          /\ qq[k].d \in made' \ ToSet(dis)
          /\ \A l \in 1..Len(qq) : qq[l].act = "add" /\ qq[l].d = qq[k].d => l = k
    BY <2>2, <2>3, <2>4, <2>5
  <2> QED
    BY <1>3, <1>4, <2>6 DEF Fresh
<1>9. Aligned'
  <2>1. Shift(qq, 1) = 0
    BY ShiftFacts
  <2>2. /\ run'.next = 1 /\ pm'.queue = qq /\ Len(qq) = n + 1 /\ p_dis' = dis
        /\ dis' = dis
    BY <1>2, <1>3, <1>4
  <2>3. Frontier' = 0
    BY <2>2 DEF Frontier
  <2>4. 1 \in 1..(Len(qq) + 1)
    BY <1>1, <2>2
  <2>5. \A j \in 0..(Len(dis) - 1) : j + 0 < Len(dis) /\ dis[j + 0 + 1] = dis[j + 1]
    BY <1>1
  <2> QED
    BY <2>1, <2>2, <2>3, <2>4, <2>5 DEF Aligned
<1>10. \A k \in 1..Len(pm'.queue) : pm'.queue[k].at < run'.from
  <2>1. ASSUME NEW k \in 1..(n + 1) PROVE qq[k].at < e.at + 1
    <3>1. CASE k = n + 1
      BY <1>2, <1>a, <3>1
    <3>2. CASE k # n + 1
      <4>1. k \in 1..n /\ qq[k] = q[k] /\ q[k].at < run.from /\ q[k].at \in Nat
        BY <1>1, <1>2, <1>4, <1>b, <3>2
      <4>2. IF e.act = "add" THEN e.at + 1 >= run.from ELSE e.at >= run.from
        BY DEF Queues
      <4> QED
        BY <1>a, <1>c, <4>1, <4>2
    <3> QED
      BY <3>1, <3>2
  <2> QED
    BY <1>2, <1>3, <1>4, <2>1
<1> QED
  BY <1>4, <1>5, <1>6, <1>7, <1>8, <1>9, <1>10 DEF PMInv

(* append queues with the position that sync_idx shifts.                   *)
LEMMA CallbackAddKeeps ==
  ASSUME PMInv, NEW idx \in 0..(Len(dis) - 1), NEW d \in Obj, CallbackAdd(idx, d)
  PROVE  PMInv'
<1> DEFINE e == [act |-> "add", pos |-> idx + pm.sync, at |-> idx, d |-> d]
<1>1. /\ run.phase = "callbacks" /\ idx + 1 >= run.from /\ Make(d, Plain)
      /\ pm' = QueueAdd(pm, idx, d) /\ run' = [run EXCEPT !.from = idx + 1]
      /\ UNCHANGED <<p_dis, dis, cm>>
  BY DEF CallbackAdd
<1>2. Idle /\ ILInv
  BY <1>1 DEF PMInv
<1>3. /\ ILInv' /\ d \notin ToSet(dis) /\ d \notin made
      /\ made' = made \union {d}
  BY <1>1, <1>2, AllocationKeeps
<1>4. idx \in Nat /\ idx < Len(dis) /\ pm.sync \in Int
  BY PMTypes
<1>5. Queues(e)
  <2>1. e \in Edit
    BY <1>4 DEF Edit, Ptr
  <2>2. pm' = [queue |-> Append(pm.queue, e), sync |-> pm.sync + 1]
    BY <1>1 DEF QueueAdd
  <2> QED
    BY <1>1, <1>3, <1>4, <2>1, <2>2 DEF Queues
<1>6. Idle'
  BY <1>1, <1>2 DEF Idle
<1> HIDE DEF e
<1> QED
  BY <1>1, <1>3, <1>5, <1>6, QueueKeeps

(* Both overloads of remove do the same.                                   *)
LEMMA CallbackRemoveKeeps ==
  ASSUME PMInv, NEW idx \in 0..(Len(dis) - 1), CallbackRemove(idx)
  PROVE  PMInv'
<1> DEFINE e == [act |-> "remove", pos |-> idx + pm.sync - 1, at |-> idx, d |-> NULL]
           f == [act |-> "remove_ptr", pos |-> 0, at |-> idx, d |-> dis[idx + 1]]
<1>1. /\ run.phase = "callbacks" /\ idx >= run.from
      /\ run' = [run EXCEPT !.from = idx + 1]
      /\ UNCHANGED ilVars
      /\ \/ pm' = QueueRemove(pm, idx)
         \/ pm' = QueueRemovePtr(pm, idx, dis[idx + 1])
  BY DEF CallbackRemove
<1>2. UNCHANGED <<obj, made, p_dis, dis, cm>>
  BY <1>1 DEF ilVars
<1>3. ILInv' /\ Idle'
  BY <1>1, <1>2, ILInvNext DEF PMInv, Idle
<1>4. idx \in Nat /\ idx < Len(dis) /\ pm.sync \in Int /\ dis[idx + 1] \in Obj
  BY PMTypes
<1>5. Queues(e) \/ Queues(f)
  <2>1. e \in Edit /\ f \in Edit
    BY <1>4 DEF Edit, Ptr
  <2>2. \/ pm' = [queue |-> Append(pm.queue, e), sync |-> pm.sync - 1]
        \/ pm' = [queue |-> Append(pm.queue, f), sync |-> pm.sync - 1]
    BY <1>1 DEF QueueRemove, QueueRemovePtr
  <2> QED
    BY <1>1, <1>4, <2>1, <2>2 DEF Queues
<1> HIDE DEF e, f
<1> QED
  BY <1>1, <1>2, <1>3, <1>5, QueueKeeps

(* The callback returned: with one callback, the edits are made next.      *)
LEMMA NextCallbackKeeps ==
  ASSUME PMInv, NextCallback, Callbacks = 1 PROVE PMInv'
<1>1. /\ run.phase = "callbacks" /\ UNCHANGED <<obj, made, p_dis, dis, cm, pm>>
      /\ run.callback = 1 /\ run.next = 1
      /\ run' = [run EXCEPT !.phase = "apply", !.next = 1]
  BY DEF NextCallback, PMInv, ilVars
<1>2. /\ run'.phase = "apply" /\ run'.next = 1
      /\ run' \in [phase : {"callbacks", "apply", "commit"}, callback : Nat,
                  from : Nat, next : Nat]
  BY <1>1, PMTypes
<1>3. ILInv'
  BY <1>1, ILInvNext DEF PMInv, ilVars
<1>4. PMTypeOK'
  BY <1>1, <1>2 DEF PMInv, PMTypeOK, ILTypeOK
<1>5. Idle' /\ InOrder' /\ Positioned' /\ Fresh' /\ Aligned'
  BY <1>1, <1>2 DEF PMInv, Idle, InOrder, Positioned, Fresh, Aligned, Frontier
<1> QED
  BY <1>2, <1>3, <1>4, <1>5 DEF PMInv

-----------------------------------------------------------------------------
(***************************************************************************)
(* Making the edits.                                                       *)
(***************************************************************************)

(* The edit whose turn it is, and where what it names is now.              *)
LEMMA NextEdit ==
  ASSUME PMInv, run.phase = "apply", run.next <= Len(pm.queue),
         NEW e, e = pm.queue[run.next],
         NEW s, s = Shift(pm.queue, run.next)
  PROVE  /\ run.next \in 1..Len(pm.queue) /\ e \in Edit
         /\ s \in Int /\ e.at \in 0..(Len(dis) - 1)
         /\ Frontier \in Nat /\ Frontier + s >= 0
         /\ e.act = "add" => /\ e.at + 1 >= Frontier /\ e.pos = e.at + 1 + s
                             /\ e.pos \in Nat
                             /\ e.d \in made /\ e.d \notin ToSet(p_dis)
         /\ e.act # "add" => /\ e.at >= Frontier /\ e.at + s \in Nat
                             /\ e.at + s < Len(p_dis)
                             /\ p_dis[e.at + s + 1] = dis[e.at + 1]
                             /\ dis[e.at + 1] # NULL
         /\ e.act = "remove" => e.pos = e.at + s
         /\ e.act = "remove_ptr" => e.d = dis[e.at + 1]
<1> DEFINE q == pm.queue
           k == run.next
<1>1. InOrder /\ Positioned /\ Fresh /\ Aligned
  BY DEF PMInv
<1>2. /\ q \in Seq(Edit) /\ Len(q) \in Nat /\ k \in 1..Len(q)
      /\ Len(dis) \in Nat /\ dis \in Seq(Obj) /\ Len(p_dis) \in Nat
  BY <1>1, PMTypes DEF Aligned
<1>3. \A i \in 1..Len(q) : q[i] \in Edit
  BY <1>2, ElementOfSeq
<1> HIDE DEF q, k
<1>4. \A i \in 1..Len(q) : q[i].at \in Nat
  BY <1>3 DEF Edit
<1>5. s \in Int
  <2>1. k \in Nat \ {0}
    BY <1>2
  <2> QED
    BY <2>1, ShiftFacts DEF q, k
<1>6. /\ e = q[k]
      /\ e.at < Len(dis)
      /\ e.act = "add" => e.pos = e.at + 1 + s
      /\ e.act = "remove" => e.pos = e.at + s
      /\ e.act = "remove_ptr" => e.d = dis[e.at + 1]
  BY <1>1, <1>2 DEF Positioned, q, k
<1>7. /\ Frontier = IF k = 1 THEN 0 ELSE q[k - 1].at + 1
      /\ Frontier + s >= 0
      /\ \A j \in Frontier..(Len(dis) - 1) : /\ j + s < Len(p_dis)
                                             /\ p_dis[j + s + 1] = dis[j + 1]
  BY <1>1 DEF Aligned, Frontier, q, k
<1>8. Frontier \in Nat
  BY <1>2, <1>4, <1>7
<1>9. IF e.act = "add" THEN e.at + 1 >= Frontier ELSE e.at >= Frontier
  <2>1. CASE k = 1
    BY <1>2, <1>4, <1>6, <1>7, <2>1
  <2>2. CASE k # 1
    <3>1. k - 1 \in 1..Len(q) /\ k - 1 < k
      BY <1>2, <2>2
    <3>2. IF q[k].act = "add" THEN q[k - 1].at <= q[k].at ELSE q[k - 1].at < q[k].at
      BY <1>1, <1>2, <3>1 DEF InOrder, q
    <3>3. Frontier = q[k - 1].at + 1 /\ e = q[k]
      BY <1>6, <1>7, <2>2
    <3>4. q[k - 1].at \in Nat /\ q[k].at \in Nat
      BY <1>2, <1>4, <3>1
    <3>5. \A x, y \in Nat : /\ x <= y => y + 1 >= x + 1
                            /\ x < y => y >= x + 1
      OBVIOUS
    <3> QED
      BY <3>2, <3>3, <3>4, <3>5
  <2> QED
    BY <2>1, <2>2
<1>10. e.at \in Nat
  BY <1>2, <1>4, <1>6
<1>11. e.act = "add" => e.d \in made /\ e.d \notin ToSet(p_dis)
  <2>1. k >= k
    BY <1>2
  <2> QED
    BY <1>1, <1>2, <1>6, <2>1 DEF Fresh, q, k
<1> DEFINE a == e.at
           c == Frontier
<1>12. e.act = "add" => a + 1 >= c /\ a + 1 + s \in Nat
  <2>1. a \in Nat /\ c \in Nat /\ c + s >= 0
    BY <1>7, <1>8, <1>10
  <2>2. e.act = "add" => a + 1 >= c
    BY <1>9
  <2> HIDE DEF a, c
  <2> QED
    BY <1>5, <2>1, <2>2
<1>13. e.act # "add" => /\ a >= c /\ a + s \in Nat
                        /\ a + s < Len(p_dis) /\ p_dis[a + s + 1] = dis[a + 1]
  <2>1. a \in Nat /\ c \in Nat /\ c + s >= 0 /\ a < Len(dis)
    BY <1>6, <1>7, <1>8, <1>10
  <2>2. e.act # "add" => a >= c
    BY <1>9
  <2>3. \A j \in c..(Len(dis) - 1) : j + s < Len(p_dis) /\ p_dis[j + s + 1] = dis[j + 1]
    BY <1>7
  <2> HIDE DEF a, c
  <2>4. e.act # "add" => a \in c..(Len(dis) - 1)
    BY <1>2, <2>1, <2>2
  <2>5. e.act # "add" => a + s < Len(p_dis) /\ p_dis[a + s + 1] = dis[a + 1]
    BY <2>3, <2>4
  <2>6. s \in Int
    BY <1>5
  <2>7. a >= c => a + s \in Nat
    BY <2>1, <2>6
  <2> QED
    BY <2>2, <2>5, <2>7
<1>14. dis[e.at + 1] # NULL
  <2>1. e.at + 1 \in 1..Len(dis)
    BY <1>2, <1>6, <1>10
  <2> QED
    BY <1>2, <2>1, ElementOfSeq, NullAssumption
<1>15. run.next \in 1..Len(pm.queue) /\ e \in Edit
  BY <1>2, <1>3, <1>6 DEF q, k
<1>16. e.at \in 0..(Len(dis) - 1)
  BY <1>2, <1>6, <1>10
<1>17. Frontier \in Nat /\ Frontier + s >= 0
  BY <1>7, <1>8
<1> QED
  BY <1>5, <1>6, <1>11, <1>12, <1>13, <1>14, <1>15, <1>16, <1>17

(* An edit moves what is behind the instruction it names, which was moved  *)
(* by s, to be moved by t, and brings in nothing but what it inserts.      *)
Moved(e, s, t) ==
  /\ t = s + (IF e.act = "add" THEN 1 ELSE -1)
  /\ \A j \in (e.at + 1)..(Len(dis) - 1) :
       j + t < Len(p_dis') /\ p_dis'[j + t + 1] = p_dis[j + s + 1]
  /\ \A x \in ToSet(p_dis') :
       x \in ToSet(p_dis) \union {NULL} \/ (e.act = "add" /\ x = e.d)

(* Then the other parts of the invariant follow.                           *)
LEMMA EditKeeps ==
  ASSUME PMInv, run.phase = "apply", run.next <= Len(pm.queue),
         ILInv', run' = [run EXCEPT !.next = @ + 1],
         UNCHANGED <<made, dis, cm, pm>>,
         NEW e, e = pm.queue[run.next],
         NEW s, s = Shift(pm.queue, run.next),
         NEW t, Moved(e, s, t)
  PROVE  PMInv'
<1> DEFINE q == pm.queue
           k == run.next
<1>1. InOrder /\ Positioned /\ Fresh /\ Aligned /\ Idle
  BY DEF PMInv
<1>2. /\ k \in 1..Len(q) /\ Len(q) \in Nat /\ Len(dis) \in Nat
      /\ made \subseteq Obj
  BY PMTypes, NextEdit
<1>r. /\ run'.phase = "apply" /\ run'.next = k + 1
      /\ run' \in [phase : {"callbacks", "apply", "commit"}, callback : Nat,
                  from : Nat, next : Nat]
  <2>1. run \in [phase : {"callbacks", "apply", "commit"}, callback : Nat,
                 from : Nat, next : Nat]
    BY PMTypes
  <2> QED
    BY <2>1
<1> DEFINE a == e.at
           c == Frontier
<1>3. /\ s \in Int /\ a \in Nat /\ c \in Nat /\ c + s >= 0
      /\ e.act = "add" => a + 1 >= c
      /\ e.act # "add" => a >= c
  <2>1. e.at \in 0..(Len(dis) - 1)
    BY NextEdit
  <2>2. a \in Nat
    BY <2>1
  <2> HIDE DEF q, k
  <2> QED
    BY <2>2, NextEdit
<1>4. pm' = pm /\ dis' = dis /\ made' = made
  OBVIOUS
<1>5. PMTypeOK'
  BY <1>r, <1>4 DEF PMInv, PMTypeOK, ILInv
<1>6. Idle' /\ InOrder' /\ Positioned'
  BY <1>1, <1>4 DEF Idle, InOrder, Positioned
<1>7. Fresh'
  <2>1. ASSUME NEW l \in 1..Len(q), q[l].act = "add", l >= k + 1,
               q[l].d \in ToSet(p_dis')
        PROVE  FALSE
    <3>1. q[l].d \notin ToSet(p_dis) /\ q[l].d # NULL
      BY <1>1, <1>2, <2>1, NullAssumption DEF Fresh
    <3>2. e.act = "add" /\ q[l].d = e.d
      BY <2>1, <3>1 DEF Moved
    <3>3. k = l
      BY <1>1, <1>2, <2>1, <3>2 DEF Fresh
    <3> QED
      BY <1>2, <2>1, <3>3
  <2> QED
    BY <1>1, <1>r, <1>4, <2>1 DEF Fresh
<1>8. Aligned'
  <2>1. Shift(q, k + 1) = t
    <3>1. k \in Nat \ {0}
      BY <1>2
    <3> QED
      BY <3>1, ShiftFacts DEF Moved
  <2>2. Frontier' = a + 1
    <3>1. k \in Nat \ {0} /\ q[k] = e
      BY <1>2
    <3>2. run'.next = k + 1 /\ k + 1 # 1 /\ (k + 1) - 1 = k
      BY <1>r, <3>1
    <3>3. Frontier' = q[(k + 1) - 1].at + 1
      BY <1>4, <3>2 DEF Frontier
    <3> QED
      BY <3>1, <3>2, <3>3
  <2>3. /\ t = s + (IF e.act = "add" THEN 1 ELSE -1)
        /\ \A j \in (a + 1)..(Len(dis) - 1) :
             j + t < Len(p_dis') /\ p_dis'[j + t + 1] = p_dis[j + s + 1]
    BY DEF Moved
  <2>4. \A j \in c..(Len(dis) - 1) : p_dis[j + s + 1] = dis[j + 1]
    BY <1>1 DEF Aligned
  <2> HIDE DEF a, c
  <2>5. a + 1 + t >= 0
    BY <1>3, <2>3
  <2>6. \A j \in (a + 1)..(Len(dis) - 1) : j \in c..(Len(dis) - 1)
    <3>1. a \in Nat /\ c \in Nat /\ a + 1 >= c
      BY <1>3
    <3>2. Len(dis) \in Int
      BY <1>2
    <3> HIDE DEF q, k
    <3> QED
      BY <3>1, <3>2
  <2>7. \A j \in (a + 1)..(Len(dis) - 1) :
          j + t < Len(p_dis') /\ p_dis'[j + t + 1] = dis[j + 1]
    BY <2>3, <2>4, <2>6
  <2> QED
    BY <1>2, <1>r, <1>4, <2>1, <2>2, <2>5, <2>7 DEF Aligned
<1> QED
  BY <1>r, <1>5, <1>6, <1>7, <1>8 DEF PMInv

(* What of the original vector is behind the instruction e names.          *)
LEMMA StillBehind ==
  ASSUME PMInv, run.phase = "apply", run.next <= Len(pm.queue),
         NEW e, e = pm.queue[run.next],
         NEW s, s = Shift(pm.queue, run.next)
  PROVE  \A j \in (e.at + 1)..(Len(dis) - 1) : j + s \in Nat /\ j + s < Len(p_dis)
<1> DEFINE a == e.at
           c == Frontier
<1>1. /\ s \in Int /\ a \in Nat /\ c \in Nat /\ c + s >= 0
      /\ e.act = "add" => a + 1 >= c
      /\ e.act # "add" => a >= c
      /\ Len(dis) \in Nat
  <2>1. e.at \in 0..(Len(dis) - 1)
    BY NextEdit
  <2>2. a \in Nat
    BY <2>1
  <2>3. Len(dis) \in Nat
    BY PMTypes
  <2> QED
    BY <2>2, <2>3, NextEdit
<1>2. \A j \in c..(Len(dis) - 1) : j + s < Len(p_dis)
  BY DEF PMInv, Aligned
<1> HIDE DEF a, c
<1>3. \A j \in (a + 1)..(Len(dis) - 1) : j \in c..(Len(dis) - 1) /\ j + s \in Nat
  BY <1>1
<1>4. \A j \in (a + 1)..(Len(dis) - 1) : j + s \in Nat /\ j + s < Len(p_dis)
  BY <1>2, <1>3
<1> QED
  BY <1>4 DEF a

(* Where InsertedAt and RemoveAt move the element behind place x.          *)
LEMMA InsertionShifts ==
  ASSUME NEW p \in Seq(Ptr), NEW d \in Ptr, NEW i \in Nat,
         NEW x \in Nat, x < Len(p), x >= i
  PROVE  /\ x + 1 < Len(InsertedAt(p, d, i))
         /\ InsertedAt(p, d, i)[x + 2] = p[x + 1]
<1> DEFINE b == Padded(p, i)
           pp == InsertedAt(p, d, i)
           n == Len(p)
           m == Len(Padded(p, i))
<1>1. /\ m \in Nat /\ m >= n
      /\ \A k \in 1..m : b[k] = IF k <= n THEN p[k] ELSE NULL
      /\ Len(pp) = m + 1
  BY InsertedFacts
<1>2. \A k \in 1..(m + 1) :
        pp[k] = IF k < i + 1 THEN b[k] ELSE IF k = i + 1 THEN d ELSE b[k - 1]
  BY InsertedFacts
<1>3. n \in Nat /\ x < n
  OBVIOUS
<1> HIDE DEF b, pp, n, m
<1>4. x + 2 \in 1..(m + 1) /\ ~(x + 2 < i + 1) /\ x + 2 # i + 1 /\ (x + 2) - 1 = x + 1
  BY <1>1, <1>3
<1>5. pp[x + 2] = b[x + 1]
  BY <1>2, <1>4
<1>6. b[x + 1] = p[x + 1]
  <2>1. x + 1 \in 1..m /\ x + 1 <= n
    BY <1>1, <1>3
  <2> QED
    BY <1>1, <2>1
<1>7. x + 1 < Len(pp)
  BY <1>1, <1>3
<1> QED
  BY <1>5, <1>6, <1>7 DEF pp

(* Behind a removal everything is one place further in front.              *)
LEMMA RemovalShifts ==
  ASSUME NEW p \in Seq(Ptr), NEW i \in 1..Len(p),
         NEW x \in Nat, x < Len(p), x >= i
  PROVE  /\ x - 1 < Len(RemoveAt(p, i))
         /\ RemoveAt(p, i)[x] = p[x + 1]
<1>1. /\ Len(RemoveAt(p, i)) = Len(p) - 1
      /\ \A k \in 1..(Len(p) - 1) : RemoveAt(p, i)[k] = IF k < i THEN p[k] ELSE p[k + 1]
  BY RemoveFacts
<1>2. Len(p) \in Nat /\ i >= 1 /\ i \in Nat
  OBVIOUS
<1>3. x \in 1..(Len(p) - 1) /\ ~(x < i)
  BY <1>2
<1> QED
  BY <1>1, <1>2, <1>3

(* An insertion moves what is behind it by one, and nothing else.          *)
LEMMA InsertionMoves ==
  ASSUME PMInv, run.phase = "apply", run.next <= Len(pm.queue),
         NEW e, e = pm.queue[run.next], e.act = "add",
         NEW s, s = Shift(pm.queue, run.next),
         p_dis' = InsertedAt(p_dis, e.d, e.pos), UNCHANGED <<obj, made, dis, cm>>
  PROVE  ILInv' /\ Moved(e, s, s + 1)
<1> DEFINE a == e.at
           pos == e.pos
           p == p_dis
           pp == p_dis'
<1>a. made \subseteq Obj /\ p_dis \in Seq(Ptr) /\ Len(dis) \in Nat
  BY PMTypes
<1>b. /\ s \in Int /\ e.at \in 0..(Len(dis) - 1)
      /\ e.pos = e.at + 1 + s /\ e.pos \in Nat
      /\ e.d \in made /\ e.d \notin ToSet(p_dis)
  BY NextEdit
<1>1. /\ s \in Int /\ a \in Nat /\ pos = a + 1 + s /\ pos \in Nat
      /\ e.d \in Ptr
  BY <1>a, <1>b DEF Ptr
<1>2. \A j \in (a + 1)..(Len(dis) - 1) : j + s \in Nat /\ j + s < Len(p)
  BY StillBehind
<1>3. Idle /\ ILInv
  BY DEF PMInv
<1>4. ILInv' /\ ToSet(p_dis') \subseteq ToSet(p_dis) \union {e.d, NULL}
  BY <1>b, <1>3, InsertionKeeps
<1>5. pp = InsertedAt(p, e.d, pos) /\ p \in Seq(Ptr)
  BY <1>a
<1>6. Len(dis) \in Nat
  BY <1>a
<1> HIDE DEF a, p, pp, pos
<1>7. ASSUME NEW j \in (a + 1)..(Len(dis) - 1)
      PROVE  j + (s + 1) < Len(pp) /\ pp[j + (s + 1) + 1] = p[j + s + 1]
  <2> DEFINE x == j + s
  <2>1. x \in Nat /\ x < Len(p)
    BY <1>2
  <2>2. x >= pos /\ j + (s + 1) = x + 1 /\ j + (s + 1) + 1 = x + 2
    <3>1. j \in Int /\ j >= a + 1
      BY <1>1, <1>6
    <3>2. s \in Int /\ a \in Nat /\ pos = a + 1 + s
      BY <1>1
    <3> QED
      BY <3>1, <3>2
  <2> HIDE DEF x
  <2>3. x + 1 < Len(pp) /\ pp[x + 2] = p[x + 1]
    BY <1>1, <1>5, <2>1, <2>2, InsertionShifts
  <2> QED
    BY <2>2, <2>3 DEF x
<1>8. s + 1 = s + (IF e.act = "add" THEN 1 ELSE -1)
  BY <1>1
<1> QED
  BY <1>4, <1>7, <1>8 DEF Moved, a, p, pp

(* A removal moves what is behind it by one, and nothing else.             *)
LEMMA RemovalMoves ==
  ASSUME PMInv, run.phase = "apply", run.next <= Len(pm.queue),
         NEW e, e = pm.queue[run.next], e.act # "add",
         NEW s, s = Shift(pm.queue, run.next),
         p_dis' = RemoveAt(p_dis, e.at + s + 1), UNCHANGED <<obj, made, dis, cm>>
  PROVE  ILInv' /\ Moved(e, s, s - 1)
<1> DEFINE a == e.at
           p == p_dis
           pp == p_dis'
           i == e.at + s + 1
<1>1. /\ s \in Int /\ a \in Nat /\ a + s \in Nat /\ a + s < Len(p)
      /\ p_dis \in Seq(Ptr) /\ Len(p) \in Nat /\ Len(dis) \in Nat
  <2>1. e.at \in 0..(Len(dis) - 1)
    BY NextEdit
  <2>2. a \in Nat
    BY <2>1
  <2>3. p_dis \in Seq(Ptr) /\ Len(p_dis) \in Nat /\ Len(dis) \in Nat
    BY PMTypes
  <2>4. s \in Int /\ a + s \in Nat /\ a + s < Len(p_dis)
    <3> HIDE DEF pp, i
    <3> QED
      BY NextEdit
  <2> QED
    BY <2>2, <2>3, <2>4
<1>2. \A j \in (a + 1)..(Len(dis) - 1) : j + s \in Nat /\ j + s < Len(p)
  BY StillBehind
<1>3. Idle /\ ILInv
  BY DEF PMInv
<1>4. i \in 1..Len(p_dis) /\ i = a + s + 1
  BY <1>1
<1> HIDE DEF i
<1>5. ILInv'
  BY <1>3, <1>4, RemovalKeeps DEF i
<1>6. ToSet(p_dis') \subseteq ToSet(p_dis)
  <2>1. PendingOK(p_dis)
    BY <1>3 DEF ILInv, ILTypeOK, PendingUnique, PendingOK
  <2> QED
    BY <1>4, <2>1, RemoveKeeps DEF i
<1>7. pp = RemoveAt(p, i) /\ p \in Seq(Ptr) /\ i \in 1..Len(p)
  BY <1>1, <1>4 DEF i
<1> HIDE DEF a, p, pp
<1>8. ASSUME NEW j \in (a + 1)..(Len(dis) - 1)
      PROVE  j + (s - 1) < Len(pp) /\ pp[j + (s - 1) + 1] = p[j + s + 1]
  <2> DEFINE x == j + s
  <2>1. x \in Nat /\ x < Len(p)
    BY <1>2
  <2>2. x >= i /\ j + (s - 1) = x - 1 /\ j + (s - 1) + 1 = x
    <3>1. j \in Int /\ s \in Int /\ a \in Nat /\ j >= a + 1 /\ i = a + s + 1
      BY <1>1 DEF a, i
    <3> HIDE DEF i
    <3> QED
      BY <3>1
  <2> HIDE DEF x
  <2>3. x - 1 < Len(pp) /\ pp[x] = p[x + 1]
    BY <1>7, <2>1, <2>2, RemovalShifts
  <2> QED
    BY <2>2, <2>3 DEF x
<1>9. s - 1 = s + (IF e.act = "add" THEN 1 ELSE -1)
  BY <1>1
<1> QED
  BY <1>5, <1>6, <1>8, <1>9 DEF Moved, a, p, pp

(* What one edit does to the pending vector.                               *)
LEMMA EditMade ==
  ASSUME PMInv, Apply, NEW e, e = pm.queue[run.next],
         NEW s, s = Shift(pm.queue, run.next)
  PROVE  /\ run.phase = "apply" /\ run.next <= Len(pm.queue)
         /\ run' = [run EXCEPT !.next = @ + 1]
         /\ UNCHANGED <<obj, made, dis, cm, pm>>
         /\ e.act = "add" => p_dis' = InsertedAt(p_dis, e.d, e.pos)
         /\ e.act # "add" => p_dis' = RemoveAt(p_dis, e.at + s + 1)
<1>1. /\ run.phase = "apply" /\ run.next <= Len(pm.queue)
      /\ MakeEdit(e) /\ run' = [run EXCEPT !.next = @ + 1]
      /\ UNCHANGED <<obj, made, dis, cm, pm>>
  BY DEF Apply
<1>2. /\ e.act # "add" => /\ e.at + s \in Nat /\ e.at + s < Len(p_dis)
                          /\ p_dis[e.at + s + 1] = dis[e.at + 1]
                          /\ dis[e.at + 1] # NULL
      /\ e.act = "remove" => e.pos = e.at + s
      /\ e.act = "remove_ptr" => e.d = dis[e.at + 1]
      /\ s \in Int
  BY <1>1, NextEdit
<1>3. CASE e.act = "add"
  BY <1>1, <1>3 DEF MakeEdit, AppendDisAt
<1>4. CASE e.act = "remove"
  BY <1>1, <1>2, <1>4 DEF MakeEdit, RemoveDisAt, RemovedAt
<1>5. CASE e.act = "remove_ptr"
  <2>1. PICK i \in 1..Len(p_dis) : p_dis[i] = e.d /\ p_dis' = RemoveAt(p_dis, i)
    BY <1>1, <1>5 DEF MakeEdit, RemoveDis
  <2>2. /\ e.at + s + 1 \in 1..Len(p_dis)
        /\ p_dis[e.at + s + 1] = p_dis[i] /\ p_dis[i] # NULL
    <3>1. Len(p_dis) \in Nat
      BY PMTypes
    <3> QED
      BY <1>2, <1>5, <2>1, <3>1
  <2>3. i = e.at + s + 1
    BY <2>2 DEF PMInv, ILInv, PendingUnique
  <2> QED
    BY <1>1, <1>5, <2>1, <2>3
<1> QED
  BY <1>1, <1>3, <1>4, <1>5 DEF MakeEdit

(* Making one edit keeps what is not yet passed at its position plus       *)
(* shift.                                                                  *)
LEMMA ApplyKeeps == PMInv /\ Apply => PMInv'
<1> SUFFICES ASSUME PMInv, Apply PROVE PMInv'
  OBVIOUS
<1> DEFINE e == pm.queue[run.next]
           s == Shift(pm.queue, run.next)
<1>1. /\ run.phase = "apply" /\ run.next <= Len(pm.queue)
      /\ run' = [run EXCEPT !.next = @ + 1]
      /\ UNCHANGED <<obj, made, dis, cm, pm>>
      /\ e.act = "add" => p_dis' = InsertedAt(p_dis, e.d, e.pos)
      /\ e.act # "add" => p_dis' = RemoveAt(p_dis, e.at + s + 1)
  BY EditMade
<1> HIDE DEF e, s
<1>2. CASE e.act = "add"
  <2>1. ILInv' /\ Moved(e, s, s + 1)
    BY <1>1, <1>2, InsertionMoves DEF e, s
  <2> QED
    BY <1>1, <2>1, EditKeeps DEF e, s
<1>3. CASE e.act # "add"
  <2>1. ILInv' /\ Moved(e, s, s - 1)
    BY <1>1, <1>3, RemovalMoves DEF e, s
  <2> QED
    BY <1>1, <2>1, EditKeeps DEF e, s
<1> QED
  BY <1>2, <1>3

-----------------------------------------------------------------------------
(***************************************************************************)
(* The commit, and the end of the run.                                     *)
(***************************************************************************)

(* While it commits, the manager only waits.                               *)
LEMMA CommittingKeeps ==
  ASSUME PMInv, ILInv', pm' = pm, run'.phase = "commit",
         run' \in [phase : {"callbacks", "apply", "commit"}, callback : Nat,
                   from : Nat, next : Nat],
         Idle' => p_dis' = dis'
  PROVE  PMInv'
<1>1. PMTypeOK'
  BY DEF PMInv, PMTypeOK, ILInv
<1> QED
  BY <1>1 DEF PMInv

(* After the last edit the commit starts.                                  *)
LEMMA AppliedKeeps == PMInv /\ Applied => PMInv'
<1> SUFFICES ASSUME PMInv, Applied PROVE PMInv'
  OBVIOUS
<1>1. /\ run.phase = "apply" /\ CommitDis(TRUE)
      /\ run' = [run EXCEPT !.phase = "commit"]
      /\ UNCHANGED <<obj, made, p_dis, dis, pm>>
  BY DEF Applied
<1>2. ILInv'
  BY <1>1, ClientCommitKeeps DEF PMInv, ClientCommit
<1>3. ~Idle'
  <2>1. cm \in [stage : Stages, i : Nat \ {0}, resolve : BOOLEAN, resolved : BOOLEAN]
    BY DEF PMInv, ILInv, ILTypeOK
  <2> QED
    BY <1>1, <2>1 DEF CommitDis, Idle
<1>4. run'.phase = "commit"
      /\ run' \in [phase : {"callbacks", "apply", "commit"}, callback : Nat,
                   from : Nat, next : Nat]
  BY <1>1, PMTypes
<1> QED
  BY <1>1, <1>2, <1>3, <1>4, CommittingKeeps

(* The commit of the edits keeps what is queued.                           *)
LEMMA CommitKeeps == PMInv /\ CommitStep /\ UNCHANGED <<pm, run>> => PMInv'
<1> SUFFICES ASSUME PMInv, CommitStep, UNCHANGED <<pm, run>> PROVE PMInv'
  OBVIOUS
<1>1. ~Idle /\ (Idle' => dis' = p_dis')
  BY CommitEnds DEF PMInv, ILInv
<1>2. run.phase = "commit"
  BY <1>1, PMTypes DEF PMInv
<1>3. ILInv'
  BY CommitStepKeeps DEF PMInv
<1>4. run' \in [phase : {"callbacks", "apply", "commit"}, callback : Nat,
                from : Nat, next : Nat]
  BY PMTypes
<1> QED
  BY <1>1, <1>2, <1>3, <1>4, CommittingKeeps

(* The queue is dropped when the commit is over.                           *)
LEMMA ClearKeeps == PMInv /\ Clear => PMInv'
<1> SUFFICES ASSUME PMInv, Clear PROVE PMInv'
  OBVIOUS
<1>1. /\ run.phase = "commit" /\ Idle /\ pm' = EmptyManager /\ run' = NotRunning
      /\ UNCHANGED <<obj, made, p_dis, dis, cm>>
  BY DEF Clear, ilVars
<1>2. ILInv' /\ Idle' /\ p_dis' = dis'
  BY <1>1, ILInvNext DEF PMInv, Idle, ilVars
<1>3. Resting'
  BY <1>1, <1>2 DEF Resting
<1> QED
  BY <1>3, NothingQueued, PTL

(* Every step of a manager with one callback keeps the invariant.          *)
LEMMA PMInvNext ==
  ASSUME Callbacks = 1 PROVE PMInv /\ [PMNext]_pmVars => PMInv'
<1> SUFFICES ASSUME PMInv, [PMNext]_pmVars PROVE PMInv'
  OBVIOUS
<1>1. ASSUME NEW idx \in 0..(Len(dis) - 1), NEW d \in Obj, CallbackAdd(idx, d)
      PROVE  PMInv'
  BY <1>1, CallbackAddKeeps
<1>2. ASSUME NEW idx \in 0..(Len(dis) - 1), CallbackRemove(idx)
      PROVE  PMInv'
  BY <1>2, CallbackRemoveKeeps
<1>3. CASE NextCallback
  BY <1>3, NextCallbackKeeps
<1>4. CASE Apply \/ Applied \/ Clear
  BY <1>4, ApplyKeeps, AppliedKeeps, ClearKeeps
<1>5. CASE CommitStep /\ UNCHANGED <<pm, run>>
  BY <1>5, CommitKeeps
<1>6. CASE UNCHANGED pmVars
  <2>1. UNCHANGED <<obj, made, p_dis, dis, cm, pm, run>>
    BY <1>6 DEF pmVars, ilVars
  <2>2. ILInv'
    BY <2>1, ILInvNext DEF PMInv, ilVars
  <2>3. PMTypeOK'
    BY <2>1, <2>2 DEF PMInv, PMTypeOK, ILInv
  <2>4. Idle' = Idle
    BY <2>1 DEF Idle
  <2>5. InOrder' = InOrder
    BY <2>1 DEF InOrder
  <2>6. Positioned' = Positioned
    BY <2>1 DEF Positioned
  <2>7. Fresh' = Fresh
    BY <2>1 DEF Fresh
  <2>8. Aligned' = Aligned
    BY <2>1 DEF Aligned, Frontier
  <2> QED
    BY <2>1, <2>2, <2>3, <2>4, <2>5, <2>6, <2>7, <2>8 DEF PMInv
<1> QED
  BY <1>1, <1>2, <1>3, <1>4, <1>5, <1>6 DEF PMNext

-----------------------------------------------------------------------------
(* The inductive invariant, for runs of one callback that queues edits: the*)
(* manager of the code has exactly one such callback in every run.         *)
THEOREM PMInvariance == ASSUME Callbacks = 1 PROVE PMSpec => []PMInv
<1>1. PMInit => PMInv
  BY PMInvInit
<1>2. PMInv /\ [PMNext]_pmVars => PMInv'
  BY PMInvNext
<1> QED
  BY <1>1, <1>2, PTL DEF PMSpec

(* Types, and that sync_idx is one more than the insertions queued less the*)
(* removals.                                                               *)
THEOREM ManagerTypes == ASSUME Callbacks = 1 PROVE PMSpec => []PMTypeOK
<1>1. PMInv => PMTypeOK
  BY DEF PMInv
<1> QED
  BY <1>1, PMInvariance, PTL

(* The position queued for an edit, from sync_idx, is right when its turn  *)
(* comes.                                                                  *)
LEMMA PMInvEditsOnTarget == PMInv => EditsOnTarget
<1> SUFFICES ASSUME PMInv, run.phase = "apply", run.next <= Len(pm.queue),
                    NEW e, e = pm.queue[run.next]
             PROVE  /\ e.act = "remove" => /\ e.pos < Len(p_dis)
                                           /\ p_dis[e.pos + 1] = dis[e.at + 1]
                    /\ e.act = "add" /\ e.at + 1 < Len(dis)
                         => /\ e.pos < Len(p_dis)
                            /\ p_dis[e.pos + 1] = dis[e.at + 2]
  BY DEF EditsOnTarget
<1> DEFINE s == Shift(pm.queue, run.next)
           a == e.at
           pos == e.pos
           c == Frontier
<1>1. /\ s \in Int /\ a \in 0..(Len(dis) - 1) /\ c \in Nat
      /\ e.act = "add" => a + 1 >= c /\ pos = a + 1 + s
      /\ e.act # "add" => /\ a + s < Len(p_dis)
                          /\ p_dis[a + s + 1] = dis[a + 1]
      /\ e.act = "remove" => pos = a + s
  BY NextEdit
<1>2. \A j \in c..(Len(dis) - 1) : j + s < Len(p_dis) /\ p_dis[j + s + 1] = dis[j + 1]
  BY DEF PMInv, Aligned
<1>3. Len(dis) \in Nat
  BY PMTypes
<1> HIDE DEF s, a, pos, c
<1>4. CASE e.act = "remove"
  BY <1>1, <1>4 DEF a, pos
<1>5. CASE e.act = "add" /\ a + 1 < Len(dis)
  <2>1. a + 1 \in c..(Len(dis) - 1) /\ (a + 1) + 1 = a + 2
    BY <1>1, <1>3, <1>5
  <2>2. pos < Len(p_dis) /\ p_dis[pos + 1] = dis[a + 2]
    BY <1>1, <1>2, <1>5, <2>1
  <2> QED
    BY <1>5, <2>2 DEF a, pos
<1> QED
  BY <1>4, <1>5 DEF a

(* Each edit of a run is made where its callback meant it, whatever is     *)
(* edited before it.                                                       *)
THEOREM EditsHitTheirTargets ==
  ASSUME Callbacks = 1 PROVE PMSpec => []EditsOnTarget
<1> QED
  BY PMInvEditsOnTarget, PMInvariance, PTL

-----------------------------------------------------------------------------
(***************************************************************************)
(* parser_manager with one callback that queues edits implements EditSpec, *)
(* on containers of any length: whatever the callback queues, one run makes*)
(* each edit at the instruction it names, and nothing else.                *)
(***************************************************************************)

(* What can be asked of n positions.                                       *)
Slotted(n) == [1..n -> [keep : BOOLEAN, after : Seq(Obj)]]

Nothing(n) == [i \in 1..n |-> Kept]

(* An edit that names one of n instructions, and what it inserts.          *)
Names(e, n) == e \in Edit /\ e.at < n /\ (e.act = "add" => e.d \in Obj)

NamesAll(q, n) == q \in Seq(Edit) /\ \A k \in 1..Len(q) : Names(q[k], n)

-----------------------------------------------------------------------------
(***************************************************************************)
(* What a queue asks for.                                                  *)
(***************************************************************************)

(* Asking for nothing keeps every instruction.                             *)
LEMMA NothingFacts ==
  ASSUME NEW n \in Nat
  PROVE  /\ Nothing(n) \in Slotted(n)
         /\ \A i \in 1..n : Nothing(n)[i] = Kept
         /\ Kept.keep = TRUE /\ Kept.after = << >>
<1>1. Kept \in [keep : BOOLEAN, after : Seq(Obj)]
  BY DEF Kept
<1> QED
  BY <1>1 DEF Nothing, Slotted, Kept

(* An edit asks for a change at the position it names and nowhere else.    *)
LEMMA AskedFacts ==
  ASSUME NEW n \in Nat, NEW g \in Slotted(n), NEW e, Names(e, n)
  PROVE  /\ e.at + 1 \in 1..n
         /\ Asked(g, e) \in Slotted(n)
         /\ \A i \in 1..n : i # e.at + 1 => Asked(g, e)[i] = g[i]
         /\ e.act = "add" =>
              Asked(g, e)[e.at + 1] = [keep |-> g[e.at + 1].keep,
                                       after |-> Append(g[e.at + 1].after, e.d)]
         /\ e.act # "add" =>
              Asked(g, e)[e.at + 1] = [keep |-> FALSE, after |-> g[e.at + 1].after]
<1> DEFINE R == [keep : BOOLEAN, after : Seq(Obj)]
           a == e.at + 1
<1>1. a \in 1..n
  <2>1. e.at \in Nat /\ e.at < n
    BY DEF Names, Edit
  <2> QED
    BY <2>1
<1>2. g \in [1..n -> R] /\ g[a] \in R
  BY <1>1 DEF Slotted
<1>3. e.act = "add" => /\ Append(g[a].after, e.d) \in Seq(Obj)
                       /\ Asked(g, e) = [g EXCEPT ![a].after = Append(@, e.d)]
  BY <1>2, AppendProperties DEF Names, Asked
<1>4. e.act # "add" => Asked(g, e) = [g EXCEPT ![a].keep = FALSE]
  BY DEF Asked
<1> HIDE DEF a
<1>5. CASE e.act = "add"
  <2>1. Asked(g, e) = [g EXCEPT ![a].after = Append(@, e.d)]
    BY <1>3, <1>5
  <2>2. Asked(g, e)[a] = [keep |-> g[a].keep, after |-> Append(g[a].after, e.d)]
    BY <1>1, <1>2, <2>1
  <2>3. \A i \in 1..n : i # a => Asked(g, e)[i] = g[i]
    BY <1>2, <2>1
  <2>4. Asked(g, e) \in [1..n -> R]
    BY <1>2, <1>3, <1>5, <2>1
  <2> QED
    BY <1>1, <1>5, <2>2, <2>3, <2>4 DEF a, Slotted
<1>6. CASE e.act # "add"
  <2>1. Asked(g, e) = [g EXCEPT ![a].keep = FALSE]
    BY <1>4, <1>6
  <2>2. Asked(g, e)[a] = [keep |-> FALSE, after |-> g[a].after]
    BY <1>1, <1>2, <2>1
  <2>3. \A i \in 1..n : i # a => Asked(g, e)[i] = g[i]
    BY <1>2, <2>1
  <2>4. Asked(g, e) \in [1..n -> R]
    BY <1>2, <2>1
  <2> QED
    BY <1>1, <1>6, <2>2, <2>3, <2>4 DEF a, Slotted
<1> QED
  BY <1>5, <1>6

(* Replayed, unfolded.                                                     *)
LEMMA ReplayFacts ==
  ASSUME NEW n \in Nat, NEW q, NamesAll(q, n)
  PROVE  /\ \A k \in 0..Len(q) : Replayed(q, n)[k] \in Slotted(n)
         /\ Replayed(q, n)[0] = Nothing(n)
         /\ \A k \in 1..Len(q) :
              Replayed(q, n)[k] = Asked(Replayed(q, n)[k - 1], q[k])
<1> DEFINE m == Len(q)
           V == Slotted(n)
           step == [k \in 1..m |-> [g \in V |-> Asked(g, q[k])]]
           Solves(f) == f = [k \in 0..m |-> IF k = 0 THEN Nothing(n)
                                            ELSE Asked(f[k - 1], q[k])]
<1>1. m \in Nat /\ Nothing(n) \in V
  <2>1. Nothing(n) \in V
    BY NothingFacts
  <2>2. q \in Seq(Edit)
    BY DEF NamesAll
  <2> QED
    BY <2>1, <2>2
<1>2. \A k \in 1..m : \A g \in V : Asked(g, q[k]) \in V
  BY AskedFacts DEF NamesAll
<1>3. Replayed(q, n) = CHOOSE f : Solves(f)
  BY DEF Replayed, Nothing
<1> HIDE DEF m, V
<1>4. PICK f \in [0..m -> V] :
        f[0] = Nothing(n) /\ \A k \in 1..m : f[k] = Asked(f[k - 1], q[k])
  <2>1. step \in [1..m -> [V -> V]]
    BY <1>2
  <2>2. \A k \in 1..m : \A g \in V : step[k][g] = Asked(g, q[k])
    OBVIOUS
  <2> DEFINE c == Nothing(n)
  <2>a. IsStep(step, m, V) /\ c \in V
    BY <1>1, <2>1 DEF IsStep
  <2> HIDE DEF step, c, Solves
  <2>b. PICK f : Follows(f, c, m, step, V)
    BY <1>1, <2>a, RecursionFollows
  <2>3. /\ f \in [0..m -> V] /\ f[0] = c
        /\ \A k \in 1..m : f[k] = step[k][f[k - 1]]
    BY <2>b DEF Follows
  <2>4. ASSUME NEW k \in 1..m PROVE f[k] = Asked(f[k - 1], q[k])
    <3>1. f[k - 1] \in V
      BY <1>1, <2>3
    <3> QED
      BY <2>2, <2>3, <3>1
  <2> QED
    BY <2>3, <2>4 DEF c
<1>5. Solves(f)
  <2>1. \A k \in 0..m : f[k] = IF k = 0 THEN Nothing(n) ELSE Asked(f[k - 1], q[k])
    BY <1>1, <1>4
  <2> QED
    BY <1>4, <2>1
<1> DEFINE h == Replayed(q, n)
<1>6. Solves(h)
  BY <1>3, <1>5
<1> HIDE DEF h
<1>7. h[0] = Nothing(n) /\ \A k \in 1..m : h[k] = Asked(h[k - 1], q[k])
  BY <1>1, <1>6
<1> DEFINE P == {k \in Nat : k <= m => h[k] \in V}
<1>8. 0 \in P
  BY <1>1, <1>7
<1>9. ASSUME NEW k \in Nat, k \in P PROVE k + 1 \in P
  <2> SUFFICES ASSUME k + 1 <= m PROVE h[k + 1] \in V
    BY <1>9
  <2>1. k + 1 \in 1..m /\ (k + 1) - 1 = k /\ k <= m
    BY <1>1
  <2>2. h[k] \in V
    BY <1>9, <2>1
  <2>3. h[k + 1] = Asked(h[k], q[k + 1])
    BY <1>7, <2>1
  <2> QED
    BY <1>2, <2>1, <2>2, <2>3
<1> HIDE DEF P
<1>10. \A k \in Nat : k \in P
  BY <1>8, <1>9, Induction
<1>11. \A k \in 0..m : h[k] \in V
  BY <1>1, <1>10 DEF P
<1> QED
  BY <1>7, <1>11 DEF h, m, V

(* Queueing one more edit asks for one thing more.                         *)
LEMMA ReplayAppend ==
  ASSUME NEW n \in Nat, NEW q, NamesAll(q, n), NEW e, Names(e, n)
  PROVE  /\ NamesAll(Append(q, e), n)
         /\ Replayed(Append(q, e), n)[Len(q) + 1] = Asked(Replayed(q, n)[Len(q)], e)
<1> DEFINE m == Len(q)
           qq == Append(q, e)
           h == Replayed(q, n)
           hh == Replayed(qq, n)
<1>1. /\ m \in Nat /\ qq \in Seq(Edit) /\ Len(qq) = m + 1
      /\ qq[m + 1] = e /\ \A k \in 1..m : qq[k] = q[k]
  BY AppendProperties DEF NamesAll, Names
<1> HIDE DEF qq
<1>2. NamesAll(qq, n)
  <2>1. \A k \in 1..(m + 1) : k \in 1..m \/ k = m + 1
    BY <1>1
  <2> QED
    BY <1>1, <2>1 DEF NamesAll
<1>3. h[0] = Nothing(n) /\ \A k \in 1..m : h[k] = Asked(h[k - 1], q[k])
  BY ReplayFacts
<1>4. /\ hh[0] = Nothing(n)
      /\ \A k \in 1..(m + 1) : hh[k] = Asked(hh[k - 1], qq[k])
  BY <1>1, <1>2, ReplayFacts
<1> HIDE DEF h, hh, m
<1> DEFINE P == {k \in Nat : k <= m => hh[k] = h[k]}
<1>5. 0 \in P
  BY <1>3, <1>4
<1>6. ASSUME NEW k \in Nat, k \in P PROVE k + 1 \in P
  <2> SUFFICES ASSUME k + 1 <= m PROVE hh[k + 1] = h[k + 1]
    BY <1>6
  <2>1. k + 1 \in 1..m /\ k + 1 \in 1..(m + 1) /\ (k + 1) - 1 = k /\ k <= m
    BY <1>1
  <2>2. hh[k] = h[k]
    BY <1>6, <2>1
  <2> QED
    BY <1>1, <1>3, <1>4, <2>1, <2>2
<1> HIDE DEF P
<1>7. m \in P
  BY <1>1, <1>5, <1>6, Induction
<1>8. hh[m] = h[m]
  BY <1>1, <1>7 DEF P
<1>9. hh[m + 1] = Asked(hh[m], e)
  <2>1. m + 1 \in 1..(m + 1) /\ (m + 1) - 1 = m
    BY <1>1
  <2> QED
    BY <1>1, <1>4, <2>1
<1> QED
  BY <1>2, <1>8, <1>9 DEF h, hh, m, qq

-----------------------------------------------------------------------------
(***************************************************************************)
(* What it makes of the instructions.                                      *)
(***************************************************************************)

(* What is asked of one position, and of all.                              *)
Part(v, g, i) == (IF g[i].keep THEN <<v[i]>> ELSE << >>) \o g[i].after

Parts(v, g) == [i \in 1..Len(v) |-> Part(v, g, i)]

(* The vector that is asked for is the concatenation of its parts.         *)
LEMMA PartFacts ==
  ASSUME NEW v \in Seq(Obj), NEW g \in Slotted(Len(v))
  PROVE  /\ Parts(v, g) \in Seq(Seq(Obj)) /\ Len(Parts(v, g)) = Len(v)
         /\ \A i \in 1..Len(v) : Parts(v, g)[i] = Part(v, g, i)
         /\ \A j \in 0..Len(v) : Laid(v, g, j) = UpTo(Parts(v, g), j)
<1> DEFINE n == Len(v)
<1>1. n \in Nat /\ \A i \in 1..n : v[i] \in Obj
  OBVIOUS
<1>2. ASSUME NEW i \in 1..n PROVE Part(v, g, i) \in Seq(Obj)
  <2>1. g[i].keep \in BOOLEAN /\ g[i].after \in Seq(Obj)
    BY DEF Slotted
  <2>2. (IF g[i].keep THEN <<v[i]>> ELSE << >>) \in Seq(Obj)
    BY <1>1
  <2> QED
    BY <2>1, <2>2, ConcatProperties DEF Part
<1>3. \A i \in 1..n : Parts(v, g)[i] = Part(v, g, i)
  BY DEF Parts
<1>4. Parts(v, g) \in Seq(Seq(Obj)) /\ Len(Parts(v, g)) = n
  BY <1>1, <1>2 DEF Parts
<1>5. ASSUME NEW j \in 0..n PROVE Laid(v, g, j) = UpTo(Parts(v, g), j)
  <2>1. \A i \in 1..j : i \in 1..n
    BY <1>1
  <2>2. \A i \in 1..j : Parts(v, g)[i] = Part(v, g, i)
    BY <1>3, <2>1
  <2>3. [i \in 1..j |-> Parts(v, g)[i]] = [i \in 1..j |-> Part(v, g, i)]
    BY <2>2
  <2> QED
    BY <2>3 DEF Laid, UpTo, Part
<1> QED
  BY <1>3, <1>4, <1>5

(* Its beginnings grow with the position.                                  *)
LEMMA LaidFacts ==
  ASSUME NEW v \in Seq(Obj), NEW g \in Slotted(Len(v))
  PROVE  /\ \A j \in 0..Len(v) : Laid(v, g, j) \in Seq(Obj) /\ Len(Laid(v, g, j)) \in Nat
         /\ \A k \in 0..Len(v) : \A j \in k..Len(v) :
              Len(Laid(v, g, k)) <= Len(Laid(v, g, j))
<1> DEFINE s == Parts(v, g)
<1>1. /\ s \in Seq(Seq(Obj)) /\ Len(s) = Len(v) /\ Len(v) \in Nat
      /\ \A j \in 0..Len(v) : Laid(v, g, j) = UpTo(s, j)
  BY PartFacts
<1> HIDE DEF s
<1>2. \A j \in 0..Len(v) : UpTo(s, j) \in Seq(Obj) /\ Len(UpTo(s, j)) \in Nat
  BY <1>1, UpToFacts
<1>3. \A k \in 0..Len(v) : \A j \in k..Len(v) : Len(UpTo(s, k)) <= Len(UpTo(s, j))
  BY <1>1, UpToLonger
<1>4. \A k \in 0..Len(v) : \A j \in k..Len(v) : j \in 0..Len(v)
  BY <1>1
<1> QED
  BY <1>1, <1>2, <1>3, <1>4

(* Nothing asked, nothing changed.                                         *)
LEMMA LaidNothing ==
  ASSUME NEW v \in Seq(Obj)
  PROVE  /\ \A j \in 0..Len(v) : Len(Laid(v, Nothing(Len(v)), j)) = j
         /\ Laid(v, Nothing(Len(v)), Len(v)) = v
<1> DEFINE n == Len(v)
           g == Nothing(n)
           s == Parts(v, g)
<1>1. n \in Nat /\ \A i \in 1..n : v[i] \in Obj
  OBVIOUS
<1>2. g \in Slotted(n) /\ \A i \in 1..n : g[i].keep = TRUE /\ g[i].after = << >>
  BY <1>1, NothingFacts
<1> HIDE DEF g
<1>3. /\ s \in Seq(Seq(Obj)) /\ Len(s) = n
      /\ \A i \in 1..n : s[i] = Part(v, g, i)
      /\ \A j \in 0..n : Laid(v, g, j) = UpTo(s, j)
  BY <1>2, PartFacts
<1>4. ASSUME NEW i \in 1..n PROVE s[i] = <<v[i]>>
  <2>1. s[i] = <<v[i]>> \o << >>
    BY <1>2, <1>3 DEF Part
  <2>2. <<v[i]>> \in Seq(Obj)
    BY <1>1
  <2> QED
    BY <2>1, <2>2, ConcatEmptySeq
<1> HIDE DEF s
<1>5. (\A j \in 0..n : Len(UpTo(s, j)) = j) /\ UpTo(s, n) = v
  BY <1>3, <1>4, UpToSingles
<1>6. n \in 0..n
  BY <1>1
<1> QED
  BY <1>3, <1>5, <1>6 DEF g

(* One thing more asked: an insertion behind instruction a, ...            *)
LEMMA LaidAdd ==
  ASSUME NEW v \in Seq(Obj), NEW g \in Slotted(Len(v)), NEW e, Names(e, Len(v)),
         e.act = "add"
  PROVE  /\ \A j \in (e.at + 1)..Len(v) :
              Laid(v, Asked(g, e), j)
                = InsertAt(Laid(v, g, j), Len(Laid(v, g, e.at + 1)) + 1, e.d)
         /\ \A j \in 0..e.at : Laid(v, Asked(g, e), j) = Laid(v, g, j)
<1> DEFINE n == Len(v)
           a == e.at + 1
           gg == Asked(g, e)
           s == Parts(v, g)
           t == Parts(v, gg)
           d == e.d
<1>0. Len(v) \in Nat
  OBVIOUS
<1>1. /\ a \in 1..n /\ gg \in Slotted(n)
      /\ \A i \in 1..n : i # a => gg[i] = g[i]
      /\ gg[a] = [keep |-> g[a].keep, after |-> Append(g[a].after, d)]
  <2> HIDE DEF gg
  <2>1. /\ e.at + 1 \in 1..Len(v) /\ Asked(g, e) \in Slotted(Len(v))
        /\ \A i \in 1..Len(v) : i # e.at + 1 => Asked(g, e)[i] = g[i]
    BY <1>0, AskedFacts
  <2>2. Asked(g, e)[e.at + 1] = [keep |-> g[e.at + 1].keep,
                                 after |-> Append(g[e.at + 1].after, e.d)]
    BY <1>0, AskedFacts
  <2> QED
    BY <2>1, <2>2 DEF gg
<1>2. n \in Nat /\ d \in Obj
  BY DEF Names
<1> HIDE DEF a, gg, d
<1>3. /\ s \in Seq(Seq(Obj)) /\ Len(s) = n
      /\ \A i \in 1..n : s[i] = Part(v, g, i)
      /\ \A j \in 0..n : Laid(v, g, j) = UpTo(s, j)
  BY PartFacts
<1>4. /\ t \in Seq(Seq(Obj)) /\ Len(t) = n
      /\ \A i \in 1..n : t[i] = Part(v, gg, i)
      /\ \A j \in 0..n : Laid(v, gg, j) = UpTo(t, j)
  BY <1>1, PartFacts
<1>5. ChangedAt(s, t, a)
  <2>1. ASSUME NEW i \in 1..n, i # a PROVE t[i] = s[i]
    <3>1. gg[i] = g[i] /\ t[i] = Part(v, gg, i) /\ s[i] = Part(v, g, i)
      BY <1>1, <1>3, <1>4, <2>1
    <3> QED
      BY <3>1 DEF Part
  <2> QED
    BY <1>3, <1>4, <2>1 DEF ChangedAt
<1>6. Appended(s, t, a, d)
  <2> DEFINE u == IF g[a].keep THEN <<v[a]>> ELSE << >>
             w == g[a].after
  <2>a. s[a] = Part(v, g, a) /\ t[a] = Part(v, gg, a)
    BY <1>1, <1>3, <1>4
  <2>b. gg[a].keep = g[a].keep /\ gg[a].after = Append(w, d)
    BY <1>1
  <2>1. s[a] = u \o w /\ t[a] = u \o Append(w, d)
    BY <2>a, <2>b DEF Part
  <2>2. u \in Seq(Obj) /\ w \in Seq(Obj)
    <3>1. v[a] \in Obj
      BY <1>1
    <3> QED
      BY <1>1, <3>1 DEF Slotted
  <2> HIDE DEF u, w
  <2>3. u \o Append(w, d) = Append(u \o w, d)
    <3>1. Append(w, d) = w \o <<d>> /\ <<d>> \in Seq(Obj)
      BY <1>2, <2>2, AppendIsConcat
    <3>2. u \o w \in Seq(Obj)
      BY <2>2, ConcatProperties
    <3>3. Append(u \o w, d) = (u \o w) \o <<d>>
      BY <1>2, <3>2, AppendIsConcat
    <3> QED
      BY <2>2, <3>1, <3>3, ConcatAssociative
  <2> QED
    BY <2>1, <2>3 DEF Appended
<1> HIDE DEF s, t
<1>7. \A j \in a..n : UpTo(t, j) = InsertAt(UpTo(s, j), Len(UpTo(s, a)) + 1, d)
  BY <1>1, <1>2, <1>3, <1>4, <1>5, <1>6, UpToInsert
<1>8. a \in 0..n /\ \A j \in a..n : j \in 0..n
  BY <1>1, <1>2
<1>9. \A j \in a..n : Laid(v, gg, j) = InsertAt(Laid(v, g, j), Len(Laid(v, g, a)) + 1, d)
  BY <1>3, <1>4, <1>7, <1>8
<1>10. ASSUME NEW j \in 0..(a - 1) PROVE Laid(v, gg, j) = Laid(v, g, j)
  <2>1. j \in 0..n /\ \A i \in 1..j : i \in 1..n /\ i # a
    BY <1>1, <1>2
  <2>2. \A i \in 1..j : t[i] = s[i]
    BY <1>3, <2>1, <1>5 DEF ChangedAt
  <2>3. UpTo(t, j) = UpTo(s, j)
    BY <2>2 DEF UpTo
  <2> QED
    BY <1>3, <1>4, <2>1, <2>3
<1>11. e.at = a - 1
  BY DEF a, Names, Edit
<1> QED
  BY <1>9, <1>10, <1>11 DEF a, gg, d

(* ... and the removal of one of which nothing was asked.                  *)
LEMMA LaidRemove ==
  ASSUME NEW v \in Seq(Obj), NEW g \in Slotted(Len(v)), NEW e, Names(e, Len(v)),
         e.act # "add", g[e.at + 1] = Kept
  PROVE  \A j \in (e.at + 1)..Len(v) :
           Laid(v, Asked(g, e), j) = RemoveAt(Laid(v, g, j), Len(Laid(v, g, e.at + 1)))
<1> DEFINE n == Len(v)
           a == e.at + 1
           gg == Asked(g, e)
           s == Parts(v, g)
           t == Parts(v, gg)
<1>0. Len(v) \in Nat
  OBVIOUS
<1>1. /\ a \in 1..n /\ gg \in Slotted(n)
      /\ \A i \in 1..n : i # a => gg[i] = g[i]
      /\ gg[a] = [keep |-> FALSE, after |-> g[a].after]
  <2> HIDE DEF gg
  <2>1. /\ e.at + 1 \in 1..Len(v) /\ Asked(g, e) \in Slotted(Len(v))
        /\ \A i \in 1..Len(v) : i # e.at + 1 => Asked(g, e)[i] = g[i]
    BY <1>0, AskedFacts
  <2>2. Asked(g, e)[e.at + 1] = [keep |-> FALSE, after |-> g[e.at + 1].after]
    BY <1>0, AskedFacts
  <2> QED
    BY <2>1, <2>2 DEF gg
<1>k. g[a].keep = TRUE /\ g[a].after = << >>
  BY DEF Kept
<1>2. n \in Nat /\ v[a] \in Obj
  BY <1>1
<1> HIDE DEF a, gg
<1>3. /\ s \in Seq(Seq(Obj)) /\ Len(s) = n
      /\ \A i \in 1..n : s[i] = Part(v, g, i)
      /\ \A j \in 0..n : Laid(v, g, j) = UpTo(s, j)
  BY PartFacts
<1>4. /\ t \in Seq(Seq(Obj)) /\ Len(t) = n
      /\ \A i \in 1..n : t[i] = Part(v, gg, i)
      /\ \A j \in 0..n : Laid(v, gg, j) = UpTo(t, j)
  BY <1>1, PartFacts
<1>5. ChangedAt(s, t, a)
  <2>1. ASSUME NEW i \in 1..n, i # a PROVE t[i] = s[i]
    <3>1. gg[i] = g[i] /\ t[i] = Part(v, gg, i) /\ s[i] = Part(v, g, i)
      BY <1>1, <1>3, <1>4, <2>1
    <3> QED
      BY <3>1 DEF Part
  <2> QED
    BY <1>3, <1>4, <2>1 DEF ChangedAt
<1>6. Emptied(s, t, a, v[a])
  <2>a. s[a] = Part(v, g, a) /\ t[a] = Part(v, gg, a)
    BY <1>1, <1>3, <1>4
  <2>b. gg[a].keep = FALSE /\ gg[a].after = << >>
    BY <1>1, <1>k
  <2>1. s[a] = <<v[a]>> \o << >> /\ t[a] = << >> \o << >>
    BY <1>k, <2>a, <2>b DEF Part
  <2>2. <<v[a]>> \in Seq(Obj) /\ << >> \in Seq(Obj)
    BY <1>2
  <2> QED
    BY <2>1, <2>2, ConcatEmptySeq DEF Emptied
<1> HIDE DEF s, t
<1>7. \A j \in a..n : UpTo(t, j) = RemoveAt(UpTo(s, j), Len(UpTo(s, a)))
  BY <1>1, <1>2, <1>3, <1>4, <1>5, <1>6, UpToRemove
<1>8. a \in 0..n /\ \A j \in a..n : j \in 0..n
  BY <1>1, <1>2
<1>9. \A j \in a..n : Laid(v, gg, j) = RemoveAt(Laid(v, g, j), Len(Laid(v, g, a)))
  BY <1>3, <1>4, <1>7, <1>8
<1> QED
  BY <1>9 DEF a, gg

-----------------------------------------------------------------------------
(***************************************************************************)
(* Editing, and stripping, a vector that ends with null pointers.          *)
(***************************************************************************)

(* append_dis in front of the nulls inserts the same into both.            *)
LEMMA HoldsInsert ==
  ASSUME NEW p \in Seq(Ptr), NEW w \in Seq(Obj), Holds(p, w), NEW d \in Obj,
         NEW pos \in 0..Len(w)
  PROVE  Holds(InsertedAt(p, d, pos), InsertAt(w, pos + 1, d))
<1> DEFINE b == Padded(p, pos)
           pp == InsertedAt(p, d, pos)
           ww == InsertAt(w, pos + 1, d)
           m == Len(p)
           n == Len(w)
           l == Len(Padded(p, pos))
<1>1. /\ m \in Nat /\ n \in Nat /\ pos \in Nat /\ pos <= n /\ d \in Ptr
      /\ n <= m /\ \A i \in 1..m : p[i] = IF i <= n THEN w[i] ELSE NULL
  BY DEF Holds, Ptr
<1>2. /\ l \in Nat /\ l >= m
      /\ \A i \in 1..l : b[i] = IF i <= m THEN p[i] ELSE NULL
      /\ Len(pp) = l + 1
  BY <1>1, InsertedFacts
<1>3. \A i \in 1..(l + 1) :
        pp[i] = IF i < pos + 1 THEN b[i] ELSE IF i = pos + 1 THEN d ELSE b[i - 1]
  BY <1>1, InsertedFacts
<1>4. /\ Len(ww) = n + 1
      /\ \A i \in 1..(n + 1) :
           ww[i] = IF i < pos + 1 THEN w[i] ELSE IF i = pos + 1 THEN d ELSE w[i - 1]
  <2>1. pos + 1 \in 1..(Len(w) + 1)
    BY <1>1
  <2> QED
    BY <2>1, InsertFacts
<1> HIDE DEF b, pp, ww, m, n, l
<1>5. \A i \in 1..l : b[i] = IF i <= n THEN w[i] ELSE NULL
  <2> SUFFICES ASSUME NEW i \in 1..l PROVE b[i] = IF i <= n THEN w[i] ELSE NULL
    OBVIOUS
  <2>1. CASE i <= m
    <3>1. i \in 1..m
      BY <1>2, <2>1
    <3> QED
      BY <1>1, <1>2, <2>1, <3>1
  <2>2. CASE ~(i <= m)
    BY <1>1, <1>2, <2>2
  <2> QED
    BY <2>1, <2>2
<1>6. ASSUME NEW i \in 1..(l + 1) PROVE pp[i] = IF i <= n + 1 THEN ww[i] ELSE NULL
  <2>1. CASE i < pos + 1
    <3>1. i \in 1..l /\ i <= n /\ i \in 1..(n + 1)
      BY <1>1, <1>2, <2>1
    <3> QED
      BY <1>1, <1>3, <1>4, <1>5, <2>1, <3>1
  <2>2. CASE i = pos + 1
    <3>1. i \in 1..(n + 1)
      BY <1>1, <2>2
    <3> QED
      BY <1>1, <1>3, <1>4, <2>2, <3>1
  <2>3. CASE i > pos + 1
    <3>1. i - 1 \in 1..l /\ pp[i] = b[i - 1]
      BY <1>1, <1>2, <1>3, <2>3
    <3>2. pp[i] = IF i - 1 <= n THEN w[i - 1] ELSE NULL
      BY <1>5, <3>1
    <3>3. i - 1 <= n <=> i <= n + 1
      BY <1>1, <1>2
    <3>4. i <= n + 1 => ww[i] = w[i - 1]
      BY <1>1, <1>4, <2>3
    <3> QED
      BY <3>2, <3>3, <3>4
  <2> QED
    BY <1>1, <1>2, <2>1, <2>2, <2>3
<1>7. n + 1 <= l + 1
  BY <1>1, <1>2
<1> QED
  BY <1>2, <1>4, <1>6, <1>7 DEF Holds, pp, ww

(* A removal in front of the nulls removes the same from both.             *)
LEMMA HoldsRemove ==
  ASSUME NEW p \in Seq(Ptr), NEW w \in Seq(Obj), Holds(p, w), NEW k \in 1..Len(w)
  PROVE  Holds(RemoveAt(p, k), RemoveAt(w, k))
<1> DEFINE pp == RemoveAt(p, k)
           ww == RemoveAt(w, k)
           m == Len(p)
           n == Len(w)
<1>1. /\ m \in Nat /\ n \in Nat /\ k \in 1..n /\ n <= m
      /\ \A i \in 1..m : p[i] = IF i <= n THEN w[i] ELSE NULL
  BY DEF Holds
<1>2. k \in 1..Len(p)
  <2> HIDE DEF m, n
  <2>1. k \in 1..m
    BY <1>1
  <2> QED
    BY <2>1 DEF m
<1>3. Len(pp) = m - 1 /\ \A i \in 1..(m - 1) : pp[i] = IF i < k THEN p[i] ELSE p[i + 1]
  BY <1>2, RemoveFacts
<1>4. Len(ww) = n - 1 /\ \A i \in 1..(n - 1) : ww[i] = IF i < k THEN w[i] ELSE w[i + 1]
  BY RemoveFacts
<1> HIDE DEF pp, ww, m, n
<1>5. ASSUME NEW i \in 1..(m - 1) PROVE pp[i] = IF i <= n - 1 THEN ww[i] ELSE NULL
  <2>1. CASE i < k
    <3>1. i \in 1..m /\ i \in 1..(n - 1)
      BY <1>1, <2>1
    <3> QED
      BY <1>1, <1>3, <1>4, <2>1, <3>1
  <2>2. CASE ~(i < k)
    <3>1. i + 1 \in 1..m /\ pp[i] = p[i + 1]
      BY <1>1, <1>3, <2>2
    <3>2. pp[i] = IF i + 1 <= n THEN w[i + 1] ELSE NULL
      BY <1>1, <3>1
    <3>3. i + 1 <= n <=> i <= n - 1
      BY <1>1
    <3>4. i <= n - 1 => ww[i] = w[i + 1]
      BY <1>1, <1>4, <2>2
    <3> QED
      BY <3>2, <3>3, <3>4
  <2> QED
    BY <2>1, <2>2
<1>6. n - 1 <= m - 1
  BY <1>1
<1> QED
  BY <1>3, <1>4, <1>5, <1>6 DEF Holds, pp, ww

(* Erasing a null leaves what is held.                                     *)
LEMMA HoldsStrip ==
  ASSUME NEW p \in Seq(Ptr), NEW w \in Seq(Obj), Holds(p, w),
         NEW k \in 1..Len(p), p[k] = NULL
  PROVE  Holds(RemoveAt(p, k), w)
<1> DEFINE pp == RemoveAt(p, k)
           m == Len(p)
           n == Len(w)
<1>1. /\ m \in Nat /\ n \in Nat /\ k \in 1..m /\ n <= m
      /\ \A i \in 1..m : p[i] = IF i <= n THEN w[i] ELSE NULL
  BY DEF Holds
<1>2. Len(pp) = m - 1 /\ \A i \in 1..(m - 1) : pp[i] = IF i < k THEN p[i] ELSE p[i + 1]
  BY RemoveFacts
<1>3. k > n
  <2>1. CASE k \in 1..n
    <3>1. w[k] = NULL
      BY <1>1, <2>1
    <3>2. w[k] \in Obj
      BY <2>1
    <3> QED
      BY <3>1, <3>2, NullAssumption
  <2> HIDE DEF m, n
  <2> QED
    BY <1>1, <2>1
<1> HIDE DEF pp, m, n
<1>4. ASSUME NEW i \in 1..(m - 1) PROVE pp[i] = IF i <= n THEN w[i] ELSE NULL
  <2>1. CASE i < k
    <3>1. i \in 1..m
      BY <1>1
    <3> QED
      BY <1>1, <1>2, <2>1, <3>1
  <2>2. CASE ~(i < k)
    <3>1. i + 1 \in 1..m /\ pp[i] = p[i + 1] /\ ~(i + 1 <= n) /\ ~(i <= n)
      BY <1>1, <1>2, <1>3, <2>2
    <3> QED
      BY <1>1, <3>1
  <2> QED
    BY <2>1, <2>2
<1>5. n <= m - 1
  BY <1>1, <1>3
<1> QED
  BY <1>2, <1>4, <1>5 DEF Holds, pp, n

(* Stripped, it is what it held.                                           *)
LEMMA HoldsAll ==
  ASSUME NEW p \in Seq(Ptr), NEW w \in Seq(Obj), Holds(p, w), NULL \notin ToSet(p)
  PROVE  p = w
<1>1. Len(p) \in Nat /\ Len(w) \in Nat /\ Len(w) <= Len(p)
  BY DEF Holds
<1>2. ~(Len(w) < Len(p))
  <2> SUFFICES ASSUME Len(w) < Len(p) PROVE FALSE
    OBVIOUS
  <2>1. Len(p) \in 1..Len(p) /\ ~(Len(p) <= Len(w))
    BY <1>1
  <2>2. p[Len(p)] = NULL
    BY <2>1 DEF Holds
  <2> QED
    BY <2>1, <2>2, ToSetFacts
<1>3. Len(p) = Len(w)
  BY <1>1, <1>2
<1>4. \A i \in 1..Len(p) : p[i] = w[i]
  BY <1>1, <1>3 DEF Holds
<1>5. w \in Seq(Ptr)
  BY DEF Ptr
<1> QED
  BY <1>3, <1>4, <1>5, SeqEqual

-----------------------------------------------------------------------------
(***************************************************************************)
(* The invariant: the pending vector is what the edits made ask for.       *)
(***************************************************************************)

(* Until the commit of its edits the queue is one a callback can make.     *)
Editing == run.phase # "commit"

(* What callbacks queue names committed and new instructions.              *)
LEMMA QueueMeans == PMInv /\ Editing => Meaningful
<1> SUFFICES ASSUME PMInv, Editing PROVE Meaningful
  OBVIOUS
<1>1. Positioned /\ Fresh /\ made \subseteq Obj
  BY PMTypes DEF PMInv, Editing
<1> QED
  BY <1>1 DEF Positioned, Fresh, Meaningful

(* Each edit names a position of the committed vector.                     *)
LEMMA EditNames ==
  ASSUME PMInv, Meaningful
  PROVE  NamesAll(pm.queue, Len(dis)) /\ Len(dis) \in Nat /\ Len(pm.queue) \in Nat
<1>1. /\ pm.queue \in Seq(Edit) /\ Len(dis) \in Nat /\ Len(pm.queue) \in Nat
  BY PMTypes
<1>2. \A k \in 1..Len(pm.queue) : pm.queue[k] \in Edit
  BY <1>1, ElementOfSeq
<1> QED
  BY <1>1, <1>2 DEF Meaningful, NamesAll, Names

(* The edits begin: none is made yet.                                      *)
LEMMA BeginReplays ==
  ASSUME EditInv, NextCallback, Callbacks = 1 PROVE Replays'
<1> DEFINE n == Len(dis)
           q == pm.queue
           h == Replayed(q, n)
<1>1. /\ run.phase = "callbacks" /\ UNCHANGED <<obj, made, p_dis, dis, cm, pm>>
      /\ p_dis = dis /\ run' = [run EXCEPT !.phase = "apply", !.next = 1]
  BY DEF NextCallback, EditInv, PMInv, ilVars
<1>2. run'.next = 1
  BY <1>1, PMTypes DEF EditInv
<1>3. NamesAll(q, n) /\ n \in Nat /\ dis \in Seq(Obj)
  BY <1>1, EditNames, PMTypes DEF EditInv
<1>4. h[0] = Nothing(n)
  BY <1>3, ReplayFacts
<1>5. \A i \in 1..n : Nothing(n)[i] = Kept
  BY <1>3, NothingFacts
<1>6. (\A j \in 0..n : Len(Laid(dis, Nothing(n), j)) = j) /\ Laid(dis, Nothing(n), n) = dis
  BY <1>3, LaidNothing
<1>7. Shift(q, 1) = 0
  BY ShiftFacts
<1>8. Frontier' = 0
  BY <1>2 DEF Frontier
<1>9. Holds(dis, dis)
  <2>1. Len(dis) <= Len(dis) /\ \A i \in 1..Len(dis) : i <= Len(dis)
    BY <1>3
  <2> QED
    BY <2>1 DEF Holds
<1>10. \A j \in 0..n : j = j + Shift(q, 1)
  BY <1>7
<1>11. /\ Replayed(pm.queue, Len(dis))'[run'.next - 1] = Nothing(n)
       /\ Shift(pm.queue, run.next)' = Shift(q, 1)
       /\ dis' = dis /\ p_dis' = dis
  BY <1>1, <1>2, <1>4
<1> HIDE DEF h, q, n
<1>12. \A j \in 0..n : Len(Laid(dis, Nothing(n), j)) = j + Shift(q, 1)
  BY <1>6, <1>10
<1>13. \A i \in (0 + 1)..n : Nothing(n)[i] = Kept
  BY <1>5
<1> QED
  BY <1>6, <1>8, <1>9, <1>11, <1>12, <1>13 DEF Replays, n, q

(* One edit is made.                                                       *)
LEMMA ApplyReplays ==
  ASSUME EditInv, Apply PROVE Replays'
<1> DEFINE n == Len(dis)
           q == pm.queue
           k == run.next
           e == pm.queue[run.next]
           s == Shift(pm.queue, run.next)
           h == Replayed(pm.queue, Len(dis))
           g == h[k - 1]
           gg == h[k]
           a == e.at
           c == Frontier
           w == Laid(dis, g, n)
           ww == Laid(dis, gg, n)
<1>0. PMInv
  BY DEF EditInv
<1>1. /\ run.phase = "apply" /\ run.next <= Len(pm.queue)
      /\ run' = [run EXCEPT !.next = @ + 1]
      /\ UNCHANGED <<obj, made, dis, cm, pm>>
      /\ e.act = "add" => p_dis' = InsertedAt(p_dis, e.d, e.pos)
      /\ e.act # "add" => p_dis' = RemoveAt(p_dis, e.at + s + 1)
  BY <1>0, EditMade
<1>2. /\ k \in 1..Len(q) /\ e \in Edit /\ s \in Int /\ a \in 0..(n - 1) /\ c \in Nat
      /\ e.act = "add" => a + 1 >= c /\ e.pos = a + 1 + s /\ e.pos \in Nat
      /\ e.act # "add" => a >= c
  BY <1>0, <1>1, NextEdit
<1>3. NamesAll(q, n) /\ n \in Nat /\ dis \in Seq(Obj) /\ p_dis \in Seq(Ptr) /\ Len(q) \in Nat
  BY <1>0, <1>1, EditNames, PMTypes DEF EditInv
<1>4. k \in Nat /\ k \in 0..Len(q) /\ k - 1 \in 0..Len(q)
  <2> HIDE DEF k, q
  <2> QED
    BY <1>2, <1>3
<1>5. g \in Slotted(n) /\ gg \in Slotted(n) /\ gg = Asked(g, e) /\ Names(e, n)
  <2>1. gg = Asked(g, q[k])
    BY <1>2, <1>3, ReplayFacts
  <2>2. g \in Slotted(n) /\ gg \in Slotted(n)
    BY <1>3, <1>4, ReplayFacts
  <2>3. Names(q[k], n)
    BY <1>2, <1>3 DEF NamesAll
  <2> QED
    BY <2>1, <2>2, <2>3
<1>6. /\ \A i \in (c + 1)..n : g[i] = Kept
      /\ \A i \in c..n : Len(Laid(dis, g, i)) = i + s
      /\ Holds(p_dis, w)
  BY <1>1 DEF EditInv, Replays
<1>7. /\ a + 1 \in 1..n
      /\ \A i \in 1..n : i # a + 1 => gg[i] = g[i]
  <2>1. /\ a + 1 \in 1..n
        /\ \A i \in 1..n : i # a + 1 => Asked(g, e)[i] = g[i]
    <3> HIDE DEF n, g, e, gg, h, w, ww, q, k, s, c
    <3>1. n \in Nat /\ g \in Slotted(n) /\ Names(e, n)
      BY <1>3, <1>5
    <3>2. /\ e.at + 1 \in 1..n
          /\ \A i \in 1..n : i # e.at + 1 => Asked(g, e)[i] = g[i]
      BY <3>1, AskedFacts
    <3> QED
      BY <3>2
  <2> QED
    BY <1>5, <2>1
<1>8. /\ \A j \in 0..n : Laid(dis, g, j) \in Seq(Obj) /\ Len(Laid(dis, g, j)) \in Nat
      /\ \A i \in 0..n : \A j \in i..n : Len(Laid(dis, g, i)) <= Len(Laid(dis, g, j))
  BY <1>3, <1>5, LaidFacts
<1>r. run'.next = k + 1
  <2>1. run \in [phase : {"callbacks", "apply", "commit"}, callback : Nat,
                 from : Nat, next : Nat]
    BY <1>0, PMTypes
  <2> QED
    BY <1>1, <2>1
<1>f. Frontier' = a + 1
  <2>1. pm' = pm
    BY <1>1
  <2>2. k + 1 # 1 /\ (k + 1) - 1 = k
    BY <1>2
  <2>3. Frontier' = q[(k + 1) - 1].at + 1
    BY <1>r, <2>1, <2>2 DEF Frontier
  <2> QED
    BY <2>2, <2>3
<1>s. Shift(q, k + 1) = s + (IF e.act = "add" THEN 1 ELSE -1)
  <2>1. k \in Nat \ {0}
    <3> HIDE DEF k, q
    <3> QED
      BY <1>2, <1>3
  <2> QED
    BY <2>1, ShiftFacts
<1> HIDE DEF n, q, k, e, s, h, g, gg, a, c
<1>9. Len(Laid(dis, g, a + 1)) = a + 1 + s
  <2>1. a + 1 \in c..n
    BY <1>2, <1>3, <1>7
  <2> QED
    BY <1>6, <2>1
<1>10. \A i \in (a + 1 + 1)..n : gg[i] = Kept
  <2> SUFFICES ASSUME NEW i \in (a + 1 + 1)..n PROVE gg[i] = Kept
    OBVIOUS
  <2>1. i \in (c + 1)..n /\ i \in 1..n /\ i # a + 1
    BY <1>2, <1>3
  <2> QED
    BY <1>6, <1>7, <2>1
<1>11. \A j \in (a + 1)..n :
         /\ j \in 0..n /\ j \in c..n /\ a + 1 \in 0..n
         /\ Laid(dis, g, j) \in Seq(Obj)
         /\ Len(Laid(dis, g, j)) = j + s
         /\ Len(Laid(dis, g, a + 1)) <= Len(Laid(dis, g, j))
  <2>1. a + 1 \in 0..n /\ \A j \in (a + 1)..n : j \in 0..n /\ j \in c..n
    BY <1>2, <1>3, <1>7
  <2> QED
    BY <1>6, <1>8, <2>1
<1>12. n \in (a + 1)..n /\ w \in Seq(Obj) /\ Len(w) \in Nat /\ a + 1 + s <= Len(w)
  <2>1. n \in (a + 1)..n /\ n \in 0..n
    BY <1>3, <1>7
  <2> QED
    BY <1>8, <1>9, <1>11, <2>1
<1>13. CASE e.act = "add"
  <2> DEFINE d == e.d
             pos == e.pos
  <2>1. /\ pos = a + 1 + s /\ pos \in Nat
        /\ Len(Laid(dis, g, a + 1)) = pos /\ pos \in 0..Len(w)
    BY <1>2, <1>9, <1>12, <1>13
  <2>2. d \in Obj
    BY <1>5, <1>13 DEF Names
  <2>3. \A j \in (a + 1)..n :
          Laid(dis, gg, j) = InsertAt(Laid(dis, g, j), Len(Laid(dis, g, a + 1)) + 1, d)
    BY <1>3, <1>5, <1>13, LaidAdd DEF n, a
  <2>4. p_dis' = InsertedAt(p_dis, d, pos)
    BY <1>1, <1>13 DEF e
  <2> HIDE DEF w, ww, d, pos
  <2>5. Holds(p_dis', ww)
    <3>1. Holds(InsertedAt(p_dis, d, pos), InsertAt(w, pos + 1, d))
      BY <1>3, <1>6, <1>12, <2>1, <2>2, HoldsInsert
    <3>2. ww = InsertAt(w, pos + 1, d)
      BY <1>12, <2>1, <2>3 DEF w, ww
    <3> QED
      BY <2>4, <3>1, <3>2
  <2>6. ASSUME NEW j \in (a + 1)..n PROVE Len(Laid(dis, gg, j)) = j + (s + 1)
    <3> DEFINE u == Laid(dis, g, j)
    <3>1. u \in Seq(Obj) /\ Len(u) = j + s /\ pos <= Len(u)
      BY <1>11, <2>1
    <3>2. Laid(dis, gg, j) = InsertAt(u, pos + 1, d)
      BY <2>1, <2>3
    <3> HIDE DEF u
    <3>3. pos + 1 \in 1..(Len(u) + 1)
      <4>1. Len(u) \in Nat
        BY <3>1
      <4> QED
        BY <2>1, <3>1, <4>1
    <3>4. Len(InsertAt(u, pos + 1, d)) = Len(u) + 1
      BY <2>2, <3>1, <3>3, InsertFacts
    <3>5. j \in Int
      BY <1>7
    <3> QED
      BY <1>2, <3>1, <3>2, <3>4, <3>5
  <2>7. Shift(q, k + 1) = s + 1
    BY <1>13, <1>s
  <2> QED
    BY <1>1, <1>10, <1>r, <1>f, <1>4, <2>5, <2>6, <2>7
    DEF Replays, ww, gg, h, n, q
<1>14. CASE e.act # "add"
  <2> DEFINE l == a + s + 1
  <2>1. /\ l = Len(Laid(dis, g, a + 1)) /\ l \in 1..Len(w)
    <3>1. l = Len(Laid(dis, g, a + 1))
      BY <1>2, <1>7, <1>9
    <3>2. l \in Nat /\ l <= Len(w)
      BY <1>2, <1>7, <1>8, <1>11, <1>12, <3>1
    <3>3. l >= 1
      <4>1. c \in c..n /\ c \in 0..n /\ a + 1 \in 0..n
        BY <1>2, <1>3, <1>7, <1>14
      <4>2. c + s \in Nat
        BY <1>6, <1>8, <4>1
      <4>3. a >= c /\ a \in Int
        BY <1>2, <1>3, <1>14
      <4> QED
        BY <1>2, <4>2, <4>3
    <3> QED
      BY <1>12, <3>1, <3>2, <3>3
  <2>2. g[a + 1] = Kept
    <3>1. a + 1 \in (c + 1)..n
      BY <1>2, <1>3, <1>7, <1>14
    <3> QED
      BY <1>6, <3>1
  <2>3. \A j \in (a + 1)..n :
          Laid(dis, gg, j) = RemoveAt(Laid(dis, g, j), Len(Laid(dis, g, a + 1)))
    BY <1>3, <1>5, <1>14, <2>2, LaidRemove DEF n, a
  <2>4. p_dis' = RemoveAt(p_dis, l)
    BY <1>1, <1>14 DEF e, a
  <2> HIDE DEF w, ww, l
  <2>5. Holds(p_dis', ww)
    <3>1. Holds(RemoveAt(p_dis, l), RemoveAt(w, l))
      BY <1>3, <1>6, <1>12, <2>1, HoldsRemove
    <3>2. ww = RemoveAt(w, l)
      BY <1>12, <2>1, <2>3 DEF w, ww
    <3> QED
      BY <2>4, <3>1, <3>2
  <2>6. ASSUME NEW j \in (a + 1)..n PROVE Len(Laid(dis, gg, j)) = j + (s + (-1))
    <3> DEFINE u == Laid(dis, g, j)
    <3>1. u \in Seq(Obj) /\ Len(u) = j + s /\ l <= Len(u)
      BY <1>11, <2>1
    <3>2. Laid(dis, gg, j) = RemoveAt(u, l)
      BY <2>1, <2>3
    <3> HIDE DEF u
    <3>3. l \in 1..Len(u)
      <4>1. Len(u) \in Nat /\ Len(w) \in Nat
        BY <1>12, <3>1
      <4> QED
        BY <2>1, <3>1, <4>1
    <3>4. Len(RemoveAt(u, l)) = Len(u) - 1
      BY <3>1, <3>3, RemoveFacts
    <3>5. j \in Int
      BY <1>7
    <3> QED
      BY <1>2, <3>1, <3>2, <3>4, <3>5
  <2>7. Shift(q, k + 1) = s + (-1)
    BY <1>14, <1>s
  <2> QED
    BY <1>1, <1>10, <1>r, <1>f, <1>4, <2>5, <2>6, <2>7
    DEF Replays, ww, gg, h, n, q
<1> QED
  BY <1>13, <1>14

(* All edits are made, and the commit begins.                              *)
LEMMA AppliedHolds ==
  ASSUME EditInv, Applied
  PROVE  ~Idle' /\ Meaningful' /\ Holds(p_dis, Laid(dis, Slots, Len(dis)))'
<1>1. /\ run.phase = "apply" /\ run.next > Len(pm.queue) /\ CommitDis(TRUE)
      /\ run' = [run EXCEPT !.phase = "commit"]
      /\ UNCHANGED <<obj, made, p_dis, dis, pm>>
  BY DEF Applied
<1>2. ~Idle'
  <2>1. cm \in [stage : Stages, i : Nat \ {0}, resolve : BOOLEAN, resolved : BOOLEAN]
    BY DEF EditInv, PMInv, ILInv, ILTypeOK
  <2> QED
    BY <1>1, <2>1 DEF CommitDis, Idle
<1>3. run.next - 1 = Len(pm.queue)
  <2>1. Len(pm.queue) \in Nat /\ run.next \in 1..(Len(pm.queue) + 1)
    BY <1>1, PMTypes DEF EditInv, PMInv, Aligned
  <2> QED
    BY <1>1, <2>1
<1>4. Holds(p_dis, Laid(dis, Replayed(pm.queue, Len(dis))[Len(pm.queue)], Len(dis)))
  BY <1>1, <1>3 DEF EditInv, Replays
<1>5. Slots' = Replayed(pm.queue, Len(dis))[Len(pm.queue)]
  BY <1>1, <1>2 DEF Slots
<1>6. Meaningful'
  BY <1>1 DEF EditInv, Meaningful
<1> QED
  BY <1>1, <1>2, <1>4, <1>5, <1>6

(* Only the stripping of null pointers changes the pending vector.         *)
LEMMA CommitKeepsPending ==
  ASSUME CommitStep
  PROVE  \/ p_dis' = p_dis
         \/ \E i \in 1..Len(p_dis) : p_dis[i] = NULL /\ p_dis' = RemoveAt(p_dis, i)
<1>1. CASE StripNull
  BY <1>1 DEF StripNull
<1>2. CASE ~StripNull
  BY <1>2 DEF CommitStep, Stripped, Validate, ResolveAddress, AddressesResolved,
              ResolveJump, JumpsResolved, Publish
<1> QED
  BY <1>1, <1>2

(* What is pending while the commit runs, and what it publishes.           *)
LEMMA CommitHolds ==
  ASSUME EditInv, CommitStep, UNCHANGED <<pm, run>>
  PROVE  /\ run.phase = "commit" /\ ~Idle
         /\ Meaningful
         /\ Laid(dis, Slots, Len(dis)) \in Seq(Obj)
         /\ Holds(p_dis', Laid(dis, Slots, Len(dis)))
         /\ Idle' => dis' = Laid(dis, Slots, Len(dis))
         /\ ~Idle' => dis' = dis /\ Slots' = Slots
<1> DEFINE w == Laid(dis, Slots, Len(dis))
<1>1. ~Idle /\ (Idle' => dis' = p_dis')
  BY CommitEnds DEF EditInv, PMInv, ILInv
<1>2. run.phase = "commit"
  BY <1>1, PMTypes DEF EditInv, PMInv
<1>3. Meaningful /\ Holds(p_dis, w)
  BY <1>1, <1>2 DEF EditInv
<1>4. w \in Seq(Obj)
  <2>1. /\ NamesAll(pm.queue, Len(dis)) /\ Len(dis) \in Nat /\ Len(pm.queue) \in Nat
        /\ dis \in Seq(Obj)
    BY <1>3, EditNames, PMTypes DEF EditInv
  <2>2. Len(pm.queue) \in 0..Len(pm.queue) /\ Len(dis) \in 0..Len(dis)
    BY <2>1
  <2>3. Slots \in Slotted(Len(dis))
    BY <1>1, <2>1, <2>2, ReplayFacts DEF Slots
  <2> QED
    BY <2>1, <2>2, <2>3, LaidFacts
<1>5. p_dis \in Seq(Ptr)
  BY PMTypes DEF EditInv
<1> HIDE DEF w
<1>6. Holds(p_dis', w)
  <2>1. CASE p_dis' = p_dis
    BY <1>3, <2>1
  <2>2. CASE p_dis' # p_dis
    <3>1. PICK i \in 1..Len(p_dis) : p_dis[i] = NULL /\ p_dis' = RemoveAt(p_dis, i)
      BY <2>2, CommitKeepsPending
    <3> QED
      BY <1>3, <1>4, <1>5, <3>1, HoldsStrip
  <2> QED
    BY <2>1, <2>2
<1>7. Idle' => Publish
  <2>1. cm \in [stage : Stages, i : Nat \ {0}, resolve : BOOLEAN, resolved : BOOLEAN]
    BY DEF EditInv, PMInv, ILInv, ILTypeOK
  <2>2. StripNull \/ Stripped => cm'.stage # "idle"
    BY <2>1 DEF StripNull, Stripped
  <2>3. Validate => cm'.stage # "idle"
    BY <2>1 DEF Validate
  <2>4. ResolveAddress \/ AddressesResolved => cm'.stage # "idle"
    BY <2>1 DEF ResolveAddress, AddressesResolved
  <2>5. ResolveJump => cm'.stage # "idle"
    BY <2>1 DEF ResolveJump
  <2>6. JumpsResolved => cm'.stage # "idle"
    BY <2>1 DEF JumpsResolved
  <2> QED
    BY <2>2, <2>3, <2>4, <2>5, <2>6 DEF CommitStep, Idle
<1>8. ASSUME Idle' PROVE dis' = w
  <2>1. dis' = p_dis /\ NULL \notin ToSet(p_dis)
    BY <1>7, <1>8 DEF Publish, EditInv, PMInv, ILInv, NoGaps
  <2> QED
    BY <1>3, <1>4, <1>5, <2>1, HoldsAll
<1>9. ASSUME ~Idle' PROVE dis' = dis /\ Slots' = Slots
  <2>1. ~Publish
    <3>1. cm \in [stage : Stages, i : Nat \ {0}, resolve : BOOLEAN, resolved : BOOLEAN]
      BY DEF EditInv, PMInv, ILInv, ILTypeOK
    <3> QED
      BY <1>9, <3>1 DEF Publish, Idle
  <2>2. dis' = dis
    BY <2>1 DEF CommitStep, StripNull, Stripped, Validate, ResolveAddress,
                AddressesResolved, ResolveJump, JumpsResolved
  <2> QED
    BY <1>1, <1>9, <2>2 DEF Slots
<1> QED
  BY <1>1, <1>2, <1>3, <1>4, <1>6, <1>8, <1>9 DEF w

(* A manager starts with nothing asked for.                                *)
LEMMA EditInvInit == PMInit => EditInv
<1> SUFFICES ASSUME PMInit PROVE EditInv
  OBVIOUS
<1>1. PMInv
  BY PMInvInit
<1>2. run.phase = "callbacks"
  BY DEF PMInit, NotRunning
<1> QED
  BY <1>1, <1>2, QueueMeans DEF EditInv, Editing

(* Between the edits and the commit nothing else is claimed.               *)
LEMMA CallbackEdits ==
  ASSUME PMInv', run'.phase = "callbacks" PROVE EditInv'
<1>1. Editing'
  BY DEF Editing
<1>2. Meaningful'
  BY <1>1, QueueMeans, PTL
<1> QED
  BY <1>2 DEF EditInv

(* Every step of a manager with one callback keeps EditInv.                *)
LEMMA EditInvNext ==
  ASSUME Callbacks = 1 PROVE EditInv /\ [PMNext]_pmVars => EditInv'
<1> SUFFICES ASSUME EditInv, [PMNext]_pmVars PROVE EditInv'
  OBVIOUS
<1>0. PMInv'
  BY PMInvNext DEF EditInv
<1>r. run \in [phase : {"callbacks", "apply", "commit"}, callback : Nat,
               from : Nat, next : Nat]
  BY PMTypes DEF EditInv
<1>1. CASE (\E idx \in 0..(Len(dis) - 1), d \in Obj : CallbackAdd(idx, d))
           \/ (\E idx \in 0..(Len(dis) - 1) : CallbackRemove(idx)) \/ Clear
  <2>1. run'.phase = "callbacks"
    BY <1>1, <1>r DEF CallbackAdd, CallbackRemove, Clear, NotRunning
  <2> QED
    BY <1>0, <2>1, CallbackEdits
<1>2. CASE NextCallback
  <2>1. run'.phase = "apply"
    BY <1>2, <1>r DEF NextCallback, EditInv, PMInv
  <2>2. Editing'
    BY <2>1 DEF Editing
  <2>3. Meaningful'
    BY <1>0, <2>2, QueueMeans, PTL
  <2> QED
    BY <1>0, <1>2, <2>1, <2>3, BeginReplays DEF EditInv
<1>3. CASE Apply
  <2>1. run'.phase = "apply"
    BY <1>3, <1>r DEF Apply
  <2>2. Editing'
    BY <2>1 DEF Editing
  <2>3. Meaningful'
    BY <1>0, <2>2, QueueMeans, PTL
  <2> QED
    BY <1>0, <1>3, <2>1, <2>3, ApplyReplays DEF EditInv
<1>4. CASE Applied
  <2>1. run'.phase = "commit"
    BY <1>4, <1>r DEF Applied
  <2> QED
    BY <1>0, <1>4, <2>1, AppliedHolds DEF EditInv
<1>5. CASE CommitStep /\ UNCHANGED <<pm, run>>
  <2>1. /\ run'.phase = "commit" /\ Meaningful
        /\ Holds(p_dis', Laid(dis, Slots, Len(dis)))
        /\ ~Idle' => dis' = dis /\ Slots' = Slots
    BY <1>5, CommitHolds
  <2>2. ~Idle' => Meaningful'
    BY <1>5, <2>1 DEF Meaningful
  <2> QED
    BY <1>0, <2>1, <2>2 DEF EditInv
<1>6. CASE UNCHANGED pmVars
  <2>1. UNCHANGED <<obj, made, p_dis, dis, cm, pm, run>>
    BY <1>6 DEF pmVars, ilVars
  <2>2. /\ Meaningful' <=> Meaningful
        /\ Replays' <=> Replays
        /\ Slots' = Slots /\ (Idle' <=> Idle)
    BY <2>1 DEF Meaningful, Replays, Frontier, Slots, Idle
  <2> QED
    BY <1>0, <2>1, <2>2 DEF EditInv
<1> QED
  BY <1>1, <1>2, <1>3, <1>4, <1>5, <1>6 DEF PMNext

(* The pending vector always is what the edits made so far ask for, null   *)
(* pointers apart, and a commit publishes it.                              *)
THEOREM EditInvariance == ASSUME Callbacks = 1 PROVE PMSpec => []EditInv
<1>1. PMInit => EditInv
  BY EditInvInit
<1>2. EditInv /\ [PMNext]_pmVars => EditInv'
  BY EditInvNext
<1> QED
  BY <1>1, <1>2, PTL DEF PMSpec

-----------------------------------------------------------------------------
(***************************************************************************)
(* The promise.                                                            *)
(***************************************************************************)

PromiseStep == Promise!Next \/ UNCHANGED <<dis, Slots>>

(* Queuing an insertion is putting it after the instruction named.         *)
LEMMA AddPromised ==
  ASSUME EditInv, EditInv', NEW idx \in 0..(Len(dis) - 1), NEW d \in Obj,
         CallbackAdd(idx, d)
  PROVE  PromiseStep
<1> DEFINE n == Len(dis)
           q == pm.queue
           e == [act |-> "add", pos |-> idx + pm.sync, at |-> idx, d |-> d]
<1>1. /\ run.phase = "callbacks" /\ run'.phase = "callbacks" /\ dis' = dis
      /\ pm' = QueueAdd(pm, idx, d)
  BY PMTypes DEF CallbackAdd, EditInv
<1>2. pm'.queue = Append(q, e)
  BY <1>1 DEF QueueAdd
<1>3. /\ NamesAll(q, n) /\ n \in Nat /\ q \in Seq(Edit) /\ Len(q) \in Nat
  BY <1>1, EditNames, PMTypes DEF EditInv
<1>4. Names(e, n)
  <2>1. pm.sync \in Int /\ idx \in Nat /\ idx < n /\ idx \in Int
    BY <1>3, PMTypes DEF EditInv, Managers
  <2>2. e \in Edit
    BY <2>1 DEF Edit, Ptr
  <2> QED
    BY <2>1, <2>2 DEF Names
<1>5. Slots = Replayed(q, n)[Len(q)]
  BY <1>1 DEF Slots
<1>6. Slots' = Replayed(Append(q, e), n)[Len(q) + 1]
  <2>1. Len(Append(q, e)) = Len(q) + 1
    BY <1>3
  <2> QED
    BY <1>1, <1>2, <2>1 DEF Slots
<1>7. Slots' = Asked(Slots, e)
  <2> HIDE DEF n, q, e
  <2> QED
    BY <1>3, <1>4, <1>5, <1>6, ReplayAppend
<1>8. Slots' = [Slots EXCEPT ![idx + 1].after = Append(@, d)]
  BY <1>7 DEF Asked
<1>9. idx + 1 \in 1..Len(dis)
  BY <1>3
<1>10. Promise!PutAfter(idx + 1, d)
  BY <1>1, <1>8 DEF Promise!PutAfter
<1> QED
  BY <1>9, <1>10 DEF PromiseStep, Promise!Next

(* Queuing a removal, by index or by pointer, is dropping that instruction.*)
LEMMA RemovePromised ==
  ASSUME EditInv, EditInv', NEW idx \in 0..(Len(dis) - 1), CallbackRemove(idx)
  PROVE  PromiseStep
<1> DEFINE n == Len(dis)
           q == pm.queue
<1>1. /\ run.phase = "callbacks" /\ run'.phase = "callbacks" /\ dis' = dis
      /\ pm' = QueueRemove(pm, idx) \/ pm' = QueueRemovePtr(pm, idx, dis[idx + 1])
  BY PMTypes DEF CallbackRemove, EditInv, ilVars
<1>2. /\ NamesAll(q, n) /\ n \in Nat /\ q \in Seq(Edit) /\ Len(q) \in Nat
      /\ dis \in Seq(Obj) /\ pm.sync \in Int
  BY <1>1, EditNames, PMTypes DEF EditInv, Managers
<1>3. PICK e \in Edit : pm'.queue = Append(q, e) /\ e.at = idx /\ e.act # "add"
  <2>1. idx \in Nat /\ idx \in Int /\ idx + 1 \in 1..n
    BY <1>2
  <2>2. dis[idx + 1] \in Ptr /\ NULL \in Ptr
    BY <1>2, <2>1 DEF Ptr
  <2>3. CASE pm' = QueueRemove(pm, idx)
    <3> DEFINE e == [act |-> "remove", pos |-> idx + pm.sync - 1, at |-> idx, d |-> NULL]
    <3>1. idx + pm.sync - 1 \in Int
      BY <1>2, <2>1
    <3>2. e \in Edit
      BY <2>1, <2>2, <3>1 DEF Edit
    <3>3. pm'.queue = Append(q, e)
      BY <2>3 DEF QueueRemove
    <3>4. e.at = idx /\ e.act # "add"
      OBVIOUS
    <3> HIDE DEF e
    <3> QED
      BY <3>2, <3>3, <3>4
  <2>4. CASE pm' = QueueRemovePtr(pm, idx, dis[idx + 1])
    <3> DEFINE e == [act |-> "remove_ptr", pos |-> 0, at |-> idx, d |-> dis[idx + 1]]
    <3>1. e \in Edit
      BY <2>1, <2>2 DEF Edit
    <3>2. pm'.queue = Append(q, e)
      BY <2>4 DEF QueueRemovePtr
    <3>3. e.at = idx /\ e.act # "add"
      OBVIOUS
    <3> HIDE DEF e
    <3> QED
      BY <3>1, <3>2, <3>3
  <2> QED
    BY <1>1, <2>3, <2>4
<1>4. Names(e, n)
  <2>1. e.at < n
    BY <1>2, <1>3
  <2> QED
    BY <1>3, <2>1 DEF Names
<1>5. Slots = Replayed(q, n)[Len(q)]
  BY <1>1 DEF Slots
<1>6. Slots' = Replayed(Append(q, e), n)[Len(q) + 1]
  <2>1. Len(Append(q, e)) = Len(q) + 1
    BY <1>2
  <2> QED
    BY <1>1, <1>3, <2>1 DEF Slots
<1>7. Slots' = Asked(Slots, e)
  <2> HIDE DEF n, q
  <2> QED
    BY <1>2, <1>4, <1>5, <1>6, ReplayAppend
<1>8. Slots' = [Slots EXCEPT ![idx + 1].keep = FALSE]
  BY <1>3, <1>7 DEF Asked
<1>9. idx + 1 \in 1..Len(dis)
  BY <1>2
<1>10. Promise!Drop(idx + 1)
  BY <1>1, <1>8 DEF Promise!Drop
<1> QED
  BY <1>9, <1>10 DEF PromiseStep, Promise!Next

(* The step of a commit that publishes makes all edits at once.            *)
LEMMA CommitPromised ==
  ASSUME EditInv, EditInv', CommitStep, UNCHANGED <<pm, run>>
  PROVE  PromiseStep
<1>1. /\ run.phase = "commit" /\ ~Idle
      /\ Idle' => dis' = Laid(dis, Slots, Len(dis))
      /\ ~Idle' => dis' = dis /\ Slots' = Slots
  BY CommitHolds
<1>2. CASE Idle'
  <2>1. Promise!Edited = Laid(dis, Slots, Len(dis))
    BY DEF Laid, Promise!Edited, FlattenSeq, Promise!FlattenSeq
  <2>2. Slots' = Promise!Untouched(Len(dis'))
    BY <1>1, <1>2 DEF Slots, Kept, Promise!Untouched
  <2>3. Promise!Run
    BY <1>1, <1>2, <2>1, <2>2 DEF Promise!Run
  <2> QED
    BY <2>3 DEF PromiseStep, Promise!Next
<1>3. CASE ~Idle'
  BY <1>1, <1>3 DEF PromiseStep
<1> QED
  BY <1>2, <1>3

(* Nothing is asked of a vector before the first callback.                 *)
LEMMA NothingAsked ==
  ASSUME dis \in Seq(Obj)
  PROVE  Replayed(<< >>, Len(dis))[Len(<< >>)] = Promise!Untouched(Len(dis))
<1>1. Len(dis) \in Nat /\ NamesAll(<< >>, Len(dis)) /\ Len(<< >>) = 0
  BY DEF NamesAll
<1>2. Replayed(<< >>, Len(dis))[0] = Nothing(Len(dis))
  BY <1>1, ReplayFacts
<1> QED
  BY <1>1, <1>2 DEF Nothing, Kept, Promise!Untouched

(* The initial states map to initial states.                               *)
LEMMA InitPromised == PMInit => Promise!Init
<1> SUFFICES ASSUME PMInit PROVE Promise!Init
  OBVIOUS
<1>1. PMInv
  BY PMInvInit
<1>2. dis \in Seq(Obj)
  BY <1>1, PMTypes
<1>3. pm.queue = << >> /\ run.phase = "callbacks"
  BY DEF PMInit, EmptyManager, NotRunning
<1>4. Slots = Promise!Untouched(Len(dis))
  BY <1>2, <1>3, NothingAsked DEF Slots
<1> QED
  BY <1>2, <1>4 DEF Promise!Init

(* Every step does what is promised, or nothing that is promised yet.      *)
LEMMA StepPromised ==
  EditInv /\ EditInv' /\ [PMNext]_pmVars => [Promise!Next]_<<dis, Slots>>
<1> SUFFICES ASSUME EditInv, EditInv', [PMNext]_pmVars PROVE PromiseStep
  BY DEF PromiseStep
<1>r. run \in [phase : {"callbacks", "apply", "commit"}, callback : Nat,
               from : Nat, next : Nat]
  BY PMTypes DEF EditInv
<1>1. CASE \E idx \in 0..(Len(dis) - 1), d \in Obj : CallbackAdd(idx, d)
  BY <1>1, AddPromised
<1>2. CASE \E idx \in 0..(Len(dis) - 1) : CallbackRemove(idx)
  BY <1>2, RemovePromised
<1>3. CASE NextCallback \/ Apply \/ Applied
  <2>1. run.phase # "commit" /\ dis' = dis /\ pm' = pm
    BY <1>3 DEF NextCallback, Apply, Applied, ilVars
  <2>2. ~(run'.phase = "commit" /\ Idle')
    <3>1. CASE NextCallback \/ Apply
      BY <1>r, <3>1 DEF NextCallback, Apply
    <3>2. CASE Applied
      BY <3>2, AppliedHolds
    <3> QED
      BY <1>3, <3>1, <3>2
  <2> QED
    BY <2>1, <2>2 DEF PromiseStep, Slots
<1>4. CASE Clear
  <2>1. /\ run.phase = "commit" /\ Idle /\ dis' = dis /\ pm'.queue = << >>
        /\ run'.phase = "callbacks"
    BY <1>4 DEF Clear, EmptyManager, NotRunning, ilVars
  <2>2. dis' \in Seq(Obj)
    BY <2>1, PMTypes DEF EditInv
  <2>3. Replayed(<< >>, Len(dis))[Len(<< >>)] = Promise!Untouched(Len(dis))
    BY <2>1, <2>2, NothingAsked
  <2>4. Slots = Promise!Untouched(Len(dis))
    BY <2>1 DEF Slots, Kept, Promise!Untouched
  <2>5. Slots' = Replayed(<< >>, Len(dis))[Len(<< >>)]
    BY <2>1 DEF Slots
  <2> QED
    BY <2>1, <2>3, <2>4, <2>5 DEF PromiseStep
<1>5. CASE CommitStep /\ UNCHANGED <<pm, run>>
  BY <1>5, CommitPromised
<1>6. CASE UNCHANGED pmVars
  <2>1. UNCHANGED <<dis, cm, pm, run>>
    BY <1>6 DEF pmVars, ilVars
  <2> QED
    BY <2>1 DEF PromiseStep, Slots, Idle
<1> QED
  BY <1>1, <1>2, <1>3, <1>4, <1>5, <1>6 DEF PMNext

(* One run makes all edits its callback queued at once, each at the        *)
(* instruction it names in the vector as committed.                        *)
THEOREM ManagerKeepsPromise ==
  ASSUME Callbacks = 1 PROVE PMSpec => ImplementsEditSpec
<1>1. PMInit => Promise!Init
  BY InitPromised
<1>2. EditInv /\ EditInv' /\ [PMNext]_pmVars => [Promise!Next]_<<dis, Slots>>
  BY StepPromised
<1>3. PMSpec => []EditInv
  BY EditInvariance
<1> QED
  BY <1>1, <1>2, <1>3, PTL DEF PMSpec, ImplementsEditSpec, Promise!Spec
=============================================================================
