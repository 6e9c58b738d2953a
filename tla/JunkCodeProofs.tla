--------------------------- MODULE JunkCodeProofs ---------------------------
(***************************************************************************)
(* junk_code, on containers of any length: no jump is left hanging at any  *)
(* moment of the pass (TargetsSurvive), and it drops exactly the OP_NOPs   *)
(* nothing jumps to (JunkExact).  The inductive invariant is JCInv.        *)
(***************************************************************************)
EXTENDS JunkCode, ILangProofs

(* A commit rewrites addresses and jump operands, never a kind or a        *)
(* reference; and without null pointers it removes nothing.                *)
LEMMA CommitLeavesReferences ==
  ASSUME ILInv, CommitStep, NULL \notin ToSet(p_dis)
  PROVE  /\ \A x \in made : /\ obj'[x].ref = obj[x].ref
                            /\ obj'[x].kind = obj[x].kind
         /\ p_dis' = p_dis
         /\ dis' \in {dis, p_dis}
         /\ made' = made
<1>1. obj \in [Obj -> Instr] /\ made \subseteq Obj /\ p_dis \in Seq(Ptr)
  BY DEF ILInv, ILTypeOK
<1>2. CASE StripNull
  <2>1. \E i \in 1..Len(p_dis) : p_dis[i] = NULL
    BY <1>2 DEF StripNull
  <2> QED
    BY <1>1, <2>1, ToSetFacts
<1>3. CASE ResolveAddress
  <2>1. cm.i - 1 \in Int
    BY DEF ILInv, ILTypeOK
  <2>2. obj' = [obj EXCEPT ![p_dis[cm.i]].addr = cm.i - 1]
    BY <1>3 DEF ResolveAddress
  <2>3. \A x \in Obj : obj'[x].ref = obj[x].ref /\ obj'[x].kind = obj[x].kind
    BY <1>1, <2>1, <2>2 DEF Instr
  <2> QED
    BY <1>1, <1>3, <2>3 DEF ResolveAddress
<1>4. CASE ResolveJump
  <2>1. UNCHANGED <<made, p_dis, dis>>
    BY <1>4 DEF ResolveJump
  <2>2. cm.i \in 1..Len(p_dis)
    BY <1>1, <1>4 DEF ResolveJump, ILInv, ILTypeOK
  <2>3. PICK d \in made : d = p_dis[cm.i]
    BY <1>1, <2>2, ToSetFacts DEF ILInv, Allocated
  <2>4. obj' = obj \/ (obj[d].ref # NULL /\ obj' = [obj EXCEPT ![d] = Resolved(d)])
    BY <1>4, <2>3 DEF ResolveJump
  <2>5. \A x \in made : obj'[x].ref = obj[x].ref /\ obj'[x].kind = obj[x].kind
    BY <2>4, RetargetFacts
  <2> QED
    BY <2>1, <2>5
<1>5. CASE Stripped \/ Validate \/ AddressesResolved \/ JumpsResolved \/ Publish
  BY <1>5 DEF Stripped, Validate, AddressesResolved, JumpsResolved, Publish
<1> QED
  BY <1>2, <1>3, <1>4, <1>5 DEF CommitStep

(* The commit at the end writes addresses and jump operands only.          *)
LEMMA CommitKeepsSafe == JCSafe /\ CommitStep /\ UNCHANGED jc => JCSafe'
<1> SUFFICES ASSUME JCSafe, CommitStep, UNCHANGED jc PROVE JCSafe'
  OBVIOUS
<1>1. ILInv' /\ JCTypeOK'
  BY CommitStepKeeps DEF JCSafe, JCTypeOK
<1>2. /\ \A x \in made : obj'[x].ref = obj[x].ref /\ obj'[x].kind = obj[x].kind
      /\ p_dis' = p_dis
      /\ dis' \in {dis, p_dis}
  BY CommitLeavesReferences DEF JCSafe, Contained
<1>3. ToSet(dis') \subseteq ToSet(dis) /\ ToSet(dis) \subseteq made
  BY <1>2 DEF JCSafe, Contained, ILInv, Allocated
<1>4. Contained'
  BY <1>2 DEF JCSafe, Contained
<1>a. CommitsLast'
  <2>1. ~Idle
    BY DEF CommitStep, StripNull, Stripped, Validate, ResolveAddress,
           AddressesResolved, ResolveJump, JumpsResolved, Publish, Idle
  <2> QED
    BY <2>1 DEF JCSafe, CommitsLast
<1>5. Unreferenced'
  BY <1>2, <1>3 DEF JCSafe, Unreferenced
<1>6. TargetsSurvive'
  BY <1>2, <1>3 DEF JCSafe, TargetsSurvive, IsJump
<1> QED
  BY <1>1, <1>4, <1>a, <1>5, <1>6 DEF JCSafe

-----------------------------------------------------------------------------
(* A step of the pass that leaves the container alone.                     *)
LEMMA ContainerUnchanged ==
  ASSUME ILInv, UNCHANGED ilVars
  PROVE  ILInv'
  BY ILInvNext

(* The call copies the committed vector.                                   *)
LEMMA JunkCallKeeps == JCSafe /\ JunkCall => JCSafe'
<1> SUFFICES ASSUME JCSafe, JunkCall PROVE JCSafe'
  OBVIOUS
<1>1. UNCHANGED ilVars /\ jc' = [copy |-> p_dis, i |-> 1, phase |-> "loop"]
  BY DEF JunkCall
<1>2. p_dis \in Seq(Obj)
  <2>1. p_dis \in Seq(Ptr) /\ NULL \notin ToSet(p_dis)
    BY DEF JCSafe, ILInv, ILTypeOK, Contained
  <2>2. \A k \in 1..Len(p_dis) : p_dis[k] \in Obj
    BY <2>1, ToSetFacts DEF Ptr
  <2> QED
    BY <2>1, <2>2
<1>3. JCTypeOK'
  BY <1>1, <1>2 DEF JCTypeOK
<1>4. ILInv'
  BY <1>1, ContainerUnchanged DEF JCSafe
<1>5. Contained' /\ CommitsLast' /\ Unreferenced' /\ TargetsSurvive'
  BY <1>1 DEF JunkCall, JCSafe, Contained, CommitsLast, Idle, Unreferenced,
     TargetsSurvive, IsJump, ilVars
<1> QED
  BY <1>3, <1>4, <1>5 DEF JCSafe

(* What is found to be junk is nobody's reference.                         *)
LEMMA JunkIsUnreferenced ==
  ASSUME JCSafe, NEW d \in Obj, Junk(d)
  PROVE  \A x \in ToSet(dis) : obj[x].ref # d
<1>1. VisitRef(obj[d].addr) = {} /\ d # NULL
  BY NullAssumption DEF Junk
<1> QED
  BY <1>1 DEF VisitRef

(* Looking at an instruction changes the container in nothing.             *)
LEMMA JunkLookKeeps == JCSafe /\ JunkLook => JCSafe'
<1> SUFFICES ASSUME JCSafe, JunkLook PROVE JCSafe'
  OBVIOUS
<1>1. UNCHANGED ilVars /\ jc.phase = "loop" /\ jc.i <= Len(jc.copy)
  BY DEF JunkLook
<1>2. jc \in [copy : Seq(Obj), i : Nat,
             phase : {"off", "loop", "erase", "commit", "done"}]
      /\ jc.i \in 1..(Len(jc.copy) + 1) /\ Len(jc.copy) \in Nat
  BY DEF JCSafe, JCTypeOK
<1>3. ILInv' /\ Contained' /\ CommitsLast' /\ TargetsSurvive'
  BY <1>1, ContainerUnchanged DEF JCSafe, Contained, CommitsLast, Idle,
     TargetsSurvive, IsJump, ilVars
<1>4. CASE Junk(jc.copy[jc.i])
  <2>1. jc' = [jc EXCEPT !.phase = "erase"]
    BY <1>4 DEF JunkLook
  <2>2. jc.copy[jc.i] \in Obj
    BY <1>1, <1>2
  <2>3. \A x \in ToSet(dis) : obj[x].ref # jc.copy[jc.i]
    BY <1>4, <2>2, JunkIsUnreferenced
  <2>4. JCTypeOK'
    BY <1>2, <2>1 DEF JCTypeOK
  <2>5. Unreferenced'
    BY <1>1, <1>2, <2>1, <2>3 DEF Unreferenced, ilVars
  <2> QED
    BY <1>3, <2>4, <2>5 DEF JCSafe
<1>5. CASE ~Junk(jc.copy[jc.i])
  <2>1. jc' = [jc EXCEPT !.i = @ + 1]
    BY <1>5 DEF JunkLook
  <2>2. JCTypeOK'
    BY <1>1, <1>2, <2>1 DEF JCTypeOK
  <2>3. Unreferenced'
    BY <1>1, <1>2, <2>1 DEF Unreferenced
  <2> QED
    BY <1>3, <2>2, <2>3 DEF JCSafe
<1> QED
  BY <1>4, <1>5

(* What is erased is an OP_NOP no committed jump leads to.                 *)
LEMMA JunkEraseKeeps == JCSafe /\ JunkErase => JCSafe'
<1> SUFFICES ASSUME JCSafe, JunkErase PROVE JCSafe'
  OBVIOUS
<1>1. /\ jc.phase = "erase" /\ UNCHANGED <<obj, made, dis, cm, jc>>
      /\ p_dis \in Seq(Ptr)
  BY DEF JunkErase, JCSafe, ILInv, ILTypeOK
<1>2. PICK i \in 1..Len(p_dis) : /\ p_dis[i] = jc.copy[jc.i]
                                /\ p_dis' = RemoveAt(p_dis, i)
  BY DEF JunkErase, RemoveDis
<1>3. /\ PendingOK(p_dis') /\ ToSet(p_dis') \subseteq ToSet(p_dis)
      /\ \A x \in ToSet(p_dis) : x # p_dis[i] => x \in ToSet(p_dis')
  <2>1. PendingOK(p_dis)
    BY DEF JCSafe, ILInv, ILTypeOK, PendingUnique, PendingOK
  <2>2. PendingOK(p_dis') /\ ToSet(p_dis') \subseteq ToSet(p_dis)
    BY <1>2, <2>1, RemoveKeeps
  <2>3. /\ p_dis' \in Seq(Ptr) /\ Len(p_dis') = Len(p_dis) - 1
        /\ \A k \in 1..(Len(p_dis) - 1) :
             p_dis'[k] = IF k < i THEN p_dis[k] ELSE p_dis[k + 1]
    BY <1>1, <1>2, RemoveFacts
  <2>4. ASSUME NEW x \in ToSet(p_dis), x # p_dis[i] PROVE x \in ToSet(p_dis')
    <3>1. PICK k \in 1..Len(p_dis) : p_dis[k] = x
      BY <1>1, ToSetFacts
    <3>2. \E j \in 1..Len(p_dis') : p_dis'[j] = x
      <4>1. CASE k < i
        BY <2>3, <3>1, <4>1
      <4>2. CASE k > i
        <5>1. k - 1 \in 1..Len(p_dis') /\ p_dis'[k - 1] = x
          BY <1>1, <2>3, <3>1, <4>2
        <5> QED
          BY <5>1
      <4> QED
        BY <2>4, <3>1, <4>1, <4>2
    <3> QED
      BY <2>3, <3>2, ToSetFacts
  <2> QED
    BY <2>2, <2>4
<1>4. ILInv'
  <2>1. Idle
    BY <1>1 DEF JCSafe, CommitsLast
  <2> QED
    BY <1>1, <1>2, <2>1, RemovalKeeps DEF JCSafe
<1>5. JCTypeOK' /\ Contained' /\ CommitsLast' /\ Unreferenced'
  BY <1>1, <1>3 DEF JCSafe, JCTypeOK, Contained, CommitsLast, Idle, Unreferenced
<1>6. TargetsSurvive'
  <2>1. \A d \in ToSet(dis) : obj[d].ref # p_dis[i]
    BY <1>1, <1>2 DEF JCSafe, Unreferenced
  <2> QED
    BY <1>1, <1>3, <2>1 DEF JCSafe, TargetsSurvive, IsJump
<1> QED
  BY <1>4, <1>5, <1>6 DEF JCSafe

(* remove_dis returns when no occurrence is left.                          *)
LEMMA JunkErasedKeeps == JCSafe /\ JunkErased => JCSafe'
<1> SUFFICES ASSUME JCSafe, JunkErased PROVE JCSafe'
  OBVIOUS
<1>1. /\ UNCHANGED ilVars /\ jc.phase = "erase" /\ jc.i <= Len(jc.copy)
      /\ jc' = [jc EXCEPT !.phase = "loop", !.i = @ + 1]
      /\ jc \in [copy : Seq(Obj), i : Nat,
                phase : {"off", "loop", "erase", "commit", "done"}]
      /\ jc.i \in 1..(Len(jc.copy) + 1) /\ Len(jc.copy) \in Nat
  BY DEF JunkErased, JCSafe, JCTypeOK, Unreferenced
<1>2. jc' = [copy |-> jc.copy, i |-> jc.i + 1, phase |-> "loop"]
  BY <1>1
<1>3. JCTypeOK'
  BY <1>1, <1>2 DEF JCTypeOK
<1>4. ILInv' /\ Contained' /\ CommitsLast' /\ Unreferenced' /\ TargetsSurvive'
  BY <1>1, <1>2, ContainerUnchanged DEF JCSafe, Contained, CommitsLast, Idle,
     Unreferenced, TargetsSurvive, IsJump, ilVars
<1> QED
  BY <1>3, <1>4 DEF JCSafe

(* The commit starts when the copy is done with.                           *)
LEMMA JunkCommitKeeps == JCSafe /\ JunkCommit => JCSafe'
<1> SUFFICES ASSUME JCSafe, JunkCommit PROVE JCSafe'
  OBVIOUS
<1>1. /\ UNCHANGED <<obj, made, p_dis, dis>> /\ CommitDis(TRUE)
      /\ jc' = [jc EXCEPT !.phase = "commit"]
  BY DEF JunkCommit
<1>2. ILInv'
  BY <1>1, ClientCommitKeeps DEF JCSafe, ClientCommit
<1>3. jc'.phase = "commit" /\ JCTypeOK'
  BY <1>1 DEF JCSafe, JCTypeOK
<1>4. Contained' /\ CommitsLast' /\ Unreferenced' /\ TargetsSurvive'
  BY <1>1, <1>3 DEF JCSafe, Contained, CommitsLast, Unreferenced, TargetsSurvive, IsJump
<1> QED
  BY <1>2, <1>3, <1>4 DEF JCSafe

(* The call returns when the commit is over.                               *)
LEMMA JunkReturnKeeps == JCSafe /\ JunkReturn => JCSafe'
<1> SUFFICES ASSUME JCSafe, JunkReturn PROVE JCSafe'
  OBVIOUS
<1>1. UNCHANGED ilVars /\ Idle /\ jc' = [jc EXCEPT !.phase = "done"]
  BY DEF JunkReturn
<1>2. jc'.phase = "done" /\ JCTypeOK'
  BY <1>1 DEF JCSafe, JCTypeOK
<1>3. ILInv' /\ Contained' /\ CommitsLast' /\ Unreferenced' /\ TargetsSurvive'
  BY <1>1, <1>2, ContainerUnchanged DEF JCSafe, Contained, CommitsLast, Idle,
     Unreferenced, TargetsSurvive, IsJump, ilVars
<1> QED
  BY <1>2, <1>3 DEF JCSafe

(* Every step keeps that no jump is left hanging.                          *)
LEMMA JCSafeNext == JCSafe /\ [JCNext]_jcVars => JCSafe'
<1> SUFFICES ASSUME JCSafe, [JCNext]_jcVars PROVE JCSafe'
  OBVIOUS
<1>1. CASE JunkWork
  BY <1>1, JunkCallKeeps, JunkLookKeeps, JunkEraseKeeps, JunkErasedKeeps,
     JunkCommitKeeps, JunkReturnKeeps DEF JunkWork
<1>2. CASE CommitStep /\ UNCHANGED jc
  BY <1>2, CommitKeepsSafe
<1>3. CASE UNCHANGED jcVars
  BY <1>3, ContainerUnchanged DEF jcVars, ilVars, JCSafe, JCTypeOK, Contained,
     CommitsLast, Idle, Unreferenced, TargetsSurvive, IsJump
<1> QED
  BY <1>1, <1>2, <1>3 DEF JCNext

-----------------------------------------------------------------------------
(* The containers the pass starts from are what a commit leaves behind.    *)
LEMMA JCSafeInit == JCInit => JCSafe
<1> SUFFICES ASSUME JCInit PROVE JCSafe
  OBVIOUS
<1>1. PICK n \in 1..MaxLen : dis \in Injection(1..n, Obj)
  BY DEF JCInit
<1>2. PICK f \in [ToSet(dis) -> [kind : Kinds, ref : ToSet(dis)]] :
        obj = Lifted(dis, f)
  BY DEF JCInit
<1>3. /\ n \in Nat /\ dis \in Seq(Obj) /\ Len(dis) = n
      /\ \A i, j \in 1..Len(dis) : dis[i] = dis[j] => i = j
  <2>1. n \in Nat
    BY MaxLenAssumption
  <2>2. dis \in [1..n -> Obj] /\ \A i, j \in 1..n : dis[i] = dis[j] => i = j
    BY <1>1 DEF Injection, IsInjective
  <2>3. dis \in Seq(Obj)
    BY <2>1, <2>2, SeqDef
  <2>4. DOMAIN dis = 1..n /\ DOMAIN dis = 1..Len(dis) /\ Len(dis) \in Nat
    BY <2>2, <2>3, LenProperties
  <2>5. Len(dis) = n
    BY <2>1, <2>4
  <2> QED
    BY <2>1, <2>2, <2>3, <2>5
<1> DEFINE at(x) == CHOOSE k \in 1..Len(dis) : dis[k] = x
<1>4. /\ \A x : x \in ToSet(dis) <=> \E k \in 1..Len(dis) : dis[k] = x
      /\ ToSet(dis) \subseteq Obj
  BY <1>3, ToSetFacts
<1>5. \A x \in ToSet(dis) : at(x) \in 1..Len(dis) /\ dis[at(x)] = x
  BY <1>4
<1>6. \A k \in 1..Len(dis) : dis[k] \in ToSet(dis) /\ at(dis[k]) = k
  BY <1>3, <1>4, <1>5
<1>7. obj = [d \in Obj |->
               IF d \notin ToSet(dis) THEN Blank
               ELSE IF f[d].kind = "jump"
                    THEN [kind |-> "jump", ref |-> f[d].ref, addr |-> at(d) - 1,
                          jmp |-> at(f[d].ref) - at(d),
                          ref_addr |-> at(f[d].ref) - 1]
                    ELSE [kind |-> f[d].kind, ref |-> NULL, addr |-> at(d) - 1,
                          jmp |-> 0, ref_addr |-> 0]]
  BY <1>2 DEF Lifted
<1> HIDE DEF at
<1>8. \A d \in ToSet(dis) : f[d].kind \in Kinds /\ f[d].ref \in ToSet(dis)
  BY <1>2
<1>9. Blank \in Instr
  BY DEF Blank, Instr, Kinds, Ptr
<1>10. \A d \in ToSet(dis) :
         /\ obj[d] \in Instr
         /\ obj[d].addr = at(d) - 1
         /\ obj[d].ref \in ToSet(dis) \union {NULL}
         /\ IsJump(d) => /\ obj[d].ref \in ToSet(dis)
                         /\ obj[d].jmp = at(obj[d].ref) - at(d)
                         /\ obj[d].ref_addr = at(obj[d].ref) - 1
  <2> SUFFICES ASSUME NEW d \in ToSet(dis)
               PROVE  /\ obj[d] \in Instr
                      /\ obj[d].addr = at(d) - 1
                      /\ obj[d].ref \in ToSet(dis) \union {NULL}
                      /\ IsJump(d) => /\ obj[d].ref \in ToSet(dis)
                                      /\ obj[d].jmp = at(obj[d].ref) - at(d)
                                      /\ obj[d].ref_addr = at(obj[d].ref) - 1
    OBVIOUS
  <2>1. at(d) \in Int /\ at(f[d].ref) \in Int
    BY <1>5, <1>8
  <2>2. d \in Obj /\ f[d].ref \in Ptr /\ NULL \in Ptr
    BY <1>4, <1>8 DEF Ptr
  <2>3. CASE f[d].kind = "jump"
    <3>1. obj[d] = [kind |-> "jump", ref |-> f[d].ref, addr |-> at(d) - 1,
                    jmp |-> at(f[d].ref) - at(d), ref_addr |-> at(f[d].ref) - 1]
      BY <1>7, <2>2, <2>3
    <3> QED
      BY <1>8, <2>1, <2>2, <3>1 DEF Instr, Kinds, IsJump
  <2>4. CASE f[d].kind # "jump"
    <3>1. obj[d] = [kind |-> f[d].kind, ref |-> NULL, addr |-> at(d) - 1,
                    jmp |-> 0, ref_addr |-> 0]
      BY <1>7, <2>2, <2>4
    <3> QED
      BY <1>8, <2>1, <2>2, <2>4, <3>1 DEF Instr, Kinds, IsJump
  <2> QED
    BY <2>3, <2>4
<1>11. obj \in [Obj -> Instr]
  BY <1>7, <1>9, <1>10
<1>12. /\ p_dis = dis /\ made = ToSet(dis) /\ jc = JunkIdle
       /\ cm = [stage |-> "idle", i |-> 1, resolve |-> TRUE, resolved |-> TRUE]
  BY DEF JCInit
<1>13. ILTypeOK
  <2>1. p_dis \in Seq(Ptr)
    BY <1>3, <1>12 DEF Ptr
  <2>2. "idle" \in Stages /\ 1 \in Nat \ {0}
    BY DEF Stages
  <2> QED
    BY <1>3, <1>4, <1>11, <1>12, <2>1, <2>2 DEF ILTypeOK
<1>14. NULL \notin ToSet(dis)
  BY <1>4, NullAssumption
<1>15. Allocated /\ PendingUnique /\ NoGaps
  BY <1>3, <1>10, <1>12 DEF Allocated, PendingUnique, NoGaps
<1>16. CommitProgress
  <2>1. Numbered = 0 /\ Retargeted = 0
    BY <1>12 DEF Numbered, Retargeted
  <2> QED
    BY <1>3, <1>12, <2>1 DEF CommitProgress
<1>17. CommittedAddresses
  BY <1>6, <1>10 DEF CommittedAddresses
<1>18. JumpsAgree
  <2>1. ASSUME NEW d \in ToSet(dis), IsJump(d) PROVE Agrees(d)
    <3>1. at(d) \in Int /\ at(obj[d].ref) \in Int
      BY <1>5, <1>10, <2>1
    <3>2. obj[obj[d].ref].addr = at(obj[d].ref) - 1
      BY <1>10, <2>1
    <3> QED
      BY <1>10, <1>14, <2>1, <3>1, <3>2 DEF Agrees
  <2> QED
    BY <2>1 DEF JumpsAgree, Agrees
<1>19. JCTypeOK
  <2>1. JunkIdle.copy \in Seq(Obj) /\ Len(JunkIdle.copy) = 0
    BY DEF JunkIdle
  <2> QED
    BY <1>12, <2>1 DEF JCTypeOK, JunkIdle
<1>20. Contained /\ CommitsLast /\ Unreferenced /\ TargetsSurvive
  BY <1>10, <1>12, <1>14 DEF Contained, CommitsLast, Idle, Unreferenced,
     TargetsSurvive, JunkIdle
<1> QED
  BY <1>13, <1>15, <1>16, <1>17, <1>18, <1>19, <1>20 DEF JCSafe, ILInv

-----------------------------------------------------------------------------
(***************************************************************************)
(* What is kept, exactly: CommittedBefore, Sifted and Published.           *)
(***************************************************************************)

(* Two vectors list the same of T if a third lists the same as both.       *)
LEMMA SameListingTransitive ==
  ASSUME NEW s, NEW t, NEW u, NEW S, NEW T \in SUBSET S,
         SameListing(s, t, T), SameListing(t, u, S)
  PROVE  SameListing(s, u, T)
  BY DEF SameListing

(* While the pass runs the committed vector has no instruction twice.      *)
LEMMA CommittedUnique ==
  ASSUME JCSafe, CommittedBefore, jc.phase \in {"off", "loop", "erase"}
  PROVE  /\ dis \in Seq(Obj)
         /\ \A k, l \in 1..Len(dis) : dis[k] = dis[l] => k = l
         /\ Resolvable
<1>1. Idle /\ cm.resolved
  BY DEF JCSafe, CommitsLast, CommittedBefore
<1>2. Resolvable
  BY <1>1 DEF Resolvable, Settled, Idle
<1>3. dis \in Seq(Obj) /\ \A k \in 1..Len(dis) : obj[dis[k]].addr = k - 1
  BY <1>2 DEF JCSafe, ILInv, ILTypeOK, CommittedAddresses
<1>4. ASSUME NEW k \in 1..Len(dis), NEW l \in 1..Len(dis), dis[k] = dis[l]
      PROVE  k = l
  <2>1. k - 1 = l - 1
    BY <1>3, <1>4
  <2> QED
    BY <2>1
<1> QED
  BY <1>2, <1>3, <1>4

(* What is found to be junk is what need not be kept.                      *)
LEMMA JunkIsNotNeeded ==
  ASSUME JCSafe, CommittedBefore, jc.phase = "loop", NEW d \in ToSet(jc.copy)
  PROVE  Junk(d) <=> ~Needed(d)
<1>1. dis = jc.copy /\ Resolvable /\ dis \in Seq(Obj)
  BY CommittedUnique DEF CommittedBefore
<1>2. d # NULL
  BY <1>1, ToSetFacts, NullAssumption
<1>3. \A j \in ToSet(dis) : obj[j].ref # NULL => IsJump(j) /\ obj[j].ref \in ToSet(dis)
  BY DEF CommittedBefore
<1>4. VisitRef(obj[d].addr) = {j \in ToSet(dis) : obj[j].ref = d}
  BY <1>1, <1>3, LookupFollows DEF LookupByAddress, JCSafe
<1> QED
  BY <1>1, <1>2, <1>3, <1>4 DEF Junk, Needed

(* Steps that leave the container alone.                                   *)
LEMMA JunkCallSifts ==
  ASSUME JCInv, JunkCall PROVE CommittedBefore' /\ Sifted' /\ Published'
<1>1. /\ UNCHANGED ilVars /\ jc.phase = "off"
      /\ jc' = [copy |-> p_dis, i |-> 1, phase |-> "loop"]
  BY DEF JunkCall
<1>2. UNCHANGED <<obj, made, p_dis, dis, cm>>
  BY <1>1 DEF ilVars
<1>3. CommittedBefore'
  BY <1>1, <1>2 DEF JCInv, CommittedBefore, IsJump
<1>4. Sifted'
  <2>1. /\ p_dis \in Seq(Ptr) /\ ToSet(p_dis) \subseteq made \union {NULL}
        /\ NULL \notin ToSet(p_dis) /\ Len(p_dis) \in Nat
    BY DEF JCInv, JCSafe, ILInv, ILTypeOK, Allocated, Contained
  <2>2. \A k \in 1..Len(p_dis) : p_dis[k] \in ToSet(p_dis)
    BY <2>1, ToSetFacts
  <2> QED
    BY <1>1, <1>2, <2>1, <2>2 DEF Sifted, SameListing
<1>5. Published'
  BY <1>1 DEF Published
<1> QED
  BY <1>3, <1>4, <1>5

(* An instruction is left if it is needed, and erased next if not.         *)
LEMMA JunkLookSifts ==
  ASSUME JCInv, JunkLook PROVE CommittedBefore' /\ Sifted' /\ Published'
<1>1. /\ UNCHANGED ilVars /\ jc.phase = "loop" /\ jc.i <= Len(jc.copy)
      /\ jc \in [copy : Seq(Obj), i : Nat,
                 phase : {"off", "loop", "erase", "commit", "done"}]
      /\ jc.i \in 1..Len(jc.copy)
  BY DEF JunkLook, JCInv, JCSafe, JCTypeOK
<1>2. UNCHANGED <<obj, made, p_dis, dis, cm>>
  BY <1>1 DEF ilVars
<1>3. Junk(jc.copy[jc.i]) <=> ~Needed(jc.copy[jc.i])
  <2>1. jc.copy[jc.i] \in ToSet(jc.copy)
    BY <1>1, ToSetFacts
  <2> QED
    BY <1>1, <2>1, JunkIsNotNeeded DEF JCInv
<1>4. CASE Junk(jc.copy[jc.i])
  <2>1. jc'.copy = jc.copy /\ jc'.i = jc.i /\ jc'.phase = "erase"
    BY <1>1, <1>4 DEF JunkLook
  <2>2. CommittedBefore' /\ Published'
    BY <1>1, <1>2, <2>1 DEF JCInv, CommittedBefore, Published, IsJump
  <2>3. Sifted'
    BY <1>1, <1>2, <1>3, <1>4, <2>1 DEF JCInv, Sifted, Needed, IsNop, IsJump
  <2> QED
    BY <2>2, <2>3
<1>5. CASE ~Junk(jc.copy[jc.i])
  <2>1. jc'.copy = jc.copy /\ jc'.i = jc.i + 1 /\ jc'.phase = "loop"
    BY <1>1, <1>5 DEF JunkLook
  <2>2. CommittedBefore' /\ Published'
    BY <1>1, <1>2, <2>1 DEF JCInv, CommittedBefore, Published, IsJump
  <2>3. Sifted'
    BY <1>1, <1>2, <1>3, <1>5, <2>1 DEF JCInv, Sifted, Needed, IsNop, IsJump
  <2> QED
    BY <2>2, <2>3
<1> QED
  BY <1>4, <1>5

(* An instruction that is erased has left the pending vector for good.     *)
LEMMA JunkErasedSifts ==
  ASSUME JCInv, JunkErased PROVE CommittedBefore' /\ Sifted' /\ Published'
<1>1. /\ UNCHANGED ilVars /\ jc.phase = "erase"
      /\ jc.copy[jc.i] \notin ToSet(p_dis)
      /\ jc \in [copy : Seq(Obj), i : Nat,
                 phase : {"off", "loop", "erase", "commit", "done"}]
      /\ jc.i \in 1..Len(jc.copy)
      /\ jc' = [jc EXCEPT !.phase = "loop", !.i = @ + 1]
  BY DEF JunkErased, JCInv, JCSafe, JCTypeOK, Unreferenced
<1>2. UNCHANGED <<obj, made, p_dis, dis, cm>>
  BY <1>1 DEF ilVars
<1>3. jc'.copy = jc.copy /\ jc'.i = jc.i + 1 /\ jc'.phase = "loop"
  BY <1>1
<1>4. CommittedBefore' /\ Published'
  BY <1>1, <1>2, <1>3 DEF JCInv, CommittedBefore, Published, IsJump
<1>5. Sifted'
  BY <1>1, <1>2, <1>3 DEF JCInv, Sifted, Needed, IsNop, IsJump
<1> QED
  BY <1>4, <1>5

(* The erasure, the one edit of the pass.                                  *)
LEMMA JunkEraseSifts ==
  ASSUME JCInv, JunkErase PROVE CommittedBefore' /\ Sifted' /\ Published'
<1>1. /\ jc.phase = "erase" /\ UNCHANGED <<obj, made, dis, cm, jc>>
      /\ p_dis \in Seq(Ptr) /\ jc.i \in 1..Len(jc.copy)
      /\ PendingUnique /\ NULL \notin ToSet(p_dis)
  BY DEF JunkErase, JCInv, JCSafe, ILInv, ILTypeOK, JCTypeOK, Unreferenced, Contained
<1>2. PICK i \in 1..Len(p_dis) : /\ p_dis[i] = jc.copy[jc.i]
                                /\ p_dis' = RemoveAt(p_dis, i)
  BY DEF JunkErase, RemoveDis
<1>3. CommittedBefore' /\ Published'
  BY <1>1 DEF JCInv, CommittedBefore, Published, IsJump
<1> DEFINE z == p_dis[i]
           T == {x \in ToSet(p_dis) : x # z}
<1>4. SameListing(p_dis', p_dis, T)
  BY <1>1, <1>2, RemoveKeepsListing
<1>5. z \notin ToSet(p_dis')
  <2>1. /\ p_dis' \in Seq(Ptr) /\ Len(p_dis') = Len(p_dis) - 1
        /\ \A k \in 1..(Len(p_dis) - 1) :
             p_dis'[k] = IF k < i THEN p_dis[k] ELSE p_dis[k + 1]
    BY <1>1, <1>2, RemoveFacts
  <2>2. z # NULL
    BY <1>1, ToSetFacts
  <2>3. ASSUME NEW k \in 1..(Len(p_dis) - 1) PROVE p_dis'[k] # z
    <3>1. Len(p_dis) \in Nat
      BY <1>1
    <3> QED
      BY <1>1, <2>1, <2>2, <3>1 DEF PendingUnique
  <2> QED
    BY <2>1, <2>3, ToSetFacts
<1>6. ToSet(p_dis') = T
  <2>1. ToSet(p_dis') \subseteq ToSet(p_dis)
    BY <1>1, <1>2, RemoveKeeps DEF PendingOK, PendingUnique
  <2> QED
    BY <1>4, <1>5, <2>1 DEF SameListing
<1> HIDE DEF z, T
<1>7. T \subseteq ToSet(p_dis) /\ \A x : x \in ToSet(p_dis) /\ x # z => x \in T
  BY DEF T
<1>8. SameListing(p_dis', jc.copy, ToSet(p_dis'))
  BY <1>1, <1>4, <1>6, <1>7, SameListingTransitive DEF JCInv, Sifted
<1>9. \A k \in 1..Len(jc.copy) : jc.copy[k] = z => k = jc.i
  <2>1. dis = jc.copy
    BY <1>1 DEF JCInv, CommittedBefore
  <2> QED
    BY <1>1, <1>2, <2>1, CommittedUnique DEF JCInv, z
<1>10. Sifted'
  <2>1. \A k \in 1..Len(jc.copy) :
          /\ k < jc.i => (jc.copy[k] \in ToSet(p_dis) <=> Needed(jc.copy[k]))
          /\ k > jc.i => jc.copy[k] \in ToSet(p_dis)
          /\ k = jc.i => ~Needed(jc.copy[k])
    BY <1>1 DEF JCInv, Sifted
  <2>2. \A k \in 1..Len(jc.copy) :
          k # jc.i => (jc.copy[k] \in ToSet(p_dis') <=> jc.copy[k] \in ToSet(p_dis))
    BY <1>6, <1>7, <1>9
  <2>3. \A k \in 1..Len(jc.copy) : Needed(jc.copy[k])' <=> Needed(jc.copy[k])
    BY <1>1 DEF Needed, IsNop, IsJump
  <2>4. ToSet(jc.copy) \subseteq made
    BY <1>1 DEF JCInv, Sifted
  <2>5. jc.i \in Nat
    BY DEF JCInv, JCSafe, JCTypeOK
  <2> QED
    BY <1>1, <1>8, <2>1, <2>2, <2>3, <2>4, <2>5 DEF Sifted
<1> QED
  BY <1>3, <1>10

(* When the copy is done with, all of it is sifted.                        *)
LEMMA JunkCommitSifts ==
  ASSUME JCInv, JunkCommit PROVE CommittedBefore' /\ Sifted' /\ Published'
<1>1. /\ UNCHANGED <<obj, made, p_dis, dis>> /\ jc.phase = "loop"
      /\ jc.i > Len(jc.copy) /\ CommitDis(TRUE)
      /\ jc' = [jc EXCEPT !.phase = "commit"]
      /\ jc \in [copy : Seq(Obj), i : Nat,
                 phase : {"off", "loop", "erase", "commit", "done"}]
      /\ cm \in [stage : Stages, i : Nat \ {0}, resolve : BOOLEAN, resolved : BOOLEAN]
  BY DEF JunkCommit, JCInv, JCSafe, JCTypeOK, ILInv, ILTypeOK
<1>2. jc'.copy = jc.copy /\ jc'.i = jc.i /\ jc'.phase = "commit"
  BY <1>1
<1>3. ~Idle'
  BY <1>1 DEF CommitDis, Idle
<1>4. CommittedBefore' /\ Published'
  BY <1>1, <1>2, <1>3 DEF CommittedBefore, Published
<1>5. Sifted'
  BY <1>1, <1>2 DEF JCInv, Sifted, Needed, IsNop, IsJump
<1> QED
  BY <1>4, <1>5

(* What the commit published is what was sifted.                           *)
LEMMA JunkReturnSifts ==
  ASSUME JCInv, JunkReturn PROVE CommittedBefore' /\ Sifted' /\ Published'
<1>1. /\ UNCHANGED ilVars /\ jc.phase = "commit" /\ Idle
      /\ jc' = [jc EXCEPT !.phase = "done"]
      /\ jc \in [copy : Seq(Obj), i : Nat,
                 phase : {"off", "loop", "erase", "commit", "done"}]
  BY DEF JunkReturn, JCInv, JCSafe, JCTypeOK
<1>2. UNCHANGED <<obj, made, p_dis, dis, cm>>
  BY <1>1 DEF ilVars
<1>3. jc'.copy = jc.copy /\ jc'.i = jc.i /\ jc'.phase = "done"
  BY <1>1
<1>4. CommittedBefore' /\ Published'
  BY <1>1, <1>2, <1>3 DEF JCInv, CommittedBefore, Published, Idle
<1>5. Sifted'
  BY <1>1, <1>2, <1>3 DEF JCInv, Sifted, Needed, IsNop, IsJump
<1> QED
  BY <1>4, <1>5

(* The commit at the end publishes what is pending and changes nothing that*)
(* decides what was needed.                                                *)
LEMMA CommitSifts ==
  ASSUME JCInv, CommitStep, UNCHANGED jc
  PROVE  CommittedBefore' /\ Sifted' /\ Published'
<1>1. /\ \A x \in made : obj'[x].ref = obj[x].ref /\ obj'[x].kind = obj[x].kind
      /\ p_dis' = p_dis /\ made' = made
  BY CommitLeavesReferences DEF JCInv, JCSafe, Contained
<1>2. ~Idle /\ (Idle' => dis' = p_dis')
  BY CommitEnds DEF JCInv, JCSafe, ILInv
<1>3. jc.phase = "commit"
  BY <1>2 DEF JCInv, JCSafe, CommitsLast
<1>4. CommittedBefore' /\ Published'
  BY <1>2, <1>3 DEF JCInv, CommittedBefore, Published, Idle
<1>5. Sifted'
  <2>1. ToSet(jc.copy) \subseteq made /\ jc.copy \in Seq(Obj)
    BY <1>3 DEF JCInv, Sifted, JCSafe, JCTypeOK
  <2>2. \A d \in ToSet(jc.copy) : Needed(d)' <=> Needed(d)
    BY <1>1, <2>1 DEF Needed, IsNop, IsJump
  <2>3. \A k \in 1..Len(jc.copy) : jc.copy[k] \in ToSet(jc.copy)
    BY <2>1, ToSetFacts
  <2> QED
    BY <1>1, <1>3, <2>1, <2>2, <2>3 DEF JCInv, Sifted
<1> QED
  BY <1>4, <1>5

(* Every step of the pass keeps the invariant.                             *)
LEMMA JCInvNext == JCInv /\ [JCNext]_jcVars => JCInv'
<1> SUFFICES ASSUME JCInv, [JCNext]_jcVars PROVE JCInv'
  OBVIOUS
<1>1. JCSafe'
  BY JCSafeNext DEF JCInv
<1>2. CASE JunkWork
  BY <1>1, <1>2, JunkCallSifts, JunkLookSifts, JunkEraseSifts, JunkErasedSifts,
     JunkCommitSifts, JunkReturnSifts DEF JunkWork, JCInv
<1>3. CASE CommitStep /\ UNCHANGED jc
  BY <1>1, <1>3, CommitSifts DEF JCInv
<1>4. CASE UNCHANGED jcVars
  BY <1>1, <1>4 DEF jcVars, ilVars, JCInv, CommittedBefore, Sifted, Published,
     Needed, IsNop, IsJump, Idle
<1> QED
  BY <1>2, <1>3, <1>4 DEF JCNext

(* It holds of every container the pass can be called on.                  *)
LEMMA JCInvInit == JCInit => JCInv
<1> SUFFICES ASSUME JCInit PROVE JCInv
  OBVIOUS
<1>1. JCSafe
  BY JCSafeInit
<1>2. jc.phase = "off" /\ cm.resolved /\ dis = p_dis
  BY DEF JCInit, JunkIdle
<1>3. dis \in Seq(Obj) /\ ToSet(dis) \subseteq Obj
  BY <1>1, ToSetFacts DEF JCSafe, ILInv, ILTypeOK
<1>4. ASSUME NEW d \in ToSet(dis), obj[d].ref # NULL
      PROVE  IsJump(d) /\ obj[d].ref \in ToSet(dis)
  <2>1. PICK f \in [ToSet(dis) -> [kind : Kinds, ref : ToSet(dis)]] :
          obj = Lifted(dis, f)
    BY DEF JCInit
  <2>2. obj[d].ref = IF f[d].kind = "jump" THEN f[d].ref ELSE NULL
    BY <1>3, <2>1 DEF Lifted
  <2>3. f[d].kind = "jump" => obj[d].kind = "jump"
    BY <1>3, <2>1 DEF Lifted
  <2>4. f[d].ref \in ToSet(dis)
    BY <2>1
  <2> QED
    BY <1>4, <2>2, <2>3, <2>4 DEF IsJump
<1> QED
  BY <1>1, <1>2, <1>4 DEF JCInv, CommittedBefore, Sifted, Published

-----------------------------------------------------------------------------
(* The invariant of the pass, on whatever container it is called.          *)
THEOREM JunkInvariance == JCSpec => []JCInv
  BY JCInvInit, JCInvNext, PTL DEF JCSpec

(* junk_code keeps the target of every jump, of whatever container.        *)
THEOREM TargetsAlwaysSurvive == JCSpec => []TargetsSurvive
<1>1. JCInv => TargetsSurvive
  BY DEF JCInv, JCSafe
<1> QED
  BY <1>1, JunkInvariance, PTL

(* When it returns, the committed vector is what was sifted.               *)
LEMMA SiftedIsExact == JCInv => JunkExact
<1>1. ASSUME JCInv, jc.phase = "done"
      PROVE  /\ ToSet(dis) = {d \in ToSet(jc.copy) : Needed(d)}
             /\ SameListing(dis, jc.copy, ToSet(dis))
  <2>1. /\ dis = p_dis /\ jc.i > Len(jc.copy) /\ jc.i \in Nat
        /\ jc.copy \in Seq(Obj)
    BY <1>1 DEF JCInv, JCSafe, JCTypeOK, Published, CommitsLast
  <2>2. SameListing(p_dis, jc.copy, ToSet(p_dis))
    BY <1>1 DEF JCInv, Sifted
  <2>3. \A k \in 1..Len(jc.copy) : k < jc.i
    BY <2>1
  <2>4. \A k \in 1..Len(jc.copy) :
          jc.copy[k] \in ToSet(p_dis) <=> Needed(jc.copy[k])
    BY <1>1, <2>3 DEF JCInv, Sifted
  <2>5. \A d \in ToSet(jc.copy) : d \in ToSet(p_dis) <=> Needed(d)
    BY <2>1, <2>4, ToSetFacts
  <2>6. ToSet(p_dis) \subseteq ToSet(jc.copy)
    BY <2>2 DEF SameListing
  <2> QED
    BY <2>1, <2>2, <2>5, <2>6
<1> QED
  BY <1>1 DEF JunkExact

(* When it returns, the container holds what it held, in the same order,   *)
(* less the OP_NOPs nothing jumps to.                                      *)
THEOREM JunkIsExact == JCSpec => []JunkExact
  BY SiftedIsExact, JunkInvariance, PTL
=============================================================================
