------------------------------ MODULE JunkCode ------------------------------
(***************************************************************************)
(* transformers::eliminate::junk_code (il/il/transformers/transformers.cpp *)
(* of the framework): removes every OP_NOP no instruction references, then *)
(* commits.                                                                *)
(*                                                                         *)
(* It runs on a lifted container: everything pending is committed, no      *)
(* instruction is there twice and every jump leads into the container.     *)
(***************************************************************************)
EXTENDS ILang

CONSTANT MaxLen     (* Bounds the length of the containers it starts from. *)

ASSUME MaxLenAssumption == MaxLen \in Nat

VARIABLE jc         (* The copy it iterates over, the position, the phase. *)

jcVars == <<ilVars, jc>>

JCTypeOK ==
  /\ jc \in [copy : Seq(Obj), i : Nat,
             phase : {"off", "loop", "erase", "commit", "done"}]
  /\ jc.i \in 1..(Len(jc.copy) + 1)

JunkIdle == [copy |-> << >>, i |-> 1, phase |-> "off"]

(* What commit_dis leaves behind of the jumps to and the kinds that f      *)
(* gives the instructions of s.                                            *)
Lifted(s, f) ==
  LET at(x) == CHOOSE k \in 1..Len(s) : s[k] = x
      jump(d) == [kind |-> "jump", ref |-> f[d].ref, addr |-> at(d) - 1,
                  jmp |-> at(f[d].ref) - at(d), ref_addr |-> at(f[d].ref) - 1]
      rest(d) == [kind |-> f[d].kind, ref |-> NULL, addr |-> at(d) - 1,
                  jmp |-> 0, ref_addr |-> 0]
  IN  [d \in Obj |-> IF d \notin ToSet(s) THEN Blank
                     ELSE IF f[d].kind = "jump" THEN jump(d) ELSE rest(d)]

JCInit ==
  /\ \E n \in 1..MaxLen : dis \in Injection(1..n, Obj)
  /\ \E f \in [ToSet(dis) -> [kind : Kinds, ref : ToSet(dis)]] :
       obj = Lifted(dis, f)
  /\ p_dis = dis
  /\ made = ToSet(dis)
  /\ cm = [stage |-> "idle", i |-> 1, resolve |-> TRUE, resolved |-> TRUE]
  /\ jc = JunkIdle

JunkCall ==
  /\ Idle
  /\ jc.phase = "off"
  /\ jc' = [copy |-> p_dis, i |-> 1, phase |-> "loop"]
  /\ UNCHANGED ilVars

(* Mutant: the references are not asked for.                               *)
AnyNop(d) == IsNop(d)

(* An OP_NOP that no committed instruction references.                     *)
Junk(d) == IsNop(d) /\ VisitRef(obj[d].addr) = {}

(* Mutant: what stays is looked at again.                                  *)
JunkLookAgain ==
  /\ jc.phase = "loop"
  /\ jc.i <= Len(jc.copy)
  /\ jc' = IF Junk(jc.copy[jc.i]) THEN [jc EXCEPT !.phase = "erase"] ELSE jc
  /\ UNCHANGED ilVars

JunkLook ==
  /\ jc.phase = "loop"
  /\ jc.i <= Len(jc.copy)
  /\ jc' = IF Junk(jc.copy[jc.i]) THEN [jc EXCEPT !.phase = "erase"]
                                  ELSE [jc EXCEPT !.i = @ + 1]
  /\ UNCHANGED ilVars

JunkErase ==
  /\ jc.phase = "erase"
  /\ RemoveDis(jc.copy[jc.i])
  /\ UNCHANGED <<obj, made, dis, cm, jc>>

(* Mutant: after an erasure the loop skips an instruction.                 *)
JunkErasedSkips ==
  /\ jc.phase = "erase"
  /\ jc.copy[jc.i] \notin ToSet(p_dis)
  /\ jc' = [jc EXCEPT !.phase = "loop", !.i = @ + 2]
  /\ UNCHANGED ilVars

JunkErased ==
  /\ jc.phase = "erase"
  /\ jc.copy[jc.i] \notin ToSet(p_dis)
  /\ jc' = [jc EXCEPT !.phase = "loop", !.i = @ + 1]
  /\ UNCHANGED ilVars

JunkCommit ==
  /\ jc.phase = "loop"
  /\ jc.i > Len(jc.copy)
  /\ CommitDis(TRUE)
  /\ jc' = [jc EXCEPT !.phase = "commit"]
  /\ UNCHANGED <<obj, made, p_dis, dis>>

JunkReturn ==
  /\ Idle
  /\ jc.phase = "commit"
  /\ jc' = [jc EXCEPT !.phase = "done"]
  /\ UNCHANGED ilVars

JunkWork ==
  \/ JunkCall
  \/ JunkLook
  \/ JunkErase
  \/ JunkErased
  \/ JunkCommit
  \/ JunkReturn

JCNext ==
  \/ JunkWork
  \/ CommitStep /\ UNCHANGED jc
  \/ jc.phase = "done" /\ UNCHANGED jcVars

JCSpec == JCInit /\ [][JCNext]_jcVars /\ WF_jcVars(JCNext)

-----------------------------------------------------------------------------
(***************************************************************************)
(* Properties.                                                             *)
(***************************************************************************)

(* No jump is left hanging: at every moment of the pass, with the pending  *)
(* vector already edited and the committed one still old, what a committed *)
(* jump leads to is still pending.                                         *)
TargetsSurvive ==
  \A d \in ToSet(dis) : IsJump(d) => obj[d].ref \in ToSet(p_dis)

(* What the pass must keep.                                                *)
Needed(d) ==
  \/ ~IsNop(d)
  \/ \E j \in ToSet(jc.copy) : IsJump(j) /\ obj[j].ref = d

(* Of the instructions it was called on it drops the OP_NOPs nothing jumps *)
(* to, all of them and nothing else, and keeps the order.                  *)
JunkExact ==
  jc.phase = "done" =>
    /\ ToSet(dis) = {d \in ToSet(jc.copy) : Needed(d)}
    /\ SameListing(dis, jc.copy, ToSet(dis))

(* What makes TargetsSurvive inductive: nothing but removals happens to    *)
(* the pending vector, no commit runs before the last call, and what is    *)
(* being erased is nobody's reference.                                     *)
Contained ==
  /\ NULL \notin ToSet(p_dis)
  /\ ToSet(p_dis) \subseteq ToSet(dis)

CommitsLast == jc.phase # "commit" => Idle

Unreferenced ==
  jc.phase = "erase" =>
    /\ jc.i <= Len(jc.copy)
    /\ \A d \in ToSet(dis) : obj[d].ref # jc.copy[jc.i]

JCSafe ==
  /\ ILInv
  /\ JCTypeOK
  /\ Contained
  /\ CommitsLast
  /\ Unreferenced
  /\ TargetsSurvive

(* What makes JunkExact inductive.  Until the commit the committed vector  *)
(* is what the pass was called on, numbered and closed under references.   *)
CommittedBefore ==
  jc.phase \in {"off", "loop", "erase"} =>
    /\ cm.resolved
    /\ dis = IF jc.phase = "off" THEN p_dis ELSE jc.copy
    /\ \A d \in ToSet(dis) : obj[d].ref # NULL =>
         IsJump(d) /\ obj[d].ref \in ToSet(dis)

(* In front of position i the copy is sifted, from there on complete.      *)
Sifted ==
  jc.phase # "off" =>
    /\ ToSet(jc.copy) \subseteq made
    /\ SameListing(p_dis, jc.copy, ToSet(p_dis))
    /\ \A k \in 1..Len(jc.copy) :
         /\ k < jc.i => (jc.copy[k] \in ToSet(p_dis) <=> Needed(jc.copy[k]))
         /\ k > jc.i => jc.copy[k] \in ToSet(p_dis)
         /\ k = jc.i => IF jc.phase = "erase" THEN ~Needed(jc.copy[k])
                        ELSE jc.copy[k] \in ToSet(p_dis)

(* The commit publishes that.                                              *)
Published ==
  jc.phase \in {"commit", "done"} =>
    /\ jc.i > Len(jc.copy)
    /\ Idle => dis = p_dis

JCInv == JCSafe /\ CommittedBefore /\ Sifted /\ Published

(* It returns.                                                             *)
JunkReturns == <>(jc.phase = "done")
=============================================================================
