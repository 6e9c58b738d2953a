--------------------------- MODULE ParserManager ---------------------------
(***************************************************************************)
(* parser_manager (il/lifter/parser/parser.hpp): run() calls the callbacks *)
(* in turn, makes the edits they queued one by one, commits, and forgets   *)
(* callbacks and queue.                                                    *)
(***************************************************************************)
EXTENDS EditQueue, FiniteSets

CONSTANTS
  Base,       (* The init callback committed a prefix of this sequence.  *)
  Callbacks   (* The callbacks of one run that queue edits.              *)

ASSUME BaseAssumption ==
  Base \in Seq(Obj) /\ IsInjective(Base)
ASSUME CallbacksAssumption == Callbacks \in Nat \ {0}

VARIABLES
  pm,      (* The manager: its queue and sync_idx.                       *)
  run      (* Where run() is.                                            *)

pmVars == <<ilVars, pm, run>>

(* sync_idx counts insertions less removals: Shift, of all queued edits.   *)
Shift(q, k) ==
  Cardinality({i \in 1..(k - 1) : q[i].act = "add"})
    - Cardinality({i \in 1..(k - 1) : q[i].act # "add"})

(* callback is the callback that runs, from the first index it may still   *)
(* name, next the edit to make next.                                       *)
PMTypeOK ==
  /\ ILTypeOK
  /\ pm \in Managers
  /\ pm.sync = 1 + Shift(pm.queue, Len(pm.queue) + 1)
  /\ run \in [phase : {"callbacks", "apply", "commit"}, callback : Nat,
              from : Nat, next : Nat]

NotRunning == [phase |-> "callbacks", callback |-> 1, from |-> 0, next |-> 1]

-----------------------------------------------------------------------------
(***************************************************************************)
(* A run.  run.from is the first index the running callback may still      *)
(* name: a callback is one pass over the original instructions, so it names*)
(* indexes in order, and it removes an instruction before it adds after    *)
(* it.  The next callback starts again from the first instruction.         *)
(***************************************************************************)

Plain == [Blank EXCEPT !.kind = "other"]

PMInit ==
  /\ \E n \in 0..Len(Base) : dis = SubSeq(Base, 1, n)
  /\ obj = [d \in Obj |-> IF d \in ToSet(dis) THEN Plain ELSE Blank]
  /\ p_dis = dis
  /\ made = ToSet(dis)
  /\ cm = [stage |-> "idle", i |-> 1, resolve |-> FALSE, resolved |-> FALSE]
  /\ pm = EmptyManager
  /\ run = NotRunning

CallbackAdd(idx, d) ==
  /\ run.phase = "callbacks"
  /\ idx + 1 >= run.from
  /\ Make(d, Plain)
  /\ pm' = QueueAdd(pm, idx, d)
  /\ run' = [run EXCEPT !.from = idx + 1]
  /\ UNCHANGED <<p_dis, dis, cm>>

CallbackRemove(idx) ==
  /\ run.phase = "callbacks"
  /\ idx >= run.from
  /\ \/ pm' = QueueRemove(pm, idx)
     \/ pm' = QueueRemovePtr(pm, idx, dis[idx + 1])
  /\ run' = [run EXCEPT !.from = idx + 1]
  /\ UNCHANGED ilVars

NextCallback ==
  /\ run.phase = "callbacks"
  /\ run' = IF run.callback < Callbacks
            THEN [run EXCEPT !.callback = @ + 1, !.from = 0]
            ELSE [run EXCEPT !.phase = "apply", !.next = 1]
  /\ UNCHANGED <<ilVars, pm>>

Apply ==
  /\ run.phase = "apply"
  /\ run.next <= Len(pm.queue)
  /\ MakeEdit(pm.queue[run.next])
  /\ run' = [run EXCEPT !.next = @ + 1]
  /\ UNCHANGED <<obj, made, dis, cm, pm>>

Applied ==
  /\ run.phase = "apply"
  /\ run.next > Len(pm.queue)
  /\ CommitDis(TRUE)
  /\ run' = [run EXCEPT !.phase = "commit"]
  /\ UNCHANGED <<obj, made, p_dis, dis, pm>>

(* Mutant: the queue is not forgotten.                                     *)
ClearCallbacks ==
  /\ run.phase = "commit"
  /\ Idle
  /\ run' = NotRunning
  /\ UNCHANGED <<ilVars, pm>>

(* The commit returned: forget the callbacks and the queue.                *)
Clear ==
  /\ run.phase = "commit"
  /\ Idle
  /\ pm' = EmptyManager
  /\ run' = NotRunning
  /\ UNCHANGED ilVars

PMNext ==
  \/ \E idx \in 0..(Len(dis) - 1), d \in Obj : CallbackAdd(idx, d)
  \/ \E idx \in 0..(Len(dis) - 1) : CallbackRemove(idx)
  \/ NextCallback
  \/ Apply
  \/ Applied
  \/ Clear
  \/ CommitStep /\ UNCHANGED <<pm, run>>

PMSpec == PMInit /\ [][PMNext]_pmVars

-----------------------------------------------------------------------------
(***************************************************************************)
(* Properties.                                                             *)
(***************************************************************************)

(* The position queued for an edit, worked out from edits not yet made, is *)
(* right when its turn comes: a removal by index takes the very            *)
(* instruction the callback named, and an insertion lands right in front   *)
(* of the instruction that followed the named one in the original          *)
(* (sync_idx of parser.hpp, against the padding of append_dis).            *)
EditsOnTarget ==
  run.phase = "apply" /\ run.next <= Len(pm.queue) =>
    LET e == pm.queue[run.next] IN
      /\ e.act = "remove" => /\ e.pos < Len(p_dis)
                             /\ p_dis[e.pos + 1] = dis[e.at + 1]
      /\ e.act = "add" /\ e.at + 1 < Len(dis)
           => /\ e.pos < Len(p_dis)
              /\ p_dis[e.pos + 1] = dis[e.at + 2]

(* What makes EditsOnTarget inductive, for runs of one callback.  Edits    *)
(* are queued in the order of the instructions they name, and no           *)
(* instruction is removed twice or inserted behind before it is removed.   *)
InOrder ==
  \A k, l \in 1..Len(pm.queue) : k < l =>
    IF pm.queue[l].act = "add" THEN pm.queue[k].at <= pm.queue[l].at
                               ELSE pm.queue[k].at < pm.queue[l].at

(* An edit has the position of the instruction it names, moved by the      *)
(* edits queued before it.                                                 *)
Positioned ==
  \A k \in 1..Len(pm.queue) :
    LET e == pm.queue[k] IN
      /\ e.at < Len(dis)
      /\ e.act = "add" => e.pos = e.at + 1 + Shift(pm.queue, k)
      /\ e.act = "remove" => e.pos = e.at + Shift(pm.queue, k)
      /\ e.act = "remove_ptr" => e.d = dis[e.at + 1]

(* What is to be inserted is not there yet.                                *)
Fresh ==
  \A k \in 1..Len(pm.queue) : pm.queue[k].act = "add" =>
    /\ pm.queue[k].d \in made \ ToSet(dis)
    /\ k >= run.next => pm.queue[k].d \notin ToSet(p_dis)
    /\ \A l \in 1..Len(pm.queue) :
         pm.queue[l].act = "add" /\ pm.queue[l].d = pm.queue[k].d => l = k

(* Of the original instructions those behind the last edit made are where  *)
(* the edits made moved them.                                              *)
Frontier == IF run.next = 1 THEN 0 ELSE pm.queue[run.next - 1].at + 1

Aligned ==
  LET shift == Shift(pm.queue, run.next) IN
    /\ run.next \in 1..(Len(pm.queue) + 1)
    /\ Frontier + shift >= 0
    /\ \A j \in Frontier..(Len(dis) - 1) :
         /\ j + shift < Len(p_dis)
         /\ p_dis[j + shift + 1] = dis[j + 1]

PMInv ==
  /\ ILInv
  /\ PMTypeOK
  /\ run.phase # "commit" => Idle /\ InOrder /\ Positioned /\ Fresh /\ Aligned
  /\ run.phase = "callbacks" =>
       /\ p_dis = dis
       /\ run.callback = 1 /\ run.next = 1
       /\ \A k \in 1..Len(pm.queue) : pm.queue[k].at < run.from
  /\ run.phase = "commit" /\ Idle => p_dis = dis

(* A manager implements its promise: see module EditSpec.  Replayed(q, n)  *)
(* says, for each k, what the first k edits of the queue q ask of each of n*)
(* positions; Slots is what is asked until the commit that does it.        *)
Kept == [keep |-> TRUE, after |-> << >>]

Asked(g, e) ==
  IF e.act = "add" THEN [g EXCEPT ![e.at + 1].after = Append(@, e.d)]
                   ELSE [g EXCEPT ![e.at + 1].keep = FALSE]

Replayed(q, n) ==
  LET f[k \in 0..Len(q)] ==
        IF k = 0 THEN [i \in 1..n |-> Kept] ELSE Asked(f[k - 1], q[k])
  IN  f

Slots ==
  IF run.phase = "commit" /\ Idle THEN [i \in 1..Len(dis) |-> Kept]
  ELSE Replayed(pm.queue, Len(dis))[Len(pm.queue)]

Promise == INSTANCE EditSpec WITH Value <- Obj, vec <- dis, slots <- Slots

ImplementsEditSpec == Promise!Spec

(* What makes it provable.  Laid(v, g, j) is what g makes of the first j   *)
(* instructions of v.                                                      *)
Laid(v, g, j) ==
  FlattenSeq([i \in 1..j |->
     (IF g[i].keep THEN <<v[i]>> ELSE << >>) \o g[i].after])

(* s is w and then null pointers.                                          *)
Holds(s, w) ==
  /\ Len(w) <= Len(s)
  /\ \A i \in 1..Len(s) : s[i] = IF i <= Len(w) THEN w[i] ELSE NULL

(* The pending vector is what the edits made so far ask for, and they ask  *)
(* nothing of what is behind the last of them.                             *)
Replays ==
  LET g == Replayed(pm.queue, Len(dis))[run.next - 1] IN
    /\ \A i \in (Frontier + 1)..Len(dis) : g[i] = Kept
    /\ \A i \in Frontier..Len(dis) :
         Len(Laid(dis, g, i)) = i + Shift(pm.queue, run.next)
    /\ Holds(p_dis, Laid(dis, g, Len(dis)))

(* Every edit names an instruction, and an insertion something to insert.  *)
Meaningful ==
  \A k \in 1..Len(pm.queue) :
    /\ pm.queue[k].at < Len(dis)
    /\ pm.queue[k].act = "add" => pm.queue[k].d \in Obj

EditInv ==
  /\ PMInv
  /\ run.phase # "commit" \/ ~Idle => Meaningful
  /\ run.phase = "apply" => Replays
  /\ run.phase = "commit" /\ ~Idle => Holds(p_dis, Laid(dis, Slots, Len(dis)))
=============================================================================
