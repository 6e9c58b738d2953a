----------------------------- MODULE LuauLayout -----------------------------
(***************************************************************************)
(* Where the instructions of a function stand while it is lifted: what     *)
(* makes InstructionsInPlace, FlowPreserved and ComparesKept of module     *)
(* LuauLift inductive.                                                     *)
(*                                                                         *)
(* Every instruction has a rank, the place of the bytecode instruction it  *)
(* was made of and its place among those made of the same one.  Both       *)
(* vectors are sorted by rank throughout, so that what they hold settles   *)
(* how they are laid out.                                                  *)
(***************************************************************************)
EXTENDS LuauLift

Branches == {"OP_JUMPIF", "OP_JUMPIFNOT", "OP_JUMPIFEQUAL", "OP_JUMPIFLESSEQUAL",
             "OP_JUMPIFLESS", "OP_JUMPIFNOTEQUAL", "OP_JUMPIFGREATEREQUAL",
             "OP_JUMPIFGREATER"}

Settings == {"OP_SETIFEQUAL", "OP_SETIFLESSEQUAL", "OP_SETIFLESS",
             "OP_SETIFNOTEQUAL"}

(* A compare, what uses its outcome and OP_POPARG follow the instruction   *)
(* that parse_instructions made.                                           *)
Role(op) ==
  CASE op \in {"OP_CMPS", "OP_CMP"}        -> 1
    [] op \in Branches \union Settings     -> 2
    [] op = "OP_POPARG"                    -> 3
    [] OTHER                               -> 0

Rank == [d \in Obj |-> 4 * code[d].at + Role(code[d].op)]

(* The instructions of s are sorted by rank, null pointers behind them.    *)
Sorted(s, rank) ==
  \A k, l \in 1..Len(s) :
    k < l /\ s[l] # NULL => s[k] # NULL /\ rank[s[k]] < rank[s[l]]

(* A compare the lifter splits, and the opcodes of its two parts.          *)
Compared(i) == prog[i].op \in Tests \union Binary

UseOp(i) == IF SetCmp(i) THEN SetOp(prog[i].op) ELSE JumpOp(prog[i].op)

Halves(i) == {[op |-> op, at |-> i] : op \in {CompareOp(prog[i].op), UseOp(i)}}

(* Does a compare become a value through i, a LOADB?                       *)
Absorbed(i) ==
  \E j \in 1..(i - 1) : Compared(j) /\ SetCmp(j) /\ i \in {j + 1, j + 2}

(* The opcodes that bytecode instruction i becomes up to the first commit  *)
(* of the edits, and up to the second.                                     *)
Expansion(i) ==
  (IF Absorbed(i) THEN {} ELSE {Translated(prog[i])})
    \union (IF Compared(i) THEN {CompareOp(prog[i].op), UseOp(i)} ELSE {})

AfterParse == [i \in 1..Len(prog) |-> Expansion(i)]

(* A call of self that keeps its register.                                 *)
SelfCall(i) == prog[i].op = "LOP_NAMECALL self"

AfterResolve ==
  [i \in 1..Len(prog) |->
     Expansion(i) \union (IF SelfCall(i) THEN {"OP_POPARG"} ELSE {})]

(* The instructions of s are those w asks for, in order.                   *)
LaidOut(s, w) ==
  /\ Sorted(s, Rank)
  /\ {code[d] : d \in ToSet(s) \ {NULL}}
       = UNION {{[op |-> op, at |-> i] : op \in w[i]} : i \in 1..Len(prog)}

(* The first n bytecode instructions, one for one.                         *)
OneForOne(s) ==
  /\ Len(s) = Len(prog)
  /\ \A i \in 1..Len(prog) : code[s[i]] = [op |-> Translated(prog[i]), at |-> i]

-----------------------------------------------------------------------------
(***************************************************************************)
(* A queue of edits of the committed vector v.                             *)
(***************************************************************************)

(* How far the edits in front of number k move what is behind them.        *)
Offset(q, k) ==
  IF k = 1 THEN 0
  ELSE LET e == q[k - 1] IN IF e.act = "add" THEN e.pos - e.at ELSE e.pos - e.at - 1

(* Each edit names an instruction of v that is not the last, its position  *)
(* allows for the edits in front of it, and what it inserts belongs        *)
(* between the one it names and the next.                                  *)
EditFits(e, offset, v, rank) ==
  /\ e.at + 1 < Len(v)
  /\ \/ /\ e.act = "add"
        /\ e.pos = e.at + 1 + offset
        /\ e.d \in Obj \ ToSet(v)
        /\ rank[v[e.at + 1]] < rank[e.d]
        /\ rank[e.d] < rank[v[e.at + 2]]
     \/ /\ e.act = "remove"
        /\ e.pos = e.at + offset

Succeeds(e, f, rank) ==
  /\ IF f.act = "add" THEN e.at <= f.at ELSE e.at < f.at
  /\ e.act = "add" /\ f.act = "add" => rank[e.d] < rank[f.d]

QueueFits(m, v, rank) ==
  /\ m.sync = 1 + Offset(m.queue, Len(m.queue) + 1)
  /\ \A k \in 1..Len(m.queue) :
       /\ EditFits(m.queue[k], Offset(m.queue, k), v, rank)
       /\ \A l \in 1..(k - 1) : Succeeds(m.queue[l], m.queue[k], rank)

(* What v holds once the edits in front of number n are made.              *)
Content(v, q, n) ==
  {v[j] : j \in {j \in 1..Len(v) :
                   \A k \in 1..(n - 1) : ~(q[k].act = "remove" /\ q[k].at + 1 = j)}}
    \union {q[k].d : k \in {k \in 1..(n - 1) : q[k].act = "add"}}

(* The pending vector p after them: sorted, holding that, and from the     *)
(* instruction behind the last edit on like v, moved.                      *)
Replays(p, v, q, n, rank) ==
  /\ n \in 1..(Len(q) + 1)
  /\ Sorted(p, rank)
  /\ ToSet(p) \ {NULL} = Content(v, q, n)
  /\ \A j \in (IF n = 1 THEN 0 ELSE q[n - 1].at + 1)..(Len(v) - 1) :
       /\ j + Offset(q, n) \in 0..(Len(p) - 1)
       /\ p[j + Offset(q, n) + 1] = v[j + 1]

Insertions(q) == {code[q[k].d] : k \in {k \in 1..Len(q) : q[k].act = "add"}}
Removals(q) == {q[k].at : k \in {k \in 1..Len(q) : q[k].act = "remove"}}

(* The compares in front of i are queued: their two halves, and the        *)
(* removal of the LOADB that take their outcome.                           *)
ComparesQueued(i) ==
  /\ Insertions(pm.queue) = UNION {Halves(j) : j \in {j \in 1..(i - 1) : Compared(j)}}
  /\ Removals(pm.queue)
       = UNION {{j, j + 1} : j \in {j \in 1..(i - 1) : Compared(j) /\ SetCmp(j)}}

(* The OP_POPARG of the calls in front of position i are queued.           *)
PopsQueued(i) ==
  /\ Insertions(rm.queue)
       = {[op |-> "OP_POPARG", at |-> code[dis[k]].at] :
            k \in {k \in 1..(i - 1) : PopsArg(dis[k])}}
  /\ Removals(rm.queue) = {}
  /\ \A k \in 1..Len(rm.queue) : rm.queue[k].at + 1 < i

-----------------------------------------------------------------------------
(***************************************************************************)
(* The invariant.                                                          *)
(***************************************************************************)

KindOf(op) ==
  IF op = "OP_NOP" THEN "nop"
  ELSE IF op \in TakesJump \union Branches THEN "jump" ELSE "other"

(* The opcode of an instruction settles its kind, and a jump leads to what *)
(* parse_instructions made of the instruction the bytecode jumps to.       *)
Wired ==
  /\ \A d \in made :
       /\ code[d].at # 0
       /\ obj[d].kind = KindOf(code[d].op)
       /\ obj[d].ref # NULL =>
            LET to == prog[code[d].at].to IN
              /\ IsJump(d)
              /\ to # 0
              /\ prog[to].op # "LOP_LOADB"
              /\ code[obj[d].ref] = [op |-> Translated(prog[to]), at |-> to]
  /\ lift.phase \notin {"junk", "done"} =>
       \A d \in made : obj[d].ref \in ToSet(p_dis) \union {NULL}

Parsing ==
  /\ lift.phase = "compares" =>
       /\ lift.i <= Len(prog) + 1
       /\ QueueFits(pm, dis, Rank) /\ ComparesQueued(lift.i)
  /\ lift.phase \in {"jumps", "parse edits"} =>
       QueueFits(pm, dis, Rank) /\ ComparesQueued(Len(prog) + 1)
  /\ lift.phase = "parse edits" =>
       OneForOne(dis) /\ Replays(p_dis, dis, pm.queue, lift.i, Rank)
  /\ lift.phase = "parse commit" =>
       LaidOut(p_dis, AfterParse) /\ (Idle => dis = p_dis)

Resolving ==
  /\ lift.phase \in {"operands", "selfs"} =>
       LaidOut(p_dis, AfterParse) /\ dis = p_dis
  /\ lift.phase = "selfs" =>
       /\ lift.i <= Len(dis) + 1
       /\ QueueFits(rm, dis, Rank) /\ PopsQueued(lift.i)
  /\ lift.phase = "resolve edits" =>
       /\ LaidOut(dis, AfterParse)
       /\ QueueFits(rm, dis, Rank) /\ PopsQueued(Len(dis) + 1)
       /\ Replays(p_dis, dis, rm.queue, lift.i, Rank)
  /\ lift.phase = "resolve commit" =>
       /\ LaidOut(p_dis, AfterResolve)
       /\ IF Idle THEN dis = p_dis /\ cm.resolved ELSE cm.resolve

Eliminating ==
  lift.phase \in {"junk", "done"} =>
    /\ JCInv
    /\ LaidOut(IF jc.phase = "off" THEN p_dis ELSE jc.copy, AfterResolve)

LayoutInv == Wired /\ Parsing /\ Resolving /\ Eliminating

(***************************************************************************)
(* Each edit of the lifter lands: a removal takes the very instruction its *)
(* callback looked at, and an insertion comes between the instructions it  *)
(* belongs between, none behind the end of the vector, where the code      *)
(* would erase what does not exist (the queues of parse_compares, two or   *)
(* four edits at a time, and of resolve_instructions).                     *)
(***************************************************************************)
Lands(m) ==
  lift.i <= Len(m.queue) =>
    LET e == m.queue[lift.i] IN
      /\ e.pos < Len(p_dis)
      /\ p_dis[e.pos + 1] = dis[e.at + IF e.act = "add" THEN 2 ELSE 1]

EditsLand ==
  /\ lift.phase = "parse edits" => Lands(pm)
  /\ lift.phase = "resolve edits" => Lands(rm)
=============================================================================
