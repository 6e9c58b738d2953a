------------------------------ MODULE LuauLift ------------------------------
(***************************************************************************)
(* Lifting one Luau function to the IL: luramas::il::lifter::lift          *)
(* (il/lifter/langs/luau/V3/Luau-V3.cpp of the framework) with the parser  *)
(* and resolver callbacks it registers, followed by junk_code, as          *)
(* luramas::decompile calls them.                                          *)
(*                                                                         *)
(*   parse     parse_instructions appends one instruction per bytecode     *)
(*             instruction; a commit that resolves nothing                 *)
(*   compares  parse_compares queues the compare instructions              *)
(*   jumps     parse_jumps stores the references; edits; commit            *)
(*   operands  resolve_jump_operands                                       *)
(*   selfs     resolve_instructions queues OP_POPARG; edits; commit        *)
(*   junk      junk_code                                                   *)
(*                                                                         *)
(* Every loop of these is a step per iteration.  Operands other than jumps *)
(* are left out.                                                           *)
(***************************************************************************)
EXTENDS EditQueue, JunkCode, LuauBytecode, FiniteSets

VARIABLES
  prog,    (* pm.dism: the disassembled function.                        *)
  code,    (* For each IL instruction: its opcode, what it was made of.  *)
  pm,      (* The parser_manager.                                        *)
  rm,      (* The resolver_manager.                                      *)
  lift     (* The phase, the loop counter and the pc of parse.           *)

liftVars == <<ilVars, jc, prog, code, pm, rm, lift>>

(* The phases in which a loop of the lifter runs, an edit queue is made, a *)
(* commit is awaited.                                                      *)
Loops == {"parse", "compares", "jumps", "operands", "selfs"}
Edits == {"parse edits", "resolve edits"}
Commits == {"first commit", "parse commit", "resolve commit"}
Ends == {"junk", "done", "thrown"}

ILOps == {"OP_NOP", "OP_MOVE", "OP_LOADBOOL", "OP_SELF", "OP_POPARG", "OP_JUMP",
          "OP_JUMPBACK", "OP_INITFORLOOPN", "OP_INITFORLOOPG",
          "OP_INITFORLOOPSPECIAL", "OP_FORLOOPN", "OP_FORLOOPG", "OP_RETURN",
          "OP_CMPS", "OP_CMP", "OP_JUMPIF", "OP_JUMPIFNOT", "OP_JUMPIFEQUAL",
          "OP_JUMPIFLESSEQUAL", "OP_JUMPIFLESS", "OP_JUMPIFNOTEQUAL",
          "OP_JUMPIFGREATEREQUAL", "OP_JUMPIFGREATER", "OP_SETIFEQUAL",
          "OP_SETIFLESSEQUAL", "OP_SETIFLESS", "OP_SETIFNOTEQUAL"}

LiftTypeOK ==
  /\ ILTypeOK
  /\ JCTypeOK
  /\ code \in [Obj -> [op : ILOps, at : 0..Len(prog)]]
  /\ pm \in Managers
  /\ rm \in Managers
  /\ lift \in [phase : Loops \union Edits \union Commits \union Ends,
               i : Nat \ {0}, pc : Nat]

LiftInit ==
  /\ \E us \in Functions : prog = Disassembled(Code(us))
  /\ ILInit
  /\ jc = JunkIdle
  /\ code = [d \in Obj |-> [op |-> "OP_NOP", at |-> 0]]
  /\ pm = EmptyManager
  /\ rm = EmptyManager
  /\ lift = [phase |-> "parse", i |-> 1, pc |-> 0]

Enter(phase) == lift' = [lift EXCEPT !.phase = phase, !.i = 1]
Advance == lift' = [lift EXCEPT !.i = @ + 1]

(* What std::make_shared returns.                                          *)
Fresh(used) == CHOOSE d \in Obj : d \notin used

-----------------------------------------------------------------------------
(***************************************************************************)
(* parse_instructions.                                                     *)
(***************************************************************************)

(* The opcode switch.  What it does not list becomes an OP_NOP.            *)
Translated(b) ==
  CASE b.op = "LOP_MOVE"                              -> "OP_MOVE"
    [] b.op = "LOP_LOADB"                             -> "OP_LOADBOOL"
    [] b.op \in {"LOP_NAMECALL", "LOP_NAMECALL self"} -> "OP_SELF"
    [] b.op = "LOP_RETURN"                            -> "OP_RETURN"
    [] b.op = "LOP_FORNPREP"                          -> "OP_INITFORLOOPN"
    [] b.op \in {"LOP_FORGPREP_INEXT", "LOP_FORGPREP_NEXT"}
                                                      -> "OP_INITFORLOOPSPECIAL"
    [] b.op = "LOP_FORGPREP"                          -> "OP_INITFORLOOPG"
    [] b.op = "LOP_FORNLOOP"                          -> "OP_FORLOOPN"
    [] b.op = "LOP_FORGLOOP"                          -> "OP_FORLOOPG"
    [] b.op = "LOP_JUMPBACK"                          -> "OP_JUMPBACK"
    [] b.op \in {"LOP_JUMP", "LOP_JUMPX"}             ->
         IF b.jmp >= 0 THEN "OP_JUMP" ELSE "OP_JUMPBACK"
    [] OTHER                                          -> "OP_NOP"

(* The opcodes whose sorted operands have the jump operand among them; the *)
(* mutant forgets one.                                                     *)
TakesJumpButG == {"OP_INITFORLOOPN", "OP_FORLOOPN", "OP_FORLOOPG", "OP_JUMP",
                  "OP_JUMPBACK"}

TakesJump == {"OP_INITFORLOOPN", "OP_INITFORLOOPG", "OP_FORLOOPN",
              "OP_FORLOOPG", "OP_JUMP", "OP_JUMPBACK"}

(* Mutant: the address is the index and not the place of the first word.   *)
ParsedAtIndex(b) ==
  LET op == Translated(b) IN
    IF op \in TakesJump
    THEN [kind |-> "jump", ref |-> NULL, addr |-> lift.i - 1, jmp |-> b.jmp,
          ref_addr |-> b.ref_addr]
    ELSE [Blank EXCEPT !.kind = IF op = "OP_NOP" THEN "nop" ELSE "other",
                       !.addr = lift.i - 1]

Parsed(b) ==
  LET op == Translated(b) IN
    IF op \in TakesJump
    THEN [kind |-> "jump", ref |-> NULL, addr |-> lift.pc, jmp |-> b.jmp,
          ref_addr |-> b.ref_addr]
    ELSE [Blank EXCEPT !.kind = IF op = "OP_NOP" THEN "nop" ELSE "other",
                       !.addr = lift.pc]

ParseInstruction ==
  /\ lift.phase = "parse"
  /\ lift.i <= Len(prog)
  /\ LET d == Fresh(made)
         b == prog[lift.i]
     IN  /\ Make(d, Parsed(b))
         /\ AppendDis(d)
         /\ code' = [code EXCEPT ![d] = [op |-> Translated(b), at |-> lift.i]]
         /\ lift' = [lift EXCEPT !.i = @ + 1, !.pc = @ + b.len]
  /\ UNCHANGED <<dis, cm, jc, prog, pm, rm>>

InstructionsParsed ==
  /\ lift.phase = "parse"
  /\ lift.i > Len(prog)
  /\ CommitDis(FALSE)
  /\ Enter("first commit")
  /\ UNCHANGED <<obj, made, p_dis, dis, jc, prog, code, pm, rm>>

FirstCommitted ==
  /\ lift.phase = "first commit"
  /\ Idle
  /\ Enter("compares")
  /\ UNCHANGED <<ilVars, jc, prog, code, pm, rm>>

-----------------------------------------------------------------------------
(***************************************************************************)
(* parse_compares.                                                         *)
(***************************************************************************)

(* The outcome of the compare becomes a value: a pair of LOADB follows, of *)
(* which the first jumps.                                                  *)
SetCmp(i) ==
  /\ i < Len(prog)
  /\ prog[i + 1].op = "LOP_LOADB"
  /\ prog[i + 1].jmp # 0
  /\ prog[i + 2].op = "LOP_LOADB"

(* Mutant: the opcode of the bytecode is kept.                             *)
CompareOpKept(op) == IF op \in Tests THEN "OP_CMPS" ELSE op

CompareOp(op) == IF op \in Tests THEN "OP_CMPS" ELSE "OP_CMP"

JumpOp(op) ==
  CASE op = "LOP_JUMPIF"      -> "OP_JUMPIF"
    [] op = "LOP_JUMPIFNOT"   -> "OP_JUMPIFNOT"
    [] op = "LOP_JUMPIFEQ"    -> "OP_JUMPIFEQUAL"
    [] op = "LOP_JUMPIFLE"    -> "OP_JUMPIFLESSEQUAL"
    [] op = "LOP_JUMPIFLT"    -> "OP_JUMPIFLESS"
    [] op = "LOP_JUMPIFNOTEQ" -> "OP_JUMPIFNOTEQUAL"
    [] op = "LOP_JUMPIFNOTLE" -> "OP_JUMPIFGREATEREQUAL"
    [] op = "LOP_JUMPIFNOTLT" -> "OP_JUMPIFGREATER"

(* Mutant: one opcode confused.                                            *)
SetOpConfused(op) ==
  CASE op = "LOP_JUMPIFEQ"    -> "OP_SETIFEQUAL"
    [] op \in {"LOP_JUMPIFLE", "LOP_JUMPIFLT"} -> "OP_SETIFLESSEQUAL"
    [] op = "LOP_JUMPIFNOTEQ" -> "OP_SETIFNOTEQUAL"

SetOp(op) ==
  CASE op = "LOP_JUMPIFEQ"    -> "OP_SETIFEQUAL"
    [] op = "LOP_JUMPIFLE"    -> "OP_SETIFLESSEQUAL"
    [] op = "LOP_JUMPIFLT"    -> "OP_SETIFLESS"
    [] op = "LOP_JUMPIFNOTEQ" -> "OP_SETIFNOTEQUAL"

(* Allocate and emit the compare and what uses its outcome, r.             *)
EmitCompare(i, c, u, op, r) ==
  /\ made' = made \union {c, u}
  /\ obj' = [obj EXCEPT ![c] = [Blank EXCEPT !.kind = "other",
                                             !.addr = prog[i].addr],
                        ![u] = r]
  /\ code' = [code EXCEPT ![c] = [op |-> CompareOp(prog[i].op), at |-> i],
                          ![u] = [op |-> op, at |-> i]]

(* Mutant: the use of the outcome in front of the compare.                 *)
JumpEditsSwapped(m, i, c, u) == QueueAdd(QueueAdd(m, i - 1, u), i - 1, c)

(* The edits of a compare; indexes count from 0.                           *)
JumpEdits(m, i, c, u) == QueueAdd(QueueAdd(m, i - 1, c), i - 1, u)

(* Mutant: the second LOADB stays.                                         *)
SetEditsKeepingOne(m, i, c, u) == QueueRemove(JumpEdits(m, i, c, u), i)

SetEdits(m, i, c, u) ==
  QueueRemove(QueueRemove(JumpEdits(m, i, c, u), i), i + 1)

(* emit_opcode of a jump to the instruction r.                             *)
EmittedJump(i, r) ==
  [kind |-> "jump", ref |-> r, addr |-> prog[i].addr, jmp |-> obj[r].addr,
   ref_addr |-> prog[i].addr + obj[r].addr]

ParseCompare ==
  /\ lift.phase = "compares"
  /\ lift.i <= Len(prog)
  /\ LET i == lift.i
         b == prog[i]
         c == Fresh(made)
         u == Fresh(made \union {c})
     IN  IF b.op \notin Tests \union Binary
         THEN Advance /\ UNCHANGED <<obj, made, code, pm>>
         ELSE IF SetCmp(i)
         THEN /\ EmitCompare(i, c, u, SetOp(b.op),
                             [Blank EXCEPT !.kind = "other", !.addr = b.addr])
              /\ pm' = SetEdits(pm, i, c, u)
              /\ Advance
         ELSE IF Visitable(b.ref_addr)
         THEN /\ EmitCompare(i, c, u, JumpOp(b.op),
                             EmittedJump(i, VisitAddr(b.ref_addr)))
              /\ pm' = JumpEdits(pm, i, c, u)
              /\ Advance
         ELSE Enter("thrown") /\ UNCHANGED <<obj, made, code, pm>>
  /\ UNCHANGED <<p_dis, dis, cm, jc, prog, rm>>

ComparesParsed ==
  /\ lift.phase = "compares"
  /\ lift.i > Len(prog)
  /\ Enter("jumps")
  /\ UNCHANGED <<ilVars, jc, prog, code, pm, rm>>

-----------------------------------------------------------------------------
(***************************************************************************)
(* parse_jumps, then what is left of pm.run().                             *)
(***************************************************************************)

(* Mutant: the loop does not advance past the other instructions.          *)
ParseJumpStuck ==
  /\ lift.phase = "jumps"
  /\ lift.i <= Len(dis)
  /\ LET d == dis[lift.i] IN
       IF ~IsJump(d)
       THEN UNCHANGED <<obj, cm, lift>>
       ELSE IF Visitable(obj[d].ref_addr)
       THEN SetRef(d, VisitAddr(obj[d].ref_addr)) /\ Advance
       ELSE Enter("thrown") /\ UNCHANGED <<obj, cm>>
  /\ UNCHANGED <<made, p_dis, dis, jc, prog, code, pm, rm>>

ParseJump ==
  /\ lift.phase = "jumps"
  /\ lift.i <= Len(dis)
  /\ LET d == dis[lift.i] IN
       IF ~IsJump(d)
       THEN Advance /\ UNCHANGED <<obj, cm>>
       ELSE IF Visitable(obj[d].ref_addr)
       THEN SetRef(d, VisitAddr(obj[d].ref_addr)) /\ Advance
       ELSE Enter("thrown") /\ UNCHANGED <<obj, cm>>
  /\ UNCHANGED <<made, p_dis, dis, jc, prog, code, pm, rm>>

JumpsParsed ==
  /\ lift.phase = "jumps"
  /\ lift.i > Len(dis)
  /\ Enter("parse edits")
  /\ UNCHANGED <<ilVars, jc, prog, code, pm, rm>>

(* Make the next edit of the queue of m.                                   *)
EditNext(m) ==
  /\ lift.i <= Len(m.queue)
  /\ MakeEdit(m.queue[lift.i])
  /\ Advance
  /\ UNCHANGED <<obj, made, dis, cm, jc, prog, code, pm, rm>>

(* All made: commit.                                                       *)
EditsMade(m, next) ==
  /\ lift.i > Len(m.queue)
  /\ CommitDis(TRUE)
  /\ Enter(next)
  /\ UNCHANGED <<obj, made, p_dis, dis, jc, prog, code, pm, rm>>

ParseEdit == lift.phase = "parse edits" /\ EditNext(pm)

ParseEditsMade ==
  lift.phase = "parse edits" /\ EditsMade(pm, "parse commit")

ParseCommitted ==
  /\ lift.phase = "parse commit"
  /\ Idle
  /\ pm' = EmptyManager
  /\ Enter("operands")
  /\ UNCHANGED <<ilVars, jc, prog, code, rm>>

-----------------------------------------------------------------------------
(***************************************************************************)
(* The resolvers and rm.run().  resolve_instruction_operands only changes  *)
(* operands that are left out.                                             *)
(***************************************************************************)

(* Over the pending vector; a null reference here would be followed.       *)
ResolveJumpOperand ==
  /\ lift.phase = "operands"
  /\ lift.i <= Len(p_dis)
  /\ LET d == p_dis[lift.i] IN
       /\ IsJump(d) => obj[d].ref # NULL
       /\ obj' = IF IsJump(d) THEN [obj EXCEPT ![d] = Resolved(d)] ELSE obj
  /\ Advance
  /\ UNCHANGED <<made, p_dis, dis, cm, jc, prog, code, pm, rm>>

JumpOperandsResolved ==
  /\ lift.phase = "operands"
  /\ lift.i > Len(p_dis)
  /\ Enter("selfs")
  /\ UNCHANGED <<ilVars, jc, prog, code, pm, rm>>

(* Does the call of self need an OP_POPARG after it?                       *)
PopsArg(d) ==
  /\ code[d].op = "OP_SELF"
  /\ prog[code[d].at].op = "LOP_NAMECALL self"

ResolveInstruction ==
  /\ lift.phase = "selfs"
  /\ lift.i <= Len(p_dis)
  /\ LET d == p_dis[lift.i]
         a == Fresh(made)
     IN  IF PopsArg(d)
         THEN /\ Make(a, [Blank EXCEPT !.kind = "other", !.addr = obj[d].addr])
              /\ code' = [code EXCEPT ![a] = [op |-> "OP_POPARG",
                                              at |-> code[d].at]]
              /\ rm' = QueueAdd(rm, lift.i - 1, a)
         ELSE UNCHANGED <<obj, made, code, rm>>
  /\ Advance
  /\ UNCHANGED <<p_dis, dis, cm, jc, prog, pm>>

InstructionsResolved ==
  /\ lift.phase = "selfs"
  /\ lift.i > Len(p_dis)
  /\ Enter("resolve edits")
  /\ UNCHANGED <<ilVars, jc, prog, code, pm, rm>>

ResolveEdit == lift.phase = "resolve edits" /\ EditNext(rm)

ResolveEditsMade ==
  lift.phase = "resolve edits" /\ EditsMade(rm, "resolve commit")

(* lift returns; the caller runs junk_code.                                *)
ResolveCommitted ==
  /\ lift.phase = "resolve commit"
  /\ Idle
  /\ rm' = EmptyManager
  /\ Enter("junk")
  /\ UNCHANGED <<ilVars, jc, prog, code, pm>>

JunkPass ==
  /\ lift.phase = "junk"
  /\ JunkWork
  /\ UNCHANGED <<prog, code, pm, rm, lift>>

LiftReturn ==
  /\ lift.phase = "junk"
  /\ jc.phase = "done"
  /\ Enter("done")
  /\ UNCHANGED <<ilVars, jc, prog, code, pm, rm>>

LiftCommitStep == CommitStep /\ UNCHANGED <<jc, prog, code, pm, rm, lift>>

LiftNext ==
  \/ ParseInstruction \/ InstructionsParsed \/ FirstCommitted
  \/ ParseCompare \/ ComparesParsed
  \/ ParseJump \/ JumpsParsed
  \/ ParseEdit \/ ParseEditsMade \/ ParseCommitted
  \/ ResolveJumpOperand \/ JumpOperandsResolved
  \/ ResolveInstruction \/ InstructionsResolved
  \/ ResolveEdit \/ ResolveEditsMade \/ ResolveCommitted
  \/ JunkPass \/ LiftReturn
  \/ LiftCommitStep
  \/ lift.phase = "done" /\ UNCHANGED liftVars

LiftSpec == LiftInit /\ [][LiftNext]_liftVars /\ WF_liftVars(LiftNext)

-----------------------------------------------------------------------------
(***************************************************************************)
(* Properties.                                                             *)
(***************************************************************************)

Done == lift.phase = "done"

(* The lifted instructions made of bytecode instruction i: positions.      *)
MadeOf(i) == {k \in 1..Len(dis) : code[dis[k]].at = i}

(* Where the control that enters bytecode instruction i enters the lifted  *)
(* function.                                                               *)
Entry(i) ==
  CHOOSE k \in 1..Len(dis) :
    /\ code[dis[k]].at >= i
    /\ \A j \in 1..(k - 1) : code[dis[j]].at < i

PositionOf(d) == CHOOSE k \in 1..Len(dis) : dis[k] = d

ILUnconditional == {"OP_JUMP", "OP_JUMPBACK", "OP_INITFORLOOPG",
                    "OP_INITFORLOOPSPECIAL"}

(* Where the IL goes after position k.                                     *)
ILSuccessors(k) ==
  LET d == dis[k]
      op == code[d].op
  IN  (IF op = "OP_RETURN" \/ (IsJump(d) /\ op \in ILUnconditional) THEN {} ELSE {k + 1})
        \union (IF IsJump(d) THEN {PositionOf(obj[d].ref)} ELSE {})

(* The lifted function goes where the bytecode goes: after every bytecode  *)
(* instruction control enters exactly the translations of its successors,  *)
(* although every index and address changed on the way, compares became    *)
(* several instructions and pairs of LOADB and OP_NOPs went away.          *)
FlowPreserved ==
  Done =>
    \A i \in 1..Len(prog) :
      LET S  == MadeOf(i)
          to == {Entry(s) : s \in Successors(prog, i)}
      IN  IF S = {} THEN to = {Entry(i)}
          ELSE /\ ILSuccessors(Max(S)) = to
               /\ \A k \in S \ {Max(S)} : ~IsJump(dis[k])

(* Those that do something, and whether they are just the opcodes ops, one *)
(* behind the other.                                                       *)
Working(i) == {k \in MadeOf(i) : ~IsNop(dis[k])}

Expands(i, ops) ==
  \E k \in 0..Len(dis) :
    /\ Working(i) = (k + 1)..(k + Len(ops))
    /\ \A j \in 1..Len(ops) : code[dis[k + j]].op = ops[j]

(* Is i one of the LOADB that a compare jumps to or over?                  *)
InPair(i) ==
  prog[i].op = "LOP_LOADB" /\ \E j \in 1..(i - 1) : prog[j].to \in {i, i + 1}

(* The edits of the callbacks land where they belong: every bytecode       *)
(* instruction became its own instructions, in place; a compare became the *)
(* setting of the flag and its use; only LOADB pairs and NOPs left nothing *)
(* behind, and only the self call that reuses its register got OP_POPARG.  *)
InstructionsInPlace ==
  Done =>
    /\ \A k \in 2..Len(dis) : code[dis[k - 1]].at <= code[dis[k]].at
    /\ \A i \in 1..Len(prog) :
         LET op == prog[i].op IN
           CASE InPair(i) \/ op = "LOP_NOP" -> Expands(i, << >>)
             [] op = "LOP_NAMECALL self"    -> Expands(i, <<"OP_SELF", "OP_POPARG">>)
             [] op \in Tests                -> \E use \in ILOps : Expands(i, <<"OP_CMPS", use>>)
             [] op \in Binary               -> \E use \in ILOps : Expands(i, <<"OP_CMP", use>>)
             [] OTHER                       -> \E one \in ILOps : Expands(i, <<one>>)

(* The orders of its two operands for which the outcome of a compare is    *)
(* true (comments of architecture.hpp:243-262).                            *)
TrueWhen(op) ==
  CASE op \in {"OP_JUMPIFEQUAL", "OP_SETIFEQUAL"}         -> {"equal"}
    [] op \in {"OP_JUMPIFLESSEQUAL", "OP_SETIFLESSEQUAL"} -> {"less", "equal"}
    [] op \in {"OP_JUMPIFLESS", "OP_SETIFLESS"}           -> {"less"}
    [] op \in {"OP_JUMPIFNOTEQUAL", "OP_SETIFNOTEQUAL"}   -> Orders \ {"equal"}
    [] op = "OP_JUMPIFGREATEREQUAL"                    -> {"equal", "greater"}
    [] op = "OP_JUMPIFGREATER"                         -> {"greater"}

(* A lifted compare of two registers has the outcome of the bytecode's.    *)
ComparesKept ==
  Done =>
    \A i \in 1..Len(prog) :
      prog[i].op \in Binary =>
        TrueWhen(code[dis[Max(Working(i))]].op) = JumpsWhen(prog[i].op)

(* Lifting what the compiler emits never fails: every lookup of an address *)
(* finds an instruction, no commit is refused, no null is followed.        *)
NeverFails ==
  /\ lift.phase # "thrown"
  /\ cm.stage \notin {"thrown", "crashed"}

(* architecture.hpp:294 says of OP_INITFORLOOPSPECIAL that its operand is  *)
(* the "Loop iteration location(Jump)".  FORGPREP_INEXT and FORGPREP_NEXT   *)
(* break it: their jump is not lifted.                                     *)
IterationLocation ==
  Done =>
    \A d \in ToSet(dis) : code[d].op = "OP_INITFORLOOPSPECIAL" => IsJump(d)

(***************************************************************************)
(* What makes LiftTypeOK and NeverFails inductive.                         *)
(***************************************************************************)

(* A commit runs only where one is awaited.                                *)
Waits ==
  /\ lift.phase \notin Commits \union {"junk"} => Idle
  /\ lift.phase = "junk" /\ jc.phase # "commit" => Idle

(* d is what parse_instructions made of bytecode instruction i.            *)
Original(d, i) ==
  /\ d \in made
  /\ code[d] = [op |-> Translated(prog[i]), at |-> i]
  /\ obj[d].addr = prog[i].addr
  /\ IsJump(d) => prog[i].to # 0 /\ obj[d].ref_addr = prog[i].ref_addr

(* s holds what the first n bytecode instructions became.                  *)
Originals(s, n) == Len(s) = n /\ \A i \in 1..n : Original(s[i], i)

(* Until the edits are made both vectors are what parse_instructions left, *)
(* under the addresses of the bytecode.                                    *)
AsParsed ==
  /\ lift.phase = "parse" =>
       /\ dis = << >>
       /\ Originals(p_dis, lift.i - 1)
       /\ lift.i <= Len(prog) + 1
       /\ lift.i <= Len(prog) => lift.pc = prog[lift.i].addr
  /\ lift.phase = "first commit" =>
       /\ Originals(p_dis, Len(prog))
       /\ dis = IF Idle THEN p_dis ELSE << >>
       /\ ~cm.resolve
       /\ cm.stage \in {"idle", "strip", "validate", "publish"}
  /\ lift.phase \in {"compares", "jumps"} =>
       /\ Originals(p_dis, Len(prog))
       /\ dis = p_dis

(* The jumps that have no reference yet are in front of parse_jumps.       *)
Unset == {d \in made : IsJump(d) /\ obj[d].ref = NULL}

Targets ==
  /\ lift.phase \in {"parse", "first commit", "compares"} =>
       Unset \subseteq ToSet(p_dis)
  /\ lift.phase = "jumps" =>
       \A d \in Unset : \E k \in lift.i..Len(p_dis) : p_dis[k] = d
  /\ lift.phase \notin {"parse", "first commit", "compares", "jumps"} =>
       Unset = {}

(* No position of a queue is negative, and it inserts nothing twice.       *)
QueueOK(m, S) ==
  /\ m.sync >= 1
  /\ \A k \in 1..Len(m.queue) :
       /\ m.queue[k].pos >= 0
       /\ m.queue[k].act = "add" =>
            /\ m.queue[k].d \in S
            /\ \A l \in 1..Len(m.queue) :
                 m.queue[l].act = "add" /\ m.queue[l].d = m.queue[k].d => l = k

(* From edit n on it inserts nothing that p holds.                         *)
Awaited(m, n, p) ==
  \A k \in 1..Len(m.queue) :
    k >= n /\ m.queue[k].act = "add" => m.queue[k].d \notin ToSet(p)

Queues ==
  /\ QueueOK(pm, made)
  /\ QueueOK(rm, made)
  /\ lift.phase \in {"parse", "first commit"} => pm = EmptyManager
  /\ lift.phase \in {"compares", "jumps"} => Awaited(pm, 1, p_dis)
  /\ lift.phase = "parse edits" => Awaited(pm, lift.i, p_dis)
  /\ lift.phase \notin {"selfs", "resolve edits", "resolve commit"} =>
       rm = EmptyManager
  /\ lift.phase = "selfs" => Awaited(rm, 1, p_dis)
  /\ lift.phase = "resolve edits" => Awaited(rm, lift.i, p_dis)

(* After a commit no null pointer is pending until an edit pads.           *)
NoNulls ==
  \/ lift.phase \in {"operands", "selfs", "junk", "done"}
  \/ lift.phase \in {"parse commit", "resolve commit"} /\ Idle
  => NULL \notin ToSet(p_dis)

(* junk_code runs last.                                                    *)
JunkLast ==
  /\ lift.phase \notin {"junk", "done"} => jc = JunkIdle
  /\ jc.phase = "erase" => jc.i <= Len(jc.copy)
  /\ lift.phase = "done" => jc.phase = "done"

LiftInv ==
  /\ LiftTypeOK
  /\ NeverFails
  /\ ILInv
  /\ IsFiniteSet(made)
  /\ ProgramOK(prog)
  /\ Waits
  /\ AsParsed
  /\ Targets
  /\ Queues
  /\ NoNulls
  /\ JunkLast

(* Lifting returns.                                                        *)
LiftReturns == <>Done
=============================================================================
