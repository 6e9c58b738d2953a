---------------------------- MODULE LuauMultret ----------------------------
(***************************************************************************)
(* How the Luau lifter counts what it cannot see.  A call, a return or a   *)
(* table constructor whose last value is itself a call or "..." has no     *)
(* count in the bytecode (it is LUA_MULTRET): the count is whatever the    *)
(* last value leaves on the stack.  parse_instructions writes stack_top    *)
(* for it, the destination of the instruction before, and                  *)
(* resolve_instruction_operands turns that into a count for calls.         *)
(*                                                                         *)
(* The programs are one statement each, as the Luau compiler lays it out.  *)
(***************************************************************************)
EXTENDS Integers, Sequences, SequencesExt

CONSTANTS
  Calls,       (* The kinds of calls used, see CallKinds.                *)
  Statements,  (* The kinds of statements used, see StatementKinds.      *)
  Bases,       (* How many registers are taken by locals.                *)
  MaxValues,   (* Bounds the values of a statement and of a call.        *)
  Depth        (* Bounds how deep calls are nested in a value.           *)

(* f(...), x.y:m(...), l:m(...) with a local l, a builtin function.        *)
CallKinds == {"function", "method", "local_method", "builtin"}
StatementKinds == {"call", "return", "table"}

ASSUME MultretAssumption ==
  /\ Calls \subseteq CallKinds
  /\ Statements \subseteq StatementKinds
  /\ Bases \subseteq Nat \ {0}
  /\ MaxValues \in 0..253    (* The counts are bytes. *)
  /\ Depth \in Nat

LUA_MULTRET == -1

-----------------------------------------------------------------------------
(***************************************************************************)
(* The compiler.  b and c are the two counts of an instruction, one more   *)
(* than what they count, 0 for an open one, 1 where there is none; src is  *)
(* the register a NAMECALL reads; n, how many values were written in the   *)
(* source, is no part of the bytecode but what the lifter is to find out.  *)
(***************************************************************************)

Instruction(op, a, src, b, c, n) ==
  [op |-> op, a |-> a, src |-> src, b |-> b, c |-> c, n |-> n]

Load(a) == Instruction("LOP_GETIMPORT", a, 0, 1, 1, 0)

Simple == [kind : {"value", "varargs"}, args : {<< >>}]

Lists(S) == UNION {[1..n -> S] : n \in 0..MaxValues}

(* Of builtins only the calls that use a plain FASTCALL.                   *)
Open(list) == list # << >> /\ Last(list).kind # "value"

CallsOf(S) ==
  {e \in [kind : Calls, args : Lists(S)] :
     e.kind = "builtin" => Open(e.args)}

Nested[n \in 0..Depth] ==
  IF n = 0 THEN Simple ELSE Simple \union CallsOf(Nested[n - 1])

Expressions == Nested[Depth]

(* Values to consecutive registers from a on, the last one open: code gives*)
(* each value's.                                                           *)
CompileList(code, list, a) ==
  FlattenSeq([i \in 1..Len(list) |-> code[list[i]][i = Len(list)][a + i - 1]])

Count(list, self) == IF Open(list) THEN 0 ELSE Len(list) + self + 1

CompileCall(code, e, a, results) ==
  LET self == IF e.kind \in {"method", "local_method"} THEN 1 ELSE 0
      args == CompileList(code, e.args, a + 1 + self)
      call == Instruction("LOP_CALL", a, 0, Count(e.args, self), results,
                          Len(e.args) + self)
      namecall(src) == Instruction("LOP_NAMECALL", a, src, 1, 1, 0)
      fastcall == Instruction("LOP_FASTCALL", 0, 0, 1, 1, 0)
  IN  CASE e.kind = "function" -> <<Load(a)>> \o args \o <<call>>
        [] e.kind = "method" -> <<Load(a)>> \o args \o <<namecall(a), call>>
        [] e.kind = "local_method" -> args \o <<namecall(0), call>>
        [] e.kind = "builtin" -> args \o <<fastcall, Load(a), call>>

(* compileExprTempMultRet if open, else compileExprTempTop.                *)
CompileExpr(code, e, open, a) ==
  LET results == IF open THEN 0 ELSE 2 IN
    CASE e.kind = "value"   -> <<Load(a)>>
      [] e.kind = "varargs" ->
           <<Instruction("LOP_GETVARARGS", a, 0, results, 1, 0)>>
      [] OTHER              -> CompileCall(code, e, a, results)

Compile[n \in 0..Depth] ==
  [e \in Nested[n] |-> [open \in BOOLEAN |-> [a \in Nat |->
     CompileExpr(Compile[n - 1], e, open, a)]]]

CompileStatement(s) ==
  LET a == s.base
      n == Len(s.values)
      code == Compile[Depth]
  IN  CASE s.kind = "call"   -> CompileCall(code, s.values[1], a, 1)
        [] s.kind = "return" ->
             CompileList(code, s.values, a)
               \o <<Instruction("LOP_RETURN", a, 0, Count(s.values, 0), 1, n)>>
        [] s.kind = "table"  ->
             <<Instruction("LOP_NEWTABLE", a, 0, 1, 1, 0)>>
               \o CompileList(code, s.values, a + 1)
               \o <<Instruction("LOP_SETLIST", a, 0, Count(s.values, 0), 1, n)>>

Programs ==
  {CompileStatement(s) : s \in
     [kind : Statements \ {"call"}, base : Bases,
      values : Lists(Expressions) \ {<< >>}]
     \union [kind : Statements \intersect {"call"}, base : Bases,
             values : {<<e>> : e \in CallsOf(Expressions)}]}

-----------------------------------------------------------------------------
VARIABLES
  prog,        (* The bytecode.                                          *)
  lifted,      (* The instructions, with marks for the open counts.      *)
  stack_top,
  at           (* The phase and the loop counter.                        *)

multretVars == <<prog, lifted, stack_top, at>>

MultretInit ==
  /\ prog \in Programs
  /\ lifted = << >>
  /\ stack_top = 0
  /\ at = [phase |-> "parse", i |-> 1]

(* Mutant: the destination of a call is not seen as one.                   *)
TopWithoutCalls(x) ==
  IF x.op \in {"LOP_GETIMPORT", "LOP_GETVARARGS", "LOP_NAMECALL", "LOP_NEWTABLE"}
  THEN x.a ELSE 0

(* append_top: the operand that op_table calls a destination, 0 if none.   *)
AppendTop(x) ==
  IF x.op \in {"LOP_GETIMPORT", "LOP_GETVARARGS", "LOP_CALL", "LOP_NAMECALL",
               "LOP_NEWTABLE"}
  THEN x.a ELSE 0

(* Mutant: every instruction is logged.                                    *)
LoggedAlways(x) == TRUE

(* A NAMECALL that writes the register it reads is not logged.             *)
Logged(x) == x.op = "LOP_NAMECALL" => x.a # x.src

(* What the disassembler makes of the counts: one less (val_multret), and  *)
(* one less again in a SETLIST (C_dec).                                    *)
Decoded(x) == [x EXCEPT !.b = IF x.op = "LOP_SETLIST" THEN @ - 2 ELSE @ - 1,
                        !.c = @ - 1]

(* val_multret in the lifter.                                              *)
Counted(v) ==
  IF v = LUA_MULTRET THEN [val |-> stack_top, multret |-> TRUE]
                     ELSE [val |-> v, multret |-> FALSE]

ParseOperands ==
  /\ at.phase = "parse"
  /\ at.i <= Len(prog)
  /\ LET x == Decoded(prog[at.i]) IN
       /\ lifted' = Append(lifted, [x EXCEPT !.b = Counted(@), !.c = Counted(@)])
       /\ stack_top' = IF Logged(x) THEN AppendTop(x) ELSE stack_top
  /\ at' = [at EXCEPT !.i = @ + 1]
  /\ UNCHANGED prog

OperandsParsed ==
  /\ at.phase = "parse"
  /\ at.i > Len(prog)
  /\ at' = [phase |-> "resolve", i |-> 1]
  /\ UNCHANGED <<prog, lifted, stack_top>>

(* Mutant: the register is taken for the count.                            *)
NotRelative(v, a) == v

(* dis.reg is a std::uint16_t.                                             *)
Relative(v, a) == (v - a) % 65536

(* An open count of results stays when it would become 0.                  *)
ResolveCall(x) ==
  LET arguments == IF x.b.multret THEN Relative(x.b.val, x.a) ELSE x.b.val
      results == IF x.c.multret /\ Relative(x.c.val, x.a) # 0
                 THEN Relative(x.c.val, x.a) ELSE x.c.val
  IN  [x EXCEPT !.b.val = arguments, !.c.val = results]

ResolveInstructionOperands ==
  /\ at.phase = "resolve"
  /\ at.i <= Len(lifted)
  /\ LET x == lifted[at.i] IN
       lifted' = IF x.op = "LOP_CALL" THEN [lifted EXCEPT ![at.i] = ResolveCall(x)]
                                      ELSE lifted
  /\ at' = [at EXCEPT !.i = @ + 1]
  /\ UNCHANGED <<prog, stack_top>>

OperandsResolved ==
  /\ at.phase = "resolve"
  /\ at.i > Len(lifted)
  /\ at' = [phase |-> "done", i |-> 1]
  /\ UNCHANGED <<prog, lifted, stack_top>>

MultretNext ==
  \/ ParseOperands
  \/ OperandsParsed
  \/ ResolveInstructionOperands
  \/ OperandsResolved
  \/ at.phase = "done" /\ UNCHANGED multretVars

MultretSpec == MultretInit /\ [][MultretNext]_multretVars

-----------------------------------------------------------------------------
(***************************************************************************)
(* Properties.                                                             *)
(***************************************************************************)

(* Instruction p of code is the last one logged of the first k.            *)
LastLogged(code, k, p) ==
  /\ p \in 1..k /\ Logged(code[p])
  /\ \A q \in (p + 1)..k : ~Logged(code[q])

Resolved(i) ==
  \/ at.phase = "done"
  \/ at.phase = "resolve" /\ i < at.i

(* Until resolve_instruction_operands comes by, the open count of a call   *)
(* is the register behind its last argument: stack_top is always that of   *)
(* the last instruction logged, and that instruction the one that wrote the*)
(* last argument.  From then on it is how many arguments there are.        *)
CountRight(i) ==
  LET x == lifted[i] IN
    /\ x.op = "LOP_CALL" =>
         x.b.val = x.n + (IF x.b.multret /\ ~Resolved(i) THEN x.a ELSE 0)
    /\ x.op = "LOP_RETURN" =>
         (x.b.multret => x.b.val = x.a + x.n - 1)

MultretInv ==
  /\ at.phase \in {"parse", "resolve", "done"}
  /\ at.i \in 1..(Len(prog) + 1)
  /\ Len(lifted) = IF at.phase = "parse" THEN at.i - 1 ELSE Len(prog)
  /\ at.phase = "parse" =>
       \A p \in 1..Len(prog) :
         LastLogged(prog, at.i - 1, p) => stack_top = AppendTop(prog[p])
  /\ \A i \in 1..Len(lifted) : CountRight(i)

Of(op) == {i \in 1..Len(lifted) : at.phase = "done" /\ lifted[i].op = op}

(* The second operand of a call is its "Arguement count(Val)"              *)
(* (architecture.hpp:746): the arguments written in the source, an open    *)
(* last one and the object of a method included.  The IR lifter reads that *)
(* many registers after the function's.                                    *)
ArgumentsCounted ==
  \A i \in Of("LOP_CALL") : lifted[i].b.val = lifted[i].n

(* An open return names the register of its last value, however deep the   *)
(* calls nested in the values before it (stack_top).                       *)
OpenReturnEnds ==
  \A i \in Of("LOP_RETURN") :
    lifted[i].b.multret => lifted[i].b.val = lifted[i].a + lifted[i].n - 1

(* The third operand of a SETLIST is the "Exact table size(Val)"           *)
(* (architecture.hpp:305).  Programs with "table" break it: the count is   *)
(* decremented twice.                                                      *)
TableSizes ==
  \A i \in Of("LOP_SETLIST") : lifted[i].b.val = lifted[i].n
=============================================================================
