------------------------------ MODULE Decompile ------------------------------
(***************************************************************************)
(* From the IL of a function to its lines: the passes of the AST           *)
(* (transformers_default.hpp) and the IR lifter over functions without     *)
(* jumps.  The function is built first, one statement of the source for    *)
(* each action, as the Luau compiler lays the statement out: n locals are  *)
(* in the registers from 0, what is temporary in those above.              *)
(*                                                                         *)
(* Of the passes those are left out that do nothing where there is no jump *)
(* and no function inside, and those whose marks the lifter does not read. *)
(* The code numbers the nodes from 0.                                      *)
(***************************************************************************)
EXTENDS LineMeaning

CONSTANTS
  MaxSize,  \* size of a function
  Traps     \* what the functions have that is known to be lifted wrong
ASSUME DecompileAssumption ==
  /\ MaxSize \in Nat
  /\ Traps \subseteq {"two_arguments", "return_used", "empty_after_list", "method_above"}

VARIABLES
  phase,   \* "build", then "lift"
  code,    \* the instructions
  locals,  \* the registers of the locals are 0..(locals - 1)
  size     \* statements so far
vars == <<phase, code, locals, size, lvars>>

I(op, ops) == [op |-> op, ops |-> ops]
\* The constants of the function: two globals that are functions, one that
\* is a variable, a key and a number.
f == 1
k == 2
g == 3
key == 4
number == 5
\* The registers of the locals, and the first above them.
Locals == 0..(locals - 1)
Temp == locals

----------------------------------------------------------------------------
(* The function.                                                           *)

Reads(i) == Range(Operands(Lexed(i), {"source", "compare", "table_reg"}))
              \cup (IF i.op = "OP_CCALL" THEN {i.ops[1] + j : j \in 0..i.ops[2]} ELSE {})
              \cup (IF i.op = "OP_RETURN" THEN Upto(i.ops[1], i.ops[2]) ELSE {})
              \cup (IF i.op \in {"OP_SETTABLE", "OP_SETTABLEK", "OP_SETTABLEN"}
                    THEN {i.ops[2]} ELSE {})
Writes(i) == Range(operand_kind(Lexed(i), "dest"))
Effect(i) == i.op \in {"OP_CCALL", "OP_SETGLOBAL", "OP_SETTABLE", "OP_SETTABLEK", "OP_SETTABLEN",
                       "OP_NEWTABLE"}
UsesOf(p, r) ==
  {q \in (p + 1)..Len(code) : r \in Reads(code[q])
                               /\ \A o \in (p + 1)..(q - 1) : r \notin Writes(code[o])}

\* What is said of every instruction that only computes a value is tried
\* in smaller functions.
Common == {"OP_LOADGLOBAL", "OP_ADDK", "OP_MOVE", "OP_CCALL", "OP_SETGLOBAL", "OP_NEWTABLE",
           "OP_SETTABLEK", "OP_RETURN"}
Weight(chunk) == IF \A p \in DOMAIN chunk : chunk[p].op \in Common THEN 2 ELSE 3

\* There is room for a statement, and none behind a return.
Room == /\ phase = "build" /\ size + 2 <= MaxSize
        /\ \A p \in DOMAIN code : code[p].op # "OP_RETURN"
Statement(chunk, declared) ==
  /\ size + Weight(chunk) <= MaxSize
  /\ \/ "empty_after_list" \in Traps
     \/ ~\E p \in DOMAIN code, q \in DOMAIN chunk :
          code[p].op = "OP_SETLIST" /\ chunk[q].op = "OP_NEWTABLE" /\ chunk[q].ops[3] = 0
  /\ code' = code \o chunk
  /\ locals' = locals + declared
  /\ size' = size + Weight(chunk)
  /\ UNCHANGED <<phase, lvars>>

\* The value of an expression in a register.
LoadOf(r) == { <<I("OP_LOADINT", <<r, 7>>)>>, <<I("OP_LOADBOOL", <<r, 1>>)>>,
               <<I("OP_LOADKVAL", <<r, number>>)>>, <<I("OP_LOADNONE", <<r>>)>>,
               <<I("OP_LOADGLOBAL", <<r, g>>)>>, <<I("OP_NEWTABLE", <<r, 0, 0>>)>> }
UseOf(r) == UNION { { <<I("OP_ADDK", <<r, i, number>>)>>, <<I("OP_NOT", <<r, i>>)>>,
                      <<I("OP_GETTABLEK", <<r, i, key>>)>>,
                      <<I("OP_GETTABLEN", <<r, i, 1>>)>> } : i \in Locals }
UseOfTwo(r) == UNION { { <<I("OP_SUB", <<r, i, j>>)>>, <<I("OP_GETTABLE", <<r, i, j>>)>>,
                         <<I("OP_CMP", <<i, j>>), I("OP_SETIFLESS", <<r>>)>>,
                         <<I("OP_MOVE", <<Temp, i>>), I("OP_MOVE", <<Temp + 1, j>>),
                           I("OP_CONCAT", <<r, Temp, Temp + 1>>)>> } : i, j \in Locals }
ArgOf(r) == { <<I("OP_MOVE", <<r, i>>)>> : i \in Locals }
              \cup { <<I("OP_LOADGLOBAL", <<r, g>>)>>, <<I("OP_LOADINT", <<r, 7>>)>> }
ListOf(r) ==
  { <<I("OP_NEWTABLE", <<r, 0, 1>>)>> \o member \o <<I("OP_SETLIST", <<r, r + 1, 1, 1>>)>>
      : member \in ArgOf(r + 1) }
ArgsOf(r, args) ==
  {FlattenSeq(a) : a \in {a \in [1..args -> UNION {ArgOf(r + i) : i \in 0..(args - 1)}] :
                            \A i \in 1..args : a[i] \in ArgOf(r + i - 1)}}
MaxArgs == IF "two_arguments" \in Traps THEN 2 ELSE 1
\* A builtin function is loaded behind its arguments.
BuiltinOf(fn, r, results) ==
  { <<I("OP_MOVE", <<r + 1, i>>), I("OP_LOADGLOBAL", <<r, fn>>), I("OP_CCALL", <<r, 1, results>>)>>
      : i \in Locals }
CallOf(fn, r, results) ==
  UNION { {<<I("OP_LOADGLOBAL", <<r, fn>>)>> \o a \o <<I("OP_CCALL", <<r, args, results>>)>>
             : a \in ArgsOf(r + 1, args)} : args \in 0..MaxArgs }
\* What a local may be declared with; globals take their value from a
\* temporary.
ValueOf(r) == LoadOf(r) \cup UseOf(r) \cup UseOfTwo(r) \cup ListOf(r) \cup CallOf(f, r, 1)
              \cup BuiltinOf(f, r, 1)

Declare == Room /\ \E chunk \in ValueOf(Temp) : Statement(chunk, 1)
DeclareCopy == Room /\ \E i \in Locals : Statement(<<I("OP_MOVE", <<Temp, i>>)>>, 1)
\* A local is computed in place, the result of a call and a list are moved.
AssignLocal == Room /\ \E i \in Locals : \E chunk \in UseOf(i) \cup UseOfTwo(i) \cup LoadOf(i) :
  Statement(chunk, 0)
AssignMoved == Room /\ \E i \in Locals : \E call \in CallOf(f, Temp, 1) \cup ListOf(Temp) :
  Statement(Append(call, I("OP_MOVE", <<i, Temp>>)), 0)
SetGlobalTo == Room /\ \E chunk \in ValueOf(Temp) \cup {<<I("OP_GETVARARGS", <<Temp, 1>>)>>} :
  Statement(Append(chunk, I("OP_SETGLOBAL", <<Temp, g>>)), 0)
SetGlobalCopy == Room /\ \E i \in Locals : Statement(<<I("OP_SETGLOBAL", <<i, g>>)>>, 0)
SetMember == Room /\ \E i, j \in Locals :
  \E set \in {I("OP_SETTABLEK", <<j, i, key>>), I("OP_SETTABLEN", <<j, i, 1>>),
              I("OP_SETTABLE", <<j, i, j>>)} : Statement(<<set>>, 0)
CallStatement == Room /\ \E call \in CallOf(k, Temp, 0) \cup BuiltinOf(k, Temp, 0) :
  Statement(call, 0)
\* A method of a global; the parameter that the method passes by itself is
\* left out of the arguments where the register is 0 only.
CallMethod ==
  /\ Room
  /\ Temp = 0 \/ "method_above" \in Traps
  /\ Statement(<<I("OP_LOADGLOBAL", <<Temp, g>>), I("OP_SELF", <<Temp, Temp, key>>),
                 I("OP_POPARG", <<Temp>>), I("OP_CCALL", <<Temp, 1, 0>>)>>, 0)
CallNested == Room /\ \E call \in CallOf(f, Temp + 1, 1) :
  Statement(<<I("OP_LOADGLOBAL", <<Temp, k>>)>> \o call \o <<I("OP_CCALL", <<Temp, 1, 0>>)>>, 0)
ReturnLocal == Room /\ \E i \in Locals :
  /\ "return_used" \in Traps \/ \A p \in DOMAIN code : i \in Writes(code[p]) => UsesOf(p, i) = {}
  /\ Statement(<<I("OP_RETURN", <<i, 1>>)>>, 0)

----------------------------------------------------------------------------
\* The passes in their order.
Analyzed(all) ==
  set_multret_routines(set_lv(set_list_routines(set_string_routines(set_call_routines(
    set_pops(set_returns(set_exit_exprs(visit_all(all))))))), 0))

\* The compiler ends every function with a return of its own.
Returned == Append(code, I("OP_RETURN", <<0, 0>>))
gen_ast ==
  /\ phase = "build"
  /\ phase' = "lift"
  /\ code' = Returned
  /\ nodes' = Analyzed(Nodes(Returned))
  /\ lifter' = Lifter(0)
  /\ at' = 0
  /\ UNCHANGED <<locals, size>>

Lift ==
  /\ phase = "lift"
  /\ \/ LiftLoad \/ LiftMove \/ LiftGlobal \/ LiftArith \/ LiftUnary \/ LiftConcat \/ LiftCall
     \/ LiftReturn \/ LiftCompare \/ LiftSetIf \/ LiftGetTable \/ LiftSetTable \/ LiftNewTable
     \/ LiftSetList \/ LiftSelf \/ LiftPopArg \/ LiftVarargs
  /\ UNCHANGED <<phase, code, locals, size>>

Init ==
  /\ phase = "build" /\ code = <<>> /\ locals = 0 /\ size = 0
  /\ nodes = <<>> /\ lifter = Lifter(0) /\ at = 0
Next ==
  \/ Declare \/ DeclareCopy \/ AssignLocal \/ AssignMoved \/ SetGlobalTo \/ SetGlobalCopy
  \/ SetMember \/ CallStatement \/ CallNested \/ CallMethod \/ ReturnLocal \/ gen_ast \/ Lift
Spec == Init /\ [][Next]_vars

Done == phase = "lift" /\ at = Len(nodes)

----------------------------------------------------------------------------
(* Properties.                                                             *)

\* A value that is used once is written where it is used, however far from
\* where it was computed (optimizations.hpp:16 warns of the like).  Programs
\* in which nothing happens in between that the value depends on, or that
\* depends on it:
Constant(i) == \/ i.op \in {"OP_LOADINT", "OP_LOADBOOL", "OP_LOADKVAL", "OP_LOADNONE"}
               \/ i.op = "OP_LOADGLOBAL" /\ i.ops[2] \in Functions
Depends(i) == \/ i.op \in {"OP_GETTABLE", "OP_GETTABLEK", "OP_GETTABLEN"}
              \/ i.op = "OP_LOADGLOBAL" /\ ~Constant(i)
Ordered ==
  \A p \in DOMAIN code : \A r \in Writes(code[p]) : \A q \in UsesOf(p, r) :
    UsesOf(p, r) = {q} /\ ~Constant(code[p]) =>
      \A o \in (p + 1)..(q - 1) :
        /\ ~Effect(code[o]) /\ ~(Effect(code[p]) /\ Depends(code[o]))
        /\ \A b \in 1..p : Writes(code[o]) \cap Writes(code[b]) = {}

\* The lines compute what the instructions compute: the same calls with the
\* same arguments, the same writes to globals and members, the same result,
\* in the same order.  The passes that mark routines (calls.cpp, concats.cpp,
\* tables.cpp), set_lv, which decides which registers are variables, and the
\* opcodes of the lifter have to agree for that, over registers that are
\* used again for other values.
LinesMeaningKept == Done /\ Ordered => LinesMeaning(lifter.lines) = Meaning(Nodes(code))

\* Every call of the code is written exactly once, wherever its result goes:
\* an expression that a register remembers is not dropped when the register
\* is used again, and one that is used twice is a variable (set_lv).
\* lexer.cpp:20 says of a call "Operands are dest, int(arg), int(return)";
\* with two arguments what counts as its results is the former.
CallsKept == Done => CallsOf(lifter.lines) = Len(SelectSeq(code, LAMBDA i : i.op = "OP_CCALL"))
=============================================================================
