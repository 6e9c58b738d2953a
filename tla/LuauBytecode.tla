---------------------------- MODULE LuauBytecode ----------------------------
(***************************************************************************)
(* The functions the Luau lifter is given: disassembled bytecode, as the   *)
(* Luau V3 compiler lays it out.                                           *)
(*                                                                         *)
(* An instruction is its opcode, its length and address in words, and the  *)
(* instruction it jumps to (0: none), as an index from 1 as well as in the *)
(* two forms of the jump operand of the disassembler, jmp and ref_addr.    *)
(* Registers and constants are left out, but for what decides control:     *)
(* whether a NAMECALL writes the register it reads (self).                 *)
(***************************************************************************)
EXTENDS Integers, Sequences, SequencesExt

CONSTANTS
  Plain,      (* The opcodes used that only fall through.                *)
  Jumps,      (* The opcodes used that jump and have no compare.         *)
  Compares,   (* The opcodes used that compare and jump.                 *)
  Common,     (* The opcodes of the longer functions.                    *)
  AnyUnits,   (* Up to this length a function has any of the opcodes.    *)
  MaxUnits    (* Bounds a function, its final RETURN not counted.        *)

Unconditional == {"LOP_JUMP", "LOP_JUMPBACK", "LOP_JUMPX", "LOP_FORGPREP",
                  "LOP_FORGPREP_INEXT", "LOP_FORGPREP_NEXT"}

Conditional == {"LOP_FORNPREP", "LOP_FORNLOOP", "LOP_FORGLOOP"}

(* Compare-and-jump opcodes: on one register, on two, with a constant.     *)
Tests == {"LOP_JUMPIF", "LOP_JUMPIFNOT"}
Binary == {"LOP_JUMPIFEQ", "LOP_JUMPIFLE", "LOP_JUMPIFLT", "LOP_JUMPIFNOTEQ",
           "LOP_JUMPIFNOTLE", "LOP_JUMPIFNOTLT"}
WithConstant == {"LOP_JUMPXEQKNIL", "LOP_JUMPXEQKB", "LOP_JUMPXEQKN",
                 "LOP_JUMPXEQKS"}

(* A NAMECALL that is its own source stands for one more opcode here.      *)
FallThrough == {"LOP_MOVE", "LOP_NOP", "LOP_NAMECALL", "LOP_NAMECALL self"}

ASSUME OpcodesAssumption ==
  /\ Plain \subseteq FallThrough
  /\ Jumps \subseteq Unconditional \union Conditional
  /\ Compares \subseteq Tests \union Binary \union WithConstant
  /\ Common \subseteq Plain \union Jumps \union Compares
  /\ AnyUnits \in Nat
  /\ MaxUnits \in Nat

(* The compares that never have their outcome made a value.                *)
JumpOnly == Tests \union {"LOP_JUMPIFNOTLE", "LOP_JUMPIFNOTLT"}

(* The instructions with a second word, AUX.                               *)
Words(op) ==
  IF op \in Binary \union WithConstant
            \union {"LOP_FORGLOOP", "LOP_NAMECALL", "LOP_NAMECALL self"}
  THEN 2 ELSE 1

-----------------------------------------------------------------------------
(***************************************************************************)
(* The compiler emits a function unit by unit.  A unit is one instruction, *)
(* or a compare whose outcome becomes a value: the compare, jumping to the *)
(* second of two LOADB that nothing else jumps to; the first LOADB skips   *)
(* the second (compileExprBinary).  Jumps lead to the start of a unit.     *)
(***************************************************************************)

Unit == [op : Plain, to : {0}, set : {FALSE}]
          \union [op : Jumps, to : 1..(MaxUnits + 1), set : {FALSE}]
          \union [op : Compares, to : 1..(MaxUnits + 1), set : {FALSE}]
          \union [op : Compares \ JumpOnly, to : {0}, set : {TRUE}]

Functions ==
  UNION {{us \in [1..n -> Unit] :
            \A k \in 1..n : /\ us[k].to <= n + 1
                            /\ n > AnyUnits => us[k].op \in Common} :
           n \in 0..MaxUnits}

(* Where unit k starts.                                                    *)
StartOf(us, k) ==
  LET at[j \in 1..k] == IF j = 1 THEN 1
                        ELSE at[j - 1] + (IF us[j - 1].set THEN 3 ELSE 1)
  IN  at[k]

Instruction(op, to) == [op |-> op, to |-> to, len |-> Words(op)]

(* The instructions of unit k.                                             *)
Emitted(us, k) ==
  LET u == us[k]
      s == StartOf(us, k)
  IN  IF u.set
      THEN <<Instruction(u.op, s + 2), Instruction("LOP_LOADB", s + 3),
             Instruction("LOP_LOADB", s + 3)>>
      ELSE <<Instruction(u.op, IF u.to = 0 THEN 0 ELSE StartOf(us, u.to))>>

Code(us) ==
  FlattenSeq([k \in 1..Len(us) |-> Emitted(us, k)])
    \o <<Instruction("LOP_RETURN", 0)>>

(* What disassemble(proto) makes of it: the address of every instruction,  *)
(* and the jump operand, relative to the word after the first.             *)
Disassembled(code) ==
  LET at[i \in 1..Len(code)] ==
        IF i = 1 THEN 0 ELSE at[i - 1] + code[i - 1].len
      jmp(i) == IF code[i].to = 0 THEN 0 ELSE at[code[i].to] - at[i] - 1
  IN  [i \in 1..Len(code) |->
         [op |-> code[i].op, to |-> code[i].to, len |-> code[i].len,
          addr |-> at[i], jmp |-> jmp(i), ref_addr |-> jmp(i) + at[i] + 1]]

-----------------------------------------------------------------------------
(* Where the virtual machine may go after instruction i of a program.      *)
Successors(prog, i) ==
  (IF prog[i].op \in Unconditional \union {"LOP_LOADB", "LOP_RETURN"} THEN {} ELSE {i + 1})
    \union ({prog[i].to} \ {0})

(* How two operands can compare (numbers are unordered if one is NaN), and *)
(* for which of these a compare jumps.                                     *)
Orders == {"less", "equal", "greater", "unordered"}

JumpsWhen(op) ==
  CASE op = "LOP_JUMPIFEQ"    -> {"equal"}
    [] op = "LOP_JUMPIFLE"    -> {"less", "equal"}
    [] op = "LOP_JUMPIFLT"    -> {"less"}
    [] op = "LOP_JUMPIFNOTEQ" -> Orders \ {"equal"}
    [] op = "LOP_JUMPIFNOTLE" -> Orders \ {"less", "equal"}
    [] op = "LOP_JUMPIFNOTLT" -> Orders \ {"less"}
-----------------------------------------------------------------------------
(***************************************************************************)
(* What all of these functions have in common.                             *)
(***************************************************************************)

Opcodes == FallThrough \union Unconditional \union Conditional \union Tests
             \union Binary \union WithConstant \union {"LOP_LOADB", "LOP_RETURN"}

Inst == [op : Opcodes, to : Nat, len : {1, 2}, addr : Nat, jmp : Int, ref_addr : Int]

(* A compare whose outcome becomes a value, with its two LOADB.            *)
Pair(prog, j) ==
  /\ j + 3 \in 1..Len(prog)
  /\ prog[j].op \in Compares \ JumpOnly /\ prog[j].to = j + 2
  /\ prog[j + 1].op = "LOP_LOADB" /\ prog[j + 1].to = j + 3
  /\ prog[j + 2].op = "LOP_LOADB" /\ prog[j + 2].to = j + 3
  /\ prog[j + 3].op # "LOP_LOADB"

(* Any other instruction but a LOADB jumps if its opcode does, to one that *)
(* is no LOADB.                                                            *)
Single(prog, i) ==
  /\ prog[i].op \in Plain \union Jumps \union Compares \union {"LOP_RETURN"}
  /\ prog[i].op \in Jumps \union Compares => prog[i].to # 0
  /\ prog[i].op \in Plain \union {"LOP_RETURN"} => prog[i].to = 0
  /\ prog[i].to # 0 => prog[prog[i].to].op # "LOP_LOADB"

ProgramOK(prog) ==
  /\ prog \in Seq(Inst)
  /\ prog # << >>
  /\ \A i \in 1..Len(prog) :
       /\ prog[i].to \in 0..Len(prog)
       /\ prog[i].jmp = IF prog[i].to = 0 THEN 0
                        ELSE prog[prog[i].to].addr - prog[i].addr - 1
       /\ prog[i].to # 0 => prog[i].ref_addr = prog[prog[i].to].addr
       /\ prog[i].addr = 0 <=> i = 1
       /\ prog[i].op = "LOP_RETURN" <=> i = Len(prog)
       /\ \/ Pair(prog, i)
          \/ Single(prog, i)
          \/ \E j \in 1..Len(prog) : Pair(prog, j) /\ i \in {j + 1, j + 2}
  /\ \A i \in 1..(Len(prog) - 1) : prog[i + 1].addr = prog[i].addr + prog[i].len
=============================================================================
