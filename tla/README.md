# Luramas in TLA+

Luramas decompiles Luau bytecode. A function passes through a chain of
representations, each a mutable structure that the next stage reads while its
own passes still edit it. This directory models that chain, from the bytecode
to the text: TLA+ modules translated from the code, TLC configurations that check them
on small instances, and TLAPS proofs for every size of the instance.

Paths below are relative to `src/Luramas/framework/` unless they start with
`src/`. To check a run: `tlc -config <cfg> <module>.tla`; to check the proofs:
`tlapm <module>.tla` on each of the modules that section 4 names.

## 1. Inventory

    bytecode -> disassembler -> Luau lifter -> IL container -> junk_code
             -> lexer -> AST (23 + 3 passes) -> IR lifter -> IR lines -> text

| Component | State it keeps | Operations | Hard behaviour | Correct when |
|---|---|---|---|---|
| Luau disassembler (`disassembler/luau/V3`) | none; returns records | decode one instruction: address in words, length, operands, absolute jump target | address is counted in words, the vector in instructions | every jump names the first word of an instruction |
| IL container (`il/il/il.hpp`, `resolver`, `validate`) | pending vector `p_dis`, committed vector `dis`, shared instruction records, closures, kvalues, bitcode buffers | `append_dis`, `remove_dis`, `commit_dis(resolve)`, visitors by address and by reference | both vectors share the instructions; numbering writes through the sharing; commit can throw halfway | addresses are positions, jump operands agree with references, no edit disturbs what is committed |
| Parser and resolver managers (`il/lifter/parser/parser.hpp`, `il/lifter/resolver/resolver.hpp`) | callbacks, the queue of edits, `sync_idx` | `append`, `remove` by index or pointer, `run` | an edit's position is computed before the edits in front of it are made | one run is one simultaneous edit of the committed vector |
| Luau lifter (`il/lifter/langs/luau/V3`) | `stack_top`, the two managers | `parse_instructions`, `parse_compares`, `parse_jumps`, two resolvers | look-ahead; several commits; references taken before edits | never throws on compiled code; control flows as in the bytecode |
| junk_code (`il/il/transformers/transformers.cpp`) | a copy of the vector | remove every unreferenced `OP_NOP` | decides by the committed vector, edits the pending one | removes just these; no jump is left hanging |
| IL emitter, architecture tables (`il/il/architecture`) | tables | `emit_opcode`, operand emission, bitcode | a byte written one past the byte allocated | what is emitted decodes to the same |
| IL tools, lexer (`il/il/tools`, `il/lexer`) | none | format, classify | operands are later found by kind only | every operand has the kind of its role |
| AST nodes and queries (`ast/ast/ast.hpp`) | nodes with element lists, a cached node vector | add, remove and collapse elements; visit by range, address, register, kind | counted elements; a range that ends one off | — (operators of the passes) |
| AST generation (`ast/ast/ast.cpp`) | blocks, closures | split into blocks, order closures | a worklist; a copy that stays empty; blocks looked up in a map still being filled | every instruction control can reach is in a block |
| AST passes (`ast/ast/transformers`) | marks on nodes | 23 default and 3 post passes | order of passes; walks with a dozen flags; nesting found from jumps | routines nest; a value needed twice is a variable; loops come back as they were nested |
| IR lifter (`ir/lifter/lifter/lifter.cpp`) | an expression for each register, open scopes, lines | one handler for each kind of instruction | expressions shared with lines already written; registers used again | the lines do what the instructions do |
| IR data (`ir`) | lines, expressions, the text of each line | emitters, `build`, `generate` | state in a static; comments held back for the next line | the text is the program of the lines |
| IR features (`ir/features`, `ir/data/features`) | options | `smart_format`, formatters | runs of lines by first and last index | blank lines around runs, none inside |
| Code generation (`il/code/generation`) | a buffer | render expressions and statements | no operator knows another's precedence | text is read as the tree it was made of |
| Lua 5.3.6 front end, Loss, analysis stubs, debug output | — | — | not built, stubs, or output only | — |

How they interact. Everything is a direct call in one thread; there are no
locks, no I/O between the stages, nothing is persisted. The stages share
memory instead: `std::shared_ptr` instructions are held by both vectors, by
references of jumps and by later nodes. The managers take callbacks, which see
the container between two commits. Errors are C++ exceptions that nobody in the
framework catches. So the hazards are stale values, indexes computed before the
edits that move them, the order of calls, partial failure of a commit, numeric
edges between words and instructions, and termination of nested loops; they are
listed one by one, with their lines, under `hazards` of `PROJECT.json`.

## 2. Modules

| Module | Models | State |
|---|---|---|
| `ILang` | the container, `commit_dis`, resolver, validator, visitors, and any client | heap `obj`, `made`, `p_dis`, `dis`, the running commit `cm` |
| `EditQueue` | queue arithmetic of both managers | none (operators on a manager record) |
| `ParserManager` | `run()` of a manager with edits by arbitrary callbacks | `ILang`, the manager `pm`, its progress `run` |
| `EditSpec` | abstract: edits by original position, made at once | `vec`, `slots` |
| `JunkCode` | `junk_code` | `ILang`, the copy, position and phase `jc` |
| `LuauBytecode` | what the compiler emits and the disassembler makes of it; bytecode control flow | none |
| `LuauLift` | `lift` of one function, then `junk_code` | all of the above, program, two managers, phase |
| `LuauLayout` | where the instructions stand while a function is lifted, and what is queued: the invariant behind the properties of `LuauLift` | none of its own |
| `LuauMultret` | the counts that bytecode leaves open, from the compiler's layout to `resolve_instruction_operands` | program, lifted operands, `stack_top`, loop position |
| `ILangProofs`, `JunkCodeProofs`, `ParserManagerProofs`, `LuauLiftProofs`, `LuauLayoutProofs`, `LuauMultretProofs`, `CodegenLinesProofs` | theorems about the module in their name | — |
| `ListLemmas` | lemmas about sequences, folds and recursive functions that several of these use | — |
| `Lexer` | kinds of instructions and operands | none |
| `AstNode` | a node, its elements, the registers it reads and writes, the visitors | none |
| `AstBlocks` | `set_blocks`, `visit_all`, the queries that deal with jumps | none |
| `AstRoutines` | the passes over calls, concatenations, lists, returns, dead code | none |
| `AstLoops` | the passes over loops and conditions | none |
| `LocVars` | which registers become variables | none |
| `IRLifter` | the lifter: one action for each kind of instruction | marked `nodes`, the position `at`, registers, scopes and lines in `lifter` |
| `Decompile` | functions without jumps, from IL to lines | phase, `code`, `locals`, `size`, and the lifter's |
| `Loops` | functions with nested loops, from IL to lines | phase, `source`, `size`, and the lifter's |
| `LineMeaning`, `LoopMeaning` | reference: what instructions, sources and lines mean; not translated from the code | none |
| `Format` | how tokens are spaced | none |
| `EmitLua`, `EmitLuau`, `Emit` | the emitters of both syntaxes, the choice between them | none |
| `IRExpr` | expressions, their emitters, `build`; lines | none (operators on a heap and on lines) |
| `Generate` | `generate`, `smart_format` | none (operators on lines and on the static state) |
| `CodegenExpr` | expressions built in any order and rendered | the `heap`, the values of literals |
| `CodegenLines` | lines appended in any order, formatted, generated again and again | lines, open scopes, the static `global`, the text |
| `LuaGrammar` | reference: how the compilers of Lua and Luau read an expression | none |
| `MC_*` | instances for TLC | — |

`EditQueue`, `JunkCode` and `LuauLift` extend `ILang`: the lifter model uses
the container's own actions (`AppendDis`, `MakeEdit`, `CommitDis`,
`CommitStep`, `SetRef`) and contains `JunkWork`, so that the pieces are
composed and not rewritten. `ParserManager` implements `EditSpec` under the
refinement mapping at its end (`ImplementsEditSpec`).

Correspondence.

- An instruction is a member of `Obj`, its record a value of `obj`; two vectors
  holding the same member are two vectors holding the same pointer.
  `std::make_shared` is `Make`. `NULL` is the null pointer, also the padding of
  `append_dis`.
- The container sees of an instruction its `addr`, whether it is an `OP_NOP` or
  has a jump operand, `ref`, and the operand's relative (`jmp`) and absolute
  (`ref_addr`) target. The lifter model adds, in `code`, the opcode and the
  bytecode instruction it was made of; the latter is a history variable that
  only properties read, except in `PopsArg`, where it stands for the operands
  that `resolver.cpp` compares.
- `commit_dis` is a loop after a loop; each iteration is an action
  (`StripNull`, `ResolveAddress`, `ResolveJump`, ...), so that invariants are
  also checked in the middle of a commit. The same is done for the loops of
  `run`, `lift` and `junk_code`. No client step runs during a commit (`Idle`).
- `cm.resolved` records whether what is committed was resolved and no reference
  changed since. It is history: no action's guard reads it.
- Exceptions are stages from which nothing follows (`"thrown"`); following a
  null pointer is `"crashed"`.
- Sequences count from 1, indexes of the code from 0; the operators that take
  an index of the code say so.
- A register, a count, a jump distance and an index of the constant table are
  integers, as the operands of an instruction. Text is a sequence of tokens;
  names and numbers are tokens.
- Of the IR lifter's expressions only what the code changes after a line has it
  is shared: a register knows (`on`) which lines hold its `sub_data`. In
  `IRExpr` expressions live in a heap and refer to each other by index, as they
  do by pointer.
- A pass is an operator from the nodes to the nodes with its marks: nothing
  else runs while it does, and what it reads in the middle of its walk is in
  the accumulator it is folded with. `Analyzed` composes the passes in the order of
  `add_default_transformers`. The lifter, whose state grows with each
  instruction, is one action for each kind of instruction.
- The sources of lines for every definition are in `PROJECT.json`, `map`.

## 3. What the runs show

| Run | Instance | Shows |
|---|---|---|
| `il_container` | any client, 3 instructions, every order of appends, inserts, removals, reference changes and commits with either argument | after a resolving commit addresses are positions, jump operands agree with references and lookup by address is lookup by identity, until references change, and also across edits and a throwing commit; no step of a commit adds, drops, repeats or reorders a pending instruction, the last one commits just these, and no other, nor a throwing one, touches what was committed (`CommitKeepsListing`); `ILInv` is the invariant of the proofs |
| `edit_queue` | 3 committed instructions at most, 2 to insert, one editing callback, any number of runs | each queued position hits what the callback named at the moment the edit is made; a run is one step of `EditSpec`; `EditInv` is the invariant of the proofs: the pending vector is at each moment what the edits made so far ask for |
| `junk_code` | every lifted container of up to 4 instructions: all kinds, all jump targets | removes the unreferenced `OP_NOP`s and only them, leaves no jump hanging at any step, returns; `JCInv` is the invariant of the proofs |
| `lift` | every function of up to 2 units and a `RETURN` over all opcodes that lift correctly, and of 3 units over one opcode of each shape (one word, self call that needs `OP_POPARG`, loop, compare with jump or with a pair of `LOADB`): 3575 functions | nothing throws; every queued edit hits what its callback looked at; every instruction is in its place; successors are those of the bytecode; a compare jumps when it did; lifting returns; `LiftInv` and `LayoutInv` are the invariant of the proofs |
| `multret` | every call and every return of up to 2 values, each a plain value, `...`, or a call of up to 2 values, functions and methods of values, at 2 base registers | the lifted operand of a call is the number of its arguments, open or not; an open return names the register of its last value; `MultretInv` is the invariant of the proofs |
| `codegen_expr` | every expression of up to 3 nodes with lists of up to 2, four arithmetic operators, one compare, three unaries, both syntaxes | the text is read as the expression exactly when its operands bind tightly enough, so that it is known which parentheses the lifter must ask for |
| `codegen_lines` | every sequence of up to 4 lines of 11 kinds, five formats, two calls of `generate` | the text without comments and blanks is the program of the lines; each line is indented by its nesting; each comment comes once; a blank line is in front of each run of like lines and one behind it if lines that assign nothing follow, and no other line is set apart |
| `decompile` | every function without jumps up to size 7: locals, copies, arithmetic, lists, nested calls, builtins, methods, globals, members, returns | the lines make the same calls with the same arguments, write the same, return the same, in the same order; every call is written once |
| `loops` | every nest of loops up to size 7: numeric and generic `for`, `while`, `repeat`, `break`, early `return`, conditions of one or two tests, locals | no reachable instruction is outside of the blocks; loops, breaks and returns come back as they were nested; executed twice round each loop, the lines do what the source does |

Bounds. Three instructions are enough for a target before, at and after a jump
and for a removed instruction that is still referenced; `junk_code` gets four,
so that two removals surround an instruction that stays. Two inserts and three
originals give every order of two or more edits at, before and after each
other; since runs are unbounded, an instruction inserted by one run is named by
the next. A function of three units has a jump over, back and onto an expanded
compare, and since a compare unit is up to three instructions it reaches seven
or more IL instructions; longer functions repeat these
neighbourhoods. Calls nested twice put a call between an open call and
its last value, the only shape in which `stack_top` could go stale; deeper
nesting repeats it. Three expressions put an operator
under an operator on either side, which is all that `build` decides by; deeper
trees repeat it, since it renders bottom up. Four lines hold a scope with a
comment in front of, inside of and behind it, and a run of two on both sides of
a boundary. Size 7 in `decompile` is two or three statements of several
instructions: a register that is a temporary of one statement and a local or
another temporary of the next, and a list or a call inside another. In `loops`
it is three loops, so that two start or end at one instruction inside of a third, and
one statement between each pair of ends. Symmetry is used only in runs without
liveness, over instructions that no definition distinguishes. Deadlock is
checked in `junk_code`, the lift runs and `multret`, whose models stutter
explicitly when done; it is off where a run simply ends: `il_container` and
`edit_queue`, where the instructions to allocate run out and a commit may
throw, the two code generators at their bounds, and `decompile` and `loops`,
whose last action lifts the last instruction.

What the runs leave out on purpose. The decompiler does not keep the meaning of
every program, and a property that is false for a known reason hides the
reasons not known. So the instances name what is lifted wrong, and each can be
put back and seen to fail:

- `Ordered` in `Decompile`: a value used once is written where it is used,
  behind whatever came in between. Programs in which the value depends on
  that, or that on it, are excluded from `LinesMeaningKept`
  (`optimizations.hpp:16` warns of it), but not from `CallsKept`.
- `Traps` of `Decompile`, each of which breaks `LinesMeaningKept` within size 6
  when it is added in `MC_Decompile.cfg`: `"two_arguments"` (a call of two
  arguments passes for one of two results; also breaks `CallsKept`, see the run
  `decompile_args`), `"return_used"` (a value used before it is returned is
  computed again), `"empty_after_list"` (an empty table in a register that
  held a list takes its members), `"method_above"` (a method call in a register
  other than 0 passes its receiver twice).
- `Traps` of `Loops`, in `MC_Loops.cfg`: `"break_first"` (`repeat break` is
  written with the break in front of the loop), `"while_first"` (a while whose
  body starts with a condition), `"while_two"` and `"mixed"` (conditions of
  two tests in a while, of three anywhere), `"compare_inside"` (a comparison
  inside of `and` is negated), `"local_condition"` and `"unused_local"` (the
  local's declaration or its register is taken for part of a condition),
  `"break_in_for"`, `"return_in_loop"` (a bare return reads register 0),
  `"empty_body"`, `"forever"` (a loop without a condition is written as another
  one).
- `LoopMeaning` executes a while without its condition, since none is ever
  written (`loops_while`).
- `Delimited` in `CodegenExpr` is no exclusion: `RoundTrip` says that the text
  is right where it holds, `OnlyDelimited` that it is wrong elsewhere. It lists
  what the emitters do not do themselves: parentheses around a looser operand,
  a blank between a number and `..`, a blank between two minus signs, the
  order of two different unaries, digits behind the sixth.
- `RunsSpaced` is for thresholds above 1: with 1, a run that follows another
  directly would need two line breaks. It is for no maximum, which cuts runs. Of a
  run that an assignment follows directly it says nothing about the end, where the
  code goes wrong (`RunsUnbroken`, below); nor of one that no assignment follows, behind which
  there is no blank line. Which of the lines between a run and the assignment that ends
  it has the blank line is left open: the layouts have it right behind the run,
  the code in front of the last of these lines.

Fairness. `JunkCode` and `LuauLift` have weak fairness of their whole next-state
relation: a sequential program that can take a step takes it. It chooses between
no two actions, since at most one is enabled in a given state apart from the
choice of which occurrence `remove_dis` erases first. The container and the
managers have none; nothing there must happen.

Disagreements of code and documentation, each a run that TLC must find violated:

- `lift_constant`: the four compares with a constant become `OP_NOP` and vanish
  with their jump.
- `decompile_args`: what the AST takes for the number of results of a call is
  its last operand of kind `value`; the lexer gives that kind to the arguments
  and `integer` to the results.
- `loops_while`: the comparison of a while is looked for on the jump, which
  has only its target.

Others have no run of their own; each is seen with a change to a cfg:

- `sync_idx` survives from one callback of a run to the next, while the next
  callback again walks the unedited vector; its edits land too far back
  (`EditsOnTarget` in `MC_ParserManager.cfg` with `Callbacks = 2`). In the
  lifter only one callback of each run edits, which is why `lift` passes.
- `JUMPIFNOTLE` and `JUMPIFNOTLT` become jumps on `>=` and `>`; the negations
  are `>` and `>=`, and with NaN, which makes both compares false, neither is
  one (`ComparesKept` in `MC_LuauLift.cfg` with `Compares =
  {"LOP_JUMPIFNOTLE"}`).
- The start of a `pairs` or `ipairs` loop loses its jump (`IterationLocation`
  with `"LOP_FORGPREP_INEXT"` in `Jumps`).
- The count of an open call is the destination of the instruction before it.
  The compiler emits `NAMECALL`, and for builtins `FASTCALL` and the load of
  the function, after the arguments; `parser.cpp:677` excepts only the
  `NAMECALL` that writes the register it reads, so that the call of a method
  of a local, or of a builtin, ends up with no arguments (`ArgumentsCounted`
  in `MC_LuauMultret.cfg` with `"local_method"` or `"builtin"` in `Calls`).
- The count of `SETLIST` is decremented twice, as `C_dec` and as `val_multret`
  (disassembler.cpp:542, 705); an item is lost, and an open count is no longer
  recognised (`TableSizes` with `Statements = {"table"}`).
- `indent.disabled` (`formatting.hpp:25`, "All indents are disabled") makes a
  comment swallow the line behind it, since no line break is emitted either
  (`ProgramKept` in `MC_CodegenLines.cfg` with `Formats <- MCFlat`).
- The blank line that closes a run of like lines is put in front of the line before the
  assignment that ends the run (smart_formatting.cpp:87, emitted by ir.cpp:149). If that
  is the last line of the run, the run is cut in two, as in `t[a] = a`, blank line,
  `t[a] = a`, `a.t = a`, with another blank line in front of all. The layouts of
  formatting.hpp:769, "Group types that follow logic:", have the blank line behind the
  run (783-786), and none has one inside (`RunsUnbroken`, as an invariant of
  `MC_CodegenLines.cfg`). `group`, which is to choose a layout and is 0 for "(0):
  Disabled", is read nowhere.

One more cost is visible in the model without being a property:
`append_dis(d, idx)` pads the vector with `idx` nulls even when `idx` exists
(il/il/il.hpp:366, against the comment at 364). The nulls go to the back and
commit strips them, so that `EditsOnTarget` holds in spite of it, but the
pending vector grows by `idx` with each insertion. And the second operand of
`OP_RETURN` is a count when closed and a register when open, while
`architecture.hpp:752` calls it a register; `OpenReturnEnds` is about the latter.

## 4. What is proved

All proofs are for any set of instructions, any length of the vectors and any
length of a function, from `NullAssumption` (the null pointer is no
instruction), `MaxLenAssumption`, the assumptions of `LuauBytecode` that its
sets of opcodes are such sets, `MultretAssumption`, that counts fit in a byte, and those
of `CodegenLines`, that its syntaxes and kinds of lines are those there are and its
thresholds numbers. Some theorems assume more, and say so in their statement:

- `Callbacks = 1` for the managers. With two callbacks that edit, the code is
  wrong (section 3). What the lifter registers is two callbacks in one run of
  the parser manager, `parse_compares` and `parse_jumps`, and three of the
  resolver manager. In each run one of them queues edits (`parse_compares`,
  `resolve_instructions`); the others only set references and operands, which
  makes it a run with one editing callback.
- `CallsAhead` for open counts, see there.
- `Unlimited` for the lifter: `Obj` is infinite, so that `make_shared` always
  returns an instruction not in use. On a finite `Obj` there would be nothing for
  `Fresh` to choose where the program throws `bad_alloc`.

### The container: `ILangProofs`

`ILInv` is inductive under `ILNext` (`ILInvNext`, `Invariance`). The
properties are not inductive by themselves. A commit renumbers instructions
that the committed vector shares, so `CommittedAddresses` is false in the middle
of one; it is true again at `Publish` because `CommitProgress` counted how many
pending instructions have their final address (`Numbered`) and how many
jumps their final operand (`Retargeted`), and because `PendingUnique` keeps a
later iteration from renumbering an earlier instruction. `NoGaps` is why no
null is followed; `Allocated` is why a freshly made instruction is in neither
vector. Between commits, edits touch only the pending vector, and setting a
reference clears `cm.resolved`. The theorems: `TypeCorrect`, `PendingIsUnique`,
`AddressesArePositions`, `OperandsAgree`, and from the latter two
`LookupIsIdentity`: distinct addresses make the first match of `visit_addr`
the only one. `CommitPublishesListing` is an action property: of the steps of a
commit only `StripNull` edits the pending vector, and what it erases is no instruction;
only `Publish`, the last, sets the committed one.

That a listing stays the same is said of positions and order (`SameListing`:
the same members, the same before each other, each as often) and not with
`SelectSeq`, of which nothing can be proved: it is recursive.

### `junk_code`: `JunkCodeProofs`

`JCInv` has two layers. `JCSafe` says that the pass erases only what no
committed jump leads to and commits nothing before its last call; it gives
`TargetsAlwaysSurvive`, and rests on `LookupByAddress` (the pass decides by
address) and on the lemma that a commit step keeps `ILInv`. On top of it
`CommittedBefore`, `Sifted` and `Published` describe how far the pass is: in
front of its position the pending vector holds of the copy what is needed,
behind it everything, at it one or the other depending on whether it is being
erased, in the order of the copy throughout; the committed vector is the copy
until the commit, and afterwards what is pending. At the end nothing is
behind the position, which is `JunkIsExact`.

### A manager: `ParserManagerProofs`

`EditsHitTheirTargets` (`EditsOnTarget`). A position is computed from `sync_idx`
when an edit is queued and used when it is made, so the invariant `PMInv` relates the
two: `sync_idx` is one more than `Shift` of the queue, insertions less removals;
each queued position is its instruction's plus the shift of the edits in front
of it (`Positioned`); edits are queued in the order of what they name
(`InOrder`); and while they are made, every committed instruction from the last
edit on (`Frontier`) is at its position plus the shift so far (`Aligned`).
`InsertionMoves` and `RemovalMoves` show the latter for one edit.

`ManagerKeepsPromise`: `PMSpec => ImplementsEditSpec`, the refinement of
`EditSpec`. Under the mapping, `vec` is the committed vector and `slots` what
the queue asks for by original position (`Slots`, a fold of the queue). The
invariant is `EditInv`: while edits are made, the pending vector is, up to
null pointers at its end, what the edits made so far ask of the committed
one (`Replays`); during the commit it is what all of them ask (`Holds`). Then
queueing an edit is a step of `EditSpec` that asks for one more, `Publish` is the
step that makes all of them at once, and every other step stutters. The lemmas
of `ListLemmas` about concatenations (`UpToInsert`, `UpToRemove`) say where in
the laid out vector an edit of one slot takes place; `LaidAdd` and `LaidRemove`
that this is the position the code computed.

### The lifter: `LuauLiftProofs`

`Programs` is about the environment: every compiled function, of any number of
units, is laid out as `ProgramOK` says. Jumps lead to instructions, no jump but
that of a pair to a `LOADB`, addresses are sums of lengths, and a compare whose
outcome becomes a value comes with its two `LOADB`. This is what the lifter relies
on, and each clause has its use below.

`LiftingNeverFails` (`NeverFails`): for every such function nothing throws and no
null is followed. `visit_addr` finds the target of each jump because until the
edits are made both vectors are what `parse_instructions` left, numbered with the
addresses of the bytecode (`AsParsed`), and these are distinct. From
`parse_jumps` on every jump has a reference (`Targets`), so that the resolver's
operands and `validate` find one; the jump of a pair, which has none, is made
by the edits with one. What the queues insert is new and inserted once
(`Queues`), which keeps the pending vector unique and so gives `ILInv` back after
each edit; and no pass meets the nulls of `append_dis`, since a commit strips
them before the next one (`NoNulls`). `LiftInv` is the conjunction;
`LiftInvNext` has a lemma for each action. `LiftTypes` is its first conjunct.

### What is lifted: `LuauLayoutProofs`

The container has no edit history: that the final vector is right must follow from
the queues, each of whose positions was computed before the edits in front of it
were made. `LayoutInv` (module `LuauLayout`) says where every instruction stands at
every step, by a rank: four times the bytecode instruction it was made of, plus its
role there (translation, compare, use of the outcome, `OP_POPARG`). `LaidOut` says
that a vector is sorted by rank and holds, of each bytecode instruction, just the opcodes
it is to become (`AfterParse`, `AfterResolve`); a sorted vector is settled by what it
holds, so nothing need be said of indexes. What connects the two ends:

- `QueueFits`: each queued edit names an instruction, its position is that of the
  instruction plus `Offset`, the insertions less removals in front of it, and what it
  inserts ranks between the instruction and the next. `sync_idx` is one more than
  the offset behind the last edit. `ComparesQueued` and `PopsQueued`: the queue holds just
  what the callbacks have come to.
- `Replays`: while edits are made, the pending vector is sorted, holds what the edits
  made so far leave and insert, and from the last edit on is the committed one, moved
  by the offset. `ReplayAdd` and `ReplayRemove` show it for one edit. That is also
  why the edit hits its target: `EditsAlwaysLand`.
- `Wired`: the opcode settles whether an instruction is a jump, and a jump leads to what
  `parse_instructions` made of the instruction the bytecode jumps to.
- `Eliminating`: `JCInv` while `junk_code` runs, so that in the end the vector is what was
  laid out less unreferenced `OP_NOP`s (`SiftedIsExact` of `JunkCodeProofs`).

`LayoutInvariance` has a lemma for each action. From it, in the final state,
`FinalOrder` (positions are ordered by bytecode instruction, then role) and
`JumpFacts`, and from these, for functions of any length:

- `EditsAlwaysLand` (`EditsLand`): no edit is made behind the end of the vector, where
  the code would erase what does not exist, and the model would stop;
- `InPlaceAlways` (`InstructionsInPlace`), assuming `NoConstants`;
- `OutcomesAlwaysKept` (`ComparesKept`), assuming `NegationsOrdered`;
- `FlowAlwaysPreserved` (`FlowPreserved`), assuming `NoConstants` and `NoSpecials`.

The three assumptions exclude just the opcodes that the code lifts wrong (section 3: the
compares with a constant, run `lift_constant`; the negated orders; the special `for`
loops). With them the properties are false, so that no theorem can do without; the run
`lift` has all other opcodes.

### Open counts: `LuauMultretProofs`

The bytecode of an open call has no count; the lifter has `stack_top`, the
destination of the last instruction that `parse_instructions` logged. `CountsInvariance`
(`MultretInv`) says that this is enough. It needs a fact about the compiler and one
about the lifter:

- `ProgramsFit`: in what a statement compiles to, the last logged instruction before
  each open call writes the register of the call's last argument (`FitsAt`). `Writes` is
  what makes this inductive: the code of a value ends by writing the value's register,
  so a list ends by writing the last one's (`ListWrites`), a call by its own
  (`CallWrites`), and concatenation disturbs neither (`JoinFits`). `ValuesWrite` is the
  induction over how deep calls are nested.
- `ParseCounts`, `ResolveCounts`: `stack_top` is the destination of the last logged
  instruction at every step, so that an open count is the register behind the last
  argument until it is resolved, and then the number of arguments.

`ArgumentsAlwaysCounted` and `OpenReturnsAlwaysEnd` follow, for any number of values up
to what the byte of the operand can hold, calls nested to any depth, any base registers.
They assume `CallsAhead`: calls of functions and methods that are loaded before their
arguments. For the two other kinds the count is lost (section 3).

### Blank lines: `CodegenLinesProofs`

`RunsSpaced` looks at the finished list: it knows the runs of assignments to members of
one table, each with both ends. `smart_format` goes over the lines once, with a
position, a counter and a flag (`SmartLine`), and writes into the map while it does not
know yet where the run ends.
What relates the two is the invariant of that loop, `LoopInv`. Before line `i`,

- the loop is in no run, and the last assignment was not to a table (`InNone`); or it is
  in the run that starts at `start_idx`, `start` is the number of its lines so far, and
  `on` says whether it is long already (`InRun`);
- the map holds a line break just where a run of the lines so far got long (`Begins`: at
  the run's first line) or a long one ended (`Ends`: at the line before the assignment
  that ends it), and nothing else (`Mapped`).

`LoopSkips`, `LoopJoins` and `LoopEnds` keep it, for a line that assigns nothing, that
continues or starts a run, and that ends one; `LoopStep` puts them together, and
`SmartFormatIs` has the loop's result. It takes from `build` only that equal
texts are equal tables, and from the lines only that each assigns to what is built
(`LinesGiven`, from the eighteen kinds that a lifted line can have). `RunsBegin` and
`RunsEnd` find the runs of `RunsSpaced` where the loop wrote, and `RunsAreSpaced` shows
from these what `Spaced` says of each: where its blank lines are, and that there are no
others.

`SpacingInvariance` (`SpacingInv`) is about the specification: lines are appended only
before `smart_format`, so that the map is what it made of all of them, and `generate`
never changes it. `RunsAlwaysSpaced` follows, for lists of any length, both syntaxes and
every threshold that the property is about: above 1, with no maximum, which
would cut a run. `RunsUnbroken`, which a directly ended run breaks, is not claimed. `CodegenLinesAssumption` and `KindsAssumption` are all it assumes.

### How

Induction over data is needed for the concatenations, for the layout of functions, for
nested calls, for `build` over a heap and for the loop of `smart_format`. It is done without the library's induction theorems, whose operator
parameter cannot be instantiated: `ListLemmas` has `Induction` for a set of
natural numbers, proved from `LeastNumber`, and `Recursion` for the functions
that folds are defined by; each use defines the set of numbers for which the
claim holds.

Only model-checked:

- liveness (`JunkReturns`, `LiftReturns`), which the prover does not do;
- every property of the IR lifter, of
  the AST passes and of the generated expressions: `LineMeaning`, `LoopMeaning`, `Decompile`, `Loops`, `LuaGrammar` and `CodegenExpr` compile or
  read nested structures with `RECURSIVE` operators, of which the prover can show
  nothing, or extend one that does;
- `ProgramKept`, `Indented`, `CommentsOnce`: they read the text back, which takes the
  tokens themselves, strings with blanks and line breaks in them. The SMT backend
  does not come through these.

## 5. Not modelled

`PROJECT.json` lists each component with its reason. In the modelled ones:

- front end: operands other than jumps and counts, kvalues, closures and the
  bitcode buffers of the container; removing a callback and `run<false>`, which
  nothing calls. `resolver_manager` has the same queue as `parser_manager` and
  is modelled as the second manager `rm` of `LuauLift`.
- AST and IR lifter: functions inside of functions, with their captures and
  arguments; tables with keyed members; statements `if`. The last are not
  written at all: `set_logical_operations` starts with a `return`, so that no
  node is ever marked `stat_if`, and the rest of that pass and
  `end_of_scope`, which only it calls, never run. `upvalues.cpp:20` walks
  `OP_SETLIST` where captures are `OP_ADDUPVALUE`.
- Undefined behaviour that no modelled function reaches: `find_block_addr`
  dereferenced where it finds nothing, the operand `value` that an arithmetic
  instruction with a number does not have.
- code generation: classes, imports, options that only change an amount.

The bytecode model enumerates what the Luau compiler lays out
(`src/Luramas/3rdparty/luau/Luau-V3/Compiler/src/Compiler.cpp`), not arbitrary
words, and runs it as `VM/src/lvmexecute.cpp` does; `Decompile` and `Loops`
lay functions out in IL as that compiler and the lifter would.

## 6. Plan

Done: front end, proved, lexer, AST passes without closures, IR lifter, code
generation, two compositions from IL to lines. Left, in this order:

1. Proofs about operators of `AstNode` and `AstBlocks`: that elements are kept
   in pairs, that blocks partition the addresses behind the first branch.
2. Closures: `gen_ast`'s order, arguments and captures.
3. Tables with keyed members; calls inside of loops, by composing `Decompile`
   and `Loops`.
4. `ILBitcode`: encoder and decoder of operands, with the buffer sizes.
