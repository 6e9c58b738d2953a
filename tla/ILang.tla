------------------------------- MODULE ILang -------------------------------
(***************************************************************************)
(* The IL container, class ilang of il/il/il.hpp, with its resolver        *)
(* (il/il/resolver/resolver.cpp) and its validator (il/il/validate).       *)
(*                                                                         *)
(* Instructions are shared objects: the pending vector p_dis and the       *)
(* committed vector dis hold pointers to the same disassembly records, so  *)
(* a write made through one is seen through the other.  obj is that heap.  *)
(* An instruction is reduced to what the container looks at: its address,  *)
(* whether it is an OP_NOP, whether it carries a jump operand, the pointer *)
(* ref to the instruction it jumps to, and the two fields of the jump      *)
(* operand, jmp (relative) and ref_addr (absolute).                        *)
(*                                                                         *)
(* commit_dis is a call made of loops; each iteration is a step, and no    *)
(* operation of a client starts while a commit is under way.               *)
(***************************************************************************)
EXTENDS Integers, Sequences, SequencesExt

CONSTANTS
  Obj,     (* The instructions that can be allocated (std::make_shared). *)
  NULL     (* nullptr.                                                   *)

ASSUME NullAssumption == NULL \notin Obj

VARIABLES
  obj,     (* The heap: what each instruction holds.                     *)
  made,    (* The instructions allocated so far.                         *)
  p_dis,   (* The pending vector, private to the container.              *)
  dis,     (* The committed vector, public.                              *)
  cm       (* Where the running commit_dis is, and how the last ended.   *)

ilVars == <<obj, made, p_dis, dis, cm>>

Ptr == Obj \union {NULL}

(* A "jump" has a jump operand; a "nop" is an OP_NOP.                      *)
Kinds == {"nop", "jump", "other"}

Instr == [kind : Kinds, ref : Ptr, addr : Int, jmp : Int, ref_addr : Int]

(* "thrown" is the std::runtime_error of validate, "crashed" the null      *)
(* pointer resolve_jumps would follow.  Neither is caught.                 *)
Stages == {"idle", "strip", "validate", "addresses", "jumps", "publish",
           "thrown", "crashed"}

Blank == [kind |-> "nop", ref |-> NULL, addr |-> 0, jmp |-> 0, ref_addr |-> 0]

IsJump(d) == obj[d].kind = "jump"
IsNop(d) == obj[d].kind = "nop"

Idle == cm.stage = "idle"

(* cm.i is the loop counter (from 1), cm.resolve the argument of the call, *)
(* cm.resolved whether what dis holds was resolved when it was committed   *)
(* and no reference was changed since.                                     *)
ILTypeOK ==
  /\ obj \in [Obj -> Instr]
  /\ made \subseteq Obj
  /\ p_dis \in Seq(Ptr)
  /\ dis \in Seq(Obj)
  /\ cm \in [stage : Stages, i : Nat \ {0}, resolve : BOOLEAN, resolved : BOOLEAN]

ILInit ==
  /\ obj = [d \in Obj |-> Blank]
  /\ made = {}
  /\ p_dis = << >>
  /\ dis = << >>
  /\ cm = [stage |-> "idle", i |-> 1, resolve |-> FALSE, resolved |-> FALSE]

-----------------------------------------------------------------------------
(***************************************************************************)
(* Edits of the pending vector.  Indexes count from 0, as in the code.     *)
(***************************************************************************)

(* std::make_shared: d, held by nobody yet, becomes the record r.          *)
Make(d, r) ==
  /\ d \notin made
  /\ made' = made \union {d}
  /\ obj' = [obj EXCEPT ![d] = r]

(* append_dis(d, idx): a size other than idx pads the back with idx null   *)
(* pointers, whatever the size, then d goes to idx.  The mutant repeats    *)
(* the last element instead.                                               *)
PaddedWithLast(s, idx) ==
  IF Len(s) # idx
  THEN s \o [k \in 1..idx |-> IF s = << >> THEN NULL ELSE s[Len(s)]] ELSE s

Padded(s, idx) == IF Len(s) # idx THEN s \o [k \in 1..idx |-> NULL] ELSE s

InsertedAt(s, d, idx) == InsertAt(Padded(s, idx), idx + 1, d)

RemovedAt(s, idx) == RemoveAt(s, idx + 1)

AppendDis(d) == p_dis' = Append(p_dis, d)

AppendDisAt(d, idx) == p_dis' = InsertedAt(p_dis, d, idx)

RemoveDisAt(idx) ==
  /\ idx < Len(p_dis)
  /\ p_dis' = RemovedAt(p_dis, idx)

(* remove_dis(d) erases every occurrence, here one per step, of d.         *)
RemoveDis(d) ==
  \E i \in 1..Len(p_dis) :
    /\ p_dis[i] = d
    /\ p_dis' = RemoveAt(p_dis, i)

(* A client stores a reference through the public vector (parse_jumps).    *)
SetRef(d, r) ==
  /\ d \in ToSet(dis)
  /\ obj' = [obj EXCEPT ![d].ref = r]
  /\ cm' = [cm EXCEPT !.resolved = FALSE]

-----------------------------------------------------------------------------
(***************************************************************************)
(* commit_dis(resolve).                                                    *)
(***************************************************************************)

CommitDis(resolve) ==
  /\ Idle
  /\ cm' = [cm EXCEPT !.stage = "strip", !.resolve = resolve]

(* One null pointer less (the erase-remove idiom), from the front.         *)
StripNull ==
  /\ cm.stage = "strip"
  /\ \E i \in 1..Len(p_dis) :
       /\ p_dis[i] = NULL
       /\ \A j \in 1..(i - 1) : p_dis[j] # NULL
       /\ p_dis' = RemoveAt(p_dis, i)
  /\ UNCHANGED <<obj, made, dis, cm>>

(* Mutant: null pointers stay.                                             *)
StrippedEarly ==
  /\ cm.stage = "strip"
  /\ cm' = [cm EXCEPT !.stage = "validate"]
  /\ UNCHANGED <<obj, made, p_dis, dis>>

Stripped ==
  /\ cm.stage = "strip"
  /\ NULL \notin ToSet(p_dis)
  /\ cm' = [cm EXCEPT !.stage = "validate"]
  /\ UNCHANGED <<obj, made, p_dis, dis>>

(* validate_operands: a jump operand whose instruction has no reference.   *)
OperandsValid == \A d \in ToSet(p_dis) : IsJump(d) => obj[d].ref # NULL

(* validate throws only when something was committed before.               *)
Validate ==
  /\ cm.stage = "validate"
  /\ cm' = IF dis # << >> /\ ~OperandsValid
           THEN [cm EXCEPT !.stage = "thrown"]
           ELSE IF cm.resolve
                THEN [cm EXCEPT !.stage = "addresses", !.i = 1]
                ELSE [cm EXCEPT !.stage = "publish"]
  /\ UNCHANGED <<obj, made, p_dis, dis>>

(* Mutant: addresses count from 1.                                         *)
ResolveAddressFromOne ==
  /\ cm.stage = "addresses"
  /\ cm.i <= Len(p_dis)
  /\ obj' = [obj EXCEPT ![p_dis[cm.i]].addr = cm.i]
  /\ cm' = [cm EXCEPT !.i = @ + 1]
  /\ UNCHANGED <<made, p_dis, dis>>

ResolveAddress ==
  /\ cm.stage = "addresses"
  /\ cm.i <= Len(p_dis)
  /\ obj' = [obj EXCEPT ![p_dis[cm.i]].addr = cm.i - 1]
  /\ cm' = [cm EXCEPT !.i = @ + 1]
  /\ UNCHANGED <<made, p_dis, dis>>

AddressesResolved ==
  /\ cm.stage = "addresses"
  /\ cm.i > Len(p_dis)
  /\ cm' = [cm EXCEPT !.stage = "jumps", !.i = 1]
  /\ UNCHANGED <<obj, made, p_dis, dis>>

(* Mutants: jmp is not relative; the target is taken to be relative to the *)
(* next instruction, as in the bytecode.                                   *)
ResolvedAbsolute(d) ==
  [obj[d] EXCEPT !.jmp = obj[obj[d].ref].addr,
                 !.ref_addr = obj[obj[d].ref].addr]

ResolvedFromNext(d) ==
  [obj[d] EXCEPT !.jmp = obj[obj[d].ref].addr - obj[d].addr,
                 !.ref_addr = obj[obj[d].ref].addr + 1]

(* The operand of a resolved jump: relative and absolute target.           *)
Resolved(d) ==
  [obj[d] EXCEPT !.jmp = obj[obj[d].ref].addr - obj[d].addr,
                 !.ref_addr = obj[obj[d].ref].addr]

ResolveJump ==
  /\ cm.stage = "jumps"
  /\ cm.i <= Len(p_dis)
  /\ LET d == p_dis[cm.i] IN
       \/ /\ ~IsJump(d)
          /\ cm' = [cm EXCEPT !.i = @ + 1]
          /\ UNCHANGED obj
       \/ /\ IsJump(d) /\ obj[d].ref # NULL
          /\ obj' = [obj EXCEPT ![d] = Resolved(d)]
          /\ cm' = [cm EXCEPT !.i = @ + 1]
       \/ /\ IsJump(d) /\ obj[d].ref = NULL
          /\ cm' = [cm EXCEPT !.stage = "crashed"]
          /\ UNCHANGED obj
  /\ UNCHANGED <<made, p_dis, dis>>

JumpsResolved ==
  /\ cm.stage = "jumps"
  /\ cm.i > Len(p_dis)
  /\ cm' = [cm EXCEPT !.stage = "publish"]
  /\ UNCHANGED <<obj, made, p_dis, dis>>

(* Mutant: what is pending is added to what was committed.                 *)
PublishAppended ==
  /\ cm.stage = "publish"
  /\ dis' = dis \o p_dis
  /\ cm' = [cm EXCEPT !.stage = "idle", !.resolved = cm.resolve]
  /\ UNCHANGED <<obj, made, p_dis>>

Publish ==
  /\ cm.stage = "publish"
  /\ dis' = p_dis
  /\ cm' = [cm EXCEPT !.stage = "idle", !.resolved = cm.resolve]
  /\ UNCHANGED <<obj, made, p_dis>>

CommitStep ==
  \/ StripNull
  \/ Stripped
  \/ Validate
  \/ ResolveAddress
  \/ AddressesResolved
  \/ ResolveJump
  \/ JumpsResolved
  \/ Publish

-----------------------------------------------------------------------------
(***************************************************************************)
(* Visitors, over the committed vector.                                    *)
(***************************************************************************)

(* visit_addr: the first committed instruction at addr; it throws when     *)
(* there is none.                                                          *)
Visitable(addr) == \E d \in ToSet(dis) : obj[d].addr = addr

VisitAddr(addr) ==
  LET i == CHOOSE i \in 1..Len(dis) :
             /\ obj[dis[i]].addr = addr
             /\ \A j \in 1..(i - 1) : obj[dis[j]].addr # addr
  IN  dis[i]

(* visit_ref: the committed instructions whose reference is at addr.       *)
VisitRef(addr) ==
  {d \in ToSet(dis) : obj[d].ref # NULL /\ obj[obj[d].ref].addr = addr}

-----------------------------------------------------------------------------
(***************************************************************************)
(* Any client.  Only an instruction with a jump operand has a reference,   *)
(* and it points to what is allocated already.                             *)
(***************************************************************************)

NewInstr ==
  {r \in [kind : Kinds, ref : made \union {NULL}, addr : {0}, jmp : {0},
          ref_addr : {0}] : r.kind = "jump" \/ r.ref = NULL}

ClientAppend ==
  /\ Idle
  /\ \E d \in Obj, r \in NewInstr : Make(d, r) /\ AppendDis(d)
  /\ UNCHANGED <<dis, cm>>

(* An index that exists, the end, or one place past it.                    *)
ClientAppendAt ==
  /\ Idle
  /\ \E d \in Obj, r \in NewInstr, idx \in 0..(Len(p_dis) + 1) :
       Make(d, r) /\ AppendDisAt(d, idx)
  /\ UNCHANGED <<dis, cm>>

ClientRemoveAt ==
  /\ Idle
  /\ \E idx \in 0..Len(p_dis) : RemoveDisAt(idx)
  /\ UNCHANGED <<obj, made, dis, cm>>

ClientRemove ==
  /\ Idle
  /\ \E d \in Obj : RemoveDis(d)
  /\ UNCHANGED <<obj, made, dis, cm>>

ClientSetRef ==
  /\ Idle
  /\ \E d \in made, r \in made : IsJump(d) /\ SetRef(d, r)
  /\ UNCHANGED <<made, p_dis, dis>>

ClientCommit ==
  /\ \E resolve \in BOOLEAN : CommitDis(resolve)
  /\ UNCHANGED <<obj, made, p_dis, dis>>

ILNext ==
  \/ ClientAppend
  \/ ClientAppendAt
  \/ ClientRemoveAt
  \/ ClientRemove
  \/ ClientSetRef
  \/ ClientCommit
  \/ CommitStep

ILSpec == ILInit /\ [][ILNext]_ilVars

-----------------------------------------------------------------------------
(***************************************************************************)
(* Properties.                                                             *)
(***************************************************************************)

(* Outside the two resolving loops no instruction is being rewritten.      *)
Settled == cm.stage \in {"idle", "strip", "validate", "thrown"}

Resolvable == Settled /\ cm.resolved

(* Addresses are positions: after a resolving commit the committed vector  *)
(* has no gap, no repetition and no leftover of an earlier numbering, and  *)
(* edits of the pending vector or a commit that throws do not disturb it   *)
(* although both vectors share their instructions (resolve_addresses).     *)
CommittedAddresses ==
  Resolvable => \A i \in 1..Len(dis) : obj[dis[i]].addr = i - 1

(* The operand of the jump d agrees with its reference.                    *)
Agrees(d) ==
  IsJump(d) => /\ obj[d].ref # NULL
               /\ obj[d].ref_addr = obj[obj[d].ref].addr
               /\ obj[d].jmp = obj[obj[d].ref].addr - obj[d].addr

(* Both halves of a committed jump operand name the address its reference  *)
(* has now: resolve_jumps runs after every address is final.               *)
JumpsAgree ==
  Resolvable => \A d \in ToSet(dis) : Agrees(d)

(* Looking an instruction up by address is looking it up by identity: what *)
(* visit_addr returns for the target of a jump is the instruction the jump *)
(* references, and, if no reference leads out of the committed vector,     *)
(* visit_ref returns exactly the instructions that reference the one at    *)
(* that address.  Every pass that keeps addresses and not pointers (lexer, *)
(* AST, junk_code) relies on it.                                           *)
LookupByAddress ==
  Resolvable =>
    /\ \A d \in ToSet(dis) :
         IsJump(d) /\ obj[d].ref \in ToSet(dis)
           => /\ Visitable(obj[d].ref_addr)
              /\ VisitAddr(obj[d].ref_addr) = obj[d].ref
    /\ (\A d \in ToSet(dis) : obj[d].ref \in ToSet(dis) \union {NULL})
         => \A d \in ToSet(dis) :
              VisitRef(obj[d].addr) = {j \in ToSet(dis) : obj[j].ref = d}

(* No instruction is twice in the pending vector, so that numbering one    *)
(* never renumbers another.                                                *)
PendingUnique ==
  \A i, j \in 1..Len(p_dis) : p_dis[i] = p_dis[j] /\ p_dis[i] # NULL => i = j

Before(s, x, y) == \E i, j \in 1..Len(s) : i < j /\ s[i] = x /\ s[j] = y

(* Of S, s and t hold the same, in the same order and the same of it twice.*)
SameListing(s, t, S) ==
  \A x \in S : /\ x \in ToSet(s) <=> x \in ToSet(t)
               /\ \A y \in S : Before(s, x, y) <=> Before(t, x, y)

(* A commit only drops null pointers: the instructions it publishes are    *)
(* the pending ones, in the order the client left them in, and until it    *)
(* does, and when validate throws, the committed vector is the last one    *)
(* (commit_dis edits p_dis in place and assigns dis at the end).           *)
CommitKeepsListing ==
  [][~Idle => /\ SameListing(p_dis', p_dis, Obj)
              /\ IF cm.stage = "publish" THEN SameListing(dis', p_dis, Obj)
                                         ELSE dis' = dis]_ilVars

(***************************************************************************)
(* What makes the properties above inductive.                              *)
(***************************************************************************)

(* Vectors and references only hold what was allocated.                    *)
Allocated ==
  /\ ToSet(p_dis) \subseteq made \union {NULL}
  /\ ToSet(dis) \subseteq made
  /\ \A d \in made : obj[d].ref \in made \union {NULL}

(* The loops of a commit run over a vector without null pointers.          *)
NoGaps ==
  cm.stage \in {"validate", "addresses", "jumps", "publish"} =>
    NULL \notin ToSet(p_dis)

(* How many pending instructions have their final address, and how many    *)
(* jumps their final operand.                                              *)
Numbered ==
  CASE cm.stage = "addresses" -> cm.i - 1
    [] cm.stage = "jumps" -> Len(p_dis)
    [] cm.stage = "publish" /\ cm.resolve -> Len(p_dis)
    [] OTHER -> 0

Retargeted ==
  CASE cm.stage = "jumps" -> cm.i - 1
    [] cm.stage = "publish" /\ cm.resolve -> Len(p_dis)
    [] OTHER -> 0

CommitProgress ==
  /\ Numbered <= Len(p_dis)
  /\ \A k \in 1..Numbered : obj[p_dis[k]].addr = k - 1
  /\ Retargeted <= Len(p_dis)
  /\ \A k \in 1..Retargeted : Agrees(p_dis[k])

ILInv ==
  /\ ILTypeOK
  /\ Allocated
  /\ PendingUnique
  /\ NoGaps
  /\ CommitProgress
  /\ CommittedAddresses
  /\ JumpsAgree
=============================================================================
