--------------------------- MODULE LuauLiftProofs ---------------------------
(***************************************************************************)
(* Lifting never fails, and everything keeps its type, for every function  *)
(* the compiler emits: what module LuauLift states, proved.  Memory does   *)
(* not run out: there is always another instruction to allocate.  The first*)
(* part is about what every function the Luau compiler emits looks like, of*)
(* any number of units.                                                    *)
(***************************************************************************)
EXTENDS LuauLift, JunkCodeProofs, FiniteSetTheorems

(* The instructions of a function without their addresses.                 *)
Ins == [op : Opcodes, to : Nat, len : {1, 2}]

(* How many instructions a unit becomes.                                   *)
Width(u) == IF u.set THEN 3 ELSE 1

-----------------------------------------------------------------------------
(***************************************************************************)
(* Units.                                                                  *)
(***************************************************************************)

(* The four kinds of a unit of a function of n.                            *)
UnitOK(u, n) ==
  /\ u.to \in 0..(n + 1)
  /\ \/ u.op \in Plain /\ u.to = 0 /\ u.set = FALSE
     \/ u.op \in Jumps \union Compares /\ u.to # 0 /\ u.set = FALSE
     \/ u.op \in Compares \ JumpOnly /\ u.to = 0 /\ u.set = TRUE

(* The units of a function, one by one.                                    *)
LEMMA UnitFacts ==
  ASSUME NEW us \in Functions
  PROVE  /\ Len(us) \in Nat
         /\ DOMAIN us = 1..Len(us)
         /\ \A k \in 1..Len(us) : UnitOK(us[k], Len(us))
<1>0. MaxUnits \in Nat
  BY OpcodesAssumption
<1>1. PICK n \in 0..MaxUnits : us \in [1..n -> Unit]
                               /\ \A k \in 1..n : us[k].to <= n + 1
  BY DEF Functions
<1>2. n \in Nat /\ DOMAIN us = 1..n /\ Len(us) = n
  BY <1>0, <1>1
<1>3. ASSUME NEW u \in Unit, u.to <= n + 1 PROVE UnitOK(u, n)
  <2>1. CASE u \in [op : Plain, to : {0}, set : {FALSE}]
    <3>1. u.to = 0 /\ u.op \in Plain /\ u.set = FALSE
      BY <2>1
    <3>2. 0 \in 0..(n + 1)
      BY <1>2
    <3> QED
      BY <3>1, <3>2 DEF UnitOK
  <2>2. CASE u \in [op : Jumps, to : 1..(MaxUnits + 1), set : {FALSE}]
    <3>1. u.to \in 1..(MaxUnits + 1) /\ u.op \in Jumps /\ u.set = FALSE
      BY <2>2
    <3> QED
      BY <1>0, <1>2, <1>3, <3>1 DEF UnitOK
  <2>3. CASE u \in [op : Compares, to : 1..(MaxUnits + 1), set : {FALSE}]
    <3>1. u.to \in 1..(MaxUnits + 1) /\ u.op \in Compares /\ u.set = FALSE
      BY <2>3
    <3> QED
      BY <1>0, <1>2, <1>3, <3>1 DEF UnitOK
  <2>4. CASE u \in [op : Compares \ JumpOnly, to : {0}, set : {TRUE}]
    <3>1. u.to = 0 /\ u.op \in Compares \ JumpOnly /\ u.set = TRUE
      BY <2>4
    <3>2. 0 \in 0..(n + 1)
      BY <1>2
    <3> QED
      BY <3>1, <3>2 DEF UnitOK
  <2> QED
    BY <2>1, <2>2, <2>3, <2>4 DEF Unit
<1> QED
  BY <1>1, <1>2, <1>3

(* A unit starts where the one before ends.                                *)
LEMMA Starts ==
  ASSUME NEW us \in Functions
  PROVE  /\ StartOf(us, 1) = 1
         /\ \A k \in 1..(Len(us) + 1) : StartOf(us, k) \in Nat \ {0}
         /\ \A k \in 1..Len(us) : StartOf(us, k + 1) = StartOf(us, k) + Width(us[k])
<1> DEFINE n == Len(us)
           w(i) == IF us[i].set THEN 3 ELSE 1
           V == Nat \ {0}
           step == [i \in 1..n |-> [v \in V |-> v + w(i)]]
<1>1. n \in Nat
  BY UnitFacts
<1> HIDE DEF n
<1>2. PICK f : /\ f \in [0..n -> V] /\ f[0] = 1
               /\ \A i \in 1..n : f[i] = f[i - 1] + w(i)
  <2>1. IsStep(step, n, V)
    BY DEF IsStep
  <2>2. 1 \in V
    OBVIOUS
  <2>3. \A i \in 1..n : \A v \in V : step[i][v] = v + w(i)
    OBVIOUS
  <2> HIDE DEF step, w, V
  <2>4. PICK f : Follows(f, 1, n, step, V)
    BY <1>1, <2>1, <2>2, RecursionFollows
  <2>5. f \in [0..n -> V] /\ f[0] = 1 /\ \A i \in 1..n : f[i] = step[i][f[i - 1]]
    BY <2>4 DEF Follows
  <2>6. ASSUME NEW i \in 1..n PROVE f[i] = f[i - 1] + w(i)
    <3>1. f[i - 1] \in V
      BY <1>1, <2>5
    <3> QED
      BY <2>3, <2>5, <3>1
  <2> QED
    BY <2>5, <2>6
<1>3. ASSUME NEW k \in 1..(n + 1) PROVE StartOf(us, k) = f[k - 1]
  <2> DEFINE Solves(g) == g = [j \in 1..k |-> IF j = 1 THEN 1 ELSE g[j - 1] + w(j - 1)]
             h == [j \in 1..k |-> f[j - 1]]
             at == CHOOSE g : Solves(g)
  <2>1. StartOf(us, k) = at[k]
    BY DEF StartOf
  <2>2. Solves(h)
    <3>1. ASSUME NEW j \in 1..k PROVE h[j] = IF j = 1 THEN 1 ELSE h[j - 1] + w(j - 1)
      <4>1. CASE j = 1
        BY <1>2, <4>1
      <4>2. CASE j # 1
        <5>1. j - 1 \in 1..n /\ j - 1 \in 1..k /\ (j - 1) - 1 \in 0..n
          BY <1>1, <4>2
        <5>2. f[j - 1] = f[(j - 1) - 1] + w(j - 1)
          BY <1>2, <5>1
        <5>3. h[j] = f[j - 1] /\ h[j - 1] = f[(j - 1) - 1]
          BY <5>1
        <5> QED
          BY <4>2, <5>2, <5>3
      <4> QED
        BY <4>1, <4>2
    <3> QED
      BY <3>1
  <2>3. Solves(at)
    BY <2>2
  <2> HIDE DEF at
  <2>4. \A j \in 1..k : at[j] = IF j = 1 THEN 1 ELSE at[j - 1] + w(j - 1)
    BY <2>3
  <2> DEFINE P == {j \in Nat : j + 1 <= k => at[j + 1] = f[j]}
  <2>5. 0 \in P
    BY <1>1, <1>2, <2>4
  <2>6. ASSUME NEW j \in Nat, j \in P PROVE j + 1 \in P
    <3> SUFFICES ASSUME (j + 1) + 1 <= k PROVE at[(j + 1) + 1] = f[j + 1]
      BY <2>6
    <3>1. /\ (j + 1) + 1 \in 1..k /\ (j + 1) + 1 # 1 /\ ((j + 1) + 1) - 1 = j + 1
          /\ j + 1 \in 1..n /\ (j + 1) - 1 = j /\ j + 1 <= k
      BY <1>1
    <3>2. at[j + 1] = f[j]
      BY <2>6, <3>1
    <3>3. at[(j + 1) + 1] = at[j + 1] + w(j + 1)
      BY <2>4, <3>1
    <3>4. f[j + 1] = f[j] + w(j + 1)
      BY <1>2, <3>1
    <3> QED
      BY <3>2, <3>3, <3>4
  <2> HIDE DEF P
  <2>7. \A j \in Nat : j \in P
    BY <2>5, <2>6, Induction
  <2>8. k - 1 \in Nat /\ (k - 1) + 1 = k /\ k <= k
    BY <1>1
  <2>9. at[k] = f[k - 1]
    BY <2>7, <2>8 DEF P
  <2> QED
    BY <2>1, <2>9
<1>4. StartOf(us, 1) = 1
  <2>1. 1 \in 1..(n + 1) /\ 1 - 1 = 0
    BY <1>1
  <2> QED
    BY <1>2, <1>3, <2>1
<1>5. \A k \in 1..(n + 1) : StartOf(us, k) \in V
  BY <1>1, <1>2, <1>3
<1>6. ASSUME NEW k \in 1..n PROVE StartOf(us, k + 1) = StartOf(us, k) + w(k)
  <2>1. k \in 1..(n + 1) /\ k + 1 \in 1..(n + 1) /\ (k + 1) - 1 = k
    BY <1>1
  <2> QED
    BY <1>2, <1>3, <2>1
<1> QED
  BY <1>4, <1>5, <1>6 DEF n, Width

(* The opcodes of the instance are opcodes of the instruction set.         *)
LEMMA OpcodeFacts ==
  /\ \A op \in Opcodes, to \in Nat :
       /\ Instruction(op, to) \in Ins
       /\ Instruction(op, to).op = op /\ Instruction(op, to).to = to
  /\ Plain \union Jumps \union Compares \subseteq Opcodes
  /\ "LOP_LOADB" \in Opcodes /\ "LOP_RETURN" \in Opcodes
<1>1. \A op \in Opcodes : Words(op) \in {1, 2}
  BY DEF Words
<1>2. Plain \union Jumps \union Compares \subseteq Opcodes
  BY OpcodesAssumption DEF Opcodes
<1>3. "LOP_LOADB" \in Opcodes /\ "LOP_RETURN" \in Opcodes
  BY DEF Opcodes
<1> QED
  BY <1>1, <1>2, <1>3 DEF Instruction, Ins

(* The instructions of a unit.                                             *)
LEMMA EmittedFacts ==
  ASSUME NEW us \in Functions, NEW k \in 1..Len(us)
  PROVE  /\ Emitted(us, k) \in Seq(Ins)
         /\ Len(Emitted(us, k)) = Width(us[k])
         /\ Width(us[k]) \in Nat
         /\ ~us[k].set =>
              Emitted(us, k)[1]
                = Instruction(us[k].op,
                              IF us[k].to = 0 THEN 0 ELSE StartOf(us, us[k].to))
         /\ us[k].set =>
              /\ Emitted(us, k)[1] = Instruction(us[k].op, StartOf(us, k) + 2)
              /\ Emitted(us, k)[2] = Instruction("LOP_LOADB", StartOf(us, k) + 3)
              /\ Emitted(us, k)[3] = Instruction("LOP_LOADB", StartOf(us, k) + 3)
<1> DEFINE u == us[k]
           s == StartOf(us, k)
           t == IF u.to = 0 THEN 0 ELSE StartOf(us, u.to)
           a == Instruction(u.op, s + 2)
           b == Instruction("LOP_LOADB", s + 3)
           c == Instruction(u.op, t)
           e == Emitted(us, k)
<1>1. Len(us) \in Nat /\ UnitOK(u, Len(us))
  BY UnitFacts
<1>2. s \in Nat /\ t \in Nat
  <2>1. k \in 1..(Len(us) + 1)
    BY <1>1
  <2>2. u.to \in 0..(Len(us) + 1)
    BY <1>1 DEF UnitOK
  <2>3. u.to # 0 => u.to \in 1..(Len(us) + 1)
    BY <1>1, <2>2
  <2> QED
    BY <2>1, <2>3, Starts
<1>3. u.op \in Plain \union Jumps \union Compares
  BY <1>1 DEF UnitOK
<1>4. a \in Ins /\ b \in Ins /\ c \in Ins
  <2>1. s + 2 \in Nat /\ s + 3 \in Nat
    BY <1>2
  <2> HIDE DEF s, t, u
  <2> QED
    BY <1>2, <1>3, <2>1, OpcodeFacts
<1>5. e = IF u.set THEN <<a, b, b>> ELSE <<c>>
  BY DEF Emitted
<1> HIDE DEF a, b, c
<1>6. CASE u.set
  <2>1. e = <<a, b, b>>
    BY <1>5, <1>6
  <2> HIDE DEF e
  <2>2. e \in Seq(Ins) /\ Len(e) = 3 /\ e[1] = a /\ e[2] = b /\ e[3] = b
    BY <1>4, <2>1
  <2> QED
    BY <1>6, <2>2 DEF e, a, b, Width
<1>7. CASE ~u.set
  <2>1. e = <<c>>
    BY <1>5, <1>7
  <2> HIDE DEF e
  <2>2. e \in Seq(Ins) /\ Len(e) = 1 /\ e[1] = c
    BY <1>4, <2>1
  <2> QED
    BY <1>7, <2>2 DEF e, c, t, Width
<1> QED
  BY <1>6, <1>7

(* The units one after the other, and the final RETURN.                    *)
LEMMA CodeFacts ==
  ASSUME NEW us \in Functions
  PROVE  /\ Code(us) \in Seq(Ins)
         /\ Len(Code(us)) = StartOf(us, Len(us) + 1)
         /\ Code(us)[Len(Code(us))] = Instruction("LOP_RETURN", 0)
         /\ \A k \in 1..Len(us) : \A m \in 1..Width(us[k]) :
              /\ StartOf(us, k) + m - 1 \in 1..(Len(Code(us)) - 1)
              /\ Code(us)[StartOf(us, k) + m - 1] = Emitted(us, k)[m]
         /\ \A i \in 1..(Len(Code(us)) - 1) :
              \E k \in 1..Len(us) : \E m \in 1..Width(us[k]) :
                i = StartOf(us, k) + m - 1
<1> DEFINE n == Len(us)
           p == [k \in 1..Len(us) |-> Emitted(us, k)]
           f == UpTo(p, n)
           r == Instruction("LOP_RETURN", 0)
           c == Code(us)
           L(j) == Len(UpTo(p, j))
<1>1. n \in Nat
  BY UnitFacts
<1>2. p \in Seq(Seq(Ins)) /\ Len(p) = n /\ \A k \in 1..n : p[k] = Emitted(us, k)
  <2>1. \A k \in 1..n : Emitted(us, k) \in Seq(Ins)
    BY EmittedFacts
  <2> HIDE DEF n
  <2> QED
    BY <1>1, <2>1 DEF n
<1>3. c = f \o <<r>>
  <2>1. [i \in 1..n |-> p[i]] = p
    BY <1>2
  <2> QED
    BY <2>1 DEF Code, UpTo
<1>4. r \in Ins /\ <<r>> \in Seq(Ins) /\ Len(<<r>>) = 1 /\ <<r>>[1] = r
  <2>1. r \in Ins
    BY OpcodeFacts
  <2> HIDE DEF r
  <2> QED
    BY <2>1
<1> HIDE DEF p, r
<1>5. /\ UpTo(p, 0) = << >>
      /\ \A j \in 0..n : UpTo(p, j) \in Seq(Ins) /\ L(j) \in Nat
      /\ \A j \in 1..n : UpTo(p, j) = UpTo(p, j - 1) \o p[j] /\ p[j] \in Seq(Ins)
  <2> HIDE DEF n
  <2> QED
    BY <1>2, UpToFacts
<1>6. (\A k \in 1..n : Placed(p, n, k)) /\ \A i \in 1..L(n) : InPart(p, n, i)
  <2>1. n \in 0..n
    BY <1>1
  <2> HIDE DEF n
  <2> QED
    BY <1>2, <2>1, UpToAt
<1>7. \A k \in 1..n : Len(p[k]) = Width(us[k]) /\ Width(us[k]) \in Nat
  BY <1>2, EmittedFacts
<1>8. \A k \in 0..n : StartOf(us, k + 1) = L(k) + 1
  <2> DEFINE P == {k \in Nat : k <= n => StartOf(us, k + 1) = L(k) + 1}
  <2>1. 0 \in P
    BY <1>5, Starts
  <2>2. ASSUME NEW k \in Nat, k \in P PROVE k + 1 \in P
    <3> SUFFICES ASSUME k + 1 <= n PROVE StartOf(us, (k + 1) + 1) = L(k + 1) + 1
      BY <2>2
    <3>1. k + 1 \in 1..n /\ (k + 1) - 1 = k /\ k <= n /\ k \in 0..n
      BY <1>1
    <3>2. StartOf(us, k + 1) = L(k) + 1
      BY <2>2, <3>1
    <3>3. StartOf(us, (k + 1) + 1) = StartOf(us, k + 1) + Width(us[k + 1])
      BY <3>1, Starts
    <3>4. L(k + 1) = L(k) + Width(us[k + 1])
      <4>1. UpTo(p, k + 1) = UpTo(p, k) \o p[k + 1] /\ p[k + 1] \in Seq(Ins)
        BY <1>5, <3>1
      <4>2. UpTo(p, k) \in Seq(Ins)
        BY <1>5, <3>1
      <4>3. Len(p[k + 1]) = Width(us[k + 1])
        BY <1>7, <3>1
      <4> QED
        BY <4>1, <4>2, <4>3, ConcatProperties
    <3>5. L(k) \in Nat /\ Width(us[k + 1]) \in Nat
      BY <1>5, <1>7, <3>1
    <3> HIDE DEF L
    <3> QED
      BY <3>2, <3>3, <3>4, <3>5
  <2> HIDE DEF P
  <2>3. \A k \in Nat : k \in P
    BY <2>1, <2>2, Induction
  <2> QED
    BY <1>1, <2>3 DEF P
<1>9. f \in Seq(Ins) /\ Len(f) \in Nat /\ L(n) = Len(f)
  <2>1. n \in 0..n
    BY <1>1
  <2> QED
    BY <1>5, <2>1
<1> HIDE DEF f
<1>10. /\ c \in Seq(Ins) /\ Len(c) = Len(f) + 1 /\ c[Len(f) + 1] = r
       /\ \A i \in 1..Len(f) : c[i] = f[i]
  <2>1. /\ f \o <<r>> \in Seq(Ins) /\ Len(f \o <<r>>) = Len(f) + Len(<<r>>)
        /\ \A i \in 1..(Len(f) + Len(<<r>>)) :
             (f \o <<r>>)[i] = IF i <= Len(f) THEN f[i] ELSE <<r>>[i - Len(f)]
    BY <1>4, <1>9, ConcatProperties
  <2>2. Len(c) = Len(f) + 1
    BY <1>3, <1>4, <2>1
  <2>3. \A i \in 1..Len(f) : c[i] = f[i]
    BY <1>3, <1>4, <1>9, <2>1
  <2>4. c[Len(f) + 1] = r
    <3>1. Len(f) + 1 \in 1..(Len(f) + 1) /\ ~(Len(f) + 1 <= Len(f)) /\ (Len(f) + 1) - Len(f) = 1
      BY <1>9
    <3> QED
      BY <1>3, <1>4, <2>1, <3>1
  <2> QED
    BY <1>3, <2>1, <2>2, <2>3, <2>4
<1>11. Len(c) = StartOf(us, n + 1)
  <2>1. n \in 0..n
    BY <1>1
  <2> QED
    BY <1>8, <1>9, <1>10, <2>1
<1>12. ASSUME NEW k \in 1..n, NEW m \in 1..Width(us[k])
       PROVE  /\ StartOf(us, k) + m - 1 \in 1..(Len(c) - 1)
              /\ c[StartOf(us, k) + m - 1] = Emitted(us, k)[m]
  <2>1. Placed(p, n, k)
    BY <1>6
  <2>2. m \in 1..Len(p[k])
    BY <1>7
  <2>3. L(k - 1) + m \in 1..Len(f) /\ f[L(k - 1) + m] = p[k][m]
    BY <2>1, <2>2 DEF Placed, f
  <2>4. k - 1 \in 0..n /\ (k - 1) + 1 = k
    BY <1>1
  <2>5. StartOf(us, k) = L(k - 1) + 1 /\ L(k - 1) \in Nat
    BY <1>5, <1>8, <2>4
  <2>6. m \in Nat
    BY <1>7
  <2> HIDE DEF L, c
  <2>7. StartOf(us, k) + m - 1 = L(k - 1) + m
    BY <2>5, <2>6
  <2> QED
    BY <1>2, <1>9, <1>10, <2>3, <2>7
<1>13. ASSUME NEW i \in 1..(Len(c) - 1)
       PROVE  \E k \in 1..n : \E m \in 1..Width(us[k]) : i = StartOf(us, k) + m - 1
  <2>1. i \in 1..Len(f)
    BY <1>9, <1>10
  <2>2. InPart(p, n, i)
    BY <1>6, <1>9, <2>1
  <2>5. PICK k \in 1..n : \E m \in 1..Len(p[k]) : i = L(k - 1) + m
    BY <2>2 DEF InPart
  <2>6. PICK m \in 1..Width(us[k]) : i = L(k - 1) + m
    BY <1>7, <2>5
  <2>7. k - 1 \in 0..n /\ (k - 1) + 1 = k
    BY <1>1
  <2>8. StartOf(us, k) = L(k - 1) + 1 /\ L(k - 1) \in Nat
    BY <1>5, <1>8, <2>7
  <2>9. m \in Nat
    BY <1>7
  <2> HIDE DEF L
  <2>10. i = StartOf(us, k) + m - 1
    BY <2>6, <2>8, <2>9
  <2> QED
    BY <2>10
<1> HIDE DEF c
<1>14. Len(c) = Len(f) + 1 /\ c[Len(c)] = r
  BY <1>10
<1> QED
  BY <1>10, <1>11, <1>12, <1>13, <1>14 DEF c, r, n

-----------------------------------------------------------------------------
(***************************************************************************)
(* Addresses.                                                              *)
(***************************************************************************)

(* Addresses count words, from 0.                                          *)
LEMMA Addresses ==
  ASSUME NEW c \in Seq(Ins), \A i \in 1..Len(c) : c[i].to \in 0..Len(c),
         NEW body, body = Disassembled(c)
  PROVE  /\ body \in Seq(Inst)
         /\ Len(body) = Len(c)
         /\ \A i \in 1..Len(c) :
              /\ body[i].op = c[i].op /\ body[i].to = c[i].to
              /\ body[i].jmp = IF body[i].to = 0 THEN 0
                               ELSE body[body[i].to].addr - body[i].addr - 1
              /\ body[i].to # 0 => body[i].ref_addr = body[body[i].to].addr
         /\ \A i \in 1..(Len(c) - 1) : body[i + 1].addr = body[i].addr + body[i].len
         /\ \A i \in 1..Len(c) : body[i].addr = 0 <=> i = 1
<1> DEFINE n == Len(c)
           Solves(g) == g = [i \in 1..Len(c) |-> IF i = 1 THEN 0
                                                 ELSE g[i - 1] + c[i - 1].len]
           at == CHOOSE g : Solves(g)
           jmp(i) == IF c[i].to = 0 THEN 0 ELSE at[c[i].to] - at[i] - 1
           step == [i \in 1..n |-> [v \in Nat |-> v + c[i].len]]
<1>1. n \in Nat /\ \A i \in 1..n : c[i] \in Ins /\ c[i].len \in {1, 2} /\ c[i].to \in 0..n
  <2>1. n \in Nat /\ \A i \in 1..n : c[i] \in Ins
    OBVIOUS
  <2>2. \A x \in Ins : x.len \in {1, 2}
    BY DEF Ins
  <2> QED
    BY <2>1, <2>2
<1>2. body = [i \in 1..Len(c) |->
                [op |-> c[i].op, to |-> c[i].to, len |-> c[i].len,
                 addr |-> at[i], jmp |-> jmp(i), ref_addr |-> jmp(i) + at[i] + 1]]
  BY DEF Disassembled
<1> HIDE DEF n
<1>3. PICK f : /\ f \in [0..n -> Nat] /\ f[0] = 0
               /\ \A i \in 1..n : f[i] = f[i - 1] + c[i].len
  <2>1. IsStep(step, n, Nat)
    BY <1>1 DEF IsStep
  <2>2. 0 \in Nat
    OBVIOUS
  <2>3. \A i \in 1..n : \A v \in Nat : step[i][v] = v + c[i].len
    OBVIOUS
  <2> HIDE DEF step
  <2>4. PICK f : Follows(f, 0, n, step, Nat)
    BY <1>1, <2>1, <2>2, RecursionFollows
  <2>5. f \in [0..n -> Nat] /\ f[0] = 0 /\ \A i \in 1..n : f[i] = step[i][f[i - 1]]
    BY <2>4 DEF Follows
  <2>6. ASSUME NEW i \in 1..n PROVE f[i] = f[i - 1] + c[i].len
    <3>1. f[i - 1] \in Nat
      BY <1>1, <2>5
    <3> QED
      BY <2>3, <2>5, <3>1
  <2> QED
    BY <2>5, <2>6
<1>4. Solves(at)
  <2> DEFINE h == [i \in 1..Len(c) |-> f[i - 1]]
  <2>1. ASSUME NEW i \in 1..n PROVE h[i] = IF i = 1 THEN 0 ELSE h[i - 1] + c[i - 1].len
    <3>1. CASE i = 1
      BY <1>3, <3>1 DEF n
    <3>2. CASE i # 1
      <4>1. i - 1 \in 1..n
        BY <1>1, <3>2
      <4>2. f[i - 1] = f[(i - 1) - 1] + c[i - 1].len
        BY <1>3, <4>1
      <4>3. h[i] = f[i - 1] /\ h[i - 1] = f[(i - 1) - 1]
        BY <4>1 DEF n
      <4> QED
        BY <3>2, <4>2, <4>3
    <3> QED
      BY <3>1, <3>2
  <2>2. Solves(h)
    BY <2>1 DEF n
  <2> QED
    BY <2>2
<1> HIDE DEF at
<1>5. \A i \in 1..n : at[i] = IF i = 1 THEN 0 ELSE at[i - 1] + c[i - 1].len
  BY <1>4 DEF n
<1>6. \A i \in 1..n : at[i] \in Nat
  <2> DEFINE P == {i \in Nat : i + 1 <= n => at[i + 1] \in Nat}
  <2>1. 0 \in P
    BY <1>1, <1>5
  <2>2. ASSUME NEW i \in Nat, i \in P PROVE i + 1 \in P
    <3> SUFFICES ASSUME (i + 1) + 1 <= n PROVE at[(i + 1) + 1] \in Nat
      BY <2>2
    <3>1. /\ (i + 1) + 1 \in 1..n /\ (i + 1) + 1 # 1 /\ ((i + 1) + 1) - 1 = i + 1
          /\ i + 1 \in 1..n
      BY <1>1
    <3>2. at[i + 1] \in Nat
      BY <1>1, <2>2, <3>1
    <3>3. at[(i + 1) + 1] = at[i + 1] + c[i + 1].len
      BY <1>5, <3>1
    <3>4. c[i + 1].len \in {1, 2}
      BY <1>1, <3>1
    <3> QED
      BY <3>2, <3>3, <3>4
  <2> HIDE DEF P
  <2>3. \A i \in Nat : i \in P
    BY <2>1, <2>2, Induction
  <2> SUFFICES ASSUME NEW i \in 1..n PROVE at[i] \in Nat
    OBVIOUS
  <2>4. i - 1 \in Nat /\ (i - 1) + 1 = i /\ i <= n
    BY <1>1
  <2>5. i - 1 \in P
    BY <2>3, <2>4
  <2> QED
    BY <2>4, <2>5 DEF P
<1>7. ASSUME NEW i \in 1..(n - 1) PROVE at[i + 1] = at[i] + c[i].len
  <2>1. i \in 1..n /\ i + 1 \in 1..n /\ i + 1 # 1 /\ (i + 1) - 1 = i
    BY <1>1
  <2> QED
    BY <1>5, <2>1
<1>z. ASSUME NEW i \in 1..n PROVE at[i] = 0 <=> i = 1
  <2>1. CASE i = 1
    BY <1>5, <2>1
  <2>2. CASE i # 1
    <3>1. i - 1 \in 1..n
      BY <1>1, <2>2
    <3>2. at[i] = at[i - 1] + c[i - 1].len /\ at[i - 1] \in Nat /\ c[i - 1].len \in {1, 2}
      BY <1>1, <1>5, <1>6, <2>2, <3>1
    <3> QED
      BY <2>2, <3>2
  <2> QED
    BY <2>1, <2>2
<1>8. \A i \in 1..n : jmp(i) \in Int
  <2> SUFFICES ASSUME NEW i \in 1..n PROVE jmp(i) \in Int
    OBVIOUS
  <2>1. at[i] \in Nat
    BY <1>6
  <2>2. c[i].to # 0 => c[i].to \in 1..n
    BY <1>1
  <2>3. c[i].to # 0 => at[c[i].to] \in Nat
    BY <1>6, <2>2
  <2> QED
    BY <2>1, <2>3
<1>9. body = [i \in 1..n |->
                [op |-> c[i].op, to |-> c[i].to, len |-> c[i].len,
                 addr |-> at[i], jmp |-> jmp(i), ref_addr |-> jmp(i) + at[i] + 1]]
  BY <1>2 DEF n
<1>10. \A i \in 1..n : /\ body[i].op = c[i].op /\ body[i].to = c[i].to
                       /\ body[i].addr = at[i] /\ body[i].jmp = jmp(i)
                       /\ body[i].ref_addr = jmp(i) + at[i] + 1
  BY <1>9
<1>11. \A i \in 1..n : body[i] \in Inst
  <2> SUFFICES ASSUME NEW i \in 1..n PROVE body[i] \in Inst
    OBVIOUS
  <2>1. jmp(i) \in Int /\ at[i] \in Nat /\ c[i].to \in Nat /\ c[i].op \in Opcodes
        /\ c[i].len \in {1, 2}
    BY <1>1, <1>6, <1>8 DEF Ins
  <2>2. jmp(i) + at[i] + 1 \in Int
    BY <2>1
  <2> HIDE DEF jmp
  <2> QED
    BY <1>9, <2>1, <2>2 DEF Inst
<1>12. body \in Seq(Inst) /\ Len(body) = n
  <2>1. DOMAIN body = 1..n
    BY <1>9
  <2>2. body \in [1..n -> Inst]
    <3> HIDE DEF jmp
    <3> QED
      BY <1>9, <1>11
  <2> QED
    BY <1>1, <2>2
<1>13. ASSUME NEW i \in 1..n
       PROVE  /\ body[i].jmp = IF body[i].to = 0 THEN 0
                               ELSE body[body[i].to].addr - body[i].addr - 1
              /\ body[i].to # 0 => body[i].ref_addr = body[body[i].to].addr
  <2>1. c[i].to # 0 => c[i].to \in 1..n
    BY <1>1
  <2>2. c[i].to # 0 => body[c[i].to].addr = at[c[i].to] /\ at[c[i].to] \in Nat
    BY <1>6, <1>10, <2>1
  <2>3. body[i].to = c[i].to /\ body[i].addr = at[i] /\ at[i] \in Nat
    BY <1>6, <1>10
  <2>4. body[i].jmp = jmp(i) /\ body[i].ref_addr = jmp(i) + at[i] + 1
    BY <1>10
  <2> QED
    BY <2>2, <2>3, <2>4
<1>14. \A i \in 1..(n - 1) : body[i + 1].addr = body[i].addr + body[i].len
  <2> SUFFICES ASSUME NEW i \in 1..(n - 1)
               PROVE  body[i + 1].addr = body[i].addr + body[i].len
    OBVIOUS
  <2>1. i \in 1..n /\ i + 1 \in 1..n
    BY <1>1
  <2>2. body[i].len = c[i].len
    BY <1>9, <2>1
  <2> QED
    BY <1>7, <1>10, <2>1, <2>2
<1> HIDE DEF jmp
<1> QED
  BY <1>10, <1>12, <1>13, <1>14, <1>z DEF n

-----------------------------------------------------------------------------
(***************************************************************************)
(* Programs.                                                               *)
(***************************************************************************)

(* Where a unit starts there is no LOADB.                                  *)
LEMMA UnitStart ==
  ASSUME NEW us \in Functions, NEW k \in 1..(Len(us) + 1)
  PROVE  /\ StartOf(us, k) \in 1..Len(Code(us))
         /\ Code(us)[StartOf(us, k)].op # "LOP_LOADB"
         /\ k # Len(us) + 1 => Code(us)[StartOf(us, k)].op = us[k].op
                               /\ StartOf(us, k) # Len(Code(us))
<1>1. Len(us) \in Nat /\ Len(Code(us)) \in Nat /\ StartOf(us, k) \in Nat \ {0}
  BY UnitFacts, Starts, CodeFacts
<1>2. CASE k = Len(us) + 1
  <2>1. StartOf(us, k) = Len(Code(us)) /\ Code(us)[StartOf(us, k)] = Instruction("LOP_RETURN", 0)
    BY <1>2, CodeFacts
  <2>2. Instruction("LOP_RETURN", 0).op = "LOP_RETURN"
    BY DEF Instruction
  <2> QED
    BY <1>1, <1>2, <2>1, <2>2
<1>3. CASE k # Len(us) + 1
  <2>1. k \in 1..Len(us)
    BY <1>1, <1>3
  <2>2. 1 \in 1..Width(us[k])
    BY DEF Width
  <2>3. /\ StartOf(us, k) + 1 - 1 \in 1..(Len(Code(us)) - 1)
        /\ Code(us)[StartOf(us, k) + 1 - 1] = Emitted(us, k)[1]
    BY <2>1, <2>2, CodeFacts
  <2>4. StartOf(us, k) + 1 - 1 = StartOf(us, k)
    BY <1>1
  <2>5. Emitted(us, k)[1].op = us[k].op
    <3>1. \A op, to : Instruction(op, to).op = op
      BY DEF Instruction
    <3>2. CASE us[k].set
      <4>1. Emitted(us, k)[1] = Instruction(us[k].op, StartOf(us, k) + 2)
        BY <2>1, <3>2, EmittedFacts
      <4> QED
        BY <3>1, <4>1
    <3>3. CASE ~us[k].set
      <4>1. Emitted(us, k)[1]
              = Instruction(us[k].op, IF us[k].to = 0 THEN 0 ELSE StartOf(us, us[k].to))
        BY <2>1, <3>3, EmittedFacts
      <4> QED
        BY <3>1, <4>1
    <3> QED
      BY <3>2, <3>3
  <2>6. us[k].op # "LOP_LOADB"
    <3>1. us[k].op \in Plain \union Jumps \union Compares
      BY <2>1, UnitFacts DEF UnitOK
    <3> QED
      BY <3>1, OpcodesAssumption DEF FallThrough, Unconditional, Conditional,
                                     Tests, Binary, WithConstant
  <2> QED
    BY <1>1, <1>3, <2>3, <2>4, <2>5, <2>6
<1> QED
  BY <1>2, <1>3

(* What the lifter is given.                                               *)
THEOREM Programs ==
  ASSUME NEW us \in Functions, NEW body, body = Disassembled(Code(us))
  PROVE  ProgramOK(body)
<1> DEFINE c == Code(us)
           n == Len(Code(us))
<1>1. Len(us) \in Nat /\ c \in Seq(Ins) /\ n \in Nat
  BY UnitFacts, CodeFacts
<1>0. n \in 1..n /\ c[n] = Instruction("LOP_RETURN", 0)
  <2>1. Len(us) + 1 \in 1..(Len(us) + 1)
    BY <1>1
  <2>2. StartOf(us, Len(us) + 1) \in 1..n
    BY <2>1, UnitStart
  <2> QED
    BY <2>2, CodeFacts
<1> DEFINE
      To(i) == c[i].to
      PairOf(j) ==
        /\ j + 3 \in 1..n
        /\ c[j].op \in Compares \ JumpOnly /\ To(j) = j + 2
        /\ c[j + 1].op = "LOP_LOADB" /\ To(j + 1) = j + 3
        /\ c[j + 2].op = "LOP_LOADB" /\ To(j + 2) = j + 3
        /\ c[j + 3].op # "LOP_LOADB"
      SingleOf(i) ==
        /\ c[i].op \in Plain \union Jumps \union Compares
        /\ c[i].op \in Jumps \union Compares => To(i) # 0
        /\ c[i].op \in Plain => To(i) = 0
        /\ To(i) # 0 => To(i) \in 1..n /\ c[To(i)].op # "LOP_LOADB"
      Known(i) == \/ PairOf(i)
                  \/ SingleOf(i)
                  \/ \E j \in 1..n : PairOf(j) /\ i \in {j + 1, j + 2}
<1>2. ASSUME NEW k \in 1..Len(us), us[k].set
      PROVE  PairOf(StartOf(us, k)) /\ StartOf(us, k) \in 1..n
  <2> DEFINE s == StartOf(us, k)
             e == Emitted(us, k)
  <2>1. Width(us[k]) = 3
    BY <1>2 DEF Width
  <2>2. /\ e[1] = Instruction(us[k].op, s + 2)
        /\ e[2] = Instruction("LOP_LOADB", s + 3)
        /\ e[3] = Instruction("LOP_LOADB", s + 3)
    BY <1>2, EmittedFacts
  <2>3. s \in 1..n /\ s + 3 \in 1..n /\ c[s + 3].op # "LOP_LOADB"
    <3>1. k \in 1..(Len(us) + 1) /\ k + 1 \in 1..(Len(us) + 1)
      BY <1>1
    <3>2. StartOf(us, k + 1) = s + 3
      BY <2>1, Starts
    <3> QED
      BY <3>1, <3>2, UnitStart
  <2>4. c[s] = e[1] /\ c[s + 1] = e[2] /\ c[s + 2] = e[3]
    <3>1. \A m \in 1..3 : c[s + m - 1] = e[m]
      BY <2>1, CodeFacts
    <3>2. s + 1 - 1 = s /\ s + 2 - 1 = s + 1 /\ s + 3 - 1 = s + 2
      BY <2>3
    <3>3. 1 \in 1..3 /\ 2 \in 1..3 /\ 3 \in 1..3
      OBVIOUS
    <3>4. c[s + 1 - 1] = e[1] /\ c[s + 2 - 1] = e[2] /\ c[s + 3 - 1] = e[3]
      BY <3>1, <3>3
    <3> HIDE DEF s, c, e
    <3> QED
      BY <3>2, <3>4
  <2>5. us[k].op \in Compares \ JumpOnly
    BY <1>2, UnitFacts DEF UnitOK
  <2> HIDE DEF s, c, e
  <2>6. PairOf(s)
    BY <2>2, <2>3, <2>4, <2>5 DEF Instruction
  <2> QED
    BY <2>3, <2>6 DEF s
<1>3. ASSUME NEW k \in 1..Len(us), ~us[k].set
      PROVE  SingleOf(StartOf(us, k))
  <2> DEFINE s == StartOf(us, k)
             u == us[k]
  <2>1. UnitOK(u, Len(us))
    BY UnitFacts
  <2>2. Emitted(us, k)[1] = Instruction(u.op, IF u.to = 0 THEN 0 ELSE StartOf(us, u.to))
    BY <1>3, EmittedFacts
  <2>3. c[s] = Emitted(us, k)[1]
    <3>1. 1 \in 1..Width(u)
      BY DEF Width
    <3>2. c[s + 1 - 1] = Emitted(us, k)[1]
      BY <3>1, CodeFacts
    <3>3. k \in 1..(Len(us) + 1)
      BY <1>1
    <3>4. s \in Nat \ {0}
      BY <3>3, Starts
    <3>5. s + 1 - 1 = s
      BY <3>4
    <3> HIDE DEF s, c
    <3> QED
      BY <3>2, <3>5
  <2>4. c[s].op = u.op /\ To(s) = IF u.to = 0 THEN 0 ELSE StartOf(us, u.to)
    BY <2>2, <2>3 DEF Instruction
  <2>5. u.to # 0 => /\ StartOf(us, u.to) \in 1..n
                    /\ c[StartOf(us, u.to)].op # "LOP_LOADB"
                    /\ StartOf(us, u.to) # 0
    <3>1. u.to # 0 => u.to \in 1..(Len(us) + 1)
      BY <1>1, <2>1 DEF UnitOK
    <3> QED
      BY <1>1, <3>1, UnitStart
  <2>6. \/ u.op \in Plain /\ u.to = 0
        \/ u.op \in Jumps \union Compares /\ u.to # 0
    BY <1>3, <2>1 DEF UnitOK
  <2>7. \A x \in Plain : x \notin Jumps /\ x \notin Compares
    BY OpcodesAssumption DEF FallThrough, Unconditional, Conditional, Tests, Binary,
                             WithConstant
  <2> HIDE DEF s, c, u
  <2> QED
    BY <2>4, <2>5, <2>6, <2>7 DEF s
<1>4. ASSUME NEW i \in 1..(n - 1) PROVE Known(i) /\ c[i].op # "LOP_RETURN"
  <2>1. PICK k \in 1..Len(us) : \E m \in 1..Width(us[k]) : i = StartOf(us, k) + m - 1
    BY CodeFacts
  <2>2. PICK m \in 1..Width(us[k]) : i = StartOf(us, k) + m - 1
    BY <2>1
  <2> DEFINE s == StartOf(us, k)
  <2>3. s \in Nat
    BY <1>1, Starts
  <2>4. \A x \in Plain \union Jumps \union Compares : x # "LOP_RETURN"
    BY OpcodesAssumption DEF FallThrough, Unconditional, Conditional, Tests, Binary,
                             WithConstant
  <2>5. CASE us[k].set
    <3>1. PairOf(s) /\ s \in 1..n
      BY <1>2, <2>5
    <3>2. m \in 1..3
      BY <2>5 DEF Width
    <3>3. i \in {s, s + 1, s + 2}
      BY <2>2, <2>3, <3>2
    <3> HIDE DEF s, c, n
    <3>4. c[i].op # "LOP_RETURN"
      BY <2>4, <3>1, <3>3
    <3>5. Known(i)
      <4>1. CASE i = s
        BY <3>1, <4>1
      <4>2. CASE i \in {s + 1, s + 2}
        BY <3>1, <4>2
      <4> QED
        BY <3>3, <4>1, <4>2
    <3> QED
      BY <3>4, <3>5
  <2>6. CASE ~us[k].set
    <3>1. SingleOf(s)
      BY <1>3, <2>6
    <3>2. m = 1
      BY <2>6 DEF Width
    <3>3. i = s
      BY <2>2, <2>3, <3>2
    <3> HIDE DEF s, c, n
    <3> QED
      BY <2>4, <3>1, <3>3
  <2> QED
    BY <2>5, <2>6
<1>5. c[n].op = "LOP_RETURN" /\ To(n) = 0
  BY <1>0 DEF Instruction
<1>6. \A i \in 1..n : To(i) \in 0..n
  <2> SUFFICES ASSUME NEW i \in 1..n PROVE To(i) \in 0..n
    OBVIOUS
  <2> HIDE DEF c, n
  <2>1. CASE i = n
    BY <1>1, <1>5, <2>1
  <2>2. CASE i # n
    <3>0. i \in 1..(n - 1)
      BY <1>1, <2>2
    <3>1. Known(i)
      BY <1>4, <3>0
    <3>2. CASE PairOf(i)
      <4>1. i + 2 \in 0..n
        BY <1>1, <3>2
      <4> QED
        BY <3>2, <4>1
    <3>3. CASE SingleOf(i)
      <4>1. 0 \in 0..n /\ 1..n \subseteq 0..n
        BY <1>1
      <4> QED
        BY <3>3, <4>1
    <3>4. CASE \E j \in 1..n : PairOf(j) /\ i \in {j + 1, j + 2}
      <4>1. PICK j \in 1..n : PairOf(j) /\ i \in {j + 1, j + 2}
        BY <3>4
      <4>2. To(i) = j + 3
        BY <4>1
      <4>3. j + 3 \in 1..n
        BY <4>1
      <4> QED
        BY <1>1, <4>2, <4>3
    <3> QED
      BY <3>1, <3>2, <3>3, <3>4
  <2> QED
    BY <2>1, <2>2
<1>7. /\ body \in Seq(Inst) /\ Len(body) = n
      /\ \A i \in 1..n :
              /\ body[i].op = c[i].op /\ body[i].to = c[i].to
              /\ body[i].jmp = IF body[i].to = 0 THEN 0
                               ELSE body[body[i].to].addr - body[i].addr - 1
              /\ body[i].to # 0 => body[i].ref_addr = body[body[i].to].addr
      /\ \A i \in 1..(n - 1) : body[i + 1].addr = body[i].addr + body[i].len
      /\ \A i \in 1..n : body[i].addr = 0 <=> i = 1
  <2>1. body = Disassembled(c)
    OBVIOUS
  <2> HIDE DEF c
  <2> QED
    BY <1>1, <1>6, <2>1, Addresses DEF c
<1> HIDE DEF c, n
<1>8. body # << >>
  BY <1>0, <1>7
<1>9. ASSUME NEW j \in 1..n, PairOf(j) PROVE Pair(body, j)
  <2>1. j + 1 \in 1..n /\ j + 2 \in 1..n /\ j + 3 \in 1..n
    BY <1>1, <1>9
  <2> QED
    BY <1>7, <1>9, <2>1 DEF Pair
<1>10. ASSUME NEW i \in 1..n, SingleOf(i) PROVE Single(body, i)
  <2>1. body[i].op = c[i].op /\ body[i].to = To(i)
    BY <1>7
  <2>2. "LOP_RETURN" \notin Plain \union Jumps \union Compares
    BY OpcodesAssumption DEF FallThrough, Unconditional, Conditional, Tests, Binary,
                             WithConstant
  <2>3. To(i) # 0 => body[To(i)].op # "LOP_LOADB"
    BY <1>7, <1>10
  <2> QED
    BY <1>10, <2>1, <2>2, <2>3 DEF Single
<1>11. Single(body, n) /\ body[n].op = "LOP_RETURN"
  <2>1. body[n].op = "LOP_RETURN" /\ body[n].to = 0
    BY <1>0, <1>5, <1>7
  <2>2. "LOP_RETURN" \notin Jumps \union Compares
    BY OpcodesAssumption DEF FallThrough, Unconditional, Conditional, Tests, Binary,
                             WithConstant
  <2> QED
    BY <2>1, <2>2 DEF Single
<1>12. ASSUME NEW i \in 1..n
       PROVE  /\ body[i].to \in 0..n
              /\ body[i].op = "LOP_RETURN" <=> i = n
              /\ \/ Pair(body, i)
                 \/ Single(body, i)
                 \/ \E j \in 1..n : Pair(body, j) /\ i \in {j + 1, j + 2}
  <2>0. body[i].to \in 0..n /\ body[i].op = c[i].op
    BY <1>6, <1>7
  <2>1. CASE i = n
    BY <1>11, <2>0, <2>1
  <2>2. CASE i # n
    <3>1. i \in 1..(n - 1)
      BY <1>1, <2>2
    <3>2. Known(i) /\ c[i].op # "LOP_RETURN"
      BY <1>4, <3>1
    <3> QED
      BY <1>9, <1>10, <2>0, <2>2, <3>2
  <2> QED
    BY <2>1, <2>2
<1> QED
  BY <1>7, <1>8, <1>12 DEF ProgramOK

-----------------------------------------------------------------------------
(***************************************************************************)
(* What the lifter is given and how it finds its way in it.                *)
(***************************************************************************)

(* The operands of a bytecode instruction, by type.                        *)
LEMMA InstructionFacts ==
  ASSUME ProgramOK(prog)
  PROVE  /\ Len(prog) \in Nat \ {0}
         /\ \A i \in 1..Len(prog) :
              /\ prog[i].op \in Opcodes /\ prog[i].len \in {1, 2}
              /\ prog[i].addr \in Nat /\ prog[i].jmp \in Int
              /\ prog[i].ref_addr \in Int /\ prog[i].to \in 0..Len(prog)
<1>1. prog \in Seq(Inst) /\ prog # << >>
  BY DEF ProgramOK
<1>2. Len(prog) \in Nat \ {0} /\ \A i \in 1..Len(prog) : prog[i] \in Inst
  BY <1>1
<1>3. \A x \in Inst : /\ x.op \in Opcodes /\ x.len \in {1, 2} /\ x.addr \in Nat
                      /\ x.jmp \in Int /\ x.ref_addr \in Int
  BY DEF Inst
<1> QED
  BY <1>2, <1>3 DEF ProgramOK

(* Two opcodes of different kinds differ.                                  *)
LEMMA OpcodesDiffer ==
  /\ \A op \in Tests \union Binary :
       op \notin Plain \union Jumps \union {"LOP_RETURN", "LOP_LOADB"}
  /\ \A op \in Unconditional \union Conditional :
       op \notin Plain \union Compares \union {"LOP_RETURN", "LOP_LOADB"}
  /\ "LOP_LOADB" \notin Plain \union Jumps \union Compares \union {"LOP_RETURN"}
  BY OpcodesAssumption DEF FallThrough, Unconditional, Conditional, Tests, Binary,
                           WithConstant

(* Every instruction with a jump operand, and every compare, jumps.        *)
LEMMA JumpsLead ==
  ASSUME ProgramOK(prog), NEW i \in 1..Len(prog),
         prog[i].op \in Tests \union Binary \union Unconditional \union Conditional
  PROVE  prog[i].to \in 1..Len(prog) /\ prog[i].ref_addr = prog[prog[i].to].addr
<1>1. /\ prog[i].to \in 0..Len(prog) /\ Len(prog) \in Nat
      /\ prog[i].to # 0 => prog[i].ref_addr = prog[prog[i].to].addr
      /\ \/ Pair(prog, i)
         \/ Single(prog, i)
         \/ \E j \in 1..Len(prog) : Pair(prog, j) /\ i \in {j + 1, j + 2}
  BY InstructionFacts DEF ProgramOK
<1>2. CASE Pair(prog, i)
  BY <1>1, <1>2 DEF Pair
<1>3. CASE Single(prog, i)
  <2>1. prog[i].op \in Jumps \union Compares
    BY <1>3, OpcodesDiffer DEF Single
  <2> QED
    BY <1>1, <1>3, <2>1 DEF Single
<1>4. CASE \E j \in 1..Len(prog) : Pair(prog, j) /\ i \in {j + 1, j + 2}
  <2>1. prog[i].op = "LOP_LOADB"
    BY <1>4 DEF Pair
  <2> QED
    BY <2>1, OpcodesDiffer
<1> QED
  BY <1>1, <1>2, <1>3, <1>4

(* What parse_instructions gives a jump operand jumps.                     *)
LEMMA OperandsLead ==
  ASSUME ProgramOK(prog), NEW i \in 1..Len(prog), Translated(prog[i]) \in TakesJump
  PROVE  prog[i].to \in 1..Len(prog) /\ prog[i].ref_addr = prog[prog[i].to].addr
<1>1. prog[i].op \in Unconditional \union Conditional
  BY DEF Translated, TakesJump, Unconditional, Conditional
<1> QED
  BY <1>1, JumpsLead

(* parse_compares finds exactly the compares that the compiler made values.*)
LEMMA SetIsPair ==
  ASSUME ProgramOK(prog), NEW i \in 1..Len(prog), prog[i].op \in Tests \union Binary,
         SetCmp(i)
  PROVE  Pair(prog, i)
<1>1. i + 1 \in 1..Len(prog) /\ prog[i + 1].op = "LOP_LOADB"
  BY InstructionFacts DEF SetCmp
<1>2. \/ Pair(prog, i + 1)
      \/ Single(prog, i + 1)
      \/ \E j \in 1..Len(prog) : Pair(prog, j) /\ i + 1 \in {j + 1, j + 2}
  BY <1>1 DEF ProgramOK
<1>3. PICK j \in 1..Len(prog) : Pair(prog, j) /\ i + 1 \in {j + 1, j + 2}
  BY <1>1, <1>2, OpcodesDiffer DEF Pair, Single
<1>4. i = j \/ i = j + 1
  BY <1>3
<1>5. i # j + 1
  BY <1>3, OpcodesDiffer DEF Pair
<1> QED
  BY <1>3, <1>4, <1>5

(* visit_addr returns an instruction at the address.                       *)
LEMMA VisitFacts ==
  ASSUME dis \in Seq(Obj), NEW a, Visitable(a)
  PROVE  VisitAddr(a) \in ToSet(dis) /\ obj[VisitAddr(a)].addr = a
<1> DEFINE T == {k \in Nat : k \in 1..Len(dis) /\ obj[dis[k]].addr = a}
<1>1. Len(dis) \in Nat
  OBVIOUS
<1>2. T # {}
  BY <1>1, ToSetFacts DEF Visitable
<1>3. PICK k \in T : \A j \in T : k <= j
  <2>1. T \in SUBSET Nat
    OBVIOUS
  <2> HIDE DEF T
  <2> QED
    BY <1>2, <2>1, LeastNumber
<1>4. /\ k \in 1..Len(dis) /\ obj[dis[k]].addr = a
      /\ \A j \in 1..(k - 1) : obj[dis[j]].addr # a
  <2>1. \A j \in 1..(k - 1) : j \in 1..Len(dis) /\ j \in Nat /\ ~(k <= j)
    BY <1>1, <1>3
  <2> QED
    BY <1>3, <2>1
<1> HIDE DEF T
<1>5. \E l \in 1..Len(dis) : /\ VisitAddr(a) = dis[l]
                             /\ obj[dis[l]].addr = a
  BY <1>4 DEF VisitAddr
<1> QED
  BY <1>5, ToSetFacts

(* Before the edits the address an operand names leads to the very         *)
(* instruction the bytecode jumps to.                                      *)
LEMMA OriginalsVisitable ==
  ASSUME ProgramOK(prog), dis \in Seq(Obj), Originals(dis, Len(prog)),
         NEW i \in 1..Len(prog)
  PROVE  Visitable(prog[i].addr)
<1>1. i \in 1..Len(dis) /\ obj[dis[i]].addr = prog[i].addr
  BY DEF Originals, Original
<1>2. dis[i] \in ToSet(dis)
  BY <1>1, ToSetFacts
<1> QED
  BY <1>1, <1>2 DEF Visitable

-----------------------------------------------------------------------------
(***************************************************************************)
(* Allocation.                                                             *)
(***************************************************************************)

Unlimited == ~IsFiniteSet(Obj)

(* An allocation yields an instruction that is not in use.                 *)
LEMMA FreshFacts ==
  ASSUME Unlimited, NEW used, IsFiniteSet(used)
  PROVE  Fresh(used) \in Obj /\ Fresh(used) \notin used
<1>1. \E d \in Obj : d \notin used
  <2> SUFFICES ASSUME Obj \subseteq used PROVE FALSE
    OBVIOUS
  <2> QED
    BY FS_Subset DEF Unlimited
<1> QED
  BY <1>1 DEF Fresh

-----------------------------------------------------------------------------
(***************************************************************************)
(* The state.                                                              *)
(***************************************************************************)

Phases == Loops \union Edits \union Commits \union Ends

Lifts == [phase : Phases, i : Nat \ {0}, pc : Nat]

Codes(n) == [Obj -> [op : ILOps, at : 0..n]]

Commitments == [stage : Stages, i : Nat \ {0}, resolve : BOOLEAN, resolved : BOOLEAN]

(* The state, by type.                                                     *)
LEMMA StateFacts ==
  ASSUME LiftInv
  PROVE  /\ obj \in [Obj -> Instr] /\ made \subseteq Obj
         /\ p_dis \in Seq(Ptr) /\ Len(p_dis) \in Nat
         /\ dis \in Seq(Obj) /\ Len(dis) \in Nat
         /\ cm \in Commitments
         /\ code \in Codes(Len(prog))
         /\ pm \in Managers /\ rm \in Managers
         /\ Len(pm.queue) \in Nat /\ Len(rm.queue) \in Nat
         /\ lift \in Lifts
         /\ lift.i \in Nat \ {0} /\ lift.pc \in Nat
         /\ lift = [phase |-> lift.phase, i |-> lift.i, pc |-> lift.pc]
         /\ Len(prog) \in Nat \ {0}
         /\ PendingOK(p_dis)
         /\ ToSet(p_dis) \subseteq made \union {NULL} /\ ToSet(dis) \subseteq made
<1>1. /\ obj \in [Obj -> Instr] /\ made \subseteq Obj /\ p_dis \in Seq(Ptr)
      /\ dis \in Seq(Obj) /\ cm \in Commitments
  BY DEF LiftInv, LiftTypeOK, ILTypeOK, Commitments
<1>2. code \in Codes(Len(prog)) /\ pm \in Managers /\ rm \in Managers
  BY DEF LiftInv, LiftTypeOK, Codes
<1>3. pm.queue \in Seq(Edit) /\ rm.queue \in Seq(Edit)
  BY <1>2 DEF Managers
<1>4. lift \in Lifts
  BY DEF LiftInv, LiftTypeOK, Lifts, Phases
<1>5. /\ lift.i \in Nat \ {0} /\ lift.pc \in Nat
      /\ lift = [phase |-> lift.phase, i |-> lift.i, pc |-> lift.pc]
  BY <1>4 DEF Lifts
<1>6. Len(prog) \in Nat \ {0}
  BY InstructionFacts DEF LiftInv
<1>7. PendingOK(p_dis)
  BY <1>1 DEF LiftInv, ILInv, PendingUnique, PendingOK
<1>8. ToSet(p_dis) \subseteq made \union {NULL} /\ ToSet(dis) \subseteq made
  BY DEF LiftInv, ILInv, Allocated
<1>9. Len(p_dis) \in Nat /\ Len(dis) \in Nat /\ Len(pm.queue) \in Nat /\ Len(rm.queue) \in Nat
  BY <1>1, <1>3
<1> QED
  BY <1>1, <1>2, <1>4, <1>5, <1>6, <1>7, <1>8, <1>9

(* What lift' is after Enter and after Advance.                            *)
LEMMA Entered ==
  ASSUME LiftInv, NEW phase \in Phases, Enter(phase)
  PROVE  lift' \in Lifts /\ lift'.phase = phase /\ lift'.i = 1
<1>1. /\ lift \in Lifts
      /\ lift = [phase |-> lift.phase, i |-> lift.i, pc |-> lift.pc]
  BY StateFacts
<1>2. lift.pc \in Nat
  BY <1>1 DEF Lifts
<1>3. lift' = [phase |-> phase, i |-> 1, pc |-> lift.pc]
  BY <1>1 DEF Enter
<1> QED
  BY <1>2, <1>3 DEF Lifts

(* The next iteration of the loop that runs.                               *)
LEMMA Advanced ==
  ASSUME LiftInv, Advance
  PROVE  lift' \in Lifts /\ lift'.phase = lift.phase /\ lift'.i = lift.i + 1
<1>1. /\ lift \in Lifts /\ lift.i \in Nat \ {0} /\ lift.pc \in Nat
      /\ lift = [phase |-> lift.phase, i |-> lift.i, pc |-> lift.pc]
  BY StateFacts
<1>2. lift.phase \in Phases
  BY <1>1 DEF Lifts
<1>3. lift' = [phase |-> lift.phase, i |-> lift.i + 1, pc |-> lift.pc]
  BY <1>1 DEF Advance
<1>4. lift.i + 1 \in Nat \ {0}
  BY <1>1
<1> QED
  BY <1>1, <1>2, <1>3, <1>4 DEF Lifts

(* The phases, one by one.                                                 *)
LEMMA PhaseFacts ==
  {"parse", "compares", "jumps", "operands", "selfs", "parse edits", "resolve edits",
   "first commit", "parse commit", "resolve commit", "junk", "done", "thrown"} = Phases
  BY DEF Phases, Loops, Edits, Commits, Ends

(* Types.                                                                  *)
LEMMA Typed ==
  ASSUME ILInv', JCTypeOK', code' \in Codes(Len(prog')), pm' \in Managers,
         rm' \in Managers, lift' \in Lifts
  PROVE  LiftTypeOK'
  BY DEF ILInv, LiftTypeOK, Codes, Lifts, Phases

(* A manager with nothing queued.                                          *)
LEMMA EmptyFacts ==
  /\ EmptyManager \in Managers
  /\ \A S : QueueOK(EmptyManager, S)
  /\ \A n, p : Awaited(EmptyManager, n, p)
<1>1. /\ EmptyManager.queue = << >> /\ EmptyManager.sync = 1
      /\ Len(<< >>) = 0 /\ << >> \in Seq(Edit)
  BY DEF EmptyManager
<1>2. EmptyManager \in Managers
  BY DEF EmptyManager, Managers
<1>3. 1..0 = {}
  OBVIOUS
<1> QED
  BY <1>1, <1>2, <1>3 DEF QueueOK, Awaited

(* Nothing of the container changes.                                       *)
LEMMA ContainerKept ==
  ASSUME LiftInv, UNCHANGED <<ilVars, prog>>
  PROVE  /\ ILInv' /\ IsFiniteSet(made)' /\ ProgramOK(prog)'
         /\ UNCHANGED <<obj, made, p_dis, dis, cm>>
<1>1. ILInv'
  BY ContainerUnchanged DEF LiftInv
<1>2. UNCHANGED <<obj, made, p_dis, dis, cm>>
  BY DEF ilVars
<1> QED
  BY <1>1, <1>2 DEF LiftInv

(* An instruction stays what parse_instructions made of it.                *)
LEMMA OriginalStays ==
  ASSUME NEW d, NEW i, Original(d, i), prog' = prog, d \in made', code'[d] = code[d],
         obj'[d].addr = obj[d].addr, obj'[d].kind = obj[d].kind,
         obj'[d].ref_addr = obj[d].ref_addr
  PROVE  Original(d, i)'
  BY DEF Original, IsJump

(* A step from one phase to the next.                                      *)
LEMMA PhasesKeep ==
  LiftInv /\ (\/ FirstCommitted \/ ComparesParsed \/ JumpsParsed
              \/ JumpOperandsResolved \/ InstructionsResolved) => LiftInv'
<1> SUFFICES ASSUME LiftInv,
                    \/ FirstCommitted \/ ComparesParsed \/ JumpsParsed
                    \/ JumpOperandsResolved \/ InstructionsResolved
             PROVE  LiftInv'
  OBVIOUS
<1>1. /\ UNCHANGED <<ilVars, jc, prog, code, pm, rm>>
      /\ \/ lift.phase = "first commit" /\ Idle /\ Enter("compares")
         \/ lift.phase = "compares" /\ Enter("jumps")
         \/ lift.phase = "jumps" /\ lift.i > Len(dis) /\ Enter("parse edits")
         \/ lift.phase = "operands" /\ Enter("selfs")
         \/ lift.phase = "selfs" /\ Enter("resolve edits")
  BY DEF FirstCommitted, ComparesParsed, JumpsParsed, JumpOperandsResolved,
         InstructionsResolved
<1>2. /\ ILInv' /\ IsFiniteSet(made)' /\ ProgramOK(prog)'
      /\ UNCHANGED <<obj, made, p_dis, dis, cm>>
  BY <1>1, ContainerKept
<1>3. /\ lift' \in Lifts /\ lift'.i = 1
      /\ \/ lift.phase = "first commit" /\ Idle /\ lift'.phase = "compares"
         \/ lift.phase = "compares" /\ lift'.phase = "jumps"
         \/ lift.phase = "jumps" /\ lift.i > Len(dis) /\ lift'.phase = "parse edits"
         \/ lift.phase = "operands" /\ lift'.phase = "selfs"
         \/ lift.phase = "selfs" /\ lift'.phase = "resolve edits"
  BY <1>1, Entered, PhaseFacts
<1>4. LiftTypeOK'
  BY <1>1, <1>2, <1>3, StateFacts, Typed DEF LiftInv, LiftTypeOK, JCTypeOK
<1>5. NeverFails' /\ Waits'
  BY <1>1, <1>2, <1>3 DEF LiftInv, NeverFails, Waits, Idle, Commits
<1>6. AsParsed'
  <2>1. \A n : Originals(p_dis, n) => Originals(p_dis, n)'
    BY <1>1, <1>2 DEF Originals, Original, IsJump
  <2> QED
    BY <1>1, <1>2, <1>3, <2>1 DEF LiftInv, AsParsed, Idle
<1>7. Targets'
  <2>1. Unset' = Unset
    BY <1>1, <1>2 DEF Unset, IsJump
  <2>2. \A d \in ToSet(p_dis) : \E k \in 1..Len(p_dis) : p_dis[k] = d
    BY StateFacts, ToSetFacts
  <2>3. lift.phase = "jumps" /\ lift.i > Len(dis) => Unset = {}
    <3>1. lift.phase = "jumps" => dis = p_dis
      BY DEF LiftInv, AsParsed
    <3>2. lift.i > Len(p_dis) => lift.i..Len(p_dis) = {}
      BY StateFacts
    <3> QED
      BY <3>1, <3>2 DEF LiftInv, Targets
  <2> QED
    BY <1>2, <1>3, <2>1, <2>2, <2>3 DEF LiftInv, Targets
<1>8. Queues'
  BY <1>1, <1>2, <1>3, EmptyFacts DEF LiftInv, Queues
<1>9. NoNulls' /\ JunkLast'
  BY <1>1, <1>2, <1>3 DEF LiftInv, NoNulls, JunkLast
<1> QED
  BY <1>2, <1>4, <1>5, <1>6, <1>7, <1>8, <1>9 DEF LiftInv

(* Nothing is lifted yet.                                                  *)
LEMMA LiftInvInit == LiftInit => LiftInv
<1> SUFFICES ASSUME LiftInit PROVE LiftInv
  OBVIOUS
<1>1. PICK us \in Functions : prog = Disassembled(Code(us))
  BY DEF LiftInit
<1>2. ProgramOK(prog)
  BY <1>1, Programs
<1>3. ILInv /\ made = {} /\ dis = << >> /\ p_dis = << >> /\ Idle /\ ToSet(p_dis) = {}
  <2>1. ILInit
    BY DEF LiftInit
  <2> QED
    BY <2>1, ILInvInit DEF ILInit, Idle, ToSet
<1>4. /\ jc = JunkIdle /\ pm = EmptyManager /\ rm = EmptyManager
      /\ code = [d \in Obj |-> [op |-> "OP_NOP", at |-> 0]]
      /\ lift = [phase |-> "parse", i |-> 1, pc |-> 0]
  BY DEF LiftInit
<1>5. lift \in Lifts /\ lift.phase = "parse" /\ lift.i = 1 /\ lift.pc = 0
  <2>1. "parse" \in Phases /\ 1 \in Nat \ {0} /\ 0 \in Nat
    BY DEF Phases, Loops
  <2> QED
    BY <1>4, <2>1 DEF Lifts
<1>6. Len(prog) \in Nat \ {0} /\ 0 \in 0..Len(prog) /\ prog[1].addr = 0
  <2>1. Len(prog) \in Nat \ {0}
    BY <1>2, InstructionFacts
  <2> QED
    BY <1>2, <2>1 DEF ProgramOK
<1>7. code \in Codes(Len(prog))
  BY <1>4, <1>6 DEF Codes, ILOps
<1>8. JCTypeOK /\ jc.phase = "off"
  BY <1>4 DEF JCTypeOK, JunkIdle
<1>9. LiftTypeOK
  BY <1>3, <1>4, <1>5, <1>7, <1>8, EmptyFacts DEF LiftTypeOK, ILInv, Lifts, Phases, Codes
<1>10. NeverFails /\ Waits
  BY <1>3, <1>5 DEF NeverFails, Waits, Idle
<1>11. AsParsed
  BY <1>3, <1>5, <1>6 DEF AsParsed, Originals
<1>12. Targets /\ IsFiniteSet(made)
  BY <1>3, <1>5, FS_EmptySet DEF Targets, Unset
<1>13. Queues
  BY <1>4, <1>5, EmptyFacts DEF Queues
<1>14. NoNulls /\ JunkLast
  BY <1>4, <1>5, <1>8 DEF NoNulls, JunkLast
<1> QED
  BY <1>2, <1>3, <1>9, <1>10, <1>11, <1>12, <1>13, <1>14 DEF LiftInv

-----------------------------------------------------------------------------
(***************************************************************************)
(* parse_instructions.                                                     *)
(***************************************************************************)

(* An instruction without a jump operand.                                  *)
Bare(kind, addr) == [Blank EXCEPT !.kind = kind, !.addr = addr]

(* Its fields.                                                             *)
LEMMA BareFacts ==
  ASSUME NEW kind \in Kinds, NEW addr \in Int
  PROVE  /\ Bare(kind, addr) \in Instr
         /\ Bare(kind, addr).kind = kind
         /\ Bare(kind, addr).addr = addr
         /\ Bare(kind, addr).ref = NULL
<1>1. Blank \in Instr
  BY DEF Blank, Instr, Kinds, Ptr
<1>2. \A x \in Instr : [x EXCEPT !.kind = kind, !.addr = addr] \in Instr
  BY DEF Instr
<1>3. /\ Bare(kind, addr).kind = kind /\ Bare(kind, addr).addr = addr
      /\ Bare(kind, addr).ref = NULL
  BY DEF Blank, Bare
<1> QED
  BY <1>1, <1>2, <1>3 DEF Bare

(* The record parse_instructions makes.                                    *)
LEMMA ParsedFacts ==
  ASSUME LiftInv, lift.i \in 1..Len(prog), lift.pc = prog[lift.i].addr,
         NEW r, r = Parsed(prog[lift.i])
  PROVE  /\ r \in Instr /\ r.ref = NULL /\ r.addr = prog[lift.i].addr
         /\ r.kind = "jump" => /\ Translated(prog[lift.i]) \in TakesJump
                               /\ prog[lift.i].to # 0
                               /\ r.ref_addr = prog[lift.i].ref_addr
         /\ Translated(prog[lift.i]) \in ILOps
<1> DEFINE b == prog[lift.i]
           op == Translated(b)
<1>1. b.jmp \in Int /\ b.ref_addr \in Int /\ lift.pc \in Int /\ b.addr = lift.pc
  BY InstructionFacts DEF LiftInv
<1>2. NULL \in Ptr /\ 0 \in Int
  BY DEF Ptr
<1>3. op \in TakesJump => b.to # 0
  BY OperandsLead DEF LiftInv
<1>4. op \in ILOps
  BY DEF Translated, ILOps
<1>5. /\ op \in TakesJump =>
           r = [kind |-> "jump", ref |-> NULL, addr |-> lift.pc, jmp |-> b.jmp,
                ref_addr |-> b.ref_addr]
      /\ op \notin TakesJump =>
           r = [Blank EXCEPT !.kind = IF op = "OP_NOP" THEN "nop" ELSE "other",
                             !.addr = lift.pc]
  BY DEF Parsed
<1> HIDE DEF op, b
<1>6. CASE op \in TakesJump
  BY <1>1, <1>2, <1>3, <1>4, <1>5, <1>6 DEF Instr, Kinds, b, op
<1>7. CASE op \notin TakesJump
  <2>1. PICK k \in Kinds \ {"jump"} : r = Bare(k, lift.pc)
    BY <1>5, <1>7 DEF Kinds, Bare
  <2>2. r \in Instr /\ r.kind = k /\ r.ref = NULL /\ r.addr = lift.pc
    BY <1>1, <2>1, BareFacts
  <2> QED
    BY <1>1, <1>4, <2>1, <2>2 DEF b, op
<1> QED
  BY <1>6, <1>7

(* An instruction is appended under the address of its bytecode.           *)
LEMMA ParseInstructionKeeps ==
  ASSUME Unlimited PROVE LiftInv /\ ParseInstruction => LiftInv'
<1> SUFFICES ASSUME LiftInv, ParseInstruction PROVE LiftInv'
  OBVIOUS
<1> DEFINE d == Fresh(made)
           i == lift.i
           n == Len(prog)
           b == prog[lift.i]
           r == Parsed(prog[lift.i])
<1>1. /\ lift.phase = "parse" /\ i <= n
      /\ Make(d, r) /\ AppendDis(d)
      /\ code' = [code EXCEPT ![d] = [op |-> Translated(b), at |-> i]]
      /\ lift' = [lift EXCEPT !.i = @ + 1, !.pc = @ + b.len]
      /\ UNCHANGED <<dis, cm, jc, prog, pm, rm>>
  BY DEF ParseInstruction
<1>2. d \in Obj /\ d \notin made /\ IsFiniteSet(made')
  <2>1. IsFiniteSet(made)
    BY DEF LiftInv
  <2>2. made' = made \union {d}
    BY <1>1 DEF Make
  <2> HIDE DEF d
  <2>3. IsFiniteSet(made \union {d})
    BY <2>1, FS_AddElement
  <2> QED
    BY <2>1, <2>2, <2>3, FreshFacts DEF d
<1>3. /\ Idle /\ dis = << >> /\ Originals(p_dis, i - 1) /\ lift.pc = b.addr
      /\ Unset \subseteq ToSet(p_dis) /\ pm = EmptyManager /\ rm = EmptyManager
      /\ jc = JunkIdle
  BY <1>1 DEF LiftInv, Waits, AsParsed, Targets, Queues, Commits, JunkLast
<1>4. i \in 1..n /\ n \in Nat
  BY <1>1, StateFacts
<1>5. /\ r \in Instr /\ r.ref = NULL /\ r.addr = b.addr
      /\ r.kind = "jump" => b.to # 0 /\ r.ref_addr = b.ref_addr
      /\ Translated(b) \in ILOps
  BY <1>3, <1>4, ParsedFacts
<1>6. b.len \in {1, 2} /\ b.addr \in Nat
  BY <1>4, InstructionFacts DEF LiftInv
<1> HIDE DEF d, r, b, i, n
<1>7. /\ made' = made \union {d} /\ obj' = [obj EXCEPT ![d] = r]
      /\ p_dis' = Append(p_dis, d)
  BY <1>1 DEF Make, AppendDis
<1>8. /\ obj' \in [Obj -> Instr] /\ obj'[d] = r
      /\ \A x \in made : obj'[x] = obj[x] /\ code'[x] = code[x]
      /\ made' \subseteq Obj
  BY <1>1, <1>2, <1>5, <1>7, StateFacts DEF Codes
<1>9. /\ PendingOK(p_dis') /\ ToSet(p_dis') = ToSet(p_dis) \union {d}
      /\ ToSet(p_dis') \subseteq made' \union {NULL}
      /\ Len(p_dis') = Len(p_dis) + 1 /\ p_dis'[Len(p_dis) + 1] = d
      /\ \A k \in 1..Len(p_dis) : p_dis'[k] = p_dis[k]
  <2>1. PendingOK(p_dis) /\ ToSet(p_dis) \subseteq made \union {NULL} /\ p_dis \in Seq(Ptr)
    BY StateFacts
  <2>2. d \notin ToSet(p_dis)
    BY <1>2, <2>1, NullAssumption
  <2>3. d \in Ptr
    BY <1>2 DEF Ptr
  <2> QED
    BY <1>2, <1>7, <2>1, <2>2, <2>3, AppendKeeps
<1>10. ILInv'
  BY <1>1, <1>3, <1>5, <1>7, <1>8, <1>9, AllocatingKeeps DEF LiftInv
<1>11. /\ lift' \in Lifts /\ lift'.phase = "parse" /\ lift'.i = i + 1
       /\ lift'.pc = b.addr + b.len
  <2>1. /\ lift = [phase |-> lift.phase, i |-> lift.i, pc |-> lift.pc]
        /\ lift.i \in Nat \ {0}
    BY StateFacts
  <2>2. lift' = [phase |-> "parse", i |-> lift.i + 1, pc |-> lift.pc + b.len]
    BY <1>1, <2>1
  <2>3. lift.i + 1 \in Nat \ {0} /\ lift.pc + b.len \in Nat
    BY <1>3, <1>6, <2>1
  <2> QED
    BY <1>3, <2>2, <2>3, PhaseFacts DEF Lifts, i
<1>12. code' \in Codes(Len(prog'))
  <2>1. [op |-> Translated(b), at |-> i] \in [op : ILOps, at : 0..n]
    BY <1>4, <1>5
  <2> QED
    BY <1>1, <1>2, <2>1, StateFacts DEF Codes, n
<1>13. LiftTypeOK'
  BY <1>1, <1>10, <1>11, <1>12, StateFacts, Typed DEF LiftInv, LiftTypeOK, JCTypeOK
<1>14. NeverFails' /\ Waits' /\ ProgramOK(prog)'
  BY <1>1, <1>3, <1>11 DEF LiftInv, NeverFails, Waits, Idle, Commits
<1>15. \A m : m = i => Originals(p_dis, m)'
  <2>1. Len(p_dis) = i - 1 /\ \A k \in 1..(i - 1) : Original(p_dis[k], k)
    BY <1>3 DEF Originals
  <2>2. \A k \in 1..(i - 1) : Original(p_dis[k], k)'
    <3> SUFFICES ASSUME NEW k, k \in 1..(i - 1) PROVE Original(p_dis[k], k)'
      OBVIOUS
    <3>1. Original(p_dis[k], k) /\ p_dis'[k] = p_dis[k]
      BY <1>9, <2>1
    <3>2. p_dis[k] \in made
      BY <3>1 DEF Original
    <3>3. Original(p_dis'[k], k)
      BY <3>1
    <3> QED
      BY <1>1, <1>7, <1>8, <3>1, <3>2, <3>3 DEF Original, IsJump
  <2>3. \A m : m = i => Original(p_dis[m], m)'
    <3> SUFFICES ASSUME NEW m, m = i PROVE Original(p_dis[m], m)'
      OBVIOUS
    <3>1. p_dis'[m] = d /\ b = prog'[m]
      BY <1>1, <1>4, <1>9, <2>1 DEF b, i
    <3>2. code'[d] = [op |-> Translated(b), at |-> m]
      BY <1>1, <1>2, StateFacts DEF Codes
    <3> HIDE DEF i
    <3> QED
      BY <1>5, <1>7, <1>8, <3>1, <3>2 DEF Original, IsJump
  <2>4. Len(p_dis') = i /\ \A k \in 1..i : k \in 1..(i - 1) \/ k = i
    BY <1>4, <1>9, <2>1
  <2> QED
    <3> SUFFICES ASSUME NEW m, m = i PROVE Originals(p_dis, m)'
      OBVIOUS
    <3>1. Len(p_dis') = m /\ \A k \in 1..m : Original(p_dis[k], k)'
      BY <2>2, <2>3, <2>4
    <3> QED
      BY <3>1 DEF Originals
<1>16. AsParsed'
  <2>1. i + 1 <= n => b.addr + b.len = prog[i + 1].addr
    <3>1. i + 1 <= n => i \in 1..(Len(prog) - 1)
      BY <1>4 DEF n
    <3> QED
      BY <3>1 DEF LiftInv, ProgramOK, b, i
  <2>2. (i + 1) - 1 = i /\ i + 1 <= n + 1
    BY <1>4
  <2>3. lift'.i - 1 = i
    BY <1>11, <2>2
  <2>4. Originals(p_dis, lift.i - 1)'
    BY <1>15, <2>3
  <2> QED
    BY <1>1, <1>3, <1>11, <2>1, <2>2, <2>4 DEF AsParsed, n
<1>17. Targets'
  <2>1. Unset' \subseteq Unset \union {d}
    BY <1>7, <1>8 DEF Unset, IsJump
  <2> QED
    BY <1>3, <1>9, <1>11, <2>1 DEF Targets
<1>18. Queues'
  BY <1>1, <1>3, <1>11, EmptyFacts DEF Queues
<1>19. NoNulls' /\ JunkLast'
  BY <1>1, <1>3, <1>11 DEF NoNulls, JunkLast, JunkIdle
<1> QED
  BY <1>2, <1>10, <1>13, <1>14, <1>16, <1>17, <1>18, <1>19 DEF LiftInv

-----------------------------------------------------------------------------
(***************************************************************************)
(* The commits.                                                            *)
(***************************************************************************)

(* The call of commit_dis.                                                 *)
LEMMA CommitStarted ==
  ASSUME LiftInv, NEW resolve \in BOOLEAN, CommitDis(resolve),
         UNCHANGED <<obj, made, p_dis, dis>>
  PROVE  /\ ILInv' /\ Idle /\ ~Idle' /\ IsFiniteSet(made)'
         /\ cm'.stage = "strip" /\ cm'.resolve = resolve
<1>1. ILInv'
  <2>1. ClientCommit
    BY DEF ClientCommit
  <2> QED
    BY <2>1, ClientCommitKeeps DEF LiftInv
<1>2. cm \in Commitments /\ Idle /\ cm' = [cm EXCEPT !.stage = "strip", !.resolve = resolve]
  BY StateFacts DEF CommitDis
<1>3. cm'.stage = "strip" /\ cm'.resolve = resolve
  BY <1>2 DEF Commitments
<1> QED
  BY <1>1, <1>2, <1>3 DEF Idle, LiftInv

(* While nothing that parse_instructions set changes.                      *)
LEMMA OriginalsStay ==
  ASSUME made \subseteq made', prog' = prog, p_dis' = p_dis,
         \A x \in made : /\ code'[x] = code[x]
                         /\ obj'[x].addr = obj[x].addr
                         /\ obj'[x].kind = obj[x].kind
                         /\ obj'[x].ref_addr = obj[x].ref_addr
  PROVE  \A n : Originals(p_dis, n) => Originals(p_dis, n)'
<1> SUFFICES ASSUME NEW n, Originals(p_dis, n) PROVE Originals(p_dis, n)'
  OBVIOUS
<1>1. Len(p_dis) = n /\ \A k \in 1..n : Original(p_dis[k], k)
  BY DEF Originals
<1>2. \A k \in 1..n : Original(p_dis[k], k)'
  <2> SUFFICES ASSUME NEW k, k \in 1..n PROVE Original(p_dis[k], k)'
    OBVIOUS
  <2>1. Original(p_dis[k], k) /\ p_dis'[k] = p_dis[k]
    BY <1>1
  <2>2. p_dis[k] \in made
    BY <2>1 DEF Original
  <2> QED
    BY <2>1, <2>2 DEF Original, IsJump
<1> QED
  BY <1>1, <1>2 DEF Originals

(* The first commit starts with what was appended.                         *)
LEMMA InstructionsParsedKeeps == LiftInv /\ InstructionsParsed => LiftInv'
<1> SUFFICES ASSUME LiftInv, InstructionsParsed PROVE LiftInv'
  OBVIOUS
<1>1. /\ lift.phase = "parse" /\ lift.i > Len(prog) /\ CommitDis(FALSE)
      /\ Enter("first commit")
      /\ UNCHANGED <<obj, made, p_dis, dis, jc, prog, code, pm, rm>>
  BY DEF InstructionsParsed
<1>2. /\ ILInv' /\ ~Idle' /\ IsFiniteSet(made)' /\ cm'.stage = "strip" /\ ~cm'.resolve
  BY <1>1, CommitStarted
<1>3. lift' \in Lifts /\ lift'.phase = "first commit"
  BY <1>1, Entered, PhaseFacts
<1>4. LiftTypeOK'
  BY <1>1, <1>2, <1>3, StateFacts, Typed DEF LiftInv, LiftTypeOK, JCTypeOK
<1>5. AsParsed'
  <2>1. dis = << >> /\ Originals(p_dis, lift.i - 1) /\ lift.i <= Len(prog) + 1
    BY <1>1 DEF LiftInv, AsParsed
  <2>2. lift.i - 1 = Len(prog)
    <3>1. /\ lift.i \in Nat /\ Len(prog) \in Nat
          /\ lift.i > Len(prog) /\ lift.i <= Len(prog) + 1
      BY <1>1, <2>1, StateFacts
    <3> QED
      BY <3>1
  <2>3. Originals(p_dis, Len(prog)) => Originals(p_dis, Len(prog))'
    <3>1. \A n : Originals(p_dis, n) => Originals(p_dis, n)'
      BY <1>1, OriginalsStay
    <3> QED
      BY <1>1, <3>1
  <2> QED
    BY <1>1, <1>2, <1>3, <2>1, <2>2, <2>3 DEF AsParsed
<1>6. Targets'
  <2>1. Unset' = Unset
    BY <1>1 DEF Unset, IsJump
  <2> QED
    BY <1>1, <1>3, <2>1 DEF LiftInv, Targets
<1>7. NeverFails' /\ Waits' /\ Queues' /\ NoNulls' /\ JunkLast' /\ ProgramOK(prog)'
  BY <1>1, <1>2, <1>3 DEF LiftInv, NeverFails, Waits, Commits, Queues, NoNulls, JunkLast
<1> QED
  BY <1>2, <1>4, <1>5, <1>6, <1>7 DEF LiftInv

(* All edits made, by either manager.                                      *)
LEMMA EditsMadeKeep == LiftInv /\ (ParseEditsMade \/ ResolveEditsMade) => LiftInv'
<1> SUFFICES ASSUME LiftInv, ParseEditsMade \/ ResolveEditsMade PROVE LiftInv'
  OBVIOUS
<1>1. /\ CommitDis(TRUE)
      /\ \/ lift.phase = "parse edits" /\ Enter("parse commit")
         \/ lift.phase = "resolve edits" /\ Enter("resolve commit")
      /\ UNCHANGED <<obj, made, p_dis, dis, jc, prog, code, pm, rm>>
  BY DEF ParseEditsMade, ResolveEditsMade, EditsMade
<1>2. /\ ILInv' /\ ~Idle' /\ IsFiniteSet(made)' /\ cm'.stage = "strip"
  BY <1>1, CommitStarted
<1>3. /\ lift' \in Lifts
      /\ \/ lift.phase = "parse edits" /\ lift'.phase = "parse commit"
         \/ lift.phase = "resolve edits" /\ lift'.phase = "resolve commit"
  BY <1>1, Entered, PhaseFacts
<1>4. LiftTypeOK'
  BY <1>1, <1>2, <1>3, StateFacts, Typed DEF LiftInv, LiftTypeOK, JCTypeOK
<1>5. Targets'
  <2>1. Unset' = Unset
    BY <1>1 DEF Unset, IsJump
  <2> QED
    BY <1>1, <1>3, <2>1 DEF LiftInv, Targets
<1>6. NeverFails' /\ Waits' /\ AsParsed' /\ NoNulls'
  BY <1>1, <1>2, <1>3 DEF LiftInv, NeverFails, Waits, Commits, AsParsed, NoNulls
<1>7. Queues' /\ JunkLast' /\ ProgramOK(prog)'
  BY <1>1, <1>3 DEF LiftInv, Queues, JunkLast
<1> QED
  BY <1>2, <1>4, <1>5, <1>6, <1>7 DEF LiftInv

(* A commit has returned; the manager forgets its queue.                   *)
LEMMA CommittedKeep == LiftInv /\ (ParseCommitted \/ ResolveCommitted) => LiftInv'
<1> SUFFICES ASSUME LiftInv, ParseCommitted \/ ResolveCommitted PROVE LiftInv'
  OBVIOUS
<1>1. /\ Idle
      /\ \/ /\ lift.phase = "parse commit" /\ Enter("operands")
            /\ pm' = EmptyManager /\ rm' = rm
         \/ /\ lift.phase = "resolve commit" /\ Enter("junk")
            /\ pm' = pm /\ rm' = EmptyManager
      /\ UNCHANGED <<ilVars, jc, prog, code>>
  BY DEF ParseCommitted, ResolveCommitted
<1>2. /\ ILInv' /\ IsFiniteSet(made)' /\ ProgramOK(prog)'
      /\ UNCHANGED <<obj, made, p_dis, dis, cm>>
  BY <1>1, ContainerKept
<1>3. /\ lift' \in Lifts
      /\ \/ /\ lift.phase = "parse commit" /\ lift'.phase = "operands"
            /\ pm' = EmptyManager /\ rm' = rm
         \/ /\ lift.phase = "resolve commit" /\ lift'.phase = "junk"
            /\ pm' = pm /\ rm' = EmptyManager
  BY <1>1, Entered, PhaseFacts
<1>4. LiftTypeOK'
  <2>1. pm' \in Managers /\ rm' \in Managers
    BY <1>3, StateFacts, EmptyFacts
  <2> QED
    BY <1>1, <1>2, <1>3, <2>1, StateFacts, Typed DEF LiftInv, LiftTypeOK, JCTypeOK
<1>5. Targets'
  <2>1. Unset' = Unset
    BY <1>2 DEF Unset, IsJump
  <2> QED
    BY <1>2, <1>3, <2>1 DEF LiftInv, Targets
<1>6. NeverFails' /\ Waits' /\ AsParsed'
  BY <1>1, <1>2, <1>3 DEF LiftInv, NeverFails, Waits, Commits, AsParsed, Idle
<1>7. Queues'
  BY <1>2, <1>3, EmptyFacts DEF LiftInv, Queues
<1>8. NoNulls' /\ JunkLast'
  BY <1>1, <1>2, <1>3 DEF LiftInv, NoNulls, JunkLast, JunkIdle
<1> QED
  BY <1>2, <1>4, <1>5, <1>6, <1>7, <1>8 DEF LiftInv

(* lift returns with both managers run.                                    *)
LEMMA LiftReturnKeeps == LiftInv /\ LiftReturn => LiftInv'
<1> SUFFICES ASSUME LiftInv, LiftReturn PROVE LiftInv'
  OBVIOUS
<1>1. /\ lift.phase = "junk" /\ jc.phase = "done" /\ Enter("done")
      /\ UNCHANGED <<ilVars, jc, prog, code, pm, rm>>
  BY DEF LiftReturn
<1>2. /\ ILInv' /\ IsFiniteSet(made)' /\ ProgramOK(prog)'
      /\ UNCHANGED <<obj, made, p_dis, dis, cm>>
  BY <1>1, ContainerKept
<1>3. lift' \in Lifts /\ lift'.phase = "done"
  BY <1>1, Entered, PhaseFacts
<1>4. LiftTypeOK'
  BY <1>1, <1>2, <1>3, StateFacts, Typed DEF LiftInv, LiftTypeOK, JCTypeOK
<1>5. Targets'
  <2>1. Unset' = Unset
    BY <1>2 DEF Unset, IsJump
  <2> QED
    BY <1>1, <1>2, <1>3, <2>1 DEF LiftInv, Targets
<1>6. NeverFails' /\ Waits' /\ AsParsed'
  BY <1>1, <1>2, <1>3 DEF LiftInv, NeverFails, Waits, Commits, AsParsed, Idle
<1>7. Queues' /\ NoNulls' /\ JunkLast'
  BY <1>1, <1>2, <1>3 DEF LiftInv, Queues, NoNulls, JunkLast
<1> QED
  BY <1>2, <1>4, <1>5, <1>6, <1>7 DEF LiftInv

(* A step of commit_dis.  That no commit throws and no null is followed is *)
(* that no jump lacks its reference.                                       *)
LEMMA LiftCommitStepKeeps == LiftInv /\ LiftCommitStep => LiftInv'
<1> SUFFICES ASSUME LiftInv, LiftCommitStep PROVE LiftInv'
  OBVIOUS
<1>1. CommitStep /\ UNCHANGED <<jc, prog, code, pm, rm, lift>>
  BY DEF LiftCommitStep
<1>2. ILInv' /\ ~Idle /\ made' = made
  <2>1. ILInv' /\ ~Idle
    BY <1>1, CommitStepKeeps, CommitEnds DEF LiftInv, ILInv
  <2> QED
    BY <1>1, <2>1 DEF CommitStep, StripNull, Stripped, Validate, ResolveAddress,
                      AddressesResolved, ResolveJump, JumpsResolved, Publish
<1>3. \/ lift.phase \in Commits
      \/ lift.phase = "junk" /\ jc.phase = "commit"
  BY <1>2 DEF LiftInv, Waits
<1>4. NULL \notin made /\ made \subseteq Obj /\ cm \in Commitments /\ obj \in [Obj -> Instr]
  BY StateFacts, NullAssumption
<1>5. /\ Unset \subseteq ToSet(p_dis)
      /\ lift.phase # "first commit" => Unset = {}
      /\ lift.phase = "first commit" =>
           /\ Originals(p_dis, Len(prog)) /\ dis = << >> /\ ~cm.resolve
           /\ cm.stage \in {"strip", "validate", "publish"}
      /\ lift.phase = "junk" => NULL \notin ToSet(p_dis)
  BY <1>2, <1>3 DEF LiftInv, Targets, AsParsed, Idle, NoNulls, Commits
<1>6. lift.phase = "first commit" => NULL \notin ToSet(p_dis)
  <2> SUFFICES ASSUME Originals(p_dis, Len(prog)) PROVE ToSet(p_dis) \subseteq made
    BY <1>4, <1>5
  <2>1. \A k \in 1..Len(p_dis) : p_dis[k] \in made
    BY DEF Originals, Original
  <2> QED
    BY <2>1, StateFacts, ToSetFacts
<1>7. /\ \A x \in made : obj'[x].kind = obj[x].kind /\ obj'[x].ref = obj[x].ref
      /\ p_dis' = p_dis \/ (cm.stage = "strip" /\ NULL \in ToSet(p_dis) /\ cm' = cm)
      /\ obj' = obj \/ cm.stage \in {"addresses", "jumps"}
      /\ dis' = dis \/ (dis' = p_dis' /\ Idle')
  <2>1. CASE StripNull
    BY <2>1, StateFacts, ToSetFacts DEF StripNull
  <2>2. CASE Stripped \/ Validate \/ AddressesResolved \/ JumpsResolved
    BY <2>2 DEF Stripped, Validate, AddressesResolved, JumpsResolved
  <2>3. CASE Publish
    BY <1>4, <2>3 DEF Publish, Commitments, Idle
  <2>4. CASE ResolveAddress \/ ResolveJump
    <3>1. NULL \notin ToSet(p_dis)
      BY <2>4 DEF LiftInv, ILInv, NoGaps, ResolveAddress, ResolveJump
    <3>2. \A x \in made : obj'[x].kind = obj[x].kind /\ obj'[x].ref = obj[x].ref
      BY <1>1, <3>1, CommitLeavesReferences DEF LiftInv
    <3> QED
      BY <2>4, <3>2 DEF ResolveAddress, ResolveJump
  <2> QED
    BY <1>1, <2>1, <2>2, <2>3, <2>4 DEF CommitStep
<1>8. Unset' = Unset
  BY <1>2, <1>7 DEF Unset, IsJump
<1>9. /\ cm'.stage \notin {"thrown", "crashed"} /\ cm'.resolve = cm.resolve
      /\ Idle' => dis' = p_dis' /\ p_dis' = p_dis /\ NULL \notin ToSet(p_dis)
      /\ ~Idle' => dis' = dis
      /\ ~cm.resolve /\ cm.stage \in {"strip", "validate", "publish"} =>
           cm'.stage \in {"idle", "strip", "validate", "publish"}
  <2>1. CASE StripNull \/ Stripped
    BY <1>2, <1>4, <2>1 DEF StripNull, Stripped, Commitments, Idle, LiftInv, NeverFails
  <2>2. CASE Validate
    <3>1. NULL \notin ToSet(p_dis)
      BY <2>2 DEF LiftInv, ILInv, NoGaps, Validate
    <3>2. dis = << >> \/ OperandsValid
      <4>1. ToSet(p_dis) \subseteq made
        BY <3>1, StateFacts
      <4> QED
        BY <1>3, <1>5, <4>1 DEF OperandsValid, Unset
    <3> QED
      BY <1>4, <2>2, <3>2 DEF Validate, Commitments, Idle
  <2>3. CASE ResolveAddress \/ AddressesResolved \/ JumpsResolved
    BY <1>4, <2>3 DEF ResolveAddress, AddressesResolved, JumpsResolved, Commitments, Idle
  <2>4. CASE ResolveJump
    <3>1. NULL \notin ToSet(p_dis) /\ lift.phase # "first commit"
      BY <1>5, <2>4 DEF LiftInv, ILInv, NoGaps, ResolveJump
    <3>2. p_dis[cm.i] \in made
      <4>1. cm.i \in 1..Len(p_dis)
        BY <1>4, <2>4, StateFacts DEF ResolveJump, Commitments
      <4>2. \A k \in 1..Len(p_dis) : p_dis[k] \in ToSet(p_dis)
        BY StateFacts, ToSetFacts
      <4>3. ToSet(p_dis) \subseteq made \union {NULL}
        BY StateFacts
      <4> QED
        BY <3>1, <4>1, <4>2, <4>3
    <3>3. ~(IsJump(p_dis[cm.i]) /\ obj[p_dis[cm.i]].ref = NULL)
      BY <1>5, <3>1, <3>2 DEF Unset
    <3> QED
      BY <1>4, <2>4, <3>3 DEF ResolveJump, Commitments, Idle
  <2>5. CASE Publish
    <3>1. NULL \notin ToSet(p_dis)
      BY <2>5 DEF LiftInv, ILInv, NoGaps, Publish
    <3> QED
      BY <1>4, <2>5, <3>1 DEF Publish, Commitments, Idle
  <2> QED
    BY <1>1, <2>1, <2>2, <2>3, <2>4, <2>5 DEF CommitStep
<1>10. LiftTypeOK'
  BY <1>1, <1>2, StateFacts, Typed DEF LiftInv, LiftTypeOK, JCTypeOK
<1>11. AsParsed'
  <2>1. lift.phase = "first commit" =>
          p_dis' = p_dis /\ obj' = obj /\ Originals(p_dis, Len(prog))'
    <3> SUFFICES ASSUME lift.phase = "first commit"
                 PROVE  p_dis' = p_dis /\ obj' = obj /\ Originals(p_dis, Len(prog))'
      OBVIOUS
    <3>1. p_dis' = p_dis /\ obj' = obj
      BY <1>5, <1>6, <1>7
    <3>2. \A n : Originals(p_dis, n) => Originals(p_dis, n)'
      BY <1>1, <1>2, <3>1, OriginalsStay
    <3> QED
      BY <1>1, <1>5, <3>1, <3>2
  <2> QED
    BY <1>1, <1>2, <1>3, <1>5, <1>9, <2>1 DEF AsParsed, Commits
<1>12. Targets'
  <2>1. lift.phase = "first commit" => p_dis' = p_dis
    BY <1>6, <1>7
  <2> QED
    BY <1>1, <1>3, <1>5, <1>8, <2>1 DEF Targets, Commits
<1>13. NoNulls'
  <2>1. lift.phase = "junk" => p_dis' = p_dis
    BY <1>5, <1>7
  <2> QED
    BY <1>1, <1>3, <1>5, <1>9, <2>1 DEF NoNulls, Commits
<1>14. NeverFails' /\ Waits' /\ Queues' /\ JunkLast' /\ ProgramOK(prog)' /\ IsFiniteSet(made)'
  BY <1>1, <1>2, <1>3, <1>9 DEF LiftInv, NeverFails, Waits, Queues, JunkLast, Commits
<1> QED
  BY <1>2, <1>10, <1>11, <1>12, <1>13, <1>14 DEF LiftInv

-----------------------------------------------------------------------------
(***************************************************************************)
(* parse_jumps and the edits.                                              *)
(***************************************************************************)

(* The address of every jump is found: it is that of the instruction the   *)
(* bytecode jumps to.                                                      *)
LEMMA ParseJumpKeeps == LiftInv /\ ParseJump => LiftInv'
<1> SUFFICES ASSUME LiftInv, ParseJump PROVE LiftInv'
  OBVIOUS
<1> DEFINE d == dis[lift.i]
           t == VisitAddr(obj[dis[lift.i]].ref_addr)
<1>1. /\ lift.phase = "jumps" /\ lift.i <= Len(dis)
      /\ UNCHANGED <<made, p_dis, dis, jc, prog, code, pm, rm>>
      /\ \/ ~IsJump(d) /\ Advance /\ UNCHANGED <<obj, cm>>
         \/ IsJump(d) /\ Visitable(obj[d].ref_addr) /\ SetRef(d, t) /\ Advance
         \/ IsJump(d) /\ ~Visitable(obj[d].ref_addr)
  BY DEF ParseJump
<1>2. /\ Originals(p_dis, Len(prog)) /\ dis = p_dis /\ Idle
      /\ \A x \in Unset : \E k \in lift.i..Len(p_dis) : p_dis[k] = x
  BY <1>1 DEF LiftInv, AsParsed, Waits, Commits, Targets
<1>3. lift.i \in 1..Len(dis) /\ Len(dis) \in Nat /\ dis \in Seq(Obj) /\ ToSet(dis) \subseteq made
  BY <1>1, StateFacts
<1>4. d \in made /\ Original(d, lift.i) /\ lift.i \in 1..Len(prog) /\ d \in ToSet(dis)
  BY <1>2, <1>3, ToSetFacts DEF Originals, Original
<1>5. IsJump(d) => Visitable(obj[d].ref_addr)
  <2>1. ProgramOK(prog)
    BY DEF LiftInv
  <2>2. IsJump(d) => /\ prog[lift.i].to \in 1..Len(prog)
                     /\ obj[d].ref_addr = prog[prog[lift.i].to].addr
    BY <1>4, <2>1, InstructionFacts DEF ProgramOK, Original
  <2> QED
    BY <1>2, <1>3, <2>1, <2>2, OriginalsVisitable
<1> HIDE DEF d, t
<1>6. /\ lift' \in Lifts /\ lift'.phase = "jumps" /\ lift'.i = lift.i + 1
  BY <1>1, <1>5, Advanced
<1>7. \/ ~IsJump(d) /\ obj' = obj /\ cm' = cm
      \/ IsJump(d) /\ SetRef(d, t) /\ t \in made
  <2>1. Visitable(obj[d].ref_addr) => t \in ToSet(dis)
    BY <1>3, VisitFacts DEF t, d
  <2> QED
    BY <1>1, <1>3, <1>5, <2>1
<1>8. /\ ILInv'
      /\ \A x \in made : /\ obj'[x].addr = obj[x].addr /\ obj'[x].kind = obj[x].kind
                         /\ obj'[x].ref_addr = obj[x].ref_addr
                         /\ x # d => obj'[x].ref = obj[x].ref
      /\ IsJump(d) => obj'[d].ref # NULL
      /\ Idle' /\ cm'.stage = cm.stage
  <2>1. CASE ~IsJump(d) /\ obj' = obj /\ cm' = cm
    <3>1. UNCHANGED ilVars
      BY <1>1, <2>1 DEF ilVars
    <3> QED
      BY <1>2, <2>1, <3>1, ContainerUnchanged DEF LiftInv, Idle
  <2>2. CASE IsJump(d) /\ SetRef(d, t) /\ t \in made
    <3>1. ClientSetRef
      BY <1>1, <1>2, <1>4, <2>2 DEF ClientSetRef
    <3>2. /\ obj \in [Obj -> Instr] /\ made \subseteq Obj /\ cm \in Commitments
          /\ obj' = [obj EXCEPT ![d].ref = t] /\ cm' = [cm EXCEPT !.resolved = FALSE]
          /\ t # NULL
      BY <2>2, StateFacts, NullAssumption DEF SetRef
    <3>3. \A x \in made : x \in Obj /\ obj[x] \in Instr
      BY <3>2
    <3>4. \A r \in Instr : /\ [r EXCEPT !.ref = t].addr = r.addr
                           /\ [r EXCEPT !.ref = t].kind = r.kind
                           /\ [r EXCEPT !.ref = t].ref_addr = r.ref_addr
                           /\ [r EXCEPT !.ref = t].ref = t
      BY DEF Instr
    <3>5. /\ obj'[d] = [obj[d] EXCEPT !.ref = t]
          /\ \A x \in made : x # d => obj'[x] = obj[x]
      BY <1>4, <3>2, <3>3
    <3> QED
      BY <1>2, <1>4, <3>1, <3>2, <3>3, <3>4, <3>5, ClientSetRefKeeps
      DEF LiftInv, Idle, Commitments
  <2> QED
    BY <1>7, <2>1, <2>2
<1>9. LiftTypeOK'
  BY <1>1, <1>6, <1>8, StateFacts, Typed DEF LiftInv, LiftTypeOK, JCTypeOK
<1>10. AsParsed'
  <2>1. \A n : Originals(p_dis, n) => Originals(p_dis, n)'
    BY <1>1, <1>8, OriginalsStay
  <2> QED
    BY <1>1, <1>2, <1>6, <2>1 DEF AsParsed
<1>11. Targets'
  <2>1. \A x \in Unset' : x \in Unset /\ x # d
    BY <1>1, <1>7, <1>8 DEF Unset, IsJump
  <2>2. \A x \in Unset' : \E k \in (lift.i + 1)..Len(p_dis) : p_dis[k] = x
    <3> SUFFICES ASSUME NEW x \in Unset'
                 PROVE  \E k \in (lift.i + 1)..Len(p_dis) : p_dis[k] = x
      OBVIOUS
    <3>1. PICK k \in lift.i..Len(p_dis) : p_dis[k] = x
      BY <1>2, <2>1
    <3>2. k # lift.i
      BY <1>2, <2>1, <3>1 DEF d
    <3>3. k \in (lift.i + 1)..Len(p_dis)
      BY <1>2, <1>3, <3>2
    <3> QED
      BY <3>1, <3>3
  <2> QED
    BY <1>1, <1>6, <2>2 DEF Targets
<1>12. Queues'
  BY <1>1, <1>6 DEF LiftInv, Queues
<1>13. /\ NeverFails' /\ Waits' /\ NoNulls' /\ JunkLast' /\ ProgramOK(prog)'
       /\ IsFiniteSet(made)'
  BY <1>1, <1>2, <1>6, <1>8 DEF LiftInv, NeverFails, Waits, NoNulls, JunkLast, Commits
<1> QED
  BY <1>8, <1>9, <1>10, <1>11, <1>12, <1>13 DEF LiftInv

(* An edit that can be made keeps the container, and what is still to be   *)
(* inserted is still not there.                                            *)
LEMMA EditNextFacts ==
  ASSUME LiftInv, NEW m \in Managers, QueueOK(m, made), Awaited(m, lift.i, p_dis),
         EditNext(m), lift.phase \in Edits
  PROVE  ILInv' /\ Awaited(m, lift.i + 1, p_dis')
<1> DEFINE i == lift.i
           e == m.queue[i]
<1>1. /\ i <= Len(m.queue) /\ MakeEdit(e) /\ UNCHANGED <<obj, made, dis, cm>>
  BY DEF EditNext
<1>2. /\ Idle /\ ILInv /\ i \in Nat \ {0} /\ NULL \notin made /\ made \subseteq Obj
      /\ p_dis \in Seq(Ptr) /\ Len(p_dis) \in Nat
  BY StateFacts, NullAssumption DEF LiftInv, Waits, Edits, Commits
<1>3. m.queue \in Seq(Edit)
  BY DEF Managers
<1>4. i \in 1..Len(m.queue) /\ e \in Edit /\ Len(m.queue) \in Nat
  BY <1>1, <1>2, <1>3
<1>5. e.pos \in Int /\ e.pos >= 0
  <2>1. e.pos \in Int
    BY <1>4 DEF Edit
  <2> QED
    BY <1>4, <2>1 DEF QueueOK
<1>6. \A k \in 1..Len(m.queue) :
        m.queue[k].act = "add" =>
          /\ m.queue[k].d \in made
          /\ k >= i => m.queue[k].d \notin ToSet(p_dis)
          /\ e.act = "add" /\ k # i => m.queue[k].d # e.d
  BY <1>4 DEF QueueOK, Awaited
<1>7. i >= i
  BY <1>2
<1> SUFFICES /\ ILInv'
             /\ ToSet(p_dis') \subseteq ToSet(p_dis) \union {NULL}
                                  \union (IF e.act = "add" THEN {e.d} ELSE {})
  <2> HIDE DEF e
  <2>1. ASSUME NEW k \in 1..Len(m.queue), k >= i + 1, m.queue[k].act = "add",
               ToSet(p_dis') \subseteq ToSet(p_dis) \union {NULL}
                                  \union (IF e.act = "add" THEN {e.d} ELSE {})
        PROVE  m.queue[k].d \notin ToSet(p_dis')
    <3>1. k >= i /\ k # i
      BY <1>2, <1>4, <2>1
    <3> QED
      BY <1>2, <1>6, <2>1, <3>1
  <2> QED
    BY <2>1 DEF Awaited
<1> HIDE DEF e, i
<1>8. CASE e.act = "add" /\ AppendDisAt(e.d, e.pos)
  <2>1. e.d \in made /\ e.d \notin ToSet(p_dis) /\ e.pos \in Nat
    BY <1>4, <1>5, <1>6, <1>7, <1>8 DEF e
  <2> QED
    BY <1>1, <1>2, <1>8, <2>1, InsertionKeeps DEF AppendDisAt
<1>9. CASE \E k \in 1..Len(p_dis) : p_dis' = RemoveAt(p_dis, k)
  <2>1. PICK k \in 1..Len(p_dis) : p_dis' = RemoveAt(p_dis, k)
    BY <1>9
  <2>2. ToSet(p_dis') \subseteq ToSet(p_dis)
    BY <2>1, StateFacts, RemoveKeeps
  <2> QED
    BY <1>1, <1>2, <2>1, <2>2, RemovalKeeps
<1>10. CASE e.act = "remove" /\ RemoveDisAt(e.pos)
  <2>1. e.pos + 1 \in 1..Len(p_dis) /\ p_dis' = RemoveAt(p_dis, e.pos + 1)
    BY <1>2, <1>5, <1>10 DEF RemoveDisAt, RemovedAt
  <2> QED
    BY <1>9, <2>1
<1>11. CASE e.act = "remove_ptr" /\ RemoveDis(e.d)
  BY <1>9, <1>11 DEF RemoveDis
<1> QED
  BY <1>1, <1>8, <1>10, <1>11 DEF MakeEdit

(* Making an edit that was queued with a new instruction keeps the pending *)
(* vector unique.                                                          *)
LEMMA EditKeeps == LiftInv /\ (ParseEdit \/ ResolveEdit) => LiftInv'
<1> SUFFICES ASSUME LiftInv, ParseEdit \/ ResolveEdit PROVE LiftInv'
  OBVIOUS
<1>1. /\ \/ lift.phase = "parse edits" /\ EditNext(pm)
         \/ lift.phase = "resolve edits" /\ EditNext(rm)
      /\ Advance
      /\ UNCHANGED <<obj, made, dis, cm, jc, prog, code, pm, rm>>
  BY DEF ParseEdit, ResolveEdit, EditNext
<1>2. lift.phase \in Edits /\ Idle
  BY <1>1 DEF Edits, Commits, LiftInv, Waits
<1>3. /\ lift' \in Lifts /\ lift'.i = lift.i + 1 /\ lift'.phase = lift.phase
  BY <1>1, Advanced
<1>4. /\ QueueOK(pm, made) /\ QueueOK(rm, made)
      /\ lift.phase = "parse edits" => Awaited(pm, lift.i, p_dis)
      /\ lift.phase = "resolve edits" => Awaited(rm, lift.i, p_dis)
  BY DEF LiftInv, Queues
<1>5. /\ ILInv'
      /\ lift.phase = "parse edits" => Awaited(pm, lift.i + 1, p_dis')
      /\ lift.phase = "resolve edits" => Awaited(rm, lift.i + 1, p_dis')
  BY <1>1, <1>2, <1>4, StateFacts, EditNextFacts
<1>6. LiftTypeOK'
  BY <1>1, <1>3, <1>5, StateFacts, Typed DEF LiftInv, LiftTypeOK, JCTypeOK
<1>7. Targets'
  <2>1. Unset' = Unset
    BY <1>1 DEF Unset, IsJump
  <2> QED
    BY <1>2, <1>3, <2>1 DEF LiftInv, Targets, Edits
<1>8. Queues'
  BY <1>1, <1>2, <1>3, <1>5 DEF LiftInv, Queues, Edits
<1>9. /\ NeverFails' /\ Waits' /\ AsParsed' /\ NoNulls' /\ JunkLast' /\ ProgramOK(prog)'
      /\ IsFiniteSet(made)'
  BY <1>1, <1>2, <1>3 DEF LiftInv, NeverFails, Waits, AsParsed, NoNulls, JunkLast,
                          Commits, Edits, Idle
<1> QED
  BY <1>5, <1>6, <1>7, <1>8, <1>9 DEF LiftInv

-----------------------------------------------------------------------------
(***************************************************************************)
(* The resolver's callbacks.                                               *)
(***************************************************************************)

(* The operand of a jump that has a reference can be resolved.             *)
LEMMA ResolveJumpOperandKeeps == LiftInv /\ ResolveJumpOperand => LiftInv'
<1> SUFFICES ASSUME LiftInv, ResolveJumpOperand PROVE LiftInv'
  OBVIOUS
<1>1. /\ lift.phase = "operands" /\ lift.i <= Len(p_dis)
      /\ Advance
      /\ UNCHANGED <<made, p_dis, dis, cm, jc, prog, code, pm, rm>>
  BY DEF ResolveJumpOperand
<1>2. /\ Idle /\ NULL \notin ToSet(p_dis) /\ Unset = {} /\ ILInv
  BY <1>1 DEF LiftInv, Waits, NoNulls, Targets, Commits
<1>3. PICK d \in made : d = p_dis[lift.i]
  <2>1. lift.i \in 1..Len(p_dis)
    BY <1>1, StateFacts
  <2>2. \A k \in 1..Len(p_dis) : p_dis[k] \in ToSet(p_dis)
    BY StateFacts, ToSetFacts
  <2>3. ToSet(p_dis) \subseteq made \union {NULL}
    BY StateFacts
  <2> QED
    BY <1>2, <2>1, <2>2, <2>3
<1>4. lift' \in Lifts /\ lift'.phase = "operands"
  BY <1>1, Advanced
<1>d. /\ IsJump(d) => obj[d].ref # NULL
      /\ obj' = IF IsJump(d) THEN [obj EXCEPT ![d] = Resolved(d)] ELSE obj
  BY <1>3 DEF ResolveJumpOperand
<1>5. /\ obj' \in [Obj -> Instr]
      /\ \A x \in made : /\ obj'[x].addr = obj[x].addr
                         /\ obj'[x].ref = obj[x].ref
                         /\ obj'[x].kind = obj[x].kind
                         /\ x # d => obj'[x] = obj[x]
      /\ obj' = obj \/ Agrees(d)'
  <2>1. CASE IsJump(d)
    <3>1. obj[d].ref # NULL /\ obj' = [obj EXCEPT ![d] = Resolved(d)]
      BY <1>d, <2>1
    <3> QED
      BY <1>2, <3>1, RetargetFacts
  <2>2. CASE ~IsJump(d)
    <3>1. obj' = obj
      BY <1>d, <2>2
    <3> QED
      BY <3>1, StateFacts
  <2> QED
    BY <2>1, <2>2
<1>6. ILInv'
  <2>1. /\ ILTypeOK /\ Allocated /\ PendingUnique /\ CommittedAddresses /\ JumpsAgree
        /\ ToSet(dis) \subseteq made /\ dis \in Seq(Obj)
    BY <1>2, StateFacts DEF ILInv
  <2>2. ILTypeOK' /\ Allocated' /\ PendingUnique'
    BY <1>1, <1>5, <2>1 DEF ILTypeOK, Allocated, PendingUnique
  <2>3. NoGaps' /\ CommitProgress'
    <3>1. 1..0 = {} /\ Len(p_dis) \in Nat
      BY StateFacts
    <3>2. cm' = cm /\ p_dis' = p_dis /\ cm.stage = "idle"
      BY <1>1, <1>2 DEF Idle
    <3>3. Numbered' = 0 /\ Retargeted' = 0
      BY <3>2 DEF Numbered, Retargeted
    <3> QED
      BY <3>1, <3>2, <3>3 DEF NoGaps, CommitProgress
  <2>4. CommittedAddresses'
    <3>1. \A k \in 1..Len(dis) : dis[k] \in made
      BY <2>1, ToSetFacts
    <3> QED
      BY <1>1, <1>5, <2>1, <3>1 DEF CommittedAddresses, Resolvable, Settled
  <2>5. JumpsAgree'
    <3> SUFFICES ASSUME Resolvable, NEW x \in ToSet(dis) PROVE Agrees(x)'
      BY <1>1 DEF JumpsAgree, Resolvable, Settled
    <3>1. Agrees(x) /\ x \in made
      BY <2>1 DEF JumpsAgree
    <3>2. obj'[x] = obj[x] => Agrees(x)'
      <4>1. obj[x].ref \in made \union {NULL}
        BY <2>1, <3>1 DEF Allocated
      <4>2. obj[x].ref # NULL => obj'[obj[x].ref].addr = obj[obj[x].ref].addr
        BY <1>5, <4>1
      <4> QED
        BY <3>1, <4>2 DEF Agrees, IsJump
    <3> QED
      BY <1>5, <3>1, <3>2
  <2> QED
    BY <2>2, <2>3, <2>4, <2>5 DEF ILInv
<1>7. LiftTypeOK'
  BY <1>1, <1>4, <1>6, StateFacts, Typed DEF LiftInv, LiftTypeOK, JCTypeOK
<1>8. Targets'
  <2>1. Unset' = Unset
    BY <1>1, <1>5 DEF Unset, IsJump
  <2> QED
    BY <1>2, <1>4, <2>1 DEF Targets
<1>9. Queues'
  BY <1>1, <1>4 DEF LiftInv, Queues
<1>10. /\ NeverFails' /\ Waits' /\ AsParsed' /\ NoNulls' /\ JunkLast' /\ ProgramOK(prog)'
       /\ IsFiniteSet(made)'
  BY <1>1, <1>2, <1>4 DEF LiftInv, NeverFails, Waits, AsParsed, NoNulls, JunkLast,
                          Commits, Idle
<1> QED
  BY <1>6, <1>7, <1>8, <1>9, <1>10 DEF LiftInv

-----------------------------------------------------------------------------
(***************************************************************************)
(* What the callbacks queue.                                               *)
(***************************************************************************)

(* A queue none of whose insertions are made, of instructions of S; an     *)
(* instruction neither it nor p can hold.                                  *)
Ready(m, S, p) == m \in Managers /\ QueueOK(m, S) /\ Awaited(m, 1, p)

Unused(d, S, p) == d \in Obj /\ d \notin S /\ d \notin ToSet(p)

(* Queueing the insertion of an instruction just allocated.                *)
LEMMA QueueAddKeeps ==
  ASSUME NEW S \in SUBSET Obj, NEW m, NEW p, Ready(m, S, p), NEW d, Unused(d, S, p),
         NEW idx \in Nat
  PROVE  /\ Ready(QueueAdd(m, idx, d), S \union {d}, p)
         /\ QueueAdd(m, idx, d).sync = m.sync + 1
<1>0. /\ m \in Managers /\ QueueOK(m, S) /\ Awaited(m, 1, p)
      /\ d \in Obj /\ d \notin S /\ d \notin ToSet(p)
  BY DEF Ready, Unused
<1> DEFINE e == [act |-> "add", pos |-> idx + m.sync, at |-> idx, d |-> d]
           q == QueueAdd(m, idx, d)
           n == Len(m.queue)
<1>1. m.queue \in Seq(Edit) /\ n \in Nat /\ m.sync \in Int /\ m.sync >= 1
  BY <1>0 DEF Managers, QueueOK
<1>2. e \in Edit /\ e.act = "add" /\ e.d = d /\ e.pos = idx + m.sync /\ e.pos >= 0
  BY <1>0, <1>1 DEF Edit, Ptr
<1> HIDE DEF e
<1>3. q = [queue |-> Append(m.queue, e), sync |-> m.sync + 1]
  BY DEF QueueAdd, e
<1> HIDE DEF q
<1>4. /\ q.queue = Append(m.queue, e) /\ q.sync = m.sync + 1
      /\ Append(m.queue, e) \in Seq(Edit) /\ m.sync + 1 \in Int /\ m.sync + 1 >= 1
  BY <1>1, <1>2, <1>3
<1>5. q \in Managers
  BY <1>3, <1>4 DEF Managers
<1>6. /\ Len(q.queue) = n + 1 /\ q.queue[n + 1] = e
      /\ \A k \in 1..n : q.queue[k] = m.queue[k]
      /\ \A k \in 1..(n + 1) : k \in 1..n \/ k = n + 1
  BY <1>1, <1>2, <1>4
<1>7. \A k \in 1..n : /\ m.queue[k].pos >= 0
                      /\ m.queue[k].act = "add" =>
                           /\ m.queue[k].d \in S /\ m.queue[k].d \notin ToSet(p)
                           /\ \A l \in 1..n : m.queue[l].act = "add"
                                 /\ m.queue[l].d = m.queue[k].d => l = k
  <2>1. \A k \in 1..n : k >= 1
    BY <1>1
  <2> QED
    BY <1>0, <2>1 DEF QueueOK, Awaited
<1> HIDE DEF n
<1>8. QueueOK(q, S \union {d})
  BY <1>0, <1>2, <1>4, <1>6, <1>7 DEF QueueOK
<1>9. Awaited(q, 1, p)
  BY <1>0, <1>2, <1>6, <1>7 DEF Awaited
<1> QED
  BY <1>4, <1>5, <1>8, <1>9 DEF q, Ready

(* Queueing a removal after an insertion.                                  *)
LEMMA QueueRemoveKeeps ==
  ASSUME NEW S \in SUBSET Obj, NEW m, NEW p, Ready(m, S, p), m.sync >= 2, NEW idx \in Nat
  PROVE  /\ Ready(QueueRemove(m, idx), S, p)
         /\ QueueRemove(m, idx).sync = m.sync - 1
<1>0. m \in Managers /\ QueueOK(m, S) /\ Awaited(m, 1, p)
  BY DEF Ready
<1> DEFINE e == [act |-> "remove", pos |-> idx + m.sync - 1, at |-> idx, d |-> NULL]
           q == QueueRemove(m, idx)
           n == Len(m.queue)
<1>1. m.queue \in Seq(Edit) /\ n \in Nat /\ m.sync \in Int
  BY <1>0 DEF Managers
<1>2. e \in Edit /\ e.act = "remove" /\ e.pos = idx + m.sync - 1 /\ e.pos >= 0
  BY <1>0, <1>1 DEF Edit, Ptr
<1> HIDE DEF e
<1>3. q = [queue |-> Append(m.queue, e), sync |-> m.sync - 1]
  BY DEF QueueRemove, e
<1> HIDE DEF q
<1>4. /\ q.queue = Append(m.queue, e) /\ q.sync = m.sync - 1
      /\ Append(m.queue, e) \in Seq(Edit) /\ m.sync - 1 \in Int /\ m.sync - 1 >= 1
  BY <1>1, <1>2, <1>3
<1>5. q \in Managers
  BY <1>3, <1>4 DEF Managers
<1>6. /\ Len(q.queue) = n + 1 /\ q.queue[n + 1] = e
      /\ \A k \in 1..n : q.queue[k] = m.queue[k]
      /\ \A k \in 1..(n + 1) : k \in 1..n \/ k = n + 1
  BY <1>1, <1>2, <1>4
<1>7. \A k \in 1..n : /\ m.queue[k].pos >= 0
                      /\ m.queue[k].act = "add" =>
                           /\ m.queue[k].d \in S /\ m.queue[k].d \notin ToSet(p)
                           /\ \A l \in 1..n : m.queue[l].act = "add"
                                 /\ m.queue[l].d = m.queue[k].d => l = k
  <2>1. \A k \in 1..n : k >= 1
    BY <1>1
  <2> QED
    BY <1>0, <2>1 DEF QueueOK, Awaited
<1> HIDE DEF n
<1>8. QueueOK(q, S)
  BY <1>0, <1>2, <1>4, <1>6, <1>7 DEF QueueOK
<1>9. Awaited(q, 1, p)
  BY <1>0, <1>2, <1>6, <1>7 DEF Awaited
<1> QED
  BY <1>4, <1>5, <1>8, <1>9 DEF q, Ready

(* The edits of a compare.                                                 *)
ReadyForTwo(m, S, p, c, u) ==
  Ready(m, S, p) /\ Unused(c, S, p) /\ Unused(u, S \union {c}, p)

(* Either rewriting of a compare queues edits that can be made.            *)
LEMMA CompareEditsKeep ==
  ASSUME NEW S \in SUBSET Obj, NEW m, NEW p, NEW c, NEW u, ReadyForTwo(m, S, p, c, u),
         NEW i \in Nat \ {0}
  PROVE  /\ Ready(JumpEdits(m, i, c, u), S \union {c, u}, p)
         /\ Ready(SetEdits(m, i, c, u), S \union {c, u}, p)
<1> DEFINE T == S \union {c}
           U == S \union {c, u}
           m1 == QueueAdd(m, i - 1, c)
           m2 == QueueAdd(m1, i - 1, u)
           m3 == QueueRemove(m2, i)
<1>1. /\ i - 1 \in Nat /\ i \in Nat /\ i + 1 \in Nat
      /\ m.sync \in Int /\ m.sync >= 1
      /\ T \in SUBSET Obj /\ U \in SUBSET Obj /\ T \union {u} = U
  BY DEF Managers, QueueOK, Ready, Unused, ReadyForTwo
<1>2. JumpEdits(m, i, c, u) = m2 /\ SetEdits(m, i, c, u) = QueueRemove(m3, i + 1)
  BY DEF JumpEdits, SetEdits
<1>3. Ready(m1, T, p) /\ m1.sync = m.sync + 1
  BY <1>1, QueueAddKeeps DEF ReadyForTwo
<1>4. Unused(u, T, p)
  BY DEF ReadyForTwo
<1> HIDE DEF T, U, m1
<1>5. Ready(m2, U, p) /\ m2.sync = m1.sync + 1
  <2>1. Ready(m2, T \union {u}, p) /\ m2.sync = m1.sync + 1
    BY <1>1, <1>3, <1>4, QueueAddKeeps
  <2> QED
    BY <1>1, <2>1
<1> HIDE DEF m2
<1>6. Ready(m3, U, p) /\ m3.sync = m2.sync - 1
  <2>1. m2.sync >= 2
    BY <1>1, <1>3, <1>5
  <2> QED
    BY <1>1, <1>5, <2>1, QueueRemoveKeeps
<1> HIDE DEF m3
<1>7. Ready(QueueRemove(m3, i + 1), U, p)
  <2>1. m3.sync >= 2
    BY <1>1, <1>3, <1>5, <1>6
  <2> QED
    BY <1>1, <1>6, <2>1, QueueRemoveKeeps
<1> QED
  BY <1>2, <1>5, <1>7 DEF U

(* A queue stays in order when more is allocated.                          *)
LEMMA QueueWiden ==
  ASSUME NEW m, NEW S, QueueOK(m, S), NEW T, S \subseteq T PROVE QueueOK(m, T)
  BY DEF QueueOK

-----------------------------------------------------------------------------
(***************************************************************************)
(* parse_compares.                                                         *)
(***************************************************************************)

(* Every compare is lifted to opcodes of the IL.                           *)
LEMMA CompareOpcodes ==
  /\ \A op : CompareOp(op) \in ILOps
  /\ \A op \in Tests \union Binary : JumpOp(op) \in ILOps
  /\ \A op \in Binary \ JumpOnly : SetOp(op) \in ILOps
<1>1. \A op : CompareOp(op) \in ILOps
  BY DEF CompareOp, ILOps
<1>2. \A op \in Tests \union Binary : JumpOp(op) \in ILOps
  BY DEF JumpOp, ILOps, Tests, Binary
<1>3. \A op \in Binary \ JumpOnly : SetOp(op) \in ILOps
  BY DEF SetOp, ILOps, Binary, JumpOnly
<1> QED
  BY <1>1, <1>2, <1>3

(* Two instructions are allocated, for edits that insert them.             *)
LEMMA CompareEmitted ==
  ASSUME LiftInv, lift.phase = "compares", NEW i, i \in 1..Len(prog),
         NEW c \in Obj \ made, NEW u \in Obj \ (made \union {c}),
         NEW op \in ILOps, NEW r \in Instr, r.ref \in made \union {NULL},
         r.kind = "jump" => r.ref # NULL,
         EmitCompare(i, c, u, op, r),
         pm' \in {JumpEdits(pm, i, c, u), SetEdits(pm, i, c, u)},
         Advance, UNCHANGED <<p_dis, dis, cm, jc, prog, rm>>
  PROVE  LiftInv'
<1> DEFINE s == Bare("other", prog[i].addr)
<1>1. /\ made' = made \union {c, u}
      /\ obj' = [obj EXCEPT ![c] = s, ![u] = r]
      /\ code' = [code EXCEPT ![c] = [op |-> CompareOp(prog[i].op), at |-> i],
                              ![u] = [op |-> op, at |-> i]]
  BY DEF EmitCompare, Bare
<1>2. /\ s \in Instr /\ s.kind = "other" /\ s.ref = NULL
  <2>1. prog[i].addr \in Int /\ "other" \in Kinds
    BY InstructionFacts DEF LiftInv, Kinds
  <2> QED
    BY <2>1, BareFacts
<1> HIDE DEF s
<1>3. /\ Idle /\ Originals(p_dis, Len(prog)) /\ dis = p_dis /\ Unset \subseteq ToSet(p_dis)
      /\ QueueOK(pm, made) /\ Awaited(pm, 1, p_dis) /\ rm = EmptyManager /\ jc = JunkIdle
      /\ IsFiniteSet(made)
  BY DEF LiftInv, Waits, AsParsed, Targets, Queues, Commits, JunkLast
<1>4. /\ c \notin ToSet(p_dis) /\ u \notin ToSet(p_dis) /\ i \in Nat \ {0}
  BY StateFacts, NullAssumption
<1>5. /\ obj' \in [Obj -> Instr] /\ obj'[c] = s /\ obj'[u] = r
      /\ \A x \in made : obj'[x] = obj[x]
      /\ made' \subseteq Obj /\ made \subseteq made'
  BY <1>1, <1>2, StateFacts
<1>6. ILInv'
  <2>1. \A x \in made' \ made : obj'[x].ref \in made' \union {NULL}
    BY <1>1, <1>2, <1>5
  <2>2. PendingOK(p_dis') /\ ToSet(p_dis') \subseteq made' \union {NULL}
    BY <1>1, StateFacts
  <2> QED
    BY <1>3, <1>5, <2>1, <2>2, AllocatingKeeps DEF LiftInv
<1>7. /\ code' \in Codes(Len(prog))
      /\ \A x \in made : code'[x] = code[x]
  <2>1. /\ [op |-> op, at |-> i] \in [op : ILOps, at : 0..Len(prog)]
        /\ [op |-> CompareOp(prog[i].op), at |-> i] \in [op : ILOps, at : 0..Len(prog)]
    BY CompareOpcodes
  <2> QED
    BY <1>1, <2>1, StateFacts DEF Codes
<1>8. pm' \in Managers /\ QueueOK(pm', made') /\ Awaited(pm', 1, p_dis)
  <2>1. made \in SUBSET Obj /\ ReadyForTwo(pm, made, p_dis, c, u)
    BY <1>3, <1>4, StateFacts DEF Ready, Unused, ReadyForTwo
  <2>2. /\ Ready(JumpEdits(pm, i, c, u), made \union {c, u}, p_dis)
        /\ Ready(SetEdits(pm, i, c, u), made \union {c, u}, p_dis)
    BY <1>4, <2>1, CompareEditsKeep
  <2> QED
    BY <1>1, <2>2 DEF Ready
<1>9. lift' \in Lifts /\ lift'.phase = "compares"
  BY Advanced
<1>10. LiftTypeOK'
  BY <1>6, <1>7, <1>8, <1>9, StateFacts, Typed DEF LiftInv, LiftTypeOK, JCTypeOK
<1>11. AsParsed'
  <2>1. \A n : Originals(p_dis, n) => Originals(p_dis, n)'
    BY <1>5, <1>7, OriginalsStay
  <2>2. Originals(p_dis, Len(prog))'
    BY <1>3, <2>1
  <2> QED
    BY <1>3, <1>9, <2>2 DEF AsParsed
<1>12. Targets'
  <2>1. Unset' \subseteq Unset
    BY <1>1, <1>2, <1>5 DEF Unset, IsJump
  <2> QED
    BY <1>3, <1>9, <2>1 DEF Targets
<1>13. Queues'
  BY <1>3, <1>8, <1>9, EmptyFacts DEF Queues
<1>14. IsFiniteSet(made')
  <2>1. IsFiniteSet(made \union {c})
    BY <1>3, FS_AddElement
  <2>2. IsFiniteSet((made \union {c}) \union {u})
    BY <2>1, FS_AddElement
  <2>3. (made \union {c}) \union {u} = made'
    BY <1>1
  <2> QED
    BY <2>2, <2>3
<1>15. NeverFails' /\ Waits' /\ NoNulls' /\ JunkLast' /\ ProgramOK(prog)'
  BY <1>3, <1>9 DEF LiftInv, NeverFails, Waits, NoNulls, JunkLast, JunkIdle, Idle, Commits
<1> QED
  BY <1>6, <1>10, <1>11, <1>12, <1>13, <1>14, <1>15 DEF LiftInv

(* The target of a compare is found.                                       *)
LEMMA ParseCompareKeeps ==
  ASSUME Unlimited PROVE LiftInv /\ ParseCompare => LiftInv'
<1> SUFFICES ASSUME LiftInv, ParseCompare PROVE LiftInv'
  OBVIOUS
<1>1. PICK i, b, c, u :
        /\ i = lift.i /\ b = prog[i] /\ c = Fresh(made) /\ u = Fresh(made \union {c})
        /\ lift.phase = "compares" /\ i <= Len(prog)
        /\ UNCHANGED <<p_dis, dis, cm, jc, prog, rm>>
        /\ \/ Advance /\ UNCHANGED <<obj, made, code, pm>>
           \/ /\ b.op \in Tests \union Binary
              /\ SetCmp(i)
              /\ EmitCompare(i, c, u, SetOp(b.op), Bare("other", b.addr))
              /\ pm' = SetEdits(pm, i, c, u)
              /\ Advance
           \/ /\ b.op \in Tests \union Binary
              /\ Visitable(b.ref_addr)
              /\ EmitCompare(i, c, u, JumpOp(b.op), EmittedJump(i, VisitAddr(b.ref_addr)))
              /\ pm' = JumpEdits(pm, i, c, u)
              /\ Advance
           \/ b.op \in Tests \union Binary /\ ~Visitable(b.ref_addr)
  BY DEF ParseCompare, Bare
<1>2. c \in Obj \ made /\ u \in Obj \ (made \union {c})
  <2>1. IsFiniteSet(made)
    BY DEF LiftInv
  <2>2. IsFiniteSet(made \union {c})
    BY <2>1, FS_AddElement
  <2> QED
    BY <1>1, <2>1, <2>2, FreshFacts
<1>3. /\ i \in 1..Len(prog) /\ ProgramOK(prog)
      /\ Idle /\ Originals(p_dis, Len(prog)) /\ dis = p_dis
  BY <1>1, StateFacts DEF LiftInv, Waits, AsParsed, Commits
<1>4. prog[i].addr \in Int /\ prog[i].ref_addr \in Int /\ NULL \in Ptr
  BY <1>3, InstructionFacts DEF Ptr
<1>5. CASE Advance /\ UNCHANGED <<obj, made, code, pm>>
  <2>1. UNCHANGED <<ilVars, prog>>
    BY <1>1, <1>5 DEF ilVars
  <2>2. /\ ILInv' /\ IsFiniteSet(made)' /\ ProgramOK(prog)'
    BY <2>1, ContainerKept
  <2>3. lift' \in Lifts /\ lift'.phase = "compares"
    BY <1>1, <1>5, Advanced
  <2>4. LiftTypeOK'
    BY <1>1, <1>5, <2>2, <2>3, StateFacts, Typed DEF LiftInv, LiftTypeOK, JCTypeOK
  <2>5. AsParsed'
    <3>1. \A n : Originals(p_dis, n) => Originals(p_dis, n)'
      BY <1>1, <1>5, OriginalsStay
    <3>2. Originals(p_dis, Len(prog))'
      BY <1>1, <1>3, <3>1
    <3> QED
      BY <1>1, <1>3, <2>3, <3>2 DEF AsParsed
  <2>6. Targets'
    <3>1. Unset' = Unset
      BY <1>5 DEF Unset, IsJump
    <3> QED
      BY <1>1, <2>3, <3>1 DEF LiftInv, Targets
  <2>7. Queues' /\ JunkLast'
    BY <1>1, <1>5, <2>3 DEF LiftInv, Queues, JunkLast
  <2>8. NeverFails' /\ Waits' /\ NoNulls'
    BY <1>1, <1>3, <2>3 DEF LiftInv, NeverFails, Waits, NoNulls, Idle, Commits
  <2> QED
    BY <2>2, <2>4, <2>5, <2>6, <2>7, <2>8 DEF LiftInv
<1>6. CASE /\ b.op \in Tests \union Binary
           /\ SetCmp(i)
           /\ EmitCompare(i, c, u, SetOp(b.op), Bare("other", b.addr))
           /\ pm' = SetEdits(pm, i, c, u)
           /\ Advance
  <2>1. SetOp(b.op) \in ILOps
    <3>1. prog[i].op \in Compares \ JumpOnly
      BY <1>1, <1>3, <1>6, SetIsPair DEF Pair
    <3>2. b.op \in Binary \ JumpOnly
      BY <1>1, <1>6, <3>1 DEF JumpOnly
    <3> QED
      BY <3>2, CompareOpcodes
  <2> DEFINE r == Bare("other", b.addr)
  <2>2. r \in Instr /\ r.kind = "other" /\ r.ref = NULL
    <3>1. "other" \in Kinds /\ b.addr \in Int
      BY <1>1, <1>4 DEF Kinds
    <3> QED
      BY <3>1, BareFacts
  <2> HIDE DEF r
  <2>3. EmitCompare(i, c, u, SetOp(b.op), r)
    BY <1>6 DEF r
  <2> QED
    BY <1>1, <1>2, <1>3, <1>6, <2>1, <2>2, <2>3, CompareEmitted
<1>7. b.op \in Tests \union Binary => Visitable(b.ref_addr)
  <2> SUFFICES ASSUME prog[i].op \in Tests \union Binary PROVE Visitable(prog[i].ref_addr)
    BY <1>1
  <2>1. prog[i].to \in 1..Len(prog) /\ prog[i].ref_addr = prog[prog[i].to].addr
    BY <1>3, JumpsLead
  <2> QED
    BY <1>3, <2>1, StateFacts, OriginalsVisitable
<1>8. CASE /\ b.op \in Tests \union Binary
           /\ Visitable(b.ref_addr)
           /\ EmitCompare(i, c, u, JumpOp(b.op), EmittedJump(i, VisitAddr(b.ref_addr)))
           /\ pm' = JumpEdits(pm, i, c, u)
           /\ Advance
  <2> DEFINE t == VisitAddr(b.ref_addr)
             r == EmittedJump(i, t)
  <2>1. t \in made /\ t \in Obj /\ t # NULL
    <3>1. t \in ToSet(dis)
      BY <1>8, StateFacts, VisitFacts
    <3> HIDE DEF t
    <3> QED
      BY <3>1, StateFacts, NullAssumption
  <2>2. JumpOp(b.op) \in ILOps
    BY <1>8, CompareOpcodes
  <2> HIDE DEF t
  <2>3. r \in Instr /\ r.ref = t
    <3>1. obj[t].addr \in Int
      <4>1. obj[t] \in Instr
        BY <2>1, StateFacts
      <4> QED
        BY <4>1 DEF Instr
    <3>2. prog[i].addr + obj[t].addr \in Int
      BY <1>4, <3>1
    <3> QED
      BY <1>4, <2>1, <3>1, <3>2 DEF EmittedJump, Instr, Kinds, Ptr
  <2> HIDE DEF r
  <2>4. EmitCompare(i, c, u, JumpOp(b.op), r)
    BY <1>8 DEF r, t
  <2> QED
    BY <1>1, <1>2, <1>3, <1>8, <2>1, <2>2, <2>3, <2>4, CompareEmitted
<1> QED
  BY <1>1, <1>5, <1>6, <1>7, <1>8

(* resolve_instructions: one more instruction for a self call that keeps   *)
(* its register, none for the others.                                      *)
LEMMA ResolveInstructionKeeps ==
  ASSUME Unlimited PROVE LiftInv /\ ResolveInstruction => LiftInv'
<1> SUFFICES ASSUME LiftInv, ResolveInstruction PROVE LiftInv'
  OBVIOUS
<1>1. PICK d, a :
        /\ d = p_dis[lift.i] /\ a = Fresh(made)
        /\ lift.phase = "selfs" /\ lift.i <= Len(p_dis) /\ Advance
        /\ UNCHANGED <<p_dis, dis, cm, jc, prog, pm>>
        /\ \/ /\ Make(a, Bare("other", obj[d].addr))
              /\ code' = [code EXCEPT ![a] = [op |-> "OP_POPARG", at |-> code[d].at]]
              /\ rm' = QueueAdd(rm, lift.i - 1, a)
           \/ UNCHANGED <<obj, made, code, rm>>
  BY DEF ResolveInstruction, Bare
<1>2. /\ Idle /\ NULL \notin ToSet(p_dis) /\ Unset = {} /\ IsFiniteSet(made)
      /\ QueueOK(pm, made) /\ QueueOK(rm, made) /\ Awaited(rm, 1, p_dis) /\ jc = JunkIdle
  BY <1>1 DEF LiftInv, Waits, NoNulls, Targets, Queues, Commits, JunkLast
<1>3. d \in made
  <2>1. lift.i \in 1..Len(p_dis)
    BY <1>1, StateFacts
  <2>2. \A k \in 1..Len(p_dis) : p_dis[k] \in ToSet(p_dis)
    BY StateFacts, ToSetFacts
  <2>3. ToSet(p_dis) \subseteq made \union {NULL}
    BY StateFacts
  <2> QED
    BY <1>1, <1>2, <2>1, <2>2, <2>3
<1>4. a \in Obj /\ a \notin made /\ IsFiniteSet(made \union {a})
  BY <1>1, <1>2, FreshFacts, FS_AddElement
<1>5. lift' \in Lifts /\ lift'.phase = "selfs"
  BY <1>1, Advanced
<1>6. CASE /\ Make(a, Bare("other", obj[d].addr))
           /\ code' = [code EXCEPT ![a] = [op |-> "OP_POPARG", at |-> code[d].at]]
           /\ rm' = QueueAdd(rm, lift.i - 1, a)
  <2> DEFINE r == Bare("other", obj[d].addr)
  <2>1. r \in Instr /\ r.kind = "other" /\ r.ref = NULL
    <3>1. obj[d] \in Instr
      BY <1>3, StateFacts
    <3>2. obj[d].addr \in Int /\ "other" \in Kinds
      BY <3>1 DEF Instr, Kinds
    <3> QED
      BY <3>2, BareFacts
  <2>2. made' = made \union {a} /\ obj' = [obj EXCEPT ![a] = r]
    BY <1>6 DEF Make
  <2> HIDE DEF r
  <2>3. /\ obj' \in [Obj -> Instr] /\ obj'[a] = r /\ \A x \in made : obj'[x] = obj[x]
        /\ made \subseteq made' /\ made' \subseteq Obj
    BY <1>4, <2>1, <2>2, StateFacts
  <2>4. ILInv'
    <3>1. PendingOK(p_dis') /\ ToSet(p_dis') \subseteq made' \union {NULL}
      BY <1>1, <2>2, StateFacts
    <3>2. \A x \in made' \ made : obj'[x].ref \in made' \union {NULL}
      BY <2>1, <2>2, <2>3
    <3> QED
      BY <1>1, <1>2, <2>3, <3>1, <3>2, AllocatingKeeps DEF LiftInv
  <2>5. code' \in Codes(Len(prog'))
    <3>1. code[d] \in [op : ILOps, at : 0..Len(prog)]
      BY <1>3, StateFacts DEF Codes
    <3>2. [op |-> "OP_POPARG", at |-> code[d].at] \in [op : ILOps, at : 0..Len(prog)]
      BY <3>1 DEF ILOps
    <3> QED
      BY <1>1, <1>4, <1>6, <3>2, StateFacts DEF Codes
  <2>6. rm' \in Managers /\ QueueOK(rm', made') /\ Awaited(rm', 1, p_dis')
    <3>1. made \in SUBSET Obj /\ Ready(rm, made, p_dis) /\ Unused(a, made, p_dis)
      BY <1>2, <1>4, StateFacts, NullAssumption DEF Ready, Unused
    <3>2. lift.i - 1 \in Nat
      BY StateFacts
    <3>3. Ready(QueueAdd(rm, lift.i - 1, a), made \union {a}, p_dis)
      BY <3>1, <3>2, QueueAddKeeps
    <3> QED
      BY <1>1, <1>6, <2>2, <3>3 DEF Ready
  <2>7. LiftTypeOK'
    BY <1>1, <1>5, <2>4, <2>5, <2>6, StateFacts, Typed DEF LiftInv, LiftTypeOK, JCTypeOK
  <2>8. Targets'
    <3>1. Unset' = {}
      BY <1>2, <2>1, <2>2, <2>3 DEF Unset, IsJump
    <3> QED
      BY <1>5, <3>1 DEF Targets
  <2>9. Queues'
    <3>1. QueueOK(pm', made')
      BY <1>1, <1>2, <2>3, QueueWiden
    <3> QED
      BY <1>5, <2>6, <3>1 DEF Queues
  <2>10. /\ NeverFails' /\ Waits' /\ AsParsed' /\ NoNulls' /\ JunkLast' /\ ProgramOK(prog)'
         /\ IsFiniteSet(made)'
    BY <1>1, <1>2, <1>4, <1>5, <2>2 DEF LiftInv, NeverFails, Waits, AsParsed, NoNulls,
                                   JunkLast, JunkIdle, Commits, Idle
  <2> QED
    BY <2>4, <2>7, <2>8, <2>9, <2>10 DEF LiftInv
<1>7. CASE UNCHANGED <<obj, made, code, rm>>
  <2>1. UNCHANGED <<ilVars, prog>>
    BY <1>1, <1>7 DEF ilVars
  <2>2. ILInv' /\ IsFiniteSet(made)' /\ ProgramOK(prog)'
    BY <2>1, ContainerKept
  <2>3. LiftTypeOK'
    BY <1>1, <1>5, <1>7, <2>2, StateFacts, Typed DEF LiftInv, LiftTypeOK, JCTypeOK
  <2>4. Targets'
    <3>1. Unset' = Unset
      BY <1>7 DEF Unset, IsJump
    <3> QED
      BY <1>2, <1>5, <3>1 DEF Targets
  <2>5. Queues'
    BY <1>1, <1>2, <1>5, <1>7 DEF Queues
  <2>6. NeverFails' /\ Waits' /\ AsParsed' /\ NoNulls' /\ JunkLast'
    BY <1>1, <1>2, <1>5, <1>7 DEF LiftInv, NeverFails, Waits, AsParsed, NoNulls,
                                   JunkLast, JunkIdle, Commits, Idle
  <2> QED
    BY <2>2, <2>3, <2>4, <2>5, <2>6 DEF LiftInv
<1> QED
  BY <1>1, <1>6, <1>7

-----------------------------------------------------------------------------
(***************************************************************************)
(* junk_code.                                                              *)
(***************************************************************************)

(* junk_code adds no null pointer and leaves references and queues alone.  *)
LEMMA JunkPassKeeps == LiftInv /\ JunkPass => LiftInv'
<1> SUFFICES ASSUME LiftInv, JunkPass PROVE LiftInv'
  OBVIOUS
<1>1. lift.phase = "junk" /\ JunkWork /\ UNCHANGED <<prog, code, pm, rm, lift>>
  BY DEF JunkPass
<1>2. /\ JCTypeOK /\ NULL \notin ToSet(p_dis) /\ Unset = {}
      /\ jc.phase # "commit" => Idle
      /\ jc.phase = "erase" => jc.i <= Len(jc.copy)
      /\ QueueOK(pm, made) /\ QueueOK(rm, made) /\ rm = EmptyManager
      /\ IsFiniteSet(made) /\ ProgramOK(prog)
  BY <1>1 DEF LiftInv, LiftTypeOK, NoNulls, Targets, Waits, JunkLast, Queues
<1>3. /\ jc \in [copy : Seq(Obj), i : Nat,
                 phase : {"off", "loop", "erase", "commit", "done"}]
      /\ jc.i \in 1..(Len(jc.copy) + 1)
  BY <1>2 DEF JCTypeOK
<1>4. /\ jc.copy \in Seq(Obj) /\ Len(jc.copy) \in Nat /\ jc.i \in Nat
      /\ jc = [copy |-> jc.copy, i |-> jc.i, phase |-> jc.phase]
  BY <1>3
<1>5. SUFFICES /\ ILInv' /\ JCTypeOK'
               /\ UNCHANGED <<obj, made, dis>>
               /\ ToSet(p_dis') \subseteq ToSet(p_dis)
               /\ jc'.phase # "commit" => Idle'
               /\ cm'.stage \notin {"thrown", "crashed"}
               /\ jc'.phase = "erase" => jc'.i <= Len(jc'.copy)
  <2>1. LiftTypeOK'
    BY <1>1, <1>5, StateFacts, Typed
  <2>2. Targets'
    <3>1. Unset' = Unset
      BY <1>5 DEF Unset, IsJump
    <3> QED
      BY <1>1, <1>2, <3>1 DEF Targets
  <2>3. Queues'
    BY <1>1, <1>2, <1>5, EmptyFacts DEF Queues
  <2>4. NeverFails' /\ Waits' /\ AsParsed' /\ NoNulls' /\ JunkLast'
    BY <1>1, <1>2, <1>5 DEF NeverFails, Waits, AsParsed, NoNulls, JunkLast, Commits
  <2> QED
    BY <1>1, <1>2, <1>5, <2>1, <2>2, <2>3, <2>4 DEF LiftInv
<1>6. CASE JunkCall
  <2>1. p_dis \in Seq(Obj)
    <3>1. p_dis \in Seq(Ptr) /\ \A k \in 1..Len(p_dis) : p_dis[k] \in ToSet(p_dis)
      BY StateFacts, ToSetFacts
    <3>2. \A k \in 1..Len(p_dis) : p_dis[k] \in Obj
      BY <1>2, <3>1 DEF Ptr
    <3> QED
      BY <3>1, <3>2
  <2>2. jc' = [copy |-> p_dis, i |-> 1, phase |-> "loop"] /\ UNCHANGED ilVars /\ Idle
    BY <1>6 DEF JunkCall
  <2>3. JCTypeOK' /\ jc'.phase = "loop"
    BY <2>1, <2>2 DEF JCTypeOK
  <2> QED
    BY <2>2, <2>3, ContainerUnchanged DEF LiftInv, ilVars, Idle
<1>7. CASE JunkLook
  <2>1. /\ jc.phase = "loop" /\ jc.i <= Len(jc.copy) /\ UNCHANGED ilVars
        /\ \/ jc' = [copy |-> jc.copy, i |-> jc.i, phase |-> "erase"]
           \/ jc' = [copy |-> jc.copy, i |-> jc.i + 1, phase |-> "loop"]
    BY <1>4, <1>7 DEF JunkLook
  <2>2. jc.i + 1 \in Nat /\ jc.i + 1 \in 1..(Len(jc.copy) + 1)
    BY <1>3, <1>4, <2>1
  <2>3. /\ JCTypeOK' /\ jc'.phase \in {"erase", "loop"}
        /\ jc'.phase = "erase" => jc'.i <= Len(jc'.copy)
    BY <1>3, <1>4, <2>1, <2>2 DEF JCTypeOK
  <2>4. Idle
    BY <1>2, <2>1
  <2> QED
    BY <2>1, <2>3, <2>4, ContainerUnchanged DEF LiftInv, ilVars, Idle
<1>8. CASE JunkErase
  <2>1. PICK k \in 1..Len(p_dis) : p_dis' = RemoveAt(p_dis, k)
    BY <1>8 DEF JunkErase, RemoveDis
  <2>2. /\ jc.phase = "erase" /\ UNCHANGED <<obj, made, dis, cm, jc>> /\ Idle
    BY <1>2, <1>8 DEF JunkErase
  <2>3. ILInv'
    BY <2>1, <2>2, RemovalKeeps DEF LiftInv
  <2>4. ToSet(p_dis') \subseteq ToSet(p_dis)
    BY <2>1, StateFacts, RemoveKeeps
  <2> QED
    BY <1>2, <2>2, <2>3, <2>4 DEF JCTypeOK, Idle
<1>9. CASE JunkErased
  <2>1. /\ jc.phase = "erase" /\ UNCHANGED ilVars
        /\ jc' = [copy |-> jc.copy, i |-> jc.i + 1, phase |-> "loop"]
    BY <1>4, <1>9 DEF JunkErased
  <2>2. jc.i + 1 \in Nat /\ jc.i + 1 \in 1..(Len(jc.copy) + 1)
    BY <1>2, <1>3, <1>4, <2>1
  <2>3. JCTypeOK' /\ jc'.phase = "loop"
    BY <1>4, <2>1, <2>2 DEF JCTypeOK
  <2>4. Idle
    BY <1>2, <2>1
  <2> QED
    BY <2>1, <2>3, <2>4, ContainerUnchanged DEF LiftInv, ilVars, Idle
<1>10. CASE JunkCommit
  <2>1. /\ CommitDis(TRUE) /\ UNCHANGED <<obj, made, p_dis, dis>>
        /\ jc' = [copy |-> jc.copy, i |-> jc.i, phase |-> "commit"]
    BY <1>4, <1>10 DEF JunkCommit
  <2>2. ILInv' /\ cm'.stage = "strip"
    BY <2>1, CommitStarted
  <2>3. JCTypeOK' /\ jc'.phase = "commit"
    BY <1>3, <1>4, <2>1 DEF JCTypeOK
  <2> QED
    BY <2>1, <2>2, <2>3
<1>11. CASE JunkReturn
  <2>1. /\ Idle /\ UNCHANGED ilVars
        /\ jc' = [copy |-> jc.copy, i |-> jc.i, phase |-> "done"]
    BY <1>4, <1>11 DEF JunkReturn
  <2>2. JCTypeOK' /\ jc'.phase = "done"
    BY <1>3, <1>4, <2>1 DEF JCTypeOK
  <2> QED
    BY <2>1, <2>2, ContainerUnchanged DEF LiftInv, ilVars, Idle
<1> QED
  BY <1>1, <1>6, <1>7, <1>8, <1>9, <1>10, <1>11 DEF JunkWork

-----------------------------------------------------------------------------
(***************************************************************************)
(* The theorems.                                                           *)
(***************************************************************************)

(* A step that changes nothing.                                            *)
LEMMA LiftInvUnchanged == LiftInv /\ UNCHANGED liftVars => LiftInv'
<1> SUFFICES ASSUME LiftInv, UNCHANGED liftVars PROVE LiftInv'
  OBVIOUS
<1>1. UNCHANGED <<ilVars, jc, prog, code, pm, rm, lift>>
  BY DEF liftVars
<1>2. /\ ILInv' /\ IsFiniteSet(made)' /\ ProgramOK(prog)'
      /\ UNCHANGED <<obj, made, p_dis, dis, cm>>
  BY <1>1, ContainerKept
<1>3. LiftTypeOK'
  BY <1>1, <1>2, StateFacts, Typed DEF LiftInv, LiftTypeOK, JCTypeOK
<1>4. AsParsed'
  <2>1. \A n : Originals(p_dis, n) => Originals(p_dis, n)'
    BY <1>1, <1>2, OriginalsStay
  <2>2. /\ Originals(p_dis, lift.i - 1) => Originals(p_dis, lift.i - 1)'
        /\ Originals(p_dis, Len(prog)) => Originals(p_dis, Len(prog))'
    BY <1>1, <1>2, <2>1
  <2> QED
    BY <1>1, <1>2, <2>2 DEF LiftInv, AsParsed, Idle
<1>5. Targets'
  <2>1. Unset' = Unset
    BY <1>2 DEF Unset, IsJump
  <2> QED
    BY <1>1, <1>2, <2>1 DEF LiftInv, Targets
<1>6. NeverFails' /\ Waits' /\ NoNulls' /\ JunkLast'
  BY <1>1, <1>2 DEF LiftInv, NeverFails, Waits, NoNulls, JunkLast, Idle
<1>7. Queues'
  <2>1. Queues' = Queues
    BY <1>1, <1>2 DEF Queues
  <2> QED
    BY <2>1 DEF LiftInv
<1> QED
  BY <1>2, <1>3, <1>4, <1>5, <1>6, <1>7 DEF LiftInv

(* Every step of lifting keeps the invariant.                              *)
LEMMA LiftInvNext == ASSUME Unlimited PROVE LiftInv /\ [LiftNext]_liftVars => LiftInv'
<1> SUFFICES ASSUME LiftInv, [LiftNext]_liftVars PROVE LiftInv'
  OBVIOUS
<1>1. CASE UNCHANGED liftVars
  BY <1>1, LiftInvUnchanged
<1>2. CASE \/ ParseInstruction \/ ParseCompare \/ ResolveInstruction
  BY <1>2, ParseInstructionKeeps, ParseCompareKeeps, ResolveInstructionKeeps
<1>3. CASE \/ FirstCommitted \/ ComparesParsed \/ JumpsParsed
           \/ JumpOperandsResolved \/ InstructionsResolved
  BY <1>3, PhasesKeep
<1>4. CASE InstructionsParsed \/ ParseJump \/ ResolveJumpOperand
  BY <1>4, InstructionsParsedKeeps, ParseJumpKeeps, ResolveJumpOperandKeeps
<1>5. CASE ParseEdit \/ ResolveEdit \/ ParseEditsMade \/ ResolveEditsMade
  BY <1>5, EditKeeps, EditsMadeKeep
<1>6. CASE ParseCommitted \/ ResolveCommitted \/ LiftCommitStep
  BY <1>6, CommittedKeep, LiftCommitStepKeeps
<1>7. CASE JunkPass \/ LiftReturn
  BY <1>7, JunkPassKeeps, LiftReturnKeeps
<1> QED
  BY <1>1, <1>2, <1>3, <1>4, <1>5, <1>6, <1>7 DEF LiftNext

(* The invariant of lifting: at every step of every function's lifting the *)
(* container, the queues and the phases fit together.                      *)
THEOREM LiftInvariance == ASSUME Unlimited PROVE LiftSpec => []LiftInv
<1>1. LiftInit => LiftInv
  BY LiftInvInit
<1>2. LiftInv /\ [LiftNext]_liftVars => LiftInv'
  BY LiftInvNext
<1> QED
  BY <1>1, <1>2, PTL DEF LiftSpec

(* Everything keeps its type.                                              *)
THEOREM LiftTypes == ASSUME Unlimited PROVE LiftSpec => []LiftTypeOK
<1>1. LiftInv => LiftTypeOK
  BY DEF LiftInv
<1> QED
  BY <1>1, LiftInvariance, PTL

(* Lifting what the compiler emits never fails: visit_addr finds what the  *)
(* compares and jumps ask for, validate refuses no commit, resolve_jumps   *)
(* follows no null pointer.                                                *)
THEOREM LiftingNeverFails == ASSUME Unlimited PROVE LiftSpec => []NeverFails
<1>1. LiftInv => NeverFails
  BY DEF LiftInv
<1> QED
  BY <1>1, LiftInvariance, PTL
=============================================================================
