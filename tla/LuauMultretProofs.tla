------------------------- MODULE LuauMultretProofs -------------------------
(***************************************************************************)
(* The counts the Luau lifter recovers, for calls nested to any depth, of  *)
(* any number of values at any registers, as long as the functions called  *)
(* are loaded before their arguments, as those of CallsAhead are.          *)
(***************************************************************************)
EXTENDS LuauMultret, ListLemmas

(* f(...) and x.y:m(...).                                                  *)
CallsAhead == Calls \subseteq {"function", "method"}

Ops == {"LOP_GETIMPORT", "LOP_GETVARARGS", "LOP_CALL", "LOP_NAMECALL",
        "LOP_NEWTABLE", "LOP_RETURN", "LOP_SETLIST", "LOP_FASTCALL"}

(* The instructions of the bytecode.                                       *)
Ins == [op : Ops, a : Nat, src : Nat, b : Nat, c : Nat, n : 0..254]

(* The last instruction logged of the first k writes register r.           *)
TopIs(code, k, r) ==
  \E p \in 1..Len(code) : LastLogged(code, k, p) /\ AppendTop(code[p]) = r

(* The count of a call says how many arguments it has, or the instruction  *)
(* logged before it writes the last of them; so does a return's.           *)
FitsAt(code, i) ==
  LET x == code[i] IN
    /\ x.op = "LOP_CALL" =>
         IF x.b = 0 THEN TopIs(code, i - 1, x.a + x.n) ELSE x.b = x.n + 1
    /\ x.op = "LOP_RETURN" =>
         (x.b = 0 => TopIs(code, i - 1, x.a + x.n - 1))

Fits(code) == code \in Seq(Ins) /\ \A i \in 1..Len(code) : FitsAt(code, i)

(* What a value in register a is compiled to.                              *)
Writes(code, a) == Fits(code) /\ TopIs(code, Len(code), a)

-----------------------------------------------------------------------------
(***************************************************************************)
(* Concatenated code.                                                      *)
(***************************************************************************)

(* Where the instructions of two pieces of code are.                       *)
LEMMA JoinFacts ==
  ASSUME NEW u \in Seq(Ins), NEW v \in Seq(Ins)
  PROVE  /\ u \o v \in Seq(Ins) /\ Len(u \o v) = Len(u) + Len(v)
         /\ \A i \in 1..Len(u) : (u \o v)[i] = u[i]
         /\ \A i \in 1..Len(v) : (u \o v)[Len(u) + i] = v[i]
  OBVIOUS

(* Code behind does not change what was logged last.                       *)
LEMMA TopInFront ==
  ASSUME NEW u \in Seq(Ins), NEW v \in Seq(Ins), NEW k \in 0..Len(u),
         NEW r, TopIs(u, k, r)
  PROVE  TopIs(u \o v, k, r)
<1>1. PICK p \in 1..Len(u) : LastLogged(u, k, p) /\ AppendTop(u[p]) = r
  BY DEF TopIs
<1>2. /\ Len(u) \in Nat /\ Len(v) \in Nat
      /\ Len(u \o v) = Len(u) + Len(v)
      /\ \A i \in 1..Len(u) : (u \o v)[i] = u[i]
  BY JoinFacts
<1>3. LastLogged(u \o v, k, p)
  <2>1. p \in 1..k /\ Logged(u[p]) /\ \A q \in (p + 1)..k : ~Logged(u[q])
    BY <1>1 DEF LastLogged
  <2>2. \A q \in (p + 1)..k : (u \o v)[q] = u[q]
    BY <1>2
  <2> QED
    BY <1>2, <2>1, <2>2 DEF LastLogged
<1> QED
  BY <1>1, <1>2, <1>3 DEF TopIs

(* Nor does code in front, if something is logged behind it.               *)
LEMMA TopBehind ==
  ASSUME NEW u \in Seq(Ins), NEW v \in Seq(Ins), NEW k \in 0..Len(v),
         NEW r, TopIs(v, k, r)
  PROVE  TopIs(u \o v, Len(u) + k, r)
<1>1. PICK p \in 1..Len(v) : LastLogged(v, k, p) /\ AppendTop(v[p]) = r
  BY DEF TopIs
<1>2. /\ Len(u) \in Nat /\ Len(v) \in Nat
      /\ Len(u \o v) = Len(u) + Len(v)
      /\ \A i \in 1..Len(v) : (u \o v)[Len(u) + i] = v[i]
  BY JoinFacts
<1>3. LastLogged(u \o v, Len(u) + k, Len(u) + p)
  <2>1. p \in 1..k /\ Logged(v[p]) /\ \A q \in (p + 1)..k : ~Logged(v[q])
    BY <1>1 DEF LastLogged
  <2>2. ASSUME NEW q \in (Len(u) + p + 1)..(Len(u) + k)
        PROVE  ~Logged((u \o v)[q])
    <3>1. q - Len(u) \in (p + 1)..k /\ q - Len(u) \in 1..Len(v)
          /\ q = Len(u) + (q - Len(u))
      BY <1>2
    <3> QED
      BY <1>2, <2>1, <3>1
  <2> QED
    BY <1>2, <2>1, <2>2 DEF LastLogged
<1>4. Len(u) + p \in 1..Len(u \o v)
  BY <1>2
<1> QED
  BY <1>1, <1>2, <1>3, <1>4 DEF TopIs

(* An instruction that is logged is the last one.                          *)
LEMMA TopLast ==
  ASSUME NEW u \in Seq(Ins), NEW x \in Ins, Logged(x)
  PROVE  TopIs(u \o <<x>>, Len(u) + 1, AppendTop(x))
<1>1. <<x>> \in Seq(Ins) /\ Len(<<x>>) = 1 /\ <<x>>[1] = x
  OBVIOUS
<1>2. /\ Len(u) \in Nat /\ Len(u \o <<x>>) = Len(u) + 1
      /\ (u \o <<x>>)[Len(u) + 1] = x
  BY <1>1, JoinFacts
<1>3. LastLogged(u \o <<x>>, Len(u) + 1, Len(u) + 1)
  BY <1>2 DEF LastLogged
<1> QED
  BY <1>2, <1>3 DEF TopIs

(* One that is not changes nothing.                                        *)
LEMMA TopSkips ==
  ASSUME NEW u \in Seq(Ins), NEW x \in Ins, ~Logged(x),
         NEW r, TopIs(u, Len(u), r)
  PROVE  TopIs(u \o <<x>>, Len(u) + 1, r)
<1>1. <<x>> \in Seq(Ins) /\ Len(<<x>>) = 1 /\ <<x>>[1] = x
  OBVIOUS
<1>2. /\ Len(u) \in Nat /\ Len(u \o <<x>>) = Len(u) + 1
      /\ (u \o <<x>>)[Len(u) + 1] = x
      /\ \A i \in 1..Len(u) : (u \o <<x>>)[i] = u[i]
  BY <1>1, JoinFacts
<1>3. PICK p \in 1..Len(u) : LastLogged(u, Len(u), p) /\ AppendTop(u[p]) = r
  BY DEF TopIs
<1>4. LastLogged(u \o <<x>>, Len(u) + 1, p)
  <2>1. Logged(u[p]) /\ \A q \in (p + 1)..Len(u) : ~Logged(u[q])
    BY <1>3 DEF LastLogged
  <2>2. ASSUME NEW q \in (p + 1)..(Len(u) + 1)
        PROVE  ~Logged((u \o <<x>>)[q])
    <3>1. CASE q = Len(u) + 1
      BY <1>2, <3>1
    <3>2. CASE q # Len(u) + 1
      <4>1. q \in (p + 1)..Len(u) /\ q \in 1..Len(u)
        BY <1>2, <3>2
      <4> QED
        BY <1>2, <2>1, <4>1
    <3> QED
      BY <3>1, <3>2
  <2> QED
    BY <1>2, <2>1, <2>2 DEF LastLogged
<1> QED
  BY <1>2, <1>3, <1>4 DEF TopIs

-----------------------------------------------------------------------------
(* Counts that fit do so in longer code.                                   *)
LEMMA JoinFits ==
  ASSUME NEW u, NEW v, Fits(u), Fits(v)
  PROVE  Fits(u \o v)
<1>1. u \in Seq(Ins) /\ v \in Seq(Ins)
  BY DEF Fits
<1>2. /\ Len(u) \in Nat /\ Len(v) \in Nat
      /\ u \o v \in Seq(Ins) /\ Len(u \o v) = Len(u) + Len(v)
      /\ \A i \in 1..Len(u) : (u \o v)[i] = u[i]
      /\ \A i \in 1..Len(v) : (u \o v)[Len(u) + i] = v[i]
  BY <1>1, JoinFacts
<1>3. ASSUME NEW i \in 1..Len(u)
      PROVE  FitsAt(u \o v, i)
  <2>1. FitsAt(u, i) /\ (u \o v)[i] = u[i] /\ i - 1 \in 0..Len(u)
    BY <1>2 DEF Fits
  <2>2. \A r : TopIs(u, i - 1, r) => TopIs(u \o v, i - 1, r)
    BY <1>1, <2>1, TopInFront
  <2> QED
    BY <2>1, <2>2 DEF FitsAt
<1>4. ASSUME NEW i \in 1..Len(v)
      PROVE  FitsAt(u \o v, Len(u) + i)
  <2>1. /\ FitsAt(v, i) /\ (u \o v)[Len(u) + i] = v[i]
        /\ i - 1 \in 0..Len(v) /\ Len(u) + (i - 1) = Len(u) + i - 1
    BY <1>2 DEF Fits
  <2>2. \A r : TopIs(v, i - 1, r) => TopIs(u \o v, Len(u) + (i - 1), r)
    BY <1>1, <2>1, TopBehind
  <2>3. \A r : TopIs(v, i - 1, r) => TopIs(u \o v, Len(u) + i - 1, r)
    BY <2>1, <2>2
  <2> QED
    BY <2>1, <2>3 DEF FitsAt
<1>5. ASSUME NEW i \in 1..Len(u \o v)
      PROVE  FitsAt(u \o v, i)
  <2>1. CASE i \in 1..Len(u)
    BY <1>3, <2>1
  <2>2. CASE i \notin 1..Len(u)
    <3>1. i - Len(u) \in 1..Len(v) /\ Len(u) + (i - Len(u)) = i
      BY <1>2, <2>2
    <3>2. FitsAt(u \o v, Len(u) + (i - Len(u)))
      BY <1>4, <3>1
    <3> QED
      BY <3>1, <3>2
  <2> QED
    BY <2>1, <2>2
<1> QED
  BY <1>2, <1>5 DEF Fits

(* What the instruction behind code needs of it.                           *)
Follow(code, x) ==
  /\ x.op = "LOP_CALL" =>
       IF x.b = 0 THEN TopIs(code, Len(code), x.a + x.n) ELSE x.b = x.n + 1
  /\ x.op = "LOP_RETURN" =>
       (x.b = 0 => TopIs(code, Len(code), x.a + x.n - 1))

(* Counts fit in code with one more instruction.                           *)
LEMMA AppendFits ==
  ASSUME NEW u, Fits(u), NEW x \in Ins, Follow(u, x)
  PROVE  Fits(u \o <<x>>)
<1>1. u \in Seq(Ins) /\ <<x>> \in Seq(Ins) /\ Len(<<x>>) = 1 /\ <<x>>[1] = x
  BY DEF Fits
<1>2. /\ Len(u) \in Nat
      /\ u \o <<x>> \in Seq(Ins) /\ Len(u \o <<x>>) = Len(u) + 1
      /\ \A i \in 1..Len(u) : (u \o <<x>>)[i] = u[i]
      /\ (u \o <<x>>)[Len(u) + 1] = x
  BY <1>1, JoinFacts
<1>3. ASSUME NEW i \in 1..Len(u)
      PROVE  FitsAt(u \o <<x>>, i)
  <2>1. FitsAt(u, i) /\ (u \o <<x>>)[i] = u[i] /\ i - 1 \in 0..Len(u)
    BY <1>2 DEF Fits
  <2>2. \A r : TopIs(u, i - 1, r) => TopIs(u \o <<x>>, i - 1, r)
    BY <1>1, <2>1, TopInFront
  <2> QED
    BY <2>1, <2>2 DEF FitsAt
<1>4. FitsAt(u \o <<x>>, Len(u) + 1)
  <2>1. Len(u) + 1 - 1 = Len(u) /\ Len(u) \in 0..Len(u)
    BY <1>2
  <2>2. \A r : TopIs(u, Len(u), r) => TopIs(u \o <<x>>, Len(u), r)
    BY <1>1, <2>1, TopInFront
  <2> QED
    BY <1>2, <2>1, <2>2 DEF FitsAt, Follow
<1>5. \A i \in 1..(Len(u) + 1) : i \in 1..Len(u) \/ i = Len(u) + 1
  BY <1>2
<1> QED
  BY <1>2, <1>3, <1>4, <1>5 DEF Fits

(* An instruction without a count behind code.                             *)
LEMMA PlainFits ==
  ASSUME NEW u, Fits(u), NEW x \in Ins, x.op \notin {"LOP_CALL", "LOP_RETURN"}
  PROVE  Fits(u \o <<x>>)
  BY AppendFits DEF Follow

(* No code.                                                                *)
LEMMA NothingFits == Fits(<< >>)
  BY DEF Fits

(* A single instruction without a count.                                   *)
LEMMA SingleFits ==
  ASSUME NEW x \in Ins, x.op \notin {"LOP_CALL", "LOP_RETURN"}
  PROVE  /\ Fits(<<x>>)
         /\ Logged(x) => Writes(<<x>>, AppendTop(x))
<1>1. << >> \o <<x>> = <<x>> /\ << >> \in Seq(Ins) /\ Len(<< >>) = 0 /\ Len(<<x>>) = 1
  OBVIOUS
<1>2. Fits(<<x>>)
  BY <1>1, NothingFits, PlainFits
<1>3. ASSUME Logged(x)
      PROVE  TopIs(<<x>>, 1, AppendTop(x))
  <2>1. TopIs(<< >> \o <<x>>, Len(<< >>) + 1, AppendTop(x))
    BY <1>1, <1>3, TopLast
  <2> QED
    BY <1>1, <2>1
<1> QED
  BY <1>1, <1>2, <1>3 DEF Writes

-----------------------------------------------------------------------------
(***************************************************************************)
(* The values of the compiler.                                             *)
(***************************************************************************)

(* A list is a sequence.                                                   *)
LEMMA ListFacts ==
  ASSUME NEW S, NEW list \in Lists(S)
  PROVE  list \in Seq(S) /\ Len(list) \in 0..253 /\ Len(list) <= MaxValues
<1>1. PICK n \in 0..MaxValues : list \in [1..n -> S]
  BY DEF Lists
<1>2. MaxValues \in 0..253
  BY MultretAssumption DEF MultretAssumption
<1>3. n \in Nat /\ n <= MaxValues /\ n \in 0..253
  BY <1>2
<1>4. list \in Seq(S) /\ Len(list) = n
  BY <1>1, <1>3
<1> QED
  BY <1>3, <1>4

(* Nested[n] is defined up to m.                                           *)
NestsTo(f, m) ==
  f = [n \in 0..m |-> IF n = 0 THEN Simple ELSE Simple \union CallsOf(f[n - 1])]

(* The values nested n deep, by those nested less deep.                    *)
LEMMA NestedIs ==
  \A n \in 0..Depth :
    Nested[n] = IF n = 0 THEN Simple ELSE Simple \union CallsOf(Nested[n - 1])
<1> DEFINE P == {m \in Nat : \E f : NestsTo(f, m)}
<1>1. 0 \in P
  <2> DEFINE f == [n \in 0..0 |-> Simple]
  <2>1. NestsTo(f, 0)
    BY DEF NestsTo
  <2> QED
    BY <2>1
<1>2. ASSUME NEW m \in Nat, m \in P
      PROVE  m + 1 \in P
  <2>1. PICK f : NestsTo(f, m)
    BY <1>2
  <2> DEFINE g == [n \in 0..(m + 1) |->
                     IF n <= m THEN f[n] ELSE Simple \union CallsOf(f[m])]
             G(n) == IF n = 0 THEN Simple ELSE Simple \union CallsOf(g[n - 1])
  <2>2. \A n \in 0..m : g[n] = f[n]
    OBVIOUS
  <2>3. ASSUME NEW n \in 0..(m + 1)
        PROVE  g[n] = G(n)
    <3>1. CASE n <= m
      <4>1. n \in 0..m /\ (n # 0 => n - 1 \in 0..m)
        BY <3>1
      <4>2. f[n] = IF n = 0 THEN Simple ELSE Simple \union CallsOf(f[n - 1])
        BY <2>1, <4>1 DEF NestsTo
      <4>3. g[n] = f[n] /\ (n # 0 => g[n - 1] = f[n - 1])
        BY <2>2, <4>1
      <4> HIDE DEF g
      <4> QED
        BY <4>2, <4>3
    <3>2. CASE ~(n <= m)
      <4>1. n = m + 1 /\ n # 0 /\ n - 1 = m /\ m \in 0..m
        BY <3>2
      <4>2. g[n] = Simple \union CallsOf(f[m]) /\ g[m] = f[m]
        BY <2>2, <3>2, <4>1
      <4> HIDE DEF g
      <4> QED
        BY <4>1, <4>2
    <3> QED
      BY <3>1, <3>2
  <2>4. g = [n \in 0..(m + 1) |-> g[n]]
    OBVIOUS
  <2> HIDE DEF g
  <2>5. g = [n \in 0..(m + 1) |-> G(n)]
    BY <2>3, <2>4
  <2>6. NestsTo(g, m + 1)
    BY <2>5 DEF NestsTo
  <2> QED
    BY <2>6
<1> HIDE DEF P
<1>3. Depth \in Nat /\ Depth \in P
  BY <1>1, <1>2, Induction, MultretAssumption DEF MultretAssumption
<1>4. \E f : NestsTo(f, Depth)
  BY <1>3 DEF P
<1>5. NestsTo(Nested, Depth)
  BY <1>4 DEF Nested, NestsTo
<1> QED
  BY <1>5 DEF NestsTo

(* Calls are at least nested once.                                         *)
LEMMA NestedFacts ==
  /\ Nested[0] = Simple
  /\ \A n \in 0..Depth :
       \A e \in Nested[n] :
         \/ e \in Simple
         \/ n # 0 /\ n - 1 \in 0..Depth /\ e \in CallsOf(Nested[n - 1])
<1>1. Depth \in Nat /\ 0 \in 0..Depth
  BY MultretAssumption DEF MultretAssumption
<1>2. Nested[0] = Simple
  BY <1>1, NestedIs
<1>3. ASSUME NEW n \in 0..Depth, NEW e \in Nested[n]
      PROVE  \/ e \in Simple
             \/ n # 0 /\ n - 1 \in 0..Depth /\ e \in CallsOf(Nested[n - 1])
  <2>1. CASE n = 0
    BY <1>2, <2>1
  <2>2. CASE n # 0
    <3>1. Nested[n] = Simple \union CallsOf(Nested[n - 1])
      BY <2>2, NestedIs
    <3>2. n - 1 \in 0..Depth
      BY <1>1, <2>2
    <3> QED
      BY <2>2, <3>1, <3>2
  <2> QED
    BY <2>1, <2>2
<1> QED
  BY <1>2, <1>3

(* The kind of a value tells a call from the others.                       *)
LEMMA KindFacts ==
  /\ \A e \in Simple : e.kind \in {"value", "varargs"}
  /\ \A S : \A e \in CallsOf(S) :
       /\ e.kind \in Calls /\ e.args \in Lists(S)
       /\ e.kind \notin {"value", "varargs"}
<1>1. \A e \in Simple : e.kind \in {"value", "varargs"}
  BY DEF Simple
<1>2. ASSUME NEW S, NEW e \in CallsOf(S)
      PROVE  /\ e.kind \in Calls /\ e.args \in Lists(S)
             /\ e.kind \notin {"value", "varargs"}
  <2>1. e.kind \in Calls /\ e.args \in Lists(S)
    BY DEF CallsOf
  <2>2. Calls \subseteq CallKinds
    BY MultretAssumption DEF MultretAssumption
  <2> QED
    BY <2>1, <2>2 DEF CallKinds
<1> QED
  BY <1>1, <1>2

(* What values nested n deep are compiled to, given those less deep.       *)
Layer(n, code) ==
  [e \in Nested[n] |-> [open \in BOOLEAN |-> [a \in Nat |->
     CompileExpr(code, e, open, a)]]]

(* Plain values need no others.                                            *)
LEMMA PlainLayer == \A x, y : Layer(0, x) = Layer(0, y)
<1> SUFFICES ASSUME NEW x, NEW y
             PROVE  Layer(0, x) = Layer(0, y)
  OBVIOUS
<1>1. ASSUME NEW e \in Nested[0], NEW open \in BOOLEAN, NEW a \in Nat
      PROVE  CompileExpr(x, e, open, a) = CompileExpr(y, e, open, a)
  <2>1. e.kind = "value" \/ e.kind = "varargs"
    BY NestedFacts, KindFacts
  <2> QED
    BY <2>1 DEF CompileExpr
<1> QED
  BY <1>1, Zenon DEF Layer

(* Compile[n] is defined up to m.                                          *)
CompilesTo(f, m) == f = [n \in 0..m |-> Layer(n, f[n - 1])]

(* What values are compiled to, by those nested less deep.                 *)
LEMMA CompileIs ==
  \A n \in 0..Depth : Compile[n] = Layer(n, Compile[n - 1])
<1> DEFINE P == {m \in Nat : \E f : CompilesTo(f, m)}
<1>1. 0 \in P
  <2> DEFINE f == [n \in 0..0 |-> Layer(0, << >>)]
  <2>1. ASSUME NEW n \in 0..0
        PROVE  f[n] = Layer(n, f[n - 1])
    <3>1. n = 0
      OBVIOUS
    <3>2. f[0] = Layer(0, << >>)
      OBVIOUS
    <3> HIDE DEF f
    <3> QED
      BY <3>1, <3>2, PlainLayer
  <2>2. f = [n \in 0..0 |-> f[n]]
    OBVIOUS
  <2> HIDE DEF f
  <2>3. CompilesTo(f, 0)
    BY <2>1, <2>2 DEF CompilesTo
  <2> QED
    BY <2>3
<1>2. ASSUME NEW m \in Nat, m \in P
      PROVE  m + 1 \in P
  <2>1. PICK f : CompilesTo(f, m)
    BY <1>2
  <2> DEFINE g == [n \in 0..(m + 1) |-> IF n <= m THEN f[n] ELSE Layer(n, f[m])]
  <2>2. \A n \in 0..m : g[n] = f[n]
    OBVIOUS
  <2>3. ASSUME NEW n \in 0..(m + 1)
        PROVE  g[n] = Layer(n, g[n - 1])
    <3>1. CASE n = 0
      <4>1. 0 \in 0..m /\ f[0] = Layer(0, f[0 - 1])
        BY <2>1 DEF CompilesTo
      <4>2. g[0] = f[0]
        BY <2>2, <4>1
      <4> HIDE DEF g
      <4> QED
        BY <3>1, <4>1, <4>2, PlainLayer
    <3>2. CASE n # 0 /\ n <= m
      <4>1. n \in 0..m /\ n - 1 \in 0..m
        BY <3>2
      <4>2. f[n] = Layer(n, f[n - 1])
        BY <2>1, <4>1 DEF CompilesTo
      <4>3. g[n] = f[n] /\ g[n - 1] = f[n - 1]
        BY <2>2, <4>1
      <4> HIDE DEF g
      <4> QED
        BY <4>2, <4>3
    <3>3. CASE ~(n <= m)
      <4>1. n = m + 1 /\ n - 1 = m /\ m \in 0..m
        BY <3>3
      <4>2. g[n] = Layer(n, f[m]) /\ g[m] = f[m]
        BY <2>2, <3>3, <4>1
      <4> HIDE DEF g
      <4> QED
        BY <4>1, <4>2
    <3> QED
      BY <3>1, <3>2, <3>3
  <2>4. g = [n \in 0..(m + 1) |-> g[n]]
    OBVIOUS
  <2> HIDE DEF g
  <2>5. CompilesTo(g, m + 1)
    BY <2>3, <2>4 DEF CompilesTo
  <2> QED
    BY <2>5
<1> HIDE DEF P
<1>3. Depth \in Nat /\ Depth \in P
  BY <1>1, <1>2, Induction, MultretAssumption DEF MultretAssumption
<1>4. \E f : CompilesTo(f, Depth)
  BY <1>3 DEF P
<1>5. CompilesTo(Compile, Depth)
  BY <1>4, Zenon DEF Compile, CompilesTo, Layer
<1> QED
  BY <1>5 DEF CompilesTo

-----------------------------------------------------------------------------
(***************************************************************************)
(* What is compiled fits.                                                  *)
(***************************************************************************)

(* Each value is compiled to code that writes its register last.           *)
AllWrite(code, S) ==
  \A e \in S : \A open \in BOOLEAN : \A a \in Nat : Writes(code[e][open][a], a)

(* Loads write their register.                                             *)
LEMMA LoadFacts ==
  ASSUME NEW a \in Nat
  PROVE  Load(a) \in Ins /\ Writes(<<Load(a)>>, a)
<1>1. /\ Load(a) \in Ins /\ Load(a).op = "LOP_GETIMPORT" /\ Load(a).a = a
  BY DEF Load, Instruction, Ins, Ops
<1>2. Logged(Load(a)) /\ AppendTop(Load(a)) = a
  BY <1>1 DEF Logged, AppendTop
<1> QED
  BY <1>1, <1>2, SingleFits

(* A list ends where its last value is written.                            *)
LEMMA ListWrites ==
  ASSUME NEW S, NEW code, AllWrite(code, S), NEW list \in Lists(S), NEW a \in Nat
  PROVE  /\ Fits(CompileList(code, list, a))
         /\ list # << >> => Writes(CompileList(code, list, a), a + Len(list) - 1)
<1> DEFINE s == [i \in 1..Len(list) |->
                  code[list[i]][i = Len(list)][a + i - 1]]
<1>1. list \in Seq(S) /\ Len(list) \in Nat
  BY ListFacts
<1>2. ASSUME NEW i \in 1..Len(list)
      PROVE  Writes(s[i], a + i - 1)
  <2>1. list[i] \in S /\ a + i - 1 \in Nat
    BY <1>1
  <2>2. (i = Len(list)) \in BOOLEAN
    OBVIOUS
  <2>3. Writes(code[list[i]][i = Len(list)][a + i - 1], a + i - 1)
    BY <2>1, <2>2, Zenon DEF AllWrite
  <2> QED
    BY <2>3
<1>3. s \in Seq(Seq(Ins)) /\ Len(s) = Len(list)
  <2>1. \A i \in 1..Len(list) : s[i] \in Seq(Ins)
    BY <1>2 DEF Writes, Fits
  <2>2. s = [i \in 1..Len(list) |-> s[i]]
    OBVIOUS
  <2> HIDE DEF s
  <2>3. s \in [1..Len(list) -> Seq(Ins)]
    BY <2>1, <2>2
  <2> QED
    BY <1>1, <2>3
<1>4. CompileList(code, list, a) = UpTo(s, Len(s))
  <2>1. s = [i \in 1..Len(list) |-> s[i]]
    OBVIOUS
  <2>2. CompileList(code, list, a) = FlattenSeq(s)
    BY DEF CompileList
  <2> HIDE DEF s
  <2> QED
    BY <1>3, <2>1, <2>2 DEF UpTo
<1> HIDE DEF s
<1> DEFINE P == {j \in Nat : j <= Len(s) =>
                   /\ Fits(UpTo(s, j))
                   /\ j # 0 => Writes(UpTo(s, j), a + j - 1)}
<1>5. 0 \in P
  BY <1>3, UpToFacts, NothingFits
<1>6. ASSUME NEW j \in Nat, j \in P
      PROVE  j + 1 \in P
  <2> SUFFICES ASSUME j + 1 <= Len(s)
               PROVE  /\ Fits(UpTo(s, j + 1))
                      /\ Writes(UpTo(s, j + 1), a + (j + 1) - 1)
    OBVIOUS
  <2>1. j + 1 \in 1..Len(s) /\ j \in 0..Len(s) /\ j <= Len(s) /\ (j + 1) - 1 = j
    BY <1>1, <1>3
  <2>2. /\ UpTo(s, j + 1) = UpTo(s, j) \o s[j + 1]
        /\ UpTo(s, j) \in Seq(Ins) /\ s[j + 1] \in Seq(Ins)
    BY <1>3, <2>1, UpToFacts
  <2>3. Fits(UpTo(s, j)) /\ Writes(s[j + 1], a + (j + 1) - 1)
    BY <1>2, <1>3, <1>6, <2>1
  <2>4. Fits(UpTo(s, j + 1))
    BY <2>2, <2>3, JoinFits DEF Writes
  <2>5. Len(s[j + 1]) \in 0..Len(s[j + 1])
    BY <2>2
  <2>6. TopIs(UpTo(s, j) \o s[j + 1], Len(UpTo(s, j)) + Len(s[j + 1]),
              a + (j + 1) - 1)
    BY <2>2, <2>3, <2>5, TopBehind DEF Writes
  <2>7. Len(UpTo(s, j) \o s[j + 1]) = Len(UpTo(s, j)) + Len(s[j + 1])
    BY <2>2, JoinFacts
  <2> QED
    BY <2>2, <2>4, <2>6, <2>7 DEF Writes
<1> HIDE DEF P
<1>7. Len(list) \in P
  BY <1>1, <1>5, <1>6, Induction
<1>8. /\ Fits(UpTo(s, Len(s)))
      /\ Len(list) # 0 => Writes(UpTo(s, Len(s)), a + Len(list) - 1)
  BY <1>1, <1>3, <1>7 DEF P
<1>9. list # << >> => Len(list) # 0
  BY <1>1
<1> QED
  BY <1>4, <1>8, <1>9

(* The count of a list is open only if the list is not empty.              *)
LEMMA CountFacts ==
  ASSUME NEW S, NEW list \in Lists(S), NEW self \in 0..1
  PROVE  /\ Count(list, self) \in Nat
         /\ Count(list, self) = 0 => list # << >>
         /\ Count(list, self) # 0 => Count(list, self) = Len(list) + self + 1
<1>1. Len(list) \in Nat
  BY ListFacts
<1> QED
  BY <1>1 DEF Count, Open

(* The code of a call in front of the call itself.                         *)
Called(u, a, x) == Fits(u) /\ x \in Ins /\ x.op = "LOP_CALL" /\ x.a = a /\ Follow(u, x)

(* A call writes its own register last.                                    *)
LEMMA CalledWrites ==
  ASSUME NEW u, NEW a \in Nat, NEW x, Called(u, a, x)
  PROVE  Writes(u \o <<x>>, a)
<1>1. Fits(u \o <<x>>) /\ u \in Seq(Ins)
  BY AppendFits DEF Called, Fits
<1>2. Logged(x) /\ AppendTop(x) = a
  BY DEF Called, Logged, AppendTop
<1>3. Len(u \o <<x>>) = Len(u) + 1
  BY <1>1
<1>4. TopIs(u \o <<x>>, Len(u) + 1, a)
  BY <1>1, <1>2, TopLast DEF Called
<1> QED
  BY <1>1, <1>3, <1>4 DEF Writes

(* Code behind other code writes the same register last.                   *)
LEMMA WritesBehind ==
  ASSUME NEW u, NEW v, NEW r, Fits(u), Writes(v, r)
  PROVE  Writes(u \o v, r)
<1>1. u \in Seq(Ins) /\ v \in Seq(Ins) /\ Len(v) \in 0..Len(v)
  BY DEF Writes, Fits
<1>2. Fits(u \o v)
  BY JoinFits DEF Writes
<1>3. TopIs(u \o v, Len(u) + Len(v), r) /\ Len(u \o v) = Len(u) + Len(v)
  BY <1>1, TopBehind, JoinFacts DEF Writes
<1> QED
  BY <1>2, <1>3 DEF Writes

(* Two instructions, one after the other.                                  *)
LEMMA TwoBehind ==
  ASSUME NEW u \in Seq(Ins), NEW x \in Ins, NEW y \in Ins
  PROVE  u \o <<x, y>> = (u \o <<x>>) \o <<y>>
<1> DEFINE v == u \o <<x>>
           w == v \o <<y>>
           z == u \o <<x, y>>
<1>1. /\ <<x>> \in Seq(Ins) /\ <<y>> \in Seq(Ins) /\ <<x, y>> \in Seq(Ins)
      /\ Len(<<x>>) = 1 /\ <<x>>[1] = x /\ Len(<<y>>) = 1 /\ <<y>>[1] = y
      /\ Len(<<x, y>>) = 2 /\ <<x, y>>[1] = x /\ <<x, y>>[2] = y
      /\ Len(u) \in Nat
  OBVIOUS
<1>2. /\ v \in Seq(Ins) /\ Len(v) = Len(u) + 1
      /\ \A i \in 1..Len(u) : v[i] = u[i]
      /\ v[Len(u) + 1] = x
  BY <1>1, JoinFacts
<1> HIDE DEF v
<1>3. /\ w \in Seq(Ins) /\ Len(w) = Len(v) + 1
      /\ \A i \in 1..Len(v) : w[i] = v[i]
      /\ w[Len(v) + 1] = y
  BY <1>1, <1>2, JoinFacts
<1>4. /\ z \in Seq(Ins) /\ Len(z) = Len(u) + 2
      /\ \A i \in 1..Len(u) : z[i] = u[i]
      /\ z[Len(u) + 1] = x /\ z[Len(u) + 2] = y
  BY <1>1, JoinFacts
<1> HIDE DEF w, z
<1>5. Len(w) = Len(z) /\ \A i \in 1..Len(w) : w[i] = z[i]
  BY <1>1, <1>2, <1>3, <1>4
<1>6. w = z
  BY <1>3, <1>4, <1>5
<1> QED
  BY <1>6 DEF w, z, v

(* The compiled call: the function, the arguments and LOP_CALL.            *)
LEMMA CallWrites ==
  ASSUME CallsAhead,
         NEW S, NEW code, AllWrite(code, S), NEW e \in CallsOf(S), NEW a \in Nat,
         NEW results \in 0..2
  PROVE  Writes(CompileCall(code, e, a, results), a)
<1> DEFINE self == IF e.kind = "method" THEN 1 ELSE 0
           args == CompileList(code, e.args, a + 1 + self)
           u == <<Load(a)>> \o args
           call == Instruction("LOP_CALL", a, 0, Count(e.args, self), results,
                               Len(e.args) + self)
           namecall == Instruction("LOP_NAMECALL", a, a, 1, 1, 0)
<1>1. /\ e.kind \in {"function", "method"} /\ e.args \in Lists(S)
      /\ self \in 0..1 /\ Len(e.args) \in 0..253 /\ e.args \in Seq(S)
      /\ a + 1 + self \in Nat
  <2>1. e.kind \in {"function", "method"} /\ e.args \in Lists(S)
    BY KindFacts DEF CallsAhead
  <2>2. Len(e.args) \in 0..253 /\ e.args \in Seq(S)
    BY <2>1, ListFacts
  <2>3. self \in 0..1 /\ a + 1 + self \in Nat
    OBVIOUS
  <2> QED
    BY <2>1, <2>2, <2>3
<1>2. /\ CompileCall(code, e, a, results) =
             IF e.kind = "function" THEN u \o <<call>> ELSE u \o <<namecall, call>>
  <2>1. CASE e.kind = "function"
    BY <2>1 DEF CompileCall
  <2>2. CASE e.kind = "method"
    BY <2>2 DEF CompileCall
  <2> QED
    BY <1>1, <2>1, <2>2
<1>3. /\ call \in Ins /\ call.op = "LOP_CALL" /\ call.a = a
      /\ call.b = Count(e.args, self) /\ call.n = Len(e.args) + self
  <2> HIDE DEF self
  <2>1. Count(e.args, self) \in Nat
    BY <1>1, CountFacts
  <2>2. Len(e.args) + self \in 0..254
    <3>1. \A x \in 0..253 : \A y \in 0..1 : x + y \in 0..254
      OBVIOUS
    <3>2. Len(e.args) \in 0..253 /\ self \in 0..1
      BY <1>1
    <3> QED
      BY <3>1, <3>2
  <2> QED
    BY <2>1, <2>2 DEF Instruction, Ins, Ops
<1>4. /\ namecall \in Ins /\ namecall.op = "LOP_NAMECALL"
      /\ namecall.a = namecall.src
  BY DEF Instruction, Ins, Ops
<1>5. /\ Count(e.args, self) = 0 => e.args # << >>
      /\ Count(e.args, self) # 0 => Count(e.args, self) = Len(e.args) + self + 1
  BY <1>1, CountFacts
<1>6. /\ Fits(args)
      /\ e.args # << >> => Writes(args, (a + 1 + self) + Len(e.args) - 1)
  BY <1>1, ListWrites
<1> HIDE DEF call, namecall, self, args
<1>7. u \in Seq(Ins) /\ Fits(u) /\ Len(u) \in Nat
  <2>1. Fits(<<Load(a)>>)
    BY LoadFacts DEF Writes
  <2>2. Fits(u)
    BY <1>6, <2>1, JoinFits
  <2> QED
    BY <2>2 DEF Fits
<1>8. e.args # << >> => TopIs(u, Len(u), a + (Len(e.args) + self))
  <2>1. \A x, y \in Nat : (a + 1 + x) + y - 1 = a + (y + x)
    OBVIOUS
  <2>2. self \in Nat /\ Len(e.args) \in Nat
    BY <1>1
  <2>3. (a + 1 + self) + Len(e.args) - 1 = a + (Len(e.args) + self)
    BY <2>1, <2>2
  <2>4. Fits(<<Load(a)>>)
    BY LoadFacts DEF Writes
  <2>5. e.args # << >> => Writes(u, (a + 1 + self) + Len(e.args) - 1)
    BY <1>6, <2>4, WritesBehind
  <2> QED
    BY <2>3, <2>5 DEF Writes
<1> HIDE DEF u
<1>9. CASE e.kind = "function"
  <2>1. Follow(u, call)
    BY <1>3, <1>5, <1>8 DEF Follow
  <2>2. Called(u, a, call)
    BY <1>3, <1>7, <2>1 DEF Called
  <2> QED
    BY <1>2, <1>9, <2>2, CalledWrites
<1>10. CASE e.kind = "method"
  <2>1. Fits(u \o <<namecall>>)
    BY <1>4, <1>7, PlainFits
  <2>2. Len(u \o <<namecall>>) = Len(u) + 1
    BY <1>7
  <2>3. ~Logged(namecall)
    BY <1>4 DEF Logged
  <2>4. \A r : TopIs(u, Len(u), r) =>
               TopIs(u \o <<namecall>>, Len(u \o <<namecall>>), r)
    BY <1>4, <1>7, <2>2, <2>3, TopSkips
  <2>5. Follow(u \o <<namecall>>, call)
    BY <1>3, <1>5, <1>8, <2>4 DEF Follow
  <2>6. Called(u \o <<namecall>>, a, call)
    BY <1>3, <2>1, <2>5 DEF Called
  <2>7. u \o <<namecall, call>> = (u \o <<namecall>>) \o <<call>>
    BY <1>3, <1>4, <1>7, TwoBehind
  <2> QED
    BY <1>2, <1>10, <2>6, <2>7, CalledWrites
<1> QED
  BY <1>1, <1>9, <1>10

(* A value nested n deep, if those less deep are.                          *)
LEMMA LayerWrites ==
  ASSUME CallsAhead, NEW n \in 0..Depth, NEW code,
         n # 0 => AllWrite(code, Nested[n - 1])
  PROVE  AllWrite(Layer(n, code), Nested[n])
<1> SUFFICES ASSUME NEW e \in Nested[n], NEW open \in BOOLEAN, NEW a \in Nat
             PROVE  Writes(CompileExpr(code, e, open, a), a)
  BY Zenon DEF AllWrite, Layer
<1> DEFINE results == IF open THEN 0 ELSE 2
<1>1. results \in 0..2 /\ results \in Nat
  OBVIOUS
<1>2. CASE e.kind = "value"
  <2>1. CompileExpr(code, e, open, a) = <<Load(a)>>
    BY <1>2 DEF CompileExpr
  <2> QED
    BY <2>1, LoadFacts
<1>3. CASE e.kind = "varargs"
  <2> DEFINE x == Instruction("LOP_GETVARARGS", a, 0, results, 1, 0)
  <2>1. CompileExpr(code, e, open, a) = <<x>>
    BY <1>3 DEF CompileExpr
  <2> HIDE DEF results
  <2>3. x \in Ins /\ x.op = "LOP_GETVARARGS" /\ x.a = a
    BY <1>1 DEF Instruction, Ins, Ops
  <2> HIDE DEF x
  <2>4. Logged(x) /\ AppendTop(x) = a
    BY <2>3 DEF Logged, AppendTop
  <2> QED
    BY <2>1, <2>3, <2>4, SingleFits
<1>4. CASE e.kind \notin {"value", "varargs"}
  <2>1. n # 0 /\ e \in CallsOf(Nested[n - 1])
    BY <1>4, NestedFacts, KindFacts
  <2>2. CompileExpr(code, e, open, a) = CompileCall(code, e, a, results)
    BY <1>4 DEF CompileExpr
  <2> HIDE DEF results
  <2> QED
    BY <1>1, <2>1, <2>2, CallWrites
<1> QED
  BY <1>2, <1>3, <1>4

(* Every value, however deep.                                              *)
LEMMA ValuesWrite ==
  ASSUME CallsAhead
  PROVE  AllWrite(Compile[Depth], Expressions)
<1> DEFINE P == {n \in Nat : n <= Depth => AllWrite(Compile[n], Nested[n])}
<1>1. Depth \in Nat
  BY MultretAssumption DEF MultretAssumption
<1>2. 0 \in P
  <2>1. 0 \in 0..Depth
    BY <1>1
  <2>2. Compile[0] = Layer(0, Compile[0 - 1])
    BY <2>1, CompileIs
  <2>3. AllWrite(Layer(0, Compile[0 - 1]), Nested[0])
    BY <2>1, LayerWrites
  <2> QED
    BY <2>2, <2>3
<1>3. ASSUME NEW n \in Nat, n \in P
      PROVE  n + 1 \in P
  <2> SUFFICES ASSUME n + 1 <= Depth
               PROVE  AllWrite(Compile[n + 1], Nested[n + 1])
    OBVIOUS
  <2>1. n + 1 \in 0..Depth /\ n + 1 # 0 /\ (n + 1) - 1 = n /\ n <= Depth
    BY <1>1
  <2>2. AllWrite(Compile[n], Nested[n])
    BY <1>3, <2>1
  <2>3. Compile[n + 1] = Layer(n + 1, Compile[n])
    BY <2>1, CompileIs
  <2>4. AllWrite(Layer(n + 1, Compile[n]), Nested[n + 1])
    BY <2>1, <2>2, LayerWrites
  <2> QED
    BY <2>3, <2>4
<1> HIDE DEF P
<1>4. Depth \in P
  BY <1>1, <1>2, <1>3, Induction
<1> QED
  BY <1>1, <1>4 DEF P, Expressions

-----------------------------------------------------------------------------
(* Every statement.                                                        *)
LEMMA ProgramsFit ==
  ASSUME CallsAhead, NEW p \in Programs
  PROVE  Fits(p)
<1> DEFINE code == Compile[Depth]
<1>1. AllWrite(code, Expressions)
  BY ValuesWrite
<1> HIDE DEF code
<1>2. PICK s : /\ p = CompileStatement(s)
               /\ s.base \in Nat
               /\ \/ /\ s.kind = "call"
                     /\ s.values[1] \in CallsOf(Expressions)
                  \/ /\ s.kind \in {"return", "table"}
                     /\ s.values \in Lists(Expressions)
  <2>1. Bases \subseteq Nat /\ Statements \subseteq {"call", "return", "table"}
    BY MultretAssumption DEF MultretAssumption, StatementKinds
  <2>2. PICK s \in [kind : Statements \ {"call"}, base : Bases,
                    values : Lists(Expressions) \ {<< >>}]
                   \union [kind : Statements \intersect {"call"}, base : Bases,
                           values : {<<e>> : e \in CallsOf(Expressions)}] :
               p = CompileStatement(s)
    BY DEF Programs
  <2>3. s.base \in Nat
    BY <2>1, <2>2
  <2>4. CASE s \in [kind : Statements \ {"call"}, base : Bases,
                    values : Lists(Expressions) \ {<< >>}]
    <3>1. s.kind \in {"return", "table"} /\ s.values \in Lists(Expressions)
      BY <2>1, <2>4
    <3> QED
      BY <2>2, <2>3, <3>1
  <2>5. CASE s \in [kind : Statements \intersect {"call"}, base : Bases,
                    values : {<<e>> : e \in CallsOf(Expressions)}]
    <3>1. s.kind = "call" /\ s.values \in {<<e>> : e \in CallsOf(Expressions)}
      BY <2>5
    <3>2. s.values[1] \in CallsOf(Expressions)
      BY <3>1
    <3> QED
      BY <2>2, <2>3, <3>1, <3>2
  <2> QED
    BY <2>2, <2>4, <2>5
<1>3. CASE s.kind = "call"
  <2>1. s.values[1] \in CallsOf(Expressions) /\ 1 \in 0..2
    BY <1>2, <1>3
  <2>2. p = CompileCall(code, s.values[1], s.base, 1)
    BY <1>2, <1>3 DEF CompileStatement, code
  <2>3. Writes(CompileCall(code, s.values[1], s.base, 1), s.base)
    BY <1>1, <1>2, <2>1, CallWrites
  <2> QED
    BY <2>2, <2>3 DEF Writes
<1>4. CASE s.kind = "return"
  <2> DEFINE u == CompileList(code, s.values, s.base)
             x == Instruction("LOP_RETURN", s.base, 0, Count(s.values, 0), 1,
                              Len(s.values))
  <2>1. s.values \in Lists(Expressions)
    BY <1>2, <1>4
  <2>2. p = u \o <<x>>
    BY <1>2, <1>4 DEF CompileStatement, code
  <2>3. Fits(u) /\ (s.values # << >> => Writes(u, s.base + Len(s.values) - 1))
    BY <1>1, <1>2, <2>1, ListWrites
  <2>4. /\ Count(s.values, 0) \in Nat
        /\ Count(s.values, 0) = 0 => s.values # << >>
        /\ Count(s.values, 0) # 0 => Count(s.values, 0) = Len(s.values) + 1
        /\ Len(s.values) \in 0..253
    BY <2>1, CountFacts, ListFacts
  <2>5. /\ x \in Ins /\ x.op = "LOP_RETURN" /\ x.a = s.base
        /\ x.b = Count(s.values, 0) /\ x.n = Len(s.values)
    BY <1>2, <2>4 DEF Instruction, Ins, Ops
  <2> HIDE DEF u, x
  <2>6. Follow(u, x)
    BY <2>3, <2>4, <2>5 DEF Follow, Writes
  <2> QED
    BY <2>2, <2>3, <2>5, <2>6, AppendFits
<1>5. CASE s.kind = "table"
  <2> DEFINE new == Instruction("LOP_NEWTABLE", s.base, 0, 1, 1, 0)
             u == CompileList(code, s.values, s.base + 1)
             x == Instruction("LOP_SETLIST", s.base, 0, Count(s.values, 0), 1,
                              Len(s.values))
  <2>1. s.values \in Lists(Expressions)
    BY <1>2, <1>5
  <2>2. p = (<<new>> \o u) \o <<x>>
    BY <1>2, <1>5 DEF CompileStatement, code
  <2>3. Fits(u)
    BY <1>1, <1>2, <2>1, ListWrites
  <2>4. Count(s.values, 0) \in Nat /\ Len(s.values) \in 0..253
    BY <2>1, CountFacts, ListFacts
  <2>5. x \in Ins /\ x.op = "LOP_SETLIST"
    BY <1>2, <2>4 DEF Instruction, Ins, Ops
  <2>6. new \in Ins /\ new.op = "LOP_NEWTABLE"
    BY <1>2 DEF Instruction, Ins, Ops
  <2> HIDE DEF new, u, x
  <2>7. Fits(<<new>>)
    BY <2>6, SingleFits
  <2>8. Fits(<<new>> \o u)
    BY <2>3, <2>7, JoinFits
  <2> QED
    BY <2>2, <2>5, <2>8, PlainFits
<1> QED
  BY <1>2, <1>3, <1>4, <1>5

-----------------------------------------------------------------------------
(***************************************************************************)
(* The lifter.                                                             *)
(***************************************************************************)

Operand == [val : Int, multret : BOOLEAN]

Lifted == [op : Ops, a : Nat, src : Nat, b : Operand, c : Operand, n : 0..254]

(* Where the loops are, by type.                                           *)
Positions == [phase : {"parse", "resolve", "done"}, i : Nat]

(* MultretInv, the program's shape and the types.                          *)
CountsInv ==
  /\ Fits(prog)
  /\ lifted \in Seq(Lifted) /\ stack_top \in Nat
  /\ at \in Positions
  /\ MultretInv

(* A phase begins.                                                         *)
LEMMA PhaseBegins ==
  /\ [phase |-> "parse", i |-> 1] \in Positions
  /\ [phase |-> "resolve", i |-> 1] \in Positions
  /\ [phase |-> "done", i |-> 1] \in Positions
  BY DEF Positions

(* A phase goes on.                                                        *)
LEMMA PhaseGoesOn ==
  ASSUME NEW w \in Positions
  PROVE  /\ [w EXCEPT !.i = @ + 1] \in Positions
         /\ [w EXCEPT !.i = @ + 1].phase = w.phase
         /\ [w EXCEPT !.i = @ + 1].i = w.i + 1
         /\ w.i \in Nat
  BY DEF Positions

(* Nothing is lifted yet.                                                  *)
LEMMA InitCounts ==
  ASSUME CallsAhead, MultretInit
  PROVE  CountsInv
<1>1. Fits(prog)
  BY ProgramsFit DEF MultretInit
<1>2. Len(prog) \in Nat
  BY <1>1 DEF Fits
<1>3. /\ lifted = << >> /\ stack_top = 0 /\ at = [phase |-> "parse", i |-> 1]
      /\ at.phase = "parse" /\ at.i = 1
  BY DEF MultretInit
<1>4. \A p \in 1..Len(prog) : ~LastLogged(prog, 0, p)
  BY DEF LastLogged
<1>5. /\ lifted \in Seq(Lifted) /\ Len(lifted) = 0
  BY <1>3
<1>6. MultretInv
  <2>1. at.i \in 1..(Len(prog) + 1) /\ at.i - 1 = 0
    BY <1>2, <1>3
  <2>2. \A i \in 1..Len(lifted) : CountRight(i)
    BY <1>5
  <2> QED
    BY <1>3, <1>4, <1>5, <2>1, <2>2, Zenon DEF MultretInv
<1>7. stack_top \in Nat /\ at \in Positions
  BY <1>3, PhaseBegins
<1> QED
  BY <1>1, <1>5, <1>6, <1>7 DEF CountsInv

(* How the last logged instruction changes with one more.                  *)
LEMMA LastLoggedNext ==
  ASSUME NEW code, NEW k \in Nat \ {0}, NEW p \in Nat, LastLogged(code, k, p)
  PROVE  IF Logged(code[k]) THEN p = k ELSE LastLogged(code, k - 1, p)
  BY DEF LastLogged

(* A decoded instruction.                                                  *)
LEMMA DecodedFacts ==
  ASSUME NEW z \in Ins
  PROVE  /\ Decoded(z) \in [op : Ops, a : Nat, src : Nat, b : Int, c : Int, n : 0..254]
         /\ Decoded(z).op = z.op /\ Decoded(z).a = z.a /\ Decoded(z).src = z.src
         /\ Decoded(z).n = z.n
         /\ z.op # "LOP_SETLIST" => Decoded(z).b = z.b - 1
<1> DEFINE b == IF z.op = "LOP_SETLIST" THEN z.b - 2 ELSE z.b - 1
           c == z.c - 1
<1>1. Decoded(z) = [z EXCEPT !.b = b, !.c = c]
  BY DEF Decoded
<1>2. /\ b \in Int /\ c \in Int
      /\ z.op # "LOP_SETLIST" => b = z.b - 1
  BY DEF Ins
<1> HIDE DEF b, c
<1> QED
  BY <1>1, <1>2 DEF Ins

(* Its counts.                                                             *)
LEMMA CountedFacts ==
  ASSUME stack_top \in Nat, NEW v \in Int
  PROVE  /\ Counted(v) \in Operand
         /\ v = -1 => Counted(v).val = stack_top /\ Counted(v).multret
         /\ v # -1 => Counted(v).val = v /\ ~Counted(v).multret
<1>1. CASE v = -1
  BY <1>1 DEF Counted, LUA_MULTRET, Operand
<1>2. CASE v # -1
  BY <1>2 DEF Counted, LUA_MULTRET, Operand
<1> QED
  BY <1>1, <1>2

(* An operand is parsed: stack_top stands for an open count.               *)
LEMMA ParseCounts ==
  ASSUME CountsInv, ParseOperands
  PROVE  CountsInv'
<1> DEFINE i == at.i
           x == Decoded(prog[i])
           y == [x EXCEPT !.b = Counted(@), !.c = Counted(@)]
<1>1. /\ at.phase = "parse" /\ at.i \in 1..Len(prog)
      /\ lifted' = Append(lifted, y)
      /\ stack_top' = IF Logged(x) THEN AppendTop(x) ELSE stack_top
      /\ at' = [at EXCEPT !.i = @ + 1] /\ prog' = prog
      /\ Len(lifted) = at.i - 1 /\ Len(prog) \in Nat
      /\ \A p \in 1..Len(prog) :
           LastLogged(prog, at.i - 1, p) => stack_top = AppendTop(prog[p])
      /\ \A k \in 1..Len(lifted) : CountRight(k)
      /\ prog \in Seq(Ins) /\ FitsAt(prog, at.i)
      /\ lifted \in Seq(Lifted) /\ stack_top \in Nat
      /\ at \in Positions
  BY DEF CountsInv, ParseOperands, MultretInv, Fits
<1>2. prog[i] \in Ins
  BY <1>1
<1>3. /\ x \in [op : Ops, a : Nat, src : Nat, b : Int, c : Int, n : 0..254]
      /\ x.op = prog[i].op /\ x.a = prog[i].a /\ x.src = prog[i].src
      /\ x.n = prog[i].n
      /\ x.op # "LOP_SETLIST" => x.b = prog[i].b - 1
  BY <1>2, DecodedFacts
<1>4. /\ Logged(x) = Logged(prog[i]) /\ AppendTop(x) = AppendTop(prog[i])
      /\ AppendTop(x) \in Nat
  BY <1>2, <1>3 DEF Logged, AppendTop, Ins
<1>5. /\ y \in Lifted /\ y.op = prog[i].op /\ y.a = prog[i].a /\ y.n = prog[i].n
      /\ x.b = -1 => y.b.val = stack_top /\ y.b.multret
      /\ x.b # -1 => y.b.val = x.b /\ ~y.b.multret
  <2> HIDE DEF x
  <2>1. x.b \in Int /\ x.c \in Int
    BY <1>3
  <2>2. /\ Counted(x.b) \in Operand /\ Counted(x.c) \in Operand
        /\ x.b = -1 => Counted(x.b).val = stack_top /\ Counted(x.b).multret
        /\ x.b # -1 => Counted(x.b).val = x.b /\ ~Counted(x.b).multret
    BY <1>1, <2>1, CountedFacts
  <2>3. y.b = Counted(x.b)
    BY <1>3
  <2>4. y \in Lifted
    BY <1>3, <2>2 DEF Lifted
  <2>5. y.op = x.op /\ y.a = x.a /\ y.n = x.n
    BY <1>3
  <2> QED
    BY <1>3, <2>2, <2>3, <2>4, <2>5
<1> HIDE DEF x, y, i
<1>6. /\ at'.phase = "parse" /\ at'.i = at.i + 1
      /\ at' \in Positions
  BY <1>1, PhaseGoesOn
<1>7. /\ lifted' \in Seq(Lifted) /\ Len(lifted') = at.i
      /\ \A k \in 1..(at.i - 1) : lifted'[k] = lifted[k]
      /\ lifted'[at.i] = y
  BY <1>1, <1>5
<1>8. stack_top' \in Nat
  BY <1>1, <1>4
<1>9. ASSUME NEW p \in 1..Len(prog), LastLogged(prog, at.i, p)
      PROVE  stack_top' = AppendTop(prog[p])
  <2>1. at.i \in Nat \ {0} /\ p \in Nat
    BY <1>1
  <2>2. IF Logged(prog[i]) THEN p = i ELSE LastLogged(prog, i - 1, p)
    BY <1>9, <2>1, LastLoggedNext DEF i
  <2> QED
    BY <1>1, <1>4, <2>2 DEF i
<1>10. /\ y.op = "LOP_CALL" =>
            y.b.val = y.n + (IF y.b.multret THEN y.a ELSE 0)
       /\ y.op = "LOP_RETURN" => (y.b.multret => y.b.val = y.a + y.n - 1)
  <2>1. \A r : TopIs(prog, i - 1, r) => stack_top = r
    BY <1>1 DEF TopIs, i
  <2>2. /\ prog[i].op = "LOP_CALL" =>
             IF prog[i].b = 0 THEN stack_top = prog[i].a + prog[i].n
                              ELSE prog[i].b = prog[i].n + 1
        /\ prog[i].op = "LOP_RETURN" =>
             (prog[i].b = 0 => stack_top = prog[i].a + prog[i].n - 1)
    BY <1>1, <2>1 DEF FitsAt, i
  <2>3. prog[i].a \in Nat /\ prog[i].b \in Nat /\ prog[i].n \in Nat
    BY <1>2 DEF Ins
  <2>4. CASE x.b = -1
    <3>1. y.b.val = stack_top /\ y.b.multret
      BY <1>5, <2>4
    <3>2. x.op # "LOP_SETLIST" => prog[i].b = 0
      BY <1>3, <2>3, <2>4
    <3> QED
      BY <1>3, <1>5, <2>2, <2>3, <3>1, <3>2
  <2>5. CASE x.b # -1
    <3>1. y.b.val = x.b /\ ~y.b.multret
      BY <1>5, <2>5
    <3>2. x.op # "LOP_SETLIST" => x.b = prog[i].b - 1 /\ prog[i].b # 0
      BY <1>3, <2>3, <2>5
    <3> QED
      BY <1>3, <1>5, <2>2, <2>3, <3>1, <3>2
  <2> QED
    BY <2>4, <2>5
<1>11. ASSUME NEW k \in 1..Len(lifted')
       PROVE  CountRight(k)'
  <2>1. ~Resolved(k) /\ ~Resolved(k)'
    BY <1>1, <1>6 DEF Resolved
  <2>2. CASE k = at.i
    BY <1>7, <1>10, <2>1, <2>2 DEF CountRight
  <2>3. CASE k # at.i
    <3>1. k \in 1..(at.i - 1) /\ k \in 1..Len(lifted)
      BY <1>1, <1>7, <2>3
    <3>2. CountRight(k) /\ lifted'[k] = lifted[k]
      BY <1>1, <1>7, <3>1
    <3> QED
      BY <2>1, <3>2 DEF CountRight
  <2> QED
    BY <2>2, <2>3
<1>12. /\ at'.i \in 1..(Len(prog') + 1) /\ Len(lifted') = at'.i - 1
       /\ at'.i - 1 = at.i
  BY <1>1, <1>6, <1>7
<1>13. MultretInv'
  BY <1>1, <1>6, <1>9, <1>11, <1>12 DEF MultretInv, LastLogged
<1> QED
  BY <1>1, <1>6, <1>7, <1>8, <1>13 DEF CountsInv

(* A phase that ends leaves the operands alone.                            *)
LEMMA PhaseCounts ==
  ASSUME CountsInv, OperandsParsed \/ OperandsResolved
  PROVE  CountsInv'
<1>1. /\ Fits(prog) /\ prog' = prog /\ lifted' = lifted /\ stack_top' = stack_top
      /\ lifted \in Seq(Lifted) /\ stack_top \in Nat /\ Len(prog) \in Nat
      /\ at.i \in 1..(Len(prog) + 1) /\ at.i \in Nat
      /\ \A k \in 1..Len(lifted) : CountRight(k)
  BY DEF CountsInv, OperandsParsed, OperandsResolved, MultretInv, Fits
<1>2. /\ at'.phase \in {"resolve", "done"} /\ at'.i = 1
      /\ at' \in Positions
  <2>1. \/ at' = [phase |-> "resolve", i |-> 1]
        \/ at' = [phase |-> "done", i |-> 1]
    BY DEF OperandsParsed, OperandsResolved
  <2> QED
    BY <2>1, PhaseBegins
<1>3. Len(lifted) = Len(prog)
  <2>1. CASE OperandsParsed
    <3>1. at.phase = "parse" /\ at.i > Len(prog) /\ Len(lifted) = at.i - 1
      BY <2>1 DEF CountsInv, OperandsParsed, MultretInv
    <3> QED
      BY <1>1, <3>1
  <2>2. CASE OperandsResolved
    BY <2>2 DEF CountsInv, OperandsResolved, MultretInv
  <2> QED
    BY <2>1, <2>2
<1>4. ASSUME NEW k \in 1..Len(lifted)
      PROVE  Resolved(k)' <=> Resolved(k)
  <2>1. CASE OperandsParsed
    BY <1>1, <2>1 DEF Resolved, OperandsParsed
  <2>2. CASE OperandsResolved
    <3>1. at.phase = "resolve" /\ at.i > Len(lifted) /\ at'.phase = "done"
      BY <2>2 DEF OperandsResolved
    <3>2. k < at.i
      BY <1>1, <1>3, <3>1
    <3> QED
      BY <3>1, <3>2 DEF Resolved
  <2> QED
    BY <2>1, <2>2
<1>5. \A k \in 1..Len(lifted') : CountRight(k)'
  BY <1>1, <1>4 DEF CountRight
<1>6. at'.i \in 1..(Len(prog') + 1)
  BY <1>1, <1>2
<1>7. MultretInv'
  BY <1>1, <1>2, <1>3, <1>5, <1>6 DEF MultretInv
<1> QED
  BY <1>1, <1>2, <1>7 DEF CountsInv

(* What a register is less another, in 16 bits.                            *)
LEMMA RelativeFacts ==
  /\ \A v, a \in Int : Relative(v, a) \in Int
  /\ \A a \in Nat : \A n \in 0..254 : Relative(n + a, a) = n
<1>1. \A m \in 0..254 : m % 65536 = m
  OBVIOUS
<1>2. \A m \in Int : m % 65536 \in Int
  OBVIOUS
<1>3. ASSUME NEW a \in Nat, NEW n \in 0..254
      PROVE  Relative(n + a, a) = n
  <2>1. (n + a) - a = n
    OBVIOUS
  <2> QED
    BY <1>1, <2>1 DEF Relative
<1>4. ASSUME NEW v \in Int, NEW a \in Int
      PROVE  Relative(v, a) \in Int
  <2>1. v - a \in Int
    OBVIOUS
  <2> QED
    BY <1>2, <2>1 DEF Relative
<1> QED
  BY <1>3, <1>4

(* A resolved call.                                                        *)
LEMMA ResolvedFacts ==
  ASSUME NEW x \in Lifted
  PROVE  /\ ResolveCall(x) \in Lifted
         /\ ResolveCall(x).op = x.op /\ ResolveCall(x).a = x.a
         /\ ResolveCall(x).n = x.n
         /\ ResolveCall(x).b.val = IF x.b.multret THEN Relative(x.b.val, x.a)
                                                   ELSE x.b.val
<1> DEFINE b == IF x.b.multret THEN Relative(x.b.val, x.a) ELSE x.b.val
           c == IF x.c.multret /\ Relative(x.c.val, x.a) # 0
                THEN Relative(x.c.val, x.a) ELSE x.c.val
<1>1. /\ x.a \in Int /\ x.b \in Operand /\ x.c \in Operand
      /\ x.b.val \in Int /\ x.c.val \in Int
  BY DEF Lifted, Operand
<1>2. b \in Int /\ c \in Int
  BY <1>1, RelativeFacts
<1>3. ResolveCall(x) = [x EXCEPT !.b.val = b, !.c.val = c]
  BY DEF ResolveCall
<1> HIDE DEF b, c
<1>4. [x.b EXCEPT !.val = b] \in Operand /\ [x.b EXCEPT !.val = b].val = b
  BY <1>1, <1>2 DEF Operand
<1>5. [x.c EXCEPT !.val = c] \in Operand
  BY <1>1, <1>2 DEF Operand
<1>6. ResolveCall(x) = [x EXCEPT !.b = [x.b EXCEPT !.val = b],
                                 !.c = [x.c EXCEPT !.val = c]]
  BY <1>3 DEF Lifted
<1>7. /\ ResolveCall(x) \in Lifted
      /\ ResolveCall(x).op = x.op /\ ResolveCall(x).a = x.a
      /\ ResolveCall(x).n = x.n /\ ResolveCall(x).b = [x.b EXCEPT !.val = b]
  BY <1>4, <1>5, <1>6 DEF Lifted
<1> QED
  BY <1>4, <1>7 DEF b

(* The count of a call becomes how many arguments there are.               *)
LEMMA ResolveCounts ==
  ASSUME CountsInv, ResolveInstructionOperands
  PROVE  CountsInv'
<1> SUFFICES ASSUME NEW i, i = at.i, NEW x, x = lifted[i]
             PROVE  CountsInv'
  OBVIOUS
<1>1. /\ Fits(prog) /\ prog' = prog /\ stack_top' = stack_top
      /\ lifted \in Seq(Lifted) /\ stack_top \in Nat /\ Len(prog) \in Nat
      /\ at.i \in 1..Len(lifted) /\ Len(lifted) = Len(prog)
      /\ at.phase = "resolve" /\ at' = [at EXCEPT !.i = @ + 1]
      /\ at \in Positions
      /\ lifted' = IF x.op = "LOP_CALL" THEN [lifted EXCEPT ![i] = ResolveCall(x)]
                                        ELSE lifted
      /\ \A k \in 1..Len(lifted) : CountRight(k)
  BY DEF CountsInv, ResolveInstructionOperands, MultretInv, Fits
<1>2. /\ at'.phase = "resolve" /\ at'.i = at.i + 1
      /\ at' \in Positions /\ at.i \in Nat
      /\ at'.i \in 1..(Len(prog) + 1)
  <2>1. /\ at'.phase = "resolve" /\ at'.i = at.i + 1
        /\ at' \in Positions /\ at.i \in Nat
    BY <1>1, PhaseGoesOn
  <2>2. at.i + 1 \in 1..(Len(prog) + 1)
    BY <1>1
  <2> QED
    BY <2>1, <2>2
<1>3. x \in Lifted /\ x.a \in Nat /\ x.n \in 0..254 /\ x.n \in Nat
  <2>1. x \in Lifted
    BY <1>1
  <2>2. x.a \in Nat /\ x.n \in 0..254
    BY <2>1 DEF Lifted
  <2> QED
    BY <2>1, <2>2
<1> DEFINE y == IF x.op = "LOP_CALL" THEN ResolveCall(x) ELSE x
<1>4. /\ y \in Lifted /\ y.op = x.op /\ y.a = x.a /\ y.n = x.n
      /\ x.op = "LOP_CALL" => y.b.val = IF x.b.multret THEN Relative(x.b.val, x.a)
                                                       ELSE x.b.val
  BY <1>3, ResolvedFacts
<1>5. x.op # "LOP_CALL" => y = x
  OBVIOUS
<1>6. lifted' = [lifted EXCEPT ![i] = y]
  <2>1. CASE x.op = "LOP_CALL"
    BY <1>1, <2>1
  <2>2. CASE x.op # "LOP_CALL"
    <3>1. lifted' = lifted /\ y = x
      BY <1>1, <2>2
    <3> HIDE DEF y
    <3>2. [lifted EXCEPT ![i] = lifted[i]] = lifted
      BY <1>1
    <3> QED
      BY <3>1, <3>2
  <2> QED
    BY <2>1, <2>2
<1> HIDE DEF y
<1>7. /\ lifted' \in Seq(Lifted) /\ Len(lifted') = Len(lifted)
      /\ lifted'[i] = y
      /\ \A k \in 1..Len(lifted) : k # i => lifted'[k] = lifted[k]
  BY <1>1, <1>4, <1>6
<1>8. ~Resolved(i) /\ Resolved(i)'
  <2>1. ~(at.i < at.i) /\ at.i < at.i + 1
    BY <1>2
  <2>2. at.phase = "resolve" /\ at'.phase = "resolve" /\ at.i < at'.i
    BY <1>1, <1>2, <2>1
  <2> QED
    BY <2>1, <2>2 DEF Resolved
<1>9. x.op = "LOP_CALL" => y.b.val = y.n
  <2> SUFFICES ASSUME x.op = "LOP_CALL"
               PROVE  y.b.val = y.n
    OBVIOUS
  <2>1. x.b.val = x.n + (IF x.b.multret /\ ~Resolved(i) THEN x.a ELSE 0)
    BY <1>1 DEF CountRight
  <2>2. CASE x.b.multret
    <3>1. x.b.val = x.n + x.a
      BY <1>8, <2>1, <2>2
    <3>2. Relative(x.n + x.a, x.a) = x.n
      BY <1>3, RelativeFacts
    <3>3. y.b.val = Relative(x.b.val, x.a) /\ y.n = x.n
      BY <1>4, <2>2
    <3> QED
      BY <3>1, <3>2, <3>3
  <2>3. CASE ~x.b.multret
    BY <1>3, <1>4, <2>1, <2>3
  <2> QED
    BY <2>2, <2>3
<1>10. ASSUME NEW k \in 1..Len(lifted)
       PROVE  CountRight(k)'
  <2>1. CASE k = i /\ x.op = "LOP_CALL"
    <3>1. lifted'[k].b.val = lifted'[k].n /\ lifted'[k].op = "LOP_CALL"
      BY <1>4, <1>7, <1>9, <2>1
    <3>2. lifted'[k].n \in Nat
      BY <1>3, <1>4, <1>7, <2>1
    <3>3. Resolved(k)'
      BY <1>8, <2>1
    <3> QED
      BY <3>1, <3>2, <3>3 DEF CountRight
  <2>2. CASE k = i /\ x.op # "LOP_CALL"
    <3>1. lifted'[k] = lifted[k]
      BY <1>5, <1>7, <2>2
    <3> QED
      BY <1>1, <2>2, <3>1 DEF CountRight
  <2>3. CASE k # i
    <3>1. lifted'[k] = lifted[k]
      BY <1>7, <2>3
    <3>2. k < at.i <=> k < at'.i
      BY <1>1, <1>2, <2>3
    <3>3. Resolved(k) <=> Resolved(k)'
      BY <1>1, <1>2, <3>2 DEF Resolved
    <3> QED
      BY <1>1, <3>1, <3>3 DEF CountRight
  <2> QED
    BY <2>1, <2>2, <2>3
<1>11. MultretInv'
  BY <1>1, <1>2, <1>7, <1>10 DEF MultretInv
<1> QED
  BY <1>1, <1>2, <1>7, <1>11 DEF CountsInv

(* Every step keeps the counts right.                                      *)
LEMMA NextCounts ==
  ASSUME CountsInv, [MultretNext]_multretVars
  PROVE  CountsInv'
<1>1. CASE UNCHANGED multretVars
  BY <1>1 DEF CountsInv, MultretInv, CountRight, Resolved, multretVars
<1> QED
  BY <1>1, ParseCounts, PhaseCounts, ResolveCounts DEF MultretNext

(* However deep calls are nested: while an instruction is parsed stack_top *)
(* is what the last logged instruction writes, an open call counts up to   *)
(* the register of its last argument, and once resolved has as many        *)
(* arguments as were written (parse_instructions,                          *)
(* resolve_instruction_operands).                                          *)
THEOREM CountsInvariance == ASSUME CallsAhead PROVE MultretSpec => []MultretInv
<1>1. MultretInit => CountsInv
  BY InitCounts
<1>2. CountsInv /\ [MultretNext]_multretVars => CountsInv'
  BY NextCounts
<1>3. CountsInv => MultretInv
  BY DEF CountsInv
<1> QED
  BY <1>1, <1>2, <1>3, PTL DEF MultretSpec

(* The lifter recovers how many arguments each call has, one with an open  *)
(* last argument included (the Val operand of OP_CALL).                    *)
THEOREM ArgumentsAlwaysCounted ==
  ASSUME CallsAhead PROVE MultretSpec => []ArgumentsCounted
<1>1. CountsInv => ArgumentsCounted
  <2> SUFFICES ASSUME CountsInv, NEW i \in Of("LOP_CALL")
               PROVE  lifted[i].b.val = lifted[i].n
    BY DEF ArgumentsCounted
  <2>1. i \in 1..Len(lifted) /\ at.phase = "done" /\ lifted[i].op = "LOP_CALL"
    BY DEF Of
  <2>2. Resolved(i) /\ CountRight(i)
    BY <2>1 DEF Resolved, CountsInv, MultretInv
  <2>3. lifted[i] \in Lifted
    BY <2>1 DEF CountsInv
  <2>4. lifted[i].n \in Nat
    BY <2>3 DEF Lifted
  <2> QED
    BY <2>1, <2>2, <2>4 DEF CountRight
<1>2. MultretInit => CountsInv
  BY InitCounts
<1>3. CountsInv /\ [MultretNext]_multretVars => CountsInv'
  BY NextCounts
<1> QED
  BY <1>1, <1>2, <1>3, PTL DEF MultretSpec

(* The lifter recovers where the values of an open return end.             *)
THEOREM OpenReturnsAlwaysEnd ==
  ASSUME CallsAhead PROVE MultretSpec => []OpenReturnEnds
<1>1. MultretInv => OpenReturnEnds
  BY DEF MultretInv, OpenReturnEnds, Of, CountRight
<1> QED
  BY <1>1, CountsInvariance, PTL
=============================================================================
