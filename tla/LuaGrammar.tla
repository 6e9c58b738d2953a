----------------------------- MODULE LuaGrammar -----------------------------
(***************************************************************************)
(* The expressions of Lua and Luau, read back from a text: what the code   *)
(* generator's output means to the compiler of its target.  A tree is a    *)
(* tuple that starts with its kind.  Nothing here is translated from the   *)
(* repository: it is the reference the generator is compared with.         *)
(***************************************************************************)
EXTENDS Integers, Sequences, FiniteSets, TLC

GrammarBlank == " "
GrammarQuote == "\""
NumeralOf == [n \in 0..9 |-> ToString(n)]
Numerals == {NumeralOf[n] : n \in 0..9}
ValueOf == [t \in Numerals |-> CHOOSE n \in 0..9 : NumeralOf[n] = t]
Keywords == {"and", "or", "not", "nil", "true", "false", "if", "then", "elseif",
             "else", "end", "for", "in", "do", "while", "repeat", "until",
             "return", "break", "local", "function"}
Symbols == {"+", "-", "*", "/", "%", "^", "#", "&", "|", "~", "<<", ">>", "//",
            "<", "<=", "==", "~=", ">", ">=", "..", "...", ".", ":", ",", ";",
            "=", "(", ")", "[", "]", "{", "}", GrammarQuote, "throw"}
NotNames == Symbols \cup Keywords \cup Numerals \cup {GrammarBlank}
Name(t) == t \notin NotNames
NotWords == Symbols \cup {GrammarBlank}

\* Left and right priority of the binary operators.
LuauPriority ==
     [t \in {"or"} |-> <<1, 1>>] @@ [t \in {"and"} |-> <<2, 2>>]
  @@ [t \in {"<", "<=", "==", "~=", ">", ">="} |-> <<3, 3>>]
  @@ [t \in {".."} |-> <<9, 8>>] @@ [t \in {"+", "-"} |-> <<10, 10>>]
  @@ [t \in {"*", "/", "%"} |-> <<11, 11>>] @@ [t \in {"^"} |-> <<14, 13>>]
LuaPriority ==
  LuauPriority
  @@ [t \in {"|"} |-> <<4, 4>>] @@ [t \in {"~"} |-> <<5, 5>>]
  @@ [t \in {"&"} |-> <<6, 6>>] @@ [t \in {"<<", ">>"} |-> <<7, 7>>]
  @@ [t \in {"//"} |-> <<11, 11>>]
Priority(syn) == IF syn = "luau" THEN LuauPriority ELSE LuaPriority
UnaryPriority == 12
LuauUnary == {"not", "-", "#"}
LuaUnary == LuauUnary \cup {"~"}
UnaryTokens(syn) == IF syn = "luau" THEN LuauUnary ELSE LuaUnary

\* Two tokens that, without a blank between them, are read as something else.
Glued(t, u) ==
  LET word(x) == x \notin NotWords
  IN \/ word(t) /\ word(u)
     \/ t = "-" /\ u = "-"
     \/ t \in Numerals /\ u \in {".", "..", "..."}
     \/ t \in {".", ".."} /\ u \in {".", "..", "..."} \cup Numerals
     \/ t = "[" /\ u = "["
Lexes(text) == \A i \in 1..Len(text) - 1 : ~Glued(text[i], text[i + 1])
Tokens(text) == SelectSeq(text, LAMBDA t : t # GrammarBlank)

-----------------------------------------------------------------------------
\* A parser returns the tree and the index of the next token.
NoTree == <<"none">>
Failed == <<NoTree, 0>>
Ok(r) == r[2] # 0
At(toks, i) == IF i \in 1..Len(toks) THEN toks[i] ELSE "<eof>"

RECURSIVE SubExpr(_, _, _, _), Climb(_, _, _, _, _), Suffixes(_, _, _, _),
          List(_, _, _, _), Fields(_, _, _)

Simple(toks, i, syn) ==
  LET t == At(toks, i)
  IN CASE t \in Numerals -> <<<<"num", 10 * ValueOf[t]>>, i + 1>>
       [] t \in {"nil", "true", "false", "..."} -> <<<<t>>, i + 1>>
       [] t = GrammarQuote ->
            IF At(toks, i + 2) = GrammarQuote THEN <<<<"str", toks[i + 1]>>, i + 3>>
            ELSE Failed
       [] t = "{" -> Fields(toks, i + 1, syn)
       [] t = "(" ->
            LET e == SubExpr(toks, i + 1, 0, syn)
            IN IF Ok(e) /\ At(toks, e[2]) = ")" THEN Suffixes(toks, e[2] + 1, e[1], syn)
               ELSE Failed
       [] t # "<eof>" /\ Name(t) -> Suffixes(toks, i + 1, <<"name", t>>, syn)
       [] OTHER -> Failed

\* Indexes and calls on the expression that ends before token i.
Suffixes(toks, i, tree, syn) ==
  LET t == At(toks, i)
  IN CASE t = "." /\ Name(At(toks, i + 1)) ->
            Suffixes(toks, i + 2, <<"idx", tree, <<"str", At(toks, i + 1)>>>>, syn)
       [] t = "[" ->
            LET e == SubExpr(toks, i + 1, 0, syn)
            IN IF Ok(e) /\ At(toks, e[2]) = "]"
               THEN Suffixes(toks, e[2] + 1, <<"idx", tree, e[1]>>, syn) ELSE Failed
       [] t = ":" /\ Name(At(toks, i + 1)) /\ At(toks, i + 2) = "(" ->
            LET l == List(toks, i + 3, ")", syn)
            IN IF Ok(l) THEN Suffixes(toks, l[2], <<"method", tree, At(toks, i + 1), l[1]>>, syn)
               ELSE Failed
       [] t = "(" ->
            LET l == List(toks, i + 1, ")", syn)
            IN IF Ok(l) THEN Suffixes(toks, l[2], <<"call", tree, l[1]>>, syn) ELSE Failed
       [] OTHER -> IF t \in {".", ":"} THEN Failed ELSE <<tree, i>>

\* Expressions with commas between them up to a closing token.
List(toks, i, close, syn) ==
  IF At(toks, i) = close THEN <<<<>>, i + 1>>
  ELSE LET e == SubExpr(toks, i, 0, syn)
       IN IF ~Ok(e) THEN Failed
          ELSE IF At(toks, e[2]) = close THEN <<<<e[1]>>, e[2] + 1>>
          ELSE IF At(toks, e[2]) = "," /\ At(toks, e[2] + 1) # close
               THEN LET l == List(toks, e[2] + 1, close, syn)
                    IN IF Ok(l) THEN <<<<e[1]>> \o l[1], l[2]>> ELSE Failed
          ELSE Failed

\* The fields of a table, its opening brace read; a comma may end them.
Fields(toks, i, syn) ==
  LET close(j) == At(toks, j) = "}"
      keyed == At(toks, i) = "["
      k == IF keyed THEN SubExpr(toks, i + 1, 0, syn) ELSE <<NoTree, i>>
      v == IF ~keyed THEN SubExpr(toks, i, 0, syn)
           ELSE IF Ok(k) /\ At(toks, k[2]) = "]" /\ At(toks, k[2] + 1) = "="
                THEN SubExpr(toks, k[2] + 2, 0, syn) ELSE Failed
      rest == IF close(v[2]) THEN <<<<"table", <<>>>>, v[2] + 1>>
              ELSE IF At(toks, v[2]) = "," THEN Fields(toks, v[2] + 1, syn) ELSE Failed
  IN IF close(i) THEN <<<<"table", <<>>>>, i + 1>>
     ELSE IF ~Ok(v) \/ ~Ok(rest) THEN Failed
     ELSE <<<<"table", <<<<k[1], v[1]>>>> \o rest[1][2]>>, rest[2]>>

\* Operators that bind more than limit, from token i on, tree read so far.
Climb(toks, i, tree, limit, syn) ==
  LET t == At(toks, i)
      p == Priority(syn)
      r == SubExpr(toks, i + 1, p[t][2], syn)
  IN IF t \notin DOMAIN p \/ (t \in DOMAIN p /\ p[t][1] <= limit) THEN <<tree, i>>
     ELSE IF ~Ok(r) THEN Failed
     ELSE Climb(toks, r[2], <<"bin", t, tree, r[1]>>, limit, syn)

SubExpr(toks, i, limit, syn) ==
  LET unary == At(toks, i) \in UnaryTokens(syn)
      e == IF unary THEN SubExpr(toks, i + 1, UnaryPriority, syn) ELSE Simple(toks, i, syn)
  IN IF ~Ok(e) THEN Failed
     ELSE Climb(toks, e[2], IF unary THEN <<"un", toks[i], e[1]>> ELSE e[1], limit, syn)

\* The tree of a text that is one whole expression.
Parse(text, syn) ==
  LET toks == Tokens(text)
      e == SubExpr(toks, 1, 0, syn)
  IN IF Lexes(text) /\ Ok(e) /\ e[2] = Len(toks) + 1 THEN e[1] ELSE NoTree
=============================================================================
