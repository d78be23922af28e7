---------------------------- MODULE ExprEvaluator ----------------------------
(***************************************************************************)
(* CExpressionEvaluator of src/tier1/exprevaluator.cpp: the conditions     *)
(* [ $WIN32 && !$X360 ] of the scripts.  A condition is a sequence of      *)
(* tokens; a symbol is the value it resolves to, "0" or "1".  "&" is an    *)
(* operator character without its twin and "#" any other character.        *)
(*                                                                         *)
(* The code builds a tree and then simplifies it from the leaves.  A tree  *)
(* is read for nothing but its value, so the operators below return the    *)
(* value of the tree; a tree that was never made has the value false.      *)
(***************************************************************************)
EXTENDS Integers, Sequences, FiniteSets

CONSTANTS Token,     \* the tokens a condition is made of
          MaxLength  \* bound on the length of a condition

VARIABLES pInfixExpression,
          evaluated,
          bValid,
          bResult

exprVars == <<pInfixExpression, evaluated, bValid, bResult>>

Literal == {"0", "1"}

\* The token at position i.  What follows the terminator is whatever the
\* buffer held before; one token of it is all the parser can be led to read.
At(text, i) == IF i <= Len(text) THEN text[i] ELSE "end"

\* What MakeFactor, MakeTerm and MakeExpression leave: whether they succeeded,
\* the position of m_CurToken and the value of the tree.
Made(ok, at, val) == [ok |-> ok, at |-> at, value |-> val]

RECURSIVE MakeFactor(_, _), MakeTerm(_, _), MakeNots(_, _),
          MakeExpression(_, _), MakeConditionals(_, _)

\* A slip: the closing parenthesis is not taken.
MakeFactorKeepsParen(text, i) ==
  CASE At(text, i) = "(" -> MakeExpression(text, i + 1)
    [] At(text, i) \in Literal -> Made(TRUE, i + 1, At(text, i) = "1")
    [] At(text, i) = "!" -> Made(TRUE, i, FALSE)
    [] OTHER -> Made(FALSE, i, FALSE)

\* A parenthesis takes the token after its expression, whatever that is, and
\* a NOT leaves the tree unmade and is not taken.
MakeFactor(text, i) ==
  CASE At(text, i) = "(" ->
         LET e == MakeExpression(text, i + 1) IN Made(e.ok, e.at + 1, e.value)
    [] At(text, i) \in Literal -> Made(TRUE, i + 1, At(text, i) = "1")
    [] At(text, i) = "!" -> Made(TRUE, i, FALSE)
    [] OTHER -> Made(FALSE, i, FALSE)

\* The loop of MakeTerm: a NOT has what stood before it as its left child,
\* which SimplifyNode does not look at.
MakeNots(text, left) ==
  IF ~left.ok \/ At(text, left.at) # "!" THEN left
  ELSE LET f == MakeFactor(text, left.at + 1)
       IN  MakeNots(text, Made(f.ok, f.at, ~f.value))

MakeTerm(text, i) == MakeNots(text, MakeFactor(text, i))

\* The loop of MakeExpression: each operator takes the tree so far as its
\* left child and the next term as its right child.
MakeConditionals(text, left) ==
  IF ~left.ok THEN left
  ELSE CASE At(text, left.at) = "&" -> Made(FALSE, left.at, left.value)
         [] At(text, left.at) \in {"&&", "||"} ->
              LET t == MakeTerm(text, left.at + 1)
                  v == IF At(text, left.at) = "&&" THEN left.value /\ t.value
                       ELSE left.value \/ t.value
              IN  MakeConditionals(text, Made(t.ok, t.at, v))
         [] OTHER -> left

MakeExpression(text, i) == MakeConditionals(text, MakeTerm(text, i))

-----------------------------------------------------------------------------

ExprTypeOK ==
  /\ pInfixExpression \in Seq(Token)
  /\ evaluated \in BOOLEAN
  /\ bValid \in BOOLEAN
  /\ bResult \in BOOLEAN
  /\ ~bValid => ~bResult

ExprInit ==
  /\ pInfixExpression = <<>>
  /\ evaluated = FALSE
  /\ bValid = FALSE
  /\ bResult = FALSE

\* The script, one token after another.
Extend ==
  /\ ~evaluated
  /\ Len(pInfixExpression) < MaxLength
  /\ \E t \in Token : pInfixExpression' = Append(pInfixExpression, t)
  /\ UNCHANGED <<evaluated, bValid, bResult>>

\* A slip: the tree is simplified also when building it has failed.
EvaluateAnyway ==
  /\ ~evaluated
  /\ pInfixExpression # <<>>
  /\ \E stale \in Token :
       LET e == MakeExpression(pInfixExpression \o <<"end", stale>>, 1)
       IN  /\ bValid' = e.ok
           /\ bResult' = e.value
  /\ evaluated' = TRUE
  /\ UNCHANGED pInfixExpression

\* Evaluate, for some token after the terminator.  EvaluateConditionalExpression
\* does not evaluate a condition that is empty, and starts from false.
Evaluate ==
  /\ ~evaluated
  /\ pInfixExpression # <<>>
  /\ \E stale \in Token :
       LET e == MakeExpression(pInfixExpression \o <<"end", stale>>, 1)
       IN  /\ bValid' = e.ok
           /\ bResult' = (e.ok /\ e.value)
  /\ evaluated' = TRUE
  /\ UNCHANGED pInfixExpression

Evaluated == evaluated /\ UNCHANGED exprVars

ExprNext == Extend \/ Evaluate \/ Evaluated

ExprSpec == ExprInit /\ [][ExprNext]_exprVars

-----------------------------------------------------------------------------
(***************************************************************************)
(* The reference grammars.  Each says of a whole sequence of tokens which  *)
(* values it can have, by how it can be split; none means that it is not   *)
(* an expression.                                                          *)
(***************************************************************************)
Splits(s, ops, L(_), R(_)) ==
  UNION {{IF s[k] = "&&" THEN x /\ y ELSE x \/ y :
            x \in L(SubSeq(s, 1, k - 1)), y \in R(SubSeq(s, k + 1, Len(s)))} :
         k \in {j \in DOMAIN s : s[j] \in ops}}

\* A literal, a negation or an expression in parentheses.
Primary(s, Inner(_), Negated(_)) ==
  CASE s = <<>> -> {}
    [] Len(s) = 1 /\ s[1] \in Literal -> {s[1] = "1"}
    [] s[1] = "!" -> {~x : x \in Negated(Tail(s))}
    [] Len(s) > 2 /\ s[1] = "(" /\ s[Len(s)] = ")" -> Inner(SubSeq(s, 2, Len(s) - 1))
    [] OTHER -> {}

\* The grammar of the comments in the code, <term> { <cond> <term> }: && and
\* || bind alike, from left to right.
RECURSIVE FlatUnary(_), Flat(_)
FlatUnary(s) == Primary(s, Flat, FlatUnary)
Flat(s) == FlatUnary(s) \cup Splits(s, {"&&", "||"}, Flat, FlatUnary)

\* C's: && binds more tightly than ||.
RECURSIVE CUnary(_), CAnd(_), COr(_)
CUnary(s) == Primary(s, COr, CUnary)
CAnd(s) == CUnary(s) \cup Splits(s, {"&&"}, CAnd, CUnary)
COr(s) == CAnd(s) \cup Splits(s, {"||"}, COr, CAnd)

Doubled(s) == \E k \in 1..(Len(s) - 1) : s[k] = "!" /\ s[k + 1] = "!"

\* How many parentheses are open after the first k tokens.
Depth(s, k) ==
  Cardinality({j \in 1..k : s[j] = "("}) - Cardinality({j \in 1..k : s[j] = ")"})

\* An && after an || between the same parentheses.
OrThenAnd(s) ==
  \E i, j \in 1..Len(s) :
    /\ i < j /\ s[i] = "||" /\ s[j] = "&&"
    /\ Depth(s, i) = Depth(s, j)
    /\ \A k \in i..j : Depth(s, k) >= Depth(s, i)

(***************************************************************************)
(* Every expression of the grammar in the comments, however its            *)
(* parentheses and negations are nested, is accepted, and its value is     *)
(* that of this grammar, whatever follows it in the buffer; a negation of  *)
(* a negation is left out.                                                 *)
(*                                                                         *)
(* The head of the file says that it "Evaluates C style infix parenthetic  *)
(* logical expressions" (src/tier1/exprevaluator.cpp:4).  Their value is   *)
(* that of C unless an && follows an || between the same parentheses: the  *)
(* code gives the two one precedence, so that 1 || 0 && 0 is false.        *)
(***************************************************************************)
LeftToRight ==
  evaluated /\ Flat(pInfixExpression) # {} /\ ~Doubled(pInfixExpression) =>
    /\ bValid
    /\ bResult \in Flat(pInfixExpression)
    /\ ~OrThenAnd(pInfixExpression) => bResult \in COr(pInfixExpression)
=============================================================================
