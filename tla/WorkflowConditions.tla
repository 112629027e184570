------------------------- MODULE WorkflowConditions -------------------------
(***************************************************************************)
(* The conditions of the steps (evaluateCondition of                       *)
(* frontend/src/stores/workflows.ts): the parser, and what it should find. *)
(*                                                                         *)
(* A token is a record with its type, that of a reference also with the    *)
(* step and with what it asks of it, a status or "outputs".                *)
(***************************************************************************)
EXTENDS Workflow

CONSTANT Forest      \* the expressions that may be written, see below

-----------------------------------------------------------------------------
(* The parser, a recursive descent.  A call names the function and the token it
   begins at; the rest of a loop behind its operator is a call too, with the
   value so far.  It returns a value and the token behind it.  Whatever is
   called has consumed a token first, and P is what is called then: so the
   parser is a recursive function, over the tokens it may still consume.   *)

Tok(type) == [type |-> type]
Result(value, at) == [value |-> value, at |-> at]
Call(fn, at, left) == [fn |-> fn, at |-> at, left |-> left]
Calls(toks) == [fn : {"or", "orTurn", "andTurn", "not"}, at : 1..(Len(toks) + 1), left : BOOLEAN]

StepRef(t, st) ==
  IF t.is = "outputs" THEN t.step \in st.outputs
                      ELSE t.step \in DOMAIN st.status /\ st.status[t.step] = t.is

Peek(toks, i) == IF i <= Len(toks) THEN toks[i].type ELSE "end"
Skip(toks, i, type) == IF Peek(toks, i) = type THEN i + 1 ELSE i

ParsePrimary(P, toks, i, st) ==
  CASE Peek(toks, i) = "true" -> Result(TRUE, i + 1)
    [] Peek(toks, i) = "false" -> Result(FALSE, i + 1)
    [] Peek(toks, i) = "ref" -> Result(StepRef(toks[i], st), i + 1)
    [] Peek(toks, i) = "lparen" ->
         LET v == P[Call("or", i + 1, FALSE)] IN Result(v.value, Skip(toks, v.at, "rparen"))
    [] OTHER -> Result(FALSE, i)

ParseNot(P, toks, i, st) ==
  IF Peek(toks, i) = "not" THEN LET v == P[Call("not", i + 1, FALSE)] IN Result(~v.value, v.at)
                           ELSE ParsePrimary(P, toks, i, st)

AndLoop(P, toks, left) ==
  IF Peek(toks, left.at) = "and" THEN P[Call("andTurn", left.at + 1, left.value)] ELSE left
ParseAnd(P, toks, i, st) == AndLoop(P, toks, ParseNot(P, toks, i, st))
AndTurn(P, toks, i, left, st) ==
  LET v == ParseNot(P, toks, i, st) IN AndLoop(P, toks, Result(v.value /\ left, v.at))

OrLoop(P, toks, left) ==
  IF Peek(toks, left.at) = "or" THEN P[Call("orTurn", left.at + 1, left.value)] ELSE left
ParseOr(P, toks, i, st) == OrLoop(P, toks, ParseAnd(P, toks, i, st))

\* Mutant: the operand behind || is parsed like that of &&.
OrTurnFlat(P, toks, i, left, st) ==
  LET v == ParseNot(P, toks, i, st) IN OrLoop(P, toks, Result(v.value \/ left, v.at))

OrTurn(P, toks, i, left, st) ==
  LET v == ParseAnd(P, toks, i, st) IN OrLoop(P, toks, Result(v.value \/ left, v.at))

Called(P, toks, c, st) ==
  CASE c.fn = "or" -> ParseOr(P, toks, c.at, st)
    [] c.fn = "orTurn" -> OrTurn(P, toks, c.at, c.left, st)
    [] c.fn = "andTurn" -> AndTurn(P, toks, c.at, c.left, st)
    [] c.fn = "not" -> ParseNot(P, toks, c.at, st)

\* What the calls return when there are at most n - 1 tokens left for them.
Parser(toks, st) ==
  LET Parse[n \in 0..(Len(toks) + 1)] ==
        IF n = 0 THEN [c \in Calls(toks) |-> Result(FALSE, c.at)]
        ELSE [c \in Calls(toks) |-> Called(Parse[n - 1], toks, c, st)]
  IN Parse

\* An absent condition holds, and so does one that does not look like an
\* expression: neither has a token.
EvaluateCondition(toks, st) ==
  toks = <<>> \/ Parser(toks, st)[Len(toks) + 1][Call("or", 1, FALSE)].value

-----------------------------------------------------------------------------
(* What an expression means.  Forest is a sequence of nodes, each behind the
   operands l and r it has, with the tokens it is written in.  ! binds stronger
   than &&, and && than ||, both from the left: a weaker operand is written in
   parentheses, which are a node of their own.                             *)

Strength(op) == CASE op = "or" -> 1 [] op = "and" -> 2 [] op = "not" -> 3 [] OTHER -> 4

\* The operands an operator has, and how strong each must bind.
Left(op) == CASE op = "or" -> 1 [] op = "and" -> 2 [] op = "not" -> 3 [] op = "parens" -> 1 [] OTHER -> 0
Right(op) == CASE op = "or" -> 2 [] op = "and" -> 3 [] OTHER -> 0

Spelled(op, l, r) ==
  CASE op = "not" -> <<Tok("not")>> \o l
    [] op = "parens" -> <<Tok("lparen")>> \o l \o <<Tok("rparen")>>
    [] OTHER -> l \o <<Tok(op)>> \o r

Atom == {"true", "false", "ref"}
Token ==
  [type : {"or", "and", "not", "lparen", "rparen", "true", "false"}]
    \cup [type : {"ref"}, step : Step, is : Status \cup {"outputs"}]
Node == [op : Atom \cup {"or", "and", "not", "parens"}, l : Nat, r : Nat, toks : Seq(Token)]

\* The node e is written well behind the nodes before k.
WellFormed(e, k) ==
  IF e.op \in Atom THEN Len(e.toks) = 1 /\ e.toks[1].type = e.op
  ELSE /\ e.l \in 1..(k - 1) /\ e.r \in 1..(k - 1)
       /\ Strength(Forest[e.l].op) >= Left(e.op) /\ Strength(Forest[e.r].op) >= Right(e.op)
       /\ e.toks = Spelled(e.op, Forest[e.l].toks, Forest[e.r].toks)

\* expr is the node of a condition, 0 when there is none: the condition is
\* absent, or it is malformed.
ASSUME ConditionAssumption ==
  /\ Forest \in Seq(Node)
  /\ \A k \in DOMAIN Forest : WellFormed(Forest[k], k)
  /\ \A d \in Definitions : \A s \in Step :
       /\ d.expr[s] \in {0} \cup DOMAIN Forest
       /\ d.expr[s] # 0 => d.condition[s] = Forest[d.expr[s]].toks

Meaning(k, st) ==
  LET M[n \in 1..Len(Forest)] ==
        LET e == Forest[n]
        IN CASE e.op = "or" -> M[e.l] \/ M[e.r]
             [] e.op = "and" -> M[e.l] /\ M[e.r]
             [] e.op = "not" -> ~M[e.l]
             [] e.op = "parens" -> M[e.l]
             [] e.op = "ref" -> StepRef(e.toks[1], st)
             [] OTHER -> e.op = "true"
  IN M[k]

\* The parser finds the meaning of every well-formed condition, at every moment
\* of a run, whatever has ended until then.
ConditionsMean ==
  \A r \in Run : \A s \in DOMAIN run[r].status :
    def.expr[s] # 0 => (EvaluateCondition(def.condition[s], run[r]) <=> Meaning(def.expr[s], run[r]))
=============================================================================
