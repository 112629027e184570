----------------------------- MODULE MCWorkflow -----------------------------
(***************************************************************************)
(* Three families of definitions: every graph over three steps; every      *)
(* condition of a small depth on the last of them; and two workflows that  *)
(* trigger one another in every way.                                       *)
(***************************************************************************)
EXTENDS WorkflowConditions, TLC

CONSTANTS a, b, x, y, z, main, ai

Alone == a :> "never" @@ b :> "never"
NoDeps == [s \in Step |-> <<>>]

Ref(s, is) == [type |-> "ref", step |-> s, is |-> is]

\* Expressions, the smaller ones first: those over the atoms, the same in
\* parentheses, and then these in every place of an operator beside an atom.
Leaf(t) == [op |-> t.type, l |-> 0, r |-> 0, toks |-> <<t>>]
Inner(F, op, l, r) == [op |-> op, l |-> l, r |-> r, toks |-> Spelled(op, F[l].toks, F[r].toks)]

\* F and, behind it, all expressions op with m left operands from l on and n
\* right ones from r on that bind strongly enough.
Grow(F, op, l, m, r, n) ==
  LET Binds(e) == Strength(F[e.l].op) >= Left(op) /\ Strength(F[e.r].op) >= Right(op)
  IN F \o SelectSeq([i \in 1..(m * n) |-> Inner(F, op, l + (i - 1) \div n, r + ((i - 1) % n))], Binds)

Small ==
  LET F == <<Leaf(Ref(x, "success")), Leaf(Ref(y, "failed")), Leaf(Ref(x, "outputs")), Leaf(Tok("true"))>>
  IN Grow(Grow(Grow(F, "not", 1, 4, 1, 1), "or", 1, 4, 1, 4), "and", 1, 4, 1, 4)
Wrapped == Grow(Small, "parens", 9, 32, 1, 1)
Beside(op, F) == Grow(Grow(F, op, 5, 68, 2, 1), op, 1, 1, 5, 68)
Expressions == Beside("or", Beside("and", Grow(Wrapped, "not", 5, 68, 1, 1)))

\* Nor does the parser mind what is not an expression.
Malformed ==
  {<<Tok("and")>>, <<Ref(x, "success"), Tok("and")>>, <<Tok("not")>>,
   <<Tok("lparen"), Tok("true"), Tok("or"), Tok("rparen"), Tok("false")>>}

Def(steps, deps, trigger, tolerated) ==
  [steps |-> steps, dependsOn |-> deps, trigger |-> trigger, tolerated |-> tolerated,
   templates |-> {x}, condition |-> NoDeps, expr |-> [s \in Step |-> 0]]

Graphs ==
  {Def(a :> <<x, y, z>> @@ b :> <<>>, deps, Alone, {z}) :
     deps \in [Step -> {SetToSeq(S) : S \in SUBSET Step}]}

With(d, s, k) == [d EXCEPT !.expr[s] = k, !.condition[s] = Expressions[k].toks]
Conditional ==
  LET d == Def(a :> <<x, y, z>> @@ b :> <<>>, NoDeps, Alone, {x, y})
  IN {With(d, z, k) : k \in DOMAIN Expressions} \cup {[d EXCEPT !.condition[z] = toks] : toks \in Malformed}

\* The steps of b are switched off, so that b only passes the chain on.
Chained ==
  {[Def(a :> <<x>> @@ b :> <<y>>, NoDeps, a :> t @@ b :> u, {}) EXCEPT !.condition[y] = <<Tok("false")>>] :
     t \in {"saved", "any"}, u \in {"any", a}}

AllDefinitions == Graphs \cup Conditional \cup Chained

\* (TLC keeps the value of a definition, not that of a constant.)
MCForest == Expressions
MCDefinitions == AllDefinitions
=============================================================================
