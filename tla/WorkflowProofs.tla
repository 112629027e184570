--------------------------- MODULE WorkflowProofs ---------------------------
(***************************************************************************)
(* Proofs about Workflow, for any definitions, windows and conditions, and *)
(* about WorkflowConditions, for any well-formed expressions.              *)
(***************************************************************************)
EXTENDS WorkflowConditions, FiniteSetTheorems, TLAPS

-----------------------------------------------------------------------------
(* The search                                                              *)

LEMMA NatIsInductive ==
  ASSUME NEW T, 0 \in T, \A n \in Nat : n \in T => n + 1 \in T
  PROVE  \A n \in Nat : n \in T
<1> DEFINE U == {n \in Nat : n \notin T}
           Below == {ss \in Nat \X Nat : ss[1] < ss[2]}
<1> SUFFICES ASSUME U # {} PROVE FALSE
  OBVIOUS
<1>1. PICK x \in U : \A y \in U : <<y, x>> \notin Below
  <2>1. U \subseteq Nat
    OBVIOUS
  <2>2. IsWellFoundedOn(Below, Nat)
    BY NatLessThanWellFounded DEF OpToRel
  <2> HIDE DEF U, Below
  <2>3. QED
    BY <2>1, <2>2, WFMin
<1>2. x # 0 /\ x - 1 \in Nat /\ (x - 1) + 1 = x /\ x - 1 < x
  OBVIOUS
<1>3. <<x - 1, x>> \in Below
  BY <1>2
<1>4. x - 1 \in T
  BY <1>1, <1>2, <1>3
<1>5. QED
  BY <1>2, <1>4

\* The recursive function of the search exists, so that it does what its
\* definition says.
Extends(steps, f, m) ==
  f = [n \in 0..m |-> IF n = 0 THEN StartSort(steps)
                      ELSE CHOOSE t \in {Turn(steps, st) : st \in {f[n - 1]}} : TRUE]

LEMMA SearchExists ==
  ASSUME NEW steps
  PROVE  \A m \in Nat : \E f : Extends(steps, f, m)
<1> DEFINE T == {m \in Nat : \E f : Extends(steps, f, m)}
           After(st) == CHOOSE t \in {Turn(steps, u) : u \in {st}} : TRUE
<1>1. 0 \in T
  <2> DEFINE f == [n \in 0..0 |-> StartSort(steps)]
  <2>1. Extends(steps, f, 0)
    BY DEF Extends
  <2>2. QED
    BY <2>1
<1>2. ASSUME NEW m \in Nat, m \in T PROVE m + 1 \in T
  <2>1. PICK f : Extends(steps, f, m)
    BY <1>2
  <2> DEFINE g == [n \in 0..(m + 1) |-> IF n = m + 1 THEN After(f[m]) ELSE f[n]]
             h == [n \in 0..(m + 1) |-> IF n = 0 THEN StartSort(steps) ELSE After(g[n - 1])]
  <2>2. \A n \in 0..m : f[n] = IF n = 0 THEN StartSort(steps) ELSE After(f[n - 1])
    BY <2>1 DEF Extends
  <2>3. ASSUME NEW n \in 0..(m + 1) PROVE g[n] = h[n]
    <3> HIDE DEF After
    <3>1. CASE n = m + 1
      <4>1. g[n] = After(f[m]) /\ h[n] = After(g[m]) /\ g[m] = f[m]
        BY <3>1
      <4>2. QED
        BY <4>1
    <3>2. CASE n \in 0..m /\ n # 0
      <4>1. g[n] = f[n] /\ g[n - 1] = f[n - 1] /\ h[n] = After(g[n - 1])
        BY <3>2
      <4>2. QED
        BY <4>1, <3>2, <2>2
    <3>3. CASE n = 0
      BY <3>3, <2>2
    <3>4. QED
      BY <3>1, <3>2, <3>3
  <2>4. g = h
    <3> HIDE DEF After
    <3>1. QED
      BY <2>3
  <2>5. Extends(steps, g, m + 1)
    <3> HIDE DEF g
    <3>1. QED
      BY <2>4 DEF Extends
  <2>6. QED
    BY <2>5
<1>3. \A m \in Nat : m \in T
  <2> HIDE DEF T
  <2>1. QED
    BY <1>1, <1>2, NatIsInductive
<1>4. QED
  BY <1>3

\* Every turn of the search goes on from the one before.
LEMMA SearchTurns ==
  ASSUME NEW steps
  PROVE  /\ Sorting(steps)[0] = StartSort(steps)
         /\ \A n \in 0..MaxTurns : n # 0 =>
              Sorting(steps)[n] = Turn(steps, Sorting(steps)[n - 1])
<1> DEFINE f == Sorting(steps)
<1>1. Extends(steps, f, MaxTurns)
  <2>1. \E g : Extends(steps, g, MaxTurns)
    BY SearchExists, WorkflowAssumption
  <2>2. f = CHOOSE g : Extends(steps, g, MaxTurns)
    BY DEF Sorting, Extends
  <2>3. QED
    BY <2>1, <2>2
<1>2. ASSUME NEW st PROVE (CHOOSE t \in {Turn(steps, u) : u \in {st}} : TRUE) = Turn(steps, st)
  OBVIOUS
<1> HIDE DEF f
<1>3. f[0] = StartSort(steps)
  BY <1>1, WorkflowAssumption DEF Extends
<1>4. ASSUME NEW n \in 0..MaxTurns, n # 0 PROVE f[n] = Turn(steps, f[n - 1])
  <2>1. f[n] = CHOOSE t \in {Turn(steps, u) : u \in {f[n - 1]}} : TRUE
    BY <1>1, <1>4 DEF Extends
  <2>2. QED
    BY <2>1, <1>2
<1>5. QED
  BY <1>3, <1>4 DEF f


\* What holds between two turns, for the steps of a workflow.  The result is
\* ordered so far; the open calls are of distinct steps that are not in it yet,
\* the outermost is the loop; and what a call needs is in the result, still to
\* be visited, or being visited by the call it made.
Needs(steps, s) == IF s = "loop" THEN ToSet(steps) ELSE ToSet(def.dependsOn[s])

InOrder(steps, q) ==
  /\ \A i \in DOMAIN q : q[i] \in ToSet(steps)
  /\ \A i, j \in DOMAIN q : q[i] = q[j] => i = j
  /\ \A i \in DOMAIN q : \A d \in ToSet(def.dependsOn[q[i]]) : \E j \in 1..(i - 1) : q[j] = d

OpenCalls(steps, st) ==
  /\ \A i \in DOMAIN st.calls :
       /\ st.calls[i].step = "loop" <=> i = Len(st.calls)
       /\ st.calls[i].step # "loop" => st.calls[i].step \in ToSet(steps) \ ToSet(st.result)
  /\ \A i, j \in DOMAIN st.calls : st.calls[i].step = st.calls[j].step => i = j

NothingForgotten(steps, st) ==
  /\ \A i \in DOMAIN st.calls : \A d \in Needs(steps, st.calls[i].step) :
       d \in ToSet(st.result) \/ d \in ToSet(st.calls[i].todo) \/ (i > 1 /\ d = st.calls[i - 1].step)
  /\ st.calls = <<>> => ToSet(steps) \subseteq ToSet(st.result)

VisitCall == [step : Step \cup {"loop"}, todo : Seq(Step)]
SearchState == [ok : BOOLEAN, calls : Seq(VisitCall), result : Seq(Step)]
SearchInv(steps, st) ==
  st \in SearchState /\ InOrder(steps, st.result) /\ OpenCalls(steps, st) /\ NothingForgotten(steps, st)

LEMMA AppendFacts ==
  ASSUME NEW S, NEW q \in Seq(S), NEW e \in S
  PROVE  /\ Append(q, e) \in Seq(S)
         /\ DOMAIN Append(q, e) = DOMAIN q \cup {Len(q) + 1}
         /\ \A i \in DOMAIN q : Append(q, e)[i] = q[i]
         /\ Append(q, e)[Len(q) + 1] = e
         /\ ToSet(Append(q, e)) = ToSet(q) \cup {e}
<1>1. /\ Append(q, e) \in Seq(S)
      /\ DOMAIN Append(q, e) = DOMAIN q \cup {Len(q) + 1}
      /\ \A i \in DOMAIN q : Append(q, e)[i] = q[i]
      /\ Append(q, e)[Len(q) + 1] = e
  OBVIOUS
<1>2. QED
  BY <1>1 DEF ToSet

LEMMA TailFacts ==
  ASSUME NEW S, NEW q \in Seq(S), q # <<>>
  PROVE  /\ Tail(q) \in Seq(S) /\ Head(q) \in S /\ Len(Tail(q)) = Len(q) - 1 /\ Len(q) \in Nat \ {0}
         /\ DOMAIN Tail(q) = 1..(Len(q) - 1) /\ DOMAIN q = 1..Len(q) /\ Head(q) = q[1]
         /\ \A i \in 1..(Len(q) - 1) : Tail(q)[i] = q[i + 1]
         /\ ToSet(q) = {Head(q)} \cup ToSet(Tail(q))
<1>1. /\ Tail(q) \in Seq(S) /\ Head(q) \in S /\ Len(Tail(q)) = Len(q) - 1 /\ Len(q) \in Nat \ {0}
      /\ DOMAIN Tail(q) = 1..(Len(q) - 1) /\ DOMAIN q = 1..Len(q) /\ Head(q) = q[1]
      /\ \A i \in 1..(Len(q) - 1) : Tail(q)[i] = q[i + 1]
  OBVIOUS
<1>2. ASSUME NEW e \in ToSet(q) PROVE e \in {Head(q)} \cup ToSet(Tail(q))
  <2>1. PICK i \in 1..Len(q) : q[i] = e
    BY <1>1 DEF ToSet
  <2>2. CASE i = 1
    BY <2>1, <2>2, <1>1
  <2>3. CASE i # 1
    <3>1. i - 1 \in DOMAIN Tail(q) /\ Tail(q)[i - 1] = e
      BY <2>1, <2>3, <1>1
    <3>2. QED
      BY <3>1 DEF ToSet
  <2>4. QED
    BY <2>2, <2>3
<1>3. ASSUME NEW e \in {Head(q)} \cup ToSet(Tail(q)) PROVE e \in ToSet(q)
  <2>1. CASE e = Head(q)
    BY <2>1, <1>1 DEF ToSet
  <2>2. CASE e \in ToSet(Tail(q))
    <3>1. PICK i \in 1..(Len(q) - 1) : Tail(q)[i] = e
      BY <2>2, <1>1 DEF ToSet
    <3>2. i + 1 \in DOMAIN q /\ q[i + 1] = e
      BY <3>1, <1>1
    <3>3. QED
      BY <3>2 DEF ToSet
  <2>3. QED
    BY <1>3, <2>1, <2>2
<1>4. QED
  BY <1>1, <1>2, <1>3

LEMMA InOrderAppend ==
  ASSUME NEW steps, NEW q \in Seq(Step), InOrder(steps, q), NEW s \in Step,
         s \in ToSet(steps) \ ToSet(q), ToSet(def.dependsOn[s]) \subseteq ToSet(q)
  PROVE  InOrder(steps, Append(q, s))
<1> DEFINE p == Append(q, s)
<1>1. /\ DOMAIN p = DOMAIN q \cup {Len(q) + 1} /\ DOMAIN q = 1..Len(q) /\ Len(q) \in Nat
      /\ \A i \in DOMAIN q : p[i] = q[i]
      /\ p[Len(q) + 1] = s
      /\ \A i \in DOMAIN q : q[i] # s
  BY AppendFacts DEF ToSet
<1> HIDE DEF p
<1>i. \A i \in DOMAIN q : \A d \in ToSet(def.dependsOn[q[i]]) : \E j \in 1..(i - 1) : q[j] = d
  BY DEF InOrder
<1>2. \A i \in DOMAIN p : p[i] \in ToSet(steps)
  BY <1>1 DEF InOrder
<1>3. \A i, j \in DOMAIN p : p[i] = p[j] => i = j
  BY <1>1 DEF InOrder
<1>4. ASSUME NEW i \in DOMAIN p, NEW d \in ToSet(def.dependsOn[p[i]])
      PROVE  \E j \in 1..(i - 1) : p[j] = d
  <2>1. CASE i \in DOMAIN q
    <3>1. PICK j \in 1..(i - 1) : q[j] = d
      BY <1>1, <1>i, <1>4, <2>1
    <3>2. j \in DOMAIN q
      BY <1>1, <2>1
    <3>3. QED
      BY <1>1, <3>1, <3>2
  <2>2. CASE i = Len(q) + 1
    <3>0. d \in ToSet(q)
      BY <1>1, <1>4, <2>2
    <3>1. PICK j \in DOMAIN q : q[j] = d
      BY <3>0 DEF ToSet
    <3>2. QED
      BY <3>1, <1>1, <2>2
  <2>3. QED
    BY <1>1, <2>1, <2>2
<1>5. QED
  BY <1>2, <1>3, <1>4 DEF InOrder, p

LEMMA CallUpdate ==
  ASSUME NEW c \in VisitCall, c.todo # <<>>
  PROVE  /\ [c EXCEPT !.todo = Tail(@)] \in VisitCall
         /\ [c EXCEPT !.todo = Tail(@)].step = c.step
         /\ [c EXCEPT !.todo = Tail(@)].todo = Tail(c.todo)
<1>1. c.todo \in Seq(Step)
  BY DEF VisitCall
<1>2. Tail(c.todo) \in Seq(Step)
  BY <1>1
<1>3. QED
  BY <1>2 DEF VisitCall

LEMMA SearchBegins ==
  ASSUME NEW steps \in Seq(Step)
  PROVE  SearchInv(steps, StartSort(steps))
<1> DEFINE st == StartSort(steps)
           c == [step |-> "loop", todo |-> steps]
<1>1. st \in SearchState /\ st.result = <<>> /\ st.calls = <<c>> /\ c \in VisitCall
  BY DEF SearchState, StartSort, VisitCall
<1>2. Len(st.calls) = 1 /\ st.calls[1] = c /\ DOMAIN st.calls = {1} /\ DOMAIN st.result = {}
  BY <1>1
<1>3. st.calls # <<>>
  BY <1>1
<1> HIDE DEF st
<1>4. InOrder(steps, st.result)
  BY <1>2 DEF InOrder
<1>5. OpenCalls(steps, st)
  BY <1>2 DEF OpenCalls
<1>6. NothingForgotten(steps, st)
  BY <1>2, <1>3 DEF NothingForgotten, Needs
<1>7. QED
  BY <1>1, <1>4, <1>5, <1>6 DEF SearchInv, st

LEMMA SearchTurn ==
  ASSUME NEW steps \in Seq(Step), NEW st, SearchInv(steps, st), def \in Definitions
  PROVE  SearchInv(steps, Turn(steps, st))
<1> DEFINE c == st.calls[1]
           s == c.step
           todo == c.todo
           n == Turn(steps, st)
<1> SUFFICES ASSUME st.ok, st.calls # <<>> PROVE SearchInv(steps, n)
  BY DEF Turn
<1>1. n = Visit(steps, st)
  BY DEF Turn
<1>t. /\ st \in SearchState /\ InOrder(steps, st.result) /\ OpenCalls(steps, st)
      /\ NothingForgotten(steps, st)
  BY DEF SearchInv
<1>2. /\ st.calls \in Seq(VisitCall) /\ st.result \in Seq(Step) /\ c \in VisitCall /\ todo \in Seq(Step)
      /\ s \in Step \cup {"loop"} /\ Len(st.calls) \in Nat \ {0} /\ DOMAIN st.calls = 1..Len(st.calls)
      /\ 1 \in DOMAIN st.calls
  <2>1. st.calls \in Seq(VisitCall) /\ st.result \in Seq(Step)
    BY <1>t DEF SearchState
  <2>2. Len(st.calls) \in Nat \ {0} /\ DOMAIN st.calls = 1..Len(st.calls) /\ 1 \in DOMAIN st.calls
    BY <2>1
  <2>3. c \in VisitCall
    BY <2>1, <2>2
  <2>4. QED
    BY <2>1, <2>2, <2>3 DEF VisitCall
<1>3. ASSUME NEW d \in Step PROVE def.dependsOn[d] \in Seq(Step)
  BY WorkflowAssumption
<1>l. Len(st.calls) \in Nat \ {0} /\ DOMAIN st.calls = 1..Len(st.calls)
  BY <1>2
<1>o. /\ \A i \in 1..Len(st.calls) :
           /\ st.calls[i].step = "loop" <=> i = Len(st.calls)
           /\ st.calls[i].step # "loop" => st.calls[i].step \in ToSet(steps) \ ToSet(st.result)
      /\ \A i, j \in 1..Len(st.calls) : st.calls[i].step = st.calls[j].step => i = j
  BY <1>l, <1>t DEF OpenCalls
<1>f. \A i \in 1..Len(st.calls) : \A d \in Needs(steps, st.calls[i].step) :
        \/ d \in ToSet(st.result) \/ d \in ToSet(st.calls[i].todo)
        \/ i > 1 /\ d = st.calls[i - 1].step
  BY <1>l, <1>t DEF NothingForgotten
<1>r. /\ Tail(st.calls) \in Seq(VisitCall) /\ DOMAIN Tail(st.calls) = 1..(Len(st.calls) - 1)
      /\ Len(Tail(st.calls)) = Len(st.calls) - 1
      /\ \A i \in 1..(Len(st.calls) - 1) : Tail(st.calls)[i] = st.calls[i + 1]
  BY <1>2, TailFacts
<1>4. CASE todo = <<>> /\ s = "loop"
  <2>1. n = [st EXCEPT !.calls = Tail(@)]
    BY <1>1, <1>4 DEF Visit, Return
  <2>2. Len(st.calls) = 1
    BY <1>t, <1>2, <1>4 DEF OpenCalls
  <2>3. n \in SearchState /\ n.calls = Tail(st.calls) /\ n.result = st.result /\ n.ok = st.ok
    BY <2>1, <1>t, <1>r DEF SearchState
  <2>4. n.calls = <<>> /\ DOMAIN n.calls = {}
    BY <2>2, <2>3, <1>2, <1>r
  <2>5. ToSet(steps) \subseteq ToSet(st.result)
    <3>1. ToSet(todo) = {}
      BY <1>4 DEF ToSet
    <3>2. QED
      BY <3>1, <1>t, <1>2, <1>4 DEF NothingForgotten, Needs
  <2> HIDE DEF n
  <2>6. QED
    BY <2>3, <2>4, <2>5, <1>t DEF SearchInv, OpenCalls, NothingForgotten
<1>5. CASE todo = <<>> /\ s # "loop"
  <2>1. n = [[st EXCEPT !.calls = Tail(@)] EXCEPT !.result = Append(@, s)]
    BY <1>1, <1>5 DEF Visit, Return, Push
  <2>2. s \in Step /\ s \in ToSet(steps) \ ToSet(st.result) /\ Len(st.calls) > 1
    BY <1>t, <1>2, <1>5 DEF OpenCalls
  <2>3. /\ ToSet(Append(st.result, s)) = ToSet(st.result) \cup {s}
        /\ Append(st.result, s) \in Seq(Step)
    BY <1>2, <2>2, AppendFacts
  <2>4. n \in SearchState /\ n.calls = Tail(st.calls) /\ n.result = Append(st.result, s)
    BY <2>1, <2>3, <1>t, <1>r DEF SearchState
  <2>5. ToSet(def.dependsOn[s]) \subseteq ToSet(st.result)
    <3>1. ToSet(todo) = {}
      BY <1>5 DEF ToSet
    <3>2. QED
      BY <3>1, <1>t, <1>2, <1>5 DEF NothingForgotten, Needs
  <2>6. InOrder(steps, n.result)
    BY <2>2, <2>4, <2>5, <1>2, <1>t, InOrderAppend
  <2> HIDE DEF n
  <2>7. /\ DOMAIN n.calls = 1..(Len(st.calls) - 1) /\ Len(n.calls) = Len(st.calls) - 1
        /\ \A i \in DOMAIN n.calls : i + 1 \in DOMAIN st.calls /\ n.calls[i] = st.calls[i + 1]
        /\ ToSet(n.result) = ToSet(st.result) \cup {s}
    BY <2>3, <2>4, <1>r, <1>2
  <2>8. OpenCalls(steps, n)
    <3>1. ASSUME NEW i \in DOMAIN n.calls
          PROVE  /\ n.calls[i].step = "loop" <=> i = Len(n.calls)
                 /\ n.calls[i].step # "loop" => n.calls[i].step \in ToSet(steps) \ ToSet(n.result)
      <4>0. /\ i + 1 \in 1..Len(st.calls) /\ i + 1 # 1 /\ n.calls[i].step = st.calls[i + 1].step
            /\ i + 1 = Len(st.calls) <=> i = Len(n.calls)
        BY <2>7, <1>l
      <4>1. n.calls[i].step # s
        <5>1. 1 \in 1..Len(st.calls) /\ st.calls[1].step = s
          BY <1>2, <1>l
        <5>2. QED
          BY <4>0, <5>1, <1>o
      <4>2. n.calls[i].step = "loop" <=> i = Len(n.calls)
        BY <4>0, <1>o
      <4>3. n.calls[i].step # "loop" => n.calls[i].step \in ToSet(steps) \ ToSet(st.result)
        BY <4>0, <1>o
      <4>4. QED
        BY <4>1, <4>2, <4>3, <2>7
    <3>2. ASSUME NEW i \in DOMAIN n.calls, NEW j \in DOMAIN n.calls, n.calls[i].step = n.calls[j].step
          PROVE  i = j
      <4>0. /\ i + 1 \in 1..Len(st.calls) /\ j + 1 \in 1..Len(st.calls)
            /\ st.calls[i + 1].step = st.calls[j + 1].step
        BY <3>2, <2>7, <1>l
      <4>1. i + 1 = j + 1
        BY <4>0, <1>o
      <4>2. QED
        BY <4>1, <2>7, <1>l
    <3>3. QED
      BY <3>1, <3>2 DEF OpenCalls
  <2>9. NothingForgotten(steps, n)
    <3>1. ASSUME NEW i \in DOMAIN n.calls, NEW d \in Needs(steps, n.calls[i].step)
          PROVE  \/ d \in ToSet(n.result) \/ d \in ToSet(n.calls[i].todo)
                 \/ i > 1 /\ d = n.calls[i - 1].step
      <4>1. /\ i + 1 \in 1..Len(st.calls) /\ (i + 1) - 1 = i /\ n.calls[i] = st.calls[i + 1]
            /\ i > 1 => i - 1 \in DOMAIN n.calls /\ (i - 1) + 1 = i
        BY <2>7, <1>l
      <4>2. \/ d \in ToSet(st.result) \/ d \in ToSet(st.calls[i + 1].todo)
            \/ d = st.calls[i].step
        BY <3>1, <4>1, <1>f
      <4>3. i > 1 => n.calls[i - 1].step = st.calls[i].step
        BY <4>1, <2>7
      <4>4. i = 1 \/ i > 1
        BY <2>7, <1>l
      <4>5. QED
        BY <4>1, <4>2, <4>3, <4>4, <2>7
    <3>2. n.calls # <<>>
      BY <2>2, <2>7, <1>2
    <3>3. QED
      BY <3>1, <3>2 DEF NothingForgotten
  <2>10. QED
    BY <2>4, <2>6, <2>8, <2>9 DEF SearchInv
<1> DEFINE d == Head(todo)
<1>6. ASSUME todo # <<>>
      PROVE  /\ d \in Step /\ Tail(todo) \in Seq(Step)
             /\ ToSet(todo) = {d} \cup ToSet(Tail(todo))
  BY <1>6, <1>2, TailFacts
<1> DEFINE met == [c EXCEPT !.todo = Tail(@)]
<1>7. ASSUME todo # <<>>
      PROVE  /\ met \in VisitCall /\ met.step = s /\ met.todo = Tail(todo)
             /\ [st.calls EXCEPT ![1] = met] \in Seq(VisitCall)
             /\ Met(st).calls = [st.calls EXCEPT ![1] = met]
             /\ Met(st) = [st EXCEPT !.calls = [st.calls EXCEPT ![1] = met]]
  <2>1. met \in VisitCall /\ met.step = s /\ met.todo = Tail(todo)
    BY <1>2, <1>7, CallUpdate
  <2>3. Met(st) = [st EXCEPT !.calls = [st.calls EXCEPT ![1] = met]]
    BY <1>t DEF Met, SearchState
  <2>4. [st.calls EXCEPT ![1] = met] \in Seq(VisitCall)
    <3> HIDE DEF met
    <3>1. QED
      BY <2>1, <1>2
  <2>5. QED
    BY <2>1, <2>3, <2>4, <1>t DEF SearchState
<1>8. CASE todo # <<>> /\ d \in ToSet(st.result)
  <2>1. n = Met(st)
    BY <1>1, <1>8 DEF Visit
  <2>2. n \in SearchState /\ n.result = st.result /\ n.calls = [st.calls EXCEPT ![1] = met]
    <3> DEFINE rest == [st.calls EXCEPT ![1] = met]
    <3>1. n = [st EXCEPT !.calls = rest] /\ rest \in Seq(VisitCall)
      BY <2>1, <1>7, <1>8
    <3> HIDE DEF rest, n
    <3>2. n \in SearchState /\ n.result = st.result /\ n.calls = rest
      BY <3>1, <1>t DEF SearchState
    <3>3. QED
      BY <3>2 DEF rest, n
  <2>3. /\ DOMAIN n.calls = DOMAIN st.calls /\ Len(n.calls) = Len(st.calls)
        /\ \A i \in DOMAIN st.calls : n.calls[i].step = st.calls[i].step
        /\ \A i \in DOMAIN st.calls : i # 1 => n.calls[i].todo = st.calls[i].todo
        /\ n.calls[1].todo = Tail(todo) /\ n.calls # <<>>
    BY <2>2, <1>2
  <2> HIDE DEF n
  <2>4. OpenCalls(steps, n)
    BY <2>2, <2>3, <1>t DEF OpenCalls
  <2>5. NothingForgotten(steps, n)
    <3>1. ASSUME NEW i \in DOMAIN n.calls, NEW e \in Needs(steps, n.calls[i].step)
          PROVE  \/ e \in ToSet(n.result) \/ e \in ToSet(n.calls[i].todo)
                 \/ i > 1 /\ e = n.calls[i - 1].step
      <4>1. \/ e \in ToSet(st.result) \/ e \in ToSet(st.calls[i].todo)
            \/ i > 1 /\ e = st.calls[i - 1].step
        BY <3>1, <2>3, <1>t DEF NothingForgotten
      <4>2. i > 1 => i - 1 \in DOMAIN st.calls
        BY <2>3, <1>2
      <4>3. QED
        BY <4>1, <4>2, <2>2, <2>3, <1>6, <1>8
    <3>2. QED
      BY <3>1, <2>3 DEF NothingForgotten
  <2>6. QED
    BY <2>2, <2>4, <2>5, <1>t DEF SearchInv
<1>9. CASE /\ todo # <<>> /\ d \in ToSet(steps) \ ToSet(st.result)
           /\ ~InProgress(d, st)
  <2> DEFINE new == [step |-> d, todo |-> def.dependsOn[d]]
             rest == [st.calls EXCEPT ![1] = met]
  <2>1. new \in VisitCall /\ rest \in Seq(VisitCall) /\ Len(rest) = Len(st.calls) /\ DOMAIN rest = DOMAIN st.calls
    BY <1>2, <1>3, <1>6, <1>7, <1>9 DEF VisitCall
  <2>2. n = [st EXCEPT !.calls = <<new>> \o rest]
    <3>1. n = Enter(d, Met(st))
      BY <1>1, <1>9 DEF Visit
    <3>2. QED
      BY <3>1, <1>7, <1>9, <1>t DEF Enter, SearchState
  <2>3. n \in SearchState /\ n.result = st.result /\ n.calls = <<new>> \o rest
    <3>1. <<new>> \o rest \in Seq(VisitCall)
      BY <2>1
    <3>2. QED
      BY <2>2, <3>1, <1>t DEF SearchState
  <2>4. /\ Len(n.calls) = Len(st.calls) + 1 /\ DOMAIN n.calls = 1..(Len(st.calls) + 1)
        /\ n.calls[1] = new
        /\ \A i \in DOMAIN n.calls : i # 1 => i - 1 \in DOMAIN rest /\ n.calls[i] = rest[i - 1]
    <3> HIDE DEF rest, new, n
    <3>1. QED
      BY <2>1, <2>3, <1>2
  <2>5. /\ n.calls[1].step = d /\ n.calls[1].todo = def.dependsOn[d] /\ n.calls # <<>>
        /\ \A k \in 1..Len(st.calls) : k + 1 \in DOMAIN n.calls /\ n.calls[k + 1] = rest[k]
    <3> HIDE DEF rest, n
    <3>1. n.calls # <<>> /\ \A k \in 1..Len(st.calls) : k + 1 \in DOMAIN n.calls /\ n.calls[k + 1] = rest[k]
      BY <2>4, <1>l
    <3>2. QED
      BY <3>1, <2>4
  <2>k. /\ \A k \in 1..Len(st.calls) : rest[k].step = st.calls[k].step
        /\ \A k \in 1..Len(st.calls) : k # 1 => rest[k].todo = st.calls[k].todo
        /\ rest[1].todo = Tail(todo)
    BY <1>2
  <2>p. ASSUME NEW i \in DOMAIN n.calls, i # 1
        PROVE  \E k \in 1..Len(st.calls) : i = k + 1
    <3>1. i - 1 \in 1..Len(st.calls) /\ i = (i - 1) + 1
      BY <2>p, <2>4, <1>l
    <3>2. QED
      BY <3>1
  <2>6. d # "loop" /\ \A i \in DOMAIN st.calls : st.calls[i].step # d
    BY <1>6, <1>9, WorkflowAssumption DEF InProgress
  <2> HIDE DEF n, d, rest
  <2>7. OpenCalls(steps, n)
    <3>1. ASSUME NEW i \in DOMAIN n.calls
          PROVE  /\ n.calls[i].step = "loop" <=> i = Len(n.calls)
                 /\ n.calls[i].step # "loop" => n.calls[i].step \in ToSet(steps) \ ToSet(n.result)
      <4>1. CASE i = 1
        BY <4>1, <2>3, <2>4, <2>5, <2>6, <1>9, <1>2
      <4>2. CASE i # 1
        <5>1. PICK k \in 1..Len(st.calls) : i = k + 1
          BY <4>2, <2>p
        <5>2. k = Len(st.calls) <=> i = Len(n.calls)
          BY <5>1, <2>4, <1>l
        <5>3. n.calls[i].step = st.calls[k].step
          BY <5>1, <2>5, <2>k
        <5>4. QED
          BY <5>2, <5>3, <2>3, <1>o
      <4>3. QED
        BY <4>1, <4>2
    <3>2. ASSUME NEW i \in DOMAIN n.calls, NEW j \in DOMAIN n.calls, n.calls[i].step = n.calls[j].step
          PROVE  i = j
      <4>1. ASSUME NEW h \in DOMAIN n.calls, h # 1 PROVE n.calls[h].step # d
        <5>1. PICK k \in 1..Len(st.calls) : h = k + 1
          BY <4>1, <2>p
        <5>2. n.calls[h].step = st.calls[k].step
          BY <5>1, <2>5, <2>k
        <5>3. QED
          BY <5>2, <2>6, <1>l
      <4>2. CASE i = 1 \/ j = 1
        BY <4>1, <4>2, <3>2, <2>5
      <4>3. CASE i # 1 /\ j # 1
        <5>1. PICK k \in 1..Len(st.calls) : i = k + 1
          BY <4>3, <2>p
        <5>2. PICK l \in 1..Len(st.calls) : j = l + 1
          BY <4>3, <2>p
        <5>3. st.calls[k].step = st.calls[l].step
          BY <5>1, <5>2, <3>2, <2>5, <2>k
        <5>4. QED
          BY <5>1, <5>2, <5>3, <1>o
      <4>4. QED
        BY <4>2, <4>3
    <3>3. QED
      BY <3>1, <3>2 DEF OpenCalls
  <2>8. NothingForgotten(steps, n)
    <3>1. ASSUME NEW i \in DOMAIN n.calls, NEW e \in Needs(steps, n.calls[i].step)
          PROVE  \/ e \in ToSet(n.result) \/ e \in ToSet(n.calls[i].todo)
                 \/ i > 1 /\ e = n.calls[i - 1].step
      <4>1. CASE i = 1
        BY <3>1, <4>1, <2>5, <2>6 DEF Needs
      <4>2. CASE i # 1
        <5>1. PICK k \in 1..Len(st.calls) : i = k + 1
          BY <4>2, <2>p
        <5>2. n.calls[i].step = st.calls[k].step /\ n.calls[i].todo = rest[k].todo
          BY <5>1, <2>5, <2>k
        <5>3. \/ e \in ToSet(st.result) \/ e \in ToSet(st.calls[k].todo)
              \/ k > 1 /\ e = st.calls[k - 1].step
          BY <5>1, <5>2, <3>1, <1>f
        <5>4. CASE k = 1
          <6>1. e \in ToSet(st.result) \/ e = d \/ e \in ToSet(Tail(todo))
            BY <5>3, <5>4, <1>6, <1>9 DEF d
          <6>2. i > 1 /\ i - 1 = 1
            BY <5>1, <5>4
          <6>3. QED
            BY <5>2, <5>4, <6>1, <6>2, <2>3, <2>5, <2>k
        <5>5. CASE k # 1
          <6>1. k - 1 \in 1..Len(st.calls) /\ (k - 1) + 1 = k /\ i > 1 /\ i - 1 = k
            BY <5>1, <5>5, <1>l
          <6>2. n.calls[(k - 1) + 1] = rest[k - 1] /\ rest[k - 1].step = st.calls[k - 1].step
            BY <6>1, <2>5, <2>k
          <6>3. QED
            BY <5>2, <5>3, <5>5, <6>1, <6>2, <2>3, <2>k
        <5>6. QED
          BY <5>4, <5>5
      <4>3. QED
        BY <4>1, <4>2
    <3>2. QED
      BY <3>1, <2>5 DEF NothingForgotten
  <2>9. QED
    BY <2>3, <2>7, <2>8, <1>t DEF SearchInv
<1>10. CASE n = [st EXCEPT !.ok = FALSE]
  <2>1. n \in SearchState /\ n.calls = st.calls /\ n.result = st.result
    BY <1>10, <1>t DEF SearchState
  <2> HIDE DEF n
  <2>2. QED
    BY <2>1, <1>t DEF SearchInv, OpenCalls, NothingForgotten
<1>11. QED
  <2>1. \/ todo = <<>> /\ s = "loop"
        \/ todo = <<>> /\ s # "loop"
        \/ todo # <<>> /\ d \in ToSet(st.result)
        \/ todo # <<>> /\ d \in ToSet(steps) \ ToSet(st.result) /\ ~InProgress(d, st)
        \/ n = [st EXCEPT !.ok = FALSE]
    BY <1>1 DEF Visit
  <2>2. QED
    BY <2>1, <1>4, <1>5, <1>8, <1>9, <1>10

\* The contract of topologicalSort when it succeeds, for any steps with any
\* dependencies: the order has every step once, behind all it depends on.
THEOREM SortOrders ==
  ASSUME NEW steps \in Seq(Step), def \in Definitions
  PROVE  /\ TopologicalSort(steps) \in SearchState
         /\ InOrder(steps, TopologicalSort(steps).result)
         /\ Ordered(TopologicalSort(steps)) =>
              ToSet(TopologicalSort(steps).result) = ToSet(steps)
<1> DEFINE T == {n \in Nat : n \in 0..MaxTurns => SearchInv(steps, Sorting(steps)[n])}
<1>1. 0 \in T
  BY SearchBegins, SearchTurns
<1>2. ASSUME NEW n \in Nat, n \in T PROVE n + 1 \in T
  <2> SUFFICES ASSUME n + 1 \in 0..MaxTurns PROVE SearchInv(steps, Sorting(steps)[n + 1])
    OBVIOUS
  <2>1. SearchInv(steps, Sorting(steps)[n])
    BY <1>2, WorkflowAssumption
  <2>2. Sorting(steps)[n + 1] = Turn(steps, Sorting(steps)[n])
    BY SearchTurns
  <2>3. QED
    BY <2>1, <2>2, SearchTurn
<1>3. \A n \in Nat : n \in T
  <2> HIDE DEF T
  <2>1. QED
    BY <1>1, <1>2, NatIsInductive
<1>4. SearchInv(steps, TopologicalSort(steps))
  BY <1>3, WorkflowAssumption DEF TopologicalSort
<1> DEFINE st == TopologicalSort(steps)
<1> HIDE DEF st
<1>5. InOrder(steps, st.result) => ToSet(st.result) \subseteq ToSet(steps)
  BY DEF InOrder, ToSet
<1>6. QED
  BY <1>4, <1>5 DEF SearchInv, NothingForgotten, Ordered, st

\* What the open calls say of the graph: the steps a call has still to visit are
\* of those it needs, it needs the step of the call it made, and a search that
\* was given up met an unknown step, or one in progress.
Chained(steps, st) ==
  /\ \A i \in DOMAIN st.calls : ToSet(st.calls[i].todo) \subseteq Needs(steps, st.calls[i].step)
  /\ \A i, j \in DOMAIN st.calls : j = i + 1 => st.calls[i].step \in Needs(steps, st.calls[j].step)
  /\ ~st.ok => /\ st.calls # <<>> /\ st.calls[1].todo # <<>>
               /\ LET d == Head(st.calls[1].todo) IN d \notin ToSet(steps) \/ InProgress(d, st)

LEMMA ChainedTurn ==
  ASSUME NEW steps \in Seq(Step), NEW st, SearchInv(steps, st), Chained(steps, st), def \in Definitions
  PROVE  Chained(steps, Turn(steps, st))
<1> DEFINE c == st.calls[1]
           s == c.step
           todo == c.todo
           d == Head(todo)
           n == Turn(steps, st)
           L == Len(st.calls)
<1> SUFFICES ASSUME st.ok, st.calls # <<>> PROVE Chained(steps, n)
  BY DEF Turn
<1>1. n = Visit(steps, st)
  BY DEF Turn
<1>2. /\ st \in SearchState /\ st.calls \in Seq(VisitCall) /\ L \in Nat \ {0} /\ DOMAIN st.calls = 1..L
      /\ 1 \in DOMAIN st.calls
  <2>1. st \in SearchState /\ st.calls \in Seq(VisitCall)
    BY DEF SearchInv, SearchState
  <2>2. QED
    BY <2>1
<1>3. c \in VisitCall /\ todo \in Seq(Step)
  <2>1. c \in VisitCall
    BY <1>2
  <2>2. QED
    BY <2>1 DEF VisitCall
<1>4. /\ \A i \in 1..L : ToSet(st.calls[i].todo) \subseteq Needs(steps, st.calls[i].step)
      /\ \A i, j \in 1..L : j = i + 1 => st.calls[i].step \in Needs(steps, st.calls[j].step)
  BY <1>2 DEF Chained
<1>5. /\ Tail(st.calls) \in Seq(VisitCall) /\ DOMAIN Tail(st.calls) = 1..(L - 1)
      /\ \A i \in 1..(L - 1) : Tail(st.calls)[i] = st.calls[i + 1]
  BY <1>2, TailFacts
<1>6. ASSUME NEW m, m.ok, m.calls = Tail(st.calls)
      PROVE  Chained(steps, m)
  <2>1. \A i \in DOMAIN m.calls : i + 1 \in 1..L /\ m.calls[i] = st.calls[i + 1]
    BY <1>2, <1>5, <1>6
  <2>2. ASSUME NEW i \in DOMAIN m.calls, NEW j \in DOMAIN m.calls, j = i + 1
        PROVE  m.calls[i].step \in Needs(steps, m.calls[j].step)
    <3>1. j + 1 = (i + 1) + 1
      BY <2>2, <1>2, <1>5, <1>6
    <3>2. QED
      BY <3>1, <2>1, <1>4
  <2>3. \A i \in DOMAIN m.calls : ToSet(m.calls[i].todo) \subseteq Needs(steps, m.calls[i].step)
    BY <2>1, <1>4
  <2>4. QED
    BY <2>2, <2>3, <1>6 DEF Chained
<1>7. CASE todo = <<>> /\ s = "loop"
  <2>1. n = [st EXCEPT !.calls = Tail(@)]
    BY <1>1, <1>7 DEF Visit, Return
  <2>2. n.ok /\ n.calls = Tail(st.calls)
    BY <2>1, <1>2 DEF SearchState
  <2> HIDE DEF n
  <2>3. QED
    BY <2>2, <1>6
<1>8. CASE todo = <<>> /\ s # "loop"
  <2>1. n = [[st EXCEPT !.calls = Tail(@)] EXCEPT !.result = Append(@, s)]
    BY <1>1, <1>8 DEF Visit, Return, Push
  <2>2. n.ok /\ n.calls = Tail(st.calls)
    BY <2>1, <1>2 DEF SearchState
  <2> HIDE DEF n
  <2>3. QED
    BY <2>2, <1>6
<1> DEFINE met == [c EXCEPT !.todo = Tail(@)]
           rest == [st.calls EXCEPT ![1] = met]
<1>9. ASSUME todo # <<>>
      PROVE  /\ met \in VisitCall /\ met.step = s /\ met.todo = Tail(todo) /\ d \in Step
             /\ ToSet(todo) = {d} \cup ToSet(Tail(todo))
             /\ Met(st) = [st EXCEPT !.calls = rest]
  BY <1>2, <1>3, <1>9, CallUpdate, TailFacts DEF Met, SearchState
<1>10. ASSUME todo # <<>>
       PROVE  /\ rest \in Seq(VisitCall) /\ DOMAIN rest = 1..L /\ Len(rest) = L
              /\ \A i \in 1..L : /\ rest[i].step = st.calls[i].step
                                 /\ ToSet(rest[i].todo) \subseteq Needs(steps, rest[i].step)
  <2>1. rest \in Seq(VisitCall) /\ DOMAIN rest = 1..L /\ Len(rest) = L
    BY <1>2, <1>9, <1>10
  <2>2. rest[1] = met /\ \A i \in 1..L : i # 1 => rest[i] = st.calls[i]
    BY <1>2
  <2> HIDE DEF met, rest
  <2>3. QED
    BY <2>1, <2>2, <1>4, <1>9, <1>10, <1>2
<1>11. CASE todo # <<>> /\ d \in ToSet(st.result)
  <2>1. n = [st EXCEPT !.calls = rest]
    BY <1>1, <1>9, <1>11 DEF Visit
  <2> HIDE DEF n, rest
  <2>2. n.ok /\ n.calls = rest
    BY <2>1, <1>2 DEF SearchState
  <2>3. QED
    BY <2>2, <1>4, <1>10, <1>11 DEF Chained
<1>12. CASE todo # <<>> /\ d \in ToSet(steps) \ ToSet(st.result) /\ ~InProgress(d, st)
  <2> DEFINE new == [step |-> d, todo |-> def.dependsOn[d]]
  <2>1. n = [st EXCEPT !.calls = <<new>> \o rest]
    <3>1. n = Enter(d, Met(st))
      BY <1>1, <1>12 DEF Visit
    <3>2. QED
      BY <3>1, <1>9, <1>12, <1>2 DEF Enter, SearchState
  <2>2. new \in VisitCall /\ new.step = d /\ ToSet(new.todo) = Needs(steps, d)
    <3>1. def.dependsOn[d] \in Seq(Step) /\ d # "loop"
      BY <1>9, <1>12, WorkflowAssumption
    <3>2. QED
      BY <3>1, <1>9, <1>12 DEF VisitCall, Needs
  <2>3. d \in Needs(steps, s)
    BY <1>2, <1>4, <1>9, <1>12
  <2>4. rest \in Seq(VisitCall) /\ Len(rest) = L /\ DOMAIN rest = 1..L
    BY <1>10, <1>12
  <2>5. n.ok /\ n.calls = <<new>> \o rest
    BY <2>1, <1>2 DEF SearchState
  <2> HIDE DEF n, new, rest
  <2>6. /\ DOMAIN n.calls = 1..(L + 1) /\ n.calls[1] = new
        /\ \A k \in 1..L : n.calls[k + 1] = rest[k]
    BY <2>2, <2>4, <2>5, <1>2
  <2>7. ASSUME NEW i \in DOMAIN n.calls, i # 1 PROVE \E k \in 1..L : i = k + 1
    <3>1. i - 1 \in 1..L /\ i = (i - 1) + 1
      BY <2>6, <2>7, <1>2
    <3>2. QED
      BY <3>1
  <2> HIDE DEF d, s
  <2>8. ASSUME NEW i \in DOMAIN n.calls
        PROVE  ToSet(n.calls[i].todo) \subseteq Needs(steps, n.calls[i].step)
    <3>1. CASE i = 1
      BY <3>1, <2>2, <2>6
    <3>2. CASE i # 1
      <4>1. PICK k \in 1..L : i = k + 1
        BY <3>2, <2>7
      <4>2. QED
        BY <4>1, <2>6, <1>10, <1>12
    <3>3. QED
      BY <3>1, <3>2
  <2>9. ASSUME NEW i \in DOMAIN n.calls, NEW j \in DOMAIN n.calls, j = i + 1
        PROVE  n.calls[i].step \in Needs(steps, n.calls[j].step)
    <3>1. CASE i = 1
      <4>1. n.calls[j] = rest[1] /\ rest[1].step = s
        BY <3>1, <2>9, <2>6, <1>10, <1>12, <1>2 DEF s
      <4>2. QED
        BY <3>1, <4>1, <2>2, <2>3, <2>6
    <3>2. CASE i # 1
      <4>1. PICK k \in 1..L : i = k + 1
        BY <3>2, <2>7
      <4>2. k + 1 \in 1..L
        BY <4>1, <2>9, <2>6, <1>2
      <4>3. n.calls[i].step = st.calls[k].step /\ n.calls[j].step = st.calls[k + 1].step
        BY <4>1, <4>2, <2>9, <2>6, <1>10, <1>12
      <4>4. QED
        BY <4>2, <4>3, <1>4
    <3>3. QED
      BY <3>1, <3>2
  <2>10. QED
    BY <2>5, <2>8, <2>9 DEF Chained
<1>13. CASE /\ n = [st EXCEPT !.ok = FALSE] /\ todo # <<>> /\ d \notin ToSet(st.result)
            /\ d \notin ToSet(steps) \ ToSet(st.result) \/ InProgress(d, st)
  <2>1. ~n.ok /\ n.calls = st.calls
    BY <1>13, <1>2 DEF SearchState
  <2>2. d \notin ToSet(steps) \/ InProgress(d, n)
    BY <2>1, <1>13 DEF InProgress
  <2> HIDE DEF n
  <2>3. QED
    BY <2>1, <2>2, <1>2, <1>4, <1>13 DEF Chained
<1>14. QED
  <2>1. \/ todo = <<>> /\ s = "loop"
        \/ todo = <<>> /\ s # "loop"
        \/ todo # <<>> /\ d \in ToSet(st.result)
        \/ todo # <<>> /\ d \in ToSet(steps) \ ToSet(st.result) /\ ~InProgress(d, st)
        \/ /\ n = [st EXCEPT !.ok = FALSE] /\ todo # <<>> /\ d \notin ToSet(st.result)
           /\ d \notin ToSet(steps) \ ToSet(st.result) \/ InProgress(d, st)
    BY <1>1 DEF Visit
  <2>2. QED
    BY <2>1, <1>7, <1>8, <1>11, <1>12, <1>13

\* A cycle: each step of p is needed by the next one, and the last is the first.
Cycle(p) ==
  /\ Len(p) > 1 /\ p[1] = p[Len(p)]
  /\ \A i \in 1..(Len(p) - 1) : p[i] \in ToSet(def.dependsOn[p[i + 1]])

\* When topologicalSort throws, it has a reason: a step depends on one that the
\* workflow does not have, or there is a cycle.
THEOREM SortRefuses ==
  ASSUME NEW steps \in Seq(Step), def \in Definitions, ~TopologicalSort(steps).ok
  PROVE  \/ \E s \in ToSet(steps) : ~(ToSet(def.dependsOn[s]) \subseteq ToSet(steps))
         \/ \E p \in Seq(ToSet(steps)) : Cycle(p)
<1> DEFINE Good(n) == SearchInv(steps, Sorting(steps)[n]) /\ Chained(steps, Sorting(steps)[n])
           T == {n \in Nat : n \in 0..MaxTurns => Good(n)}
<1>1. 0 \in T
  <2> DEFINE b == StartSort(steps)
             c == [step |-> "loop", todo |-> steps]
  <2>1. b.calls = <<c>> /\ b.ok
    BY DEF StartSort
  <2>2. DOMAIN b.calls = {1} /\ b.calls[1] = c
    BY <2>1
  <2> HIDE DEF b
  <2>3. Chained(steps, b)
    BY <2>1, <2>2 DEF Chained, Needs
  <2>4. QED
    BY <2>3, SearchBegins, SearchTurns DEF b
<1>2. ASSUME NEW n \in Nat, n \in T PROVE n + 1 \in T
  <2> SUFFICES ASSUME n + 1 \in 0..MaxTurns PROVE Good(n + 1)
    OBVIOUS
  <2>1. Good(n)
    BY <1>2, WorkflowAssumption
  <2>2. Sorting(steps)[n + 1] = Turn(steps, Sorting(steps)[n])
    BY SearchTurns
  <2>3. QED
    BY <2>1, <2>2, SearchTurn, ChainedTurn
<1>3. \A n \in Nat : n \in T
  <2> HIDE DEF T
  <2>1. QED
    BY <1>1, <1>2, NatIsInductive
<1> DEFINE st == TopologicalSort(steps)
<1>4. SearchInv(steps, st) /\ Chained(steps, st)
  BY <1>3, WorkflowAssumption DEF TopologicalSort
<1> DEFINE L == Len(st.calls)
           todo == st.calls[1].todo
           d == Head(todo)
<1> HIDE DEF st
<1>5. st.calls \in Seq(VisitCall) /\ st.calls # <<>> /\ todo # <<>> /\ (d \notin ToSet(steps) \/ InProgress(d, st))
  BY <1>4 DEF SearchInv, SearchState, Chained, st
<1>6. L \in Nat \ {0} /\ DOMAIN st.calls = 1..L /\ 1 \in DOMAIN st.calls
  BY <1>5
<1>7. todo \in Seq(Step)
  <2>1. st.calls[1] \in VisitCall
    BY <1>5, <1>6
  <2>2. QED
    BY <2>1 DEF VisitCall
<1>8. d \in Step /\ d \in ToSet(todo) /\ d # "loop"
  BY <1>5, <1>7, TailFacts, WorkflowAssumption
<1>9. /\ \A i \in 1..L : st.calls[i].step = "loop" <=> i = L
      /\ \A i \in 1..L : st.calls[i].step # "loop" => st.calls[i].step \in ToSet(steps)
      /\ \A i, j \in 1..L : j = i + 1 => st.calls[i].step \in Needs(steps, st.calls[j].step)
      /\ d \in Needs(steps, st.calls[1].step)
  BY <1>4, <1>6, <1>8 DEF SearchInv, OpenCalls, Chained
<1> HIDE DEF d
<1>10. CASE d \notin ToSet(steps)
  <2>1. st.calls[1].step # "loop"
    BY <1>9, <1>10 DEF Needs
  <2>2. st.calls[1].step \in ToSet(steps) /\ d \in ToSet(def.dependsOn[st.calls[1].step])
    BY <2>1, <1>9, <1>6 DEF Needs
  <2>3. QED
    BY <2>2, <1>10
<1>11. CASE InProgress(d, st)
  <2>1. PICK k \in 1..L : st.calls[k].step = d
    BY <1>6, <1>11 DEF InProgress
  <2> DEFINE p == [i \in 1..(k + 1) |-> IF i = 1 THEN d ELSE st.calls[i - 1].step]
  <2>2. k \in Nat /\ k >= 1 /\ k < L
    BY <2>1, <1>6, <1>8, <1>9
  <2>3. ASSUME NEW i \in 1..k
        PROVE  st.calls[i].step # "loop" /\ st.calls[i].step \in ToSet(steps)
    BY <2>2, <1>6, <1>9
  <2>4. d \in ToSet(steps)
    BY <2>1, <2>2, <2>3
  <2>5. p[1] = d /\ \A i \in 1..k : p[i + 1] = st.calls[i].step
    <3>1. ASSUME NEW i \in 1..k PROVE p[i + 1] = st.calls[i].step
      <4>1. i + 1 \in 1..(k + 1) /\ i + 1 # 1 /\ (i + 1) - 1 = i
        BY <2>2
      <4>2. QED
        BY <4>1
    <3>2. QED
      BY <3>1, <2>2
  <2>6. p \in Seq(ToSet(steps)) /\ Len(p) = k + 1
    <3>1. ASSUME NEW i \in 1..(k + 1) PROVE p[i] \in ToSet(steps)
      <4>1. CASE i = 1
        BY <4>1, <2>4, <2>5
      <4>2. CASE i # 1
        <5>1. i - 1 \in 1..k
          BY <4>2, <2>2
        <5>2. QED
          BY <4>2, <5>1, <2>3
      <4>3. QED
        BY <4>1, <4>2
    <3>2. p \in [1..(k + 1) -> ToSet(steps)] /\ k + 1 \in Nat
      BY <3>1, <2>2
    <3> HIDE DEF p
    <3>3. QED
      BY <3>2
  <2> HIDE DEF p
  <2>7. ASSUME NEW i \in 1..(Len(p) - 1) PROVE p[i] \in ToSet(def.dependsOn[p[i + 1]])
    <3>1. i \in 1..k /\ p[i + 1] = st.calls[i].step
      BY <2>2, <2>5, <2>6
    <3>2. Needs(steps, st.calls[i].step) = ToSet(def.dependsOn[st.calls[i].step])
      BY <3>1, <2>3 DEF Needs
    <3>3. CASE i = 1
      BY <3>1, <3>2, <3>3, <2>5, <1>9
    <3>4. CASE i # 1
      <4>1. i - 1 \in 1..k /\ (i - 1) + 1 = i /\ i - 1 \in 1..L /\ i \in 1..L
        BY <3>1, <3>4, <2>2, <1>6
      <4>2. p[(i - 1) + 1] = st.calls[i - 1].step
        BY <4>1, <2>5
      <4>3. st.calls[i - 1].step \in Needs(steps, st.calls[i].step)
        BY <4>1, <1>9
      <4>4. QED
        BY <3>1, <3>2, <4>1, <4>2, <4>3
    <3>5. QED
      BY <3>3, <3>4
  <2>8. p[1] = p[Len(p)] /\ Len(p) > 1
    BY <2>1, <2>2, <2>5, <2>6
  <2>9. QED
    BY <2>6, <2>7, <2>8 DEF Cycle
<1>12. QED
  BY <1>5, <1>10, <1>11

-----------------------------------------------------------------------------
(* The end of the search                                                   *)

\* What a turn does to the open calls.
TurnShape(steps, st, n) ==
  LET c == st.calls[1]
      L == Len(st.calls)
      d == Head(c.todo)
  IN \/ ~n.ok
     \/ c.step = "loop" /\ n.calls = <<>>
     \/ /\ c.step \in ToSet(steps) /\ n.result = Append(st.result, c.step)
        /\ Len(n.calls) = L - 1 /\ \A i \in 1..(L - 1) : n.calls[i] = st.calls[i + 1]
     \/ /\ n.result = st.result /\ Len(n.calls) = L
        /\ n.calls[1].step = c.step /\ Len(n.calls[1].todo) = Len(c.todo) - 1
        /\ \A i \in 2..L : n.calls[i] = st.calls[i]
     \/ /\ n.result = st.result /\ Len(n.calls) = L + 1
        /\ d \in ToSet(steps) \ ToSet(st.result) /\ ~InProgress(d, st)
        /\ n.calls[1] = [step |-> d, todo |-> def.dependsOn[d]]
        /\ n.calls[2].step = c.step /\ Len(n.calls[2].todo) = Len(c.todo) - 1
        /\ \A i \in 2..L : n.calls[i + 1] = st.calls[i]

LEMMA TurnShapes ==
  ASSUME NEW steps \in Seq(Step), NEW st, SearchInv(steps, st), def \in Definitions,
         st.ok, st.calls # <<>>
  PROVE  TurnShape(steps, st, Turn(steps, st))
<1> DEFINE c == st.calls[1]
           s == c.step
           todo == c.todo
           d == Head(todo)
           n == Turn(steps, st)
           L == Len(st.calls)
<1> SUFFICES TurnShape(steps, st, n)
  OBVIOUS
<1>1. n = Visit(steps, st)
  BY DEF Turn
<1>2. /\ st \in SearchState /\ st.calls \in Seq(VisitCall) /\ L \in Nat \ {0} /\ DOMAIN st.calls = 1..L
      /\ 1 \in DOMAIN st.calls /\ st.result \in Seq(Step)
  <2>1. st \in SearchState /\ st.calls \in Seq(VisitCall) /\ st.result \in Seq(Step)
    BY DEF SearchInv, SearchState
  <2>2. QED
    BY <2>1
<1>3. c \in VisitCall /\ todo \in Seq(Step)
  <2>1. c \in VisitCall
    BY <1>2
  <2>2. QED
    BY <2>1 DEF VisitCall
<1>4. s = "loop" <=> L = 1
  BY <1>2 DEF SearchInv, OpenCalls
<1>5. /\ Tail(st.calls) \in Seq(VisitCall) /\ Len(Tail(st.calls)) = L - 1
      /\ \A i \in 1..(L - 1) : Tail(st.calls)[i] = st.calls[i + 1]
  BY <1>2, TailFacts
<1>7. CASE todo = <<>> /\ s = "loop"
  <2>1. n.calls = Tail(st.calls)
    BY <1>1, <1>7, <1>2 DEF Visit, Return, SearchState
  <2> HIDE DEF n
  <2>2. n.calls = <<>>
    <3>1. n.calls \in Seq(VisitCall) /\ Len(n.calls) = 0
      BY <2>1, <1>4, <1>5, <1>7
    <3>2. QED
      BY <3>1
  <2>3. QED
    BY <2>2, <1>7 DEF TurnShape
<1>8. CASE todo = <<>> /\ s # "loop"
  <2>1. n = [[st EXCEPT !.calls = Tail(@)] EXCEPT !.result = Append(@, s)]
    BY <1>1, <1>8 DEF Visit, Return, Push
  <2>2. n.calls = Tail(st.calls) /\ n.result = Append(st.result, s)
    BY <2>1, <1>2 DEF SearchState
  <2>3. s \in ToSet(steps)
    BY <1>2, <1>8 DEF SearchInv, OpenCalls
  <2> HIDE DEF n
  <2>4. QED
    BY <2>2, <2>3, <1>5, <1>8 DEF TurnShape
<1> DEFINE met == [c EXCEPT !.todo = Tail(@)]
           rest == [st.calls EXCEPT ![1] = met]
<1>9. ASSUME todo # <<>>
      PROVE  /\ met \in VisitCall /\ met.step = s /\ Len(met.todo) = Len(todo) - 1 /\ d \in Step
             /\ Met(st) = [st EXCEPT !.calls = rest]
             /\ rest \in Seq(VisitCall) /\ Len(rest) = L /\ rest[1] = met
             /\ \A i \in 2..L : rest[i] = st.calls[i]
  <2>1. met \in VisitCall /\ met.step = s /\ met.todo = Tail(todo)
    BY <1>3, <1>9, CallUpdate
  <2>2. Len(Tail(todo)) = Len(todo) - 1 /\ d \in Step
    BY <1>3, <1>9, TailFacts
  <2>3. Met(st) = [st EXCEPT !.calls = rest]
    BY <1>2 DEF Met, SearchState
  <2> HIDE DEF met
  <2>4. /\ rest \in Seq(VisitCall) /\ Len(rest) = L /\ rest[1] = met
        /\ \A i \in 2..L : rest[i] = st.calls[i]
    BY <1>2, <2>1
  <2>5. QED
    BY <2>1, <2>2, <2>3, <2>4
<1>11. CASE todo # <<>> /\ d \in ToSet(st.result)
  <2>1. n = [st EXCEPT !.calls = rest]
    BY <1>1, <1>9, <1>11 DEF Visit
  <2> HIDE DEF n, rest, met
  <2>2. n.calls = rest /\ n.result = st.result
    BY <2>1, <1>2 DEF SearchState
  <2>3. QED
    BY <2>2, <1>9, <1>11 DEF TurnShape
<1>12. CASE todo # <<>> /\ d \in ToSet(steps) \ ToSet(st.result) /\ ~InProgress(d, st)
  <2> DEFINE new == [step |-> d, todo |-> def.dependsOn[d]]
  <2>1. n = [st EXCEPT !.calls = <<new>> \o rest]
    <3>1. n = Enter(d, Met(st))
      BY <1>1, <1>12 DEF Visit
    <3>2. Met(st) = [st EXCEPT !.calls = rest] /\ st \in SearchState
      BY <1>2, <1>9, <1>12
    <3> HIDE DEF n, rest
    <3>3. QED
      BY <3>1, <3>2 DEF Enter, SearchState
  <2>2. new \in VisitCall
    BY <1>9, <1>12, WorkflowAssumption DEF VisitCall
  <2>3. n.calls = <<new>> \o rest /\ n.result = st.result
    BY <2>1, <1>2 DEF SearchState
  <2>4. rest \in Seq(VisitCall) /\ Len(rest) = L
    BY <1>9, <1>12
  <2>5. /\ Len(n.calls) = L + 1 /\ n.calls[1] = new
        /\ \A k \in 1..L : n.calls[k + 1] = rest[k]
    <3> HIDE DEF n, rest, new
    <3>1. QED
      BY <2>2, <2>3, <2>4, <1>2
  <2> HIDE DEF n, rest, met
  <2>6. n.calls[2] = rest[1]
    <3>1. 1 \in 1..L
      BY <1>2
    <3>2. QED
      BY <2>5, <3>1
  <2>7. n.calls[2].step = s /\ Len(n.calls[2].todo) = Len(todo) - 1
    BY <2>6, <1>9, <1>12
  <2>8. \A i \in 2..L : n.calls[i + 1] = st.calls[i]
    BY <2>5, <1>9, <1>12, <1>2
  <2>9. QED
    BY <2>3, <2>5, <2>7, <2>8, <1>12 DEF TurnShape
<1>13. CASE n = [st EXCEPT !.ok = FALSE]
  BY <1>13, <1>2 DEF SearchState, TurnShape
<1>14. QED
  <2>1. \/ todo = <<>> /\ s = "loop"
        \/ todo = <<>> /\ s # "loop"
        \/ todo # <<>> /\ d \in ToSet(st.result)
        \/ todo # <<>> /\ d \in ToSet(steps) \ ToSet(st.result) /\ ~InProgress(d, st)
        \/ n = [st EXCEPT !.ok = FALSE]
    BY <1>1 DEF Visit
  <2>2. QED
    BY <2>1, <1>7, <1>8, <1>11, <1>12, <1>13

\* The steps that are neither in the result nor in progress: no turn adds one,
\* and entering a step takes it away.
Untouched(steps, st) == {e \in ToSet(steps) \ ToSet(st.result) : ~InProgress(e, st)}

LEMMA UntouchedFacts ==
  ASSUME NEW steps \in Seq(Step), NEW st
  PROVE  /\ IsFiniteSet(Untouched(steps, st)) /\ Cardinality(Untouched(steps, st)) \in Nat
         /\ Cardinality(Untouched(steps, st)) <= Len(steps)
<1>1. IsFiniteSet(1..Len(steps)) /\ Cardinality(1..Len(steps)) = Len(steps) /\ Len(steps) \in Nat
  <2> DEFINE l == Len(steps)
  <2>1. l \in Nat
    OBVIOUS
  <2> HIDE DEF l
  <2>2. IsFiniteSet(1..l) /\ Cardinality(1..l) = l
    BY <2>1, FS_Interval
  <2>3. QED
    BY <2>1, <2>2 DEF l
<1>2. steps \in Surjection(1..Len(steps), ToSet(steps))
  <2>1. DOMAIN steps = 1..Len(steps) /\ steps \in [1..Len(steps) -> ToSet(steps)]
    BY DEF ToSet
  <2>2. QED
    BY <2>1 DEF Surjection, ToSet
<1>3. IsFiniteSet(ToSet(steps)) /\ Cardinality(ToSet(steps)) <= Len(steps)
  BY <1>1, <1>2, FS_Surjection
<1>4. Untouched(steps, st) \in SUBSET ToSet(steps)
  BY DEF Untouched
<1>5. /\ IsFiniteSet(Untouched(steps, st))
      /\ Cardinality(Untouched(steps, st)) <= Cardinality(ToSet(steps))
  BY <1>3, <1>4, FS_Subset
<1>6. Cardinality(Untouched(steps, st)) \in Nat /\ Cardinality(ToSet(steps)) \in Nat
  BY <1>3, <1>5, FS_CardinalityType
<1>7. QED
  BY <1>1, <1>3, <1>5, <1>6

\* f[i] pays for the calls from the i-th outwards: a turn for each step that they
\* have still to visit, and one for each return.  An untouched step costs one
\* turn to return, and one for each of its at most m dependencies.
Paid(steps, st, t, m) ==
  \E f \in [1..(Len(st.calls) + 1) -> Nat] :
    /\ \A i \in 1..Len(st.calls) : f[i] >= Len(st.calls[i].todo) + 1 + f[i + 1]
    /\ t + f[1] + Cardinality(Untouched(steps, st)) * (m + 1) <= Len(steps) * (m + 2) + 1

LEMMA TimesMonotone ==
  ASSUME NEW u \in Nat, NEW v \in Nat, NEW k \in Nat, v <= u
  PROVE  v * k \in Nat /\ u * k \in Nat /\ v * k <= u * k
<1>1. PICK w \in Nat : u = v + w
  BY u - v \in Nat /\ u = v + (u - v)
<1>2. (v + w) * k = v * k + w * k
  OBVIOUS
<1>3. v * k \in Nat /\ w * k \in Nat
  OBVIOUS
<1>4. QED
  BY <1>1, <1>2, <1>3

LEMMA TurnPaid ==
  ASSUME NEW steps \in Seq(Step), NEW st, SearchInv(steps, st), def \in Definitions,
         st.ok, st.calls # <<>>,
         Turn(steps, st).ok, Turn(steps, st).calls # <<>>,
         NEW m \in Nat, \A s \in ToSet(steps) : Len(def.dependsOn[s]) <= m,
         NEW t \in Nat, Paid(steps, st, t, m)
  PROVE  Paid(steps, Turn(steps, st), t + 1, m)
<1> DEFINE n == Turn(steps, st)
           c == st.calls[1]
           L == Len(st.calls)
           d == Head(c.todo)
           U == Untouched(steps, st)
           V == Untouched(steps, n)
<1> SUFFICES Paid(steps, n, t + 1, m)
  OBVIOUS
<1>1. TurnShape(steps, st, n) /\ SearchInv(steps, n) /\ n.ok /\ n.calls # <<>>
  BY TurnShapes, SearchTurn
<1> HIDE DEF n
<1>2. /\ L \in Nat \ {0} /\ DOMAIN st.calls = 1..L /\ st.calls \in Seq(VisitCall)
      /\ Len(n.calls) \in Nat /\ DOMAIN n.calls = 1..Len(n.calls) /\ n.calls \in Seq(VisitCall)
      /\ st.result \in Seq(Step)
  <2>1. st.calls \in Seq(VisitCall) /\ n.calls \in Seq(VisitCall) /\ st.result \in Seq(Step)
    BY <1>1 DEF SearchInv, SearchState
  <2>2. QED
    BY <2>1
<1> DEFINE N == Len(n.calls)
           T == [i \in 1..L |-> Len(st.calls[i].todo)]
           W == [i \in 1..N |-> Len(n.calls[i].todo)]
<1>3. \A i \in 1..L : Len(st.calls[i].todo) \in Nat
  <2> SUFFICES ASSUME NEW i \in 1..L PROVE Len(st.calls[i].todo) \in Nat
    OBVIOUS
  <2>1. st.calls[i] \in VisitCall
    BY <1>2
  <2>2. st.calls[i].todo \in Seq(Step)
    BY <2>1 DEF VisitCall
  <2>3. QED
    BY <2>2
<1>4. PICK f \in [1..(L + 1) -> Nat] :
        /\ \A i \in 1..L : f[i] >= Len(st.calls[i].todo) + 1 + f[i + 1]
        /\ t + f[1] + Cardinality(U) * (m + 1) <= Len(steps) * (m + 2) + 1
  BY DEF Paid
<1>a. /\ \A i \in 1..L : T[i] = Len(st.calls[i].todo) /\ T[i] \in Nat /\ f[i] >= T[i] + 1 + f[i + 1]
      /\ \A i \in 1..N : W[i] = Len(n.calls[i].todo)
  <2>1. /\ \A i \in 1..L : T[i] = Len(st.calls[i].todo)
        /\ \A i \in 1..N : W[i] = Len(n.calls[i].todo)
    OBVIOUS
  <2> HIDE DEF T, W
  <2>2. QED
    BY <2>1, <1>3, <1>4
<1> HIDE DEF T, W, N, L
<1>b. /\ T[1] \in Nat /\ f[1] \in Nat /\ f[2] \in Nat /\ f[1] >= T[1] + 1 + f[2]
      /\ f[1] - 1 \in Nat /\ f[1] - 1 >= (T[1] - 1) + 1 + f[2] /\ f[2] + 1 <= f[1]
  <2>1. 1 \in 1..L /\ 1 \in 1..(L + 1) /\ 2 \in 1..(L + 1)
    <3>1. L \in Nat \ {0}
      BY <1>2 DEF L
    <3>2. QED
      BY <3>1
  <2>2. f[1] \in Nat /\ f[2] \in Nat
    BY <2>1
  <2>3. T[1] \in Nat /\ f[1] >= T[1] + 1 + f[1 + 1]
    BY <2>1, <1>a
  <2> DEFINE x == f[1]
             y == f[2]
             z == T[1]
  <2>4. x \in Nat /\ y \in Nat /\ z \in Nat /\ x >= z + 1 + y
    BY <2>2, <2>3
  <2> HIDE DEF x, y, z
  <2>5. x - 1 \in Nat /\ x - 1 >= (z - 1) + 1 + y /\ y + 1 <= x
    BY <2>4
  <2>6. QED
    BY <2>4, <2>5 DEF x, y, z
<1>n. N \in Nat /\ DOMAIN n.calls = 1..N /\ L \in Nat \ {0} /\ DOMAIN st.calls = 1..L
  BY <1>2 DEF N, L
<1>5. /\ IsFiniteSet(U) /\ Cardinality(U) \in Nat
      /\ IsFiniteSet(V) /\ Cardinality(V) \in Nat
  BY UntouchedFacts
<1>6. /\ V \subseteq U => Cardinality(V) <= Cardinality(U)
      /\ d \in U /\ V \subseteq U \ {d} => Cardinality(V) <= Cardinality(U) - 1
  <2> HIDE DEF U, V, d
  <2>1. V \subseteq U => Cardinality(V) <= Cardinality(U)
    BY <1>5, FS_Subset
  <2>2. ASSUME d \in U, V \subseteq U \ {d} PROVE Cardinality(V) <= Cardinality(U) - 1
    <3>1. IsFiniteSet(U \ {d}) /\ Cardinality(U \ {d}) = Cardinality(U) - 1
      BY <1>5, <2>2, FS_RemoveElement
    <3>2. QED
      BY <2>2, <3>1, FS_Subset
  <2>3. QED
    BY <2>1, <2>2
\* When g pays for the calls and the turn has been paid, nothing is missing.
<1>7. ASSUME NEW g \in [1..(N + 1) -> Nat],
             \A i \in 1..N : g[i] >= W[i] + 1 + g[i + 1],
             \/ V \subseteq U /\ g[1] + 1 <= f[1]
             \/ d \in U /\ V \subseteq U \ {d} /\ g[1] + 1 <= f[1] + (m + 1)
      PROVE  Paid(steps, n, t + 1, m)
  <2> DEFINE u == Cardinality(U)
             v == Cardinality(V)
             b == Len(steps) * (m + 2) + 1
  <2>1. g[1] \in Nat /\ f[1] \in Nat
    <3>1. 1 \in 1..(N + 1)
      BY <1>n
    <3>2. QED
      BY <3>1, <1>b
  <2>2. u \in Nat /\ v \in Nat /\ t + f[1] + u * (m + 1) <= b /\ b \in Nat
    <3>1. Len(steps) \in Nat
      OBVIOUS
    <3> DEFINE l == Len(steps)
    <3> HIDE DEF l
    <3>2. l * (m + 2) + 1 \in Nat
      BY <3>1 DEF l
    <3>3. QED
      BY <1>4, <1>5, <3>2 DEF l
  <2>3. CASE V \subseteq U /\ g[1] + 1 <= f[1]
    <3>1. v <= u
      BY <1>6, <2>3
    <3> HIDE DEF u, v, b
    <3>2. v * (m + 1) <= u * (m + 1) /\ v * (m + 1) \in Nat /\ u * (m + 1) \in Nat
      BY <3>1, <2>2, TimesMonotone
    <3> DEFINE vk == v * (m + 1)
               uk == u * (m + 1)
    <3>3. (t + 1) + g[1] + vk <= b
      <4>1. vk <= uk /\ vk \in Nat /\ uk \in Nat /\ t + f[1] + uk <= b
        BY <3>2, <2>2
      <4> DEFINE x == f[1]
                 y == g[1]
      <4>2. x \in Nat /\ y \in Nat /\ t + x + uk <= b /\ y + 1 <= x
        BY <4>1, <2>1, <2>3
      <4> HIDE DEF vk, uk, x, y
      <4>3. (t + 1) + y + vk <= b
        BY <4>1, <4>2, <2>2
      <4>4. QED
        BY <4>3 DEF y
    <3>4. QED
      BY <3>3, <1>7, <1>a DEF Paid, v, b, N
  <2>4. CASE d \in U /\ V \subseteq U \ {d} /\ g[1] + 1 <= f[1] + (m + 1)
    <3>1. v <= u - 1
      BY <1>6, <2>4
    <3> HIDE DEF u, v, b
    <3>2. v * (m + 1) + (m + 1) <= u * (m + 1) /\ v * (m + 1) \in Nat /\ u * (m + 1) \in Nat
      <4>1. (u - 1) * (m + 1) + (m + 1) = u * (m + 1) /\ u - 1 \in Nat
        BY <3>1, <2>2
      <4>2. v * (m + 1) <= (u - 1) * (m + 1) /\ v * (m + 1) \in Nat /\ (u - 1) * (m + 1) \in Nat
        BY <4>1, <3>1, <2>2, TimesMonotone
      <4>3. u * (m + 1) \in Nat
        BY <2>2, TimesMonotone
      <4>4. QED
        BY <4>1, <4>2, <4>3
    <3> DEFINE vk == v * (m + 1)
               uk == u * (m + 1)
    <3>3. (t + 1) + g[1] + vk <= b
      <4>1. vk + (m + 1) <= uk /\ vk \in Nat /\ uk \in Nat /\ t + f[1] + uk <= b
        BY <3>2, <2>2
      <4> DEFINE x == f[1]
                 y == g[1]
      <4>2. x \in Nat /\ y \in Nat /\ t + x + uk <= b /\ y + 1 <= x + (m + 1)
        BY <4>1, <2>1, <2>4
      <4> HIDE DEF vk, uk, x, y
      <4>3. (t + 1) + y + vk <= b
        BY <4>1, <4>2, <2>2
      <4>4. QED
        BY <4>3 DEF y
    <3>4. QED
      BY <3>3, <1>7, <1>a DEF Paid, v, b, N
  <2>5. QED
    BY <1>7, <2>3, <2>4
<1>8. CASE /\ c.step \in ToSet(steps) /\ n.result = Append(st.result, c.step)
           /\ N = L - 1 /\ \A i \in 1..(L - 1) : n.calls[i] = st.calls[i + 1]
  <2> DEFINE g == [i \in 1..L |-> f[i + 1]]
  <2>1. g \in [1..(N + 1) -> Nat] /\ \A i \in 1..L : g[i] = f[i + 1]
    BY <1>n, <1>8
  <2> HIDE DEF g
  <2>2. ASSUME NEW i \in 1..N PROVE g[i] >= W[i] + 1 + g[i + 1]
    <3>1. i \in 1..(L - 1) /\ i \in 1..L /\ i + 1 \in 1..L
      BY <1>n, <1>8
    <3>2. W[i] = T[i + 1]
      BY <3>1, <1>a, <1>8
    <3>3. f[i + 1] >= T[i + 1] + 1 + f[(i + 1) + 1] /\ g[i] = f[i + 1] /\ g[i + 1] = f[(i + 1) + 1]
      BY <3>1, <2>1, <1>a
    <3>4. QED
      BY <3>2, <3>3
  <2>3. ToSet(n.result) = ToSet(st.result) \cup {c.step}
    <3> DEFINE x == c.step
    <3>1. x \in Step /\ n.result = Append(st.result, x)
      BY <1>8 DEF ToSet
    <3> HIDE DEF x
    <3>2. ToSet(Append(st.result, x)) = ToSet(st.result) \cup {x}
      BY <3>1, <1>2, AppendFacts
    <3>3. QED
      BY <3>1, <3>2 DEF x
  <2>4. ASSUME NEW e \in V PROVE ~InProgress(e, st)
    <3> SUFFICES ASSUME NEW i \in 1..L, st.calls[i].step = e PROVE FALSE
      BY <1>n DEF InProgress
    <3>1. i # 1
      BY <2>3 DEF Untouched
    <3>2. i - 1 \in 1..(L - 1) /\ (i - 1) + 1 = i /\ i - 1 \in DOMAIN n.calls
      BY <3>1, <1>n, <1>8
    <3>3. n.calls[i - 1].step = e
      BY <3>2, <1>8
    <3>4. QED
      BY <3>2, <3>3 DEF Untouched, InProgress
  <2>5. V \subseteq U
    BY <2>3, <2>4 DEF Untouched
  <2>6. g[1] + 1 <= f[1]
    <3>1. g[1] = f[2]
      BY <2>1, <1>n
    <3>2. QED
      BY <3>1, <1>b
  <2>7. QED
    BY <2>1, <2>2, <2>5, <2>6, <1>7
<1>9. CASE /\ n.result = st.result /\ N = L
           /\ n.calls[1].step = c.step /\ Len(n.calls[1].todo) = Len(c.todo) - 1
           /\ \A i \in 2..L : n.calls[i] = st.calls[i]
  <2> DEFINE g == [f EXCEPT ![1] = @ - 1]
  <2>0. W[1] = T[1] - 1 /\ 1 \in 1..L /\ f[1] - 1 \in Nat
    <3>1. 1 \in 1..L /\ 1 \in 1..N /\ f[1] - 1 \in Nat
      <4>1. f[1] - 1 \in Nat
        BY <1>b
      <4>2. QED
        BY <4>1, <1>n, <1>9
    <3> HIDE DEF c
    <3>2. T[1] = Len(c.todo)
      BY <3>1, <1>a DEF c
    <3>3. W[1] = Len(c.todo) - 1
      BY <3>1, <1>a, <1>9
    <3>4. QED
      BY <3>1, <3>2, <3>3
  <2>1. /\ g \in [1..(N + 1) -> Nat] /\ g[1] = f[1] - 1
        /\ \A i \in 2..(L + 1) : g[i] = f[i]
    BY <1>n, <1>9, <2>0
  <2> HIDE DEF g
  <2>2. ASSUME NEW i \in 1..N PROVE g[i] >= W[i] + 1 + g[i + 1]
    <3>1. CASE i = 1
      <4>1. g[1 + 1] = f[2]
        BY <2>1, <1>n
      <4>2. g[1] = f[1] - 1 /\ W[1] = T[1] - 1
        BY <2>0, <2>1
      <4>3. QED
        BY <4>1, <4>2, <1>b, <3>1
    <3>2. CASE i # 1
      <4>1. i \in 2..L /\ i \in 1..L /\ i \in 2..(L + 1) /\ i + 1 \in 2..(L + 1)
        BY <3>2, <1>n, <1>9
      <4>2. W[i] = T[i]
        BY <4>1, <1>a, <1>9
      <4>3. g[i] = f[i] /\ g[i + 1] = f[i + 1] /\ f[i] >= T[i] + 1 + f[i + 1]
        BY <4>1, <2>1, <1>a
      <4>4. QED
        BY <4>2, <4>3
    <3>3. QED
      BY <3>1, <3>2
  <2>3. V \subseteq U
    <3>1. \A i \in 1..L : n.calls[i].step = st.calls[i].step
      <4>1. \A i \in 1..L : i = 1 \/ i \in 2..L
        BY <1>n
      <4>2. QED
        BY <4>1, <1>9
    <3>2. QED
      BY <3>1, <1>n, <1>9 DEF Untouched, InProgress
  <2>4. g[1] + 1 <= f[1]
    BY <2>1, <1>b
  <2>5. QED
    BY <2>1, <2>2, <2>3, <2>4, <1>7
<1>10. CASE /\ n.result = st.result /\ N = L + 1
            /\ d \in ToSet(steps) \ ToSet(st.result) /\ ~InProgress(d, st)
            /\ n.calls[1] = [step |-> d, todo |-> def.dependsOn[d]]
            /\ n.calls[2].step = c.step /\ Len(n.calls[2].todo) = Len(c.todo) - 1
            /\ \A i \in 2..L : n.calls[i + 1] = st.calls[i]
  <2> DEFINE l == Len(def.dependsOn[d])
             g == [i \in 1..(L + 2) |-> IF i = 1 THEN f[1] + l ELSE IF i = 2 THEN f[1] - 1 ELSE f[i - 1]]
  <2>l. l \in Nat /\ l <= m
    <3>1. d \in Step
      BY <1>10 DEF ToSet
    <3>2. def.dependsOn[d] \in Seq(Step)
      BY <3>1, WorkflowAssumption
    <3>3. l \in Nat
      BY <3>2
    <3>4. l <= m
      BY <1>10
    <3>5. QED
      BY <3>3, <3>4
  <2>0. W[1] = l /\ W[2] = T[1] - 1 /\ f[1] - 1 \in Nat /\ 1 \in 1..L
    <3>1. 1 \in 1..L /\ 1 \in 1..N /\ 2 \in 1..N /\ f[1] - 1 \in Nat
      <4>1. 1 \in 1..L /\ 1 \in 1..(L + 1) /\ 2 \in 1..(L + 1)
        BY <1>n
      <4>2. f[1] - 1 \in Nat
        BY <1>b
      <4>3. QED
        BY <4>1, <4>2, <1>10
    <3> HIDE DEF c
    <3>2. T[1] = Len(c.todo)
      BY <3>1, <1>a DEF c
    <3>3. W[2] = Len(c.todo) - 1
      BY <3>1, <1>a, <1>10
    <3>4. W[1] = l
      BY <3>1, <1>a, <1>10
    <3> HIDE DEF l
    <3>5. QED
      BY <3>1, <3>2, <3>3, <3>4
  <2> HIDE DEF l
  <2>1. /\ g \in [1..(N + 1) -> Nat] /\ g[1] = f[1] + l /\ g[2] = f[1] - 1
        /\ \A i \in 2..(L + 1) : g[i + 1] = f[i]
    <3>1. ASSUME NEW i \in 1..(L + 2) PROVE g[i] \in Nat
      <4>1. i = 1 \/ i = 2 \/ i - 1 \in 1..(L + 1)
        BY <1>n
      <4>2. CASE i # 1 /\ i # 2
        <5>1. i - 1 \in 1..(L + 1) /\ g[i] = f[i - 1]
          BY <4>1, <4>2
        <5>2. QED
          BY <5>1
      <4>3. CASE i = 1
        <5> DEFINE x == f[1]
        <5>0. x \in Nat
          BY <1>b
        <5> HIDE DEF x
        <5>1. x + l \in Nat
          BY <5>0, <2>l
        <5>2. QED
          BY <5>1, <4>3 DEF x
      <4>4. CASE i = 2
        BY <4>4, <2>0
      <4>5. QED
        BY <4>2, <4>3, <4>4
    <3>2. g \in [1..(L + 2) -> Nat] /\ L + 2 = N + 1
      BY <3>1, <1>n, <1>10
    <3>3. ASSUME NEW i \in 2..(L + 1) PROVE g[i + 1] = f[i]
      <4>1. i + 1 \in 1..(L + 2) /\ i + 1 # 1 /\ i + 1 # 2 /\ (i + 1) - 1 = i
        BY <1>n
      <4>2. QED
        BY <4>1
    <3>4. QED
      BY <3>2, <3>3, <1>n
  <2> HIDE DEF g
  <2>2. ASSUME NEW i \in 1..N PROVE g[i] >= W[i] + 1 + g[i + 1]
    <3>1. CASE i = 1
      <4>1. g[1] = f[1] + l /\ g[1 + 1] = f[1] - 1 /\ W[1] = l
        BY <2>0, <2>1
      <4> DEFINE x == f[1]
      <4>2. x \in Nat
        BY <1>b
      <4> HIDE DEF x
      <4>3. x + l >= l + 1 + (x - 1)
        BY <4>2, <2>l
      <4>4. QED
        BY <4>1, <4>3, <3>1 DEF x
    <3>2. CASE i = 2
      <4>1. g[2 + 1] = f[2]
        <5>1. 2 \in 2..(L + 1)
          BY <1>n
        <5>2. QED
          BY <5>1, <2>1
      <4>2. g[2] >= W[2] + 1 + g[2 + 1]
        BY <4>1, <1>b, <2>0, <2>1
      <4>3. QED
        BY <4>2, <3>2
    <3>3. CASE i # 1 /\ i # 2
      <4>1. PICK k \in 2..L : i = k + 1
        <5>1. i - 1 \in 2..L /\ i = (i - 1) + 1
          BY <3>3, <1>n, <1>10
        <5>2. QED
          BY <5>1
      <4>2. k \in 1..L /\ k \in 2..(L + 1) /\ k + 1 \in 2..(L + 1)
        BY <4>1, <1>n
      <4>3. W[i] = T[k]
        <5>1. W[i] = Len(n.calls[i].todo) /\ T[k] = Len(st.calls[k].todo)
          BY <4>2, <1>a
        <5>2. n.calls[i] = st.calls[k]
          BY <4>1, <1>10
        <5>3. QED
          BY <5>1, <5>2
      <4>4. g[i] = f[k] /\ g[i + 1] = f[k + 1] /\ f[k] >= T[k] + 1 + f[k + 1]
        BY <4>1, <4>2, <2>1, <1>a
      <4>5. QED
        BY <4>3, <4>4
    <3>4. QED
      BY <3>1, <3>2, <3>3
  <2>3. d \in U /\ V \subseteq U \ {d}
    <3>1. d \in U
      BY <1>10 DEF Untouched
    <3>2. ASSUME NEW e \in V PROVE e \in U /\ e # d
      <4>1. \A i \in 1..(L + 1) : n.calls[i].step # e
        BY <1>n, <1>10 DEF Untouched, InProgress
      <4>2. e # d
        <5>1. 1 \in 1..(L + 1) /\ n.calls[1].step = d
          BY <1>n, <1>10
        <5>2. QED
          BY <4>1, <5>1
      <4>3. ASSUME NEW i \in 1..L PROVE st.calls[i].step # e
        <5>1. CASE i = 1
          <6>1. 2 \in 1..(L + 1) /\ n.calls[2].step = st.calls[1].step
            BY <1>n, <1>10
          <6>2. QED
            BY <5>1, <6>1, <4>1
        <5>2. CASE i # 1
          <6>1. i \in 2..L /\ i + 1 \in 1..(L + 1)
            BY <5>2, <1>n
          <6>2. QED
            BY <6>1, <4>1, <1>10
        <5>3. QED
          BY <5>1, <5>2
      <4>4. QED
        BY <4>2, <4>3, <1>n, <1>10 DEF Untouched, InProgress
    <3>3. QED
      BY <3>1, <3>2
  <2>4. g[1] + 1 <= f[1] + (m + 1)
    <3> DEFINE x == f[1]
    <3>1. x \in Nat /\ g[1] = x + l
      BY <2>1, <1>b
    <3> HIDE DEF x
    <3>2. x + l + 1 <= x + (m + 1)
      BY <3>1, <2>l
    <3>3. QED
      BY <3>1, <3>2 DEF x
  <2> HIDE DEF U, V, d
  <2>5. QED
    BY <2>1, <2>2, <2>3, <2>4, <1>7
<1>11. QED
  BY <1>1, <1>8, <1>9, <1>10 DEF TurnShape, N, L

\* topologicalSort ends, within a turn for each step and each of its dependencies
\* and two more for each step: it has refused, or no call is open.
THEOREM SortEnds ==
  ASSUME NEW steps \in Seq(Step), def \in Definitions,
         NEW m \in Nat, \A s \in ToSet(steps) : Len(def.dependsOn[s]) <= m,
         Len(steps) * (m + 2) + 1 <= MaxTurns
  PROVE  ~TopologicalSort(steps).ok \/ TopologicalSort(steps).calls = <<>>
<1> DEFINE st(t) == Sorting(steps)[t]
           Open(t) == st(t).ok /\ st(t).calls # <<>>
           Good(t) == SearchInv(steps, st(t)) /\ (Open(t) => Paid(steps, st(t), t, m))
           T == {t \in Nat : t \in 0..MaxTurns => Good(t)}
           b == Len(steps) * (m + 2) + 1
<1>1. 0 \in T
  <2> DEFINE s == StartSort(steps)
             c == [step |-> "loop", todo |-> steps]
             l == Len(steps)
             f == [i \in 1..2 |-> IF i = 1 THEN l + 1 ELSE 0]
             u == Cardinality(Untouched(steps, s))
  <2>1. s.calls = <<c>> /\ l \in Nat /\ u \in Nat /\ u <= l
    BY UntouchedFacts DEF StartSort
  <2>2. Len(s.calls) = 1 /\ s.calls[1] = c /\ Len(c.todo) = l
    BY <2>1
  <2> HIDE DEF s, l, u
  <2>3. f \in [1..2 -> Nat] /\ f[1] = l + 1 /\ f[2] = 0
    BY <2>1
  <2>4. 0 + f[1] + u * (m + 1) <= l * (m + 2) + 1
    <3>1. u * (m + 1) <= l * (m + 1) /\ u * (m + 1) \in Nat /\ l * (m + 1) \in Nat
      <4>1. m + 1 \in Nat
        OBVIOUS
      <4>2. QED
        BY <4>1, <2>1, TimesMonotone
    <3>2. l * (m + 2) = l * (m + 1) + l
      BY <2>1
    <3>3. QED
      BY <3>1, <3>2, <2>1, <2>3
  <2> HIDE DEF c, f
  <2>5. \A i \in 1..1 : f[i] >= Len(s.calls[i].todo) + 1 + f[i + 1]
    <3>1. f[1] >= Len(s.calls[1].todo) + 1 + f[1 + 1]
      BY <2>1, <2>2, <2>3
    <3>2. QED
      BY <3>1
  <2>6. Paid(steps, s, 0, m)
    BY <2>2, <2>3, <2>4, <2>5 DEF Paid, u, l
  <2>7. SearchInv(steps, s) /\ st(0) = s
    BY SearchBegins, SearchTurns DEF s
  <2>8. QED
    BY <2>6, <2>7
<1>2. ASSUME NEW t \in Nat, t \in T PROVE t + 1 \in T
  <2> SUFFICES ASSUME t + 1 \in 0..MaxTurns PROVE Good(t + 1)
    OBVIOUS
  <2>1. Good(t)
    BY <1>2, WorkflowAssumption
  <2>2. st(t + 1) = Turn(steps, st(t))
    BY SearchTurns
  <2>3. SearchInv(steps, st(t + 1))
    BY <2>1, <2>2, SearchTurn
  <2>4. ASSUME Open(t + 1) PROVE Paid(steps, st(t + 1), t + 1, m)
    <3>1. Open(t)
      BY <2>2, <2>4 DEF Turn
    <3> HIDE DEF st
    <3>2. QED
      BY <2>1, <2>2, <2>4, <3>1, TurnPaid
  <2>5. QED
    BY <2>3, <2>4
<1>3. \A t \in Nat : t \in T
  <2> HIDE DEF T
  <2>1. QED
    BY <1>1, <1>2, NatIsInductive
<1>4. Good(MaxTurns)
  BY <1>3, WorkflowAssumption
<1> SUFFICES ASSUME Open(MaxTurns) PROVE FALSE
  BY DEF TopologicalSort
<1> DEFINE e == st(MaxTurns)
           L == Len(e.calls)
           x == Len(e.calls[1].todo)
           u == Cardinality(Untouched(steps, e))
<1>5. e.calls \in Seq(VisitCall) /\ e.calls # <<>> /\ Paid(steps, e, MaxTurns, m)
  BY <1>4 DEF SearchInv, SearchState
<1> HIDE DEF e, st
<1>6. L \in Nat /\ L >= 1 /\ 1 \in 1..L /\ 1 \in DOMAIN e.calls
  BY <1>5
<1>7. x \in Nat
  <2>1. e.calls[1] \in VisitCall
    BY <1>5, <1>6
  <2>2. e.calls[1].todo \in Seq(Step)
    BY <2>1 DEF VisitCall
  <2>3. QED
    BY <2>2
<1>8. PICK f \in [1..(L + 1) -> Nat] :
        /\ \A i \in 1..L : f[i] >= Len(e.calls[i].todo) + 1 + f[i + 1]
        /\ MaxTurns + f[1] + u * (m + 1) <= b
  BY <1>5 DEF Paid
<1>9. f[1] >= 1
  <2>1. 1 \in 1..(L + 1) /\ 1 + 1 \in 1..(L + 1)
    BY <1>6
  <2>2. f[1] \in Nat /\ f[1 + 1] \in Nat
    BY <2>1
  <2>3. f[1] >= x + 1 + f[1 + 1]
    BY <1>6, <1>8
  <2> HIDE DEF x
  <2>4. QED
    BY <2>2, <2>3, <1>7
<1> DEFINE y == u * (m + 1)
<1>10. y \in Nat
  <2>1. u \in Nat
    BY UntouchedFacts
  <2> HIDE DEF u
  <2>2. u * (m + 1) \in Nat
    BY <2>1
  <2>3. QED
    BY <2>2
<1>11. MaxTurns \in Nat /\ b <= MaxTurns
  BY WorkflowAssumption
<1> HIDE DEF b
<1>12. b \in Nat
  <2> DEFINE l == Len(steps)
  <2>1. l \in Nat
    OBVIOUS
  <2> HIDE DEF l
  <2>2. l * (m + 2) + 1 \in Nat
    BY <2>1
  <2>3. QED
    BY <2>2 DEF l, b
<1>13. MaxTurns + f[1] + y <= b /\ f[1] \in Nat
  BY <1>6, <1>8
<1> HIDE DEF y
<1>14. QED
  BY <1>9, <1>10, <1>11, <1>12, <1>13

\* Steps that can be ordered have neither a cycle nor an unknown dependency.
HasOrder(steps) == \E q \in Seq(Step) : InOrder(steps, q) /\ ToSet(q) = ToSet(steps)

LEMMA OrderedAcyclic ==
  ASSUME NEW steps \in Seq(Step), HasOrder(steps)
  PROVE  /\ \A s \in ToSet(steps) : ToSet(def.dependsOn[s]) \subseteq ToSet(steps)
         /\ \A p \in Seq(ToSet(steps)) : ~Cycle(p)
<1>1. PICK q \in Seq(Step) : InOrder(steps, q) /\ ToSet(q) = ToSet(steps)
  BY DEF HasOrder
<1> DEFINE N == Len(q)
<1>2. N \in Nat /\ DOMAIN q = 1..N
  BY <1>1
<1>3. \A i \in 1..N : q[i] \in ToSet(steps)
  BY <1>1, <1>2 DEF InOrder
<1>4. \A i \in 1..N : \A d \in ToSet(def.dependsOn[q[i]]) : \E j \in 1..(i - 1) : q[j] = d
  BY <1>1, <1>2 DEF InOrder
<1>5. \A s \in ToSet(steps) : \E i \in 1..N : q[i] = s
  BY <1>1, <1>2 DEF ToSet
<1> HIDE DEF N
<1>6. ASSUME NEW s \in ToSet(steps) PROVE ToSet(def.dependsOn[s]) \subseteq ToSet(steps)
  <2> SUFFICES ASSUME NEW d \in ToSet(def.dependsOn[s]) PROVE d \in ToSet(steps)
    OBVIOUS
  <2>1. PICK i \in 1..N : q[i] = s
    BY <1>5
  <2>2. PICK j \in 1..(i - 1) : q[j] = d
    BY <2>1, <1>4
  <2>3. j \in 1..N
    BY <2>1, <2>2, <1>2
  <2>4. QED
    BY <2>2, <2>3, <1>3
<1>7. ASSUME NEW p \in Seq(ToSet(steps)), Cycle(p) PROVE FALSE
  <2> DEFINE K == Len(p)
             At(i, j) == j \in 1..N /\ q[j] = p[i]
             Good(i) == \A h, j : At(1, h) /\ At(i + 1, j) => h + i <= j
             T == {i \in Nat : i + 1 \in 1..K => Good(i)}
  <2>1. /\ K \in Nat /\ DOMAIN p = 1..K /\ K > 1 /\ p[1] = p[K]
        /\ \A i \in 1..(K - 1) : p[i] \in ToSet(def.dependsOn[p[i + 1]])
    BY <1>7 DEF Cycle
  <2> HIDE DEF K
  <2>2. 0 \in T
    <3>1. \A h, j \in 1..N : q[h] = q[j] => h = j
      BY <1>1, <1>2 DEF InOrder
    <3>2. \A h, j : At(1, h) /\ At(0 + 1, j) => h + 0 <= j
      BY <3>1, <1>2
    <3>3. QED
      BY <3>2
  <2>3. ASSUME NEW i \in Nat, i \in T PROVE i + 1 \in T
    <3> SUFFICES ASSUME (i + 1) + 1 \in 1..K, NEW h, NEW j, At(1, h), At((i + 1) + 1, j)
                 PROVE  h + (i + 1) <= j
      OBVIOUS
    <3>1. i + 1 \in 1..(K - 1) /\ i + 1 \in 1..K
      BY <2>1
    <3>2. p[i + 1] \in ToSet(def.dependsOn[q[j]])
      BY <3>1, <2>1
    <3>3. PICK k \in 1..(j - 1) : q[k] = p[i + 1]
      BY <3>2, <1>4
    <3>4. k \in 1..N /\ h \in 1..N /\ j \in 1..N /\ k <= j - 1
      BY <3>3, <1>2
    <3>5. h + i <= k
      BY <3>1, <3>3, <3>4, <2>3
    <3>6. QED
      BY <3>4, <3>5, <1>2
  <2>4. \A i \in Nat : i \in T
    <3> HIDE DEF T
    <3>1. QED
      BY <2>2, <2>3, NatIsInductive
  <2>5. PICK h \in 1..N : q[h] = p[1]
    <3>1. p[1] \in ToSet(steps)
      BY <2>1
    <3>2. QED
      BY <3>1, <1>5
  <2>6. K - 1 \in Nat /\ (K - 1) + 1 = K /\ K \in 1..K
    BY <2>1
  <2>7. Good(K - 1)
    BY <2>4, <2>6
  <2>8. h + (K - 1) <= h
    BY <2>1, <2>5, <2>6, <2>7
  <2>9. QED
    BY <2>1, <2>5, <2>8, <1>2
<1>8. QED
  BY <1>6, <1>7

\* topologicalSort decides: given the turns it needs, it succeeds exactly on the
\* steps that can be ordered.
THEOREM SortDecides ==
  ASSUME NEW steps \in Seq(Step), def \in Definitions,
         NEW m \in Nat, \A s \in ToSet(steps) : Len(def.dependsOn[s]) <= m,
         Len(steps) * (m + 2) + 1 <= MaxTurns
  PROVE  Ordered(TopologicalSort(steps)) <=> HasOrder(steps)
<1> DEFINE st == TopologicalSort(steps)
<1>1. ASSUME Ordered(st) PROVE HasOrder(steps)
  <2>1. st.result \in Seq(Step) /\ InOrder(steps, st.result) /\ ToSet(st.result) = ToSet(steps)
    BY <1>1, SortOrders DEF SearchState
  <2>2. QED
    BY <2>1 DEF HasOrder
<1>2. ASSUME HasOrder(steps) PROVE Ordered(st)
  <2>1. st.ok
    BY <1>2, SortRefuses, OrderedAcyclic
  <2>2. QED
    BY <2>1, SortEnds DEF Ordered
<1>3. QED
  BY <1>1, <1>2

-----------------------------------------------------------------------------
(* The conditions                                                          *)

\* Like that of the search, the recursive functions of the parser and of the
\* meaning exist.
Descends(toks, st, f, m) ==
  f = [n \in 0..m |-> IF n = 0 THEN [c \in Calls(toks) |-> Result(FALSE, c.at)]
                      ELSE [c \in Calls(toks) |-> Called(f[n - 1], toks, c, st)]]

LEMMA ParserExists ==
  ASSUME NEW toks, NEW st
  PROVE  \A m \in Nat : \E f : Descends(toks, st, f, m)
<1> DEFINE T == {m \in Nat : \E f : Descends(toks, st, f, m)}
           Base == [c \in Calls(toks) |-> Result(FALSE, c.at)]
           After(u) == [c \in Calls(toks) |-> Called(u, toks, c, st)]
<1>1. 0 \in T
  <2> DEFINE f == [n \in 0..0 |-> Base]
  <2>1. Descends(toks, st, f, 0)
    <3>1. f = [n \in 0..0 |-> IF n = 0 THEN Base ELSE After(f[n - 1])]
      OBVIOUS
    <3> HIDE DEF f
    <3>2. QED
      BY <3>1 DEF Descends
  <2>2. QED
    BY <2>1
<1>2. ASSUME NEW m \in Nat, m \in T PROVE m + 1 \in T
  <2>1. PICK f : Descends(toks, st, f, m)
    BY <1>2
  <2> DEFINE g == [n \in 0..(m + 1) |-> IF n = m + 1 THEN After(f[m]) ELSE f[n]]
             h == [n \in 0..(m + 1) |-> IF n = 0 THEN Base ELSE After(g[n - 1])]
  <2>2. \A n \in 0..m : f[n] = IF n = 0 THEN Base ELSE After(f[n - 1])
    BY <2>1 DEF Descends
  <2>3. ASSUME NEW n \in 0..(m + 1) PROVE g[n] = h[n]
    <3> HIDE DEF After, Base
    <3>1. CASE n = m + 1
      <4>1. g[n] = After(f[m]) /\ h[n] = After(g[m]) /\ g[m] = f[m]
        BY <3>1
      <4>2. QED
        BY <4>1
    <3>2. CASE n \in 0..m /\ n # 0
      <4>1. g[n] = f[n] /\ g[n - 1] = f[n - 1] /\ h[n] = After(g[n - 1])
        BY <3>2
      <4>2. QED
        BY <4>1, <3>2, <2>2
    <3>3. CASE n = 0
      BY <3>3, <2>2
    <3>4. QED
      BY <3>1, <3>2, <3>3
  <2>4. g = h
    <3> HIDE DEF After, Base
    <3>1. QED
      BY <2>3
  <2>5. Descends(toks, st, g, m + 1)
    <3> HIDE DEF g
    <3>1. QED
      BY <2>4 DEF Descends
  <2>6. QED
    BY <2>5
<1>3. \A m \in Nat : m \in T
  <2> HIDE DEF T
  <2>1. QED
    BY <1>1, <1>2, NatIsInductive
<1>4. QED
  BY <1>3

\* A call does what its function does, with one level less for what it calls.
LEMMA ParserCalls ==
  ASSUME NEW toks, Len(toks) \in Nat, NEW st
  PROVE  \A n \in 1..(Len(toks) + 1) : \A c \in Calls(toks) :
           Parser(toks, st)[n][c] = Called(Parser(toks, st)[n - 1], toks, c, st)
<1> DEFINE f == Parser(toks, st)
<1>1. Descends(toks, st, f, Len(toks) + 1)
  <2>1. \E g : Descends(toks, st, g, Len(toks) + 1)
    BY ParserExists
  <2>2. f = CHOOSE g : Descends(toks, st, g, Len(toks) + 1)
    BY DEF Parser, Descends
  <2>3. QED
    BY <2>1, <2>2
<1> HIDE DEF f
<1> DEFINE Base == [c \in Calls(toks) |-> Result(FALSE, c.at)]
           After(u) == [c \in Calls(toks) |-> Called(u, toks, c, st)]
<1>2. f = [n \in 0..(Len(toks) + 1) |-> IF n = 0 THEN Base ELSE After(f[n - 1])]
  BY <1>1 DEF Descends
<1>3. ASSUME NEW n \in 1..(Len(toks) + 1) PROVE f[n] = After(f[n - 1])
  <2> HIDE DEF After, Base
  <2>1. n \in 0..(Len(toks) + 1) /\ n # 0
    OBVIOUS
  <2>2. QED
    BY <1>2, <2>1
<1>4. QED
  BY <1>3 DEF f

-----------------------------------------------------------------------------
\* One node, when M has the meanings of those before it.
NodeMeans(e, M, st) ==
  CASE e.op = "or" -> M[e.l] \/ M[e.r]
    [] e.op = "and" -> M[e.l] /\ M[e.r]
    [] e.op = "not" -> ~M[e.l]
    [] e.op = "parens" -> M[e.l]
    [] e.op = "ref" -> StepRef(e.toks[1], st)
    [] OTHER -> e.op = "true"

MeansUpTo(f, st, m) == f = [n \in 1..m |-> NodeMeans(Forest[n], f, st)]

LEMMA NodeFacts ==
  ASSUME NEW k \in DOMAIN Forest
  PROVE  /\ Len(Forest) \in Nat /\ DOMAIN Forest = 1..Len(Forest) /\ k \in Nat \ {0}
         /\ Forest[k] \in Node /\ Forest[k].toks \in Seq(Token) /\ WellFormed(Forest[k], k)
         /\ Forest[k].op \notin Atom =>
              /\ Forest[k].l \in 1..(k - 1) /\ Forest[k].r \in 1..(k - 1)
              /\ Forest[k].l \in DOMAIN Forest /\ Forest[k].r \in DOMAIN Forest
<1>1. Len(Forest) \in Nat /\ DOMAIN Forest = 1..Len(Forest) /\ k \in Nat \ {0} /\ Forest[k] \in Node
  BY ConditionAssumption
<1>2. WellFormed(Forest[k], k)
  BY ConditionAssumption
<1>3. QED
  BY <1>1, <1>2 DEF WellFormed, Node

LEMMA MeaningExists ==
  ASSUME NEW st
  PROVE  \A m \in Nat : m <= Len(Forest) => \E f : MeansUpTo(f, st, m)
<1> DEFINE T == {m \in Nat : m <= Len(Forest) => \E f : MeansUpTo(f, st, m)}
<1>1. 0 \in T
  <2> DEFINE f == [n \in 1..0 |-> TRUE]
  <2>1. MeansUpTo(f, st, 0)
    BY DEF MeansUpTo
  <2>2. QED
    BY <2>1
<1>2. ASSUME NEW m \in Nat, m \in T PROVE m + 1 \in T
  <2> SUFFICES ASSUME m + 1 <= Len(Forest) PROVE \E f : MeansUpTo(f, st, m + 1)
    OBVIOUS
  <2>0. Len(Forest) \in Nat /\ DOMAIN Forest = 1..Len(Forest)
    BY ConditionAssumption
  <2>1. PICK f : MeansUpTo(f, st, m)
    BY <1>2, <2>0
  <2> DEFINE g == [n \in 1..(m + 1) |-> NodeMeans(Forest[n], f, st)]
  <2>2. ASSUME NEW n \in 1..m PROVE g[n] = f[n]
    <3>1. f[n] = NodeMeans(Forest[n], f, st)
      BY <2>1 DEF MeansUpTo
    <3>2. n \in 1..(m + 1)
      OBVIOUS
    <3>3. QED
      BY <3>1, <3>2
  <2>3. ASSUME NEW n \in 1..(m + 1) PROVE NodeMeans(Forest[n], f, st) = NodeMeans(Forest[n], g, st)
    <3> DEFINE e == Forest[n]
    <3>1. n \in DOMAIN Forest
      BY <2>0
    <3>2. e.op \in Atom \cup {"or", "and", "not", "parens"}
      BY <3>1, NodeFacts DEF Node
    <3>3. CASE e.op \in Atom
      BY <3>3 DEF NodeMeans, Atom
    <3>4. CASE e.op \notin Atom
      <4>1. e.l \in 1..m /\ e.r \in 1..m
        BY <3>1, <3>4, NodeFacts
      <4>2. f[e.l] = g[e.l] /\ f[e.r] = g[e.r]
        BY <4>1, <2>2
      <4> HIDE DEF g
      <4>3. QED
        BY <4>2 DEF NodeMeans
    <3>5. QED
      BY <3>3, <3>4
  <2>4. g = [n \in 1..(m + 1) |-> NodeMeans(Forest[n], g, st)]
    <3> DEFINE h == [n \in 1..(m + 1) |-> NodeMeans(Forest[n], g, st)]
    <3>1. \A n \in 1..(m + 1) : g[n] = h[n]
      BY <2>3
    <3>2. QED
      BY <3>1
  <2>5. MeansUpTo(g, st, m + 1)
    <3> HIDE DEF g
    <3>1. QED
      BY <2>4 DEF MeansUpTo
  <2>6. QED
    BY <2>5
<1>3. \A m \in Nat : m \in T
  <2> HIDE DEF T
  <2>1. QED
    BY <1>1, <1>2, NatIsInductive
<1>4. QED
  BY <1>3

LEMMA MeaningIs ==
  ASSUME NEW k \in DOMAIN Forest, NEW st
  PROVE  LET e == Forest[k]
         IN  /\ e.op = "or" => Meaning(k, st) = (Meaning(e.l, st) \/ Meaning(e.r, st))
             /\ e.op = "and" => Meaning(k, st) = (Meaning(e.l, st) /\ Meaning(e.r, st))
             /\ e.op = "not" => Meaning(k, st) = ~Meaning(e.l, st)
             /\ e.op = "parens" => Meaning(k, st) = Meaning(e.l, st)
             /\ e.op = "ref" => Meaning(k, st) = StepRef(e.toks[1], st)
             /\ e.op = "true" => Meaning(k, st) = TRUE
             /\ e.op = "false" => Meaning(k, st) = FALSE
<1> DEFINE M == CHOOSE f : MeansUpTo(f, st, Len(Forest))
<1>1. \A n : Meaning(n, st) = M[n]
  BY DEF Meaning, MeansUpTo, NodeMeans
<1>2. MeansUpTo(M, st, Len(Forest))
  <2>1. \E f : MeansUpTo(f, st, Len(Forest))
    BY MeaningExists, ConditionAssumption
  <2>2. QED
    BY <2>1
<1> HIDE DEF M
<1>3. M[k] = NodeMeans(Forest[k], M, st)
  BY <1>2, NodeFacts DEF MeansUpTo
<1>4. QED
  BY <1>1, <1>3 DEF NodeMeans

-----------------------------------------------------------------------------
\* The node k is written from the token i on, and what the parser makes of it
\* there, at every level n that suffices for what is left.
Written(k, toks, i) ==
  /\ i \in 1..(Len(toks) + 1) /\ i + Len(Forest[k].toks) <= Len(toks) + 1
  /\ \A j \in 1..Len(Forest[k].toks) : toks[i + j - 1] = Forest[k].toks[j]

Enough(n, toks, i) == n \in 0..Len(toks) /\ n >= Len(toks) + 1 - i

Reads(k, toks, st, i) ==
  LET v == Result(Meaning(k, st), i + Len(Forest[k].toks))
      s == Strength(Forest[k].op)
      P == Parser(toks, st)
  IN \A n : Enough(n, toks, i) =>
       /\ s >= 4 => ParsePrimary(P[n], toks, i, st) = v
       /\ s >= 3 => ParseNot(P[n], toks, i, st) = v
       /\ s >= 2 => \E m : Enough(m, toks, v.at) /\ ParseAnd(P[n], toks, i, st) = AndLoop(P[m], toks, v)
       /\ Peek(toks, v.at) # "and" =>
            \E m : Enough(m, toks, v.at) /\ ParseOr(P[n], toks, i, st) = OrLoop(P[m], toks, v)

\* Where the operands are written, and what stands between them.
LEMMA OperandsWritten ==
  ASSUME NEW k \in DOMAIN Forest, NEW toks \in Seq(Token), NEW i, Written(k, toks, i)
  PROVE  LET e == Forest[k]
             n == Len(Forest[e.l].toks)
         IN  /\ Len(toks) \in Nat /\ Len(e.toks) \in Nat
             /\ e.op \in {"or", "and"} =>
                  /\ Written(e.l, toks, i) /\ Peek(toks, i + n) = e.op
                  /\ Written(e.r, toks, i + n + 1) /\ Len(e.toks) = n + 1 + Len(Forest[e.r].toks)
             /\ e.op = "not" =>
                  Peek(toks, i) = "not" /\ Written(e.l, toks, i + 1) /\ Len(e.toks) = n + 1
             /\ e.op = "parens" =>
                  /\ Peek(toks, i) = "lparen" /\ Written(e.l, toks, i + 1)
                  /\ Peek(toks, i + 1 + n) = "rparen" /\ Len(e.toks) = n + 2
             /\ e.op \in Atom => Peek(toks, i) = e.op /\ toks[i] = e.toks[1] /\ Len(e.toks) = 1
<1> DEFINE e == Forest[k]
           a == Forest[e.l].toks
           b == Forest[e.r].toks
<1>1. /\ Len(toks) \in Nat /\ e.toks \in Seq(Token) /\ Len(e.toks) \in Nat
      /\ WellFormed(e, k) /\ i \in 1..(Len(toks) + 1) /\ i + Len(e.toks) <= Len(toks) + 1
      /\ \A j \in 1..Len(e.toks) : toks[i + j - 1] = e.toks[j]
  BY NodeFacts DEF Written
<1>2. e.op \in Atom => Peek(toks, i) = e.op /\ toks[i] = e.toks[1] /\ Len(e.toks) = 1
  <2> SUFFICES ASSUME e.op \in Atom PROVE Peek(toks, i) = e.op /\ toks[i] = e.toks[1] /\ Len(e.toks) = 1
    OBVIOUS
  <2>1. Len(e.toks) = 1 /\ e.toks[1].type = e.op
    BY <1>1 DEF WellFormed
  <2>2. toks[i] = e.toks[1] /\ i <= Len(toks)
    BY <1>1, <2>1
  <2>3. QED
    BY <2>1, <2>2 DEF Peek
<1>3. CASE e.op \in Atom
  BY <1>1, <1>2, <1>3 DEF Atom
<1>4. CASE e.op \notin Atom
  <2>1. /\ a \in Seq(Token) /\ b \in Seq(Token) /\ Len(a) \in Nat /\ Len(b) \in Nat
        /\ e.toks = Spelled(e.op, a, b)
    <3>1. e.l \in DOMAIN Forest /\ e.r \in DOMAIN Forest
      BY <1>4, NodeFacts
    <3>2. a \in Seq(Token) /\ b \in Seq(Token)
      BY <3>1, NodeFacts
    <3>3. e.toks = Spelled(e.op, a, b)
      BY <1>1, <1>4 DEF WellFormed
    <3>4. QED
      BY <3>2, <3>3
  <2> HIDE DEF a, b, e
  <2>2. CASE e.op \in {"or", "and"}
    <3> DEFINE t == Tok(e.op)
    <3>1. e.toks = a \o <<t>> \o b
      BY <2>1, <2>2 DEF Spelled
    <3>2. t \in Token /\ t.type = e.op
      BY <2>2 DEF Tok, Token
    <3> HIDE DEF t
    <3>3. /\ Len(e.toks) = Len(a) + 1 + Len(b) /\ e.toks[Len(a) + 1] = t
          /\ \A j \in 1..Len(a) : e.toks[j] = a[j]
          /\ \A j \in 1..Len(b) : e.toks[Len(a) + 1 + j] = b[j]
      BY <2>1, <3>1, <3>2
    <3>4. toks[i + Len(a)] = t /\ i + Len(a) <= Len(toks)
      <4>1. Len(a) + 1 \in 1..Len(e.toks) /\ i + (Len(a) + 1) - 1 = i + Len(a)
        BY <2>1, <3>3, <1>1
      <4>2. QED
        BY <4>1, <3>3, <1>1, <2>1
    <3>5. ASSUME NEW j \in 1..Len(a) PROVE toks[i + j - 1] = a[j]
      <4>1. j \in 1..Len(e.toks)
        BY <2>1, <3>3, <1>1
      <4>2. QED
        BY <4>1, <3>3, <1>1
    <3>6. ASSUME NEW j \in 1..Len(b) PROVE toks[(i + Len(a) + 1) + j - 1] = b[j]
      <4>1. Len(a) + 1 + j \in 1..Len(e.toks) /\ i + (Len(a) + 1 + j) - 1 = (i + Len(a) + 1) + j - 1
        BY <2>1, <3>3, <1>1
      <4>2. toks[i + (Len(a) + 1 + j) - 1] = e.toks[Len(a) + 1 + j]
        BY <4>1, <1>1
      <4>3. QED
        BY <4>1, <4>2, <3>3
    <3>7. Written(e.l, toks, i) /\ Written(e.r, toks, i + Len(a) + 1) /\ Peek(toks, i + Len(a)) = e.op
      <4>1. /\ i + Len(a) <= Len(toks) + 1 /\ i + Len(a) + 1 \in 1..(Len(toks) + 1)
            /\ (i + Len(a) + 1) + Len(b) <= Len(toks) + 1
        BY <1>1, <2>1, <3>3
      <4>2. Written(e.l, toks, i) /\ Written(e.r, toks, i + Len(a) + 1)
        BY <4>1, <1>1, <3>5, <3>6 DEF Written, a, b
      <4>3. QED
        BY <4>2, <3>2, <3>4 DEF Peek
    <3>8. QED
      BY <1>1, <2>2, <3>3, <3>7 DEF a, b, e, Atom
  <2>3. CASE e.op = "not"
    <3> DEFINE t == Tok("not")
    <3>1. e.toks = <<t>> \o a
      BY <2>1, <2>3 DEF Spelled
    <3>2. t \in Token /\ t.type = "not"
      BY DEF Tok, Token
    <3> HIDE DEF t
    <3>3. /\ Len(e.toks) = Len(a) + 1 /\ e.toks[1] = t
          /\ \A j \in 1..Len(a) : e.toks[1 + j] = a[j]
      BY <2>1, <3>1, <3>2
    <3>4. toks[i] = t /\ i <= Len(toks)
      <4>1. 1 \in 1..Len(e.toks) /\ i + 1 - 1 = i
        BY <2>1, <3>3, <1>1
      <4>2. QED
        BY <4>1, <3>3, <1>1, <2>1
    <3>6. ASSUME NEW j \in 1..Len(a) PROVE toks[(i + 1) + j - 1] = a[j]
      <4>1. 1 + j \in 1..Len(e.toks) /\ i + (1 + j) - 1 = (i + 1) + j - 1
        BY <2>1, <3>3, <1>1
      <4>2. QED
        BY <4>1, <3>3, <1>1
    <3>7. Written(e.l, toks, i + 1) /\ Peek(toks, i) = "not"
      <4>1. i + 1 \in 1..(Len(toks) + 1) /\ (i + 1) + Len(a) <= Len(toks) + 1
        BY <1>1, <2>1, <3>3
      <4>2. Written(e.l, toks, i + 1)
        BY <4>1, <3>6 DEF Written, a
      <4>3. QED
        BY <4>2, <3>2, <3>4 DEF Peek
    <3>8. QED
      BY <1>1, <2>3, <3>3, <3>7 DEF a, e, Atom
  <2>4. CASE e.op = "parens"
    <3> DEFINE t == Tok("lparen")
               u == Tok("rparen")
    <3>1. e.toks = <<t>> \o a \o <<u>>
      BY <2>1, <2>4 DEF Spelled
    <3>2. t \in Token /\ u \in Token /\ t.type = "lparen" /\ u.type = "rparen"
      BY DEF Tok, Token
    <3> HIDE DEF t, u
    <3>3. /\ Len(e.toks) = Len(a) + 2 /\ e.toks[1] = t /\ e.toks[Len(a) + 2] = u
          /\ \A j \in 1..Len(a) : e.toks[1 + j] = a[j]
      BY <2>1, <3>1, <3>2
    <3>4. toks[i] = t /\ i <= Len(toks) /\ toks[i + 1 + Len(a)] = u /\ i + 1 + Len(a) <= Len(toks)
      <4>1. 1 \in 1..Len(e.toks) /\ i + 1 - 1 = i
        BY <2>1, <3>3, <1>1
      <4>2. Len(a) + 2 \in 1..Len(e.toks) /\ i + (Len(a) + 2) - 1 = i + 1 + Len(a)
        BY <2>1, <3>3, <1>1
      <4>3. QED
        BY <4>1, <4>2, <3>3, <1>1, <2>1
    <3>6. ASSUME NEW j \in 1..Len(a) PROVE toks[(i + 1) + j - 1] = a[j]
      <4>1. 1 + j \in 1..Len(e.toks) /\ i + (1 + j) - 1 = (i + 1) + j - 1
        BY <2>1, <3>3, <1>1
      <4>2. QED
        BY <4>1, <3>3, <1>1
    <3>7. /\ Written(e.l, toks, i + 1) /\ Peek(toks, i) = "lparen"
          /\ Peek(toks, i + 1 + Len(a)) = "rparen"
      <4>1. i + 1 \in 1..(Len(toks) + 1) /\ (i + 1) + Len(a) <= Len(toks) + 1
        BY <1>1, <2>1, <3>3
      <4>2. Written(e.l, toks, i + 1)
        BY <4>1, <3>6 DEF Written, a
      <4>3. QED
        BY <4>2, <3>2, <3>4 DEF Peek
    <3>8. QED
      BY <1>1, <2>4, <3>3, <3>7 DEF a, e, Atom
  <2>5. QED
    <3>1. e.op \in Atom \cup {"or", "and", "not", "parens"}
      BY NodeFacts DEF Node, e
    <3>2. QED
      BY <3>1, <1>4, <2>2, <2>3, <2>4 DEF e
<1>5. QED
  BY <1>3, <1>4

LEMMA Spoken ==
  ASSUME NEW k \in DOMAIN Forest
  PROVE  Forest[k].toks # <<>>
<1> DEFINE e == Forest[k]
<1>1. /\ e.op \in Atom => Len(e.toks) = 1
      /\ e.op \notin Atom => /\ e.toks = Spelled(e.op, Forest[e.l].toks, Forest[e.r].toks)
                             /\ Forest[e.l].toks \in Seq(Token) /\ Forest[e.r].toks \in Seq(Token)
  <2>1. WellFormed(e, k)
    BY NodeFacts
  <2>2. e.op \notin Atom => e.l \in DOMAIN Forest /\ e.r \in DOMAIN Forest
    BY NodeFacts
  <2>3. QED
    BY <2>1, <2>2, NodeFacts DEF WellFormed
<1>2. ASSUME NEW a \in Seq(Token), NEW b \in Seq(Token) PROVE Spelled(e.op, a, b) # <<>>
  <2>1. Tok("not") \in Token /\ Tok("lparen") \in Token /\ Tok("rparen") \in Token
    BY DEF Tok, Token
  <2>2. <<Tok("not")>> \o a # <<>> /\ <<Tok("lparen")>> \o a \o <<Tok("rparen")>> # <<>>
    BY <2>1
  <2>3. ASSUME NEW t PROVE a \o <<t>> \o b # <<>>
    OBVIOUS
  <2>4. QED
    BY <2>2, <2>3 DEF Spelled
<1> HIDE DEF e
<1>3. CASE e.op \in Atom
  <2>1. Len(e.toks) = 1
    BY <1>1, <1>3
  <2>2. QED
    BY <2>1 DEF e
<1>4. CASE e.op \notin Atom
  <2>1. e.toks # <<>>
    BY <1>1, <1>2, <1>4
  <2>2. QED
    BY <2>1 DEF e
<1>5. QED
  BY <1>3, <1>4

LEMMA CallsRead ==
  ASSUME NEW toks, Len(toks) \in Nat, NEW st, NEW n \in 1..(Len(toks) + 1),
         NEW i \in 1..(Len(toks) + 1), NEW left \in BOOLEAN
  PROVE  LET P == Parser(toks, st)
         IN  /\ P[n][Call("or", i, left)] = ParseOr(P[n - 1], toks, i, st)
             /\ P[n][Call("not", i, left)] = ParseNot(P[n - 1], toks, i, st)
             /\ P[n][Call("andTurn", i, left)] = AndTurn(P[n - 1], toks, i, left, st)
             /\ P[n][Call("orTurn", i, left)] = OrTurn(P[n - 1], toks, i, left, st)
<1> DEFINE P == Parser(toks, st)
<1>1. ASSUME NEW fn \in {"or", "orTurn", "andTurn", "not"}
      PROVE  /\ Call(fn, i, left).fn = fn /\ Call(fn, i, left).at = i /\ Call(fn, i, left).left = left
             /\ P[n][Call(fn, i, left)] = Called(P[n - 1], toks, Call(fn, i, left), st)
  <2>1. Call(fn, i, left) \in Calls(toks)
    BY DEF Call, Calls
  <2>2. QED
    BY <2>1, ParserCalls DEF Call
<1> HIDE DEF P
<1>2. QED
  BY <1>1 DEF Called, P

LEMMA AtomMeans ==
  ASSUME NEW k \in DOMAIN Forest, Forest[k].op \in Atom, NEW st
  PROVE  /\ Meaning(k, st) \in BOOLEAN
         /\ \A toks \in Seq(Token) : \A i : Written(k, toks, i) =>
              \A P : ParsePrimary(P, toks, i, st) = Result(Meaning(k, st), i + Len(Forest[k].toks))
<1> DEFINE e == Forest[k]
           t == e.toks[1]
<1>1. /\ e.op = "ref" => Meaning(k, st) = StepRef(t, st)
      /\ e.op = "true" => Meaning(k, st) = TRUE
      /\ e.op = "false" => Meaning(k, st) = FALSE
  BY MeaningIs
<1>2. StepRef(t, st) \in BOOLEAN
  <2> HIDE DEF t
  <2>1. CASE t.is = "outputs"
    <3>1. StepRef(t, st) = (t.step \in st.outputs)
      BY <2>1 DEF StepRef
    <3>2. QED
      BY <3>1
  <2>2. CASE t.is # "outputs"
    <3>1. StepRef(t, st) = (t.step \in DOMAIN st.status /\ st.status[t.step] = t.is)
      BY <2>2 DEF StepRef
    <3>2. QED
      BY <3>1
  <2>3. QED
    BY <2>1, <2>2
<1>3. ASSUME NEW toks \in Seq(Token), NEW i, Written(k, toks, i), NEW P
      PROVE  ParsePrimary(P, toks, i, st) = Result(Meaning(k, st), i + Len(e.toks))
  <2>1. Peek(toks, i) = e.op /\ toks[i] = t /\ Len(e.toks) = 1
    BY <1>3, OperandsWritten
  <2>2. QED
    BY <1>1, <2>1 DEF ParsePrimary, Atom
<1>4. QED
  BY <1>1, <1>2, <1>3 DEF Atom

LEMMA MeaningBoolean ==
  ASSUME NEW st
  PROVE  \A k \in DOMAIN Forest : Meaning(k, st) \in BOOLEAN
<1> DEFINE T == {m \in Nat : \A k \in 1..m : k \in DOMAIN Forest => Meaning(k, st) \in BOOLEAN}
<1>1. 0 \in T
  OBVIOUS
<1>2. ASSUME NEW m \in Nat, m \in T PROVE m + 1 \in T
  <2>1. ASSUME m + 1 \in DOMAIN Forest PROVE Meaning(m + 1, st) \in BOOLEAN
    <3> DEFINE e == Forest[m + 1]
    <3>1. CASE e.op \in Atom
      BY <2>1, <3>1, AtomMeans
    <3>2. CASE e.op \notin Atom
      <4>1. /\ e.l \in 1..((m + 1) - 1) /\ e.r \in 1..((m + 1) - 1)
            /\ e.l \in DOMAIN Forest /\ e.r \in DOMAIN Forest
        BY <2>1, <3>2, NodeFacts
      <4>2. Meaning(e.l, st) \in BOOLEAN /\ Meaning(e.r, st) \in BOOLEAN
        BY <4>1, <1>2
      <4>3. e.op \in Atom \cup {"or", "and", "not", "parens"}
        BY <2>1, NodeFacts DEF Node
      <4>4. QED
        BY <2>1, <3>2, <4>2, <4>3, MeaningIs
    <3>3. QED
      BY <3>1, <3>2
  <2>2. QED
    BY <1>2, <2>1
<1>3. \A m \in Nat : m \in T
  <2> HIDE DEF T
  <2>1. QED
    BY <1>1, <1>2, NatIsInductive
<1>4. QED
  <2>1. \A k \in DOMAIN Forest : k \in Nat /\ k \in 1..k
    BY NodeFacts
  <2>2. QED
    BY <1>3, <2>1

\* One node, when the parser reads those before it.
LEMMA NodeReads ==
  ASSUME NEW k \in DOMAIN Forest, NEW toks \in Seq(Token), NEW st, NEW i, Written(k, toks, i),
         \A j \in 1..(k - 1) : \A h : Written(j, toks, h) => Reads(j, toks, st, h)
  PROVE  Reads(k, toks, st, i)
<1> DEFINE e == Forest[k]
           a == Forest[e.l]
           b == Forest[e.r]
           N == Len(toks)
           P == Parser(toks, st)
           la == Len(a.toks)
           lb == Len(b.toks)
           le == Len(e.toks)
           at == i + le
           v == Result(Meaning(k, st), at)
           op == e.op
           A == Meaning(e.l, st)
           B == Meaning(e.r, st)
<1>0. /\ N \in Nat /\ i \in 1..(N + 1) /\ le \in Nat /\ at <= N + 1
      /\ op \in Atom \cup {"or", "and", "not", "parens"} /\ v.at = at /\ v.value = Meaning(k, st)
  <2>1. N \in Nat /\ i \in 1..(N + 1) /\ le \in Nat /\ at <= N + 1
    BY OperandsWritten DEF Written
  <2>2. op \in Atom \cup {"or", "and", "not", "parens"}
    BY NodeFacts DEF Node
  <2>3. QED
    BY <2>1, <2>2 DEF Result
<1>1. op \notin Atom => /\ A \in BOOLEAN /\ Strength(a.op) >= Left(op)
                        /\ B \in BOOLEAN /\ Strength(b.op) >= Right(op)
                        /\ la \in Nat /\ lb \in Nat
                        /\ \A h : Written(e.l, toks, h) => Reads(e.l, toks, st, h)
                        /\ \A h : Written(e.r, toks, h) => Reads(e.r, toks, st, h)
  <2> SUFFICES ASSUME op \notin Atom
               PROVE  /\ A \in BOOLEAN /\ Strength(a.op) >= Left(op)
                      /\ B \in BOOLEAN /\ Strength(b.op) >= Right(op)
                      /\ la \in Nat /\ lb \in Nat
                      /\ \A h : Written(e.l, toks, h) => Reads(e.l, toks, st, h)
                      /\ \A h : Written(e.r, toks, h) => Reads(e.r, toks, st, h)
    OBVIOUS
  <2>1. e.l \in 1..(k - 1) /\ e.r \in 1..(k - 1) /\ e.l \in DOMAIN Forest /\ e.r \in DOMAIN Forest
    BY NodeFacts
  <2>2. Strength(a.op) >= Left(op) /\ Strength(b.op) >= Right(op)
    BY NodeFacts DEF WellFormed
  <2>3. la \in Nat /\ lb \in Nat
    <3>1. a.toks \in Seq(Token) /\ b.toks \in Seq(Token)
      BY <2>1, NodeFacts
    <3>2. QED
      BY <3>1
  <2>4. QED
    BY <2>1, <2>2, <2>3, MeaningBoolean
<1>n. op \notin Atom => la \in Nat /\ lb \in Nat /\ A \in BOOLEAN /\ B \in BOOLEAN
  BY <1>1
\* The level that an expression leaves suffices for what is behind it.
<1>2. ASSUME NEW n, Enough(n, toks, i), ParseNot(P[n], toks, i, st) = v
      PROVE  \E m : Enough(m, toks, at) /\ ParseAnd(P[n], toks, i, st) = AndLoop(P[m], toks, v)
  <2>1. Enough(n, toks, at)
    BY <1>0, <1>2 DEF Enough
  <2>2. QED
    BY <2>1, <1>2 DEF ParseAnd
<1>3. ASSUME NEW n, Peek(toks, at) # "and",
             \E m : Enough(m, toks, at) /\ ParseAnd(P[n], toks, i, st) = AndLoop(P[m], toks, v),
             Enough(n, toks, i)
      PROVE  \E m : Enough(m, toks, at) /\ ParseOr(P[n], toks, i, st) = OrLoop(P[m], toks, v)
  <2>1. ParseAnd(P[n], toks, i, st) = v
    BY <1>3, <1>0 DEF AndLoop
  <2>2. Enough(n, toks, at)
    BY <1>0, <1>3 DEF Enough
  <2>3. QED
    BY <2>1, <2>2 DEF ParseOr
<1>4. CASE op \in Atom
  <2>2. \A n : ParsePrimary(P[n], toks, i, st) = v
    BY <1>4, AtomMeans
  <2>3. Peek(toks, i) # "not"
    BY <1>4, OperandsWritten DEF Atom
  <2>4. \A n : ParseNot(P[n], toks, i, st) = v
    BY <2>2, <2>3 DEF ParseNot
  <2> HIDE DEF P, v, at
  <2>5. Reads(k, toks, st, i)
    BY <1>0, <1>2, <1>3, <2>2, <2>4 DEF Reads, P, v, at
  <2>6. QED
    BY <2>5
\* A token is consumed, and one level with it.
<1>5. ASSUME NEW n, NEW h, Enough(n, toks, h), h \in 1..N
      PROVE  n \in 1..(N + 1) /\ Enough(n - 1, toks, h + 1) /\ h + 1 \in 1..(N + 1)
  <2>1. N \in Nat /\ n \in 0..N /\ n >= N + 1 - h
    BY <1>0, <1>5 DEF Enough
  <2> SUFFICES n \in 1..(N + 1) /\ n - 1 \in 0..N /\ n - 1 >= N + 1 - (h + 1) /\ h + 1 \in 1..(N + 1)
    BY DEF Enough
  <2> HIDE DEF N
  <2>2. QED
    BY <2>1, <1>5
<1>6. ASSUME NEW h \in 1..(N + 1), Peek(toks, h) \in {"or", "and", "not", "lparen"} PROVE h \in 1..N
  BY <1>0, <1>6 DEF Peek
<1>7. CASE op = "not"
  <2> DEFINE w == Result(A, (i + 1) + la)
  <2>1. /\ Peek(toks, i) = "not" /\ Written(e.l, toks, i + 1) /\ at = (i + 1) + la
        /\ Strength(a.op) >= 3 /\ Strength(op) = 3 /\ A \in BOOLEAN
    <3>1. Peek(toks, i) = "not" /\ Written(e.l, toks, i + 1) /\ le = la + 1
      BY <1>7, OperandsWritten
    <3>2. at = (i + 1) + la
      <4>1. la \in Nat /\ i \in Nat
        BY <1>0, <1>n, <1>7 DEF Atom
      <4> HIDE DEF la, le
      <4>2. QED
        BY <3>1, <4>1
    <3>3. Strength(a.op) >= 3 /\ Strength(op) = 3 /\ A \in BOOLEAN
      BY <1>1, <1>7 DEF Atom, Left, Strength
    <3>4. QED
      BY <3>1, <3>2, <3>3
  <2>2. Meaning(k, st) = ~A
    BY <1>7, MeaningIs
  <2>3. ASSUME NEW n, Enough(n, toks, i) PROVE ParseNot(P[n], toks, i, st) = v
    <3>1. n \in 1..(N + 1) /\ Enough(n - 1, toks, i + 1) /\ i + 1 \in 1..(N + 1)
      BY <1>0, <1>5, <1>6, <2>1, <2>3
    <3>2. P[n][Call("not", i + 1, FALSE)] = ParseNot(P[n - 1], toks, i + 1, st)
      BY <3>1, <1>0, CallsRead
    <3>3. ParseNot(P[n - 1], toks, i + 1, st) = w
      BY <3>1, <2>1, <1>1, <1>7 DEF Reads, Atom
    <3>4. ParseNot(P[n], toks, i, st) = Result(~w.value, w.at)
      BY <2>1, <3>2, <3>3 DEF ParseNot
    <3>5. QED
      BY <3>4, <2>1, <2>2 DEF Result
  <2> HIDE DEF P, v, at
  <2>4. Reads(k, toks, st, i)
    BY <1>0, <1>2, <1>3, <2>1, <2>3 DEF Reads, P, v, at
  <2>5. QED
    BY <2>1, <2>2, <2>4
<1>8. CASE op = "parens"
  <2> DEFINE w == Result(A, (i + 1) + la)
  <2>1. /\ Peek(toks, i) = "lparen" /\ Written(e.l, toks, i + 1) /\ at = ((i + 1) + la) + 1
        /\ Peek(toks, (i + 1) + la) = "rparen" /\ Strength(op) = 4 /\ A \in BOOLEAN
    <3>1. /\ Peek(toks, i) = "lparen" /\ Written(e.l, toks, i + 1) /\ le = la + 2
          /\ Peek(toks, (i + 1) + la) = "rparen"
      BY <1>8, OperandsWritten
    <3>2. at = ((i + 1) + la) + 1
      <4>1. la \in Nat /\ i \in Nat
        BY <1>0, <1>n, <1>8 DEF Atom
      <4> HIDE DEF la, le
      <4>2. QED
        BY <3>1, <4>1
    <3>3. Strength(op) = 4 /\ A \in BOOLEAN
      BY <1>1, <1>8 DEF Atom, Strength
    <3>4. QED
      BY <3>1, <3>2, <3>3
  <2>2. Meaning(k, st) = A
    BY <1>8, MeaningIs
  <2>3. ASSUME NEW n, Enough(n, toks, i)
        PROVE  ParsePrimary(P[n], toks, i, st) = v /\ ParseNot(P[n], toks, i, st) = v
    <3>1. n \in 1..(N + 1) /\ Enough(n - 1, toks, i + 1) /\ i + 1 \in 1..(N + 1)
      BY <1>0, <1>5, <1>6, <2>1, <2>3
    <3>2. P[n][Call("or", i + 1, FALSE)] = ParseOr(P[n - 1], toks, i + 1, st)
      BY <3>1, <1>0, CallsRead
    <3>3. PICK m : ParseOr(P[n - 1], toks, i + 1, st) = OrLoop(P[m], toks, w)
      <4>1. Peek(toks, w.at) # "and"
        BY <2>1 DEF Result
      <4>2. QED
        BY <3>1, <4>1, <2>1, <1>1, <1>8 DEF Reads, Atom
    <3>4. OrLoop(P[m], toks, w) = w
      BY <2>1 DEF OrLoop, Result
    <3>5. ParsePrimary(P[n], toks, i, st) = Result(w.value, Skip(toks, w.at, "rparen"))
      BY <2>1, <3>2, <3>3, <3>4 DEF ParsePrimary
    <3>6. ParsePrimary(P[n], toks, i, st) = v
      BY <3>5, <2>1, <2>2 DEF Result, Skip
    <3>7. QED
      BY <3>6, <2>1 DEF ParseNot
  <2> HIDE DEF P, v, at
  <2>4. Reads(k, toks, st, i)
    BY <1>0, <1>2, <1>3, <2>1, <2>3 DEF Reads, P, v, at
  <2>5. QED
    BY <2>1, <2>2, <2>4
<1>9. CASE op = "and"
  <2> DEFINE h == i + la
             w == Result(A, h)
             u == Result(B, (h + 1) + lb)
  <2>1. /\ Written(e.l, toks, i) /\ Peek(toks, h) = "and" /\ h \in 1..(N + 1)
        /\ Written(e.r, toks, h + 1) /\ at = (h + 1) + lb
        /\ Strength(a.op) >= 2 /\ Strength(b.op) >= 3 /\ Strength(op) = 2 /\ A \in BOOLEAN /\ B \in BOOLEAN
    <3>0. /\ Written(e.l, toks, i) /\ Peek(toks, h) = "and"
          /\ Written(e.r, toks, h + 1) /\ le = la + 1 + lb
      <4>1. op \in {"or", "and"}
        BY <1>9
      <4>2. /\ Written(e.l, toks, i) /\ Peek(toks, h) = op
            /\ Written(e.r, toks, h + 1) /\ le = la + 1 + lb
        BY <4>1, OperandsWritten
      <4>3. QED
        BY <4>2, <1>9
    <3>1. la \in Nat /\ lb \in Nat /\ i \in Nat
      BY <1>0, <1>n, <1>9 DEF Atom
    <3>2. at = (h + 1) + lb /\ h \in 1..(N + 1)
      <4>1. le = la + 1 + lb /\ N \in Nat /\ i \in 1..(N + 1) /\ i + le <= N + 1
        BY <3>0, <1>0
      <4> HIDE DEF la, lb, le, N
      <4>2. QED
        BY <3>1, <4>1
    <3>3. QED
      BY <3>0, <3>2, <1>1, <1>9 DEF Atom, Strength, Left, Right
  <2>2. Meaning(k, st) = (A /\ B) /\ Meaning(k, st) = (B /\ A) /\ Meaning(k, st) \in BOOLEAN
    BY <1>9, <2>1, MeaningIs
  <2>3. ASSUME NEW n, Enough(n, toks, i)
        PROVE  \E m : Enough(m, toks, at) /\ ParseAnd(P[n], toks, i, st) = AndLoop(P[m], toks, v)
    <3>1. PICK m : Enough(m, toks, h) /\ ParseAnd(P[n], toks, i, st) = AndLoop(P[m], toks, w)
      <4>1. w.at = h
        BY DEF Result
      <4>2. QED
        BY <2>1, <2>3, <4>1, <1>1, <1>9 DEF Reads, Atom
    <3>2. m \in 1..(N + 1) /\ Enough(m - 1, toks, h + 1) /\ h + 1 \in 1..(N + 1)
      BY <1>5, <1>6, <2>1, <3>1
    <3>3. AndLoop(P[m], toks, w) = AndTurn(P[m - 1], toks, h + 1, A, st)
      <4>1. AndLoop(P[m], toks, w) = P[m][Call("andTurn", h + 1, A)]
        BY <2>1 DEF AndLoop, Result
      <4>2. A \in BOOLEAN /\ N \in Nat
        BY <2>1, <1>0
      <4> HIDE DEF h, A
      <4>3. QED
        BY <4>1, <4>2, <3>2, CallsRead
    <3>4. ParseNot(P[m - 1], toks, h + 1, st) = u
      BY <3>2, <2>1, <1>1, <1>9 DEF Reads, Atom
    <3>5. AndTurn(P[m - 1], toks, h + 1, A, st) = AndLoop(P[m - 1], toks, Result(B /\ A, at))
      BY <3>4, <2>1 DEF AndTurn, Result
    <3>6. Result(B /\ A, at) = v
      BY <2>2
    <3>7. Enough(m - 1, toks, at)
      <4>1. lb \in Nat
        BY <1>n, <1>9 DEF Atom
      <4>0. at = (h + 1) + lb /\ h \in 1..(N + 1)
        BY <2>1
      <4> HIDE DEF h, at, lb
      <4>2. at >= h + 1 /\ at \in Nat
        BY <4>0, <4>1, <1>0
      <4>3. QED
        BY <3>2, <4>2, <2>1, <1>0 DEF Enough
    <3>8. QED
      BY <3>1, <3>3, <3>5, <3>6, <3>7
  <2> HIDE DEF P, v, at
  <2>4. Reads(k, toks, st, i)
    BY <1>0, <1>3, <2>1, <2>3 DEF Reads, P, v, at
  <2>5. QED
    BY <2>2, <2>4
<1>10. CASE op = "or"
  <2> DEFINE h == i + la
             w == Result(A, h)
             u == Result(B, (h + 1) + lb)
  <2>1. /\ Written(e.l, toks, i) /\ Peek(toks, h) = "or" /\ h \in 1..(N + 1)
        /\ Written(e.r, toks, h + 1) /\ at = (h + 1) + lb
        /\ Strength(b.op) >= 2 /\ Strength(op) = 1 /\ A \in BOOLEAN /\ B \in BOOLEAN
    <3>0. /\ Written(e.l, toks, i) /\ Peek(toks, h) = "or"
          /\ Written(e.r, toks, h + 1) /\ le = la + 1 + lb
      <4>1. op \in {"or", "and"}
        BY <1>10
      <4>2. /\ Written(e.l, toks, i) /\ Peek(toks, h) = op
            /\ Written(e.r, toks, h + 1) /\ le = la + 1 + lb
        BY <4>1, OperandsWritten
      <4>3. QED
        BY <4>2, <1>10
    <3>1. la \in Nat /\ lb \in Nat /\ i \in Nat
      BY <1>0, <1>n, <1>10 DEF Atom
    <3>2. at = (h + 1) + lb /\ h \in 1..(N + 1)
      <4>1. le = la + 1 + lb /\ N \in Nat /\ i \in 1..(N + 1) /\ i + le <= N + 1
        BY <3>0, <1>0
      <4> HIDE DEF la, lb, le, N
      <4>2. QED
        BY <3>1, <4>1
    <3>3. QED
      BY <3>0, <3>2, <1>1, <1>10 DEF Atom, Strength, Right
  <2>2. Meaning(k, st) = (A \/ B) /\ Meaning(k, st) = (B \/ A) /\ Meaning(k, st) \in BOOLEAN
    BY <1>10, <2>1, MeaningIs
  <2>3. ASSUME NEW n, Enough(n, toks, i), Peek(toks, at) # "and"
        PROVE  \E m : Enough(m, toks, at) /\ ParseOr(P[n], toks, i, st) = OrLoop(P[m], toks, v)
    <3>1. PICK m : Enough(m, toks, h) /\ ParseOr(P[n], toks, i, st) = OrLoop(P[m], toks, w)
      <4>1. w.at = h /\ Peek(toks, w.at) # "and"
        BY <2>1 DEF Result
      <4>2. QED
        BY <2>1, <2>3, <4>1, <1>1, <1>10 DEF Reads, Atom
    <3>2. m \in 1..(N + 1) /\ Enough(m - 1, toks, h + 1) /\ h + 1 \in 1..(N + 1)
      BY <1>5, <1>6, <2>1, <3>1
    <3>3. OrLoop(P[m], toks, w) = OrTurn(P[m - 1], toks, h + 1, A, st)
      <4>1. OrLoop(P[m], toks, w) = P[m][Call("orTurn", h + 1, A)]
        BY <2>1 DEF OrLoop, Result
      <4>2. A \in BOOLEAN /\ N \in Nat
        BY <2>1, <1>0
      <4> HIDE DEF h, A
      <4>3. QED
        BY <4>1, <4>2, <3>2, CallsRead
    <3>4. ParseAnd(P[m - 1], toks, h + 1, st) = u
      <4>0. Reads(e.r, toks, st, h + 1) /\ (h + 1) + lb = at
        BY <2>1, <1>1, <1>10 DEF Atom
      <4>1. PICK j : ParseAnd(P[m - 1], toks, h + 1, st) = AndLoop(P[j], toks, u)
        <5>1. \E j : ParseAnd(P[m - 1], toks, h + 1, st) = AndLoop(P[j], toks, Result(B, (h + 1) + lb))
          BY <4>0, <3>2, <2>1 DEF Reads
        <5>2. QED
          BY <5>1, <4>0
      <4>2. AndLoop(P[j], toks, u) = u
        BY <2>1, <2>3 DEF AndLoop, Result
      <4>3. QED
        BY <4>1, <4>2
    <3>5. OrTurn(P[m - 1], toks, h + 1, A, st) = OrLoop(P[m - 1], toks, Result(B \/ A, at))
      BY <3>4, <2>1 DEF OrTurn, Result
    <3>6. Result(B \/ A, at) = v
      BY <2>2
    <3>7. Enough(m - 1, toks, at)
      <4>1. lb \in Nat
        BY <1>n, <1>10 DEF Atom
      <4>0. at = (h + 1) + lb /\ h \in 1..(N + 1)
        BY <2>1
      <4> HIDE DEF h, at, lb
      <4>2. at >= h + 1 /\ at \in Nat
        BY <4>0, <4>1, <1>0
      <4>3. QED
        BY <3>2, <4>2, <2>1, <1>0 DEF Enough
    <3>8. QED
      BY <3>1, <3>3, <3>5, <3>6, <3>7
  <2> HIDE DEF P, v, at
  <2>4. Reads(k, toks, st, i)
    BY <1>0, <2>1, <2>3 DEF Reads, P, v, at
  <2>5. QED
    BY <2>2, <2>4
<1>11. QED
  BY <1>0, <1>4, <1>7, <1>8, <1>9, <1>10

\* The parser reads every expression that is written anywhere among the tokens.
LEMMA AllRead ==
  ASSUME NEW toks \in Seq(Token), NEW st
  PROVE  \A k \in DOMAIN Forest : \A i : Written(k, toks, i) => Reads(k, toks, st, i)
<1> DEFINE Good(k) == \A i : Written(k, toks, i) => Reads(k, toks, st, i)
           T == {m \in Nat : \A k \in 1..m : k \in DOMAIN Forest => Good(k)}
<1>1. 0 \in T
  OBVIOUS
<1>2. ASSUME NEW m \in Nat, m \in T PROVE m + 1 \in T
  <2>1. ASSUME m + 1 \in DOMAIN Forest PROVE Good(m + 1)
    <3>1. \A j \in 1..((m + 1) - 1) : Good(j)
      <4>1. DOMAIN Forest = 1..Len(Forest) /\ Len(Forest) \in Nat
        BY ConditionAssumption
      <4>2. \A j \in 1..((m + 1) - 1) : j \in 1..m /\ j \in DOMAIN Forest
        BY <2>1, <4>1
      <4> HIDE DEF Good
      <4>3. QED
        BY <4>2, <1>2
    <3>2. QED
      BY <2>1, <3>1, NodeReads
  <2> HIDE DEF Good
  <2>2. QED
    BY <1>2, <2>1
<1>3. \A m \in Nat : m \in T
  <2> HIDE DEF T
  <2>1. QED
    BY <1>1, <1>2, NatIsInductive
<1> HIDE DEF Good
<1>4. QED
  <2>1. \A k \in DOMAIN Forest : k \in Nat /\ k \in 1..k
    BY NodeFacts
  <2>2. QED
    BY <1>3, <2>1 DEF Good

\* The parser finds the meaning of every expression, wherever the steps stand:
\* no token is left, and the operators bind as they are written
\* (evaluateCondition, evaluateExpression).
THEOREM ParserMeans ==
  ASSUME NEW k \in DOMAIN Forest, NEW st
  PROVE  EvaluateCondition(Forest[k].toks, st) <=> Meaning(k, st)
<1> DEFINE toks == Forest[k].toks
           N == Len(toks)
           P == Parser(toks, st)
           v == Result(Meaning(k, st), 1 + N)
<1>1. toks \in Seq(Token) /\ N \in Nat
  BY NodeFacts
<1>2. Written(k, toks, 1) /\ Enough(N, toks, 1)
  <2>1. \A j \in 1..N : 1 + j - 1 = j
    OBVIOUS
  <2>2. QED
    BY <1>1, <2>1 DEF Written, Enough
<1>3. Meaning(k, st) \in BOOLEAN /\ Reads(k, toks, st, 1)
  BY <1>1, <1>2, AllRead, MeaningBoolean
<1>4. Peek(toks, v.at) = "end"
  BY <1>1 DEF Result, Peek
<1>5. PICK m : ParseOr(P[N], toks, 1, st) = OrLoop(P[m], toks, v)
  BY <1>2, <1>3, <1>4 DEF Reads
<1>6. OrLoop(P[m], toks, v) = v
  BY <1>4 DEF OrLoop
<1>7. P[N + 1][Call("or", 1, FALSE)] = ParseOr(P[N], toks, 1, st)
  <2> HIDE DEF toks
  <2>1. N + 1 \in 1..(N + 1) /\ 1 \in 1..(N + 1) /\ (N + 1) - 1 = N
    BY <1>1
  <2>2. P[N + 1][Call("or", 1, FALSE)] = ParseOr(P[(N + 1) - 1], toks, 1, st)
    BY <1>1, <2>1, CallsRead
  <2>3. QED
    BY <2>1, <2>2
<1>8. P[N + 1][Call("or", 1, FALSE)].value = Meaning(k, st)
  BY <1>5, <1>6, <1>7 DEF Result
<1>9. toks # <<>>
  BY Spoken
<1>10. QED
  BY <1>3, <1>8, <1>9 DEF EvaluateCondition

-----------------------------------------------------------------------------
(* The types                                                               *)

RunFields(u) ==
  /\ u.at \in {"idle", "creating", "command", "killing"} /\ u.depth \in 0..MaxChainDepth
  /\ u.left \in Seq(Step) /\ u.aborted \in BOOLEAN /\ u.outputs \subseteq Step
  /\ DOMAIN u.status \subseteq Step /\ u.status \in [DOMAIN u.status -> Status]

LEMMA RunStateFields == ASSUME NEW u \in RunState PROVE RunFields(u)
<1>1. u.status \in UNION {[S -> Status] : S \in SUBSET Step}
  BY DEF RunState
<1>2. PICK S \in SUBSET Step : u.status \in [S -> Status]
  BY <1>1
<1>3. DOMAIN u.status = S
  BY <1>2
<1>4. QED
  BY <1>2, <1>3 DEF RunState, RunFields

LEMMA StatusTyped ==
  ASSUME NEW S \in SUBSET Step, NEW g \in [S -> Status]
  PROVE  g \in UNION {[T -> Status] : T \in SUBSET Step}
OBVIOUS

\* What the loop makes of a run when it skips the next j steps, and when it
\* begins the next one.
LEMMA SkippedFacts ==
  ASSUME NEW st \in RunState, NEW j \in 0..Len(st.left)
  PROVE  LET n == Skipped(st, j)
         IN /\ n \in RunState
            /\ n.left \in Seq(Step) /\ Len(n.left) = Len(st.left) - j /\ Len(st.left) \in Nat
            /\ DOMAIN st.left = 1..Len(st.left) /\ DOMAIN n.left = 1..(Len(st.left) - j)
            /\ \A i \in 1..(Len(st.left) - j) : n.left[i] = st.left[i + j]
            /\ DOMAIN n.status = DOMAIN st.status
            /\ \A s \in DOMAIN st.status :
                 /\ (\E i \in 1..j : st.left[i] = s) => n.status[s] = "skipped"
                 /\ ~(\E i \in 1..j : st.left[i] = s) => n.status[s] = st.status[s]
            /\ n.at = st.at
<1> DEFINE l == SubSeq(st.left, j + 1, Len(st.left))
           g == [s \in DOMAIN st.status |-> IF \E i \in 1..j : st.left[i] = s THEN "skipped"
                                            ELSE st.status[s]]
           n == Skipped(st, j)
<1>1. RunFields(st)
  BY RunStateFields
<1>2. /\ l \in Seq(Step) /\ Len(l) = Len(st.left) - j /\ Len(st.left) \in Nat
      /\ DOMAIN st.left = 1..Len(st.left) /\ DOMAIN l = 1..(Len(st.left) - j)
      /\ \A i \in 1..(Len(st.left) - j) : l[i] = st.left[i + j]
  BY <1>1 DEF RunFields
<1>3. g \in [DOMAIN st.status -> Status]
  BY <1>1 DEF RunFields, Status
<1>4. g \in UNION {[S -> Status] : S \in SUBSET Step}
  BY <1>1, <1>3, StatusTyped DEF RunFields
<1>5. n = [[st EXCEPT !.left = l] EXCEPT !.status = g]
  BY DEF Skipped, RunState
<1>6. /\ \A s \in DOMAIN st.status : (\E i \in 1..j : st.left[i] = s) => g[s] = "skipped"
      /\ \A s \in DOMAIN st.status : ~(\E i \in 1..j : st.left[i] = s) => g[s] = st.status[s]
      /\ DOMAIN g = DOMAIN st.status
  OBVIOUS
<1> HIDE DEF g, l, n
<1>7. n \in RunState /\ n.left = l /\ n.status = g /\ n.at = st.at
  BY <1>2, <1>4, <1>5 DEF RunState
<1>8. QED
  BY <1>2, <1>6, <1>7 DEF n

LEMMA BegunFacts ==
  ASSUME NEW n \in RunState, n.left # <<>>, Head(n.left) \in DOMAIN n.status
  PROVE  LET m == [n EXCEPT !.at = "command", !.left = Tail(@), !.status[Head(n.left)] = "running"]
         IN /\ m \in RunState /\ m.at = "command" /\ m.left = Tail(n.left)
            /\ DOMAIN m.status = DOMAIN n.status /\ m.status[Head(n.left)] = "running"
            /\ \A s \in DOMAIN n.status : s # Head(n.left) => m.status[s] = n.status[s]
<1> DEFINE g == [n.status EXCEPT ![Head(n.left)] = "running"]
           m == [n EXCEPT !.at = "command", !.left = Tail(@), !.status[Head(n.left)] = "running"]
<1>1. RunFields(n)
  BY RunStateFields
<1>2. /\ g \in [DOMAIN n.status -> Status] /\ DOMAIN g = DOMAIN n.status
      /\ g[Head(n.left)] = "running" /\ \A s \in DOMAIN n.status : s # Head(n.left) => g[s] = n.status[s]
  BY <1>1 DEF RunFields, Status
<1>3. g \in UNION {[S -> Status] : S \in SUBSET Step}
  BY <1>1, <1>2, StatusTyped DEF RunFields
<1>4. Tail(n.left) \in Seq(Step)
  BY <1>1 DEF RunFields
<1>5. m = [[[n EXCEPT !.at = "command"] EXCEPT !.left = Tail(n.left)] EXCEPT !.status = g]
  BY DEF RunState
<1> HIDE DEF g, m
<1>6. m \in RunState /\ m.at = "command" /\ m.left = Tail(n.left) /\ m.status = g
  BY <1>3, <1>4, <1>5 DEF RunState
<1>7. QED
  BY <1>2, <1>6 DEF m

\* What the end of a command makes of its run.
Ended(u, s, st) ==
  \/ \E out \in SUBSET {s} : st = [u EXCEPT !.status[s] = "success", !.outputs = @ \cup out]
  \/ st = [u EXCEPT !.status[s] = "failed", !.aborted = @ \/ s \notin def.tolerated]

LEMMA EndedFacts ==
  ASSUME NEW u \in RunState, NEW s \in DOMAIN u.status, NEW st,
         Ended(u, s, st)
  PROVE  /\ st \in RunState /\ st.left = u.left /\ st.at = u.at
         /\ DOMAIN st.status = DOMAIN u.status /\ st.status[s] \in {"success", "failed"}
         /\ \A t \in DOMAIN u.status : t # s => st.status[t] = u.status[t]
<1>1. RunFields(u) /\ s \in Step
  BY RunStateFields DEF RunFields
<1>2. ASSUME NEW e \in {"success", "failed"}
      PROVE  LET g == [u.status EXCEPT ![s] = e]
             IN /\ g \in UNION {[S -> Status] : S \in SUBSET Step}
                /\ DOMAIN g = DOMAIN u.status /\ g[s] = e
                /\ \A t \in DOMAIN u.status : t # s => g[t] = u.status[t]
  <2>1. [u.status EXCEPT ![s] = e] \in [DOMAIN u.status -> Status]
    BY <1>1 DEF RunFields, Status
  <2>2. QED
    BY <2>1, <1>1, StatusTyped DEF RunFields
<1>3. CASE \E out \in SUBSET {s} : st = [u EXCEPT !.status[s] = "success", !.outputs = @ \cup out]
  <2>1. PICK out \in SUBSET {s} : st = [u EXCEPT !.status[s] = "success", !.outputs = @ \cup out]
    BY <1>3
  <2> DEFINE g == [u.status EXCEPT ![s] = "success"]
             o == u.outputs \cup out
  <2>2. st = [[u EXCEPT !.status = g] EXCEPT !.outputs = o] /\ o \subseteq Step
    BY <2>1, <1>1 DEF RunState, RunFields
  <2>3. /\ g \in UNION {[S -> Status] : S \in SUBSET Step}
        /\ DOMAIN g = DOMAIN u.status /\ g[s] = "success"
        /\ \A t \in DOMAIN u.status : t # s => g[t] = u.status[t]
    BY <1>2
  <2> HIDE DEF g, o
  <2>4. st \in RunState /\ st.left = u.left /\ st.at = u.at /\ st.status = g
    BY <2>2, <2>3 DEF RunState
  <2>5. QED
    BY <2>3, <2>4
<1>4. CASE st = [u EXCEPT !.status[s] = "failed", !.aborted = @ \/ s \notin def.tolerated]
  <2> DEFINE g == [u.status EXCEPT ![s] = "failed"]
             b == u.aborted \/ s \notin def.tolerated
  <2>2. st = [[u EXCEPT !.status = g] EXCEPT !.aborted = b] /\ b \in BOOLEAN
    BY <1>4, <1>1 DEF RunState, RunFields
  <2>3. /\ g \in UNION {[S -> Status] : S \in SUBSET Step}
        /\ DOMAIN g = DOMAIN u.status /\ g[s] = "failed"
        /\ \A t \in DOMAIN u.status : t # s => g[t] = u.status[t]
    BY <1>2
  <2> HIDE DEF g, b
  <2>4. st \in RunState /\ st.left = u.left /\ st.at = u.at /\ st.status = g
    BY <2>2, <2>3 DEF RunState
  <2>5. QED
    BY <2>3, <2>4
<1>5. QED
  BY <1>3, <1>4 DEF Ended

-----------------------------------------------------------------------------
(* The runs                                                                *)

\* The steps that are left are the pending ones, each once, and none of them
\* depends on itself or on one behind it.
Planned(u) ==
  /\ ToSet(u.left) \subseteq DOMAIN u.status
  /\ \A s \in DOMAIN u.status : u.status[s] = "pending" <=> s \in ToSet(u.left)
  /\ \A i, j \in DOMAIN u.left : u.left[i] = u.left[j] => i = j
  /\ \A i, j \in DOMAIN u.left : i <= j => u.left[j] \notin ToSet(def.dependsOn[u.left[i]])

\* DependenciesFirst of one run.
First(u) ==
  \A s \in DOMAIN u.status : \A d \in ToSet(def.dependsOn[s]) :
    /\ d \in DOMAIN u.status
    /\ u.status[s] # "pending" => u.status[d] \notin {"pending", "running"}

\* One step at a time, and only while a command runs.
OneRuns(u) ==
  \A s \in DOMAIN u.status : u.status[s] = "running" =>
    /\ u.at = "command"
    /\ \A t \in DOMAIN u.status : u.status[t] = "running" => t = s

Quiet(u) == \A s \in DOMAIN u.status : u.status[s] # "running"

RunInv(u) == Planned(u) /\ First(u) /\ OneRuns(u)
WorkflowInv == TypeOK /\ \A r \in Run : RunInv(run[r])

LEMMA SkippedKeeps ==
  ASSUME NEW st \in RunState, NEW j \in 0..Len(st.left), Planned(st), First(st), Quiet(st)
  PROVE  LET n == Skipped(st, j)
         IN n \in RunState /\ Planned(n) /\ First(n) /\ Quiet(n) /\ n.at = st.at
<1> DEFINE n == Skipped(st, j)
           passed(s) == \E i \in 1..j : st.left[i] = s
<1>1. /\ n \in RunState
      /\ n.left \in Seq(Step) /\ Len(n.left) = Len(st.left) - j /\ Len(st.left) \in Nat
      /\ DOMAIN st.left = 1..Len(st.left) /\ DOMAIN n.left = 1..(Len(st.left) - j)
      /\ \A i \in 1..(Len(st.left) - j) : n.left[i] = st.left[i + j]
      /\ DOMAIN n.status = DOMAIN st.status
      /\ \A s \in DOMAIN st.status :
           /\ passed(s) => n.status[s] = "skipped"
           /\ ~passed(s) => n.status[s] = st.status[s]
      /\ n.at = st.at
  BY SkippedFacts
<1>d. j \in Nat /\ j <= Len(st.left)
  BY <1>1
<1> HIDE DEF n
<1>2. \A s \in ToSet(st.left) : \E i \in 1..Len(st.left) : st.left[i] = s
  BY <1>1 DEF ToSet
<1>3. \A i \in 1..Len(st.left) : st.left[i] \in ToSet(st.left)
  BY <1>1 DEF ToSet
<1>4. /\ \A i \in DOMAIN n.left : i + j \in 1..Len(st.left) /\ n.left[i] = st.left[i + j] /\ i + j > j
      /\ \A i \in 1..Len(st.left) : i > j => i - j \in DOMAIN n.left /\ n.left[i - j] = st.left[i]
  <2>1. ASSUME NEW i \in 1..Len(st.left), i > j
        PROVE  i - j \in DOMAIN n.left /\ n.left[i - j] = st.left[i]
    <3>1. i - j \in DOMAIN n.left /\ (i - j) + j = i
      BY <2>1, <1>1, <1>d
    <3>2. QED
      BY <3>1, <1>1
  <2>2. ASSUME NEW i \in 1..(Len(st.left) - j)
        PROVE  i + j \in 1..Len(st.left) /\ i + j > j
    <3>1. Len(st.left) \in Nat
      BY <1>1
    <3>2. QED
      BY <2>2, <3>1, <1>d
  <2>3. /\ DOMAIN n.left = 1..(Len(st.left) - j)
        /\ \A i \in 1..(Len(st.left) - j) : n.left[i] = st.left[i + j]
    BY <1>1
  <2>4. QED
    BY <2>1, <2>2, <2>3
<1>5. ASSUME NEW s PROVE s \in ToSet(n.left) <=> \E i \in 1..Len(st.left) : i > j /\ st.left[i] = s
  BY <1>4 DEF ToSet
<1>6. ASSUME NEW s \in ToSet(n.left) PROVE s \in ToSet(st.left) /\ ~passed(s)
  <2>1. PICK i \in 1..Len(st.left) : i > j /\ st.left[i] = s
    BY <1>5
  <2>2. ~passed(s)
    <3> SUFFICES ASSUME NEW k \in 1..j, st.left[k] = s PROVE FALSE
      OBVIOUS
    <3>1. k \in DOMAIN st.left /\ i \in DOMAIN st.left /\ k # i
      BY <2>1, <1>1, <1>d
    <3>2. QED
      BY <3>1, <2>1 DEF Planned
  <2>3. QED
    BY <2>1, <2>2, <1>3
<1>7. ASSUME NEW s \in ToSet(st.left), ~passed(s) PROVE s \in ToSet(n.left)
  <2>1. PICK i \in 1..Len(st.left) : st.left[i] = s
    BY <1>2
  <2>2. i > j
    BY <2>1, <1>7, <1>d
  <2>3. QED
    BY <2>1, <2>2, <1>5
<1>8. ASSUME NEW s, passed(s) PROVE s \in ToSet(st.left)
  BY <1>8, <1>3, <1>d
<1>9. Planned(n)
  <2>1. ToSet(n.left) \subseteq DOMAIN n.status
    BY <1>1, <1>6 DEF Planned
  <2>2. ASSUME NEW s \in DOMAIN n.status PROVE n.status[s] = "pending" <=> s \in ToSet(n.left)
    <3>1. CASE passed(s)
      BY <3>1, <1>1, <1>6
    <3>2. CASE ~passed(s)
      BY <3>2, <1>1, <1>6, <1>7 DEF Planned
    <3>3. QED
      BY <3>1, <3>2
  <2>3. ASSUME NEW i \in DOMAIN n.left, NEW k \in DOMAIN n.left, n.left[i] = n.left[k] PROVE i = k
    <3>0. i + j \in DOMAIN st.left /\ k + j \in DOMAIN st.left /\ st.left[i + j] = st.left[k + j]
      BY <2>3, <1>4, <1>1
    <3>1. i + j = k + j
      BY <3>0 DEF Planned
    <3>2. QED
      BY <3>1, <1>1, <1>d
  <2>4. ASSUME NEW i \in DOMAIN n.left, NEW k \in DOMAIN n.left, i <= k
        PROVE  n.left[k] \notin ToSet(def.dependsOn[n.left[i]])
    <3>1. i + j <= k + j /\ i + j \in DOMAIN st.left /\ k + j \in DOMAIN st.left
      BY <2>4, <1>4, <1>1, <1>d
    <3>2. QED
      BY <3>1, <1>4 DEF Planned
  <2>5. QED
    BY <2>1, <2>2, <2>3, <2>4 DEF Planned
<1>10. First(n)
  <2> SUFFICES ASSUME NEW s \in DOMAIN n.status, NEW d \in ToSet(def.dependsOn[s])
               PROVE  /\ d \in DOMAIN n.status
                      /\ n.status[s] # "pending" => n.status[d] \notin {"pending", "running"}
    BY DEF First
  <2>1. d \in DOMAIN n.status /\ d \in DOMAIN st.status /\ s \in DOMAIN st.status
    BY <1>1 DEF First
  <2>2. CASE passed(d)
    BY <2>1, <2>2, <1>1
  <2>3. CASE ~passed(d) /\ ~passed(s)
    BY <2>1, <2>3, <1>1 DEF First
  <2>4. CASE ~passed(d) /\ passed(s)
    <3>1. PICK i \in 1..j : st.left[i] = s
      BY <2>4
    <3>2. d \notin ToSet(st.left)
      <4> SUFFICES ASSUME d \in ToSet(st.left) PROVE FALSE
        OBVIOUS
      <4>1. PICK k \in 1..Len(st.left) : st.left[k] = d
        BY <1>2
      <4>2. k > j /\ i <= k /\ i \in DOMAIN st.left /\ k \in DOMAIN st.left
        BY <4>1, <2>4, <1>1, <1>d
      <4>3. QED
        BY <3>1, <4>1, <4>2 DEF Planned
    <3>3. st.status[d] # "pending" /\ st.status[d] # "running"
      BY <3>2, <2>1 DEF Planned, Quiet
    <3>4. QED
      BY <3>3, <2>1, <2>4, <1>1
  <2>5. QED
    BY <2>2, <2>3, <2>4
<1>11. Quiet(n)
  BY <1>1 DEF Quiet
<1>12. QED
  BY <1>1, <1>9, <1>10, <1>11 DEF n

LEMMA BegunKeeps ==
  ASSUME NEW n \in RunState, n.left # <<>>, Planned(n), First(n), Quiet(n)
  PROVE  LET m == [n EXCEPT !.at = "command", !.left = Tail(@), !.status[Head(n.left)] = "running"]
         IN m \in RunState /\ RunInv(m)
<1> DEFINE m == [n EXCEPT !.at = "command", !.left = Tail(@), !.status[Head(n.left)] = "running"]
           h == Head(n.left)
<1>1. n.left \in Seq(Step)
  BY DEF RunState
<1>2. /\ Len(n.left) \in Nat \ {0} /\ DOMAIN Tail(n.left) = 1..(Len(n.left) - 1)
      /\ DOMAIN n.left = 1..Len(n.left) /\ h = n.left[1]
      /\ \A i \in 1..(Len(n.left) - 1) : Tail(n.left)[i] = n.left[i + 1]
      /\ ToSet(n.left) = {h} \cup ToSet(Tail(n.left))
  BY <1>1, TailFacts
<1>3. h \in DOMAIN n.status
  BY <1>2 DEF Planned
<1>4. /\ m \in RunState /\ m.at = "command" /\ m.left = Tail(n.left)
      /\ DOMAIN m.status = DOMAIN n.status /\ m.status[h] = "running"
      /\ \A s \in DOMAIN n.status : s # h => m.status[s] = n.status[s]
  BY <1>3, BegunFacts
<1> HIDE DEF m, h
<1>5. /\ DOMAIN m.left = 1..(Len(n.left) - 1)
      /\ \A i \in DOMAIN m.left : i + 1 \in DOMAIN n.left /\ m.left[i] = n.left[i + 1] /\ i + 1 # 1
  BY <1>2, <1>4
<1>6. h \notin ToSet(m.left)
  <2> SUFFICES ASSUME h \in ToSet(m.left) PROVE FALSE
    OBVIOUS
  <2>1. PICK i \in DOMAIN m.left : m.left[i] = h
    BY DEF ToSet
  <2>2. 1 \in DOMAIN n.left /\ n.left[i + 1] = n.left[1]
    BY <2>1, <1>2, <1>5
  <2>3. QED
    BY <2>2, <1>5 DEF Planned
<1>7. Planned(m)
  <2>1. ToSet(m.left) \subseteq DOMAIN m.status
    BY <1>2, <1>4 DEF Planned
  <2>2. ASSUME NEW s \in DOMAIN m.status PROVE m.status[s] = "pending" <=> s \in ToSet(m.left)
    BY <1>2, <1>4, <1>6 DEF Planned
  <2>3. ASSUME NEW i \in DOMAIN m.left, NEW k \in DOMAIN m.left, m.left[i] = m.left[k] PROVE i = k
    <3>1. i + 1 = k + 1
      BY <2>3, <1>5 DEF Planned
    <3>2. QED
      BY <3>1, <1>5, <1>2
  <2>4. ASSUME NEW i \in DOMAIN m.left, NEW k \in DOMAIN m.left, i <= k
        PROVE  m.left[k] \notin ToSet(def.dependsOn[m.left[i]])
    <3>1. i + 1 <= k + 1
      BY <2>4, <1>5, <1>2
    <3>2. QED
      BY <3>1, <1>5 DEF Planned
  <2>5. QED
    BY <2>1, <2>2, <2>3, <2>4 DEF Planned
<1>8. n.status[h] = "pending"
  BY <1>2, <1>3 DEF Planned
<1>9. First(m)
  <2> SUFFICES ASSUME NEW s \in DOMAIN m.status, NEW d \in ToSet(def.dependsOn[s])
               PROVE  /\ d \in DOMAIN m.status
                      /\ m.status[s] # "pending" => m.status[d] \notin {"pending", "running"}
    BY DEF First
  <2>1. d \in DOMAIN m.status /\ d \in DOMAIN n.status /\ s \in DOMAIN n.status
    BY <1>4 DEF First
  <2>2. CASE s # h
    BY <2>1, <2>2, <1>4, <1>8 DEF First
  <2>3. CASE s = h
    <3>1. d \notin ToSet(n.left)
      <4> SUFFICES ASSUME d \in ToSet(n.left) PROVE FALSE
        OBVIOUS
      <4>1. PICK k \in DOMAIN n.left : n.left[k] = d
        BY DEF ToSet
      <4>2. 1 \in DOMAIN n.left /\ 1 <= k
        BY <1>2
      <4>3. QED
        BY <4>1, <4>2, <2>3, <1>2 DEF Planned
    <3>2. d # h /\ n.status[d] # "pending" /\ n.status[d] # "running"
      BY <3>1, <2>1, <1>2 DEF Planned, Quiet
    <3>3. QED
      BY <3>2, <2>1, <1>4
  <2>4. QED
    BY <2>2, <2>3
<1>10. OneRuns(m)
  BY <1>4 DEF OneRuns, Quiet
<1>11. QED
  BY <1>4, <1>7, <1>9, <1>10 DEF RunInv, m

LEMMA EndedKeeps ==
  ASSUME NEW u \in RunState, RunInv(u), NEW s \in DOMAIN u.status, u.status[s] = "running", NEW st,
         Ended(u, s, st)
  PROVE  st \in RunState /\ Planned(st) /\ First(st) /\ Quiet(st)
<1>1. /\ st \in RunState /\ st.left = u.left /\ st.at = u.at
      /\ DOMAIN st.status = DOMAIN u.status /\ st.status[s] \in {"success", "failed"}
      /\ \A t \in DOMAIN u.status : t # s => st.status[t] = u.status[t]
  BY EndedFacts
<1>2. Planned(u) /\ First(u) /\ OneRuns(u)
  BY DEF RunInv
<1>3. Planned(st)
  BY <1>1, <1>2 DEF Planned
<1>4. First(st)
  <2> SUFFICES ASSUME NEW t \in DOMAIN st.status, NEW d \in ToSet(def.dependsOn[t])
               PROVE  /\ d \in DOMAIN st.status
                      /\ st.status[t] # "pending" => st.status[d] \notin {"pending", "running"}
    BY DEF First
  <2>1. /\ d \in DOMAIN u.status
        /\ u.status[t] # "pending" => u.status[d] \notin {"pending", "running"}
    BY <1>1, <1>2 DEF First
  <2>2. st.status[t] # "pending" => u.status[t] # "pending"
    BY <1>1
  <2>3. QED
    BY <2>1, <2>2, <1>1
<1>5. Quiet(st)
  BY <1>1, <1>2 DEF OneRuns, Quiet
<1>6. QED
  BY <1>1, <1>3, <1>4, <1>5

\* A step of the search for the next command keeps everything.
LEMMA ProceedKeeps ==
  ASSUME WorkflowInv, NEW r \in Run, NEW st \in RunState, Planned(st), First(st), Quiet(st),
         Proceed(r, st)
  PROVE  WorkflowInv'
<1>1. PICK j \in 0..Len(st.left) : StopAt(r, Skipped(st, j))
  BY DEF Proceed
<1> DEFINE n == Skipped(st, j)
<1>2. n \in RunState /\ Planned(n) /\ First(n) /\ Quiet(n)
  BY SkippedKeeps
<1>3. def' = def /\ acts' = acts
  BY DEF Proceed
<1> HIDE DEF n
<1>4. ASSUME NEW m \in RunState, RunInv(m), run' = [run EXCEPT ![r] = m],
             queue' \in [Window -> Seq(Event)]
      PROVE  WorkflowInv'
  <2>1. TypeOK'
    BY <1>3, <1>4 DEF WorkflowInv, TypeOK
  <2>2. \A q \in Run : RunInv(run[q])'
    BY <1>3, <1>4 DEF WorkflowInv, TypeOK, RunInv, Planned, First, OneRuns
  <2>3. QED
    BY <2>1, <2>2 DEF WorkflowInv
<1>5. CASE /\ Runs(n) /\ UNCHANGED queue
           /\ run' = [run EXCEPT ![r] =
                [n EXCEPT !.at = "command", !.left = Tail(@), !.status[Head(n.left)] = "running"]]
  <2> DEFINE m == [n EXCEPT !.at = "command", !.left = Tail(@), !.status[Head(n.left)] = "running"]
  <2>1. n.left # <<>>
    BY <1>5 DEF Runs
  <2>2. m \in RunState /\ RunInv(m)
    BY <1>2, <2>1, BegunKeeps
  <2>3. queue' \in [Window -> Seq(Event)]
    BY <1>5 DEF WorkflowInv, TypeOK
  <2> HIDE DEF m
  <2>4. QED
    BY <1>4, <1>5, <2>2, <2>3 DEF m
<1>6. CASE /\ n.left = <<>>
           /\ run' = [run EXCEPT ![r] = [n EXCEPT !.at = "killing"]]
           /\ queue' = [w \in Window |-> Append(queue[w], Completed(r))]
  <2> DEFINE m == [n EXCEPT !.at = "killing"]
  <2>1. m \in RunState /\ m.left = n.left /\ m.status = n.status
    BY <1>2 DEF RunState
  <2>2. RunInv(m)
    BY <2>1, <1>2 DEF RunInv, Planned, First, OneRuns, Quiet
  <2>3. Completed(r) \in Event
    BY DEF Completed, Event, Run, WorkflowInv, TypeOK, RunState
  <2>4. queue' \in [Window -> Seq(Event)]
    BY <1>6, <2>3 DEF WorkflowInv, TypeOK
  <2> HIDE DEF m
  <2>5. QED
    BY <1>4, <1>6, <2>1, <2>2, <2>4 DEF m
<1>7. QED
  BY <1>1, <1>5, <1>6 DEF StopAt, n

\* A run that begins has all its steps before it, in their order.
LEMMA StartKeeps ==
  ASSUME WorkflowInv, NEW w, NEW fs, NEW d \in 0..MaxChainDepth, StartAll(w, fs, d), def' = def
  PROVE  run' \in [Run -> RunState] /\ (\A q \in Run : RunInv(run[q]))'
<1> DEFINE New(r) == [at |-> "creating", depth |-> d, aborted |-> FALSE, outputs |-> {},
                      left |-> TopologicalSort(def.steps[r[2]]).result,
                      status |-> [s \in ToSet(def.steps[r[2]]) |-> "pending"]]
<1>1. def \in Definitions /\ run \in [Run -> RunState] /\ \A q \in Run : RunInv(run[q])
  BY DEF WorkflowInv, TypeOK
<1>2. ASSUME NEW r \in Run, Startable(w, r[2]) PROVE New(r) \in RunState /\ RunInv(New(r))
  <2> DEFINE steps == def.steps[r[2]]
             q == TopologicalSort(steps).result
             g == [s \in ToSet(steps) |-> "pending"]
             u == New(r)
  <2>1. steps \in Seq(Step) /\ ToSet(steps) \subseteq Step
    BY <1>1, WorkflowAssumption DEF Run, ToSet
  <2>2. q \in Seq(Step) /\ InOrder(steps, q) /\ ToSet(q) = ToSet(steps)
    BY <1>1, <1>2, <2>1, SortOrders DEF SearchState, Startable
  <2>3. g \in UNION {[S -> Status] : S \in SUBSET Step}
    <3>1. g \in [ToSet(steps) -> Status]
      BY DEF Status
    <3> HIDE DEF g
    <3>2. QED
      BY <3>1, <2>1, StatusTyped
  <2>4. DOMAIN g = ToSet(steps) /\ \A s \in ToSet(steps) : g[s] = "pending"
    OBVIOUS
  <2>5. u = [at |-> "creating", depth |-> d, aborted |-> FALSE, outputs |-> {}, left |-> q, status |-> g]
    OBVIOUS
  <2> HIDE DEF q, g, u, steps
  <2>6. u \in RunState /\ u.left = q /\ u.status = g
    BY <2>2, <2>3, <2>5 DEF RunState
  <2>7. DOMAIN q = 1..Len(q) /\ Len(q) \in Nat
    BY <2>2
  <2>8. Planned(u)
    <3>1. ASSUME NEW i \in DOMAIN q, NEW j \in DOMAIN q, i <= j, q[j] \in ToSet(def.dependsOn[q[i]])
          PROVE  FALSE
      <4>1. PICK k \in 1..(i - 1) : q[k] = q[j]
        BY <3>1, <2>2 DEF InOrder
      <4>2. k \in DOMAIN q /\ k # j
        BY <4>1, <3>1, <2>7
      <4>3. QED
        BY <4>1, <4>2, <2>2 DEF InOrder
    <3>2. \A i, j \in DOMAIN q : q[i] = q[j] => i = j
      BY <2>2 DEF InOrder
    <3>3. QED
      BY <3>1, <3>2, <2>2, <2>4, <2>6 DEF Planned
  <2>9. First(u)
    <3> SUFFICES ASSUME NEW s \in ToSet(steps), NEW e \in ToSet(def.dependsOn[s]) PROVE e \in ToSet(steps)
      BY <2>4, <2>6 DEF First
    <3>1. PICK i \in DOMAIN q : q[i] = s
      BY <2>2 DEF ToSet
    <3>2. PICK k \in 1..(i - 1) : q[k] = e
      BY <3>1, <2>2 DEF InOrder
    <3>3. k \in DOMAIN q
      BY <3>2, <2>7
    <3>4. QED
      BY <3>2, <3>3, <2>2 DEF InOrder
  <2>10. OneRuns(u)
    BY <2>4, <2>6 DEF OneRuns
  <2>11. QED
    BY <2>6, <2>8, <2>9, <2>10 DEF RunInv, u
<1>3. ASSUME NEW r \in Run PROVE run'[r] \in RunState /\ RunInv(run'[r])
  <2>1. run'[r] = IF r[1] = w /\ r[2] \in fs /\ Startable(w, r[2]) THEN New(r) ELSE run[r]
    BY DEF StartAll
  <2> HIDE DEF New
  <2>2. CASE r[1] = w /\ r[2] \in fs /\ Startable(w, r[2])
    BY <2>1, <2>2, <1>2
  <2>3. CASE ~(r[1] = w /\ r[2] \in fs /\ Startable(w, r[2]))
    BY <2>1, <2>3, <1>1
  <2>4. QED
    BY <2>2, <2>3
<1>4. run' \in [Run -> RunState]
  <2>1. run' = [r \in Run |-> run'[r]]
    BY DEF StartAll
  <2>2. QED
    BY <2>1, <1>3
<1>5. (\A q \in Run : RunInv(run[q]))'
  BY <1>3 DEF RunInv, Planned, First, OneRuns
<1>6. QED
  BY <1>4, <1>5

LEMMA InvInit == Init => WorkflowInv
<1> SUFFICES ASSUME Init PROVE WorkflowInv
  OBVIOUS
<1> DEFINE u == [at |-> "idle", depth |-> 0, left |-> <<>>, aborted |-> FALSE,
                 status |-> [s \in {} |-> "pending"], outputs |-> {}]
<1>1. u \in RunState /\ u.left = <<>> /\ DOMAIN u.status = {}
  <2> DEFINE g == [s \in {} |-> "pending"]
  <2>1. g \in [{} -> Status] /\ DOMAIN g = {}
    OBVIOUS
  <2> HIDE DEF g
  <2>2. g \in UNION {[S -> Status] : S \in SUBSET Step}
    BY <2>1, StatusTyped
  <2>3. <<>> \in Seq(Step) /\ 0 \in 0..MaxChainDepth
    BY WorkflowAssumption
  <2>4. u = [at |-> "idle", depth |-> 0, left |-> <<>>, aborted |-> FALSE, status |-> g, outputs |-> {}]
    BY DEF g
  <2> HIDE DEF u
  <2>5. u \in RunState /\ u.left = <<>> /\ u.status = g
    BY <2>2, <2>3, <2>4 DEF RunState
  <2>6. QED
    BY <2>1, <2>5
<1>2. RunInv(u)
  BY <1>1 DEF RunInv, Planned, First, OneRuns, ToSet
<1>3. run = [r \in Run |-> u]
  BY DEF Init
<1> HIDE DEF u
<1>4. run \in [Run -> RunState] /\ \A r \in Run : RunInv(run[r])
  BY <1>1, <1>2, <1>3
<1>5. queue \in [Window -> Seq(Event)]
  <2>1. <<>> \in Seq(Event)
    OBVIOUS
  <2>2. QED
    BY <2>1 DEF Init
<1>6. QED
  BY <1>4, <1>5, WorkflowAssumption DEF WorkflowInv, TypeOK, Init

LEMMA InvStep == WorkflowInv /\ [Next]_vars => WorkflowInv'
<1> SUFFICES ASSUME WorkflowInv, [Next]_vars PROVE WorkflowInv'
  OBVIOUS
<1>t. /\ def \in Definitions /\ run \in [Run -> RunState] /\ queue \in [Window -> Seq(Event)]
      /\ acts \in 0..MaxAct /\ \A r \in Run : RunInv(run[r])
  BY DEF WorkflowInv, TypeOK
<1>a. ASSUME NEW r \in Run, run[r].at \in {"creating", "killing"}
      PROVE  Planned(run[r]) /\ First(run[r]) /\ Quiet(run[r]) /\ run[r] \in RunState
  BY <1>a, <1>t DEF RunInv, OneRuns, Quiet
<1>b. ASSUME NEW r \in Run, run[r].at \in {"creating", "killing"},
             run' = [run EXCEPT ![r].at = "idle"], UNCHANGED <<def, queue, acts>>
      PROVE  WorkflowInv'
  <2> DEFINE m == [run[r] EXCEPT !.at = "idle"]
  <2>1. m \in RunState /\ m.left = run[r].left /\ m.status = run[r].status
    BY <1>t DEF RunState
  <2>2. RunInv(m)
    BY <2>1, <1>a, <1>b DEF RunInv, Planned, First, OneRuns, Quiet
  <2>3. run' = [run EXCEPT ![r] = m]
    BY <1>b
  <2> HIDE DEF m
  <2>4. TypeOK'
    BY <2>1, <2>3, <1>b, <1>t DEF TypeOK
  <2>5. (\A q \in Run : RunInv(run[q]))'
    BY <2>2, <2>3, <1>b, <1>t DEF RunInv, Planned, First, OneRuns
  <2>6. QED
    BY <2>4, <2>5 DEF WorkflowInv
<1>1. ASSUME NEW r \in Run, SessionCreated(r) PROVE WorkflowInv'
  BY <1>1, <1>a, ProceedKeeps DEF SessionCreated
<1>2. ASSUME NEW r \in Run, SessionFails(r) PROVE WorkflowInv'
  BY <1>2, <1>b DEF SessionFails
<1>3. ASSUME NEW r \in Run, CommandEnds(r) PROVE WorkflowInv'
  <2>1. PICK s \in DOMAIN run[r].status :
          /\ run[r].status[s] = "running"
          /\ \/ \E out \in IF s \in def.templates THEN {{}, {s}} ELSE {{}} :
                  \E st \in {[run[r] EXCEPT !.status[s] = "success", !.outputs = @ \cup out]} :
                    Proceed(r, st)
             \/ \E st \in {[run[r] EXCEPT !.status[s] = "failed",
                                          !.aborted = @ \/ s \notin def.tolerated]} :
                  Proceed(r, st)
    BY <1>3 DEF CommandEnds
  <2>2. PICK st : Ended(run[r], s, st) /\ Proceed(r, st)
    <3>1. ASSUME NEW out \in IF s \in def.templates THEN {{}, {s}} ELSE {{}},
                 NEW st \in {[run[r] EXCEPT !.status[s] = "success", !.outputs = @ \cup out]}
          PROVE  Ended(run[r], s, st)
      BY Zenon DEF Ended
    <3>2. ASSUME NEW st \in {[run[r] EXCEPT !.status[s] = "failed",
                                            !.aborted = @ \/ s \notin def.tolerated]}
          PROVE  Ended(run[r], s, st)
      BY Zenon DEF Ended
    <3>3. QED
      BY <2>1, <3>1, <3>2, Zenon
  <2>3. st \in RunState /\ Planned(st) /\ First(st) /\ Quiet(st)
    BY <2>1, <2>2, <1>t, EndedKeeps
  <2>4. QED
    BY <2>2, <2>3, ProceedKeeps
<1>4. ASSUME NEW r \in Run, SessionKilled(r) PROVE WorkflowInv'
  BY <1>4, <1>b DEF SessionKilled
<1>5. ASSUME NEW w \in Window, Deliver(w) PROVE WorkflowInv'
  <2> DEFINE e == Head(queue[w])
  <2>1. e \in Event /\ Tail(queue[w]) \in Seq(Event)
    BY <1>5, <1>t, TailFacts DEF Deliver
  <2>2. e.depth \in 0..MaxChainDepth
    BY <2>1 DEF Event
  <2>3. def' = def /\ acts' = acts /\ queue' = [queue EXCEPT ![w] = Tail(@)]
    BY <1>5 DEF Deliver
  <2>4. queue' \in [Window -> Seq(Event)]
    BY <2>1, <2>3, <1>t
  <2>5. run' \in [Run -> RunState] /\ (\A q \in Run : RunInv(run[q]))'
    <3>1. CASE run' = run
      BY <3>1, <2>3, <1>t DEF RunInv, Planned, First, OneRuns
    <3>2. CASE e.depth < MaxChainDepth /\ StartAll(w, FindChainTriggered(w, e.name), e.depth + 1)
      <4>1. e.depth + 1 \in 0..MaxChainDepth
        BY <3>2, <2>2, WorkflowAssumption
      <4>2. QED
        BY <3>2, <4>1, <2>3, StartKeeps
    <3>3. CASE StartAll(w, FindTriggered(w, e.match), 0)
      <4>1. 0 \in 0..MaxChainDepth
        BY WorkflowAssumption
      <4>2. QED
        BY <3>3, <4>1, <2>3, StartKeeps
    <3>4. QED
      <4>1. OnCompleted(w, e) \/ StartAll(w, FindTriggered(w, e.match), 0)
        BY <1>5 DEF Deliver
      <4>2. e.depth >= MaxChainDepth \/ e.depth < MaxChainDepth
        BY <2>2, WorkflowAssumption
      <4>3. QED
        BY <4>1, <4>2, <3>1, <3>2, <3>3, <2>2, WorkflowAssumption DEF OnCompleted
  <2>6. QED
    BY <2>3, <2>4, <2>5, <1>t DEF WorkflowInv, TypeOK
<1>6. ASSUME NEW w \in Window, NEW f \in Workflow, RunWorkflow(w, f) PROVE WorkflowInv'
  <2>1. def' = def /\ queue' = queue /\ acts' \in 0..MaxAct /\ StartAll(w, {f}, 0)
    BY <1>6, <1>t, WorkflowAssumption DEF RunWorkflow
  <2>2. 0 \in 0..MaxChainDepth
    BY WorkflowAssumption
  <2>3. run' \in [Run -> RunState] /\ (\A q \in Run : RunInv(run[q]))'
    BY <2>1, <2>2, StartKeeps
  <2>4. QED
    BY <2>1, <2>3, <1>t DEF WorkflowInv, TypeOK
<1>7. ASSUME NEW m \in SUBSET Workflow, FileSaved(m) PROVE WorkflowInv'
  <2> DEFINE e == [event |-> "saved", name |-> "saved", depth |-> 0, match |-> m]
  <2>1. e \in Event
    BY WorkflowAssumption DEF Event
  <2>2. /\ def' = def /\ run' = run /\ acts' \in 0..MaxAct
        /\ queue' = [v \in Window |-> Append(queue[v], e)]
    BY <1>7, <1>t, WorkflowAssumption DEF FileSaved
  <2> HIDE DEF e
  <2>3. queue' \in [Window -> Seq(Event)]
    BY <2>1, <2>2, <1>t
  <2>4. (\A q \in Run : RunInv(run[q]))'
    BY <2>2, <1>t DEF RunInv, Planned, First, OneRuns
  <2>5. QED
    BY <2>2, <2>3, <2>4, <1>t DEF WorkflowInv, TypeOK
<1>8. CASE UNCHANGED vars
  BY <1>8, <1>t DEF vars, WorkflowInv, TypeOK, RunInv, Planned, First, OneRuns
<1>9. QED
  BY <1>1, <1>2, <1>3, <1>4, <1>5, <1>6, <1>7, <1>8 DEF Next, Session

-----------------------------------------------------------------------------
LEMMA Inductive == Spec => []WorkflowInv
<1>1. Init => WorkflowInv
  BY InvInit
<1>2. WorkflowInv /\ [Next]_vars => WorkflowInv'
  BY InvStep
<1>3. QED
  BY <1>1, <1>2, PTL DEF Spec

\* The types of runs and events; in particular no chain of triggers is deeper
\* than MaxChainDepth, whatever the windows do (onWorkflowCompleted).
THEOREM TypeCorrect == Spec => []TypeOK
<1>1. WorkflowInv => TypeOK
  BY DEF WorkflowInv
<1>2. QED
  BY <1>1, Inductive, PTL

\* In the run of any workflow, for any dependencies, conditions and outcomes: a
\* step begins, or is skipped, only when all it depends on have ended
\* (topologicalSort and the loop of runWorkflow).
THEOREM StepsWait == Spec => []DependenciesFirst
<1>1. WorkflowInv => DependenciesFirst
  BY DEF WorkflowInv, RunInv, First, DependenciesFirst
<1>2. QED
  BY <1>1, Inductive, PTL

\* In every run, whatever has ended so far, the parser finds the meaning of every
\* condition that is an expression (evaluateCondition).
THEOREM ConditionsHold == Spec => []ConditionsMean
<1>1. WorkflowInv => ConditionsMean
  <2> SUFFICES ASSUME WorkflowInv, NEW r \in Run, NEW s \in DOMAIN run[r].status, def.expr[s] # 0
               PROVE  EvaluateCondition(def.condition[s], run[r]) <=> Meaning(def.expr[s], run[r])
    BY DEF ConditionsMean
  <2>1. def \in Definitions /\ run[r] \in RunState
    BY DEF WorkflowInv, TypeOK
  <2>2. s \in Step
    BY <2>1 DEF RunState
  <2>3. def.expr[s] \in DOMAIN Forest /\ def.condition[s] = Forest[def.expr[s]].toks
    BY <2>1, <2>2, ConditionAssumption
  <2>4. QED
    BY <2>3, ParserMeans
<1>2. QED
  BY <1>1, Inductive, PTL
=============================================================================
