-------------------------- MODULE InterpreterProofs --------------------------
(* What the interpreter promises, for any rules, bars and arithmetic: that  *)
(* the backtest's signal of a bar is the one a live window gives, that a    *)
(* rule means the same over columns and over the scalars of one bar, and    *)
(* that a parameter is scored on bars it was not fitted to.                 *)
(*                                                                         *)
(* An evaluation is a recursion over syntax trees.  It is first shown to    *)
(* exist, which gives the equation it unfolds by; what holds of all trees   *)
(* is then shown for the set of those it holds of, which has every tree     *)
(* whose arguments it has (TreesAreWellFounded).                            *)
EXTENDS Interpreter, SequenceTheorems, WellFoundedInduction, TLAPS

-----------------------------------------------------------------------------
(* Trees.                                                                  *)

(* What must hold of 0, and of k + 1 when it holds of k, holds of all k; in *)
(* the form of a set, in place of an induction.                             *)
LEMMA AllNumbers ==
  ASSUME NEW S, 0 \in S, \A k \in Nat : k \in S => k + 1 \in S
  PROVE  Nat \subseteq S
<1> SUFFICES ASSUME Nat \ S # {} PROVE FALSE
  OBVIOUS
<1>1. PICK m \in Nat \ S : \A k \in Nat \ S : ~(<<k, m>> \in OpToRel(<, Nat))
  BY NatLessThanWellFounded, WFMin, Zenon
<1>2. \A k \in Nat \ S : ~(k < m)
  BY <1>1 DEF OpToRel
<1>3. m # 0 /\ m - 1 \in Nat /\ m - 1 \in S
  BY <1>2
<1> QED
  BY <1>3

(* The arguments of an expression are expressions of a smaller height.      *)
LEMMA Arguments ==
  ASSUME NEW e \in Expressions
  PROVE  /\ Depth[e] \in Nat
         /\ \A i \in DOMAIN e.args : /\ e.args[i] \in Expressions
                                     /\ Depth[e.args[i]] \in Nat /\ Depth[e.args[i]] < Depth[e]
                                     /\ IsCondition(e.args[i]) <=> e.op \in Logical
<1>1. /\ Depth[e] \in Nat /\ e.args \in Seq(Expressions)
      /\ \A i \in DOMAIN e.args : /\ Depth[e.args[i]] < Depth[e]
                                  /\ IsCondition(e.args[i]) = (e.op \in Logical)
  BY ExpressionsAssumption
<1>2. \A i \in DOMAIN e.args : e.args[i] \in Expressions
  BY <1>1
<1>3. \A i \in DOMAIN e.args : Depth[e.args[i]] \in Nat
  BY <1>2, ExpressionsAssumption
<1> QED
  BY <1>1, <1>2, <1>3

(* A set of expressions that has every expression whose arguments it has,   *)
(* has them all.                                                            *)
LEMMA TreesAreWellFounded ==
  ASSUME NEW S,
         \A e \in Expressions : (\A i \in DOMAIN e.args : e.args[i] \in S) => e \in S
  PROVE  Expressions \subseteq S
<1> DEFINE Low == {n \in Nat : \A e \in Expressions : Depth[e] < n => e \in S}
<1>1. 0 \in Low
  BY Arguments
<1>2. ASSUME NEW n \in Nat, n \in Low PROVE n + 1 \in Low
  <2> SUFFICES ASSUME NEW e \in Expressions, Depth[e] < n + 1 PROVE e \in S
    OBVIOUS
  <2>1. \A i \in DOMAIN e.args : e.args[i] \in Expressions /\ Depth[e.args[i]] < n
    BY Arguments
  <2> QED
    BY <1>2, <2>1
<1>3. Nat \subseteq Low
  <2> HIDE DEF Low
  <2> QED
    BY <1>1, <1>2, AllNumbers
<1> SUFFICES ASSUME NEW e \in Expressions PROVE e \in S
  OBVIOUS
<1>4. Depth[e] \in Nat /\ Depth[e] + 1 \in Nat
  BY Arguments
<1>5. Depth[e] + 1 \in Low /\ Depth[e] < Depth[e] + 1
  BY <1>3, <1>4
<1> QED
  BY <1>5

-----------------------------------------------------------------------------
(* Evaluations exist.  Each of the three is a function f on expressions     *)
(* with f[e] computed from f's values of e's arguments: there is one up to  *)
(* every height, any two agree, and together they are the function.         *)

ArgumentValues(f, e) == [i \in DOMAIN e.args |-> f[e.args[i]]]
Computed(kind, e, a, env) ==
  CASE kind = "nodes"  -> {e} \cup UNION {a[i] : i \in DOMAIN e.args}
    [] kind = "series" -> ColumnOf(e, a, env)
    [] kind = "scalar" -> ValueOf(e, a, env)
Evaluates(kind, f, env, n) ==
  \A e \in Expressions : Depth[e] < n => f[e] = Computed(kind, e, ArgumentValues(f, e), env)

Evaluation(kind, f, env) ==
  f = [x \in Expressions |-> Computed(kind, x, ArgumentValues(f, x), env)]

(* Functions that agree on the arguments of an expression give it the same. *)
LEMMA SameArguments ==
  ASSUME NEW e \in Expressions, NEW f, NEW g,
         \A i \in DOMAIN e.args : f[e.args[i]] = g[e.args[i]]
  PROVE  ArgumentValues(f, e) = ArgumentValues(g, e)
BY DEF ArgumentValues

(* Up to any height there is an evaluation.                                 *)
LEMMA SomeEvaluate ==
  ASSUME NEW kind, NEW env, NEW n \in Nat
  PROVE  \E f : Evaluates(kind, f, env, n)
<1> DEFINE Good == {m \in Nat : \E f : Evaluates(kind, f, env, m)}
<1>1. 0 \in Good
  BY Arguments DEF Evaluates
<1>2. ASSUME NEW m \in Nat, m \in Good PROVE m + 1 \in Good
  <2>1. PICK f : Evaluates(kind, f, env, m)
    BY <1>2
  <2> DEFINE g == [e \in Expressions |-> Computed(kind, e, ArgumentValues(f, e), env)]
  <2>2. \A e \in Expressions : g[e] = Computed(kind, e, ArgumentValues(f, e), env)
    OBVIOUS
  <2> HIDE DEF g
  <2>3. ASSUME NEW e \in Expressions, Depth[e] < m + 1
        PROVE  g[e] = Computed(kind, e, ArgumentValues(g, e), env)
    <3>1. ASSUME NEW i \in DOMAIN e.args PROVE f[e.args[i]] = g[e.args[i]]
      <4>1. e.args[i] \in Expressions /\ Depth[e.args[i]] < m
        BY <2>3, Arguments
      <4> QED
        BY <2>1, <2>2, <4>1 DEF Evaluates
    <3> QED
      BY <2>2, <3>1, SameArguments
  <2>4. Evaluates(kind, g, env, m + 1)
    BY <2>3 DEF Evaluates
  <2> QED
    BY <2>4
<1> HIDE DEF Good
<1>3. n \in Good
  BY <1>1, <1>2, AllNumbers
<1> QED
  BY <1>3 DEF Good

(* Two evaluations agree as far as both go.                                 *)
LEMMA EvaluationsAgree ==
  ASSUME NEW kind, NEW env, NEW n \in Nat, NEW m \in Nat, NEW f, NEW g,
         Evaluates(kind, f, env, n), Evaluates(kind, g, env, m)
  PROVE  \A e \in Expressions : Depth[e] < n /\ Depth[e] < m => f[e] = g[e]
<1> DEFINE S == {e \in Expressions : Depth[e] < n /\ Depth[e] < m => f[e] = g[e]}
<1>1. ASSUME NEW e \in Expressions, \A i \in DOMAIN e.args : e.args[i] \in S PROVE e \in S
  <2> SUFFICES ASSUME Depth[e] < n, Depth[e] < m PROVE f[e] = g[e]
    OBVIOUS
  <2>1. ASSUME NEW i \in DOMAIN e.args PROVE f[e.args[i]] = g[e.args[i]]
    <3>1. e.args[i] \in Expressions /\ Depth[e.args[i]] < n /\ Depth[e.args[i]] < m
      BY Arguments
    <3> QED
      BY <1>1, <3>1
  <2>2. ArgumentValues(f, e) = ArgumentValues(g, e)
    BY <2>1, SameArguments
  <2> QED
    BY <2>2 DEF Evaluates
<1> HIDE DEF S
<1>2. Expressions \subseteq S
  BY <1>1, TreesAreWellFounded
<1> QED
  BY <1>2 DEF S

(* There is an evaluation of all expressions.                               *)
LEMMA SomeEvaluateAll ==
  ASSUME NEW kind, NEW env
  PROVE  \E f : Evaluation(kind, f, env)
<1> DEFINE Some(n) == CHOOSE f : Evaluates(kind, f, env, n)
           f == [x \in Expressions |-> Some(Depth[x] + 1)[x]]
<1>1. \A n \in Nat : Evaluates(kind, Some(n), env, n)
  BY SomeEvaluate
<1> HIDE DEF Some
<1>2. ASSUME NEW x \in Expressions
      PROVE  f[x] = Computed(kind, x, ArgumentValues(f, x), env)
  <2> DEFINE n == Depth[x] + 1
             g == Some(n)
  <2>1. n \in Nat /\ Depth[x] < n /\ Evaluates(kind, g, env, n) /\ f[x] = g[x]
    BY <1>1, Arguments
  <2>2. ASSUME NEW i \in DOMAIN x.args PROVE g[x.args[i]] = f[x.args[i]]
    <3> DEFINE y == x.args[i]
               m == Depth[y] + 1
               h == Some(m)
    <3>1. y \in Expressions /\ m \in Nat /\ Depth[y] < m /\ Depth[y] < n
      BY Arguments
    <3>2. Evaluates(kind, h, env, m) /\ f[y] = h[y]
      BY <1>1, <3>1
    <3>3. \A z \in Expressions : Depth[z] < n /\ Depth[z] < m => g[z] = h[z]
      <4> HIDE DEF y, f, g, h, m, n
      <4> QED
        BY <2>1, <3>1, <3>2, EvaluationsAgree
    <3>4. g[y] = h[y]
      <4> HIDE DEF y, f, g, h, m, n
      <4> QED
        BY <3>1, <3>3
    <3> QED
      <4> HIDE DEF f, g, h, m, n
      <4> QED
        BY <3>2, <3>4
  <2> HIDE DEF f, g, n
  <2>3. ArgumentValues(g, x) = ArgumentValues(f, x)
    BY <2>2, SameArguments
  <2> QED
    BY <2>1, <2>3 DEF Evaluates
<1>3. Evaluation(kind, f, env)
  <2>1. \A x \in Expressions : f[x] = Computed(kind, x, ArgumentValues(f, x), env)
    BY <1>2
  <2>2. f = [x \in Expressions |-> f[x]]
    OBVIOUS
  <2> HIDE DEF f
  <2> QED
    BY <2>1, <2>2 DEF Evaluation
<1> QED
  <2> HIDE DEF f
  <2> QED
    BY <1>3

(* An expression's column is computed from those of its arguments.          *)
LEMMA SeriesUnfolds ==
  ASSUME NEW df, NEW e \in Expressions
  PROVE  SeriesOf(e, df) = ColumnOf(e, [i \in DOMAIN e.args |-> SeriesOf(e.args[i], df)], df)
<1> DEFINE Eqn(g) == g = [x \in Expressions |-> ColumnOf(x, [i \in DOMAIN x.args |-> g[x.args[i]]], df)]
           column == CHOOSE g : Eqn(g)
<1>1. \E g : Eqn(g)
  <2>1. PICK g : Evaluation("series", g, df)
    BY SomeEvaluateAll
  <2>2. \A x \in Expressions : Computed("series", x, ArgumentValues(g, x), df)
                                 = ColumnOf(x, [i \in DOMAIN x.args |-> g[x.args[i]]], df)
    BY DEF Computed, ArgumentValues
  <2> QED
    BY <2>1, <2>2 DEF Evaluation
<1>2. Eqn(column)
  <2> HIDE DEF Eqn
  <2> QED
    BY <1>1
<1>3. \A x \in Expressions : SeriesOf(x, df) = column[x]
  BY DEF SeriesOf
<1> HIDE DEF column
<1>4. column[e] = ColumnOf(e, [i \in DOMAIN e.args |-> column[e.args[i]]], df)
  BY <1>2
<1>5. \A i \in DOMAIN e.args : SeriesOf(e.args[i], df) = column[e.args[i]]
  BY <1>3, Arguments
<1> QED
  BY <1>3, <1>4, <1>5

(* Its value is computed from those of its arguments.                       *)
LEMMA ScalarUnfolds ==
  ASSUME NEW ctx, NEW e \in Expressions
  PROVE  ScalarOf(e, ctx) = ValueOf(e, [i \in DOMAIN e.args |-> ScalarOf(e.args[i], ctx)], ctx)
<1> DEFINE Eqn(g) == g = [x \in Expressions |-> ValueOf(x, [i \in DOMAIN x.args |-> g[x.args[i]]], ctx)]
           value == CHOOSE g : Eqn(g)
<1>1. \E g : Eqn(g)
  <2>1. PICK g : Evaluation("scalar", g, ctx)
    BY SomeEvaluateAll
  <2>2. \A x \in Expressions : Computed("scalar", x, ArgumentValues(g, x), ctx)
                                 = ValueOf(x, [i \in DOMAIN x.args |-> g[x.args[i]]], ctx)
    BY DEF Computed, ArgumentValues
  <2> QED
    BY <2>1, <2>2 DEF Evaluation
<1>2. Eqn(value)
  <2> HIDE DEF Eqn
  <2> QED
    BY <1>1
<1>3. \A x \in Expressions : ScalarOf(x, ctx) = value[x]
  BY DEF ScalarOf
<1> HIDE DEF value
<1>4. value[e] = ValueOf(e, [i \in DOMAIN e.args |-> value[e.args[i]]], ctx)
  BY <1>2
<1>5. \A i \in DOMAIN e.args : ScalarOf(e.args[i], ctx) = value[e.args[i]]
  BY <1>3, Arguments
<1> QED
  BY <1>3, <1>4, <1>5

(* Its nodes are itself and those of its arguments.                         *)
LEMMA NodesUnfold ==
  ASSUME NEW e \in Expressions
  PROVE  Nodes(e) = {e} \cup UNION {Nodes(e.args[i]) : i \in DOMAIN e.args}
<1> DEFINE Eqn(g) == g = [x \in Expressions |-> {x} \cup UNION {g[x.args[i]] : i \in DOMAIN x.args}]
           nodes == CHOOSE g : Eqn(g)
<1>1. \E g : Eqn(g)
  <2>1. PICK g : Evaluation("nodes", g, {})
    BY SomeEvaluateAll
  <2>2. \A x \in Expressions : Computed("nodes", x, ArgumentValues(g, x), {})
                                 = {x} \cup UNION {g[x.args[i]] : i \in DOMAIN x.args}
    BY DEF Computed, ArgumentValues
  <2> QED
    BY <2>1, <2>2 DEF Evaluation
<1>2. Eqn(nodes)
  <2> HIDE DEF Eqn
  <2> QED
    BY <1>1
<1>3. \A x \in Expressions : Nodes(x) = nodes[x]
  BY DEF Nodes
<1> HIDE DEF nodes
<1>4. nodes[e] = {e} \cup UNION {nodes[e.args[i]] : i \in DOMAIN e.args}
  BY <1>2
<1>5. \A i \in DOMAIN e.args : Nodes(e.args[i]) = nodes[e.args[i]]
  BY <1>3, Arguments
<1> QED
  BY <1>3, <1>4, <1>5

-----------------------------------------------------------------------------
(* What validation says of an expression's arguments, and of its names.     *)

(* The nodes of an argument are nodes of the expression.                    *)
LEMMA NodesOfArguments ==
  ASSUME NEW e \in Expressions
  PROVE  e \in Nodes(e) /\ \A i \in DOMAIN e.args : Nodes(e.args[i]) \subseteq Nodes(e)
BY NodesUnfold

(* So the arguments of a valid expression are valid.                        *)
LEMMA ValidArguments ==
  ASSUME NEW names, NEW e \in Expressions, ValidExpression(e, names)
  PROVE  /\ ValidNode(e, names)
         /\ \A i \in DOMAIN e.args : ValidExpression(e.args[i], names)
BY NodesOfArguments DEF ValidExpression

(* An expression has the names of its arguments.                            *)
LEMMA NamesOfArguments ==
  ASSUME NEW e \in Expressions
  PROVE  /\ e.op = "name" => e.name \in Names(e)
         /\ \A i \in DOMAIN e.args : Names(e.args[i]) \subseteq Names(e)
BY NodesOfArguments DEF Names

(* A valid expression has no name that is not allowed.                      *)
LEMMA NamesAllowed ==
  ASSUME NEW names, NEW e \in Expressions, ValidExpression(e, names)
  PROVE  Names(e) \subseteq names
<1>1. \A x \in Nodes(e) : ValidNode(x, names)
  BY DEF ValidExpression
<1>2. "name" \notin Logical \cup {"neg"} \cup Arithmetic \cup Comparisons \cup ALLOWED_FUNCTIONS
  BY DEF Logical, Arithmetic, Comparisons, ALLOWED_FUNCTIONS, Arity, Crossings
<1>3. \A x \in Nodes(e) : x.op = "name" => x.name \in names
  BY <1>1, <1>2 DEF ValidNode, ValidCall
<1> QED
  BY <1>3 DEF Names

(* What an operator may be, and how many arguments it then has.             *)
LEMMA Operators ==
  ASSUME NEW names, NEW e \in Expressions, ValidNode(e, names)
  PROVE  \/ e.op = "name" /\ e.name \in names
         \/ e.op = "const"
         \/ e.op \in {"not", "neg", "abs"} /\ 1 \in DOMAIN e.args
         \/ /\ e.op \in {"and", "or", "crossover", "crossunder", "min", "max"} \cup Arithmetic \cup Comparisons
            /\ 1 \in DOMAIN e.args /\ 2 \in DOMAIN e.args
<1>1. e.args \in Seq(Expressions) /\ Len(e.args) \in ArgsOf(e.op)
  BY ExpressionsAssumption
<1>2. DOMAIN e.args = 1 .. Len(e.args) /\ Len(e.args) \in Nat
  BY <1>1
<1>3. CASE e.op = "const" \/ (e.op = "name" /\ e.name \in names)
  BY <1>3
<1>4. CASE e.op \in Logical \cup {"neg"} \cup Arithmetic \cup Comparisons
  <2>1. e.op \in {"not", "neg"} => Len(e.args) = 1
    BY <1>1 DEF ArgsOf
  <2>2. e.op \in {"and", "or"} \cup Arithmetic \cup Comparisons => Len(e.args) = 2
    BY <1>1 DEF ArgsOf, Arithmetic, Comparisons
  <2> QED
    BY <1>2, <1>4, <2>1, <2>2 DEF Logical
<1>5. CASE ValidCall(e)
  <2>1. e.op \in {"crossover", "crossunder", "abs", "min", "max"}
    BY <1>5 DEF ValidCall, ALLOWED_FUNCTIONS, Arity, Crossings
  <2>2. Len(e.args) = IF e.op = "abs" THEN 1 ELSE 2
    BY <1>5, <2>1 DEF ValidCall, Arity, Crossings
  <2> QED
    BY <1>2, <2>1, <2>2
<1> QED
  BY <1>3, <1>4, <1>5 DEF ValidNode

-----------------------------------------------------------------------------
(* Frames and their columns.                                               *)

Frame(df, names, N) ==
  /\ DOMAIN df = names /\ "close" \in names
  /\ \A c \in names : DOMAIN df[c] = 1 .. N

(* Every operator gives a column with the rows of its operands.             *)
LEMMA ColumnHasRows ==
  ASSUME NEW names, NEW N \in Nat, NEW df, Frame(df, names, N),
         NEW e \in Expressions, ValidNode(e, names),
         NEW cols, \A i \in DOMAIN e.args : DOMAIN cols[i] = 1 .. N
  PROVE  DOMAIN ColumnOf(e, cols, df) = 1 .. N
<1>1. Rows(df) = 1 .. N
  BY DEF Rows, Frame
<1>2. CASE e.op = "name" /\ e.name \in names
  BY <1>2 DEF ColumnOf, Frame, Arithmetic, Comparisons
<1>3. CASE e.op = "const"
  BY <1>1, <1>3 DEF ColumnOf
<1>4. CASE e.op \in {"not", "neg", "abs"} /\ 1 \in DOMAIN e.args
  BY <1>1, <1>4 DEF ColumnOf
<1>5. CASE /\ e.op \in {"and", "or", "crossover", "crossunder", "min", "max"} \cup Arithmetic \cup Comparisons
           /\ 1 \in DOMAIN e.args /\ 2 \in DOMAIN e.args
  <2>1. DOMAIN cols[1] = 1 .. N /\ DOMAIN cols[2] = 1 .. N
    BY <1>5
  <2>2. DOMAIN Crossover(cols[1], cols[2]) = 1 .. N /\ DOMAIN Crossover(cols[2], cols[1]) = 1 .. N
    BY <2>1 DEF Crossover
  <2>3. \A op : DOMAIN Extremum(op, e, cols[1], cols[2]) = 1 .. N
    BY <2>1 DEF Extremum, Where
  <2>4. CASE e.op \in {"and", "or"}
    BY <1>1, <2>4 DEF ColumnOf
  <2>5. CASE e.op \in {"crossover", "crossunder", "min", "max"}
    BY <2>2, <2>3, <2>5 DEF ColumnOf, Arithmetic, Comparisons
  <2>6. CASE e.op \in Arithmetic
    BY <1>1, <2>6 DEF ColumnOf, Arithmetic
  <2>7. CASE e.op \in Comparisons
    BY <1>1, <2>7 DEF ColumnOf, Arithmetic, Comparisons
  <2> QED
    BY <1>5, <2>4, <2>5, <2>6, <2>7
<1> QED
  BY <1>2, <1>3, <1>4, <1>5, Operators

(* The columns of a valid expression have the rows of the frame.            *)
LEMMA SeriesHasRows ==
  ASSUME NEW names, NEW N \in Nat, NEW df, Frame(df, names, N)
  PROVE  \A e \in Expressions : ValidExpression(e, names) => DOMAIN SeriesOf(e, df) = 1 .. N
<1> DEFINE S == {e \in Expressions : ValidExpression(e, names) => DOMAIN SeriesOf(e, df) = 1 .. N}
<1>1. ASSUME NEW e \in Expressions, \A i \in DOMAIN e.args : e.args[i] \in S
      PROVE  e \in S
  <2> SUFFICES ASSUME ValidExpression(e, names) PROVE DOMAIN SeriesOf(e, df) = 1 .. N
    OBVIOUS
  <2> DEFINE cols == [i \in DOMAIN e.args |-> SeriesOf(e.args[i], df)]
  <2>1. \A i \in DOMAIN e.args : DOMAIN cols[i] = 1 .. N
    BY <1>1, ValidArguments
  <2>2. SeriesOf(e, df) = ColumnOf(e, cols, df)
    BY SeriesUnfolds
  <2> HIDE DEF cols
  <2> QED
    BY <2>1, <2>2, ValidArguments, ColumnHasRows
<1> HIDE DEF S
<1>2. Expressions \subseteq S
  BY <1>1, TreesAreWellFounded
<1> QED
  BY <1>2 DEF S

-----------------------------------------------------------------------------
(* Locality: the value in a row depends on that row of the columns an       *)
(* expression names and, for a crossing, on the row before.                 *)

Agree(df, dw, names, k, r) == \A c \in names : df[c][k] = dw[c][r]
AgreeTwo(df, dw, names, k, r) ==
  Agree(df, dw, names, k, r) /\ (k > 1 => Agree(df, dw, names, k - 1, r - 1))

Operands(e, cols, N, k, dows, M, r) ==
  \A i \in DOMAIN e.args : /\ DOMAIN cols[i] = 1 .. N /\ DOMAIN dows[i] = 1 .. M
                           /\ cols[i][k] = dows[i][r]
OperandsTwo(e, cols, N, k, dows, M, r) ==
  /\ Operands(e, cols, N, k, dows, M, r)
  /\ (k = 1) <=> (r = 1)
  /\ k > 1 => Operands(e, cols, N, k - 1, dows, M, r - 1)

(* One step of arithmetic gives rows that agree when the operands' do.      *)
LEMMA NumberIsLocal ==
  ASSUME NEW names, NEW N \in Nat, NEW df, Frame(df, names, N), NEW k \in 1 .. N,
         NEW M \in Nat, NEW dw, Frame(dw, names, M), NEW r \in 1 .. M,
         NEW e \in Expressions, ValidNode(e, names), e.op \notin Crossings,
         e.op = "name" => df[e.name][k] = dw[e.name][r],
         NEW cols, NEW dows, Operands(e, cols, N, k, dows, M, r)
  PROVE  ColumnOf(e, cols, df)[k] = ColumnOf(e, dows, dw)[r]
<1>1. Rows(df) = 1 .. N /\ Rows(dw) = 1 .. M
  BY DEF Rows, Frame
<1>2. CASE e.op = "name" /\ e.name \in names
  BY <1>2 DEF ColumnOf, Arithmetic, Comparisons
<1>3. CASE e.op = "const"
  BY <1>1, <1>3 DEF ColumnOf, Arithmetic, Comparisons
<1>4. CASE e.op \in {"not", "neg", "abs"} /\ 1 \in DOMAIN e.args
  <2>1. cols[1][k] = dows[1][r]
    BY <1>4 DEF Operands
  <2> QED
    BY <1>1, <1>4, <2>1 DEF ColumnOf, Arithmetic, Comparisons
<1>5. CASE /\ e.op \in {"and", "or", "crossover", "crossunder", "min", "max"} \cup Arithmetic \cup Comparisons
           /\ 1 \in DOMAIN e.args /\ 2 \in DOMAIN e.args
  <2>1. /\ DOMAIN cols[1] = 1 .. N /\ DOMAIN cols[2] = 1 .. N
        /\ DOMAIN dows[1] = 1 .. M /\ DOMAIN dows[2] = 1 .. M
        /\ cols[1][k] = dows[1][r] /\ cols[2][k] = dows[2][r]
    BY <1>5 DEF Operands
  <2>2. \A op : Extremum(op, e, cols[1], cols[2])[k] = Extremum(op, e, dows[1], dows[2])[r]
    BY <2>1 DEF Extremum, Where
  <2>3. CASE e.op \in {"and", "or"}
    BY <1>1, <2>1, <2>3 DEF ColumnOf, Arithmetic, Comparisons
  <2>4. CASE e.op \in {"min", "max"}
    BY <2>2, <2>4 DEF ColumnOf, Arithmetic, Comparisons
  <2>5. CASE e.op \in Arithmetic
    <3>1. /\ ColumnOf(e, cols, df) = [i \in 1 .. N |-> CalculatedRow(e, cols[1][i], cols[2][i])]
          /\ ColumnOf(e, dows, dw) = [i \in 1 .. M |-> CalculatedRow(e, dows[1][i], dows[2][i])]
      BY <1>1, <2>5 DEF ColumnOf, Arithmetic, Comparisons
    <3> QED
      BY <2>1, <3>1
  <2>6. CASE e.op \in Comparisons
    <3>1. /\ ColumnOf(e, cols, df) = [i \in 1 .. N |-> Compared(e.op, cols[1][i], cols[2][i])]
          /\ ColumnOf(e, dows, dw) = [i \in 1 .. M |-> Compared(e.op, dows[1][i], dows[2][i])]
      BY <1>1, <2>6 DEF ColumnOf, Arithmetic, Comparisons
    <3> QED
      BY <2>1, <3>1
  <2> QED
    BY <1>5, <2>3, <2>4, <2>5, <2>6 DEF Crossings
<1> QED
  BY <1>2, <1>3, <1>4, <1>5, Operators

(* A crossing gives rows that agree when its operands' rows do and the rows *)
(* before, or there is none before either.                                  *)
LEMMA CrossingIsLocal ==
  ASSUME NEW names, NEW N \in Nat, NEW df, NEW k \in 1 .. N,
         NEW M \in Nat, NEW dw, NEW r \in 1 .. M,
         NEW e \in Expressions, ValidNode(e, names), e.op \in Crossings,
         NEW cols, NEW dows, OperandsTwo(e, cols, N, k, dows, M, r)
  PROVE  ColumnOf(e, cols, df)[k] = ColumnOf(e, dows, dw)[r]
<1>1. e.op = "crossover" \/ e.op = "crossunder"
  BY DEF Crossings
<1>2. 1 \in DOMAIN e.args /\ 2 \in DOMAIN e.args
  BY <1>1, Operators DEF Arithmetic, Comparisons
<1>3. \A i \in {1, 2} : /\ DOMAIN cols[i] = 1 .. N /\ DOMAIN dows[i] = 1 .. M
                        /\ cols[i][k] = dows[i][r]
                        /\ k > 1 => cols[i][k - 1] = dows[i][r - 1]
  BY <1>2 DEF Operands, OperandsTwo
<1>4. \A i \in {1, 2} : ShiftPrev(cols[i])[k] = ShiftPrev(dows[i])[r]
  <2> TAKE i \in {1, 2}
  <2>1. /\ ShiftPrev(cols[i])[k] = IF k > 1 THEN cols[i][k - 1] ELSE NaN
        /\ ShiftPrev(dows[i])[r] = IF r > 1 THEN dows[i][r - 1] ELSE NaN
    BY <1>3 DEF ShiftPrev
  <2> QED
    BY <1>3, <2>1 DEF OperandsTwo
<1>5. \A i, j \in {1, 2} : Crossover(cols[i], cols[j])[k] = Crossover(dows[i], dows[j])[r]
  BY <1>3, <1>4 DEF Crossover
<1> QED
  BY <1>1, <1>5 DEF ColumnOf, Arithmetic, Comparisons

(* A number depends on one row alone: crossings are conditions.             *)
LEMMA NumbersAreLocal ==
  ASSUME NEW names, NEW N \in Nat, NEW df, Frame(df, names, N), NEW k \in 1 .. N,
         NEW M \in Nat, NEW dw, Frame(dw, names, M), NEW r \in 1 .. M
  PROVE  \A e \in Expressions :
           ValidExpression(e, names) /\ ~IsCondition(e) /\ Agree(df, dw, Names(e), k, r)
             => SeriesOf(e, df)[k] = SeriesOf(e, dw)[r]
<1> DEFINE S == {e \in Expressions :
                   ValidExpression(e, names) /\ ~IsCondition(e) /\ Agree(df, dw, Names(e), k, r)
                     => SeriesOf(e, df)[k] = SeriesOf(e, dw)[r]}
<1>1. ASSUME NEW e \in Expressions, \A i \in DOMAIN e.args : e.args[i] \in S
      PROVE  e \in S
  <2> SUFFICES ASSUME ValidExpression(e, names), ~IsCondition(e), Agree(df, dw, Names(e), k, r)
               PROVE  SeriesOf(e, df)[k] = SeriesOf(e, dw)[r]
    OBVIOUS
  <2> DEFINE cols == [i \in DOMAIN e.args |-> SeriesOf(e.args[i], df)]
             dows == [i \in DOMAIN e.args |-> SeriesOf(e.args[i], dw)]
  <2>1. ASSUME NEW i \in DOMAIN e.args
        PROVE  /\ DOMAIN cols[i] = 1 .. N /\ DOMAIN dows[i] = 1 .. M
               /\ cols[i][k] = dows[i][r]
    <3>1. e.args[i] \in Expressions /\ ValidExpression(e.args[i], names)
      BY Arguments, ValidArguments
    <3>2. ~IsCondition(e.args[i])
      BY Arguments DEF IsCondition
    <3>3. Agree(df, dw, Names(e.args[i]), k, r)
      BY NamesOfArguments DEF Agree
    <3>4. DOMAIN SeriesOf(e.args[i], df) = 1 .. N /\ DOMAIN SeriesOf(e.args[i], dw) = 1 .. M
      BY <3>1, SeriesHasRows
    <3> QED
      BY <1>1, <3>1, <3>2, <3>3, <3>4
  <2>2. SeriesOf(e, df) = ColumnOf(e, cols, df) /\ SeriesOf(e, dw) = ColumnOf(e, dows, dw)
    BY SeriesUnfolds
  <2>3. e.op \notin Crossings /\ ValidNode(e, names)
    BY ValidArguments DEF IsCondition
  <2>4. e.op = "name" => df[e.name][k] = dw[e.name][r]
    BY NamesOfArguments DEF Agree
  <2>5. Operands(e, cols, N, k, dows, M, r)
    BY <2>1 DEF Operands
  <2> HIDE DEF cols, dows
  <2> QED
    BY <2>2, <2>3, <2>4, <2>5, NumberIsLocal
<1> HIDE DEF S
<1>2. Expressions \subseteq S
  BY <1>1, TreesAreWellFounded
<1> QED
  BY <1>2 DEF S

(* A condition depends on it and the row before.                            *)
LEMMA ConditionsAreLocal ==
  ASSUME NEW names, NEW N \in Nat, NEW df, Frame(df, names, N), NEW k \in 1 .. N,
         NEW M \in Nat, NEW dw, Frame(dw, names, M), NEW r \in 1 .. M,
         (k = 1) <=> (r = 1)
  PROVE  \A e \in Expressions :
           ValidExpression(e, names) /\ AgreeTwo(df, dw, Names(e), k, r)
             => SeriesOf(e, df)[k] = SeriesOf(e, dw)[r]
<1> DEFINE S == {e \in Expressions :
                   ValidExpression(e, names) /\ AgreeTwo(df, dw, Names(e), k, r)
                     => SeriesOf(e, df)[k] = SeriesOf(e, dw)[r]}
<1>1. ASSUME NEW e \in Expressions, \A i \in DOMAIN e.args : e.args[i] \in S
      PROVE  e \in S
  <2> SUFFICES ASSUME ValidExpression(e, names), AgreeTwo(df, dw, Names(e), k, r)
               PROVE  SeriesOf(e, df)[k] = SeriesOf(e, dw)[r]
    OBVIOUS
  <2> DEFINE cols == [i \in DOMAIN e.args |-> SeriesOf(e.args[i], df)]
             dows == [i \in DOMAIN e.args |-> SeriesOf(e.args[i], dw)]
  <2>1. ASSUME NEW i \in DOMAIN e.args
        PROVE  /\ DOMAIN cols[i] = 1 .. N /\ DOMAIN dows[i] = 1 .. M
               /\ cols[i][k] = dows[i][r]
               /\ k > 1 /\ e.op \in Crossings => cols[i][k - 1] = dows[i][r - 1]
    <3>1. e.args[i] \in Expressions /\ ValidExpression(e.args[i], names)
      BY Arguments, ValidArguments
    <3>2. AgreeTwo(df, dw, Names(e.args[i]), k, r)
      BY NamesOfArguments DEF Agree, AgreeTwo
    <3>3. DOMAIN SeriesOf(e.args[i], df) = 1 .. N /\ DOMAIN SeriesOf(e.args[i], dw) = 1 .. M
      BY <3>1, SeriesHasRows
    <3>4. SeriesOf(e.args[i], df)[k] = SeriesOf(e.args[i], dw)[r]
      BY <1>1, <3>1, <3>2
    <3>5. ASSUME k > 1, e.op \in Crossings
          PROVE  SeriesOf(e.args[i], df)[k - 1] = SeriesOf(e.args[i], dw)[r - 1]
      <4>1. ~IsCondition(e.args[i])
        BY <3>5, Arguments DEF Crossings, Logical
      <4>2. k - 1 \in 1 .. N /\ r - 1 \in 1 .. M
        BY <3>5
      <4> QED
        BY <3>1, <3>2, <3>5, <4>1, <4>2, NumbersAreLocal DEF AgreeTwo
    <3> QED
      BY <3>3, <3>4, <3>5
  <2>2. SeriesOf(e, df) = ColumnOf(e, cols, df) /\ SeriesOf(e, dw) = ColumnOf(e, dows, dw)
    BY SeriesUnfolds
  <2>3. ValidNode(e, names)
    BY ValidArguments
  <2>4. e.op = "name" => df[e.name][k] = dw[e.name][r]
    BY NamesOfArguments DEF Agree, AgreeTwo
  <2>5. Operands(e, cols, N, k, dows, M, r)
    BY <2>1 DEF Operands
  <2>6. k > 1 /\ e.op \in Crossings => Operands(e, cols, N, k - 1, dows, M, r - 1)
    BY <2>1 DEF Operands
  <2> HIDE DEF cols, dows
  <2>7. CASE e.op \in Crossings
    <3>1. OperandsTwo(e, cols, N, k, dows, M, r)
      BY <2>5, <2>6, <2>7 DEF OperandsTwo
    <3>2. ColumnOf(e, cols, df)[k] = ColumnOf(e, dows, dw)[r]
      BY <2>3, <2>7, <3>1, CrossingIsLocal
    <3> QED
      BY <2>2, <3>2
  <2>8. CASE e.op \notin Crossings
    BY <2>2, <2>3, <2>4, <2>5, <2>8, NumberIsLocal
  <2> QED
    BY <2>7, <2>8
<1> HIDE DEF S
<1>2. Expressions \subseteq S
  BY <1>1, TreesAreWellFounded
<1> QED
  BY <1>2 DEF S

-----------------------------------------------------------------------------
(* Windows of bars and the frames prepared from them.                       *)

Bars == [close : Numbers, low : Numbers, time : Nat]

PartIn(s, m, n, S) == \A i \in m .. n : s[i] \in S

(* A part of a sequence holds the elements it says, in their order.         *)
LEMMA PartOfSequence ==
  ASSUME NEW S, NEW s, NEW m \in Int, NEW n \in Int, m <= n, PartIn(s, m, n, S)
  PROVE  /\ SubSeq(s, m, n) \in Seq(S) /\ Len(SubSeq(s, m, n)) = n - m + 1
         /\ \A j \in 1 .. n - m + 1 : SubSeq(s, m, n)[j] = s[m + j - 1]
BY DEF PartIn

(* A trailing window holds the bars it says, in their order.                *)
LEMMA WindowBars ==
  ASSUME NEW w \in Seq(Bars), NEW m \in 1 .. Len(w), NEW i \in m .. Len(w)
  PROVE  /\ SubSeq(w, m, i) \in Seq(Bars) /\ Len(SubSeq(w, m, i)) = i - m + 1
         /\ \A j \in 1 .. i - m + 1 : SubSeq(w, m, i)[j] = w[m + j - 1]
<1>1. PartIn(w, m, i, Bars)
  BY DEF PartIn
<1>2. m \in Int /\ i \in Int /\ m <= i
  OBVIOUS
<1> QED
  BY <1>1, <1>2, PartOfSequence

(* Two parts of windows have the same bars.                                 *)
SameBars(w, a, b, v, c, d) ==
  /\ w \in Seq(Bars) /\ a \in 1 .. Len(w) /\ b \in 1 .. Len(w) /\ a <= b
  /\ v \in Seq(Bars) /\ c \in 1 .. Len(v) /\ d \in 1 .. Len(v) /\ d - c = b - a
  /\ \A j \in 1 .. b - a + 1 : w[a + j - 1] = v[c + j - 1]

Closes(w, a, b) == SubSeq(Close(w), a, b)

(* The closes of two parts of windows are the same if the bars are.         *)
LEMMA CloseOfWindow ==
  ASSUME NEW w, NEW a, NEW b, NEW v, NEW c, NEW d, SameBars(w, a, b, v, c, d)
  PROVE  Closes(w, a, b) = Closes(v, c, d)
<1> DEFINE s == SubSeq(Close(w), a, b)
           t == SubSeq(Close(v), c, d)
<1> USE DEF SameBars
<1>1. /\ DOMAIN w = 1 .. Len(w) /\ Len(w) \in Nat /\ a \in Int /\ b \in Int
      /\ DOMAIN v = 1 .. Len(v) /\ Len(v) \in Nat /\ c \in Int /\ d \in Int
  OBVIOUS
<1>2. /\ \A j \in 1 .. Len(w) : Close(w)[j] = w[j].close
      /\ \A j \in 1 .. Len(v) : Close(v)[j] = v[j].close
  BY <1>1 DEF Close
<1>3. /\ \A j \in a .. b : Close(w)[j] \in Numbers
      /\ \A j \in c .. d : Close(v)[j] \in Numbers
  <2>1. /\ \A j \in 1 .. Len(w) : w[j] \in Bars
        /\ \A j \in 1 .. Len(v) : v[j] \in Bars
    OBVIOUS
  <2>2. \A x \in Bars : x.close \in Numbers
    BY DEF Bars
  <2>3. /\ \A j \in 1 .. Len(w) : Close(w)[j] \in Numbers
        /\ \A j \in 1 .. Len(v) : Close(v)[j] \in Numbers
    BY <1>2, <2>1, <2>2
  <2>4. /\ \A j \in a .. b : j \in 1 .. Len(w)
        /\ \A j \in c .. d : j \in 1 .. Len(v)
    BY <1>1
  <2> QED
    BY <2>3, <2>4
<1>4. /\ s \in Seq(Numbers) /\ Len(s) = b - a + 1
      /\ \A j \in 1 .. b - a + 1 : s[j] = Close(w)[a + j - 1]
  BY <1>1, <1>3, PartOfSequence DEF PartIn
<1>5. /\ t \in Seq(Numbers) /\ Len(t) = d - c + 1
      /\ \A j \in 1 .. d - c + 1 : t[j] = Close(v)[c + j - 1]
  BY <1>1, <1>3, PartOfSequence DEF PartIn
<1>6. ASSUME NEW j \in 1 .. b - a + 1 PROVE s[j] = t[j]
  <2> DEFINE x == a + j - 1
             y == c + j - 1
  <2>1. x \in 1 .. Len(w) /\ y \in 1 .. Len(v) /\ j \in 1 .. d - c + 1 /\ w[x] = v[y]
    BY <1>1
  <2>2. s[j] = Close(w)[x] /\ t[j] = Close(v)[y]
    BY <1>4, <1>5, <2>1
  <2> HIDE DEF x, y, s, t
  <2> QED
    BY <1>2, <2>1, <2>2
<1>7. Len(s) = b - a + 1 /\ Len(t) = b - a + 1
  BY <1>1, <1>4, <1>5
<1> HIDE DEF s, t
<1>8. s = [j \in 1 .. b - a + 1 |-> s[j]] /\ t = [j \in 1 .. b - a + 1 |-> t[j]]
  BY <1>4, <1>5, <1>7
<1>9. s = t
  BY <1>6, <1>8
<1> QED
  BY <1>9 DEF s, t, Closes

(* The frame of a window has a row for each bar.                            *)
LEMMA FrameOfWindow ==
  ASSUME NEW p \in Payloads, NEW w \in Seq(Bars)
  PROVE  Frame(Prepare(p, w), OHLCV_COLUMNS \cup p.indicators, Len(w))
<1>1. p.indicators \subseteq {"sma", "ema"}
  BY InterpreterAssumption
<1>2. DOMAIN w = 1 .. Len(w)
  OBVIOUS
<1>3. DOMAIN Prepare(p, w) = OHLCV_COLUMNS \cup p.indicators
  BY DEF Prepare
<1>4. ASSUME NEW c \in OHLCV_COLUMNS \cup p.indicators
      PROVE  DOMAIN Prepare(p, w)[c] = 1 .. Len(w)
  <2>1. c \in {"close", "low", "sma", "ema"}
    BY <1>1 DEF OHLCV_COLUMNS
  <2>2. Prepare(p, w)[c] = CASE c = "close" -> Close(w)
                             [] c = "low"   -> [i \in DOMAIN w |-> w[i].low]
                             [] c = "sma"   -> Sma(w)
                             [] c = "ema"   -> Ema(w)
    BY DEF Prepare
  <2>3. DOMAIN Close(w) = 1 .. Len(w) /\ DOMAIN Sma(w) = 1 .. Len(w) /\ DOMAIN Ema(w) = 1 .. Len(w)
    BY <1>2 DEF Close, Sma, Ema
  <2> QED
    BY <1>2, <2>1, <2>2, <2>3
<1> QED
  BY <1>3, <1>4 DEF Frame, OHLCV_COLUMNS

(* Bar j of the window is bar k of the bars.                                *)
InWindow(w, v, j, k) ==
  /\ w \in Seq(Bars) /\ v \in Seq(Bars)
  /\ j \in 1 .. Len(v) /\ k \in 1 .. Len(w) /\ j <= k
  /\ \A l \in 0 .. j - 1 : w[k - l] = v[j - l]

(* A moving average looks at Length bars: it is the same in any window that *)
(* has them, and in the bars themselves.                                    *)
LEMMA SmaOfWindow ==
  ASSUME NEW w, NEW v, NEW j, NEW k, InWindow(w, v, j, k), j >= Length \/ j = k
  PROVE  Sma(w)[k] = Sma(v)[j]
<1> DEFINE a == k - Length + 1
           c == j - Length + 1
<1>1. /\ w \in Seq(Bars) /\ v \in Seq(Bars)
      /\ j \in 1 .. Len(v) /\ k \in 1 .. Len(w) /\ j <= k
      /\ DOMAIN w = 1 .. Len(w) /\ DOMAIN v = 1 .. Len(v)
      /\ Len(w) \in Nat /\ Len(v) \in Nat /\ Length \in Nat \ {0}
  BY InterpreterAssumption DEF InWindow
<1>2. Sma(w)[k] = (IF k < Length THEN NaN ELSE Mean(Closes(w, a, k)))
  BY <1>1 DEF Sma, Closes
<1>3. Sma(v)[j] = (IF j < Length THEN NaN ELSE Mean(Closes(v, c, j)))
  BY <1>1 DEF Sma, Closes
<1>4. CASE j < Length
  <2> HIDE DEF a, c
  <2>1. j = k
    BY <1>1, <1>4
  <2> QED
    BY <1>2, <1>3, <1>4, <2>1
<1>5. CASE j >= Length
  <2>1. a \in 1 .. Len(w) /\ c \in 1 .. Len(v) /\ a <= k /\ j - c = k - a /\ k - a + 1 = Length
    BY <1>1, <1>5
  <2>2. ASSUME NEW l \in 1 .. k - a + 1 PROVE w[a + l - 1] = v[c + l - 1]
    <3>1. Length - l \in 0 .. j - 1
      BY <1>1, <1>5, <2>1
    <3>2. w[k - (Length - l)] = v[j - (Length - l)]
      BY <3>1 DEF InWindow
    <3>3. k - (Length - l) = a + l - 1 /\ j - (Length - l) = c + l - 1
      BY <1>1
    <3> QED
      BY <3>2, <3>3
  <2>3. ~(k < Length) /\ ~(j < Length)
    BY <1>1, <1>5
  <2> HIDE DEF a, c
  <2>4. SameBars(w, a, k, v, c, j)
    BY <1>1, <2>1, <2>2 DEF SameBars
  <2>5. Closes(w, a, k) = Closes(v, c, j)
    BY <2>4, CloseOfWindow
  <2> QED
    BY <1>2, <1>3, <2>3, <2>5
<1> QED
  BY <1>1, <1>4, <1>5

(* A smoothed average looks at all bars before it: it is the same in a      *)
(* window that begins with the first.                                       *)
LEMMA EmaOfWindow ==
  ASSUME NEW w, NEW v, NEW k, InWindow(w, v, k, k)
  PROVE  Ema(w)[k] = Ema(v)[k]
<1> DEFINE a == Length + 1
<1>1. /\ w \in Seq(Bars) /\ v \in Seq(Bars)
      /\ k \in 1 .. Len(v) /\ k \in 1 .. Len(w)
      /\ DOMAIN w = 1 .. Len(w) /\ DOMAIN v = 1 .. Len(v)
      /\ Len(w) \in Nat /\ Len(v) \in Nat /\ Length \in Nat \ {0}
  BY InterpreterAssumption DEF InWindow
<1>2. Ema(w)[k] = (IF k <= Length THEN Sma(w)[k] ELSE Smoothed(Sma(w)[Length], Closes(w, a, k)))
  BY <1>1 DEF Ema, Closes
<1>3. Ema(v)[k] = (IF k <= Length THEN Sma(v)[k] ELSE Smoothed(Sma(v)[Length], Closes(v, a, k)))
  BY <1>1 DEF Ema, Closes
<1>4. ASSUME NEW l \in 1 .. k PROVE w[l] = v[l]
  <2>1. k - l \in 0 .. k - 1 /\ k - (k - l) = l
    BY <1>1
  <2> QED
    BY <2>1 DEF InWindow
<1>5. CASE k <= Length
  <2> HIDE DEF a
  <2>1. Sma(w)[k] = Sma(v)[k]
    BY SmaOfWindow
  <2> QED
    BY <1>2, <1>3, <1>5, <2>1
<1>6. CASE ~(k <= Length)
  <2>1. InWindow(w, v, Length, Length)
    BY <1>1, <1>4, <1>6 DEF InWindow
  <2>2. Sma(w)[Length] = Sma(v)[Length]
    BY <2>1, SmaOfWindow
  <2>3. a \in 1 .. Len(w) /\ a \in 1 .. Len(v) /\ a <= k /\ k \in Int
    BY <1>1, <1>6
  <2>4. \A l \in 1 .. k - a + 1 : a + l - 1 \in 1 .. k
    BY <1>1, <2>3
  <2> HIDE DEF a
  <2>5. SameBars(w, a, k, v, a, k)
    BY <1>1, <1>4, <2>3, <2>4 DEF SameBars
  <2>6. Closes(w, a, k) = Closes(v, a, k)
    BY <2>5, CloseOfWindow
  <2> QED
    BY <1>2, <1>3, <1>6, <2>2, <2>6
<1> QED
  BY <1>5, <1>6

(* So a window's frame has the rows of the bars' frame, in the columns for  *)
(* which it is long enough.                                                 *)
LEMMA RowOfWindow ==
  ASSUME NEW p \in Payloads, NEW w, NEW v, NEW j, NEW k, InWindow(w, v, j, k),
         NEW names \in SUBSET (OHLCV_COLUMNS \cup p.indicators),
         "sma" \in names => j >= Length \/ j = k,
         "ema" \in names => j = k
  PROVE  Agree(Prepare(p, w), Prepare(p, v), names, k, j)
<1> SUFFICES ASSUME NEW c \in names PROVE Prepare(p, w)[c][k] = Prepare(p, v)[c][j]
  BY DEF Agree
<1>1. c \in {"close", "low", "sma", "ema"} /\ c \in OHLCV_COLUMNS \cup p.indicators
  BY InterpreterAssumption DEF OHLCV_COLUMNS
<1>2. /\ c = "close" => Prepare(p, w)[c] = Close(w) /\ Prepare(p, v)[c] = Close(v)
      /\ c = "low" => /\ Prepare(p, w)[c] = [i \in DOMAIN w |-> w[i].low]
                      /\ Prepare(p, v)[c] = [i \in DOMAIN v |-> v[i].low]
      /\ c = "sma" => Prepare(p, w)[c] = Sma(w) /\ Prepare(p, v)[c] = Sma(v)
      /\ c = "ema" => Prepare(p, w)[c] = Ema(w) /\ Prepare(p, v)[c] = Ema(v)
  BY <1>1 DEF Prepare
<1>3. /\ w \in Seq(Bars) /\ v \in Seq(Bars) /\ j \in 1 .. Len(v) /\ k \in 1 .. Len(w)
      /\ DOMAIN w = 1 .. Len(w) /\ DOMAIN v = 1 .. Len(v)
  BY DEF InWindow
<1>4. w[k] = v[j]
  <2>1. 0 \in 0 .. j - 1 /\ k - 0 = k /\ j - 0 = j
    BY <1>3
  <2> QED
    BY <2>1 DEF InWindow
<1>5. CASE c = "close"
  BY <1>2, <1>3, <1>4, <1>5 DEF Close
<1>6. CASE c = "low"
  BY <1>2, <1>3, <1>4, <1>6
<1>7. CASE c = "sma"
  BY <1>2, <1>7, SmaOfWindow
<1>8. CASE c = "ema"
  BY <1>2, <1>8, EmaOfWindow
<1> QED
  BY <1>1, <1>5, <1>6, <1>7, <1>8

(* The bar before it, if there is one, is the bar before in the window.     *)
LEMMA InWindowBefore ==
  ASSUME NEW w, NEW v, NEW j, NEW k, InWindow(w, v, j, k), j > 1
  PROVE  InWindow(w, v, j - 1, k - 1)
<1>1. /\ w \in Seq(Bars) /\ v \in Seq(Bars) /\ Len(w) \in Nat /\ Len(v) \in Nat
      /\ j \in 1 .. Len(v) /\ k \in 1 .. Len(w) /\ j <= k
  BY DEF InWindow
<1>2. ASSUME NEW l \in 0 .. j - 2 PROVE w[k - 1 - l] = v[j - 1 - l]
  <2>1. l + 1 \in 0 .. j - 1 /\ k - (l + 1) = k - 1 - l /\ j - (l + 1) = j - 1 - l
    BY <1>1
  <2> QED
    BY <2>1 DEF InWindow
<1>3. j - 1 \in 1 .. Len(v) /\ k - 1 \in 1 .. Len(w) /\ j - 1 <= k - 1 /\ (j - 1) - 1 = j - 2
  BY <1>1
<1> QED
  BY <1>1, <1>2, <1>3 DEF InWindow

(* The last n of the first i bars.                                          *)
LEMMA TrailingWindow ==
  ASSUME NEW w \in Seq(Bars), NEW i \in DOMAIN w, NEW n \in 1 .. i
  PROVE  /\ InWindow(w, SubSeq(w, i - n + 1, i), n, i)
         /\ Len(SubSeq(w, i - n + 1, i)) = n
<1> DEFINE m == i - n + 1
           v == SubSeq(w, m, i)
<1>1. /\ m \in 1 .. Len(w) /\ i \in m .. Len(w) /\ i - m + 1 = n /\ n \in Nat \ {0}
      /\ i \in 1 .. Len(w) /\ Len(w) \in Nat /\ n <= i /\ m \in Int
  OBVIOUS
<1>2. /\ v \in Seq(Bars) /\ Len(v) = i - m + 1
      /\ \A j \in 1 .. i - m + 1 : v[j] = w[m + j - 1]
  <2> HIDE DEF m
  <2> QED
    BY <1>1, WindowBars
<1>3. ASSUME NEW l \in 0 .. n - 1 PROVE w[i - l] = v[n - l]
  <2> HIDE DEF m, v
  <2>1. n - l \in 1 .. i - m + 1 /\ m + (n - l) - 1 = i - l
    <3>1. l \in Int /\ 0 <= l /\ l <= n - 1 /\ n \in Int /\ i \in Int /\ m \in Int /\ i - m + 1 = n
      BY <1>1
    <3> QED
      BY <3>1
  <2> QED
    BY <1>2, <2>1
<1> HIDE DEF m, v
<1>4. InWindow(w, v, n, i) /\ Len(v) = n
  BY <1>1, <1>2, <1>3 DEF InWindow
<1> QED
  BY <1>4 DEF m, v

(* A window that is long enough for a rule gives what all bars give.        *)
LEMMA RuleOfWindow ==
  ASSUME NEW p \in Payloads, p.type = "rule", ValidSpec(p),
         NEW w, NEW v, NEW n, NEW i, InWindow(w, v, n, i),
         n >= 2 \/ n = i,
         "sma" \in Names(p.rule) => n >= Length + 1 \/ n = i,
         "ema" \in Names(p.rule) => n = i
  PROVE  SeriesOf(p.rule, Prepare(p, w))[i] = SeriesOf(p.rule, Prepare(p, v))[n]
<1> DEFINE names == OHLCV_COLUMNS \cup p.indicators
           df == Prepare(p, w)
           dw == Prepare(p, v)
<1>1. p.rule \in Expressions /\ ValidExpression(p.rule, names)
  BY InterpreterAssumption DEF ValidSpec
<1>2. Names(p.rule) \in SUBSET names
  BY <1>1, NamesAllowed
<1>3. /\ w \in Seq(Bars) /\ v \in Seq(Bars) /\ Len(w) \in Nat /\ Len(v) \in Nat
      /\ n \in 1 .. Len(v) /\ i \in 1 .. Len(w) /\ n <= i /\ Length \in Nat \ {0}
  BY InterpreterAssumption DEF InWindow
<1>4. Frame(df, names, Len(w)) /\ Frame(dw, names, Len(v))
  BY <1>3, FrameOfWindow
<1>5. "sma" \in Names(p.rule) => n >= Length \/ n = i
  BY <1>3
<1>6. Agree(df, dw, Names(p.rule), i, n)
  BY <1>2, <1>5, RowOfWindow
<1>7. ASSUME i > 1 PROVE Agree(df, dw, Names(p.rule), i - 1, n - 1)
  <2>1. InWindow(w, v, n - 1, i - 1)
    BY <1>3, <1>7, InWindowBefore
  <2>2. /\ "sma" \in Names(p.rule) => n - 1 >= Length \/ n - 1 = i - 1
        /\ "ema" \in Names(p.rule) => n - 1 = i - 1
    BY <1>3
  <2> QED
    BY <1>2, <2>1, <2>2, RowOfWindow
<1>8. AgreeTwo(df, dw, Names(p.rule), i, n) /\ (i = 1 <=> n = 1)
  BY <1>3, <1>6, <1>7 DEF AgreeTwo
<1> HIDE DEF df, dw, names
<1>9. SeriesOf(p.rule, df)[i] = SeriesOf(p.rule, dw)[n]
  BY <1>1, <1>3, <1>4, <1>8, ConditionsAreLocal
<1> QED
  BY <1>9 DEF df, dw

(* The signal at the end of a window is the last of its signals.            *)
LEMMA LastSignal ==
  ASSUME NEW p \in Payloads, NEW v \in Seq(Bars), v # << >>
  PROVE  SignalAt(p, v) = Signals(p, v)[Len(v)]
<1> DEFINE s == Signals(p, v)
           T == {s[j] : j \in DOMAIN v}
<1>1. DOMAIN v = 1 .. Len(v) /\ Len(v) \in Nat \ {0}
  OBVIOUS
<1>2. p.type \in {"rule", "grid", "dca"}
  BY InterpreterAssumption
<1>3. s = [j \in DOMAIN v |-> s[j]]
  <2>1. CASE p.type = "rule"
    BY <2>1 DEF Signals, RuleSignals
  <2>2. CASE p.type = "grid"
    BY <2>2 DEF Signals, GridSignals
  <2>3. CASE p.type = "dca"
    BY <2>3 DEF Signals, DcaSignals
  <2> QED
    BY <1>2, <2>1, <2>2, <2>3
<1> HIDE DEF s
<1>4. s \in [1 .. Len(v) -> T]
  BY <1>1, <1>3
<1> HIDE DEF T
<1>5. s \in Seq(T) /\ Len(s) = Len(v)
  BY <1>1, <1>4
<1> QED
  BY <1>5 DEF SignalAt, Last, s

(* A window that is long enough gives the signal that all bars give.        *)
LEMMA SignalOfWindow ==
  ASSUME NEW p \in Payloads, ValidSpec(p),
         NEW w, NEW v, NEW n, NEW i, InWindow(w, v, n, i),
         p.type # "dca" => n >= 2 \/ n = i,
         p.type = "rule" /\ "sma" \in Names(p.rule) => n >= Length + 1 \/ n = i,
         p.type = "rule" /\ "ema" \in Names(p.rule) => n = i
  PROVE  Signals(p, w)[i] = Signals(p, v)[n]
<1>1. /\ w \in Seq(Bars) /\ v \in Seq(Bars) /\ DOMAIN w = 1 .. Len(w) /\ DOMAIN v = 1 .. Len(v)
      /\ n \in 1 .. Len(v) /\ i \in 1 .. Len(w) /\ n <= i
  BY DEF InWindow
<1>2. w[i] = v[n]
  <2>1. 0 \in 0 .. n - 1 /\ i - 0 = i /\ n - 0 = n
    BY <1>1
  <2> QED
    BY <2>1 DEF InWindow
<1>3. p.type \in {"rule", "grid", "dca"}
  BY InterpreterAssumption
<1>4. CASE p.type = "rule"
  <2>1. SeriesOf(p.rule, Prepare(p, w))[i] = SeriesOf(p.rule, Prepare(p, v))[n]
    BY <1>4, RuleOfWindow
  <2> QED
    BY <1>1, <1>4, <2>1 DEF Signals, RuleSignals
<1>5. CASE p.type = "grid"
  <2>1. i > 1 => w[i - 1] = v[n - 1] /\ n > 1
    <3> HAVE i > 1
    <3>1. n >= 2
      BY <1>1, <1>5
    <3>2. 1 \in 0 .. n - 1
      BY <1>1, <3>1
    <3> QED
      BY <3>1, <3>2 DEF InWindow
  <2>2. i = 1 <=> n = 1
    BY <1>1, <1>5
  <2>3. Triggered(p, w, i) = Triggered(p, v, n)
    BY <1>1, <1>2, <2>1, <2>2 DEF Triggered
  <2> QED
    BY <1>1, <1>5, <2>3 DEF Signals, GridSignals
<1>6. CASE p.type = "dca"
  BY <1>1, <1>2, <1>6 DEF Signals, DcaSignals
<1> QED
  BY <1>3, <1>4, <1>5, <1>6

-----------------------------------------------------------------------------
(* The interpreter.                                                        *)

(* What is true at every moment: the strategy is one that was accepted, and *)
(* the bars are bars.                                                      *)
Accepted ==
  /\ spec # None => spec \in Payloads /\ ValidSpec(spec)
  /\ bars \in Seq(Bars) /\ time \in Nat

(* Nothing is accepted but a valid strategy, and nothing arrives but bars.  *)
LEMMA AcceptedInvariant == Spec => []Accepted
<1>1. Init => Accepted
  BY DEF Init, Accepted
<1>2. Accepted /\ [Next]_vars => Accepted'
  <2> SUFFICES ASSUME Accepted, [Next]_vars PROVE Accepted'
    OBVIOUS
  <2>1. ASSUME NEW p \in Payloads, CreateStrategy(p) PROVE Accepted'
    BY <2>1 DEF Accepted, CreateStrategy, ValidSpec
  <2>2. ASSUME spec # None, NEW b \in Feed[spec.type], BarArrives(b) PROVE Accepted'
    <3>1. spec \in Payloads
      BY <2>2 DEF Accepted
    <3>2. b \in [close : Numbers, low : Numbers, step : Nat]
      BY <2>2, <3>1, InterpreterAssumption
    <3>3. [close |-> b.close, low |-> b.low, time |-> time] \in Bars
      BY <3>2 DEF Accepted, Bars
    <3>4. bars' \in Seq(Bars)
      BY <2>2, <3>3 DEF Accepted, BarArrives
    <3>5. time' \in Nat
      BY <2>2, <3>2 DEF Accepted, BarArrives
    <3> QED
      BY <2>2, <3>4, <3>5 DEF Accepted, BarArrives, ValidSpec
  <2>3. CASE UNCHANGED vars
    BY <2>3 DEF Accepted, vars, ValidSpec
  <2> QED
    BY <2>1, <2>2, <2>3 DEF Next
<1> QED
  BY <1>1, <1>2, PTL DEF Spec

(* interpreter.py:3-11: whatever the rule, the bars and the arithmetic, a   *)
(* live path that computes the signal of a bar from a trailing window, long *)
(* enough for the indicators of the rule, gets what the backtest computed   *)
(* with all later bars at hand.                                             *)
THEOREM LiveIsBacktest == Spec => []BacktestIsLive
<1>1. ASSUME Accepted PROVE BacktestIsLive
  <2> SUFFICES ASSUME spec # None, NEW i \in DOMAIN bars, NEW n \in 1 .. i, n >= Needed(i) \/ n = i
               PROVE  Signals(spec, bars)[i] = SignalAt(spec, WindowOf(i, n))
    BY DEF BacktestIsLive
  <2> DEFINE v == WindowOf(i, n)
  <2>1. spec \in Payloads /\ ValidSpec(spec) /\ bars \in Seq(Bars)
    BY <1>1 DEF Accepted
  <2>2. InWindow(bars, v, n, i) /\ Len(v) = n
    BY <2>1, TrailingWindow DEF WindowOf
  <2>3. i \in Nat /\ n \in Nat /\ n >= 1 /\ n <= i /\ Length \in Nat \ {0}
    BY <2>1, InterpreterAssumption
  <2>4. /\ spec.type # "dca" => n >= 2 \/ n = i
        /\ spec.type = "rule" /\ "sma" \in Names(spec.rule) => n >= Length + 1 \/ n = i
        /\ spec.type = "rule" /\ "ema" \in Names(spec.rule) => n = i
    BY <2>3 DEF Needed
  <2> HIDE DEF v
  <2>5. Signals(spec, bars)[i] = Signals(spec, v)[n]
    BY <2>1, <2>2, <2>4, SignalOfWindow
  <2>6. v \in Seq(Bars) /\ v # << >>
    BY <2>2, <2>3 DEF InWindow
  <2> QED
    BY <2>1, <2>2, <2>5, <2>6, LastSignal DEF v
<1> QED
  BY <1>1, AcceptedInvariant, PTL

-----------------------------------------------------------------------------
(* The indicators are numbers.  Mean and Smoothed are folds, functions on   *)
(* the sets of positions: as for expressions, there is one up to every      *)
(* length, and it has numbers as values.                                    *)

(* A nonempty set of positions has a last one.                              *)
LEMMA LastPosition ==
  ASSUME NEW n \in Nat, NEW t \in SUBSET (1 .. n), t # {}
  PROVE  Max(t) \in t /\ \A i \in t : Max(t) >= i
<1> DEFINE Good == {k \in Nat : \A u \in SUBSET (1 .. k) : u # {} => \E m \in u : \A i \in u : m >= i}
<1>1. 0 \in Good
  <2>1. 1 .. 0 = {}
    OBVIOUS
  <2> QED
    BY <2>1
<1>2. ASSUME NEW k \in Nat, k \in Good PROVE k + 1 \in Good
  <2> SUFFICES ASSUME NEW u \in SUBSET (1 .. k + 1), u # {}
               PROVE  \E m \in u : \A i \in u : m >= i
    OBVIOUS
  <2>1. CASE k + 1 \in u
    BY <2>1
  <2>2. CASE k + 1 \notin u
    <3>1. u \in SUBSET (1 .. k)
      BY <2>2
    <3> QED
      BY <1>2, <3>1
  <2> QED
    BY <2>1, <2>2
<1> HIDE DEF Good
<1>3. n \in Good
  BY <1>1, <1>2, AllNumbers
<1>4. \E m \in t : \A i \in t : m >= i
  BY <1>3 DEF Good
<1> QED
  BY <1>4 DEF Max

Accumulated(kind, x, acc) ==
  IF kind = "sum" THEN Plus(acc, x)
  ELSE Quotient(Plus(Times(Num(2), x), Times(Num(Length - 1), acc)), Num(Length + 1))
FoldedAt(kind, g, base, s, t) ==
  IF t = {} THEN base ELSE Accumulated(kind, s[Max(t)], g[t \ {Max(t)}])
Fold(kind, base, s) ==
  CHOOSE g : g = [t \in SUBSET (DOMAIN s) |->
                    IF t = {} THEN base ELSE Accumulated(kind, s[Max(t)], g[t \ {Max(t)}])]

(* The two folds, unfolded.                                                 *)
LEMMA FoldsUnfolded ==
  ASSUME NEW s
  PROVE  /\ Mean(s) = Quotient(Fold("sum", Zero, s)[DOMAIN s], Num(Length))
         /\ \A e : Smoothed(e, s) = Fold("ema", e, s)[DOMAIN s]
<1>1. Mean(s) = Quotient(Fold("sum", Zero, s)[DOMAIN s], Num(Length))
  BY DEF Mean, FoldLeft, MapThenFoldSet, Fold, Accumulated
<1>2. ASSUME NEW e PROVE Smoothed(e, s) = Fold("ema", e, s)[DOMAIN s]
  BY DEF Smoothed, FoldLeft, MapThenFoldSet, Fold, Accumulated
<1> QED
  BY <1>1, <1>2

(* Without its last position a set goes up to a smaller one.                *)
LEMMA WithoutLast ==
  ASSUME NEW k \in Nat, NEW t \in SUBSET (1 .. k + 1), t # {}
  PROVE  Max(t) \in 1 .. k + 1 /\ t \ {Max(t)} \in SUBSET (1 .. k)
<1> DEFINE n == k + 1
           m == Max(t)
<1>1. n \in Nat /\ t \in SUBSET (1 .. n)
  OBVIOUS
<1>2. m \in t /\ \A i \in t : m >= i
  <2> HIDE DEF n
  <2> QED
    BY <1>1, LastPosition
<1> HIDE DEF m
<1>3. m \in 1 .. k + 1 /\ \A i \in t : i \in 1 .. k + 1
  BY <1>2
<1>4. ASSUME NEW i \in t \ {m} PROVE i \in 1 .. k
  <2>1. i \in 1 .. k + 1 /\ m >= i /\ m # i
    BY <1>2, <1>3
  <2> QED
    BY <1>3, <2>1
<1>5. t \ {m} \in SUBSET (1 .. k)
  BY <1>4
<1> QED
  BY <1>3, <1>5 DEF m

(* The fold is the function it says it is.                                  *)
LEMMA FoldExists ==
  ASSUME NEW kind, NEW base, NEW s, NEW n \in Nat, DOMAIN s = 1 .. n
  PROVE  \A t \in SUBSET (1 .. n) : Fold(kind, base, s)[t] = FoldedAt(kind, Fold(kind, base, s), base, s, t)
<1> DEFINE Good == {k \in Nat : \E g : \A t \in SUBSET (1 .. k) : g[t] = FoldedAt(kind, g, base, s, t)}
<1>1. 0 \in Good
  <2> DEFINE g == [t \in {{}} |-> base]
  <2>1. SUBSET (1 .. 0) = {{}}
    OBVIOUS
  <2>2. \A t \in SUBSET (1 .. 0) : g[t] = FoldedAt(kind, g, base, s, t)
    BY <2>1 DEF FoldedAt
  <2> HIDE DEF g
  <2> QED
    BY <2>2
<1>2. ASSUME NEW k \in Nat, k \in Good PROVE k + 1 \in Good
  <2>1. PICK g : \A t \in SUBSET (1 .. k) : g[t] = FoldedAt(kind, g, base, s, t)
    BY <1>2
  <2> DEFINE h == [t \in SUBSET (1 .. k + 1) |-> IF t \in SUBSET (1 .. k) THEN g[t] ELSE FoldedAt(kind, g, base, s, t)]
  <2>2. \A t \in SUBSET (1 .. k) : t \in SUBSET (1 .. k + 1)
    OBVIOUS
  <2>3. \A t \in SUBSET (1 .. k + 1) : h[t] = FoldedAt(kind, g, base, s, t)
    BY <2>1
  <2>4. \A t \in SUBSET (1 .. k) : h[t] = g[t]
    BY <2>2
  <2> HIDE DEF h
  <2>5. ASSUME NEW t \in SUBSET (1 .. k + 1) PROVE h[t] = FoldedAt(kind, h, base, s, t)
    <3>1. t # {} => h[t \ {Max(t)}] = g[t \ {Max(t)}]
      BY <2>4, WithoutLast
    <3> QED
      BY <2>3, <3>1 DEF FoldedAt
  <2> QED
    BY <2>5
<1> HIDE DEF Good
<1>3. n \in Good
  BY <1>1, <1>2, AllNumbers
<1>4. PICK g : \A t \in SUBSET (1 .. n) : g[t] = FoldedAt(kind, g, base, s, t)
  BY <1>3 DEF Good
<1> DEFINE h == [t \in SUBSET (DOMAIN s) |-> g[t]]
           Eqn(f) == f = [t \in SUBSET (DOMAIN s) |->
                            IF t = {} THEN base ELSE Accumulated(kind, s[Max(t)], f[t \ {Max(t)}])]
<1>5. ASSUME NEW t \in SUBSET (1 .. n) PROVE h[t] = FoldedAt(kind, h, base, s, t)
  <2>1. t \ {Max(t)} \in SUBSET (1 .. n)
    OBVIOUS
  <2>2. h[t] = g[t] /\ h[t \ {Max(t)}] = g[t \ {Max(t)}]
    BY <2>1
  <2> HIDE DEF h
  <2> QED
    BY <1>4, <2>2 DEF FoldedAt
<1>6. Eqn(h)
  <2>1. h = [t \in SUBSET (DOMAIN s) |-> h[t]]
    OBVIOUS
  <2> HIDE DEF h
  <2> QED
    BY <1>5, <2>1 DEF FoldedAt
<1>7. Eqn(Fold(kind, base, s))
  <2> HIDE DEF Eqn, h
  <2>1. Fold(kind, base, s) = CHOOSE f : Eqn(f)
    BY DEF Fold, Eqn
  <2> QED
    BY <1>6, <2>1
<1> QED
  BY <1>7 DEF FoldedAt

(* What is calculated is a number, and numbers are ordered.                 *)
LEMMA Calculation ==
  ASSUME FloatsBehave
  PROVE  /\ NaN \in Numbers /\ Zero \in Numbers
         /\ \A x, y \in Numbers : /\ Plus(x, y) \in Numbers /\ Minus(x, y) \in Numbers
                                  /\ Times(x, y) \in Numbers /\ Quotient(x, y) \in Numbers
                                  /\ Remainder(x, y) \in Numbers
                                  /\ Negative(x) \in Numbers /\ Abs(x) \in Numbers
         /\ \A x, y \in Numbers : /\ Below(x, y) => ~Below(y, x)
                                  /\ x # NaN /\ y # NaN => (x # y <=> Below(x, y) \/ Below(y, x))
         /\ \A x \in Numbers : Quotient(x, NaN) = NaN /\ Remainder(x, NaN) = NaN
<1>1. /\ NaN \in Numbers /\ Zero \in Numbers
      /\ \A x, y \in Numbers :
           {Plus(x, y), Minus(x, y), Times(x, y), Quotient(x, y), Remainder(x, y)} \subseteq Numbers
      /\ \A x, y \in Numbers : Negative(x) \in Numbers /\ Abs(x) \in Numbers
      /\ \A x, y \in Numbers : /\ Below(x, y) => ~Below(y, x)
                               /\ x # NaN /\ y # NaN => (x # y <=> Below(x, y) \/ Below(y, x))
      /\ \A x \in Numbers : Quotient(x, NaN) = NaN /\ Remainder(x, NaN) = NaN
  BY Zenon DEF FloatsBehave
<1>2. ASSUME NEW x \in Numbers, NEW y \in Numbers
      PROVE  /\ Plus(x, y) \in Numbers /\ Minus(x, y) \in Numbers
             /\ Times(x, y) \in Numbers /\ Quotient(x, y) \in Numbers /\ Remainder(x, y) \in Numbers
  <2>1. {Plus(x, y), Minus(x, y), Times(x, y), Quotient(x, y), Remainder(x, y)} \subseteq Numbers
    BY <1>1
  <2> QED
    BY <2>1
<1> QED
  BY <1>1, <1>2

(* The fold of numbers is a number.                                         *)
LEMMA FoldIsNumber ==
  ASSUME FloatsBehave, NEW kind, NEW base \in Numbers, NEW s \in Seq(Numbers)
  PROVE  Fold(kind, base, s)[DOMAIN s] \in Numbers
<1> DEFINE n == Len(s)
           g == Fold(kind, base, s)
           Good == {k \in Nat : k <= n => \A t \in SUBSET (1 .. k) : g[t] \in Numbers}
<1>1. DOMAIN s = 1 .. n /\ n \in Nat /\ \A i \in 1 .. n : s[i] \in Numbers
  OBVIOUS
<1> HIDE DEF n, g
<1>2. \A t \in SUBSET (1 .. n) : g[t] = FoldedAt(kind, g, base, s, t)
  BY <1>1, FoldExists DEF g
<1>3. \A x, acc \in Numbers : Accumulated(kind, x, acc) \in Numbers
  <2>1. \A k \in {2, Length - 1, Length, Length + 1} : Num(k) \in Numbers
    BY InterpreterAssumption
  <2>2. \A x, y \in Numbers : Plus(x, y) \in Numbers /\ Times(x, y) \in Numbers /\ Quotient(x, y) \in Numbers
    BY Calculation
  <2> QED
    BY <2>1, <2>2 DEF Accumulated
<1>4. 0 \in Good
  <2>1. SUBSET (1 .. 0) = {{}} /\ {} \in SUBSET (1 .. n)
    OBVIOUS
  <2> QED
    BY <1>2, <2>1 DEF FoldedAt
<1>5. ASSUME NEW k \in Nat, k \in Good PROVE k + 1 \in Good
  <2> SUFFICES ASSUME k + 1 <= n, NEW t \in SUBSET (1 .. k + 1) PROVE g[t] \in Numbers
    OBVIOUS
  <2>1. k <= n /\ t \in SUBSET (1 .. n)
    BY <1>1
  <2> SUFFICES ASSUME t # {} PROVE g[t] \in Numbers
    BY <1>2, <2>1 DEF FoldedAt
  <2>2. Max(t) \in 1 .. n /\ t \ {Max(t)} \in SUBSET (1 .. k)
    <3>1. Max(t) \in 1 .. k + 1 /\ t \ {Max(t)} \in SUBSET (1 .. k)
      BY WithoutLast
    <3> HIDE DEF Good
    <3> QED
      BY <1>1, <3>1
  <2>3. g[t \ {Max(t)}] \in Numbers /\ s[Max(t)] \in Numbers
    BY <1>1, <1>5, <2>1, <2>2
  <2> QED
    BY <1>2, <1>3, <2>1, <2>3 DEF FoldedAt
<1> HIDE DEF Good
<1>6. n \in Good
  BY <1>1, <1>4, <1>5, AllNumbers
<1>7. g[1 .. n] \in Numbers
  BY <1>1, <1>6 DEF Good
<1> QED
  BY <1>1, <1>7 DEF g

(* So every value of the frame is a number.                                 *)
LEMMA FrameOfNumbers ==
  ASSUME FloatsBehave, NEW p \in Payloads, NEW w \in Seq(Bars)
  PROVE  \A c \in OHLCV_COLUMNS \cup p.indicators : \A i \in 1 .. Len(w) : Prepare(p, w)[c][i] \in Numbers
<1>1. /\ DOMAIN w = 1 .. Len(w) /\ Len(w) \in Nat /\ Length \in Nat \ {0}
      /\ p.indicators \subseteq {"sma", "ema"}
      /\ NaN \in Numbers /\ Zero \in Numbers /\ Num(Length) \in Numbers
  BY InterpreterAssumption, Calculation
<1>2. \A i \in 1 .. Len(w) : w[i].close \in Numbers /\ w[i].low \in Numbers
  <2>1. \A i \in 1 .. Len(w) : w[i] \in Bars
    OBVIOUS
  <2> QED
    BY <2>1 DEF Bars
<1>3. ASSUME NEW a \in 1 .. Len(w), NEW b \in 1 .. Len(w), a <= b
      PROVE  Closes(w, a, b) \in Seq(Numbers)
  <2>1. PartIn(Close(w), a, b, Numbers)
    BY <1>1, <1>2 DEF PartIn, Close
  <2> QED
    BY <1>3, <2>1, PartOfSequence DEF Closes
<1>4. \A s \in Seq(Numbers) : Mean(s) \in Numbers
  <2> TAKE s \in Seq(Numbers)
  <2>1. Fold("sum", Zero, s)[DOMAIN s] \in Numbers
    BY <1>1, FoldIsNumber
  <2>2. Mean(s) = Quotient(Fold("sum", Zero, s)[DOMAIN s], Num(Length))
    BY FoldsUnfolded
  <2> QED
    <3>1. \A x, y \in Numbers : Quotient(x, y) \in Numbers
      BY Calculation
    <3>2. Num(Length) \in Numbers
      BY <1>1
    <3>3. Quotient(Fold("sum", Zero, s)[DOMAIN s], Num(Length)) \in Numbers
      BY <2>1, <3>1, <3>2
    <3> QED
      BY <2>2, <3>3
<1>5. ASSUME NEW i \in 1 .. Len(w) PROVE Sma(w)[i] \in Numbers
  <2>1. Sma(w)[i] = IF i < Length THEN NaN ELSE Mean(Closes(w, i - Length + 1, i))
    BY <1>1 DEF Sma, Closes
  <2>2. CASE i < Length
    BY <1>1, <2>1, <2>2
  <2>3. CASE ~(i < Length)
    <3> DEFINE a == i - Length + 1
    <3>1. a \in 1 .. Len(w) /\ a <= i
      BY <1>1, <2>3
    <3> HIDE DEF a
    <3>2. Mean(Closes(w, a, i)) \in Numbers
      BY <1>3, <1>4, <3>1
    <3> QED
      BY <2>1, <2>3, <3>2 DEF a
  <2> QED
    BY <2>2, <2>3
<1>6. ASSUME NEW i \in 1 .. Len(w) PROVE Ema(w)[i] \in Numbers
  <2> DEFINE a == Length + 1
  <2>1. Ema(w)[i] = IF i <= Length THEN Sma(w)[i] ELSE Smoothed(Sma(w)[Length], Closes(w, a, i))
    BY <1>1 DEF Ema, Closes
  <2>2. CASE i <= Length
    <3> HIDE DEF a
    <3> QED
      BY <1>5, <2>1, <2>2
  <2>3. CASE ~(i <= Length)
    <3>1. a \in 1 .. Len(w) /\ a <= i /\ Length \in 1 .. Len(w)
      BY <1>1, <2>3
    <3> HIDE DEF a
    <3>2. Sma(w)[Length] \in Numbers /\ Closes(w, a, i) \in Seq(Numbers)
      BY <1>3, <1>5, <3>1
    <3>3. Smoothed(Sma(w)[Length], Closes(w, a, i)) \in Numbers
      BY <3>2, FoldsUnfolded, FoldIsNumber
    <3> QED
      BY <2>1, <2>3, <3>3
  <2> QED
    BY <2>2, <2>3
<1> SUFFICES ASSUME NEW c \in OHLCV_COLUMNS \cup p.indicators, NEW i \in 1 .. Len(w)
             PROVE  Prepare(p, w)[c][i] \in Numbers
  OBVIOUS
<1>7. c \in {"close", "low", "sma", "ema"}
  BY <1>1 DEF OHLCV_COLUMNS
<1>8. Prepare(p, w)[c] = CASE c = "close" -> Close(w)
                           [] c = "low"   -> [j \in DOMAIN w |-> w[j].low]
                           [] c = "sma"   -> Sma(w)
                           [] c = "ema"   -> Ema(w)
  BY DEF Prepare
<1>9. CASE c = "close"
  BY <1>1, <1>2, <1>8, <1>9 DEF Close
<1>10. CASE c = "low"
  BY <1>1, <1>2, <1>8, <1>10
<1>11. CASE c \in {"sma", "ema"}
  BY <1>5, <1>6, <1>8, <1>11
<1> QED
  BY <1>7, <1>9, <1>10, <1>11

-----------------------------------------------------------------------------
(* Scalars and columns.                                                    *)

(* The extrema of defined numbers are the same either way.                  *)
LEMMA ExtremaAgree ==
  ASSUME FloatsBehave, NEW x \in Numbers, NEW y \in Numbers, x # NaN, y # NaN
  PROVE  /\ PythonMin(x, y) = IF Compared("<=", x, y) THEN x ELSE y
         /\ PythonMin(x, y) = IF Compared("<=", y, x) THEN y ELSE x
         /\ PythonMax(x, y) = IF Compared(">=", x, y) THEN x ELSE y
         /\ PythonMax(x, y) = IF Compared(">=", y, x) THEN y ELSE x
<1>1. /\ Below(x, y) => ~Below(y, x)
      /\ x # y <=> Below(x, y) \/ Below(y, x)
  BY Calculation
<1>2. /\ \A u, v : Compared("<=", u, v) = (Less(u, v) \/ Equal(u, v))
      /\ \A u, v : Compared(">=", u, v) = (Less(v, u) \/ Equal(u, v))
  BY DEF Compared
<1> QED
  BY <1>1, <1>2 DEF PythonMin, PythonMax, Less, Equal, IsNaN

(* So is what is calculated: dividing by NaN comes to not dividing.        *)
LEMMA CalculationsAgree ==
  ASSUME FloatsBehave, NEW x \in Numbers, NEW y \in Numbers, NEW e, e.op \in Arithmetic
  PROVE  CalculatedRow(e, x, y) = Calculated(e.op, x, y)
<1>1. Quotient(x, NaN) = NaN /\ Remainder(x, NaN) = NaN
  BY Calculation
<1>2. SafeDivColumns(x, y) = SafeDiv(x, y) /\ SafeModColumns(x, y) = SafeMod(x, y)
  BY <1>1 DEF SafeDivColumns, SafeModColumns, Divisor, SafeDiv, SafeMod, IsNaN
<1> QED
  BY <1>2 DEF CalculatedRow, CalculatedColumns, Calculated, Arithmetic

(* The context of row k, and arguments' values in it.                       *)
RowContext(ctx, df, names, k) ==
  ctx = [c \in names |-> df[c][k]] /\ \A c \in names : df[c][k] \in Numbers
RowOperands(e, v, cols, N, k) ==
  /\ \A i \in DOMAIN e.args : DOMAIN cols[i] = 1 .. N /\ v[i] = cols[i][k]
  /\ e.op \in Arithmetic => \A i \in DOMAIN e.args : v[i] \in Numbers
  /\ e.op \in {"min", "max"} => \A i \in DOMAIN e.args : v[i] \in Numbers /\ v[i] # NaN

(* One step over the scalars of a row gives what it gives over the columns  *)
(* in that row.                                                            *)
LEMMA StepAgrees ==
  ASSUME FloatsBehave,
         NEW names, NEW N \in Nat, NEW df, Frame(df, names, N), NEW k \in 1 .. N,
         NEW e \in Expressions, ValidNode(e, names), e.op \notin Crossings,
         NEW ctx, RowContext(ctx, df, names, k),
         NEW v, NEW cols, RowOperands(e, v, cols, N, k)
  PROVE  ValueOf(e, v, ctx) = ColumnOf(e, cols, df)[k]
<1>1. Rows(df) = 1 .. N
  BY DEF Rows, Frame
<1>2. CASE e.op = "name" /\ e.name \in names
  <2>1. ctx[e.name] = df[e.name][k]
    BY <1>2 DEF RowContext
  <2> QED
    BY <1>2, <2>1 DEF ColumnOf, ValueOf, Arithmetic, Comparisons, Crossings
<1>3. CASE e.op = "const"
  BY <1>1, <1>3 DEF ColumnOf, ValueOf, Arithmetic, Comparisons, Crossings
<1>4. CASE e.op \in {"not", "neg", "abs"} /\ 1 \in DOMAIN e.args
  <2>1. v[1] = cols[1][k]
    BY <1>4 DEF RowOperands
  <2> QED
    BY <1>1, <1>4, <2>1 DEF ColumnOf, ValueOf, LogicalNot, Arithmetic, Comparisons, Crossings
<1>5. CASE /\ e.op \in {"and", "or", "crossover", "crossunder", "min", "max"} \cup Arithmetic \cup Comparisons
           /\ 1 \in DOMAIN e.args /\ 2 \in DOMAIN e.args
  <2>1. DOMAIN cols[1] = 1 .. N /\ DOMAIN cols[2] = 1 .. N /\ v[1] = cols[1][k] /\ v[2] = cols[2][k]
    BY <1>5 DEF RowOperands
  <2>2. CASE e.op \in {"and", "or"}
    BY <1>1, <2>1, <2>2 DEF ColumnOf, ValueOf, Arithmetic, Comparisons, Crossings
  <2>3. CASE e.op = "min"
    <3>1. ColumnOf(e, cols, df) = Extremum("<=", e, cols[1], cols[2]) /\ ValueOf(e, v, ctx) = PythonMin(v[1], v[2])
      BY <2>3 DEF ColumnOf, ValueOf, Arithmetic, Comparisons, Crossings
    <3>2. /\ PythonMin(v[1], v[2]) = IF Compared("<=", v[1], v[2]) THEN v[1] ELSE v[2]
          /\ PythonMin(v[1], v[2]) = IF Compared("<=", v[2], v[1]) THEN v[2] ELSE v[1]
      BY <1>5, <2>3, ExtremaAgree DEF RowOperands
    <3> QED
      BY <2>1, <3>1, <3>2 DEF Extremum, Where
  <2>4. CASE e.op = "max"
    <3>1. ColumnOf(e, cols, df) = Extremum(">=", e, cols[1], cols[2]) /\ ValueOf(e, v, ctx) = PythonMax(v[1], v[2])
      BY <2>4 DEF ColumnOf, ValueOf, Arithmetic, Comparisons, Crossings
    <3>2. /\ PythonMax(v[1], v[2]) = IF Compared(">=", v[1], v[2]) THEN v[1] ELSE v[2]
          /\ PythonMax(v[1], v[2]) = IF Compared(">=", v[2], v[1]) THEN v[2] ELSE v[1]
      BY <1>5, <2>4, ExtremaAgree DEF RowOperands
    <3> QED
      BY <2>1, <3>1, <3>2 DEF Extremum, Where
  <2>5. CASE e.op \in Arithmetic
    <3>1. /\ ColumnOf(e, cols, df) = [i \in 1 .. N |-> CalculatedRow(e, cols[1][i], cols[2][i])]
          /\ ValueOf(e, v, ctx) = Calculated(e.op, v[1], v[2])
      BY <1>1, <2>5 DEF ColumnOf, ValueOf, Arithmetic, Comparisons, Crossings
    <3>2. v[1] \in Numbers /\ v[2] \in Numbers
      BY <1>5, <2>5 DEF RowOperands
    <3>3. CalculatedRow(e, v[1], v[2]) = Calculated(e.op, v[1], v[2])
      BY <2>5, <3>2, CalculationsAgree
    <3> QED
      BY <2>1, <3>1, <3>3
  <2>6. CASE e.op \in Comparisons
    <3>1. /\ ColumnOf(e, cols, df) = [i \in 1 .. N |-> Compared(e.op, cols[1][i], cols[2][i])]
          /\ ValueOf(e, v, ctx) = Compared(e.op, v[1], v[2])
      BY <1>1, <2>6 DEF ColumnOf, ValueOf, Arithmetic, Comparisons, Crossings
    <3> QED
      BY <2>1, <3>1
  <2> QED
    BY <1>5, <2>2, <2>3, <2>4, <2>5, <2>6 DEF Crossings
<1> QED
  BY <1>2, <1>3, <1>4, <1>5, Operators

(* A number's value is a number.                                            *)
LEMMA StepIsNumber ==
  ASSUME FloatsBehave,
         NEW names, NEW e \in Expressions, ValidNode(e, names), ~IsCondition(e),
         NEW ctx, e.op = "name" => ctx[e.name] \in Numbers,
         NEW v, \A i \in DOMAIN e.args : v[i] \in Numbers
  PROVE  ValueOf(e, v, ctx) \in Numbers
<1>1. e.op \notin Logical /\ e.op \notin Crossings /\ e.op \notin Comparisons
  BY DEF IsCondition
<1>2. CASE e.op = "name"
  BY <1>2 DEF ValueOf, Arithmetic, Comparisons, Crossings
<1>3. CASE e.op = "const"
  BY <1>3, ExpressionsAssumption DEF ValueOf, Arithmetic, Comparisons, Crossings
<1>4. CASE e.op \in {"neg", "abs"} /\ 1 \in DOMAIN e.args
  <2>1. v[1] \in Numbers /\ Negative(v[1]) \in Numbers /\ Abs(v[1]) \in Numbers
    BY <1>4, Calculation
  <2> QED
    BY <1>4, <2>1 DEF ValueOf, Arithmetic, Comparisons, Crossings
<1>5. CASE e.op \in {"min", "max"} \cup Arithmetic /\ 1 \in DOMAIN e.args /\ 2 \in DOMAIN e.args
  <2>1. v[1] \in Numbers /\ v[2] \in Numbers
    BY <1>5
  <2>2. /\ NaN \in Numbers
        /\ Plus(v[1], v[2]) \in Numbers /\ Minus(v[1], v[2]) \in Numbers
        /\ Times(v[1], v[2]) \in Numbers /\ Quotient(v[1], v[2]) \in Numbers
        /\ Remainder(v[1], v[2]) \in Numbers
    BY <2>1, Calculation
  <2>3. CASE e.op \in {"min", "max"}
    BY <2>1, <2>3 DEF ValueOf, PythonMin, PythonMax, Arithmetic, Comparisons, Crossings
  <2>4. CASE e.op \in Arithmetic
    <3>1. ValueOf(e, v, ctx) = Calculated(e.op, v[1], v[2])
      BY <2>4 DEF ValueOf, Arithmetic, Comparisons, Crossings
    <3>2. SafeDiv(v[1], v[2]) \in Numbers /\ SafeMod(v[1], v[2]) \in Numbers
      BY <2>2 DEF SafeDiv, SafeMod
    <3>3. Calculated(e.op, v[1], v[2]) \in Numbers
      BY <2>2, <2>4, <3>2 DEF Calculated, Arithmetic
    <3> QED
      BY <3>1, <3>3
  <2> QED
    BY <1>5, <2>3, <2>4
<1> QED
  BY <1>1, <1>2, <1>3, <1>4, <1>5, Operators DEF Logical, Crossings

(* The scalars of a row give what the columns give in it.                   *)
LEMMA ScalarIsColumn ==
  ASSUME FloatsBehave,
         NEW names, NEW N \in Nat, NEW df, Frame(df, names, N), NEW k \in 1 .. N,
         NEW ctx, RowContext(ctx, df, names, k)
  PROVE  \A e \in Expressions :
           ValidExpression(e, names) /\ ~Uses(e, Crossings) /\ ExtremaDefined(e, ctx)
             => ScalarOf(e, ctx) = SeriesOf(e, df)[k]
<1> DEFINE Fine(e) == ValidExpression(e, names) /\ ~Uses(e, Crossings) /\ ExtremaDefined(e, ctx)
           S == {e \in Expressions :
                   Fine(e) => /\ ScalarOf(e, ctx) = SeriesOf(e, df)[k]
                              /\ ~IsCondition(e) => ScalarOf(e, ctx) \in Numbers}
<1>1. ASSUME NEW e \in Expressions, \A i \in DOMAIN e.args : e.args[i] \in S
      PROVE  e \in S
  <2> SUFFICES ASSUME Fine(e)
               PROVE  /\ ScalarOf(e, ctx) = SeriesOf(e, df)[k]
                      /\ ~IsCondition(e) => ScalarOf(e, ctx) \in Numbers
    OBVIOUS
  <2> DEFINE v == [i \in DOMAIN e.args |-> ScalarOf(e.args[i], ctx)]
             cols == [i \in DOMAIN e.args |-> SeriesOf(e.args[i], df)]
  <2>1. ASSUME NEW i \in DOMAIN e.args
        PROVE  /\ e.args[i] \in Expressions /\ Fine(e.args[i])
               /\ IsCondition(e.args[i]) <=> e.op \in Logical
    <3>1. Nodes(e.args[i]) \subseteq Nodes(e)
      BY NodesOfArguments
    <3>2. ~Uses(e.args[i], Crossings)
      BY <3>1 DEF Uses
    <3>3. ExtremaDefined(e.args[i], ctx)
      BY <3>1 DEF ExtremaDefined
    <3> QED
      BY <3>2, <3>3, ValidArguments, Arguments
  <2>2. ASSUME NEW i \in DOMAIN e.args
        PROVE  /\ DOMAIN cols[i] = 1 .. N /\ v[i] = cols[i][k]
               /\ e.op \notin Logical => v[i] \in Numbers
    <3>1. DOMAIN SeriesOf(e.args[i], df) = 1 .. N
      BY <2>1, SeriesHasRows
    <3>2. e.args[i] \in S /\ Fine(e.args[i])
      BY <1>1, <2>1
    <3> HIDE DEF Fine
    <3>3. /\ ScalarOf(e.args[i], ctx) = SeriesOf(e.args[i], df)[k]
          /\ ~IsCondition(e.args[i]) => ScalarOf(e.args[i], ctx) \in Numbers
      BY <3>2
    <3> QED
      BY <2>1, <3>1, <3>3
  <2>3. ScalarOf(e, ctx) = ValueOf(e, v, ctx) /\ SeriesOf(e, df) = ColumnOf(e, cols, df)
    BY SeriesUnfolds, ScalarUnfolds
  <2>4. ValidNode(e, names) /\ e.op \notin Crossings
    BY ValidArguments, NodesOfArguments DEF Uses
  <2>5. e.op = "name" => ctx[e.name] = df[e.name][k] /\ ctx[e.name] \in Numbers
    <3> HAVE e.op = "name"
    <3>1. e.name \in names
      BY NamesOfArguments, NamesAllowed
    <3> QED
      BY <3>1 DEF RowContext
  <2>6. e.op \in {"min", "max"} => \A i \in DOMAIN e.args : v[i] \in Numbers /\ v[i] # NaN
    <3> HAVE e.op \in {"min", "max"}
    <3>1. \A i \in DOMAIN e.args : ScalarOf(e.args[i], ctx) # NaN
      BY NodesOfArguments DEF ExtremaDefined, IsNaN
    <3>2. \A i \in DOMAIN e.args : v[i] = ScalarOf(e.args[i], ctx)
      OBVIOUS
    <3>3. e.op \notin Logical
      BY DEF Logical
    <3> QED
      BY <2>2, <3>1, <3>2, <3>3
  <2> HIDE DEF v, cols, Fine
  <2>7. RowOperands(e, v, cols, N, k)
    BY <2>2, <2>6 DEF RowOperands, Arithmetic, Logical
  <2>8. ValueOf(e, v, ctx) = ColumnOf(e, cols, df)[k]
    BY <2>4, <2>7, StepAgrees
  <2>9. ~IsCondition(e) => ValueOf(e, v, ctx) \in Numbers
    <3> HAVE ~IsCondition(e)
    <3>1. \A i \in DOMAIN e.args : v[i] \in Numbers
      BY <2>2 DEF IsCondition
    <3> QED
      BY <2>4, <2>5, <3>1, StepIsNumber
  <2> QED
    BY <2>3, <2>8, <2>9
<1> HIDE DEF S
<1>2. Expressions \subseteq S
  BY <1>1, TreesAreWellFounded
<1> QED
  BY <1>2 DEF S

(* evaluator.py:34-43: for a rule without crossings, evaluating the scalars *)
(* of a bar gives what evaluating the columns gives in its row, through the *)
(* branches of either mode for not, division and remainder; where the       *)
(* operands of min and max are defined, since over undefined ones the modes *)
(* differ; whatever the numbers are, as long as they are ordered and NaN    *)
(* spreads through a division.                                             *)
THEOREM ScalarModeIsSeriesMode == ASSUME FloatsBehave PROVE Spec => []ScalarIsSeries
<1>1. ASSUME Accepted PROVE ScalarIsSeries
  <2> DEFINE df == Prepare(spec, bars)
             names == OHLCV_COLUMNS \cup spec.indicators
  <2> SUFFICES ASSUME IsRule(spec), ~Uses(spec.rule, Crossings), NEW i \in DOMAIN bars,
                      NEW ctx, ctx = [c \in DOMAIN df |-> df[c][i]], ExtremaDefined(spec.rule, ctx)
               PROVE  ScalarOf(spec.rule, ctx) = SeriesOf(spec.rule, df)[i]
    BY DEF ScalarIsSeries
  <2>1. spec \in Payloads /\ ValidSpec(spec) /\ bars \in Seq(Bars) /\ spec.type = "rule"
    BY <1>1 DEF Accepted, IsRule
  <2>2. spec.rule \in Expressions /\ ValidExpression(spec.rule, names)
    BY <2>1, InterpreterAssumption DEF ValidSpec
  <2>3. Frame(df, names, Len(bars)) /\ Len(bars) \in Nat /\ i \in 1 .. Len(bars)
    BY <2>1, FrameOfWindow
  <2>4. \A c \in names : df[c][i] \in Numbers
    BY <2>1, <2>3, FrameOfNumbers
  <2>5. RowContext(ctx, df, names, i)
    BY <2>3, <2>4 DEF Frame, RowContext
  <2> HIDE DEF df, names
  <2>6. \A e \in Expressions :
          ValidExpression(e, names) /\ ~Uses(e, Crossings) /\ ExtremaDefined(e, ctx)
            => ScalarOf(e, ctx) = SeriesOf(e, df)[i]
    BY <2>3, <2>5, ScalarIsColumn
  <2> QED
    BY <2>2, <2>6
<1> QED
  BY <1>1, AcceptedInvariant, PTL

-----------------------------------------------------------------------------
(* The folds of a walk-forward optimization.  The products with the length  *)
(* of a segment are what an arithmetic solver needs help with.              *)

(* A segment for every fold fits into the bars.                             *)
LEMMA Segment ==
  ASSUME NEW n \in Nat, NEW folds \in Nat \ {0}
  PROVE  n \div folds \in Nat /\ (n \div folds) * folds <= n
OBVIOUS

(* Enough bars for two per fold make segments of at least two bars.         *)
LEMMA LongSegment ==
  ASSUME NEW n \in Nat, NEW folds \in Nat \ {0}, folds * 2 <= n
  PROVE  n \div folds >= 2
OBVIOUS

(* Products with the length of a segment.                                   *)
LEMMA Product ==
  ASSUME NEW s \in Nat, NEW k \in Nat, NEW m \in Nat
  PROVE  /\ s * k \in Nat /\ s * (k + 1) = s * k + s
         /\ k <= m => s * k <= s * m
         /\ k >= 1 => s * k >= s
OBVIOUS

(* With two bars per fold, no fold is left out.                             *)
LEMMA AllKept ==
  ASSUME NEW n \in Nat, NEW folds \in Nat \ {0}, folds * 2 <= n
  PROVE  Kept(n, folds) = 1 .. folds - 1
<1> DEFINE s == n \div folds
<1>1. s \in Nat /\ s * folds <= n /\ s >= 2
  BY Segment, LongSegment
<1> HIDE DEF s
<1>2. ASSUME NEW k \in 1 .. folds - 1
      PROVE  TrainEnd(n, folds, k) >= 2 /\ Size(TestWindow(n, folds, k)) >= 2
  <2>1. /\ k \in Nat /\ k + 1 <= folds /\ s * k \in Nat
        /\ s * (k + 1) = s * k + s /\ s * (k + 1) <= s * folds /\ s * k >= s
    BY <1>1, Product
  <2> QED
    BY <1>1, <2>1 DEF TrainEnd, TestWindow, Size, s
<1>3. ~(n < folds * 2)
  OBVIOUS
<1> QED
  BY <1>2, <1>3 DEF Kept

(* However many bars and folds there are: a fold is scored on the bars that *)
(* follow those it was trained on, the windows follow upon each other and   *)
(* the last one ends with the last bar, and none is shorter than two bars   *)
(* (_walk_forward, and optimize.py:8-12).                                   *)
THEOREM FoldsAreSeparate ==
  ASSUME NEW n \in Nat, NEW folds \in Nat \ {0}
  PROVE  Separate(n, folds)
<1> SUFFICES ASSUME NEW k \in DOMAIN Folds(n, folds)
             PROVE  LET F == Folds(n, folds)
                    IN /\ F[k].test[1] = F[k].train + 1
                       /\ F[k].train >= 2 /\ F[k].test[1] + 1 <= F[k].test[2]
                       /\ IF k + 1 \in DOMAIN F THEN F[k + 1].test[1] = F[k].test[2] + 1
                          ELSE F[k].test[2] = n
  BY DEF Separate
<1> DEFINE s == n \div folds
           F == Folds(n, folds)
<1>1. folds * 2 <= n /\ DOMAIN F = Kept(n, folds)
  BY DEF Folds, Kept
<1>2. DOMAIN F = 1 .. folds - 1 /\ k \in 1 .. folds - 1
  BY <1>1, AllKept
<1>3. s \in Nat /\ s * k \in Nat /\ s * (k + 1) \in Nat
  BY <1>2, Segment, Product
<1>4. /\ F[k].train = s * k
      /\ F[k].test[1] = s * k + 1
      /\ F[k].test[2] = IF k < folds - 1 THEN s * (k + 1) ELSE n
      /\ k + 1 \in DOMAIN F => F[k + 1].test[1] = s * (k + 1) + 1
  BY <1>1, <1>2 DEF Folds, TrainEnd, TestWindow
<1>5. TrainEnd(n, folds, k) >= 2 /\ Size(TestWindow(n, folds, k)) >= 2
  BY <1>1 DEF Kept
<1>6. F[k].train >= 2 /\ F[k].test[2] - F[k].test[1] + 1 >= 2
  BY <1>1, <1>5 DEF Folds, Size
<1>7. F[k].test[2] \in Int
  BY <1>3, <1>4
<1> HIDE DEF F, s
<1>8. F[k].test[1] + 1 <= F[k].test[2]
  BY <1>3, <1>4, <1>6, <1>7
<1>9. IF k + 1 \in DOMAIN F THEN F[k + 1].test[1] = F[k].test[2] + 1
      ELSE F[k].test[2] = n
  BY <1>2, <1>4
<1> QED
  BY <1>4, <1>6, <1>8, <1>9 DEF F

(* optimize.py:8-12: however many bars have come, no fold is scored on bars *)
(* it was trained on.                                                      *)
THEOREM NoFoldLeaks == Spec => []FoldsDoNotLeak
<1>1. ASSUME Accepted PROVE FoldsDoNotLeak
  <2>1. Len(bars) \in Nat
    BY <1>1 DEF Accepted
  <2> QED
    BY <2>1, FoldsAreSeparate DEF FoldsDoNotLeak
<1> QED
  BY <1>1, AcceptedInvariant, PTL
=============================================================================
