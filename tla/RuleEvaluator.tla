--------------------------- MODULE RuleEvaluator ---------------------------
(***************************************************************************)
(* strategy/evaluator.py: the rule expressions of a strategy, in the two   *)
(* modes of evaluate_expression, over whole columns (backtest) and over    *)
(* the scalars of one bar.                                                 *)
(*                                                                         *)
(* An expression is a syntax tree, a record [op, args]; its leaves are the *)
(* name of a column and a number, which they have in a third field.        *)
(* Parsing is left out (a chain of comparisons is their conjunction, +x is *)
(* x), and so are expressions without a type, which Python would evaluate  *)
(* or not: a number is an operand of arithmetic, comparisons and calls, a  *)
(* comparison is one of and, or and not.                                   *)
(*                                                                         *)
(* The arithmetic of floats is not spelled out: what the evaluator relies  *)
(* on is in FloatsBehave, and equal numbers are the same (no operator *)
(* tells the two zeros apart, as it does not divide by them).              *)
(*                                                                         *)
(* A comment that begins with "Slip" introduces a variant of the definition*)
(* below it with a plausible mistake in it.                                *)
(***************************************************************************)
EXTENDS Integers, Sequences

CONSTANTS
  Numbers, NaN, Zero,
  Plus(_, _), Minus(_, _), Times(_, _), Quotient(_, _), Remainder(_, _),
  Negative(_), Abs(_),
  Below(_, _),   (* the order of numbers, of which NaN has no part          *)
  Expressions,   (* syntax trees                                            *)
  Depth          (* the height of each                                      *)

IsNaN(x) == x = NaN

(* _safe_div, _safe_mod of two scalars: a divisor that is zero or NaN gives *)
(* NaN, and nothing is divided, ...                                        *)
SafeDiv(x, y) == IF y = Zero \/ IsNaN(y) THEN NaN ELSE Quotient(x, y)
SafeMod(x, y) == IF y = Zero \/ IsNaN(y) THEN NaN ELSE Remainder(x, y)

(* ... and if one of them is a column: the zeros of the divisor are         *)
(* replaced by NaN, and every row is divided.                              *)
(* Slip: the zeros stay.                                                   *)
DivisorAsItIs(y) == y
Divisor(y) == IF y = Zero THEN NaN ELSE y
SafeDivColumns(x, y) == Quotient(x, Divisor(y))
SafeModColumns(x, y) == Remainder(x, Divisor(y))

(* _apply_compare, which has one branch for both modes: a comparison with   *)
(* NaN is false, except !=.                                                *)
Less(x, y)  == ~IsNaN(x) /\ ~IsNaN(y) /\ Below(x, y)
Equal(x, y) == ~IsNaN(x) /\ ~IsNaN(y) /\ x = y
Compared(op, x, y) == CASE op = "<"  -> Less(x, y)
                        [] op = "<=" -> Less(x, y) \/ Equal(x, y)
                        [] op = ">"  -> Less(y, x)
                        [] op = ">=" -> Less(y, x) \/ Equal(x, y)
                        [] op = "==" -> Equal(x, y)
                        [] op = "!=" -> ~Equal(x, y)

Arithmetic == {"+", "-", "*", "/", "%"}
Calculated(op, x, y) == CASE op = "+" -> Plus(x, y)  [] op = "-" -> Minus(x, y)
                          [] op = "*" -> Times(x, y) [] op = "/" -> SafeDiv(x, y)
                          [] op = "%" -> SafeMod(x, y)
CalculatedColumns(op, x, y) == CASE op = "/" -> SafeDivColumns(x, y)
                                 [] op = "%" -> SafeModColumns(x, y)
                                 [] OTHER    -> Calculated(op, x, y)

(* What a number is to the evaluator: whatever is calculated is one, what   *)
(* is divided by NaN is NaN, and of two that are defined and differ exactly *)
(* one is below the other.                                                 *)
FloatsBehave ==
  /\ NaN \in Numbers /\ Zero \in Numbers
  /\ \A x, y \in Numbers :
       /\ {Plus(x, y), Minus(x, y), Times(x, y), Quotient(x, y), Remainder(x, y)} \subseteq Numbers
       /\ Negative(x) \in Numbers /\ Abs(x) \in Numbers
       /\ Quotient(x, NaN) = NaN /\ Remainder(x, NaN) = NaN
       /\ Below(x, y) => ~Below(y, x)
       /\ x # NaN /\ y # NaN => (x # y <=> Below(x, y) \/ Below(y, x))

-----------------------------------------------------------------------------
(* Syntax trees.                                                           *)
Comparisons == {"<", "<=", ">", ">=", "==", "!="}
Logical == {"and", "or", "not"}
Crossings == {"crossover", "crossunder"}
Arity == [f \in Crossings \cup {"abs", "min", "max"} |-> IF f = "abs" THEN 1 ELSE 2]
ALLOWED_FUNCTIONS == DOMAIN Arity

(* What Python's grammar gives every operator; a call may have any number  *)
(* of arguments until it is validated.                                     *)
ArgsOf(op) == IF op \in {"name", "const"} THEN {0}
              ELSE IF op \in {"not", "neg"} THEN {1}
              ELSE IF op \in {"and", "or"} \cup Arithmetic \cup Comparisons THEN {2}
              ELSE Nat

IsCondition(e) == e.op \in Logical \cup Crossings \cup Comparisons

ASSUME ExpressionsAssumption ==
  \A e \in Expressions :
    /\ Depth[e] \in Nat
    /\ e.args \in Seq(Expressions) /\ Len(e.args) \in ArgsOf(e.op)
    /\ \A i \in DOMAIN e.args : /\ Depth[e.args[i]] < Depth[e]
                                /\ IsCondition(e.args[i]) = (e.op \in Logical)
    /\ e.op = "const" => e.number \in Numbers

(* The nodes of an expression, those a walk of its tree comes by.          *)
Nodes(e) ==
  LET nodes[x \in Expressions] == {x} \cup UNION {nodes[x.args[i]] : i \in DOMAIN x.args}
  IN nodes[e]

Names(e) == {x.name : x \in {y \in Nodes(e) : y.op = "name"}}
Uses(e, ops) == \E x \in Nodes(e) : x.op \in ops

(* _validate_node, _validate_call: whatever is not known to be allowed is  *)
(* rejected.                                                               *)
ValidCall(e) == e.op \in ALLOWED_FUNCTIONS /\ Len(e.args) = Arity[e.op]
ValidNode(e, names) ==
  \/ e.op = "const"
  \/ e.op = "name" /\ e.name \in names
  \/ e.op \in Logical \cup {"neg"} \cup Arithmetic \cup Comparisons
  \/ ValidCall(e)

ValidExpression(e, names) == \A x \in Nodes(e) : ValidNode(x, names)

-----------------------------------------------------------------------------
(* Series mode.  A frame maps column names to sequences of one length;     *)
(* a value that depends on no column is the same in every row.             *)
Rows(df) == DOMAIN df["close"]

(* _shift_prev: the row before, NaN in the first row.                      *)
(* Slip: the column is shifted the other way.                              *)
ShiftedBack(s) == [i \in DOMAIN s |-> IF i < Len(s) THEN s[i + 1] ELSE NaN]
ShiftPrev(s) == [i \in DOMAIN s |-> IF i > 1 THEN s[i - 1] ELSE NaN]

(* crossover(a, b); crossunder(a, b) is crossover(b, a), NaN included.     *)
Crossover(a, b) ==
  [i \in DOMAIN a |-> /\ Compared("<=", ShiftPrev(a)[i], ShiftPrev(b)[i])
                      /\ Less(b[i], a[i])]

(* _emin, _emax: a.where(cond(a, b), b), with the roles exchanged when     *)
(* only b is a column, and Python's min and max when neither is.           *)
Where(op, a, b) == [i \in DOMAIN a |-> IF Compared(op, a[i], b[i]) THEN a[i] ELSE b[i]]
PythonMin(x, y) == IF Less(y, x) THEN y ELSE x
PythonMax(x, y) == IF Less(x, y) THEN y ELSE x
Extremum(op, e, a, b) ==
  IF Names(e.args[1]) # {} THEN Where(op, a, b)
  ELSE IF Names(e.args[2]) # {} THEN Where(op, b, a)
  ELSE [i \in DOMAIN a |-> IF op = "<=" THEN PythonMin(a[i], b[i]) ELSE PythonMax(a[i], b[i])]

(* _is_series: a number is a column as soon as a name is in it.            *)
CalculatedRow(e, x, y) ==
  IF Names(e) # {} THEN CalculatedColumns(e.op, x, y) ELSE Calculated(e.op, x, y)

(* _eval_node over columns: an expression's column, from those of its      *)
(* arguments.                                                              *)
ColumnOf(e, cols, df) ==
  LET a == cols[1]
      b == cols[2]
  IN CASE e.op = "name"         -> df[e.name]
       [] e.op = "const"        -> [i \in Rows(df) |-> e.number]
       [] e.op = "not"          -> [i \in Rows(df) |-> ~a[i]]
       [] e.op = "neg"          -> [i \in Rows(df) |-> Negative(a[i])]
       [] e.op = "abs"          -> [i \in Rows(df) |-> Abs(a[i])]
       [] e.op = "and"          -> [i \in Rows(df) |-> a[i] /\ b[i]]
       [] e.op = "or"           -> [i \in Rows(df) |-> a[i] \/ b[i]]
       [] e.op \in Arithmetic   -> [i \in Rows(df) |-> CalculatedRow(e, a[i], b[i])]
       [] e.op \in Comparisons  -> [i \in Rows(df) |-> Compared(e.op, a[i], b[i])]
       [] e.op = "crossover"    -> Crossover(a, b)
       [] e.op = "crossunder"   -> Crossover(b, a)
       [] e.op = "min"          -> Extremum("<=", e, a, b)
       [] e.op = "max"          -> Extremum(">=", e, a, b)

SeriesOf(e, df) ==
  LET column[x \in Expressions] ==
        ColumnOf(x, [i \in DOMAIN x.args |-> column[x.args[i]]], df)
  IN column[e]

-----------------------------------------------------------------------------
(* Scalar mode: the context maps names to the values of one bar.  Without  *)
(* history the previous value is the current one, and nothing crosses.     *)
LogicalNot(p) == ~p

ValueOf(e, v, ctx) ==
  CASE e.op = "name"        -> ctx[e.name]
    [] e.op = "const"       -> e.number
    [] e.op = "not"         -> LogicalNot(v[1])
    [] e.op = "neg"         -> Negative(v[1])
    [] e.op = "abs"         -> Abs(v[1])
    [] e.op = "and"         -> v[1] /\ v[2]
    [] e.op = "or"          -> v[1] \/ v[2]
    [] e.op \in Arithmetic  -> Calculated(e.op, v[1], v[2])
    [] e.op \in Comparisons -> Compared(e.op, v[1], v[2])
    [] e.op \in Crossings   -> FALSE
    [] e.op = "min"         -> PythonMin(v[1], v[2])
    [] e.op = "max"         -> PythonMax(v[1], v[2])

ScalarOf(e, ctx) ==
  LET value[x \in Expressions] ==
        ValueOf(x, [i \in DOMAIN x.args |-> value[x.args[i]]], ctx)
  IN value[e]
=============================================================================
