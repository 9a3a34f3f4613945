--------------------------- MODULE MCInterpreter ---------------------------
(* Rules of up to three operators over two columns, two indicators and two *)
(* numbers; a grid of two levels; purchases at every second or third bar.  *)
(* Numbers are fractions in lowest terms; without a denominator they are    *)
(* NaN and the two infinities.                                             *)
EXTENDS Interpreter

NoNumber == <<0, 0>>
AbsInt(k) == IF k < 0 THEN -k ELSE k
RECURSIVE Gcd(_, _)
Gcd(n, d) == IF d = 0 THEN n ELSE Gcd(d, n % d)
Fraction(n, d) ==
  IF d = 0 THEN <<IF n < 0 THEN -1 ELSE IF n > 0 THEN 1 ELSE 0, 0>>
  ELSE LET k == Gcd(AbsInt(n), AbsInt(d)) * (IF d < 0 THEN -1 ELSE 1)
       IN <<(n \div AbsInt(k)) * (IF k < 0 THEN -1 ELSE 1), AbsInt(d) \div AbsInt(k)>>
Fractions == {x \in Int \X Nat : x = Fraction(x[1], x[2])}

MCNum(k) == <<k, 1>>
MCZero == MCNum(0)
MCPlus(x, y)  == Fraction(x[1] * y[2] + y[1] * x[2], x[2] * y[2])
MCMinus(x, y) == Fraction(x[1] * y[2] - y[1] * x[2], x[2] * y[2])
MCTimes(x, y) == Fraction(x[1] * y[1], x[2] * y[2])
MCQuotient(x, y) == IF x[2] = 0 THEN NoNumber ELSE Fraction(x[1] * y[2], x[2] * y[1])
MCRemainder(x, y) ==
  IF x[2] = 0 \/ y[1] = 0 THEN NoNumber
  ELSE LET q == MCQuotient(x, y) IN MCMinus(x, MCTimes(y, <<q[1] \div q[2], 1>>))
MCNegative(x) == <<-x[1], x[2]>>
MCAbs(x) == <<AbsInt(x[1]), x[2]>>
MCBelow(x, y) == x[1] * y[2] < y[1] * x[2]

Column(n) == [op |-> "name", args |-> << >>, name |-> n]
Const(k) == [op |-> "const", args |-> << >>, number |-> MCNum(k)]
Apply(op, args) == [op |-> op, args |-> args]

C == Column("close")
S == Column("sma")
E == Column("ema")

(* Quotients and remainders with divisors that are zero at some bars,      *)
(* extrema over defined and undefined operands, a column on either side.   *)
Terms ==
  {C, S, E, Const(2), Apply("+", <<C, S>>), Apply("abs", <<Apply("-", <<C, S>>)>>), Apply("*", <<S, C>>),
   Apply("neg", <<S>>),
   Apply("/", <<E, Apply("-", <<C, Const(1)>>)>>), Apply("%", <<C, Apply("-", <<S, C>>)>>),
   Apply("/", <<Const(2), Const(0)>>),
   Apply("min", <<C, S>>), Apply("min", <<S, C>>), Apply("max", <<C, E>>),
   Apply("max", <<Const(2), C>>), Apply("min", <<Const(1), Const(2)>>)}
Operands == {C, S, Const(1)}
Compares == {Apply(op, <<x, y>>) : op \in Comparisons, x \in Terms, y \in Operands}
Crosses == {Apply(op, <<x, y>>) : op \in Crossings, x \in Terms, y \in Operands}
Mixed == {Apply(op, <<Apply("not", <<x>>), y>>) : op \in {"and", "or"},
            x \in {Apply(op2, <<C, S>>) : op2 \in Comparisons},
            y \in {Apply("crossover", <<C, S>>), Apply("<", <<C, Const(2)>>)}}

(* Rejected: an unknown name, a wrong number of arguments, a call that is  *)
(* not a helper's.                                                         *)
Unsound == {Apply("<", <<C, Column("rsi")>>), Apply("<", <<Apply("min", <<C>>), S>>),
            Apply("<", <<Apply("open", <<C>>), S>>)}

Rules == Compares \cup Crosses \cup Mixed \cup {Apply("not", <<x>>) : x \in Compares} \cup Unsound

ArgsIn(T) == UNION {{x.args[i] : i \in DOMAIN x.args} : x \in T}
Subexpressions == UNION {ArgsIn(Rules), ArgsIn(ArgsIn(Rules)), ArgsIn(ArgsIn(ArgsIn(Rules)))}
Trees == Rules \cup Subexpressions
MCExpressions == Trees

RECURSIVE Height(_)
Height(x) == IF x.args = << >> THEN 0
             ELSE 1 + Max({Height(x.args[i]) : i \in DOMAIN x.args})
Heights == [x \in Trees |-> Height(x)]
MCDepth == Heights

RulePayloads ==
  {[type |-> "rule", indicators |-> {"sma", "ema"}, rule |-> r, levels |-> None, interval |-> None] :
     r \in Rules}

MCPayloads ==
  RulePayloads
  \cup {[type |-> "grid", indicators |-> {}, rule |-> None, levels |-> {MCNum(1), MCNum(2)},
         interval |-> i] : i \in {None, 2}}
  \cup {[type |-> "dca", indicators |-> {}, rule |-> None, levels |-> None, interval |-> i] :
          i \in {None, 2, 3}}

Bar(close, low, step) == [close |-> MCNum(close), low |-> MCNum(low), step |-> step]
MCFeed ==
  [t \in {"rule", "grid", "dca"} |->
     CASE t = "rule" -> {Bar(p, p, 1) : p \in {1, 2, 4}}
       [] t = "grid" -> {Bar(3, p, 1) : p \in 0 .. 3}
       [] t = "dca"  -> {Bar(3, 3, n) : n \in {1, 2}}]
MCMaxBars == [t \in {"rule", "grid", "dca"} |-> CASE t = "rule" -> 4 [] t = "grid" -> 5 [] t = "dca" -> 11]
=============================================================================
