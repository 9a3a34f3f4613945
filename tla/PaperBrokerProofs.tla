-------------------------- MODULE PaperBrokerProofs --------------------------
(* Proofs about PaperBroker and StrategyRuntime, for any fees, slippage,    *)
(* sizing and bars.                                                        *)
(*                                                                         *)
(* First what the accounting needs of sums, then what each operation of an  *)
(* account keeps of its shape (..Keeps) and of its books (..Sound), and the *)
(* steps and the theorems.  The books are kept only where a fill comes to   *)
(* an integer (FillsAreIntegers); that a DCA account stays within its means *)
(* also wants fees and prices that are not absurd (FillsAreFair).           *)
(*                                                                         *)
(* Then that a strategy, once deployed, does what its backtest did, by a    *)
(* refinement: an account of the paper broker, seen as the backtest's       *)
(* state, takes the backtest's step at every bar and at the end.  The       *)
(* pending intents are what the last signal asks for (Agrees), and a        *)
(* position has a side that the rules enter (Sided).                        *)
EXTENDS StrategyRuntime, FiniteSetTheorems, TLAPS

-----------------------------------------------------------------------------
(* Sums over finite sets.                                                  *)

(* Of the subsets of a finite set, a smallest one: what the sums and the    *)
(* order below are shown with, in place of an induction.                    *)
LEMMA SmallestSubset ==
  ASSUME NEW S, IsFiniteSet(S), NEW T \in SUBSET (SUBSET S), T # {}
  PROVE  \E s \in T : \A t \in T : ~(t \subseteq s /\ t # s)
<1>1. T \subseteq FiniteSubsetsOf(S)
  BY FS_FiniteSubsetsOfFinite
<1>2. PICK s \in T : \A t \in T : ~(<<t, s>> \in StrictSubsetOrdering(S))
  BY <1>1, FS_StrictSubsetOrderingWellFounded, WFMin, Zenon
<1> QED
  BY <1>2 DEF StrictSubsetOrdering

(* The same for numbers.                                                    *)
LEMMA SmallestNumber ==
  ASSUME NEW T \in SUBSET Nat, T # {}
  PROVE  \E m \in T : \A k \in T : ~(k < m)
<1>1. PICK m \in T : \A k \in T : ~(<<k, m>> \in OpToRel(<, Nat))
  BY NatLessThanWellFounded, WFMin, Zenon
<1> QED
  BY <1>1 DEF OpToRel

Pick(s) == CHOOSE x \in s : TRUE
At(F, g, s) == g[s] = IF s = {} THEN 0 ELSE F[Pick(s)] + g[s \ {Pick(s)}]
Sums(F, S) ==
  CHOOSE g : g = [s \in SUBSET S |-> IF s = {} THEN 0 ELSE F[Pick(s)] + g[s \ {Pick(s)}]]

(* SumFunctionOnSet, unfolded to a recursive function on the subsets: the   *)
(* fold picks the terms by CHOOSE.                                          *)
LEMMA SumUnfolded ==
  ASSUME NEW F, NEW S
  PROVE  SumFunctionOnSet(F, S) = Sums(F, S)[S]
BY DEF SumFunctionOnSet, FoldFunctionOnSet, MapThenFoldSet, Sums, Pick

(* That function satisfies its equation, at every subset of a finite set.   *)
LEMMA SumsExist ==
  ASSUME NEW F, NEW S, IsFiniteSet(S)
  PROVE  \A s \in SUBSET S : At(F, Sums(F, S), s)
<1> DEFINE Low(n) == {s \in SUBSET S : Cardinality(s) <= n}
           Good == {n \in Nat : \E g : \A s \in Low(n) : At(F, g, s)}
<1>0. \A s \in SUBSET S : IsFiniteSet(s) /\ Cardinality(s) \in Nat /\ (Cardinality(s) = 0 <=> s = {})
  BY FS_Subset, FS_CardinalityType, FS_EmptySet
<1>1. 0 \in Good
  <2>1. \A s \in Low(0) : At(F, [t \in SUBSET S |-> 0], s)
    BY <1>0 DEF At
  <2> QED
    BY <2>1
<1>2. ASSUME NEW n \in Good PROVE n + 1 \in Good
  <2>1. PICK g : \A s \in Low(n) : At(F, g, s)
    OBVIOUS
  <2> DEFINE h == [s \in SUBSET S |-> IF Cardinality(s) <= n THEN g[s] ELSE F[Pick(s)] + g[s \ {Pick(s)}]]
  <2>2. ASSUME NEW s \in Low(n + 1) PROVE At(F, h, s)
    <3>1. CASE s = {}
      <4>1. s \in Low(n) /\ At(F, g, s) /\ s \in SUBSET S /\ Cardinality(s) <= n
        BY <3>1, <2>1, <1>0
      <4> QED
        BY <4>1, <3>1 DEF At
    <3>2. CASE s # {}
      <4>1. Pick(s) \in s
        BY <3>2 DEF Pick
      <4>2. s \ {Pick(s)} \in SUBSET S /\ Cardinality(s \ {Pick(s)}) = Cardinality(s) - 1
        BY <4>1, <1>0, FS_RemoveElement
      <4>3. h[s \ {Pick(s)}] = g[s \ {Pick(s)}]
        BY <4>2, <1>0
      <4>4. h[s] = F[Pick(s)] + g[s \ {Pick(s)}]
        <5>1. CASE Cardinality(s) <= n
          BY <5>1, <2>1, <3>2 DEF At
        <5>2. CASE ~(Cardinality(s) <= n)
          BY <5>2
        <5> QED
          BY <5>1, <5>2
      <4> QED
        BY <4>3, <4>4, <3>2 DEF At
    <3> QED
      BY <3>1, <3>2
  <2> HIDE DEF h
  <2> QED
    BY <2>2
<1>3. Cardinality(S) \in Good
  <2> SUFFICES ASSUME Nat \ Good # {} PROVE FALSE
    BY <1>0
  <2> HIDE DEF Good
  <2>1. PICK m \in Nat \ Good : \A k \in Nat \ Good : ~(k < m)
    BY SmallestNumber
  <2>2. m # 0 /\ m - 1 \in Nat /\ m - 1 \in Good
    BY <1>1, <2>1
  <2> QED
    BY <1>2, <2>2
<1>4. PICK g : \A s \in Low(Cardinality(S)) : At(F, g, s)
  BY <1>3
<1> DEFINE h == [s \in SUBSET S |-> g[s]]
           Eqn(f) == f = [s \in SUBSET S |-> IF s = {} THEN 0 ELSE F[Pick(s)] + f[s \ {Pick(s)}]]
<1>5. ASSUME NEW s \in SUBSET S
      PROVE  h[s] = IF s = {} THEN 0 ELSE F[Pick(s)] + h[s \ {Pick(s)}]
  <2>1. s \in Low(Cardinality(S))
    BY FS_Subset
  <2> QED
    BY <2>1, <1>4 DEF At
<1>6. Eqn(h)
  BY <1>5
<1>7. Eqn(Sums(F, S))
  <2> HIDE DEF Eqn, h
  <2>1. Sums(F, S) = CHOOSE f : Eqn(f)
    BY DEF Sums, Eqn
  <2> QED
    BY <1>6, <2>1
<1> QED
  BY <1>7 DEF At

(* The sum over a set depends on the terms of the set alone.                *)
LEMMA SumsAgree ==
  ASSUME NEW F, NEW G, NEW S, IsFiniteSet(S), NEW T \in SUBSET S, \A x \in T : F[x] = G[x]
  PROVE  Sums(F, S)[T] = Sums(G, T)[T]
<1> DEFINE f == Sums(F, S)
           g == Sums(G, T)
           Bad == {s \in SUBSET T : f[s] # g[s]}
<1>1. \A s \in SUBSET T : At(F, f, s) /\ At(G, g, s)
  BY SumsExist, FS_Subset
<1> HIDE DEF f, g
<1> SUFFICES ASSUME Bad # {} PROVE FALSE
  BY DEF f, g
<1>2. PICK s \in Bad : \A t \in Bad : ~(t \subseteq s /\ t # s)
  <2> HIDE DEF Bad
  <2>1. IsFiniteSet(T) /\ Bad \in SUBSET (SUBSET T)
    BY FS_Subset DEF Bad
  <2> QED
    BY <2>1, SmallestSubset
<1>3. s # {}
  BY <1>1 DEF At
<1>4. Pick(s) \in s
  BY <1>3 DEF Pick
<1>5. f[s \ {Pick(s)}] = g[s \ {Pick(s)}]
  BY <1>2, <1>4
<1> QED
  BY <1>1, <1>3, <1>4, <1>5 DEF At

(* Integers can be summed in any order. *)
LEMMA SumsRemove ==
  ASSUME NEW F, NEW S, IsFiniteSet(S), \A x \in S : F[x] \in Int
  PROVE  \A s \in SUBSET S : /\ Sums(F, S)[s] \in Int
                             /\ \A x \in s : Sums(F, S)[s] = F[x] + Sums(F, S)[s \ {x}]
<1> DEFINE f == Sums(F, S)
           Ok(s) == f[s] \in Int /\ \A x \in s : f[s] = F[x] + f[s \ {x}]
           Bad == {s \in SUBSET S : ~Ok(s)}
<1>1. \A s \in SUBSET S : At(F, f, s)
  BY SumsExist
<1> HIDE DEF f
<1> SUFFICES ASSUME Bad # {} PROVE FALSE
  BY DEF f
<1>2. PICK s \in Bad : \A t \in Bad : ~(t \subseteq s /\ t # s)
  <2> HIDE DEF Bad
  <2>1. Bad \in SUBSET (SUBSET S)
    BY DEF Bad
  <2> QED
    BY <2>1, SmallestSubset
<1>3. s # {}
  <2>1. {} \in SUBSET S /\ f[{}] = 0
    BY <1>1 DEF At
  <2>2. Ok({})
    BY <2>1
  <2> QED
    BY <2>2
<1> DEFINE c == Pick(s)
<1>4. c \in s /\ F[c] \in Int
  BY <1>3 DEF Pick
<1>5. f[s] = F[c] + f[s \ {c}]
  BY <1>1, <1>3 DEF At
<1> HIDE DEF c
<1>6. \A x \in s : Ok(s \ {x})
  BY <1>2
<1>7. f[s] \in Int
  BY <1>4, <1>5, <1>6
<1>8. ASSUME NEW x \in s, x # c PROVE f[s] = F[x] + f[s \ {x}]
  <2>1. f[s \ {c}] = F[x] + f[(s \ {c}) \ {x}]
    BY <1>4, <1>6, <1>8
  <2>2. f[s \ {x}] = F[c] + f[(s \ {x}) \ {c}]
    BY <1>4, <1>6, <1>8
  <2>3. (s \ {c}) \ {x} = (s \ {x}) \ {c}
    OBVIOUS
  <2>4. f[(s \ {x}) \ {c}] \in Int /\ F[x] \in Int
    BY <1>2, <1>4, <1>8
  <2> DEFINE a == f[s \ {c}]
             b == f[s \ {x}]
             d == f[(s \ {x}) \ {c}]
  <2>5. a = F[x] + d
    BY <2>1, <2>3
  <2> HIDE DEF Bad, Ok, a, b, d
  <2>6. f[s] = F[x] + b
    BY <1>4, <1>5, <2>2, <2>4, <2>5 DEF a, b, d
  <2> QED
    BY <2>6 DEF b
<1> QED
  BY <1>2, <1>5, <1>7, <1>8

(***************************************************************************)
LEMMA SumOfNone ==
  ASSUME NEW F
  PROVE  SumFunctionOnSet(F, {}) = 0
BY SumsExist, SumUnfolded, FS_EmptySet DEF At

(* Equal terms have equal sums.                                             *)
LEMMA SumSame ==
  ASSUME NEW F, NEW G, NEW S, IsFiniteSet(S), \A x \in S : F[x] = G[x]
  PROVE  SumFunctionOnSet(F, S) = SumFunctionOnSet(G, S)
BY SumsAgree, SumUnfolded

(* A sum is an integer, and any term may be split off: the order in which   *)
(* the fold picks them does not matter.                                     *)
LEMMA SumRemove ==
  ASSUME NEW F, NEW S, IsFiniteSet(S), \A x \in S : F[x] \in Int
  PROVE  /\ SumFunctionOnSet(F, S) \in Int
         /\ \A x \in S : SumFunctionOnSet(F, S) = F[x] + SumFunctionOnSet(F, S \ {x})
<1>1. \A T \in SUBSET S : Sums(F, S)[T] = Sums(F, T)[T]
  BY SumsAgree
<1>2. /\ Sums(F, S)[S] \in Int
      /\ \A x \in S : Sums(F, S)[S] = F[x] + Sums(F, S)[S \ {x}]
  <2>1. \A s \in SUBSET S : /\ Sums(F, S)[s] \in Int
                            /\ \A x \in s : Sums(F, S)[s] = F[x] + Sums(F, S)[s \ {x}]
    BY SumsRemove
  <2> QED
    BY <2>1
<1> QED
  BY <1>1, <1>2, SumUnfolded

(* One term more.                                                           *)
LEMMA SumAdd ==
  ASSUME NEW F, NEW S, IsFiniteSet(S), NEW x, x \notin S, F[x] \in Int, \A y \in S : F[y] \in Int
  PROVE  SumFunctionOnSet(F, S \cup {x}) = F[x] + SumFunctionOnSet(F, S)
<1>1. IsFiniteSet(S \cup {x}) /\ (S \cup {x}) \ {x} = S /\ x \in S \cup {x}
  BY FS_AddElement
<1>2. \A y \in S \cup {x} : F[y] \in Int
  OBVIOUS
<1> QED
  BY <1>1, <1>2, SumRemove

(* Sums of disjoint sets *)
LEMMA SumUnion ==
  ASSUME NEW F, NEW S, NEW T, IsFiniteSet(S), IsFiniteSet(T), S \cap T = {}, \A x \in S \cup T : F[x] \in Int
  PROVE  SumFunctionOnSet(F, S \cup T) = SumFunctionOnSet(F, S) + SumFunctionOnSet(F, T)
<1> DEFINE Bad == {t \in SUBSET T : SumFunctionOnSet(F, S \cup t) # SumFunctionOnSet(F, S) + SumFunctionOnSet(F, t)}
<1> SUFFICES ASSUME Bad # {} PROVE FALSE
  OBVIOUS
<1>1. PICK s \in Bad : \A t \in Bad : ~(t \subseteq s /\ t # s)
  <2>1. Bad \in SUBSET (SUBSET T)
    OBVIOUS
  <2> HIDE DEF Bad
  <2> QED
    BY <2>1, SmallestSubset
<1>2. SumFunctionOnSet(F, S) \in Int
  BY SumRemove
<1>3. s # {}
  <2>1. SumFunctionOnSet(F, S \cup {}) = SumFunctionOnSet(F, S) + SumFunctionOnSet(F, {})
    BY <1>2, SumOfNone
  <2> QED
    BY <2>1
<1>4. PICK x \in s : TRUE
  BY <1>3
<1>5. s \in SUBSET T /\ s \ {x} \notin Bad
  BY <1>1, <1>4
<1>6. SumFunctionOnSet(F, S \cup (s \ {x})) = SumFunctionOnSet(F, S) + SumFunctionOnSet(F, s \ {x})
  BY <1>5
<1>7. SumFunctionOnSet(F, s) = F[x] + SumFunctionOnSet(F, s \ {x}) /\ SumFunctionOnSet(F, s \ {x}) \in Int /\ F[x] \in Int
  <2>1. IsFiniteSet(s) /\ IsFiniteSet(s \ {x}) /\ \A y \in s : F[y] \in Int
    BY <1>5, FS_Subset, FS_RemoveElement
  <2> QED
    BY <2>1, <1>4, SumRemove
<1>8. SumFunctionOnSet(F, S \cup s) = F[x] + SumFunctionOnSet(F, S \cup (s \ {x}))
  <2>1. IsFiniteSet(S \cup s) /\ \A y \in S \cup s : F[y] \in Int
    BY <1>5, FS_Subset, FS_Union
  <2>2. (S \cup s) \ {x} = S \cup (s \ {x}) /\ x \in S \cup s
    BY <1>4, <1>5
  <2> QED
    BY <2>1, <2>2, SumRemove
<1> QED
  BY <1>2, <1>6, <1>7, <1>8

(* The sum of two sums.                                                     *)
LEMMA SumPlus ==
  ASSUME NEW F, NEW G, NEW H, NEW S, IsFiniteSet(S),
         \A x \in S : F[x] \in Int /\ G[x] \in Int /\ H[x] = F[x] + G[x]
  PROVE  SumFunctionOnSet(H, S) = SumFunctionOnSet(F, S) + SumFunctionOnSet(G, S)
<1> DEFINE Bad == {t \in SUBSET S : SumFunctionOnSet(H, t) # SumFunctionOnSet(F, t) + SumFunctionOnSet(G, t)}
<1> SUFFICES ASSUME Bad # {} PROVE FALSE
  OBVIOUS
<1>1. PICK s \in Bad : \A t \in Bad : ~(t \subseteq s /\ t # s)
  <2>1. Bad \in SUBSET (SUBSET S)
    OBVIOUS
  <2> HIDE DEF Bad
  <2> QED
    BY <2>1, SmallestSubset
<1>3. s # {}
  <2>1. {} \notin Bad
    BY SumOfNone
  <2> QED
    BY <2>1
<1>4. PICK x \in s : TRUE
  BY <1>3
<1>5. s \in SUBSET S /\ s \ {x} \notin Bad
  BY <1>1, <1>4
<1>6. SumFunctionOnSet(H, s \ {x}) = SumFunctionOnSet(F, s \ {x}) + SumFunctionOnSet(G, s \ {x})
  BY <1>5
<1>7. IsFiniteSet(s) /\ IsFiniteSet(s \ {x})
    /\ \A y \in s : F[y] \in Int /\ G[y] \in Int /\ H[y] \in Int
  BY <1>5, FS_Subset, FS_RemoveElement
<1>8. /\ SumFunctionOnSet(F, s) = F[x] + SumFunctionOnSet(F, s \ {x})
      /\ SumFunctionOnSet(G, s) = G[x] + SumFunctionOnSet(G, s \ {x})
      /\ SumFunctionOnSet(H, s) = H[x] + SumFunctionOnSet(H, s \ {x})
      /\ SumFunctionOnSet(F, s \ {x}) \in Int /\ SumFunctionOnSet(G, s \ {x}) \in Int
  BY <1>4, <1>7, SumRemove
<1> QED
  BY <1>4, <1>5, <1>6, <1>8

(* p numbers the elements of T by those of S, and G has the terms of F.      *)
Renumbers(p, S, T) ==
  /\ p \in [S -> T]
  /\ \A x, y \in S : p[x] = p[y] => x = y
  /\ \A y \in T : \E x \in S : p[x] = y

Follows(G, S, F, p) == \A x \in S : G[x] = F[p[x]] /\ F[p[x]] \in Int

(* A sum does not depend on how its terms are numbered.                     *)
LEMMA SumRenumbered ==
  ASSUME NEW F, NEW G, NEW S, IsFiniteSet(S), NEW T, NEW p,
         Renumbers(p, S, T), Follows(G, S, F, p)
  PROVE  SumFunctionOnSet(G, S) = SumFunctionOnSet(F, T)
<1> USE DEF Renumbers, Follows
<1> DEFINE Bad == {t \in SUBSET S : SumFunctionOnSet(G, t) # SumFunctionOnSet(F, {p[x] : x \in t})}
<1>0. {p[x] : x \in S} = T
  OBVIOUS
<1> SUFFICES ASSUME Bad # {} PROVE FALSE
  BY <1>0
<1>1. PICK s \in Bad : \A t \in Bad : ~(t \subseteq s /\ t # s)
  <2>1. Bad \in SUBSET (SUBSET S)
    OBVIOUS
  <2> HIDE DEF Bad
  <2> QED
    BY <2>1, SmallestSubset
<1>3. s # {}
  <2>1. {p[x] : x \in {}} = {}
    OBVIOUS
  <2> QED
    BY <2>1, SumOfNone
<1>4. PICK x \in s : TRUE
  BY <1>3
<1>5. s \in SUBSET S /\ s \ {x} \notin Bad
  BY <1>1, <1>4
<1> DEFINE I(t) == {p[y] : y \in t}
<1>6. SumFunctionOnSet(G, s \ {x}) = SumFunctionOnSet(F, I(s \ {x}))
  BY <1>5
<1>7. IsFiniteSet(s) /\ \A y \in s : G[y] \in Int
  BY <1>5, FS_Subset
<1>8. I(s) \ {p[x]} = I(s \ {x}) /\ p[x] \in I(s)
  BY <1>4, <1>5
<1>9. IsFiniteSet(I(s)) /\ \A y \in I(s) : F[y] \in Int
  <2>1. [y \in s |-> p[y]] \in Surjection(s, I(s))
    BY DEF Surjection
  <2>2. IsFiniteSet(I(s))
    BY <2>1, <1>7, FS_Surjection
  <2> QED
    BY <2>2, <1>5
<1>10. SumFunctionOnSet(G, s) = G[x] + SumFunctionOnSet(G, s \ {x})
  <2> HIDE DEF Bad, I
  <2> QED
  BY <1>4, <1>7, SumRemove
<1>11. SumFunctionOnSet(F, I(s)) = F[p[x]] + SumFunctionOnSet(F, I(s \ {x}))
  <2>1. SumFunctionOnSet(F, I(s)) = F[p[x]] + SumFunctionOnSet(F, I(s) \ {p[x]})
    <3> HIDE DEF Bad, I
    <3> QED
      BY <1>8, <1>9, SumRemove
  <2> HIDE DEF I
  <2> QED
    BY <1>8, <2>1
<1> QED
  BY <1>4, <1>5, <1>6, <1>10, <1>11

(* A finite set without one of its elements.                                *)
LEMMA OneLess ==
  ASSUME NEW S, IsFiniteSet(S), NEW x \in S
  PROVE  /\ Cardinality(S \ {x}) \in Nat
         /\ Cardinality(S) = Cardinality(S \ {x}) + 1
<1>1. IsFiniteSet(S \ {x}) /\ Cardinality(S \ {x}) = Cardinality(S) - 1
  BY FS_RemoveElement
<1>2. Cardinality(S) \in Nat /\ Cardinality(S \ {x}) \in Nat
  BY <1>1, FS_CardinalityType
<1> QED
  BY <1>1, <1>2

(* As many different elements as a finite set has are all of its elements.  *)
LEMMA AllNumbered ==
  ASSUME NEW S, IsFiniteSet(S), NEW f \in [1 .. Cardinality(S) -> S],
         \A i, j \in 1 .. Cardinality(S) : f[i] = f[j] => i = j
  PROVE  {f[k] : k \in 1 .. Cardinality(S)} = S
<1> DEFINE n == Cardinality(S)
           R == {f[k] : k \in 1 .. n}
<1>1. n \in Nat
  BY FS_CardinalityType
<1>2. f \in Bijection(1 .. n, R)
  BY DEF Bijection, Injection, Surjection, IsInjective
<1>3. R \subseteq S
  OBVIOUS
<1> HIDE DEF n, R
<1>4. IsFiniteSet(1 .. n) /\ Cardinality(1 .. n) = n
  BY <1>1, FS_Interval
<1>5. IsFiniteSet(R) /\ Cardinality(R) = n
  BY <1>2, <1>4, FS_Bijection DEF ExistsBijection
<1>6. R = S
  BY <1>3, <1>5, FS_Subset DEF n
<1> QED
  BY <1>6 DEF R, n

(* A finite set of numbers has a largest one. *)
LEMMA Largest ==
  ASSUME NEW S, \A x \in S : x \in Int, IsFiniteSet(S), S # {}
  PROVE  \E m \in S : \A x \in S : x <= m
<1> DEFINE Bad == {t \in SUBSET S : t # {} /\ ~(\E m \in t : \A x \in t : x <= m)}
<1> SUFFICES ASSUME Bad # {} PROVE FALSE
  OBVIOUS
<1>1. PICK s \in Bad : \A t \in Bad : ~(t \subseteq s /\ t # s)
  <2>1. IsFiniteSet(S) /\ Bad \in SUBSET (SUBSET S) /\ Bad # {}
    OBVIOUS
  <2> HIDE DEF Bad
  <2>2. \A X : IsFiniteSet(X) => \A T \in SUBSET (SUBSET X) : T # {} =>
         \E s \in T : \A t \in T : ~(t \subseteq s /\ t # s)
    BY SmallestSubset
  <2> QED
    BY <2>1, <2>2
<1>2. PICK x \in s : TRUE
  OBVIOUS
<1>3. s \in SUBSET S /\ ~(\E m \in s : \A y \in s : y <= m)
  OBVIOUS
<1>4. s \ {x} \notin Bad
  BY <1>1, <1>2
<1>5. CASE s \ {x} = {}
  <2>1. \A y \in s : y <= x
    BY <1>2, <1>3, <1>5
  <2> QED
    BY <1>2, <1>3, <2>1
<1>6. CASE s \ {x} # {}
  <2>1. PICK m \in s \ {x} : \A y \in s \ {x} : y <= m
    BY <1>3, <1>4, <1>6
  <2>2. x \in Int /\ m \in Int
    BY <1>2, <1>3
  <2>3. CASE x <= m
    BY <1>3, <2>1, <2>3
  <2>4. CASE m <= x
    <3>1. \A y \in s : y <= x
      BY <1>3, <2>1, <2>2, <2>4
    <3> QED
      BY <1>2, <1>3, <3>1
  <2> QED
    BY <2>2, <2>3, <2>4
<1> QED
  BY <1>5, <1>6

Ascends(s, levels) ==
  /\ s \in [1 .. Cardinality(levels) -> levels]
  /\ \A i, j \in DOMAIN s : i < j => s[i] < s[j]

(* Every finite set of integers can be listed in ascending order.           *)
LEMMA AscendingExists ==
  ASSUME NEW S, \A x \in S : x \in Int, IsFiniteSet(S)
  PROVE  \E s : Ascends(s, S)
<1> DEFINE Bad == {t \in SUBSET S : ~(\E s : Ascends(s, t))}
<1> SUFFICES ASSUME Bad # {} PROVE FALSE
  OBVIOUS
<1>1. PICK t \in Bad : \A u \in Bad : ~(u \subseteq t /\ u # t)
  <2>1. Bad \in SUBSET (SUBSET S)
    OBVIOUS
  <2> HIDE DEF Bad
  <2> QED
    BY <2>1, SmallestSubset
<1>2. t \in SUBSET S /\ ~(\E s : Ascends(s, t)) /\ IsFiniteSet(t)
  BY FS_Subset
<1>3. t # {}
  <2>1. Ascends([k \in {} |-> 0], {})
    <3>1. Cardinality({}) = 0
      BY FS_EmptySet
    <3> QED
      BY <3>1 DEF Ascends
  <2> QED
    BY <1>2, <2>1
<1>4. PICK m \in t : \A x \in t : x <= m
  BY <1>2, <1>3, Largest
<1>5. PICK s : Ascends(s, t \ {m})
  <2>1. t \ {m} \notin Bad
    BY <1>1, <1>4
  <2> HIDE DEF Ascends
  <2> QED
    BY <1>2, <2>1
<1> DEFINE n == Cardinality(t \ {m})
           q == [k \in 1 .. n + 1 |-> IF k <= n THEN s[k] ELSE m]
<1>6. n \in Nat /\ Cardinality(t) = n + 1
  BY <1>2, <1>4, OneLess
<1>7. s \in [1 .. n -> t \ {m}] /\ \A i, j \in 1 .. n : i < j => s[i] < s[j]
  BY <1>5 DEF Ascends
<1> HIDE DEF n
<1>8. q \in [1 .. n + 1 -> t]
  BY <1>4, <1>6, <1>7
<1>9. ASSUME NEW i \in 1 .. n + 1, NEW j \in 1 .. n + 1, i < j PROVE q[i] < q[j]
  <2>1. i \in 1 .. n /\ q[i] = s[i] /\ s[i] \in t \ {m}
    BY <1>6, <1>7, <1>9
  <2>2. CASE j <= n
    BY <1>6, <1>7, <1>9, <2>1, <2>2
  <2>3. CASE j = n + 1
    <3>1. q[j] = m
      BY <1>6, <2>3
    <3>2. m \in Int /\ s[i] \in Int /\ s[i] <= m /\ s[i] # m
      BY <1>2, <1>4, <2>1
    <3> QED
      BY <2>1, <3>1, <3>2
  <2> QED
    BY <1>6, <2>2, <2>3
<1>10. Ascends(q, t)
  BY <1>6, <1>8, <1>9 DEF Ascends
<1> QED
  BY <1>2, <1>10

(* Such a list has every element once.                                      *)
LEMMA AscendsAll ==
  ASSUME NEW S, \A x \in S : x \in Int, IsFiniteSet(S), NEW s, Ascends(s, S)
  PROVE  /\ \A i, j \in DOMAIN s : s[i] = s[j] => i = j
         /\ {s[k] : k \in DOMAIN s} = S
<1> DEFINE n == Cardinality(S)
<1>1. s \in [1 .. n -> S] /\ \A i, j \in DOMAIN s : i < j => s[i] < s[j]
  BY DEF Ascends
<1>2. n \in Nat
  BY FS_CardinalityType
<1> HIDE DEF n
<1>3. ASSUME NEW i \in 1 .. n, NEW j \in 1 .. n, s[i] = s[j] PROVE i = j
  <2>1. s[i] \in Int /\ s[j] \in Int
    BY <1>1
  <2>2. ~(s[i] < s[j]) /\ ~(s[j] < s[i])
    BY <1>3, <2>1
  <2> QED
    BY <1>1, <1>2, <2>2
<1>4. {s[k] : k \in 1 .. n} = S
  BY <1>1, <1>3, AllNumbered DEF n
<1> QED
  BY <1>1, <1>3, <1>4

(* A finite set of numbers has a smallest one.                              *)
LEMMA Lowest ==
  ASSUME NEW S, \A x \in S : x \in Int, IsFiniteSet(S), S # {}
  PROVE  \E m \in S : \A x \in S : m <= x
<1>1. PICK s : Ascends(s, S)
  BY AscendingExists
<1> DEFINE n == Cardinality(S)
<1>2. n \in Nat
  BY FS_CardinalityType
<1>3. s \in [1 .. n -> S] /\ \A i, j \in 1 .. n : i < j => s[i] < s[j]
  BY <1>1 DEF Ascends
<1>4. \A x \in S : \E k \in 1 .. n : s[k] = x
  <2>1. \A x \in {s[k] : k \in DOMAIN s} : \E k \in DOMAIN s : s[k] = x
    OBVIOUS
  <2>2. {s[k] : k \in DOMAIN s} = S
    BY <1>1, AscendsAll
  <2>3. DOMAIN s = 1 .. n
    BY <1>3
  <2> QED
    BY <2>1, <2>2, <2>3, Zenon
<1> HIDE DEF n
<1>5. 1 \in 1 .. n
  <2>1. PICK x \in S : TRUE
    OBVIOUS
  <2>2. PICK k \in 1 .. n : s[k] = x
    BY <1>4
  <2> QED
    BY <1>2, <2>2
<1>6. ASSUME NEW x \in S PROVE s[1] <= x
  <2>1. PICK k \in 1 .. n : s[k] = x
    BY <1>4
  <2>2. s[1] \in Int /\ x \in Int
    BY <1>3, <1>5
  <2>3. CASE k = 1
    BY <2>1, <2>2, <2>3
  <2>4. CASE 1 < k
    BY <1>3, <1>5, <2>1, <2>2, <2>4
  <2> QED
    BY <1>2, <2>1, <2>3, <2>4
<1> QED
  BY <1>3, <1>5, <1>6

(* Ascending lists every level once.                                        *)
LEMMA AscendingOrder ==
  ASSUME NEW S, \A x \in S : x \in Int, IsFiniteSet(S)
  PROVE  LET s == Ascending(S)
         IN /\ s \in [1 .. Cardinality(S) -> S] /\ Cardinality(S) \in Nat
            /\ \A i, j \in DOMAIN s : s[i] = s[j] => i = j
            /\ {s[k] : k \in DOMAIN s} = S
<1>1. Ascends(Ascending(S), S)
  BY AscendingExists DEF Ascends, Ascending
<1>2. Cardinality(S) \in Nat
  BY FS_CardinalityType
<1> QED
  BY <1>1, <1>2, AscendsAll DEF Ascends

(* One more term, and the terms of two sequences. *)
LEMMA SumAppend ==
  ASSUME NEW n \in Nat, NEW F, DOMAIN F = 1 .. n, \A k \in 1 .. n : F[k] \in Int,
         NEW G, DOMAIN G = 1 .. n + 1, \A k \in 1 .. n : G[k] = F[k], G[n + 1] \in Int
  PROVE  SumFunction(G) = SumFunction(F) + G[n + 1] /\ SumFunction(F) \in Int
<1>0. IsFiniteSet(1 .. n)
  BY FS_Interval
<1>1. IsFiniteSet(1 .. n) /\ 1 .. n + 1 = (1 .. n) \cup {n + 1} /\ n + 1 \notin 1 .. n
  BY <1>0
<1>2. SumFunctionOnSet(G, 1 .. n + 1) = G[n + 1] + SumFunctionOnSet(G, 1 .. n)
  BY <1>1, SumAdd
<1>3. SumFunctionOnSet(G, 1 .. n) = SumFunctionOnSet(F, 1 .. n)
  BY <1>1, SumSame
<1>4. SumFunctionOnSet(F, 1 .. n) \in Int
  BY <1>1, SumRemove
<1> QED
  BY <1>2, <1>3, <1>4 DEF SumFunction

(* G is F and then H.                                                       *)
Joins(G, F, m, H, n) ==
  /\ m \in Nat /\ n \in Nat
  /\ DOMAIN F = 1 .. m /\ DOMAIN H = 1 .. n /\ DOMAIN G = 1 .. m + n
  /\ \A k \in 1 .. m : F[k] \in Int /\ G[k] = F[k]
  /\ \A k \in 1 .. n : H[k] \in Int /\ G[m + k] = H[k]

(* The sum of the terms of two sequences, one after the other.              *)
LEMMA SumConcat ==
  ASSUME NEW m, NEW n, NEW F, NEW G, NEW H, Joins(G, F, m, H, n)
  PROVE  SumFunction(G) = SumFunction(F) + SumFunction(H)
<1> USE DEF Joins
<1> DEFINE p == [k \in 1 .. n |-> m + k]
           T == m + 1 .. m + n
<1>1. IsFiniteSet(1 .. m) /\ IsFiniteSet(1 .. n) /\ IsFiniteSet(T)
  BY FS_Interval
<1>2. /\ p \in [1 .. n -> T] /\ \A k, j \in 1 .. n : p[k] = p[j] => k = j
      /\ \A k \in 1 .. n : p[k] = m + k
  OBVIOUS
<1>3. \A y \in T : \E k \in 1 .. n : p[k] = y
  <2>1. ASSUME NEW y \in T PROVE y - m \in 1 .. n /\ p[y - m] = y
    OBVIOUS
  <2> HIDE DEF p, T
  <2> QED
    BY <2>1
<1>4. 1 .. m + n = (1 .. m) \cup T /\ (1 .. m) \cap T = {}
  OBVIOUS
<1>5. /\ \A k \in 1 .. n : H[k] = G[p[k]]
      /\ \A k \in 1 .. n : G[p[k]] \in Int
  BY <1>2
<1> HIDE DEF p, T
<1>6. \A y \in T : G[y] \in Int
  BY <1>3, <1>5
<1>7. \A k \in (1 .. m) \cup T : G[k] \in Int
  BY <1>6
<1>8. SumFunctionOnSet(H, 1 .. n) = SumFunctionOnSet(G, T)
  <2>1. Renumbers(p, 1 .. n, T) /\ Follows(H, 1 .. n, G, p)
    BY <1>2, <1>3, <1>5 DEF Renumbers, Follows
  <2> QED
    BY <1>1, <2>1, SumRenumbered
<1>9. SumFunctionOnSet(G, 1 .. m) = SumFunctionOnSet(F, 1 .. m)
  BY <1>1, SumSame
<1>10. SumFunctionOnSet(G, (1 .. m) \cup T) = SumFunctionOnSet(G, 1 .. m) + SumFunctionOnSet(G, T)
  BY <1>1, <1>4, <1>7, SumUnion
<1> QED
  BY <1>4, <1>8, <1>9, <1>10 DEF SumFunction

(* F is A and B, on two disjoint sets.                                      *)
Splits(F, A, B) ==
  /\ IsFiniteSet(DOMAIN A) /\ IsFiniteSet(DOMAIN B)
  /\ DOMAIN A \cap DOMAIN B = {} /\ DOMAIN F = DOMAIN A \cup DOMAIN B
  /\ \A x \in DOMAIN A : A[x] = F[x] /\ F[x] \in Int
  /\ \A x \in DOMAIN B : B[x] = F[x] /\ F[x] \in Int

(* The sum of two parts.                                                    *)
LEMMA SumSplit ==
  ASSUME NEW F, NEW A, NEW B, Splits(F, A, B)
  PROVE  /\ SumFunction(F) = SumFunction(A) + SumFunction(B)
         /\ SumFunction(A) \in Int /\ SumFunction(B) \in Int
<1> DEFINE S == DOMAIN A
           T == DOMAIN B
<1>1. /\ IsFiniteSet(S) /\ IsFiniteSet(T) /\ S \cap T = {} /\ DOMAIN F = S \cup T
      /\ \A x \in S \cup T : F[x] \in Int
      /\ \A x \in S : A[x] = F[x]
      /\ \A x \in T : B[x] = F[x]
  BY DEF Splits
<1> HIDE DEF S, T
<1>2. SumFunctionOnSet(F, S \cup T) = SumFunctionOnSet(F, S) + SumFunctionOnSet(F, T)
  BY <1>1, SumUnion
<1>3. SumFunctionOnSet(A, S) = SumFunctionOnSet(F, S) /\ SumFunctionOnSet(B, T) = SumFunctionOnSet(F, T)
  BY <1>1, SumSame
<1>4. SumFunctionOnSet(F, S) \in Int /\ SumFunctionOnSet(F, T) \in Int
  BY <1>1, SumRemove
<1> QED
  BY <1>1, <1>2, <1>3, <1>4 DEF SumFunction, S, T

(* H is the sum of F and G, term by term.                                   *)
Adds(H, F, G) ==
  /\ IsFiniteSet(DOMAIN F) /\ DOMAIN H = DOMAIN F /\ DOMAIN G = DOMAIN F
  /\ \A x \in DOMAIN F : F[x] \in Int /\ G[x] \in Int /\ H[x] = F[x] + G[x]

(* The sum of a sum of terms.                                               *)
LEMMA SumAdds ==
  ASSUME NEW F, NEW G, NEW H, Adds(H, F, G)
  PROVE  /\ SumFunction(H) = SumFunction(F) + SumFunction(G)
         /\ SumFunction(F) \in Int /\ SumFunction(G) \in Int
<1> DEFINE S == DOMAIN F
<1>1. /\ IsFiniteSet(S) /\ DOMAIN H = S /\ DOMAIN G = S
      /\ \A x \in S : F[x] \in Int /\ G[x] \in Int /\ H[x] = F[x] + G[x]
  BY DEF Adds
<1> HIDE DEF S
<1>2. SumFunctionOnSet(H, S) = SumFunctionOnSet(F, S) + SumFunctionOnSet(G, S)
  BY <1>1, SumPlus
<1>3. SumFunctionOnSet(F, S) \in Int /\ SumFunctionOnSet(G, S) \in Int
  BY <1>1, SumRemove
<1> QED
  BY <1>1, <1>2, <1>3 DEF SumFunction, S

(* H is F times c, term by term.                                            *)
Scales(H, F, c) ==
  /\ IsFiniteSet(DOMAIN F) /\ DOMAIN H = DOMAIN F /\ c \in Int
  /\ \A x \in DOMAIN F : F[x] \in Int /\ H[x] = F[x] * c

(* The sum of multiples of terms.                                           *)
LEMMA SumScales ==
  ASSUME NEW F, NEW H, NEW c, Scales(H, F, c)
  PROVE  SumFunction(H) = SumFunction(F) * c
<1> DEFINE S == DOMAIN F
           Bad == {t \in SUBSET S : SumFunctionOnSet(H, t) # SumFunctionOnSet(F, t) * c}
<1>0. /\ IsFiniteSet(S) /\ DOMAIN H = S /\ c \in Int
      /\ \A x \in S : F[x] \in Int /\ H[x] = F[x] * c
  BY DEF Scales
<1> HIDE DEF S
<1> SUFFICES ASSUME Bad # {} PROVE FALSE
  BY <1>0 DEF SumFunction, S
<1>1. PICK s \in Bad : \A t \in Bad : ~(t \subseteq s /\ t # s)
  <2>1. Bad \in SUBSET (SUBSET S)
    OBVIOUS
  <2> HIDE DEF Bad
  <2> QED
    BY <1>0, <2>1, SmallestSubset
<1>2. s # {}
  <2>1. SumFunctionOnSet(H, {}) = 0 /\ SumFunctionOnSet(F, {}) = 0 /\ 0 * c = 0
    BY <1>0, SumOfNone
  <2> QED
    BY <2>1
<1>3. PICK x \in s : TRUE
  BY <1>2
<1>4. s \in SUBSET S /\ s \ {x} \notin Bad
  BY <1>1, <1>3
<1>5. SumFunctionOnSet(H, s \ {x}) = SumFunctionOnSet(F, s \ {x}) * c
  BY <1>4
<1>6. IsFiniteSet(s) /\ IsFiniteSet(s \ {x}) /\ \A y \in s : F[y] \in Int /\ H[y] \in Int
  BY <1>0, <1>4, FS_Subset, FS_RemoveElement
<1>7. /\ SumFunctionOnSet(F, s) = F[x] + SumFunctionOnSet(F, s \ {x})
      /\ SumFunctionOnSet(H, s) = H[x] + SumFunctionOnSet(H, s \ {x})
      /\ SumFunctionOnSet(F, s \ {x}) \in Int
  BY <1>3, <1>6, SumRemove
<1>8. \A u, v, w \in Int : (u + v) * w = u * w + v * w
  OBVIOUS
<1>9. SumFunctionOnSet(H, s) = SumFunctionOnSet(F, s) * c
  BY <1>0, <1>3, <1>4, <1>5, <1>6, <1>7, <1>8
<1> QED
  BY <1>9

-----------------------------------------------------------------------------
(* The trade history, and what a grid holds.                               *)

Reasons == {"signal", "stop_loss", "take_profit", "end_of_data"}

Trade == [side : {"long", "short"}, entry : Int, exit : Int, size : Int, pnl : Int, fees : Int,
          funding : Int, held : Int, reason : Reasons]
DcaSale == [side : {"long"}, cost : Int, exit : Int, size : Int, pnl : Int, fees : Int,
            funding : Int, held : Int, reason : Reasons]
Trades == Trade \cup DcaSale
Lot == [size : Int, px : Int, fee : Int, bar : Int]

(* What one more trade adds to the sums over the history.                   *)
LEMMA TradesAppend ==
  ASSUME NEW s \in Seq(Trades), NEW t \in Trades
  PROVE  /\ Append(s, t) \in Seq(Trades)
         /\ TradePnl(Append(s, t)) = TradePnl(s) + t.pnl
         /\ TradeFees(Append(s, t)) = TradeFees(s) + t.fees
         /\ t.pnl \in Int /\ t.fees \in Int /\ TradePnl(s) \in Int /\ TradeFees(s) \in Int
<1> DEFINE q == Append(s, t)
           n == Len(s)
           F == [k \in DOMAIN s |-> s[k].pnl]
           G == [k \in DOMAIN q |-> q[k].pnl]
           F2 == [k \in DOMAIN s |-> s[k].fees]
           G2 == [k \in DOMAIN q |-> q[k].fees]
<1>1. /\ n \in Nat /\ DOMAIN s = 1 .. n /\ DOMAIN q = 1 .. n + 1 /\ q \in Seq(Trades)
      /\ q[n + 1] = t /\ \A k \in 1 .. n : q[k] = s[k] /\ s[k] \in Trades
  OBVIOUS
<1>2. \A x \in Trades : x.pnl \in Int /\ x.fees \in Int
  BY DEF Trades, Trade, DcaSale
<1> HIDE DEF n, q
<1>3. /\ DOMAIN F = 1 .. n /\ DOMAIN G = 1 .. n + 1 /\ \A k \in 1 .. n : F[k] \in Int /\ G[k] = F[k]
      /\ G[n + 1] = t.pnl /\ t.pnl \in Int
  BY <1>1, <1>2
<1>4. /\ DOMAIN F2 = 1 .. n /\ DOMAIN G2 = 1 .. n + 1 /\ \A k \in 1 .. n : F2[k] \in Int /\ G2[k] = F2[k]
      /\ G2[n + 1] = t.fees /\ t.fees \in Int
  BY <1>1, <1>2
<1> HIDE DEF F, F2, G, G2
<1>5. SumFunction(G) = SumFunction(F) + t.pnl /\ SumFunction(F) \in Int
  BY <1>1, <1>3, SumAppend
<1>6. SumFunction(G2) = SumFunction(F2) + t.fees /\ SumFunction(F2) \in Int
  BY <1>1, <1>4, SumAppend
<1> QED
  BY <1>1, <1>3, <1>4, <1>5, <1>6 DEF TradePnl, TradeFees, F, F2, G, G2, q

(* What several more trades add.                                            *)
LEMMA TradesConcat ==
  ASSUME NEW s \in Seq(Trades), NEW r \in Seq(Trades)
  PROVE  /\ s \o r \in Seq(Trades)
         /\ TradePnl(s \o r) = TradePnl(s) + TradePnl(r)
         /\ TradeFees(s \o r) = TradeFees(s) + TradeFees(r)
<1> DEFINE q == s \o r
           m == Len(s)
           n == Len(r)
           F == [k \in DOMAIN s |-> s[k].pnl]
           H == [k \in DOMAIN r |-> r[k].pnl]
           G == [k \in DOMAIN q |-> q[k].pnl]
           F2 == [k \in DOMAIN s |-> s[k].fees]
           H2 == [k \in DOMAIN r |-> r[k].fees]
           G2 == [k \in DOMAIN q |-> q[k].fees]
<1>1. /\ m \in Nat /\ n \in Nat /\ DOMAIN s = 1 .. m /\ DOMAIN r = 1 .. n /\ DOMAIN q = 1 .. m + n
      /\ q \in Seq(Trades)
      /\ \A k \in 1 .. m : q[k] = s[k] /\ s[k] \in Trades
      /\ \A k \in 1 .. n : q[m + k] = r[k] /\ r[k] \in Trades /\ m + k \in 1 .. m + n
  OBVIOUS
<1>2. \A x \in Trades : x.pnl \in Int /\ x.fees \in Int
  BY DEF Trades, Trade, DcaSale
<1> HIDE DEF m, n, q
<1>3. Joins(G, F, m, H, n)
  BY <1>1, <1>2 DEF Joins
<1>4. Joins(G2, F2, m, H2, n)
  BY <1>1, <1>2 DEF Joins
<1> HIDE DEF F, F2, G, G2, H, H2
<1>5. SumFunction(G) = SumFunction(F) + SumFunction(H)
  BY <1>3, SumConcat
<1>6. SumFunction(G2) = SumFunction(F2) + SumFunction(H2)
  BY <1>4, SumConcat
<1> QED
  BY <1>1, <1>5, <1>6 DEF TradePnl, TradeFees, F, F2, G, G2, H, H2, q

(* The trades of some levels, in order, add up to what the levels do. *)
LEMMA TradesOfLevels ==
  ASSUME NEW S \in SUBSET Levels, NEW T, \A l \in S : T[l] \in Trades
  PROVE  LET order == Ascending(S)
             r == [k \in DOMAIN order |-> T[order[k]]]
         IN /\ r \in Seq(Trades)
            /\ TradePnl(r) = SumFunction([l \in S |-> T[l].pnl])
            /\ TradeFees(r) = SumFunction([l \in S |-> T[l].fees])
<1> DEFINE order == Ascending(S)
           n == Cardinality(S)
           r == [k \in DOMAIN order |-> T[order[k]]]
           P == [l \in S |-> T[l].pnl]
           F == [l \in S |-> T[l].fees]
<1>1. /\ order \in [1 .. n -> S] /\ n \in Nat
      /\ \A i, j \in DOMAIN order : order[i] = order[j] => i = j
      /\ {order[k] : k \in DOMAIN order} = S
  BY AscendingOrder, FS_Subset, FillAssumption
<1>2. IsFiniteSet(1 .. n)
  BY <1>1, FS_Interval
<1> HIDE DEF order, n
<1>3. \A k \in 1 .. n : P[order[k]] \in Int /\ F[order[k]] \in Int
  BY <1>1 DEF Trades, Trade, DcaSale
<1>4. /\ r \in Seq(Trades) /\ DOMAIN r = 1 .. n
      /\ \A k \in 1 .. n : r[k].pnl = P[order[k]] /\ r[k].fees = F[order[k]]
  BY <1>1
<1>5. DOMAIN P = S /\ DOMAIN F = S
  OBVIOUS
<1> HIDE DEF r, P, F
<1> DEFINE p == [k \in 1 .. n |-> P[order[k]]]
           f == [k \in 1 .. n |-> F[order[k]]]
<1>6. /\ \A k \in 1 .. n : p[k] = P[order[k]]
      /\ \A k \in 1 .. n : f[k] = F[order[k]]
  OBVIOUS
<1>7. Renumbers(order, 1 .. n, S)
  BY <1>1 DEF Renumbers
<1>8. TradePnl(r) = SumFunction(p) /\ TradeFees(r) = SumFunction(f)
  <2>1. p = [k \in DOMAIN r |-> r[k].pnl] /\ f = [k \in DOMAIN r |-> r[k].fees]
    BY <1>4
  <2> QED
    BY <2>1 DEF TradePnl, TradeFees
<1>9. SumFunction(p) = SumFunctionOnSet(p, 1 .. n) /\ SumFunction(f) = SumFunctionOnSet(f, 1 .. n)
  BY DEF SumFunction
<1> HIDE DEF p, f
<1>11. SumFunctionOnSet(p, 1 .. n) = SumFunctionOnSet(P, S)
  <2>1. Follows(p, 1 .. n, P, order)
    BY <1>3, <1>6 DEF Follows
  <2> QED
    BY <1>2, <1>7, <2>1, SumRenumbered
<1>12. SumFunctionOnSet(f, 1 .. n) = SumFunctionOnSet(F, S)
  <2>1. Follows(f, 1 .. n, F, order)
    BY <1>3, <1>6 DEF Follows
  <2> QED
    BY <1>2, <1>7, <2>1, SumRenumbered
<1>10. TradePnl(r) = SumFunction(P) /\ TradeFees(r) = SumFunction(F)
  BY <1>5, <1>8, <1>9, <1>11, <1>12 DEF SumFunction
<1> QED
  BY <1>4, <1>10 DEF r, P, F, order

-----------------------------------------------------------------------------
(* Accounts.                                                               *)

AccountFields == {"kind", "cash", "pos", "trades", "orders", "realized", "fees", "funding",
                  "mark", "bar", "pending", "grid", "dca"}
DcaFields == {"base", "cost", "fees", "count", "first"}

Order == [intent : Intents \cup {Flag("close")}, status : {"open", "filled", "canceled"},
          bar : Nat]

(* What an operation keeps of an account, whatever it computes.             *)
IsAccount(a) ==
  /\ a = [f \in AccountFields |-> a[f]]
  /\ a.dca = [f \in DcaFields |-> a.dca[f]]
  /\ a.kind \in Kinds /\ a.bar \in Nat
  /\ a.orders \in Seq(Order)

Flat(a) == /\ a.kind = "rule" => a.pos = None
           /\ a.kind = "grid" => DOMAIN a.grid = {}
           /\ a.kind = "dca"  => ~(a.dca.base > 0)

PendingIsFresh ==
  \A f \in acct.pending :
    \E k \in DOMAIN acct.orders : acct.orders[k].intent = f /\ acct.orders[k].bar = acct.bar

EndedIsFlat == ended => Flat(acct)

IInv == IsAccount(acct) /\ PendingIsFresh /\ EndedIsFlat

-----------------------------------------------------------------------------
(* The operations of an account.                                           *)

(* A close leaves an account without a position.                           *)
LEMMA ClosedKeeps ==
  ASSUME NEW a, IsAccount(a), NEW px, NEW reason
  PROVE  /\ IsAccount(Closed(a, px, reason))
         /\ Closed(a, px, reason).pos = None
         /\ Closed(a, px, reason).kind = a.kind
<1> DEFINE o == [intent |-> Flag("close"), status |-> "filled", bar |-> a.bar]
           c == Closed(a, px, reason)
<1>1. o \in Order
  BY DEF IsAccount, Order
<1>2. /\ c = [f \in AccountFields |-> c[f]]
      /\ c.pos = None /\ c.kind = a.kind /\ c.bar = a.bar /\ c.dca = a.dca
      /\ c.orders = Append(a.orders, o)
  BY DEF Closed, IsAccount, AccountFields
<1> HIDE DEF c, o
<1>3. c.orders \in Seq(Order)
  <2>1. a.orders \in Seq(Order)
    BY DEF IsAccount
  <2>2. \A q \in Seq(Order), e \in Order : Append(q, e) \in Seq(Order)
    OBVIOUS
  <2> QED
    BY <1>1, <1>2, <2>1, <2>2
<1>4. IsAccount(c)
  BY <1>2, <1>3 DEF IsAccount
<1> QED
  BY <1>2, <1>4 DEF c

(* Opening a position.                                                      *)
LEMMA OpenedKeeps ==
  ASSUME NEW a, IsAccount(a), NEW side, NEW open
  PROVE  /\ IsAccount(Opened(a, side, open))
         /\ Opened(a, side, open).pos = NewPosition(side, a.cash, open)
         /\ Opened(a, side, open).kind = a.kind
<1> HIDE DEF NewPosition
<1> DEFINE c == Opened(a, side, open)
<1>1. /\ c = [f \in AccountFields |-> c[f]]
      /\ c.pos = NewPosition(side, a.cash, open)
      /\ c.kind = a.kind /\ c.bar = a.bar /\ c.dca = a.dca /\ c.orders = a.orders
  BY DEF Opened, IsAccount, AccountFields
<1> HIDE DEF c
<1>2. IsAccount(c)
  BY <1>1 DEF IsAccount
<1> QED
  BY <1>1, <1>2 DEF c

(* Buying and selling slices leaves the position and the shape of the       *)
(* account alone.                                                           *)
LEMMA LotsBoughtKeeps ==
  ASSUME NEW a, IsAccount(a), NEW levels
  PROVE  IsAccount(LotsBought(a, levels)) /\ LotsBought(a, levels).pos = a.pos
<1>1. \E g, cash, fees :
        LotsBought(a, levels) = [a EXCEPT !.grid = g, !.cash = cash, !.fees = fees]
  BY DEF LotsBought
<1> QED
  BY <1>1 DEF IsAccount, AccountFields

(* Selling slices does not touch the position.                             *)
LEMMA LotsSoldKeeps ==
  ASSUME NEW a, IsAccount(a), NEW levels, NEW price, NEW reason
  PROVE  /\ IsAccount(LotsSold(a, levels, price, reason))
         /\ LotsSold(a, levels, price, reason).pos = a.pos
<1>1. \E g, cash, fees, realized, trades :
        LotsSold(a, levels, price, reason) =
          [a EXCEPT !.grid = g, !.cash = cash, !.fees = fees, !.realized = realized,
                    !.trades = trades]
  BY DEF LotsSold
<1> QED
  BY <1>1 DEF IsAccount, AccountFields

(* A bar of a grid account, and of a DCA account.                           *)
LEMMA GridAppliedKeeps ==
  ASSUME NEW a, IsAccount(a), NEW bar
  PROVE  IsAccount(GridApplied(a, bar)) /\ GridApplied(a, bar).pos = a.pos
BY LotsBoughtKeeps, LotsSoldKeeps DEF GridApplied

(* A purchase does not touch the position.                                 *)
LEMMA DcaAppliedKeeps ==
  ASSUME NEW a, IsAccount(a), NEW bar
  PROVE  IsAccount(DcaApplied(a, bar)) /\ DcaApplied(a, bar).pos = a.pos
<1>1. \A spend : LET d == DcaBought(a.dca, spend, bar.open, a.bar)
                IN d = [f \in DcaFields |-> d[f]]
  BY DEF DcaBought, DcaFields
<1> QED
  BY <1>1 DEF DcaApplied, IsAccount, AccountFields

-----------------------------------------------------------------------------
(* on_bar.                                                                 *)

(* A flat account opens a position only for an intent that is pending; one  *)
(* that holds a position may also reverse it.                               *)
LEMMA RuleAppliedKeeps ==
  ASSUME NEW a, IsAccount(a), NEW bar
  PROVE  LET b == RuleApplied(a, bar)
         IN /\ IsAccount(b)
            /\ a.pos = None /\ b.pos # None =>
                 \E side \in {"long", "short"} :
                   /\ Flag(side) \in a.pending
                   /\ b.pos = NewPosition(side, a.cash, bar.open)
<1> DEFINE against == IF a.pos = None THEN "none"
                      ELSE IF a.pos.side = "long" THEN "short" ELSE "long"
           leave == a.pos # None /\ a.pending \cap {Flag("exit"), Flag(against)} # {}
           b == IF leave
                THEN Closed(a, Slip(bar.open, a.pos.side = "long"), "signal")
                ELSE a
           c == RuleApplied(a, bar)
<1>1. c = IF b.pos # None THEN b
          ELSE IF Flag("long") \in a.pending THEN Opened(b, "long", bar.open)
          ELSE IF Flag("short") \in a.pending THEN Opened(b, "short", bar.open)
          ELSE b
  BY DEF RuleApplied
<1>2. IsAccount(b) /\ (a.pos = None => b = a)
  BY ClosedKeeps
<1> HIDE DEF b, c
<1>3. IsAccount(c)
  BY <1>1, <1>2, OpenedKeeps
<1>4. ASSUME a.pos = None, c.pos # None
      PROVE  \E side \in {"long", "short"} :
               /\ Flag(side) \in a.pending
               /\ c.pos = NewPosition(side, a.cash, bar.open)
  <2>1. CASE Flag("long") \in a.pending
    BY <1>1, <1>2, <1>4, <2>1, OpenedKeeps
  <2>2. CASE Flag("long") \notin a.pending /\ Flag("short") \in a.pending
    BY <1>1, <1>2, <1>4, <2>2, OpenedKeeps
  <2>3. CASE Flag("long") \notin a.pending /\ Flag("short") \notin a.pending
    BY <1>1, <1>2, <1>4, <2>3
  <2> QED
    BY <2>1, <2>2, <2>3
<1> QED
  BY <1>3, <1>4 DEF c

(* A stop or a target either closes the position or leaves it.              *)
LEMMA RiskCheckedKeeps ==
  ASSUME NEW a, IsAccount(a), NEW bar
  PROVE  /\ IsAccount(RiskChecked(a, bar))
         /\ RiskChecked(a, bar).pos \in {None, a.pos}
BY ClosedKeeps DEF RiskChecked

(* A bar that is held leaves the position on its side.                      *)
LEMMA HeldKeeps ==
  ASSUME NEW a, IsAccount(a), NEW bar
  PROVE  /\ IsAccount(Held(a, bar))
         /\ a.pos = None => Held(a, bar).pos = None
         /\ a.pos # None => Held(a, bar).pos = HeldOneBar(a.pos, bar.close)
<1> HIDE DEF HeldOneBar
<1>1. \A p : LET b == [a EXCEPT !.pos = p] IN IsAccount(b) /\ b.pos = p
  BY DEF IsAccount, AccountFields
<1> QED
  BY <1>1 DEF Held

(* A position keeps its side while it is held.                              *)
LEMMA NewPositionHeld ==
  ASSUME NEW side, NEW cash, NEW open, NEW close
  PROVE  HeldOneBar(NewPosition(side, cash, open), close).side = side
<1> DEFINE p == NewPosition(side, cash, open)
           Fields == {"side", "entry", "size", "fee", "stop", "take", "held", "funding", "hours"}
<1>1. p = [f \in Fields |-> p[f]] /\ p.side = side
  BY DEF NewPosition
<1> HIDE DEF p
<1>2. HeldOneBar(p, close).side = p.side
  BY <1>1 DEF HeldOneBar
<1> QED
  BY <1>1, <1>2 DEF p

(* After a bar nothing is pending, and a new position has an entry for      *)
(* it.                                                                      *)
LEMMA AfterBarKeeps ==
  ASSUME NEW a, IsAccount(a), NEW bar
  PROVE  LET b == AfterBar(a, bar)
         IN /\ IsAccount(b) /\ b.pending = {}
            /\ a.pos = None /\ b.pos # None => Flag(b.pos.side) \in a.pending
<1> DEFINE b == [a EXCEPT !.bar = @ + 1, !.mark = bar.close]
           c == CASE a.kind = "grid" -> GridApplied(b, bar)
                  [] a.kind = "dca"  -> DcaApplied(b, bar)
                  [] a.kind = "rule" -> Held(RiskChecked(RuleApplied(b, bar), bar), bar)
           d == AfterBar(a, bar)
<1>1. IsAccount(b) /\ b.pos = a.pos /\ b.pending = a.pending
  <2>1. /\ b = [f \in AccountFields |-> b[f]]
        /\ b.dca = a.dca /\ b.kind = a.kind /\ b.bar = a.bar + 1 /\ b.orders = a.orders
        /\ b.pos = a.pos /\ b.pending = a.pending
    BY DEF IsAccount, AccountFields
  <2> HIDE DEF b
  <2>2. b.bar \in Nat /\ b.orders \in Seq(Order) /\ b.kind \in Kinds
    BY <2>1 DEF IsAccount
  <2>3. b.dca = [f \in DcaFields |-> b.dca[f]]
    BY <2>1 DEF IsAccount
  <2> QED
    BY <2>1, <2>2, <2>3 DEF IsAccount
<1>2. d = [c EXCEPT !.pending = {}]
  BY DEF AfterBar
<1> HIDE DEF b, d
<1>3. /\ IsAccount(c)
      /\ a.pos = None /\ c.pos # None => Flag(c.pos.side) \in a.pending
  <2>1. CASE a.kind = "grid"
    BY <1>1, <2>1, GridAppliedKeeps
  <2>2. CASE a.kind = "dca"
    BY <1>1, <2>2, DcaAppliedKeeps
  <2>3. CASE a.kind = "rule"
    <3> DEFINE x == RuleApplied(b, bar)
               y == RiskChecked(x, bar)
    <3>1. c = Held(y, bar)
      BY <2>3
    <3>2. /\ IsAccount(x)
          /\ a.pos = None /\ x.pos # None =>
               \E side \in {"long", "short"} :
                 Flag(side) \in a.pending /\ x.pos = NewPosition(side, b.cash, bar.open)
      BY <1>1, RuleAppliedKeeps
    <3> HIDE DEF x
    <3>3. IsAccount(y) /\ y.pos \in {None, x.pos}
      BY <3>2, RiskCheckedKeeps
    <3> HIDE DEF y
    <3>4. /\ IsAccount(c) /\ (y.pos = None => c.pos = None)
          /\ y.pos # None => c.pos = HeldOneBar(y.pos, bar.close)
      BY <3>1, <3>3, HeldKeeps
    <3> HIDE DEF c
    <3>5. ASSUME a.pos = None, c.pos # None PROVE Flag(c.pos.side) \in a.pending
      <4>1. y.pos # None /\ y.pos = x.pos
        BY <3>3, <3>4, <3>5
      <4>2. PICK side \in {"long", "short"} :
              Flag(side) \in a.pending /\ x.pos = NewPosition(side, b.cash, bar.open)
        BY <3>2, <3>5, <4>1
      <4>3. c.pos.side = side
        BY <3>4, <4>1, <4>2, NewPositionHeld
      <4> QED
        BY <4>2, <4>3
    <3> QED
      BY <3>4, <3>5
  <2> QED
    BY <2>1, <2>2, <2>3 DEF IsAccount, Kinds
<1> HIDE DEF c
<1>4. /\ IsAccount(d) /\ d.pending = {} /\ d.pos = c.pos
  BY <1>2, <1>3 DEF IsAccount, AccountFields
<1> QED
  BY <1>3, <1>4 DEF d

-----------------------------------------------------------------------------
(* What an operation does to the books.                                    *)

Holding == [base : Nat, cost : Int, fees : Int, count : Nat, first : Nat]

(* The amounts of an account are integers. *)
Money(a) ==
  /\ a.cash \in Int /\ a.realized \in Int /\ a.fees \in Int /\ a.funding \in Int
  /\ a.mark \in (Nat \ {0}) \cup {None}
  /\ a.pos \in Position \cup {None}
  /\ a.trades \in Seq(Trades)
  /\ DOMAIN a.grid \subseteq Levels /\ a.grid \in [DOMAIN a.grid -> Lot]
  /\ a.dca \in Holding

PosFee(a) == IF a.pos = None THEN 0 ELSE a.pos.fee

Balanced(a) ==
  /\ a.realized = TradePnl(a.trades)
  /\ a.cash = InitialCash + a.realized - SliceCost(a.grid) - DcaCost(a.dca)
  /\ a.fees = TradeFees(a.trades) + SliceFees(a.grid) + DcaFees(a.dca) + PosFee(a)

(* What no operation within a bar changes.                                  *)
SameBar(c, a) ==
  c.kind = a.kind /\ c.bar = a.bar /\ c.mark = a.mark /\ c.pending = a.pending

Sound(a) == IsAccount(a) /\ Money(a) /\ Balanced(a)

(* The sums over the slices of a grid are integers.                         *)
LEMMA SlicesAreIntegers ==
  ASSUME NEW lots, DOMAIN lots \subseteq Levels, lots \in [DOMAIN lots -> Lot]
  PROVE  SliceCost(lots) \in Int /\ SliceFees(lots) \in Int
<1> DEFINE C == [l \in DOMAIN lots |-> LotCost(lots[l])]
           L == [l \in DOMAIN lots |-> lots[l].fee]
<1>1. IsFiniteSet(DOMAIN lots)
  BY FillAssumption, FS_Subset
<1>2. \A l \in DOMAIN lots : C[l] \in Int /\ L[l] \in Int
  BY DEF LotCost, Lot
<1>3. DOMAIN C = DOMAIN lots /\ DOMAIN L = DOMAIN lots
  OBVIOUS
<1> HIDE DEF C, L
<1>4. SumFunctionOnSet(C, DOMAIN lots) \in Int /\ SumFunctionOnSet(L, DOMAIN lots) \in Int
  BY <1>1, <1>2, SumRemove
<1> QED
  BY <1>3, <1>4 DEF SliceCost, SliceFees, SumFunction, C, L

(* So are all the terms of the balance.                                     *)
LEMMA BooksAreIntegers ==
  ASSUME NEW a, Money(a)
  PROVE  /\ TradePnl(a.trades) \in Int /\ TradeFees(a.trades) \in Int
         /\ SliceCost(a.grid) \in Int /\ SliceFees(a.grid) \in Int
         /\ DcaCost(a.dca) \in Int /\ DcaFees(a.dca) \in Int /\ PosFee(a) \in Int
         /\ InitialCash \in Int
<1>1. TradePnl(a.trades) \in Int /\ TradeFees(a.trades) \in Int
  <2>1. \E t : t \in Trades
    <3>1. [side |-> "long", cost |-> 0, exit |-> 0, size |-> 0, pnl |-> 0, fees |-> 0,
           funding |-> 0, held |-> 0, reason |-> "end_of_data"] \in DcaSale
      BY DEF DcaSale, Reasons
    <3> QED
      BY <3>1 DEF Trades
  <2> QED
    BY <2>1, TradesAppend DEF Money
<1>2. DcaCost(a.dca) \in Int /\ DcaFees(a.dca) \in Int
  BY DEF Money, Holding, DcaCost, DcaFees
<1>3. PosFee(a) \in Int
  BY DEF Money, Position, PosFee
<1> QED
  BY <1>1, <1>2, <1>3, SlicesAreIntegers, FillAssumption DEF Money

-----------------------------------------------------------------------------

(* Closing: the cash, the counters and the history move by the same         *)
(* trade.                                                                   *)
LEMMA ClosedSound ==
  ASSUME FillsAreIntegers, NEW a, Sound(a), a.pos \in Position, NEW px \in Int, NEW reason \in Reasons
  PROVE  LET c == Closed(a, px, reason)
         IN /\ Money(c) /\ Balanced(c)
            /\ c.pos = None /\ c.grid = a.grid /\ c.dca = a.dca /\ SameBar(c, a)
<1> DEFINE c == Closed(a, px, reason)
           t == ClosedTrade(a.pos, px, reason)
<1>0. IsAccount(a) /\ Money(a) /\ Balanced(a)
  BY DEF Sound
<1>1. /\ c.cash = a.cash + t.pnl /\ c.realized = a.realized + t.pnl
      /\ c.fees = a.fees + ExitFee(a.pos, px) /\ c.funding = a.funding + t.funding
      /\ c.trades = Append(a.trades, t) /\ c.pos = None
      /\ c.grid = a.grid /\ c.dca = a.dca
      /\ c.kind = a.kind /\ c.bar = a.bar /\ c.mark = a.mark /\ c.pending = a.pending
  BY <1>0 DEF Closed, IsAccount, AccountFields
<1>2. /\ t \in Trade /\ t.fees = a.pos.fee + ExitFee(a.pos, px)
      /\ ExitFee(a.pos, px) \in Int /\ a.pos.fee \in Int
  <2>1. ExitFee(a.pos, px) \in Int /\ Gross(a.pos, px) \in Int
    <3>1. a.pos.entry \in Int /\ a.pos.size \in Int /\ px * a.pos.size \in Int
      BY DEF Position
    <3>2. ExitFee(a.pos, px) \in Int
      BY <3>1 DEF FillsAreIntegers, ExitFee
    <3>3. px - a.pos.entry \in Int /\ a.pos.entry - px \in Int
      BY <3>1
    <3> QED
      BY <3>1, <3>2, <3>3 DEF Gross
  <2> QED
    BY <2>1 DEF ClosedTrade, Trade, Position
<1> HIDE DEF c, t
<1>3. /\ c.trades \in Seq(Trades) /\ t.pnl \in Int /\ t.funding \in Int
      /\ TradePnl(c.trades) = TradePnl(a.trades) + t.pnl
      /\ TradeFees(c.trades) = TradeFees(a.trades) + t.fees
  <2>1. a.trades \in Seq(Trades)
    BY <1>0 DEF Money
  <2>2. t \in Trades
    BY <1>2 DEF Trades
  <2>3. t.pnl \in Int /\ t.funding \in Int
    BY <1>2 DEF Trade
  <2> QED
    BY <1>1, <2>1, <2>2, <2>3, TradesAppend
<1> DEFINE fee == ExitFee(a.pos, px)
<1>7. /\ c.cash = a.cash + t.pnl /\ c.realized = a.realized + t.pnl
      /\ c.fees = a.fees + fee /\ c.funding = a.funding + t.funding
      /\ t.fees = a.pos.fee + fee
      /\ fee \in Int /\ a.pos.fee \in Int /\ t.pnl \in Int /\ t.funding \in Int
      /\ TradeFees(c.trades) = TradeFees(a.trades) + t.fees
  BY <1>1, <1>2, <1>3
<1> HIDE DEF fee
<1>4. Money(c)
  <2>1. a.cash \in Int /\ a.realized \in Int /\ a.fees \in Int /\ a.funding \in Int
    BY <1>0 DEF Money
  <2>2. c.cash \in Int /\ c.realized \in Int /\ c.fees \in Int /\ c.funding \in Int
    BY <1>7, <2>1
  <2> QED
    BY <1>0, <1>1, <1>3, <2>2 DEF Money
<1>5. PosFee(a) = a.pos.fee /\ PosFee(c) = 0
  BY <1>1, FillAssumption DEF PosFee
<1>6. Balanced(c)
  <2>1. /\ TradePnl(a.trades) \in Int /\ TradeFees(a.trades) \in Int
        /\ SliceCost(a.grid) \in Int /\ SliceFees(a.grid) \in Int
        /\ DcaCost(a.dca) \in Int /\ DcaFees(a.dca) \in Int /\ InitialCash \in Int
    BY <1>0, BooksAreIntegers
  <2>2. /\ SliceCost(c.grid) = SliceCost(a.grid) /\ SliceFees(c.grid) = SliceFees(a.grid)
        /\ DcaCost(c.dca) = DcaCost(a.dca) /\ DcaFees(c.dca) = DcaFees(a.dca)
    BY <1>1
  <2>3. /\ a.realized = TradePnl(a.trades)
        /\ a.cash = InitialCash + a.realized - SliceCost(a.grid) - DcaCost(a.dca)
        /\ a.fees = TradeFees(a.trades) + SliceFees(a.grid) + DcaFees(a.dca) + PosFee(a)
    BY <1>0 DEF Balanced
  <2>4. c.realized = TradePnl(c.trades)
    BY <1>1, <1>3, <2>3
  <2>5. c.cash = InitialCash + c.realized - SliceCost(c.grid) - DcaCost(c.dca)
    BY <1>7, <2>1, <2>2, <2>3
  <2>6. c.fees = TradeFees(c.trades) + SliceFees(c.grid) + DcaFees(c.dca) + PosFee(c)
    BY <1>5, <1>7, <2>1, <2>2, <2>3
  <2> QED
    BY <2>4, <2>5, <2>6 DEF Balanced
<1> QED
  BY <1>1, <1>4, <1>6 DEF c, SameBar

(* A new position has integers in it.                                       *)
LEMMA NewPositionTyped ==
  ASSUME FillsAreIntegers, NEW side \in {"long", "short"}, NEW cash \in Int, NEW open \in Int
  PROVE  NewPosition(side, cash, open) \in Position
<1> DEFINE px == Slip(open, side = "short")
           size == TargetSize(cash, px)
           stop == RiskLevel(px, StopDelta(px), side = "long")
           take == RiskLevel(px, TakeDelta(px), side = "short")
<1>1. px \in Int
  BY DEF Slip, FillsAreIntegers
<1> HIDE DEF px
<1>2. size \in Int
  BY <1>1 DEF FillsAreIntegers
<1>3. stop \in Int \cup {None} /\ take \in Int \cup {None}
  BY <1>1 DEF FillsAreIntegers, RiskLevel
<1> HIDE DEF size, stop, take
<1>4. Taker(px * size) \in Int
  BY <1>1, <1>2 DEF FillsAreIntegers
<1>5. NewPosition(side, cash, open) =
        [side |-> side, entry |-> px, size |-> size, fee |-> Taker(px * size),
         stop |-> stop, take |-> take, held |-> 0, funding |-> 0, hours |-> 0]
  BY DEF NewPosition, px, size, stop, take
<1> QED
  BY <1>1, <1>2, <1>3, <1>4, <1>5 DEF Position

(* Opening: the fee is paid into the counter, and stays with the            *)
(* position.                                                                *)
LEMMA OpenedSound ==
  ASSUME FillsAreIntegers, NEW a, Sound(a), a.pos = None, NEW side \in {"long", "short"},
         NEW open \in Int
  PROVE  LET c == Opened(a, side, open)
         IN /\ Money(c) /\ Balanced(c)
            /\ c.grid = a.grid /\ c.dca = a.dca /\ SameBar(c, a)
<1> DEFINE c == Opened(a, side, open)
           p == NewPosition(side, a.cash, open)
<1>0. IsAccount(a) /\ Money(a) /\ Balanced(a) /\ a.cash \in Int
  BY DEF Sound, Money
<1>1. p \in Position
  BY <1>0, NewPositionTyped
<1> HIDE DEF p
<1>2. /\ c.pos = p /\ c.fees = a.fees + p.fee
      /\ c.cash = a.cash /\ c.realized = a.realized /\ c.funding = a.funding
      /\ c.trades = a.trades /\ c.grid = a.grid /\ c.dca = a.dca
      /\ c.kind = a.kind /\ c.bar = a.bar /\ c.mark = a.mark /\ c.pending = a.pending
  BY <1>0 DEF Opened, p, IsAccount, AccountFields
<1> HIDE DEF c
<1>3. p.fee \in Int
  BY <1>1 DEF Position
<1>4. Money(c)
  BY <1>0, <1>1, <1>2, <1>3 DEF Money
<1>5. PosFee(a) = 0 /\ PosFee(c) = p.fee
  BY <1>1, <1>2, FillAssumption DEF PosFee
<1>6. Balanced(c)
  BY <1>0, <1>2, <1>3, <1>5, BooksAreIntegers DEF Balanced, Money
<1> QED
  BY <1>2, <1>4, <1>6 DEF c, SameBar

(* Funding leaves a position a position.                                    *)
LEMMA HeldOneBarTyped ==
  ASSUME FillsAreIntegers, NEW p \in Position, NEW close \in Int
  PROVE  HeldOneBar(p, close) \in Position /\ HeldOneBar(p, close).fee = p.fee
<1> DEFINE hours == p.hours + BarHours
           charge == (hours \div FundingInterval) * FundingCharge(close * p.size)
           paid == IF p.side = "long" THEN p.funding + charge ELSE p.funding - charge
           left == hours % FundingInterval
<1>1. hours \in Int
  BY FillAssumption DEF Position
<1> HIDE DEF hours
<1>2. FundingCharge(close * p.size) \in Int
  BY DEF Position, FillsAreIntegers
<1>3. hours \div FundingInterval \in Int /\ left \in Int
  BY <1>1, FillAssumption
<1>4. charge \in Int
  BY <1>2, <1>3
<1> HIDE DEF charge, left
<1>5. paid \in Int
  BY <1>4 DEF Position
<1>6. HeldOneBar(p, close) =
        IF ~FundingOn THEN [p EXCEPT !.held = @ + 1]
        ELSE [p EXCEPT !.held = @ + 1, !.hours = left, !.funding = paid]
  BY DEF HeldOneBar, hours, charge, left, paid
<1> HIDE DEF paid
<1>7. p.held + 1 \in Int
  BY DEF Position
<1>8. CASE FundingOn
  BY <1>3, <1>5, <1>6, <1>7, <1>8 DEF Position
<1>9. CASE ~FundingOn
  BY <1>6, <1>7, <1>9 DEF Position
<1> QED
  BY <1>8, <1>9

(* Holding for one more bar moves no cash.                                  *)
LEMMA HeldSound ==
  ASSUME FillsAreIntegers, NEW a, Sound(a), NEW bar, bar.close \in Int
  PROVE  LET c == Held(a, bar)
         IN /\ Money(c) /\ Balanced(c)
            /\ c.grid = a.grid /\ c.dca = a.dca /\ SameBar(c, a)
<1>0. IsAccount(a) /\ Money(a) /\ Balanced(a)
  BY DEF Sound
<1>1. CASE a.pos = None
  BY <1>0, <1>1 DEF Held, SameBar
<1>2. CASE a.pos # None
  <2> DEFINE c == Held(a, bar)
             p == HeldOneBar(a.pos, bar.close)
  <2>1. p \in Position /\ p.fee = a.pos.fee
    BY <1>0, <1>2, HeldOneBarTyped DEF Money
  <2> HIDE DEF p
  <2>2. /\ c.pos = p /\ c.fees = a.fees
        /\ c.cash = a.cash /\ c.realized = a.realized /\ c.funding = a.funding
        /\ c.trades = a.trades /\ c.grid = a.grid /\ c.dca = a.dca
        /\ c.kind = a.kind /\ c.bar = a.bar /\ c.mark = a.mark /\ c.pending = a.pending
    BY <1>0, <1>2 DEF Held, p, IsAccount, AccountFields
  <2> HIDE DEF c
  <2>3. Money(c)
    BY <1>0, <2>1, <2>2 DEF Money
  <2>4. PosFee(a) = PosFee(c)
    BY <1>2, <2>1, <2>2, FillAssumption DEF PosFee
  <2>5. Balanced(c)
    BY <1>0, <2>2, <2>4 DEF Balanced
  <2> QED
    BY <2>2, <2>3, <2>5 DEF c, SameBar
<1> QED
  BY <1>1, <1>2

(* A slice has integers in it.                                              *)
LEMMA GridLotTyped ==
  ASSUME FillsAreIntegers, NEW l \in Levels, NEW n \in Nat
  PROVE  LET t == GridLot(l, n) IN t \in Lot /\ LotCost(t) \in Int /\ t.fee \in Int
<1> DEFINE px == SlipUp(l)
           size == GridSize(px)
           fee == Taker(px * size)
<1>1. px \in Int
  BY FillAssumption DEF FillsAreIntegers
<1> HIDE DEF px
<1>2. size \in Int
  BY <1>1 DEF FillsAreIntegers
<1> HIDE DEF size
<1>3. px * size \in Int
  BY <1>1, <1>2
<1>4. fee \in Int
  BY <1>3 DEF FillsAreIntegers
<1> HIDE DEF fee
<1>5. GridLot(l, n) = [size |-> size, px |-> px, fee |-> fee, bar |-> n]
  BY DEF GridLot, px, size, fee
<1>6. px * size + fee \in Int
  BY <1>3, <1>4
<1> QED
  BY <1>1, <1>2, <1>4, <1>5, <1>6 DEF Lot, LotCost

(* Buying slices at levels that hold none: the cash falls by what the       *)
(* slices are booked at.  The levels must be free, or a slice that has      *)
(* been paid for would be lost.                                             *)
LEMMA LotsBoughtSound ==
  ASSUME FillsAreIntegers, NEW a, Sound(a), NEW levels \in SUBSET Levels,
         levels \cap DOMAIN a.grid = {}
  PROVE  LET c == LotsBought(a, levels)
         IN /\ Money(c) /\ Balanced(c)
            /\ c.pos = a.pos /\ c.dca = a.dca /\ SameBar(c, a)
<1> DEFINE c == LotsBought(a, levels)
           held == [l \in DOMAIN a.grid \cup levels |->
                      IF l \in levels THEN GridLot(l, a.bar) ELSE a.grid[l]]
           C == [l \in levels |-> LotCost(held[l])]
           L == [l \in levels |-> held[l].fee]
<1>0. /\ IsAccount(a) /\ Money(a) /\ Balanced(a) /\ a.bar \in Nat
      /\ DOMAIN a.grid \subseteq Levels /\ a.grid \in [DOMAIN a.grid -> Lot]
      /\ a.cash \in Int /\ a.fees \in Int
  BY DEF Sound, IsAccount, Money
<1>1. IsFiniteSet(levels) /\ IsFiniteSet(DOMAIN a.grid)
  BY <1>0, FillAssumption, FS_Subset
<1>2. /\ DOMAIN held = DOMAIN a.grid \cup levels
      /\ \A l \in levels : held[l] = GridLot(l, a.bar)
      /\ \A l \in DOMAIN a.grid : held[l] = a.grid[l]
  OBVIOUS
<1>3. c = [a EXCEPT !.grid = held, !.cash = a.cash - SumFunction(C), !.fees = a.fees + SumFunction(L)]
  BY <1>0 DEF LotsBought, IsAccount, AccountFields
<1>4. DOMAIN C = levels /\ DOMAIN L = levels
  OBVIOUS
<1>5. /\ \A l \in levels : C[l] = LotCost(held[l])
      /\ \A l \in levels : L[l] = held[l].fee
  OBVIOUS
<1> HIDE DEF held, C, L
<1>6. /\ \A l \in DOMAIN held : held[l] \in Lot /\ LotCost(held[l]) \in Int /\ held[l].fee \in Int
      /\ held \in [DOMAIN held -> Lot]
  <2>1. \A t \in Lot : LotCost(t) \in Int /\ t.fee \in Int
    BY DEF Lot, LotCost
  <2>2. \A l \in DOMAIN held : held[l] \in Lot
    BY <1>0, <1>2, GridLotTyped
  <2>3. held = [l \in DOMAIN held |-> held[l]]
    BY DEF held
  <2> QED
    BY <2>1, <2>2, <2>3
<1>7. /\ SliceCost(held) = SliceCost(a.grid) + SumFunction(C)
      /\ SumFunction(C) \in Int
  <2> DEFINE F == [l \in DOMAIN held |-> LotCost(held[l])]
             A == [l \in DOMAIN a.grid |-> LotCost(a.grid[l])]
  <2>1. Splits(F, A, C)
    <3>1. DOMAIN F = DOMAIN held /\ DOMAIN A = DOMAIN a.grid
      OBVIOUS
    <3>2. \A l \in DOMAIN a.grid : A[l] = F[l] /\ F[l] \in Int
      BY <1>2, <1>6
    <3>3. \A l \in levels : C[l] = F[l] /\ F[l] \in Int
      BY <1>2, <1>5, <1>6
    <3> HIDE DEF F, A
    <3> QED
      BY <1>1, <1>2, <1>4, <3>1, <3>2, <3>3 DEF Splits
  <2> HIDE DEF F, A
  <2>2. SumFunction(F) = SumFunction(A) + SumFunction(C) /\ SumFunction(C) \in Int
    BY <2>1, SumSplit
  <2> QED
    BY <2>2 DEF SliceCost, F, A
<1>8. /\ SliceFees(held) = SliceFees(a.grid) + SumFunction(L)
      /\ SumFunction(L) \in Int
  <2> DEFINE F == [l \in DOMAIN held |-> held[l].fee]
             A == [l \in DOMAIN a.grid |-> a.grid[l].fee]
  <2>1. Splits(F, A, L)
    <3>1. DOMAIN F = DOMAIN held /\ DOMAIN A = DOMAIN a.grid
      OBVIOUS
    <3>2. \A l \in DOMAIN a.grid : A[l] = F[l] /\ F[l] \in Int
      BY <1>2, <1>6
    <3>3. \A l \in levels : L[l] = F[l] /\ F[l] \in Int
      BY <1>2, <1>5, <1>6
    <3> HIDE DEF F, A
    <3> QED
      BY <1>1, <1>2, <1>4, <3>1, <3>2, <3>3 DEF Splits
  <2> HIDE DEF F, A
  <2>2. SumFunction(F) = SumFunction(A) + SumFunction(L) /\ SumFunction(L) \in Int
    BY <2>1, SumSplit
  <2> QED
    BY <2>2 DEF SliceFees, F, A
<1>9. /\ c.grid = held /\ c.cash = a.cash - SumFunction(C) /\ c.fees = a.fees + SumFunction(L)
      /\ c.realized = a.realized /\ c.funding = a.funding
      /\ c.trades = a.trades /\ c.pos = a.pos /\ c.dca = a.dca
      /\ c.kind = a.kind /\ c.bar = a.bar /\ c.mark = a.mark /\ c.pending = a.pending
  <2> HIDE DEF c
  <2> QED
    BY <1>0, <1>3 DEF IsAccount, AccountFields
<1> HIDE DEF c
<1>10. Money(c)
  <2>1. c.cash \in Int /\ c.fees \in Int
    BY <1>0, <1>7, <1>8, <1>9
  <2>2. DOMAIN held \subseteq Levels
    BY <1>0, <1>2
  <2> QED
    BY <1>0, <1>6, <1>9, <2>1, <2>2 DEF Money
<1>11. Balanced(c)
  <2>1. /\ TradePnl(a.trades) \in Int /\ TradeFees(a.trades) \in Int
        /\ SliceCost(a.grid) \in Int /\ SliceFees(a.grid) \in Int
        /\ DcaCost(a.dca) \in Int /\ DcaFees(a.dca) \in Int /\ InitialCash \in Int
        /\ PosFee(a) \in Int /\ PosFee(c) = PosFee(a)
    BY <1>0, <1>9, BooksAreIntegers DEF PosFee
  <2>2. /\ a.realized = TradePnl(a.trades)
        /\ a.cash = InitialCash + a.realized - SliceCost(a.grid) - DcaCost(a.dca)
        /\ a.fees = TradeFees(a.trades) + SliceFees(a.grid) + DcaFees(a.dca) + PosFee(a)
    BY <1>0 DEF Balanced
  <2>3. c.cash = InitialCash + c.realized - SliceCost(c.grid) - DcaCost(c.dca)
    BY <1>7, <1>9, <2>1, <2>2
  <2>4. c.fees = TradeFees(c.trades) + SliceFees(c.grid) + DcaFees(c.dca) + PosFee(c)
    BY <1>8, <1>9, <2>1, <2>2
  <2> QED
    BY <1>9, <2>2, <2>3, <2>4 DEF Balanced
<1> QED
  BY <1>9, <1>10, <1>11 DEF c, SameBar

(* The profit of a slice is what comes back of it less what it has cost.    *)
LEMMA LotTradeBalances ==
  ASSUME FillsAreIntegers, NEW lot \in Lot, NEW px \in Int, NEW n \in Nat, NEW reason \in Reasons
  PROVE  LET t == LotTrade(lot, px, n, reason)
             fee == Taker(px * lot.size)
         IN /\ t \in Trades /\ t.pnl \in Int /\ fee \in Int /\ LotCost(lot) \in Int /\ lot.fee \in Int
            /\ px * lot.size - fee = t.pnl + LotCost(lot)
            /\ t.fees = lot.fee + fee
<1> DEFINE fee == Taker(px * lot.size)
           t == LotTrade(lot, px, n, reason)
           x == px * lot.size
           y == lot.px * lot.size
           z == (px - lot.px) * lot.size
<1>1. lot.px \in Int /\ lot.size \in Int /\ lot.fee \in Int /\ lot.bar \in Int
  BY DEF Lot
<1>2. x \in Int /\ y \in Int /\ z \in Int /\ z = x - y
  BY <1>1
<1>3. fee \in Int
  BY <1>2 DEF FillsAreIntegers
<1>4. t = [side |-> "long", entry |-> lot.px, exit |-> px, size |-> lot.size,
           pnl |-> z - lot.fee - fee, fees |-> lot.fee + fee, funding |-> 0,
           held |-> n - lot.bar, reason |-> reason]
  BY DEF LotTrade
<1>5. LotCost(lot) = y + lot.fee
  BY DEF LotCost
<1> HIDE DEF fee, x, y, z, t
<1>6. t \in Trade
  BY <1>1, <1>2, <1>3, <1>4 DEF Trade
<1>7. t.pnl = z - lot.fee - fee /\ t.fees = lot.fee + fee
  BY <1>4
<1>8. x - fee = t.pnl + LotCost(lot) /\ t.pnl \in Int /\ LotCost(lot) \in Int
  BY <1>1, <1>2, <1>3, <1>5, <1>7
<1> QED
  BY <1>1, <1>3, <1>6, <1>7, <1>8 DEF Trades, fee, x, t

(* Selling slices: the proceeds are the cost of the slices and the pnl of   *)
(* the trades, whatever the order they are sold in.                         *)
LEMMA LotsSoldSound ==
  ASSUME FillsAreIntegers, NEW a, Sound(a), NEW levels \in SUBSET (DOMAIN a.grid),
         NEW price \in [levels -> Int], NEW reason \in Reasons
  PROVE  LET c == LotsSold(a, levels, price, reason)
         IN /\ Money(c) /\ Balanced(c)
            /\ c.pos = a.pos /\ c.dca = a.dca /\ SameBar(c, a)
            /\ DOMAIN c.grid = DOMAIN a.grid \ levels
<1> DEFINE c == LotsSold(a, levels, price, reason)
           T == [l \in levels |-> LotTrade(a.grid[l], price[l], a.bar, reason)]
           order == Ascending(levels)
           r == [k \in DOMAIN order |-> T[order[k]]]
           P == [l \in levels |-> T[l].pnl]
           F == [l \in levels |-> T[l].fees]
           E == [l \in levels |-> Taker(price[l] * a.grid[l].size)]
           B == [l \in levels |-> price[l] * a.grid[l].size - Taker(price[l] * a.grid[l].size)]
           C == [l \in levels |-> LotCost(a.grid[l])]
           L == [l \in levels |-> a.grid[l].fee]
           left == [l \in DOMAIN a.grid \ levels |-> a.grid[l]]
<1>0. /\ IsAccount(a) /\ Money(a) /\ Balanced(a) /\ a.bar \in Nat
      /\ DOMAIN a.grid \subseteq Levels /\ a.grid \in [DOMAIN a.grid -> Lot]
      /\ a.cash \in Int /\ a.fees \in Int /\ a.realized \in Int /\ a.trades \in Seq(Trades)
  BY DEF Sound, IsAccount, Money
<1>1. IsFiniteSet(levels) /\ IsFiniteSet(DOMAIN a.grid \ levels) /\ levels \in SUBSET Levels
  BY <1>0, FillAssumption, FS_Subset
<1>2. \A k \in DOMAIN order : order[k] \in levels
  <2>1. \A x \in levels : x \in Int
    BY <1>1, FillAssumption
  <2>2. order \in [1 .. Cardinality(levels) -> levels]
    BY <1>1, <2>1, AscendingOrder
  <2> HIDE DEF order
  <2> QED
    BY <2>2
<1>3. c = [a EXCEPT !.grid = left, !.cash = a.cash + SumFunction(B), !.fees = a.fees + SumFunction(E),
                    !.realized = a.realized + SumFunction(P), !.trades = a.trades \o r]
  <2>1. r = [k \in DOMAIN order |->
               LotTrade(a.grid[order[k]], price[order[k]], a.bar, reason)]
    BY <1>2
  <2>2. P = [l \in levels |-> LotTrade(a.grid[l], price[l], a.bar, reason).pnl]
    OBVIOUS
  <2>3. /\ a.grid = a["grid"] /\ DOMAIN a = AccountFields
    BY <1>0 DEF IsAccount
  <2> HIDE DEF LotTrade, r, P
  <2> QED
    BY <2>1, <2>2, <2>3 DEF LotsSold, AccountFields
<1> HIDE DEF order, left
<1>4. ASSUME NEW l \in levels
      PROVE  /\ T[l] \in Trades /\ P[l] \in Int /\ E[l] \in Int /\ C[l] \in Int /\ L[l] \in Int
             /\ B[l] = P[l] + C[l] /\ F[l] = L[l] + E[l]
  <2> DEFINE lot == a.grid[l]
             t == LotTrade(lot, price[l], a.bar, reason)
             fee == Taker(price[l] * lot.size)
  <2>1. lot \in Lot /\ price[l] \in Int
    BY <1>0
  <2>2. T[l] = t /\ P[l] = t.pnl /\ F[l] = t.fees
    OBVIOUS
  <2>3. E[l] = fee /\ C[l] = LotCost(lot) /\ L[l] = lot.fee /\ B[l] = price[l] * lot.size - fee
    OBVIOUS
  <2>4. /\ t \in Trades /\ t.pnl \in Int /\ fee \in Int /\ LotCost(lot) \in Int /\ lot.fee \in Int
        /\ price[l] * lot.size - fee = t.pnl + LotCost(lot)
        /\ t.fees = lot.fee + fee
    <3> HIDE DEF lot
    <3> QED
      BY <1>0, <2>1, LotTradeBalances
  <2> HIDE DEF lot, t, fee, T, P, E, C, L, B, F
  <2> QED
    BY <2>2, <2>3, <2>4
<1>5. /\ DOMAIN P = levels /\ DOMAIN F = levels /\ DOMAIN E = levels /\ DOMAIN B = levels
      /\ DOMAIN C = levels /\ DOMAIN L = levels /\ DOMAIN T = levels
      /\ P = [l \in levels |-> T[l].pnl] /\ F = [l \in levels |-> T[l].fees]
      /\ C = [l \in levels |-> LotCost(a.grid[l])] /\ L = [l \in levels |-> a.grid[l].fee]
      /\ left = [l \in DOMAIN a.grid \ levels |-> a.grid[l]]
  BY DEF left
<1>6. /\ r \in Seq(Trades) /\ TradePnl(r) = SumFunction(P) /\ TradeFees(r) = SumFunction(F)
  <2> HIDE DEF T
  <2> QED
    BY <1>1, <1>4, TradesOfLevels DEF order
<1> HIDE DEF T, P, F, E, B, C, L, r
<1>7. /\ SumFunction(B) = SumFunction(P) + SumFunction(C)
      /\ SumFunction(P) \in Int /\ SumFunction(C) \in Int
  <2>1. Adds(B, P, C)
    BY <1>1, <1>4, <1>5 DEF Adds
  <2> QED
    BY <2>1, SumAdds
<1>8. /\ SumFunction(F) = SumFunction(L) + SumFunction(E)
      /\ SumFunction(L) \in Int /\ SumFunction(E) \in Int
  <2>1. Adds(F, L, E)
    BY <1>1, <1>4, <1>5 DEF Adds
  <2> QED
    BY <2>1, SumAdds
<1>9. SliceCost(a.grid) = SumFunction(C) + SliceCost(left)
  <2> DEFINE G == [l \in DOMAIN a.grid |-> LotCost(a.grid[l])]
             K == [l \in DOMAIN left |-> LotCost(left[l])]
  <2>1. Splits(G, C, K)
    <3>1. DOMAIN G = DOMAIN a.grid /\ DOMAIN K = DOMAIN a.grid \ levels
      BY <1>5
    <3>2. \A l \in levels : C[l] = G[l] /\ G[l] \in Int
      BY <1>4, <1>5
    <3>3. \A l \in DOMAIN a.grid \ levels : K[l] = G[l] /\ G[l] \in Int
      BY <1>0, <1>5 DEF LotCost, Lot
    <3> HIDE DEF G, K
    <3> QED
      BY <1>1, <1>5, <3>1, <3>2, <3>3 DEF Splits
  <2> HIDE DEF G, K
  <2>2. SumFunction(G) = SumFunction(C) + SumFunction(K)
    BY <2>1, SumSplit
  <2> QED
    BY <2>2 DEF SliceCost, G, K
<1>10. SliceFees(a.grid) = SumFunction(L) + SliceFees(left)
  <2> DEFINE G == [l \in DOMAIN a.grid |-> a.grid[l].fee]
             K == [l \in DOMAIN left |-> left[l].fee]
  <2>1. Splits(G, L, K)
    <3>1. DOMAIN G = DOMAIN a.grid /\ DOMAIN K = DOMAIN a.grid \ levels
      BY <1>5
    <3>2. \A l \in levels : L[l] = G[l] /\ G[l] \in Int
      BY <1>4, <1>5
    <3>3. \A l \in DOMAIN a.grid \ levels : K[l] = G[l] /\ G[l] \in Int
      BY <1>0, <1>5 DEF Lot
    <3> HIDE DEF G, K
    <3> QED
      BY <1>1, <1>5, <3>1, <3>2, <3>3 DEF Splits
  <2> HIDE DEF G, K
  <2>2. SumFunction(G) = SumFunction(L) + SumFunction(K)
    BY <2>1, SumSplit
  <2> QED
    BY <2>2 DEF SliceFees, G, K
<1>11. /\ c.grid = left /\ c.cash = a.cash + SumFunction(B) /\ c.fees = a.fees + SumFunction(E)
       /\ c.realized = a.realized + SumFunction(P) /\ c.trades = a.trades \o r
       /\ c.funding = a.funding /\ c.pos = a.pos /\ c.dca = a.dca
       /\ c.kind = a.kind /\ c.bar = a.bar /\ c.mark = a.mark /\ c.pending = a.pending
  <2> HIDE DEF c
  <2> QED
    BY <1>0, <1>3 DEF IsAccount, AccountFields
<1> HIDE DEF c
<1>12. /\ c.trades \in Seq(Trades) /\ TradePnl(c.trades) = TradePnl(a.trades) + SumFunction(P)
       /\ TradeFees(c.trades) = TradeFees(a.trades) + SumFunction(F)
  BY <1>0, <1>6, <1>11, TradesConcat
<1>13. left \in [DOMAIN left -> Lot] /\ DOMAIN left = DOMAIN a.grid \ levels
  BY <1>0, <1>5
<1>14. /\ c.grid = left /\ c.cash = a.cash + SumFunction(B) /\ c.fees = a.fees + SumFunction(E)
       /\ c.realized = a.realized + SumFunction(P) /\ c.dca = a.dca
       /\ TradePnl(c.trades) = TradePnl(a.trades) + SumFunction(P)
       /\ TradeFees(c.trades) = TradeFees(a.trades) + SumFunction(F)
  BY <1>11, <1>12
<1>15. Money(c)
  <2>0. /\ a.cash \in Int /\ a.fees \in Int /\ a.realized \in Int
        /\ SumFunction(B) \in Int /\ SumFunction(E) \in Int /\ SumFunction(P) \in Int
    BY <1>0, <1>7, <1>8
  <2>1. c.cash \in Int /\ c.fees \in Int /\ c.realized \in Int
    <3>1. /\ c.cash = a.cash + SumFunction(B) /\ c.fees = a.fees + SumFunction(E)
          /\ c.realized = a.realized + SumFunction(P)
      BY <1>14
    <3> HIDE DEF B, E, P
    <3> QED
      BY <2>0, <3>1
  <2>2. DOMAIN left \subseteq Levels
    BY <1>0, <1>13
  <2> QED
    BY <1>0, <1>11, <1>12, <1>13, <2>1, <2>2 DEF Money
<1>16. Balanced(c)
  <2>1. /\ TradePnl(a.trades) \in Int /\ TradeFees(a.trades) \in Int
        /\ SliceCost(left) \in Int /\ SliceFees(left) \in Int
        /\ DcaCost(a.dca) \in Int /\ DcaFees(a.dca) \in Int /\ InitialCash \in Int
        /\ PosFee(a) \in Int /\ PosFee(c) = PosFee(a)
    BY <1>0, <1>11, <1>13, BooksAreIntegers, SlicesAreIntegers DEF PosFee
  <2>2. /\ a.realized = TradePnl(a.trades)
        /\ a.cash = InitialCash + a.realized - SliceCost(a.grid) - DcaCost(a.dca)
        /\ a.fees = TradeFees(a.trades) + SliceFees(a.grid) + DcaFees(a.dca) + PosFee(a)
    BY <1>0 DEF Balanced
  <2>3. c.realized = TradePnl(c.trades)
    BY <1>14, <2>2
  <2>4. c.cash = InitialCash + c.realized - SliceCost(c.grid) - DcaCost(c.dca)
    BY <1>7, <1>9, <1>14, <2>1, <2>2
  <2>5. c.fees = TradeFees(c.trades) + SliceFees(c.grid) + DcaFees(c.dca) + PosFee(c)
    BY <1>8, <1>10, <1>14, <2>1, <2>2
  <2> QED
    BY <2>3, <2>4, <2>5 DEF Balanced
<1> QED
  BY <1>11, <1>13, <1>15, <1>16 DEF c, SameBar

(* What is not held has cost nothing, until the session has ended.          *)
Fresh(a) == a.dca.base = 0 => a.dca.cost = 0 /\ a.dca.fees = 0

Means(a) == a.kind = "dca" => a.cash >= 0 /\ (DcaMax = None \/ a.dca.count <= DcaMax)

(* A DCA purchase spends no more than the cash there is.                    *)
LEMMA DcaAppliedSound ==
  ASSUME FillsAreIntegers, FillsAreFair, NEW a, Sound(a), Fresh(a), Means(a), a.kind = "dca",
         NEW bar, bar.open \in Nat \ {0}
  PROVE  LET c == DcaApplied(a, bar)
         IN /\ Money(c) /\ Balanced(c) /\ Fresh(c) /\ Means(c)
            /\ c.pos = a.pos /\ c.grid = a.grid /\ SameBar(c, a)
<1> DEFINE c == DcaApplied(a, bar)
           spend == DcaSpend(a.cash)
           d == DcaBought(a.dca, spend, bar.open, a.bar)
           buys == Flag("dca") \in a.pending /\ ~DcaCapped(a.dca) /\ spend > 0
           q == DcaQty(spend - Taker(spend), SlipUp(bar.open))
           fee == Taker(spend)
<1>0. /\ IsAccount(a) /\ Money(a) /\ Balanced(a) /\ a.bar \in Nat /\ a.cash \in Int /\ a.fees \in Int
      /\ a.dca \in Holding
  BY DEF Sound, IsAccount, Money
<1>1. c = IF ~buys THEN a ELSE [a EXCEPT !.dca = d, !.fees = a.fees + fee, !.cash = a.cash - spend]
  BY <1>0 DEF DcaApplied, IsAccount, AccountFields
<1>2. CASE ~buys
  BY <1>0, <1>1, <1>2 DEF SameBar
<1>3. CASE buys
  <2>1. spend \in Nat \ {0} /\ spend <= a.cash /\ ~DcaCapped(a.dca)
    BY <1>0, <1>3, FillAssumption DEF DcaSpend
  <2> HIDE DEF spend
  <2>2. fee \in Int /\ q \in Nat \ {0}
    BY <2>1 DEF FillsAreFair
  <2> HIDE DEF fee, q
  <2>3. d = [base |-> a.dca.base + q, cost |-> a.dca.cost + spend, fees |-> a.dca.fees + fee,
             count |-> a.dca.count + 1,
             first |-> IF a.dca.count = 0 THEN a.bar ELSE a.dca.first]
    BY DEF DcaBought, q, fee
  <2> HIDE DEF d
  <2>4. /\ a.dca.base \in Nat /\ a.dca.cost \in Int /\ a.dca.fees \in Int
        /\ a.dca.count \in Nat /\ a.dca.first \in Nat
    BY <1>0 DEF Holding
  <2>5. d \in Holding /\ d.base > 0
    BY <1>0, <2>1, <2>2, <2>3, <2>4 DEF Holding
  <2>6. DcaCost(d) = DcaCost(a.dca) + spend /\ DcaFees(d) = DcaFees(a.dca) + fee
    BY <2>1, <2>2, <2>3, <2>4, <2>5 DEF Fresh, DcaCost, DcaFees
  <2>7. /\ c.dca = d /\ c.fees = a.fees + fee /\ c.cash = a.cash - spend
        /\ c.pos = a.pos /\ c.grid = a.grid /\ c.trades = a.trades /\ c.realized = a.realized
        /\ c.funding = a.funding
        /\ c.kind = a.kind /\ c.bar = a.bar /\ c.mark = a.mark /\ c.pending = a.pending
    BY <1>0, <1>1, <1>3 DEF IsAccount, AccountFields
  <2> HIDE DEF c
  <2>8. Money(c)
    <3>1. c.cash \in Int /\ c.fees \in Int
      BY <1>0, <2>1, <2>2, <2>7
    <3> QED
      BY <1>0, <2>5, <2>7, <3>1 DEF Money
  <2>9. Balanced(c)
    <3>1. /\ TradePnl(a.trades) \in Int /\ TradeFees(a.trades) \in Int
          /\ SliceCost(a.grid) \in Int /\ SliceFees(a.grid) \in Int
          /\ DcaCost(a.dca) \in Int /\ DcaFees(a.dca) \in Int /\ InitialCash \in Int
          /\ PosFee(a) \in Int /\ PosFee(c) = PosFee(a)
      BY <1>0, <2>7, BooksAreIntegers DEF PosFee
    <3>2. /\ a.realized = TradePnl(a.trades)
          /\ a.cash = InitialCash + a.realized - SliceCost(a.grid) - DcaCost(a.dca)
          /\ a.fees = TradeFees(a.trades) + SliceFees(a.grid) + DcaFees(a.dca) + PosFee(a)
      BY <1>0 DEF Balanced
    <3>3. c.cash = InitialCash + c.realized - SliceCost(c.grid) - DcaCost(c.dca)
      BY <2>1, <2>6, <2>7, <3>1, <3>2
    <3>4. c.fees = TradeFees(c.trades) + SliceFees(c.grid) + DcaFees(c.dca) + PosFee(c)
      BY <2>2, <2>6, <2>7, <3>1, <3>2
    <3> QED
      BY <2>7, <3>2, <3>3, <3>4 DEF Balanced
  <2>10. Fresh(c)
    BY <2>5, <2>7 DEF Fresh, Holding
  <2>11. Means(c)
    <3>1. c.cash >= 0
      BY <1>0, <2>1, <2>7
    <3>2. DcaMax = None \/ c.dca.count <= DcaMax
      BY <2>1, <2>3, <2>4, <2>7, FillAssumption DEF DcaCapped
    <3> QED
      BY <3>1, <3>2 DEF Means
  <2> QED
    BY <2>7, <2>8, <2>9, <2>10, <2>11 DEF c, SameBar
<1> QED
  BY <1>2, <1>3

(* Selling a DCA holding: what it had cost comes back with the pnl.         *)
LEMMA DcaSoldSound ==
  ASSUME FillsAreIntegers, FillsAreFair, NEW a, Sound(a), Means(a), a.dca.base > 0,
         a.mark \in Nat \ {0}
  PROVE  LET c == DcaSold(a)
         IN /\ Money(c) /\ Balanced(c) /\ Means(c) /\ c.dca.base = 0
            /\ c.pos = a.pos /\ c.grid = a.grid /\ SameBar(c, a)
<1> DEFINE c == DcaSold(a)
           px == SlipDown(a.mark)
           t == DcaTrade(a.dca, px, a.bar)
           fee == Taker(px * a.dca.base)
           back == DcaProceeds(a.dca, px)
           d == [a.dca EXCEPT !.base = 0]
<1>0. /\ IsAccount(a) /\ Money(a) /\ Balanced(a) /\ a.bar \in Nat /\ a.cash \in Int /\ a.fees \in Int
      /\ a.realized \in Int /\ a.dca \in Holding /\ a.trades \in Seq(Trades)
  BY DEF Sound, IsAccount, Money
<1>1. /\ a.dca.base \in Nat /\ a.dca.cost \in Int /\ a.dca.fees \in Int
      /\ a.dca.count \in Nat /\ a.dca.first \in Nat
  BY <1>0 DEF Holding
<1>2. px \in Nat
  BY DEF FillsAreFair
<1> HIDE DEF px
<1>3. px * a.dca.base \in Nat
  BY <1>1, <1>2
<1>4. fee \in Int /\ back \in Nat /\ back = px * a.dca.base - fee
  <2>1. fee \in 0 .. px * a.dca.base
    BY <1>3 DEF FillsAreFair
  <2>2. back = px * a.dca.base - fee
    BY DEF DcaProceeds
  <2> HIDE DEF fee, back
  <2> QED
    BY <1>3, <2>1, <2>2
<1>5. t = [side |-> "long", cost |-> a.dca.cost, exit |-> px, size |-> a.dca.base,
           pnl |-> back - a.dca.cost, fees |-> a.dca.fees + fee, funding |-> 0,
           held |-> a.bar - a.dca.first, reason |-> "end_of_data"]
  BY DEF DcaTrade
<1> HIDE DEF fee, back, t
<1>6. t \in Trades /\ t.pnl = back - a.dca.cost /\ t.fees = a.dca.fees + fee
  <2>0. a.bar \in Nat /\ back \in Nat /\ fee \in Int
    BY <1>0, <1>4
  <2>1. /\ back - a.dca.cost \in Int /\ a.dca.fees + fee \in Int /\ a.bar - a.dca.first \in Int
        /\ px \in Int /\ a.dca.base \in Int
    BY <1>1, <1>2, <2>0
  <2>2. t \in DcaSale
    BY <1>1, <1>5, <2>1 DEF DcaSale, Reasons
  <2> QED
    BY <1>5, <2>2 DEF Trades
<1>7. /\ c.cash = a.cash + back /\ c.fees = a.fees + fee /\ c.realized = a.realized + t.pnl
      /\ c.trades = Append(a.trades, t) /\ c.dca = d /\ c.funding = a.funding
      /\ c.pos = a.pos /\ c.grid = a.grid
      /\ c.kind = a.kind /\ c.bar = a.bar /\ c.mark = a.mark /\ c.pending = a.pending
  BY <1>0 DEF DcaSold, px, fee, back, t, IsAccount, AccountFields
<1>8. d \in Holding /\ d.base = 0 /\ d.count = a.dca.count
  BY <1>0 DEF Holding
<1> HIDE DEF c, d
<1>9. /\ c.trades \in Seq(Trades) /\ TradePnl(c.trades) = TradePnl(a.trades) + t.pnl
      /\ TradeFees(c.trades) = TradeFees(a.trades) + t.fees /\ t.pnl \in Int /\ t.fees \in Int
  BY <1>0, <1>6, <1>7, TradesAppend
<1>10. /\ c.cash = a.cash + back /\ c.fees = a.fees + fee /\ c.realized = a.realized + t.pnl
       /\ TradePnl(c.trades) = TradePnl(a.trades) + t.pnl
       /\ TradeFees(c.trades) = TradeFees(a.trades) + t.fees
       /\ t.pnl = back - a.dca.cost /\ t.fees = a.dca.fees + fee
  BY <1>6, <1>7, <1>9
<1>11. Money(c)
  <2>1. a.cash \in Int /\ a.fees \in Int /\ a.realized \in Int /\ t.pnl \in Int
    BY <1>0, <1>9
  <2>2. c.cash \in Int
    <3>1. back \in Int /\ c.cash = a.cash + back
      BY <1>4, <1>10
    <3> QED
      BY <2>1, <3>1
  <2>3. c.fees \in Int /\ c.realized \in Int
    <3>1. fee \in Int /\ c.fees = a.fees + fee /\ c.realized = a.realized + t.pnl
      BY <1>4, <1>10
    <3> QED
      BY <2>1, <3>1
  <2> QED
    BY <1>0, <1>7, <1>8, <1>9, <2>2, <2>3 DEF Money
<1>12. Balanced(c)
  <2>1. /\ TradePnl(a.trades) \in Int /\ TradeFees(a.trades) \in Int
        /\ SliceCost(a.grid) \in Int /\ SliceFees(a.grid) \in Int /\ InitialCash \in Int
        /\ PosFee(a) \in Int /\ PosFee(c) = PosFee(a)
        /\ SliceCost(c.grid) = SliceCost(a.grid) /\ SliceFees(c.grid) = SliceFees(a.grid)
    BY <1>0, <1>7, BooksAreIntegers DEF PosFee
  <2>2. /\ a.realized = TradePnl(a.trades)
        /\ a.cash = InitialCash + a.realized - SliceCost(a.grid) - DcaCost(a.dca)
        /\ a.fees = TradeFees(a.trades) + SliceFees(a.grid) + DcaFees(a.dca) + PosFee(a)
    BY <1>0 DEF Balanced
  <2>3. /\ DcaCost(a.dca) = a.dca.cost /\ DcaFees(a.dca) = a.dca.fees
        /\ DcaCost(c.dca) = 0 /\ DcaFees(c.dca) = 0
    BY <1>7, <1>8 DEF DcaCost, DcaFees
  <2>4. c.realized = TradePnl(c.trades)
    BY <1>10, <2>2
  <2>5. c.cash = InitialCash + c.realized - SliceCost(c.grid) - DcaCost(c.dca)
    BY <1>1, <1>4, <1>10, <2>1, <2>2, <2>3
  <2>6. c.fees = TradeFees(c.trades) + SliceFees(c.grid) + DcaFees(c.dca) + PosFee(c)
    BY <1>1, <1>4, <1>10, <2>1, <2>2, <2>3
  <2> QED
    BY <2>4, <2>5, <2>6 DEF Balanced
<1>13. Means(c)
  <2>1. a.kind = "dca" => c.cash >= 0
    BY <1>0, <1>4, <1>10 DEF Means
  <2> QED
    BY <1>7, <1>8, <2>1 DEF Means
<1> QED
  BY <1>7, <1>8, <1>11, <1>12, <1>13 DEF c, SameBar

-----------------------------------------------------------------------------
(* A bar, and the end of the session.                                      *)

OneKind(a) ==
  /\ a.kind # "rule" => a.pos = None
  /\ a.kind # "grid" => DOMAIN a.grid = {}
  /\ a.kind # "dca"  => a.dca.base = 0

IsBar(bar) == /\ bar.open \in Nat \ {0} /\ bar.high \in Nat \ {0}
              /\ bar.low \in Nat \ {0} /\ bar.close \in Nat \ {0}

(* The intents of a bar, its stop and target, and the whole bar of an       *)
(* account with a position.                                                 *)
LEMMA RuleAppliedSound ==
  ASSUME FillsAreIntegers, NEW a, Sound(a), NEW bar, IsBar(bar)
  PROVE  LET c == RuleApplied(a, bar)
         IN Sound(c) /\ c.grid = a.grid /\ c.dca = a.dca /\ SameBar(c, a)
<1> DEFINE against == IF a.pos = None THEN "none"
                      ELSE IF a.pos.side = "long" THEN "short" ELSE "long"
           leave == a.pos # None /\ a.pending \cap {Flag("exit"), Flag(against)} # {}
           px == Slip(bar.open, a.pos.side = "long")
           b == IF leave THEN Closed(a, px, "signal") ELSE a
           c == RuleApplied(a, bar)
<1>1. c = IF b.pos # None THEN b
          ELSE IF Flag("long") \in a.pending THEN Opened(b, "long", bar.open)
          ELSE IF Flag("short") \in a.pending THEN Opened(b, "short", bar.open)
          ELSE b
  BY DEF RuleApplied
<1>2. px \in Int /\ bar.open \in Int /\ "signal" \in Reasons
  <2>1. bar.open \in Int
    BY DEF IsBar
  <2>2. SlipUp(bar.open) \in Int /\ SlipDown(bar.open) \in Int
    BY <2>1 DEF FillsAreIntegers
  <2>3. px = SlipUp(bar.open) \/ px = SlipDown(bar.open)
    BY DEF Slip
  <2>4. "signal" \in Reasons
    BY DEF Reasons
  <2> HIDE DEF px
  <2> QED
    BY <2>1, <2>2, <2>3, <2>4
<1> HIDE DEF px
<1>3. Sound(b) /\ b.grid = a.grid /\ b.dca = a.dca /\ SameBar(b, a)
  <2>1. CASE leave
    <3>1. a.pos \in Position /\ IsAccount(a)
      BY <2>1 DEF Sound, Money
    <3>2. IsAccount(Closed(a, px, "signal"))
      BY <3>1, ClosedKeeps
    <3>3. /\ Money(Closed(a, px, "signal")) /\ Balanced(Closed(a, px, "signal"))
          /\ Closed(a, px, "signal").grid = a.grid /\ Closed(a, px, "signal").dca = a.dca
          /\ SameBar(Closed(a, px, "signal"), a)
      BY <1>2, <3>1, ClosedSound
    <3> QED
      BY <2>1, <3>2, <3>3 DEF Sound
  <2>2. CASE ~leave
    BY <2>2 DEF SameBar
  <2> QED
    BY <2>1, <2>2
<1> HIDE DEF b
<1>4. ASSUME b.pos = None, NEW side \in {"long", "short"}, c = Opened(b, side, bar.open)
      PROVE  Sound(c) /\ c.grid = a.grid /\ c.dca = a.dca /\ SameBar(c, a)
  <2> HIDE DEF c
  <2>1. IsAccount(b)
    BY <1>3 DEF Sound
  <2>2. IsAccount(c)
    BY <1>4, <2>1, OpenedKeeps
  <2>3. Money(c) /\ Balanced(c) /\ c.grid = b.grid /\ c.dca = b.dca /\ SameBar(c, b)
    BY <1>2, <1>3, <1>4, OpenedSound
  <2> QED
    BY <1>3, <2>2, <2>3 DEF Sound, SameBar
<1> HIDE DEF c
<1> QED
  BY <1>1, <1>3, <1>4 DEF c

(* A stop that closes the position books its costs; the rest stays.        *)
LEMMA RiskCheckedSound ==
  ASSUME FillsAreIntegers, NEW a, Sound(a), NEW bar, IsBar(bar)
  PROVE  LET c == RiskChecked(a, bar)
         IN Sound(c) /\ c.grid = a.grid /\ c.dca = a.dca /\ SameBar(c, a)
<1> DEFINE hit == IF a.pos = None THEN None ELSE RiskExit(a.pos, bar)
           c == RiskChecked(a, bar)
<1>0. IsAccount(a) /\ a.pos \in Position \cup {None}
  BY DEF Sound, Money
<1>1. c = IF hit = None THEN a ELSE Closed(a, hit.px, hit.reason)
  BY DEF RiskChecked
<1>2. hit # None => a.pos \in Position /\ hit.px \in Int /\ hit.reason \in Reasons
  <2>1. CASE a.pos = None
    BY <2>1
  <2>2. CASE a.pos \in Position /\ a.pos # None
    <3>1. hit = RiskExit(a.pos, bar) /\ a.pos.stop \in Int \cup {None} /\ a.pos.take \in Int \cup {None}
      BY <2>2 DEF Position
    <3>2. \/ hit = None
          \/ a.pos.stop # None /\ hit = [px |-> a.pos.stop, reason |-> "stop_loss"]
          \/ a.pos.take # None /\ hit = [px |-> a.pos.take, reason |-> "take_profit"]
      BY <3>1 DEF RiskExit
    <3> HIDE DEF hit
    <3> QED
      BY <2>2, <3>1, <3>2 DEF Reasons
  <2> QED
    BY <1>0, <2>1, <2>2
<1> HIDE DEF hit, c
<1>3. CASE hit = None
  BY <1>1, <1>3 DEF c, SameBar
<1>4. CASE hit # None
  <2>1. IsAccount(c)
    BY <1>0, <1>1, <1>4, ClosedKeeps
  <2>2. Money(c) /\ Balanced(c) /\ c.grid = a.grid /\ c.dca = a.dca /\ SameBar(c, a)
    BY <1>1, <1>2, <1>4, ClosedSound
  <2> QED
    BY <2>1, <2>2 DEF Sound, c
<1> QED
  BY <1>3, <1>4

(* A bar of a rule strategy keeps the books of the account.                *)
LEMMA RuleBarSound ==
  ASSUME FillsAreIntegers, NEW a, Sound(a), NEW bar, IsBar(bar)
  PROVE  LET c == Held(RiskChecked(RuleApplied(a, bar), bar), bar)
         IN Sound(c) /\ c.grid = a.grid /\ c.dca = a.dca /\ SameBar(c, a)
<1> DEFINE x == RuleApplied(a, bar)
           y == RiskChecked(x, bar)
           c == Held(y, bar)
<1>1. Sound(x) /\ x.grid = a.grid /\ x.dca = a.dca /\ SameBar(x, a)
  BY RuleAppliedSound
<1> HIDE DEF x
<1>2. Sound(y) /\ y.grid = x.grid /\ y.dca = x.dca /\ SameBar(y, x)
  BY <1>1, RiskCheckedSound
<1> HIDE DEF y
<1>3. IsAccount(c)
  BY <1>2, HeldKeeps DEF Sound
<1>4. Money(c) /\ Balanced(c) /\ c.grid = y.grid /\ c.dca = y.dca /\ SameBar(c, y)
  <2>1. bar.close \in Int
    BY DEF IsBar
  <2> QED
    BY <1>2, <2>1, HeldSound
<1> HIDE DEF c
<1> QED
  BY <1>1, <1>2, <1>3, <1>4 DEF Sound, SameBar, x, y, c

(* A slice is sold at a level of the grid.                                  *)
LEMMA GridTargetTyped ==
  ASSUME NEW level
  PROVE  GridTarget(level) \in Levels \cup {None}
<1> DEFINE above == {l \in Levels : l > level}
<1>1. CASE above = {}
  BY <1>1 DEF GridTarget
<1>2. CASE above # {}
  <2>1. IsFiniteSet(above) /\ \A x \in above : x \in Int
    BY FillAssumption, FS_Subset
  <2>2. GridTarget(level) = CHOOSE l \in above : \A x \in above : l <= x
    BY <1>2 DEF GridTarget
  <2>3. above \subseteq Levels
    OBVIOUS
  <2> HIDE DEF above
  <2>4. PICK s : Ascends(s, above)
    BY <2>1, AscendingExists
  <2>5. PICK y \in above : TRUE
    BY <1>2
  <2>6. \E l \in above : \A x \in above : l <= x
    BY <2>1, <2>4, Lowest
  <2> QED
    BY <2>2, <2>3, <2>6
<1> QED
  BY <1>1, <1>2

(* A whole bar of a grid account.                                           *)
LEMMA GridAppliedSound ==
  ASSUME FillsAreIntegers, NEW a, Sound(a), NEW bar
  PROVE  LET c == GridApplied(a, bar)
         IN Sound(c) /\ c.pos = a.pos /\ c.dca = a.dca /\ SameBar(c, a)
<1> DEFINE levels == LevelsWanted(a) \ DOMAIN a.grid
           b == LotsBought(a, levels)
           due == {l \in DOMAIN b.grid : GridTarget(l) # None /\ bar.close >= GridTarget(l)}
           price == [l \in due |-> SlipDown(GridTarget(l))]
           c == GridApplied(a, bar)
<1>1. levels \in SUBSET Levels /\ levels \cap DOMAIN a.grid = {} /\ IsAccount(a)
  BY DEF LevelsWanted, Sound
<1>2. c = LotsSold(b, due, price, "take_profit")
  BY DEF GridApplied
<1> HIDE DEF levels, c
<1>3. Money(b) /\ Balanced(b) /\ b.pos = a.pos /\ b.dca = a.dca /\ SameBar(b, a)
  BY <1>1, LotsBoughtSound
<1>4. Sound(b) /\ IsAccount(b)
  BY <1>1, <1>3, LotsBoughtKeeps DEF Sound
<1> HIDE DEF b
<1>5. due \in SUBSET (DOMAIN b.grid) /\ price \in [due -> Int] /\ "take_profit" \in Reasons
  <2>1. ASSUME NEW l \in due PROVE SlipDown(GridTarget(l)) \in Int
    <3>1. GridTarget(l) \in Int
      BY GridTargetTyped, FillAssumption
    <3> QED
      BY <3>1 DEF FillsAreIntegers
  <2>2. due \in SUBSET (DOMAIN b.grid)
    OBVIOUS
  <2> HIDE DEF due
  <2> QED
    BY <2>1, <2>2 DEF Reasons
<1> HIDE DEF due, price
<1>6. Money(c) /\ Balanced(c) /\ c.pos = b.pos /\ c.dca = b.dca /\ SameBar(c, b)
  BY <1>2, <1>4, <1>5, LotsSoldSound
<1>7. IsAccount(c)
  BY <1>2, <1>4, LotsSoldKeeps
<1> QED
  BY <1>3, <1>6, <1>7 DEF Sound, SameBar, c

(* What the books need besides: an account holds what its kind trades in,   *)
(* and holds nothing before its first bar.                                  *)
Marked(a) ==
  a.mark = None => a.pos = None /\ DOMAIN a.grid = {} /\ a.dca.base = 0

Proper(a) == Sound(a) /\ OneKind(a) /\ Marked(a) /\ Means(a) /\ a.pending \subseteq Intents

(* The account with which a bar is entered.                                 *)
Dated(a, bar) == [a EXCEPT !.bar = @ + 1, !.mark = bar.close]

(* What a bar makes of it.                                                  *)
Filled(b, bar) ==
  CASE b.kind = "grid" -> GridApplied(b, bar)
    [] b.kind = "dca"  -> DcaApplied(b, bar)
    [] b.kind = "rule" -> Held(RiskChecked(RuleApplied(b, bar), bar), bar)

(* A bar is dated and marked before anything is filled.                     *)
LEMMA DatedSound ==
  ASSUME NEW a, Proper(a), NEW bar, IsBar(bar)
  PROVE  LET b == Dated(a, bar)
         IN /\ Sound(b) /\ Means(b) /\ OneKind(b) /\ (Fresh(a) => Fresh(b))
            /\ b.kind = a.kind /\ b.bar = a.bar + 1 /\ b.mark = bar.close /\ b.mark # None
            /\ b.cash = a.cash /\ b.pos = a.pos /\ b.trades = a.trades
            /\ b.grid = a.grid /\ b.dca = a.dca /\ b.pending = a.pending
<1> DEFINE b == Dated(a, bar)
<1>0. IsAccount(a) /\ Money(a) /\ Balanced(a)
  BY DEF Proper, Sound
<1>1. /\ b = [f \in AccountFields |-> b[f]]
      /\ b.kind = a.kind /\ b.bar = a.bar + 1 /\ b.mark = bar.close
      /\ b.cash = a.cash /\ b.pos = a.pos /\ b.trades = a.trades /\ b.orders = a.orders
      /\ b.realized = a.realized /\ b.fees = a.fees /\ b.funding = a.funding
      /\ b.pending = a.pending /\ b.grid = a.grid /\ b.dca = a.dca
  BY <1>0 DEF Dated, IsAccount, AccountFields
<1> HIDE DEF b
<1>2. IsAccount(b)
  <2>1. b.bar \in Nat /\ b.kind \in Kinds /\ b.orders \in Seq(Order)
    BY <1>0, <1>1 DEF IsAccount
  <2>2. b.dca = [f \in DcaFields |-> b.dca[f]]
    BY <1>0, <1>1 DEF IsAccount
  <2> QED
    BY <1>1, <2>1, <2>2 DEF IsAccount
<1>3. bar.close \in Nat \ {0} /\ b.mark # None
  BY <1>1, FillAssumption DEF IsBar
<1>4. Money(b)
  BY <1>0, <1>1, <1>3 DEF Money
<1>5. Balanced(b)
  BY <1>0, <1>1 DEF Balanced, PosFee
<1>6. Means(b) /\ OneKind(b) /\ (Fresh(a) => Fresh(b))
  BY <1>1 DEF Proper, Means, OneKind, Fresh
<1> QED
  BY <1>1, <1>2, <1>3, <1>4, <1>5, <1>6 DEF Sound, b

(* The whole bar, whatever the kind of the account.                         *)
LEMMA FilledSound ==
  ASSUME FillsAreIntegers, FillsAreFair, NEW b, Sound(b), Means(b), Fresh(b), OneKind(b),
         NEW bar, IsBar(bar)
  PROVE  LET c == Filled(b, bar)
         IN Sound(c) /\ OneKind(c) /\ Means(c) /\ Fresh(c) /\ SameBar(c, b)
<1> DEFINE c == Filled(b, bar)
<1>1. CASE b.kind = "grid"
  <2>1. c = GridApplied(b, bar)
    BY <1>1 DEF Filled
  <2> HIDE DEF c
  <2>2. Sound(c) /\ c.pos = b.pos /\ c.dca = b.dca /\ SameBar(c, b)
    BY <2>1, GridAppliedSound
  <2>3. c.kind = "grid"
    BY <1>1, <2>2 DEF SameBar
  <2>4. OneKind(c) /\ Means(c) /\ Fresh(c)
    BY <1>1, <2>2, <2>3 DEF OneKind, Means, Fresh
  <2> QED
    BY <2>2, <2>4 DEF c
<1>2. CASE b.kind = "dca"
  <2>1. c = DcaApplied(b, bar)
    BY <1>2 DEF Filled
  <2> HIDE DEF c
  <2>2. IsAccount(c)
    BY <2>1, DcaAppliedKeeps DEF Sound
  <2>3. bar.open \in Nat \ {0}
    BY DEF IsBar
  <2>4. /\ Money(c) /\ Balanced(c) /\ Fresh(c) /\ Means(c)
        /\ c.pos = b.pos /\ c.grid = b.grid /\ SameBar(c, b)
    BY <1>2, <2>1, <2>3, DcaAppliedSound
  <2>5. OneKind(c)
    BY <1>2, <2>4 DEF OneKind, SameBar
  <2> QED
    BY <2>2, <2>4, <2>5 DEF Sound, c
<1>3. CASE b.kind = "rule"
  <2>1. c = Held(RiskChecked(RuleApplied(b, bar), bar), bar)
    BY <1>3 DEF Filled
  <2> HIDE DEF c
  <2>2. Sound(c) /\ c.grid = b.grid /\ c.dca = b.dca /\ SameBar(c, b)
    BY <2>1, RuleBarSound
  <2>3. c.kind = "rule"
    BY <1>3, <2>2 DEF SameBar
  <2>4. OneKind(c) /\ Means(c) /\ Fresh(c)
    BY <1>3, <2>2, <2>3 DEF OneKind, Means, Fresh
  <2> QED
    BY <2>2, <2>4 DEF c
<1>4. b.kind \in {"rule", "grid", "dca"}
  BY DEF Sound, IsAccount, Kinds
<1> QED
  BY <1>1, <1>2, <1>3, <1>4

(* The intents are forgotten after they have been acted on.                 *)
LEMMA AfterBarIs ==
  ASSUME NEW a, Proper(a), NEW bar, IsBar(bar)
  PROVE  AfterBar(a, bar) = [Filled(Dated(a, bar), bar) EXCEPT !.pending = {}]
<1>1. Dated(a, bar).kind = a.kind
  BY DatedSound
<1> QED
  BY <1>1 DEF AfterBar, Filled, Dated

(* A bar keeps the books.                                                   *)
LEMMA AfterBarSound ==
  ASSUME FillsAreIntegers, FillsAreFair, NEW a, Proper(a), Fresh(a), NEW bar, IsBar(bar)
  PROVE  LET c == Filled(Dated(a, bar), bar)
             d == AfterBar(a, bar)
         IN /\ Proper(d) /\ Fresh(d)
            /\ d.kind = a.kind /\ d.bar = a.bar + 1 /\ d.mark = bar.close /\ d.mark # None
            /\ d.cash = c.cash /\ d.pos = c.pos /\ d.trades = c.trades
            /\ d.grid = c.grid /\ d.dca = c.dca /\ d.pending = {}
<1> DEFINE b == Dated(a, bar)
           c == Filled(b, bar)
           d == AfterBar(a, bar)
<1>1. /\ Sound(b) /\ Means(b) /\ OneKind(b) /\ Fresh(b)
      /\ b.kind = a.kind /\ b.bar = a.bar + 1 /\ b.mark = bar.close /\ b.mark # None
  BY DatedSound
<1>2. d = [c EXCEPT !.pending = {}]
  BY AfterBarIs
<1> HIDE DEF b, d
<1>4. Sound(c) /\ OneKind(c) /\ Means(c) /\ Fresh(c) /\ SameBar(c, b)
  BY <1>1, FilledSound
<1> HIDE DEF c
<1>5. /\ d = [f \in AccountFields |-> d[f]]
      /\ d.kind = c.kind /\ d.bar = c.bar /\ d.mark = c.mark
      /\ d.cash = c.cash /\ d.pos = c.pos /\ d.trades = c.trades /\ d.orders = c.orders
      /\ d.realized = c.realized /\ d.fees = c.fees /\ d.funding = c.funding
      /\ d.pending = {} /\ d.grid = c.grid /\ d.dca = c.dca
  BY <1>2, <1>4 DEF Sound, IsAccount, AccountFields
<1>6. IsAccount(d)
  BY <1>4, <1>5 DEF Sound, IsAccount
<1>7. Money(d) /\ Balanced(d)
  BY <1>4, <1>5 DEF Sound, Money, Balanced, PosFee
<1>8. Means(d) /\ Fresh(d) /\ OneKind(d)
  BY <1>4, <1>5 DEF Means, Fresh, OneKind
<1>9. Marked(d) /\ d.kind = a.kind /\ d.bar = a.bar + 1 /\ d.mark = bar.close /\ d.mark # None
  BY <1>1, <1>4, <1>5 DEF Marked, SameBar
<1> QED
  BY <1>5, <1>6, <1>7, <1>8, <1>9 DEF Proper, Sound, b, c, d

(* So does the end of a session.                                            *)
LEMMA ForceClosedKeeps ==
  ASSUME NEW a, IsAccount(a)
  PROVE  IsAccount(ForceClosed(a))
<1> DEFINE c == ForceClosed(a)
<1>1. CASE c = a
  BY <1>1
<1>2. CASE c = Closed(a, a.mark, "end_of_data")
  BY <1>2, ClosedKeeps
<1>3. CASE \E levels, price : c = LotsSold(a, levels, price, "end_of_data")
  BY <1>3, LotsSoldKeeps
<1>4. CASE c = DcaSold(a)
  <2>1. /\ c = [f \in AccountFields |-> c[f]] /\ c.dca = [a.dca EXCEPT !.base = 0]
        /\ c.kind = a.kind /\ c.bar = a.bar /\ c.orders = a.orders
    BY <1>4 DEF DcaSold, IsAccount, AccountFields
  <2> HIDE DEF c
  <2>2. c.dca = [f \in DcaFields |-> c.dca[f]]
    BY <2>1 DEF IsAccount, DcaFields
  <2> QED
    BY <2>1, <2>2 DEF IsAccount, c
<1>5. a.kind \in {"rule", "grid", "dca"}
  BY DEF IsAccount, Kinds
<1> QED
  BY <1>1, <1>2, <1>3, <1>4, <1>5 DEF ForceClosed

(* The end of a session keeps the books, and does nothing before the first bar. *)
LEMMA ForceClosedSound ==
  ASSUME FillsAreIntegers, FillsAreFair, NEW a, Proper(a)
  PROVE  LET c == ForceClosed(a)
         IN Proper(c) /\ c.bar = a.bar /\ (a.mark = None => c = a)
<1> DEFINE c == ForceClosed(a)
<1>0. IsAccount(a) /\ Money(a) /\ Balanced(a) /\ Sound(a) /\ IsAccount(c)
  BY ForceClosedKeeps DEF Proper, Sound
<1>1. CASE c = a
  BY <1>1
<1>2. ASSUME a.mark # None, Money(c), Balanced(c), OneKind(c), Means(c), SameBar(c, a)
      PROVE  Proper(c) /\ c.bar = a.bar
  BY <1>0, <1>2 DEF Proper, Sound, Marked, SameBar
<1>3. CASE a.mark # None /\ a.kind = "rule" /\ a.pos # None
  <2>1. c = Closed(a, a.mark, "end_of_data")
    BY <1>3 DEF ForceClosed
  <2> HIDE DEF c
  <2>2. a.pos \in Position /\ a.mark \in Int /\ "end_of_data" \in Reasons
    BY <1>0, <1>3 DEF Money, Reasons
  <2>3. /\ Money(c) /\ Balanced(c)
        /\ c.pos = None /\ c.grid = a.grid /\ c.dca = a.dca /\ SameBar(c, a)
    BY <1>0, <2>1, <2>2, ClosedSound
  <2>4. OneKind(c) /\ Means(c)
    BY <1>3, <2>3 DEF Proper, OneKind, Means, SameBar
  <2> QED
    BY <1>2, <1>3, <2>3, <2>4 DEF c
<1>4. CASE a.mark # None /\ a.kind = "grid" /\ DOMAIN a.grid # {}
  <2> DEFINE price == [l \in DOMAIN a.grid |-> SlipDown(a.mark)]
             levels == DOMAIN a.grid
  <2>1. c = LotsSold(a, levels, price, "end_of_data")
    BY <1>4 DEF ForceClosed
  <2>2. price \in [levels -> Int] /\ "end_of_data" \in Reasons /\ levels \in SUBSET (DOMAIN a.grid)
    <3>1. a.mark \in Int
      BY <1>0, <1>4 DEF Money
    <3>2. SlipDown(a.mark) \in Int
      BY <3>1 DEF FillsAreIntegers
    <3> QED
      BY <3>2 DEF Reasons
  <2> HIDE DEF c, price, levels
  <2>3. Money(c) /\ Balanced(c) /\ c.pos = a.pos /\ c.dca = a.dca /\ SameBar(c, a)
    BY <1>0, <2>1, <2>2, LotsSoldSound
  <2>4. c.kind = "grid"
    BY <1>4, <2>3 DEF SameBar
  <2>5. OneKind(c) /\ Means(c)
    BY <1>4, <2>3, <2>4 DEF Proper, OneKind, Means
  <2> QED
    BY <1>2, <1>4, <2>3, <2>5 DEF c
<1>5. CASE a.mark # None /\ a.kind = "dca" /\ a.dca.base > 0
  <2>1. c = DcaSold(a)
    BY <1>5 DEF ForceClosed
  <2> HIDE DEF c
  <2>2. a.mark \in Nat \ {0} /\ Means(a)
    BY <1>0, <1>5 DEF Money, Proper
  <2>3. /\ Money(c) /\ Balanced(c) /\ Means(c) /\ c.dca.base = 0
        /\ c.pos = a.pos /\ c.grid = a.grid /\ SameBar(c, a)
    BY <1>0, <1>5, <2>1, <2>2, DcaSoldSound
  <2>4. OneKind(c)
    BY <1>5, <2>3 DEF Proper, OneKind, SameBar
  <2> QED
    BY <1>2, <1>5, <2>3, <2>4 DEF c
<1>6. a.kind \in {"rule", "grid", "dca"}
  BY <1>0 DEF IsAccount, Kinds
<1>7. a.mark = None => c = a
  BY DEF ForceClosed
<1>8. \/ c = a
      \/ a.mark # None /\ a.kind = "rule" /\ a.pos # None
      \/ a.mark # None /\ a.kind = "grid" /\ DOMAIN a.grid # {}
      \/ a.mark # None /\ a.kind = "dca" /\ a.dca.base > 0
  BY <1>6 DEF ForceClosed
<1> QED
  BY <1>1, <1>3, <1>4, <1>5, <1>7, <1>8

-----------------------------------------------------------------------------
(* The steps.                                                              *)

(* A new account has its books in order.                                   *)
LEMMA InitInv == Init => IInv
<1> SUFFICES ASSUME Init PROVE IInv
  OBVIOUS
<1>1. PICK kind \in Kinds : acct = NewAccount(kind)
  BY DEF Init
<1>2. /\ acct = [f \in AccountFields |-> acct[f]] /\ acct.kind = kind
      /\ acct.bar = 0 /\ acct.orders = << >> /\ acct.pending = {} /\ acct.dca = NoDca
  BY <1>1 DEF NewAccount, AccountFields
<1>3. NoDca = [f \in DcaFields |-> NoDca[f]]
  BY DEF NoDca, DcaFields
<1>4. IsAccount(acct)
  <2>1. acct.orders \in Seq(Order) /\ acct.bar \in Nat /\ acct.kind \in Kinds
    <3>1. << >> \in Seq(Order) /\ 0 \in Nat
      OBVIOUS
    <3>2. acct.orders = << >> /\ acct.bar = 0 /\ acct.kind = kind
      BY <1>2
    <3> QED
      BY <3>1, <3>2
  <2>2. acct.dca = [f \in DcaFields |-> acct.dca[f]]
    BY <1>2, <1>3
  <2> QED
    BY <1>2, <2>1, <2>2 DEF IsAccount
<1> QED
  BY <1>2, <1>4 DEF IInv, PendingIsFresh, EndedIsFlat, Init

(* The steps keep the invariant; the first two touch no money.              *)
LEMMA SubmitStep ==
  ASSUME IInv, NEW intent \in Intents, Submit(intent)
  PROVE  /\ IInv' /\ acct'.pos = acct.pos
         /\ acct'.trades = acct.trades /\ acct'.cash = acct.cash
<1> DEFINE o == [intent |-> intent, status |-> "open", bar |-> acct.bar]
           n == Len(acct.orders) + 1
<1>1. IsAccount(acct) /\ o \in Order
  BY DEF IInv, IsAccount, Order
<1>2. o.intent = intent /\ o.bar = acct.bar
  OBVIOUS
<1>3. acct' = [acct EXCEPT !.pending = @ \cup {intent}, !.orders = Append(@, o)]
      /\ ended' = ended
  BY DEF Submit, Submitted
<1> HIDE DEF o
<1>4. /\ acct' = [f \in AccountFields |-> acct'[f]]
      /\ acct'.kind = acct.kind /\ acct'.bar = acct.bar /\ acct'.dca = acct.dca
      /\ acct'.pos = acct.pos /\ acct'.grid = acct.grid
      /\ acct'.trades = acct.trades /\ acct'.cash = acct.cash
      /\ acct'.pending = acct.pending \cup {intent}
      /\ acct'.orders = Append(acct.orders, o)
  BY <1>1, <1>3 DEF IsAccount, AccountFields
<1>5. /\ acct'.orders \in Seq(Order) /\ n \in DOMAIN acct'.orders
      /\ acct'.orders[n] = o
      /\ \A k \in DOMAIN acct.orders :
           k \in DOMAIN acct'.orders /\ acct'.orders[k] = acct.orders[k]
  <2>1. acct.orders \in Seq(Order)
    BY <1>1 DEF IsAccount
  <2>2. \A q \in Seq(Order), e \in Order :
          /\ Append(q, e) \in Seq(Order) /\ Len(q) + 1 \in DOMAIN Append(q, e)
          /\ Append(q, e)[Len(q) + 1] = e
          /\ \A k \in DOMAIN q : k \in DOMAIN Append(q, e) /\ Append(q, e)[k] = q[k]
    OBVIOUS
  <2> QED
    BY <1>1, <1>4, <2>1, <2>2
<1> HIDE DEF n
<1>6. IsAccount(acct')
  BY <1>1, <1>4, <1>5 DEF IsAccount
<1>7. PendingIsFresh'
  <2> SUFFICES ASSUME NEW f \in acct'.pending
               PROVE  \E k \in DOMAIN acct'.orders :
                        acct'.orders[k].intent = f /\ acct'.orders[k].bar = acct'.bar
    BY DEF PendingIsFresh
  <2>1. CASE f = intent
    BY <2>1, <1>2, <1>4, <1>5
  <2>2. CASE f \in acct.pending
    <3>1. PICK k \in DOMAIN acct.orders : acct.orders[k].intent = f /\ acct.orders[k].bar = acct.bar
      BY <2>2 DEF IInv, PendingIsFresh
    <3> QED
      BY <3>1, <1>4, <1>5
  <2> QED
    BY <1>4, <2>1, <2>2
<1>8. EndedIsFlat'
  BY <1>3, <1>4 DEF IInv, EndedIsFlat, Flat
<1> QED
  BY <1>4, <1>6, <1>7, <1>8 DEF IInv

(* A cancel changes the status of an order and nothing else.               *)
LEMMA CancelStep ==
  ASSUME IInv, NEW k \in 1 .. Len(acct.orders), Cancel(k)
  PROVE  /\ IInv' /\ acct'.pos = acct.pos
         /\ acct'.trades = acct.trades /\ acct'.cash = acct.cash
<1> DEFINE orders == [acct.orders EXCEPT ![k].status = "canceled"]
<1>1. IsAccount(acct) /\ acct.orders \in Seq(Order)
  BY DEF IInv, IsAccount
<1>2. acct' = [acct EXCEPT !.orders = orders] /\ ended' = ended
  BY DEF Cancel, Canceled
<1>3. /\ orders \in Seq(Order) /\ DOMAIN orders = DOMAIN acct.orders
      /\ \A j \in DOMAIN acct.orders :
           orders[j].intent = acct.orders[j].intent /\ orders[j].bar = acct.orders[j].bar
  <2>1. \A o \in Order : LET p == [o EXCEPT !.status = "canceled"]
                         IN p \in Order /\ p.intent = o.intent /\ p.bar = o.bar
    BY DEF Order
  <2>2. orders = [acct.orders EXCEPT ![k] = [acct.orders[k] EXCEPT !.status = "canceled"]]
    BY <1>1
  <2> HIDE DEF orders
  <2> QED
    BY <1>1, <2>1, <2>2
<1> HIDE DEF orders
<1>4. /\ acct' = [f \in AccountFields |-> acct'[f]]
      /\ acct'.kind = acct.kind /\ acct'.bar = acct.bar /\ acct'.dca = acct.dca
      /\ acct'.pos = acct.pos /\ acct'.grid = acct.grid
      /\ acct'.trades = acct.trades /\ acct'.cash = acct.cash
      /\ acct'.pending = acct.pending /\ acct'.orders = orders
  BY <1>1, <1>2 DEF IsAccount, AccountFields
<1>5. IsAccount(acct')
  BY <1>1, <1>3, <1>4 DEF IsAccount
<1>6. PendingIsFresh'
  BY <1>3, <1>4 DEF IInv, PendingIsFresh
<1>7. EndedIsFlat'
  BY <1>2, <1>4 DEF IInv, EndedIsFlat, Flat
<1> QED
  BY <1>4, <1>5, <1>6, <1>7 DEF IInv

(* A bar opens a position for a fresh entry only.                           *)
LEMMA BarStep ==
  ASSUME IInv, NEW bar \in Bars, OnBar(bar)
  PROVE  /\ IInv' /\ ~ended
         /\ acct.pos = None /\ acct'.pos # None =>
              \E k \in DOMAIN acct.orders :
                acct.orders[k].intent = Flag(acct'.pos.side) /\ acct.orders[k].bar = acct.bar
<1>1. acct' = AfterBar(acct, bar) /\ ended' = ended /\ ~ended
  BY DEF OnBar
<1>2. /\ IsAccount(acct') /\ acct'.pending = {}
      /\ acct.pos = None /\ acct'.pos # None => Flag(acct'.pos.side) \in acct.pending
  BY <1>1, AfterBarKeeps DEF IInv
<1>3. IInv'
  BY <1>1, <1>2 DEF IInv, PendingIsFresh, EndedIsFlat
<1> QED
  BY <1>1, <1>2, <1>3 DEF IInv, PendingIsFresh

(* The end of the session: nothing is left, and a second end does nothing.  *)
LEMMA EndStep ==
  ASSUME IInv, ForceClose
  PROVE  /\ IInv' /\ acct'.pos \in {None, acct.pos}
         /\ ended => acct'.trades = acct.trades /\ acct'.cash = acct.cash
<1>1. acct' = ForceClosed(acct) /\ ended' = (ended \/ acct.mark # None) /\ IsAccount(acct)
  BY DEF ForceClose, IInv
<1>2. ended => Flat(acct)
  BY DEF IInv, EndedIsFlat
<1>3. CASE acct' = acct /\ (acct.mark = None \/ Flat(acct))
  <2>1. EndedIsFlat'
    BY <1>1, <1>2, <1>3 DEF EndedIsFlat
  <2>2. PendingIsFresh'
    BY <1>3 DEF IInv, PendingIsFresh
  <2> QED
    BY <1>1, <1>3, <2>1, <2>2 DEF IInv
<1>4. ASSUME ~Flat(acct), IsAccount(acct'), Flat(acct'), acct'.pending = acct.pending,
             acct'.bar = acct.bar, acct'.pos \in {None, acct.pos},
             \A k \in DOMAIN acct.orders :
               k \in DOMAIN acct'.orders /\ acct'.orders[k] = acct.orders[k]
      PROVE  /\ IInv' /\ acct'.pos \in {None, acct.pos}
             /\ ended => acct'.trades = acct.trades /\ acct'.cash = acct.cash
  <2>1. PendingIsFresh'
    <3> SUFFICES ASSUME NEW f \in acct'.pending
                 PROVE  \E k \in DOMAIN acct'.orders :
                          acct'.orders[k].intent = f /\ acct'.orders[k].bar = acct'.bar
      BY DEF PendingIsFresh
    <3>1. PICK k \in DOMAIN acct.orders :
            acct.orders[k].intent = f /\ acct.orders[k].bar = acct.bar
      BY <1>4 DEF IInv, PendingIsFresh
    <3> QED
      BY <1>4, <3>1
  <2>2. EndedIsFlat'
    BY <1>4 DEF EndedIsFlat
  <2> QED
    BY <1>2, <1>4, <2>1, <2>2 DEF IInv
<1>5. CASE acct.mark # None /\ acct.kind = "rule" /\ acct.pos # None
  <2> DEFINE o == [intent |-> Flag("close"), status |-> "filled", bar |-> acct.bar]
  <2>1. acct' = Closed(acct, acct.mark, "end_of_data")
    BY <1>1, <1>5 DEF ForceClosed
  <2>2. IsAccount(acct') /\ acct'.pos = None /\ acct'.kind = "rule"
    BY <1>1, <1>5, <2>1, ClosedKeeps
  <2>3. /\ acct'.pending = acct.pending /\ acct'.bar = acct.bar
        /\ acct'.orders = Append(acct.orders, o)
    BY <1>1, <2>1 DEF Closed, IsAccount, AccountFields
  <2>4. o \in Order /\ acct.orders \in Seq(Order)
    BY <1>1 DEF IsAccount, Order
  <2> HIDE DEF o
  <2>5. \A k \in DOMAIN acct.orders :
          k \in DOMAIN acct'.orders /\ acct'.orders[k] = acct.orders[k]
    BY <2>3, <2>4
  <2>6. Flat(acct') /\ ~Flat(acct)
    BY <1>5, <2>2 DEF Flat
  <2> QED
    BY <1>4, <2>2, <2>3, <2>5, <2>6
<1>6. CASE acct.mark # None /\ acct.kind = "grid" /\ DOMAIN acct.grid # {}
  <2>1. \E cash, fees, realized, trades :
          acct' = [acct EXCEPT !.grid = [l \in DOMAIN acct.grid \ DOMAIN acct.grid |-> acct.grid[l]],
                               !.cash = cash, !.fees = fees, !.realized = realized,
                               !.trades = trades]
    BY <1>1, <1>6 DEF ForceClosed, LotsSold
  <2>2. /\ acct' = [f \in AccountFields |-> acct'[f]]
        /\ acct'.kind = "grid" /\ DOMAIN acct'.grid = {} /\ acct'.dca = acct.dca
        /\ acct'.pending = acct.pending /\ acct'.bar = acct.bar
        /\ acct'.orders = acct.orders /\ acct'.pos = acct.pos
    BY <1>1, <1>6, <2>1 DEF IsAccount, AccountFields
  <2>3. IsAccount(acct')
    BY <1>1, <2>2 DEF IsAccount, Kinds
  <2>4. Flat(acct') /\ ~Flat(acct)
    BY <1>6, <2>2 DEF Flat
  <2> QED
    BY <1>4, <2>2, <2>3, <2>4
<1>7. CASE acct.mark # None /\ acct.kind = "dca" /\ acct.dca.base > 0
  <2>1. acct' = DcaSold(acct)
    BY <1>1, <1>7 DEF ForceClosed
  <2>2. /\ acct' = [f \in AccountFields |-> acct'[f]]
        /\ acct'.kind = "dca" /\ acct'.dca = [acct.dca EXCEPT !.base = 0]
        /\ acct'.pending = acct.pending /\ acct'.bar = acct.bar
        /\ acct'.orders = acct.orders /\ acct'.pos = acct.pos
    BY <1>1, <1>7, <2>1 DEF DcaSold, IsAccount, AccountFields
  <2>3. acct'.dca = [f \in DcaFields |-> acct'.dca[f]] /\ acct'.dca.base = 0
    BY <1>1, <2>2 DEF IsAccount, DcaFields
  <2>4. IsAccount(acct')
    BY <1>1, <2>2, <2>3 DEF IsAccount, Kinds
  <2>5. Flat(acct') /\ ~Flat(acct)
    BY <1>7, <2>2, <2>3 DEF Flat
  <2> QED
    BY <1>4, <2>2, <2>4, <2>5
<1>8. acct.kind \in {"rule", "grid", "dca"}
  BY <1>1 DEF IsAccount, Kinds
<1> QED
  BY <1>1, <1>3, <1>5, <1>6, <1>7, <1>8 DEF ForceClosed, Flat

(* The invariant of the intents and of the end.                             *)
LEMMA Invariance == Spec => []IInv
<1>1. Init => IInv
  BY InitInv
<1>2. IInv /\ [Next]_vars => IInv'
  <2> SUFFICES ASSUME IInv, [Next]_vars PROVE IInv'
    OBVIOUS
  <2>1. ASSUME UNCHANGED vars PROVE IInv'
    BY <2>1 DEF vars, IInv, PendingIsFresh, EndedIsFlat
  <2> QED
    BY <2>1, SubmitStep, CancelStep, BarStep, EndStep DEF Next
<1> QED
  BY <1>1, <1>2, PTL DEF Spec

(* Whatever is submitted, cancelled and executed, a position opens only for *)
(* an entry submitted since the previous bar (on_bar clears the pending     *)
(* intents after it has acted on them).                                     *)
THEOREM EntriesAreFresh == Spec => EntryNeedsFreshIntent
<1>1. IInv /\ [Next]_vars =>
        [acct.pos = None /\ acct'.pos # None =>
           \E k \in DOMAIN acct.orders :
              /\ acct.orders[k].intent = Flag(acct'.pos.side)
              /\ acct.orders[k].bar = acct.bar]_vars
  BY SubmitStep, CancelStep, BarStep, EndStep DEF Next
<1> QED
  BY <1>1, Invariance, PTL DEF Spec, EntryNeedsFreshIntent

(* Ending a session a second time, or submitting to one that has ended,     *)
(* books nothing (force_close resets what it has sold).                     *)
THEOREM EndedBooksNothing == Spec => EndIsFinal
<1>1. IInv /\ [Next]_vars =>
        [ended => acct'.trades = acct.trades /\ acct'.cash = acct.cash]_vars
  BY SubmitStep, CancelStep, BarStep, EndStep DEF Next
<1> QED
  BY <1>1, Invariance, PTL DEF Spec, EndIsFinal

-----------------------------------------------------------------------------
(* The books of every reachable account.                                   *)

(* A purchase that has been sold at the end keeps its cost and its fees     *)
(* (DcaSold), so that Fresh holds until then only.                          *)
BooksInv ==
  /\ IInv /\ Proper(acct) /\ acct.bar <= MaxBars
  /\ ended \in BOOLEAN /\ (~ended => Fresh(acct))

(* A new account is empty.                                                  *)
LEMMA InitBooks ==
  ASSUME Init
  PROVE  BooksInv
<1>1. PICK kind \in Kinds : acct = NewAccount(kind)
  BY DEF Init
<1>2. /\ acct.kind = kind /\ acct.cash = InitialCash /\ acct.pos = None /\ acct.trades = << >>
      /\ acct.realized = 0 /\ acct.fees = 0 /\ acct.funding = 0 /\ acct.mark = None
      /\ acct.bar = 0 /\ acct.pending = {} /\ acct.grid = NoLots /\ acct.dca = NoDca
  BY <1>1 DEF NewAccount
<1>3. IInv
  BY InitInv
<1>4. DOMAIN NoLots = {} /\ NoLots \in [{} -> Lot]
  BY DEF NoLots
<1>5. NoDca \in Holding /\ NoDca.base = 0 /\ NoDca.cost = 0 /\ NoDca.fees = 0 /\ NoDca.count = 0
  BY DEF NoDca, Holding
<1>6. Money(acct)
  <2>1. << >> \in Seq(Trades)
    OBVIOUS
  <2> QED
    BY <1>2, <1>4, <1>5, <2>1, FillAssumption DEF Money
<1>7. /\ TradePnl(<< >>) = 0 /\ TradeFees(<< >>) = 0
      /\ SliceCost(NoLots) = 0 /\ SliceFees(NoLots) = 0
  <2>1. ASSUME NEW F, DOMAIN F = {} PROVE SumFunction(F) = 0
    BY <2>1, SumOfNone DEF SumFunction
  <2>2. DOMAIN << >> = {}
    OBVIOUS
  <2>3. /\ DOMAIN [k \in DOMAIN << >> |-> << >>[k].pnl] = {}
        /\ DOMAIN [k \in DOMAIN << >> |-> << >>[k].fees] = {}
    BY <2>2
  <2>4. /\ DOMAIN [l \in DOMAIN NoLots |-> LotCost(NoLots[l])] = {}
        /\ DOMAIN [l \in DOMAIN NoLots |-> NoLots[l].fee] = {}
    BY <1>4
  <2>5. TradePnl(<< >>) = 0
    BY <2>1, <2>3 DEF TradePnl
  <2>6. TradeFees(<< >>) = 0
    BY <2>1, <2>3 DEF TradeFees
  <2>7. SliceCost(NoLots) = 0
    BY <2>1, <2>4 DEF SliceCost
  <2>8. SliceFees(NoLots) = 0
    BY <2>1, <2>4 DEF SliceFees
  <2> QED
    BY <2>5, <2>6, <2>7, <2>8
<1>8. Balanced(acct)
  <2>1. DcaCost(acct.dca) = 0 /\ DcaFees(acct.dca) = 0 /\ PosFee(acct) = 0
    BY <1>2, <1>5 DEF DcaCost, DcaFees, PosFee
  <2>2. InitialCash \in Int
    BY FillAssumption
  <2> QED
    BY <1>2, <1>7, <2>1, <2>2 DEF Balanced
<1>9. OneKind(acct) /\ Marked(acct) /\ Means(acct) /\ Fresh(acct)
  BY <1>2, <1>4, <1>5, FillAssumption DEF OneKind, Marked, Means, Fresh
<1>10. ended \in BOOLEAN /\ acct.bar <= MaxBars
  <2>1. MaxBars \in Nat
    BY BarsAssumption
  <2>2. ended = FALSE
    BY DEF Init
  <2>3. acct.bar <= MaxBars
    BY <1>2, <2>1
  <2> QED
    BY <2>2, <2>3
<1> QED
  BY <1>2, <1>3, <1>6, <1>8, <1>9, <1>10 DEF BooksInv, Proper, Sound, IInv

(* The books do not depend on the orders.                                   *)
LEMMA OrdersAside ==
  ASSUME NEW a, Proper(a), NEW c, IsAccount(c), c.pending \subseteq Intents,
         \A f \in AccountFields \ {"orders", "pending"} : c[f] = a[f]
  PROVE  Proper(c) /\ c.bar = a.bar /\ (Fresh(a) => Fresh(c))
<1>1. /\ c.kind = a.kind /\ c.bar = a.bar /\ c.mark = a.mark /\ c.cash = a.cash
      /\ c.pos = a.pos /\ c.trades = a.trades /\ c.realized = a.realized /\ c.fees = a.fees
      /\ c.funding = a.funding /\ c.grid = a.grid /\ c.dca = a.dca
  BY DEF AccountFields
<1>2. Money(c)
  BY <1>1 DEF Proper, Sound, Money
<1>3. Balanced(c)
  BY <1>1 DEF Proper, Sound, Balanced, PosFee
<1> QED
  BY <1>1, <1>2, <1>3 DEF Proper, Sound, OneKind, Marked, Means, Fresh

(* Every step keeps the books.                                              *)
LEMMA NextBooks ==
  ASSUME FillsAreIntegers, FillsAreFair, BooksInv, [Next]_vars
  PROVE  BooksInv'
<1>0. IInv /\ IsAccount(acct)
  BY DEF BooksInv, IInv
<1>1. ASSUME NEW intent \in Intents, Submit(intent) PROVE BooksInv'
  <2>1. IInv' /\ IsAccount(acct') /\ ended' = ended
    BY <1>0, <1>1, SubmitStep DEF IInv, Submit
  <2>2. /\ acct'.pending = acct.pending \cup {intent}
        /\ \A f \in AccountFields \ {"orders", "pending"} : acct'[f] = acct[f]
    BY <1>0, <1>1 DEF Submit, Submitted, IsAccount, AccountFields
  <2>3. acct'.pending \subseteq Intents
    BY <2>2 DEF BooksInv, Proper
  <2> QED
    BY <2>1, <2>2, <2>3, OrdersAside DEF BooksInv
<1>2. ASSUME NEW k \in 1 .. Len(acct.orders), Cancel(k) PROVE BooksInv'
  <2>1. IInv' /\ IsAccount(acct') /\ ended' = ended
    BY <1>0, <1>2, CancelStep DEF IInv, Cancel
  <2>2. \E orders : acct' = [acct EXCEPT !.orders = orders]
    BY <1>2 DEF Cancel, Canceled
  <2>3. /\ acct'.pending = acct.pending
        /\ \A f \in AccountFields \ {"orders", "pending"} : acct'[f] = acct[f]
    BY <1>0, <2>2 DEF IsAccount, AccountFields
  <2>4. acct'.pending \subseteq Intents
    BY <2>3 DEF BooksInv, Proper
  <2> QED
    BY <2>1, <2>3, <2>4, OrdersAside DEF BooksInv
<1>3. ASSUME NEW bar \in Bars, OnBar(bar) PROVE BooksInv'
  <2>1. IInv' /\ ended' = ended /\ ~ended /\ acct.bar < MaxBars /\ acct' = AfterBar(acct, bar)
    BY <1>0, <1>3, BarStep DEF OnBar
  <2>2. IsBar(bar)
    BY BarsAssumption DEF IsBar
  <2>3. Proper(acct') /\ Fresh(acct') /\ acct'.bar = acct.bar + 1
    BY <2>1, <2>2, AfterBarSound DEF BooksInv
  <2>4. acct'.bar <= MaxBars
    BY <1>0, <2>1, <2>3, BarsAssumption DEF IsAccount
  <2> QED
    BY <2>1, <2>3, <2>4 DEF BooksInv
<1>4. ASSUME ForceClose PROVE BooksInv'
  <2>1. IInv' /\ IsAccount(acct')
    BY <1>0, <1>4, EndStep DEF IInv
  <2>2. acct' = ForceClosed(acct) /\ ended' = (ended \/ acct.mark # None)
    BY <1>4 DEF ForceClose
  <2>3. Proper(acct') /\ acct'.bar = acct.bar /\ (acct.mark = None => acct' = acct)
    BY <2>1, <2>2, ForceClosedSound DEF BooksInv
  <2> QED
    BY <2>1, <2>2, <2>3 DEF BooksInv
<1>5. ASSUME UNCHANGED vars PROVE BooksInv'
  <2>1. acct' = acct /\ ended' = ended
    BY <1>5 DEF vars
  <2>2. IInv'
    BY <1>0, <2>1 DEF IInv, PendingIsFresh, EndedIsFlat
  <2> QED
    BY <2>1, <2>2 DEF BooksInv
<1> QED
  BY <1>1, <1>2, <1>3, <1>4, <1>5 DEF Next

(* The books are kept in every reachable state.                             *)
LEMMA BooksInvariance ==
  ASSUME FillsAreIntegers, FillsAreFair
  PROVE  Spec => []BooksInv
<1>1. Init => BooksInv
  BY InitBooks
<1>2. BooksInv /\ [Next]_vars => BooksInv'
  BY NextBooks
<1> QED
  BY <1>1, <1>2, PTL DEF Spec

(* Every variable holds a value of its kind, whatever the fills come to: no *)
(* method of the broker leaves a counter, a slice or an order of another.   *)
THEOREM AccountIsTyped ==
  ASSUME FillsAreIntegers, FillsAreFair
  PROVE  Spec => []TypeOK
<1>1. BooksInv => TypeOK
  <2> SUFFICES ASSUME BooksInv PROVE TypeOK
    OBVIOUS
  <2>1. IsAccount(acct) /\ Money(acct) /\ acct.pending \subseteq Intents /\ ended \in BOOLEAN
        /\ acct.bar <= MaxBars
    BY DEF BooksInv, Proper, Sound
  <2>2. acct.kind \in Kinds
    BY <2>1 DEF IsAccount
  <2>3. {acct.cash, acct.realized, acct.fees, acct.funding} \subseteq Int
    BY <2>1 DEF Money
  <2>4. acct.mark \in Int \cup {None} /\ DOMAIN acct.grid \subseteq Levels
    BY <2>1 DEF Money
  <2>5. acct.bar \in 0 .. MaxBars
    <3>1. acct.bar \in Nat /\ MaxBars \in Nat
      BY <2>1, BarsAssumption DEF IsAccount
    <3> QED
      BY <2>1, <3>1
  <2>6. \A k \in DOMAIN acct.orders : acct.orders[k].status \in {"open", "filled", "canceled"}
    <3>1. acct.orders \in Seq(Order)
      BY <2>1 DEF IsAccount
    <3>2. \A k \in DOMAIN acct.orders : acct.orders[k] \in Order
      BY <3>1
    <3> QED
      BY <3>2 DEF Order
  <2> QED
    BY <2>1, <2>2, <2>3, <2>4, <2>5, <2>6 DEF TypeOK
<1> QED
  BY <1>1, BooksInvariance, PTL

(* No money appears or disappears, over any number of trades, slices and    *)
(* purchases: cash is what the closed trades and the open costs leave of    *)
(* the initial cash (_close, _apply_pending_grid and force_close pay back   *)
(* what the trade they record says).                                        *)
THEOREM CashIsAccountedFor ==
  ASSUME FillsAreIntegers, FillsAreFair
  PROVE  Spec => []CashReconciles
<1>1. BooksInv => CashReconciles
  BY DEF BooksInv, Proper, Sound, Balanced, CashReconciles
<1> QED
  BY <1>1, BooksInvariance, PTL

(* fees_paid is the sum of the fees of the closed trades and of those paid  *)
(* on what is open.                                                         *)
THEOREM FeesAreAccountedFor ==
  ASSUME FillsAreIntegers, FillsAreFair
  PROVE  Spec => []FeesReconcile
<1>1. BooksInv => FeesReconcile
  BY DEF BooksInv, Proper, Sound, Balanced, PosFee, FeesReconcile
<1> QED
  BY <1>1, BooksInvariance, PTL

(* A DCA account neither overdraws its cash nor buys more often than        *)
(* max_purchases (_apply_pending_dca spends what is left at most).          *)
THEOREM DcaStaysWithinMeans ==
  ASSUME FillsAreIntegers, FillsAreFair
  PROVE  Spec => []DcaWithinMeans
<1>1. BooksInv => DcaWithinMeans
  BY DEF BooksInv, Proper, Means, DcaWithinMeans
<1> QED
  BY <1>1, BooksInvariance, PTL

(* The worth of the slices of a grid at one price.                          *)
LEMMA SlicesAtOnePrice ==
  ASSUME NEW a, Money(a), a.mark \in Int
  PROVE  /\ SumFunction([l \in DOMAIN a.grid |-> a.grid[l].size]) \in Int
         /\ SumFunction([l \in DOMAIN a.grid |-> a.grid[l].size * a.mark])
              = SumFunction([l \in DOMAIN a.grid |-> a.grid[l].size]) * a.mark
<1> DEFINE F == [l \in DOMAIN a.grid |-> a.grid[l].size]
           H == [l \in DOMAIN a.grid |-> a.grid[l].size * a.mark]
<1>1. IsFiniteSet(DOMAIN F) /\ DOMAIN H = DOMAIN F
  BY FillAssumption, FS_Subset DEF Money
<1>2. \A l \in DOMAIN F : F[l] \in Int /\ H[l] = F[l] * a.mark
  BY DEF Money, Lot
<1> HIDE DEF F, H
<1>3. Scales(H, F, a.mark)
  BY <1>1, <1>2 DEF Scales
<1>4. SumFunction(H) = SumFunction(F) * a.mark
  BY <1>3, SumScales
<1>5. SumFunction(F) \in Int
  BY <1>1, <1>2, SumRemove DEF SumFunction
<1> QED
  BY <1>4, <1>5 DEF F, H

(* A sum of one term.                                                       *)
LEMMA SumOfOne ==
  ASSUME NEW x, NEW F, DOMAIN F = {x}, F[x] \in Int
  PROVE  SumFunction(F) = F[x]
<1>1. IsFiniteSet({}) /\ {} \cup {x} = {x} /\ x \notin {}
  BY FS_EmptySet
<1>2. SumFunctionOnSet(F, {} \cup {x}) = F[x] + SumFunctionOnSet(F, {})
  BY <1>1, SumAdd
<1> QED
  BY <1>1, <1>2, SumOfNone DEF SumFunction

(* What the three snapshots tell, of any account whose books are kept:      *)
(* equity is cash, the open part of the pnl, and the slices or the          *)
(* holding at the latest price.                                             *)
LEMMA EquityExplained ==
  ASSUME FillsAreIntegers, NEW a, Proper(a)
  PROVE  LET cost == SliceCost(a.grid) + DcaCost(a.dca)
             gain == IF DOMAIN a.grid = {} /\ a.dca.base = 0 THEN 0
                     ELSE Holdings(a) * a.mark - cost
         IN /\ Pnl(a).total + gain = Portfolio(a).equity - InitialCash
            /\ Pnl(a).unrealized
                 = SumFunction([p \in Portfolio(a).position |-> p.unrealized])
<1> DEFINE none == DOMAIN a.grid = {} /\ a.dca.base = 0
           slices == SliceCost(a.grid)
           held == DcaCost(a.dca)
           gain == IF none THEN 0 ELSE Holdings(a) * a.mark - (slices + held)
           S == SumFunction([l \in DOMAIN a.grid |-> a.grid[l].size])
           W == SumFunction([l \in DOMAIN a.grid |-> a.grid[l].size * a.mark])
           open == IF a.pos = None \/ a.mark = None THEN 0 ELSE Unrealized(a.pos, a.mark)
           base == a.dca.base
           P == [p \in Portfolio(a).position |-> p.unrealized]
<1>1. /\ a.cash \in Int /\ a.realized \in Int /\ base \in Int /\ slices \in Int /\ held \in Int
      /\ InitialCash \in Int /\ a.mark \in Int \cup {None} /\ a.pos \in Position \cup {None}
      /\ a.cash = InitialCash + a.realized - slices - held
      /\ Money(a) /\ OneKind(a) /\ Marked(a)
  <2>1. Money(a) /\ Balanced(a) /\ OneKind(a) /\ Marked(a)
    BY DEF Proper, Sound
  <2>2. slices \in Int /\ held \in Int /\ InitialCash \in Int
    BY <2>1, BooksAreIntegers
  <2>3. a.cash \in Int /\ a.realized \in Int /\ base \in Int
    BY <2>1 DEF Money, Holding
  <2>4. a.mark \in Int \cup {None} /\ a.pos \in Position \cup {None}
    BY <2>1 DEF Money
  <2> QED
    BY <2>1, <2>2, <2>3, <2>4 DEF Balanced
<1>2. open \in Int
  <2>1. CASE a.pos = None \/ a.mark = None
    BY <2>1
  <2>2. CASE a.pos # None /\ a.mark # None
    <3>1. a.pos.entry \in Int /\ a.pos.size \in Int /\ a.pos.fee \in Int /\ a.pos.funding \in Int
          /\ a.mark \in Int
      BY <1>1, <2>2 DEF Position
    <3>2. (a.mark - a.pos.entry) * a.pos.size \in Int /\ (a.pos.entry - a.mark) * a.pos.size \in Int
      <4>1. a.mark - a.pos.entry \in Int /\ a.pos.entry - a.mark \in Int
        BY <3>1
      <4> QED
        BY <3>1, <4>1
    <3>3. Gross(a.pos, a.mark) \in Int
      BY <3>2 DEF Gross
    <3> QED
      BY <2>2, <3>1, <3>3 DEF Unrealized
  <2> QED
    BY <2>1, <2>2
<1>3. Pnl(a).total = a.realized + open /\ Pnl(a).unrealized = open
  BY DEF Pnl
<1>4. Portfolio(a).equity = IF a.mark = None THEN a.cash
                            ELSE a.cash + (IF a.pos = None THEN 0 ELSE Unrealized(a.pos, a.mark))
                                 + W + base * a.mark
  BY DEF Portfolio, Equity
<1>5. none => slices = 0 /\ held = 0 /\ W = 0
  <2> SUFFICES ASSUME none PROVE slices = 0 /\ held = 0 /\ W = 0
    OBVIOUS
  <2>1. ASSUME NEW F, DOMAIN F = {} PROVE SumFunction(F) = 0
    BY <2>1, SumOfNone DEF SumFunction
  <2>2. /\ DOMAIN [l \in DOMAIN a.grid |-> LotCost(a.grid[l])] = {}
        /\ DOMAIN [l \in DOMAIN a.grid |-> a.grid[l].size * a.mark] = {}
    OBVIOUS
  <2>3. slices = 0
    BY <2>1, <2>2 DEF SliceCost
  <2>4. W = 0
    BY <2>1, <2>2
  <2>5. held = 0
    BY DEF DcaCost
  <2> QED
    BY <2>3, <2>4, <2>5
<1>6. a.pos # None => none
  BY <1>1 DEF OneKind
<1> DEFINE total == Pnl(a).total
           equity == Portfolio(a).equity
<1>7. total + gain = equity - InitialCash
  <2>1. CASE a.mark = None
    <3>1. none /\ open = 0 /\ equity = a.cash
      BY <1>1, <1>4, <2>1 DEF Marked
    <3>2. gain = 0 /\ total = a.realized /\ a.cash = InitialCash + a.realized
      BY <1>1, <1>3, <1>5, <3>1
    <3> HIDE DEF gain, total, equity
    <3> QED
      BY <1>1, <3>1, <3>2
  <2>2. CASE a.mark # None /\ none
    <3>1. base * a.mark = 0 /\ W = 0
      BY <1>1, <1>5, <2>2
    <3>2. equity = a.cash + open
      <4>1. equity = a.cash + open + W + base * a.mark
        BY <1>4, <2>2
      <4> HIDE DEF equity, open, W, base
      <4> QED
        BY <1>1, <1>2, <3>1, <4>1
    <3>3. gain = 0 /\ total = a.realized + open /\ slices = 0 /\ held = 0
      BY <1>3, <1>5, <2>2
    <3> HIDE DEF gain, total, equity, open, slices, held
    <3> QED
      BY <1>1, <1>2, <3>2, <3>3
  <2>3. CASE a.mark # None /\ ~none
    <3>1. a.pos = None /\ open = 0 /\ a.mark \in Int
      BY <1>1, <1>6, <2>3
    <3>2. W = S * a.mark /\ S \in Int
      BY <1>1, <3>1, SlicesAtOnePrice
    <3>3. Holdings(a) = S + base
      BY <3>1 DEF Holdings
    <3>4. /\ gain = (S + base) * a.mark - (slices + held)
          /\ total = a.realized /\ equity = a.cash + W + base * a.mark
      <4>1. gain = (S + base) * a.mark - (slices + held)
        BY <2>3, <3>3
      <4>2. total = a.realized
        BY <1>1, <1>3, <3>1
      <4>3. equity = a.cash + 0 + W + base * a.mark
        BY <1>4, <2>3, <3>1
      <4> HIDE DEF gain, total, equity, S, W, slices, held, base
      <4> QED
        BY <1>1, <4>1, <4>2, <4>3
    <3> HIDE DEF gain, total, equity, S, W, slices, held, base
    <3>5. (S + base) * a.mark = S * a.mark + base * a.mark
          /\ S * a.mark \in Int /\ base * a.mark \in Int
      BY <1>1, <3>1, <3>2
    <3> QED
      BY <1>1, <3>1, <3>2, <3>4, <3>5
  <2> QED
    BY <2>1, <2>2, <2>3
<1>8. open = SumFunction(P)
  <2>1. Portfolio(a).position = Positions(a)
    BY DEF Portfolio
  <2>2. CASE a.pos = None
    <3>1. DOMAIN P = {}
      BY <2>1, <2>2 DEF Positions
    <3>2. SumFunction(P) = 0
      BY <3>1, SumOfNone DEF SumFunction
    <3> QED
      BY <2>2, <3>2
  <2>3. CASE a.pos # None
    <3> DEFINE r == [side |-> a.pos.side, size |-> a.pos.size, mark |-> a.mark,
                     unrealized |-> Unrealized(a.pos, a.mark)]
    <3>1. a.mark # None
      BY <1>1, <2>3 DEF Marked
    <3>2. Portfolio(a).position = {r}
      BY <2>1, <2>3, <3>1 DEF Positions
    <3>3. r.unrealized = open
      BY <2>3, <3>1
    <3> HIDE DEF r, open
    <3>4. DOMAIN P = {r} /\ P[r] = open
      BY <3>2, <3>3
    <3> HIDE DEF P
    <3> QED
      BY <1>2, <3>4, SumOfOne
  <2> QED
    BY <2>2, <2>3
<1> QED
  BY <1>3, <1>7, <1>8

(* What get_pnl, get_portfolio and get_positions tell never disagrees, at   *)
(* any moment and whatever the fills come to, but for what slices and a DCA *)
(* holding are worth above their cost (pnl, portfolio, positions).          *)
THEOREM SnapshotsAgree ==
  ASSUME FillsAreIntegers, FillsAreFair
  PROVE  Spec => []PnlExplainsEquity
<1>1. BooksInv => PnlExplainsEquity
  BY EquityExplained DEF BooksInv, PnlExplainsEquity
<1> QED
  BY <1>1, BooksInvariance, PTL

-----------------------------------------------------------------------------
(* The two brokers compute a fill alike.                                   *)

(* The fills of a position: what the backtest's copy of the fill arithmetic *)
(* computes.                                                                *)
LEMMA SamePositions ==
  /\ \A price, sell : Backtest!Slip(price, sell) = Slip(price, sell)
  /\ \A side, equity, open : Backtest!NewPosition(side, equity, open) = NewPosition(side, equity, open)
  /\ \A pos, px, reason : Backtest!ClosedTrade(pos, px, reason) = ClosedTrade(pos, px, reason)
  /\ \A pos, bar : Backtest!RiskExit(pos, bar) = RiskExit(pos, bar)
  /\ \A pos, close : Backtest!HeldOneBar(pos, close) = HeldOneBar(pos, close)
  /\ \A pos, mark : Backtest!Unrealized(pos, mark) = Unrealized(pos, mark)
<1>1. \A price, sell : Backtest!Slip(price, sell) = Slip(price, sell)
  BY DEF Backtest!Slip, Slip
<1>2. \A side, equity, open : Backtest!NewPosition(side, equity, open) = NewPosition(side, equity, open)
  BY DEF Backtest!NewPosition, NewPosition, Backtest!Slip, Slip, Backtest!RiskLevel, RiskLevel
<1>3. \A pos, px, reason : Backtest!ClosedTrade(pos, px, reason) = ClosedTrade(pos, px, reason)
  BY DEF Backtest!ClosedTrade, ClosedTrade, Backtest!Gross, Gross, Backtest!ExitFee, ExitFee
<1>4. \A pos, bar : Backtest!RiskExit(pos, bar) = RiskExit(pos, bar)
  BY DEF Backtest!RiskExit, RiskExit
<1>5. \A pos, close : Backtest!HeldOneBar(pos, close) = HeldOneBar(pos, close)
  BY DEF Backtest!HeldOneBar, HeldOneBar
<1>6. \A pos, mark : Backtest!Unrealized(pos, mark) = Unrealized(pos, mark)
  BY DEF Backtest!Unrealized, Unrealized, Backtest!Gross, Gross
<1> QED
  BY <1>1, <1>2, <1>3, <1>4, <1>5, <1>6

(* The slices of a grid, and what is summed over them.                      *)
LEMMA SameSlices ==
  /\ \A level : Backtest!GridTarget(level) = GridTarget(level)
  /\ \A level, bar : Backtest!GridLot(level, bar) = GridLot(level, bar)
  /\ \A lot : Backtest!LotCost(lot) = LotCost(lot)
  /\ \A lot, px, bar, reason : Backtest!LotTrade(lot, px, bar, reason) = LotTrade(lot, px, bar, reason)
  /\ \A levels : Backtest!Ascending(levels) = Ascending(levels)
  /\ Backtest!NoLots = NoLots
  /\ \A F : Backtest!SumFunction(F) = SumFunction(F)
<1>1. \A level : Backtest!GridTarget(level) = GridTarget(level)
  BY DEF Backtest!GridTarget, GridTarget
<1>2. \A level, bar : Backtest!GridLot(level, bar) = GridLot(level, bar)
  BY DEF Backtest!GridLot, GridLot
<1>3. \A lot : Backtest!LotCost(lot) = LotCost(lot)
  BY DEF Backtest!LotCost, LotCost
<1>4. \A lot, px, bar, reason : Backtest!LotTrade(lot, px, bar, reason) = LotTrade(lot, px, bar, reason)
  BY DEF Backtest!LotTrade, LotTrade
<1>5. \A levels : Backtest!Ascending(levels) = Ascending(levels)
  BY DEF Backtest!Ascending, Ascending, Backtest!Cardinality, Cardinality
<1>6. Backtest!NoLots = NoLots
  BY DEF Backtest!NoLots, NoLots
<1>7. \A F : Backtest!SumFunction(F) = SumFunction(F)
  BY DEF Backtest!SumFunction, SumFunction, Backtest!SumFunctionOnSet, SumFunctionOnSet,
         Backtest!FoldFunctionOnSet, FoldFunctionOnSet, Backtest!MapThenFoldSet, MapThenFoldSet
<1> QED
  BY <1>1, <1>2, <1>3, <1>4, <1>5, <1>6, <1>7

(* The purchases of a DCA strategy.                                         *)
LEMMA SamePurchases ==
  /\ \A money : Backtest!DcaSpend(money) = DcaSpend(money)
  /\ \A held : Backtest!DcaCapped(held) = DcaCapped(held)
  /\ \A held, spend, price, bar :
       Backtest!DcaBought(held, spend, price, bar) = DcaBought(held, spend, price, bar)
  /\ \A held, px : Backtest!DcaProceeds(held, px) = DcaProceeds(held, px)
  /\ \A held, px, bar : Backtest!DcaTrade(held, px, bar) = DcaTrade(held, px, bar)
  /\ Backtest!NoDca = NoDca
BY DEF Backtest!DcaSpend, DcaSpend, Backtest!DcaCapped, DcaCapped, Backtest!DcaBought, DcaBought,
       Backtest!DcaProceeds, DcaProceeds, Backtest!DcaTrade, DcaTrade, Backtest!NoDca, NoDca

-----------------------------------------------------------------------------
(* A rule strategy: what the backtest keeps of an account.                 *)

LedgerOf(a) == [cash |-> a.cash, pos |-> a.pos, trades |-> a.trades]

(* Closing a position is what the backtest calls settling it.               *)
LEMMA ClosedIsSettled ==
  ASSUME NEW a, IsAccount(a), NEW px, NEW reason
  PROVE  LedgerOf(Closed(a, px, reason)) = Backtest!Settled(LedgerOf(a), px, reason)
<1> DEFINE t == ClosedTrade(a.pos, px, reason)
<1>1. Backtest!Settled(LedgerOf(a), px, reason)
        = [cash |-> a.cash + t.pnl, pos |-> None, trades |-> Append(a.trades, t)]
  BY SamePositions DEF Backtest!Settled, LedgerOf
<1>2. /\ Closed(a, px, reason).cash = a.cash + t.pnl /\ Closed(a, px, reason).pos = None
      /\ Closed(a, px, reason).trades = Append(a.trades, t)
  BY DEF Closed, IsAccount, AccountFields
<1> QED
  BY <1>1, <1>2 DEF LedgerOf

(* A position is opened with the same size, stop and target.                *)
LEMMA OpenedIsEntered ==
  ASSUME NEW a, IsAccount(a), NEW side, NEW bar
  PROVE  LedgerOf(Opened(a, side, bar.open)) = Backtest!Entered(LedgerOf(a), side, bar)
<1> DEFINE p == NewPosition(side, a.cash, bar.open)
<1>1. Backtest!Entered(LedgerOf(a), side, bar) = [cash |-> a.cash, pos |-> p, trades |-> a.trades]
  BY SamePositions DEF Backtest!Entered, LedgerOf
<1>2. /\ Opened(a, side, bar.open).cash = a.cash /\ Opened(a, side, bar.open).pos = p
      /\ Opened(a, side, bar.open).trades = a.trades
  BY DEF Opened, IsAccount, AccountFields
<1> QED
  BY <1>1, <1>2 DEF LedgerOf

(* The stop comes before the target in either broker.                       *)
LEMMA CheckedIsStopped ==
  ASSUME NEW a, IsAccount(a), NEW bar
  PROVE  LedgerOf(RiskChecked(a, bar)) = Backtest!Stopped(LedgerOf(a), bar)
<1> DEFINE hit == IF a.pos = None THEN None ELSE RiskExit(a.pos, bar)
<1>1. Backtest!Stopped(LedgerOf(a), bar)
        = IF hit = None THEN LedgerOf(a) ELSE Backtest!Settled(LedgerOf(a), hit.px, hit.reason)
  BY SamePositions DEF Backtest!Stopped, LedgerOf
<1>2. RiskChecked(a, bar) = IF hit = None THEN a ELSE Closed(a, hit.px, hit.reason)
  BY DEF RiskChecked
<1> HIDE DEF hit
<1> QED
  BY <1>1, <1>2, ClosedIsSettled

(* One more bar held, with its funding.                                     *)
LEMMA HeldIsCarried ==
  ASSUME NEW a, IsAccount(a), NEW bar
  PROVE  LedgerOf(Held(a, bar)) = Backtest!Carried(LedgerOf(a), bar)
<1>1. CASE a.pos = None
  BY <1>1 DEF Held, Backtest!Carried, LedgerOf
<1>2. CASE a.pos # None
  <2> DEFINE p == HeldOneBar(a.pos, bar.close)
  <2>1. Backtest!Carried(LedgerOf(a), bar) = [cash |-> a.cash, pos |-> p, trades |-> a.trades]
    BY <1>2, SamePositions DEF Backtest!Carried, LedgerOf
  <2>2. Held(a, bar) = [a EXCEPT !.pos = p]
    BY <1>2 DEF Held
  <2> HIDE DEF p
  <2>3. /\ Held(a, bar).cash = a.cash /\ Held(a, bar).pos = p /\ Held(a, bar).trades = a.trades
    BY <2>2 DEF IsAccount, AccountFields
  <2> QED
    BY <2>1, <2>3 DEF LedgerOf
<1> QED
  BY <1>1, <1>2

(* The intents that a rule's signal stands for.                            *)
RuleAsks(a, sig) ==
  /\ Flag("exit") \in a.pending <=> sig.flags \cap {"exit_long", "exit_short"} # {}
  /\ Flag("long") \in a.pending <=> "enter_long" \in sig.flags
  /\ Flag("short") \in a.pending <=> "enter_short" \in sig.flags /\ "enter_long" \notin sig.flags

(* A signal that the two brokers read alike, given the position.            *)
Clear(pos, flags) ==
  /\ ~({"enter_long", "enter_short"} \subseteq flags)
  /\ pos # None => ExitOpposite[pos.side] \notin flags

(* The pending intents change the ledger as the signal they stand for does: *)
(* the runtime leaves a position on any exit flag, the backtest on one of   *)
(* its own side.                                                            *)
LEMMA AppliedIsExecuted ==
  ASSUME NEW a, IsAccount(a), a.pos \in Position \cup {None}, NEW bar,
         NEW sig, RuleAsks(a, sig), Clear(a.pos, sig.flags)
  PROVE  LedgerOf(RuleApplied(a, bar)) = Backtest!Executed(LedgerOf(a), sig, bar)
<1> DEFINE side == IF a.pos = None THEN "none"
                   ELSE IF a.pos.side = "long" THEN "short" ELSE "long"
           leave == a.pos # None /\ a.pending \cap {Flag("exit"), Flag(side)} # {}
           against == IF a.pos = None THEN {}
                      ELSE IF a.pos.side = "long" THEN {"exit_long", "enter_short"}
                                                  ELSE {"exit_short", "enter_long"}
           px == Slip(bar.open, a.pos.side = "long")
           b == IF leave THEN Closed(a, px, "signal") ELSE a
           m == IF sig.flags \cap against # {} THEN Backtest!Settled(LedgerOf(a), px, "signal")
                ELSE LedgerOf(a)
           c == RuleApplied(a, bar)
<1>1. c = IF b.pos # None THEN b
          ELSE IF Flag("long") \in a.pending THEN Opened(b, "long", bar.open)
          ELSE IF Flag("short") \in a.pending THEN Opened(b, "short", bar.open)
          ELSE b
  BY DEF RuleApplied
<1>2. Backtest!Executed(LedgerOf(a), sig, bar)
        = IF m.pos # None THEN m
          ELSE IF "enter_long" \in sig.flags THEN Backtest!Entered(m, "long", bar)
          ELSE IF "enter_short" \in sig.flags THEN Backtest!Entered(m, "short", bar)
          ELSE m
  BY SamePositions DEF Backtest!Executed, LedgerOf
<1>3. leave <=> sig.flags \cap against # {}
  <2>1. CASE a.pos = None
    BY <2>1
  <2>2. CASE a.pos # None /\ a.pos.side = "long"
    <3>1. leave <=> Flag("exit") \in a.pending \/ Flag("short") \in a.pending
      BY <2>2
    <3>2. sig.flags \cap against # {} <=> "exit_long" \in sig.flags \/ "enter_short" \in sig.flags
      BY <2>2
    <3>3. ExitOpposite[a.pos.side] = "exit_short"
      BY <2>2 DEF ExitOpposite
    <3> QED
      BY <2>2, <3>1, <3>2, <3>3 DEF RuleAsks, Clear
  <2>3. CASE a.pos # None /\ a.pos.side = "short"
    <3>1. leave <=> Flag("exit") \in a.pending \/ Flag("long") \in a.pending
      BY <2>3
    <3>2. sig.flags \cap against # {} <=> "exit_short" \in sig.flags \/ "enter_long" \in sig.flags
      BY <2>3
    <3>3. ExitOpposite[a.pos.side] = "exit_long"
      BY <2>3 DEF ExitOpposite
    <3> QED
      BY <2>3, <3>1, <3>2, <3>3 DEF RuleAsks, Clear
  <2> QED
    BY <2>1, <2>2, <2>3 DEF Position
<1> HIDE DEF leave, against, px, c
<1>4. IsAccount(b) /\ LedgerOf(b) = m
  BY <1>3, ClosedKeeps, ClosedIsSettled
<1> HIDE DEF b, m
<1>5. m.pos = b.pos
  BY <1>4 DEF LedgerOf
<1>6. \A s : LedgerOf(Opened(b, s, bar.open)) = Backtest!Entered(m, s, bar)
  BY <1>4, OpenedIsEntered
<1>7. /\ Flag("long") \in a.pending <=> "enter_long" \in sig.flags
      /\ "enter_long" \notin sig.flags =>
           (Flag("short") \in a.pending <=> "enter_short" \in sig.flags)
  BY DEF RuleAsks
<1> QED
  BY <1>1, <1>2, <1>4, <1>5, <1>6, <1>7 DEF c

(* Nothing is pending before the first signal.                             *)
LEMMA NothingApplied ==
  ASSUME NEW a, NEW bar, a.pending = {}
  PROVE  RuleApplied(a, bar) = a
BY DEF RuleApplied

-----------------------------------------------------------------------------
(* What the signal of the last bar has left pending.                       *)

Agrees(a, sig) ==
  IF sig = None THEN a.pending = {}
  ELSE /\ a.kind = "rule" => RuleAsks(a, sig)
       /\ a.kind = "grid" => LevelsWanted(a) = sig.levels
       /\ a.kind = "dca"  => (Flag("dca") \in a.pending <=> sig.dca)

(* What a concatenation lists.                                              *)
LEMMA RangeOfTwo ==
  ASSUME NEW S, NEW x \in Seq(S), NEW y \in Seq(S), NEW v
  PROVE  v \in Range(x \o y) <=> v \in Range(x) \/ v \in Range(y)
<1>1. ASSUME NEW k \in DOMAIN (x \o y), (x \o y)[k] = v PROVE v \in Range(x) \/ v \in Range(y)
  <2>1. CASE k <= Len(x)
    <3>1. k \in DOMAIN x /\ x[k] = v
      BY <1>1, <2>1
    <3> QED
      BY <3>1 DEF Range
  <2>2. CASE k > Len(x)
    <3>1. k - Len(x) \in DOMAIN y /\ y[k - Len(x)] = v
      BY <1>1, <2>2
    <3> QED
      BY <3>1 DEF Range
  <2> QED
    BY <1>1, <2>1, <2>2
<1>2. ASSUME NEW k \in DOMAIN x, x[k] = v PROVE v \in Range(x \o y)
  <2>1. k \in DOMAIN (x \o y) /\ (x \o y)[k] = v
    BY <1>2
  <2> QED
    BY <2>1 DEF Range
<1>3. ASSUME NEW k \in DOMAIN y, y[k] = v PROVE v \in Range(x \o y)
  <2>1. Len(x) + k \in DOMAIN (x \o y) /\ (x \o y)[Len(x) + k] = v
    BY <1>3
  <2> QED
    BY <2>1 DEF Range
<1> QED
  BY <1>1, <1>2, <1>3 DEF Range

(* SetToSeq lists a finite set.                                            *)
LEMMA Listed ==
  ASSUME NEW S, IsFiniteSet(S)
  PROVE  SetToSeq(S) \in Seq(S) /\ Range(SetToSeq(S)) = S
<1> DEFINE n == Cardinality(S)
           s == SetToSeq(S)
<1>1. n \in Nat
  BY FS_CardinalityType
<1>2. \E f \in [1 .. n -> S] : IsInjective(f)
  <2>1. PICK m \in Nat : ExistsBijection(1 .. m, S)
    BY FS_NatBijection
  <2>2. m = n
    BY <2>1, FS_CountingElements
  <2>3. PICK f : f \in Bijection(1 .. n, S)
    BY <2>1, <2>2 DEF ExistsBijection
  <2>4. f \in [1 .. n -> S] /\ IsInjective(f)
    BY <2>3 DEF Bijection, Injection, IsInjective
  <2> QED
    BY <2>4
<1>3. s \in [1 .. n -> S] /\ IsInjective(s)
  BY <1>2 DEF SetToSeq
<1> HIDE DEF s
<1>4. \A i, j \in 1 .. Cardinality(S) : s[i] = s[j] => i = j
  BY <1>3 DEF IsInjective
<1>5. {s[k] : k \in 1 .. Cardinality(S)} = S
  BY <1>3, <1>4, AllNumbered
<1>6. s \in Seq(S)
  <2> HIDE DEF n
  <2> QED
    BY <1>1, <1>3
<1>7. Range(s) = S
  BY <1>3, <1>5 DEF Range
<1> QED
  BY <1>6, <1>7 DEF s

(* A grid's intents list the levels of the signal.                          *)
LEMMA GridIntents ==
  ASSUME acct.kind = "grid", NEW levels \in SUBSET Levels
  PROVE  LET q == IntentsFor(GridSignal(levels))
         IN /\ q \in Seq(Intents)
            /\ {l \in Levels : GridBuy(l) \in Range(q)} = levels
<1> DEFINE S == {GridBuy(l) : l \in levels}
           q == IntentsFor(GridSignal(levels))
<1>1. IsFiniteSet(levels)
  BY FillAssumption, FS_Subset
<1>2. IsFiniteSet(S)
  <2> DEFINE f == [l \in levels |-> GridBuy(l)]
  <2>1. f \in [levels -> S] /\ \A i, j \in levels : f[i] = f[j] => i = j
    BY DEF GridBuy
  <2>2. \A x \in S : \E l \in levels : f[l] = x
    OBVIOUS
  <2> HIDE DEF f, S
  <2>3. f \in Bijection(levels, S)
    BY <2>1, <2>2 DEF Bijection, Injection, Surjection, IsInjective
  <2> QED
    BY <1>1, <2>3, FS_Bijection DEF ExistsBijection
<1>3. q = SetToSeq(S)
  BY DEF IntentsFor, GridSignal
<1>4. S \subseteq Intents
  BY DEF Intents
<1> HIDE DEF q
<1>5. q \in Seq(S) /\ Range(q) = S
  BY <1>2, <1>3, Listed
<1>6. q \in Seq(Intents)
  <2> HIDE DEF S
  <2> QED
    BY <1>4, <1>5
<1>7. \A l, k : GridBuy(l) = GridBuy(k) => l = k
  BY DEF GridBuy
<1>8. {l \in Levels : GridBuy(l) \in S} = levels
  BY <1>7
<1> QED
  BY <1>5, <1>6, <1>8 DEF q

(* A DCA strategy's intent is the buy of the signal.                        *)
LEMMA DcaIntents ==
  ASSUME acct.kind = "dca", NEW buy \in BOOLEAN
  PROVE  LET q == IntentsFor(DcaSignal(buy))
         IN q \in Seq(Intents) /\ (Flag("dca") \in Range(q) <=> buy)
<1> DEFINE q == IntentsFor(DcaSignal(buy))
<1>1. q = IF buy THEN <<Flag("dca")>> ELSE << >>
  BY DEF IntentsFor, DcaSignal
<1>2. Flag("dca") \in Intents
  BY DEF Intents
<1> HIDE DEF q
<1>3. CASE buy
  <2>1. q = <<Flag("dca")>>
    BY <1>1, <1>3
  <2>2. q \in Seq(Intents) /\ 1 \in DOMAIN q /\ q[1] = Flag("dca")
    BY <1>2, <2>1
  <2> QED
    BY <1>3, <2>2 DEF Range, q
<1>4. CASE ~buy
  <2>1. q = << >>
    BY <1>1, <1>4
  <2>2. q \in Seq(Intents) /\ DOMAIN q = {}
    BY <2>1
  <2> QED
    BY <1>4, <2>2 DEF Range, q
<1> QED
  BY <1>3, <1>4

(* A rule strategy's intents are those the signal asks for, a long entry    *)
(* before a short one.                                                      *)
LEMMA RuleIntents ==
  ASSUME acct.kind = "rule", NEW flags
  PROVE  LET q == IntentsFor(RuleSignal(flags))
         IN /\ q \in Seq(Intents)
            /\ Flag("exit") \in Range(q) <=> flags \cap {"exit_long", "exit_short"} # {}
            /\ Flag("long") \in Range(q) <=> "enter_long" \in flags
            /\ Flag("short") \in Range(q) <=> "enter_short" \in flags /\ "enter_long" \notin flags
<1> DEFINE q == IntentsFor(RuleSignal(flags))
           x == IF flags \cap {"exit_long", "exit_short"} # {} THEN <<Flag("exit")>> ELSE << >>
           y == IF "enter_long" \in flags THEN <<Flag("long")>>
                ELSE IF "enter_short" \in flags THEN <<Flag("short")>> ELSE << >>
<1>1. q = x \o y
  BY DEF IntentsFor, RuleSignal
<1>2. Flag("exit") \in Intents /\ Flag("long") \in Intents /\ Flag("short") \in Intents
  BY DEF Intents
<1>3. /\ Flag("exit") # Flag("long") /\ Flag("exit") # Flag("short") /\ Flag("long") # Flag("short")
  BY DEF Flag
<1>4. ASSUME NEW i \in Intents
      PROVE  <<i>> \in Seq(Intents) /\ Range(<<i>>) = {i}
  <2>1. <<i>> \in Seq(Intents) /\ DOMAIN <<i>> = {1} /\ <<i>>[1] = i
    OBVIOUS
  <2> QED
    BY <2>1 DEF Range
<1>5. << >> \in Seq(Intents) /\ Range(<< >>) = {}
  BY DEF Range
<1>6. x \in Seq(Intents)
      /\ Range(x) = IF flags \cap {"exit_long", "exit_short"} # {} THEN {Flag("exit")} ELSE {}
  BY <1>2, <1>4, <1>5, Zenon
<1>7. y \in Seq(Intents)
      /\ Range(y) = IF "enter_long" \in flags THEN {Flag("long")}
                    ELSE IF "enter_short" \in flags THEN {Flag("short")} ELSE {}
  BY <1>2, <1>4, <1>5, Zenon
<1> HIDE DEF q, x, y
<1>8. q \in Seq(Intents)
  BY <1>1, <1>6, <1>7
<1>9. \A v : v \in Range(q) <=> v \in Range(x) \/ v \in Range(y)
  BY <1>1, <1>6, <1>7, RangeOfTwo
<1> QED
  BY <1>3, <1>6, <1>7, <1>8, <1>9 DEF q

-----------------------------------------------------------------------------
(* A strategy holds a position only on a side that its rules enter.         *)
Sided(a) ==
  a.kind = "rule" /\ a.pos # None => \E f \in rules : Enter[a.pos.side] \in f

DeployedInv ==
  /\ Proper(acct) /\ ended \in BOOLEAN /\ rules \in RuleSets
  /\ ~ended => Fresh(acct) /\ Agrees(acct, signal)
  /\ signal = None \/ (acct.kind = "rule" => signal.flags \in rules \cup {{}})
  /\ Sided(acct)

(* Submitting changes the pending intents and the order history only.       *)
LEMMA AllSubmittedKeeps ==
  ASSUME NEW a, IsAccount(a), NEW q \in Seq(Intents)
  PROVE  LET c == AllSubmitted(a, q)
         IN /\ IsAccount(c) /\ c.pending = a.pending \cup Range(q)
            /\ \A f \in AccountFields \ {"orders", "pending"} : c[f] = a[f]
<1> DEFINE new == [k \in DOMAIN q |-> [intent |-> q[k], status |-> "open", bar |-> a.bar]]
           c == AllSubmitted(a, q)
<1>1. new \in Seq(Order)
  <2>1. a.bar \in Nat
    BY DEF IsAccount
  <2>2. \A k \in DOMAIN q : new[k] \in Order
    BY <2>1 DEF Order
  <2>3. DOMAIN q = 1 .. Len(q) /\ Len(q) \in Nat
    OBVIOUS
  <2>4. new \in [1 .. Len(q) -> Order]
    BY <2>2, <2>3
  <2> HIDE DEF new
  <2> QED
    BY <2>3, <2>4
<1>2. /\ c = [f \in AccountFields |-> c[f]]
      /\ c.pending = a.pending \cup Range(q) /\ c.orders = a.orders \o new
      /\ \A f \in AccountFields \ {"orders", "pending"} : c[f] = a[f]
  BY DEF AllSubmitted, IsAccount, AccountFields
<1> HIDE DEF c, new
<1>3. c.orders \in Seq(Order)
  <2>1. a.orders \in Seq(Order)
    BY DEF IsAccount
  <2>2. \A x, y \in Seq(Order) : x \o y \in Seq(Order)
    OBVIOUS
  <2> QED
    BY <1>1, <1>2, <2>1, <2>2
<1>4. c.kind = a.kind /\ c.bar = a.bar /\ c.dca = a.dca
  BY <1>2 DEF AccountFields
<1>5. IsAccount(c)
  BY <1>2, <1>3, <1>4 DEF IsAccount
<1> QED
  BY <1>2, <1>5 DEF c

(* The interpreter's signal has the shape of the strategy's kind.           *)
LEMMA SignalsTyped ==
  ASSUME rules \in RuleSets, acct.kind \in Kinds, NEW b, NEW n, NEW sig \in SignalsAt(b, n)
  PROVE  /\ sig \in AllSignals /\ sig # None
         /\ acct.kind = "rule" => \E f \in rules \cup {{}} : sig = RuleSignal(f)
         /\ acct.kind = "rule" /\ n < FirstBar["rule"] => sig = RuleSignal({})
         /\ acct.kind = "grid" => \E l \in SUBSET Levels : sig = GridSignal(l)
         /\ acct.kind = "dca"  => \E buy \in BOOLEAN : sig = DcaSignal(buy)
<1>1. acct.kind = "rule" \/ acct.kind = "grid" \/ acct.kind = "dca"
  BY DEF Kinds
<1>2. acct.kind = "rule" => \E f \in rules \cup {{}} : sig = RuleSignal(f)
  BY DEF SignalsAt
<1>3. acct.kind = "rule" /\ n < FirstBar["rule"] => sig = RuleSignal({})
  BY DEF SignalsAt
<1>4. acct.kind = "grid" => \E l \in SUBSET Levels : sig = GridSignal(l)
  <2>1. Triggered(b) \in SUBSET Levels
    BY DEF Triggered
  <2> QED
    BY <2>1 DEF SignalsAt
<1>5. acct.kind = "dca" => \E buy \in BOOLEAN : sig = DcaSignal(buy)
  BY DEF SignalsAt
<1>6. \A f \in rules \cup {{}} : f \in SUBSET Flags
  BY DeployAssumption
<1>7. sig \in AllSignals
  BY <1>1, <1>2, <1>4, <1>5, <1>6 DEF AllSignals
<1> QED
  BY <1>2, <1>3, <1>4, <1>5, <1>7, DeployAssumption

(* What a bar of the broker makes of the account.                           *)
Walked(b) ==
  LET c == Filled(Dated(acct, b), b)
  IN /\ Proper(acct') /\ acct'.kind = acct.kind /\ acct'.bar = acct.bar + 1
     /\ acct'.mark = b.close /\ acct'.mark # None
     /\ acct'.cash = c.cash /\ acct'.pos = c.pos /\ acct'.trades = c.trades
     /\ acct'.grid = c.grid /\ acct'.dca = c.dca

(* Whether or not the gate lets a signal pass, what is pending after the    *)
(* bar is what the signal asks for.                                         *)
LEMMA BarAgrees ==
  ASSUME FillsAreIntegers, FillsAreFair, WarmupAgrees, DeployedInv,
         NEW b \in Bars, NEW sig \in SignalsAt(b, acct.bar + 1), DeployedOnBar(b, sig)
  PROVE  Walked(b) /\ Fresh(acct') /\ Agrees(acct', sig)
<1> DEFINE d == AfterBar(acct, b)
           q == IntentsFor(sig)
           c == Filled(Dated(acct, b), b)
<1>0. /\ ~ended /\ Proper(acct) /\ Fresh(acct) /\ rules \in RuleSets
      /\ acct.kind \in Kinds /\ acct.bar \in Nat
  BY DEF DeployedOnBar, DeployedInv, Proper, Sound, IsAccount
<1>1. acct' = IF d.bar < MinSignalBars THEN d ELSE AllSubmitted(d, q)
  BY DEF DeployedOnBar
<1>2. IsBar(b)
  BY BarsAssumption DEF IsBar
<1>3. /\ Proper(d) /\ Fresh(d)
      /\ d.kind = acct.kind /\ d.bar = acct.bar + 1 /\ d.mark = b.close /\ d.mark # None
      /\ d.cash = c.cash /\ d.pos = c.pos /\ d.trades = c.trades
      /\ d.grid = c.grid /\ d.dca = c.dca /\ d.pending = {}
  BY <1>0, <1>2, AfterBarSound
<1>4. /\ sig # None
      /\ acct.kind = "rule" => \E f \in rules \cup {{}} : sig = RuleSignal(f)
      /\ acct.kind = "rule" /\ acct.bar + 1 < FirstBar["rule"] => sig = RuleSignal({})
      /\ acct.kind = "grid" => \E l \in SUBSET Levels : sig = GridSignal(l)
      /\ acct.kind = "dca"  => \E buy \in BOOLEAN : sig = DcaSignal(buy)
  BY <1>0, SignalsTyped
<1> HIDE DEF d, c
<1>5. CASE d.bar < MinSignalBars
  <2>1. acct.kind = "rule" /\ acct.bar + 1 < FirstBar["rule"]
    <3>1. acct.kind = "rule" \/ acct.kind = "grid" \/ acct.kind = "dca"
      BY <1>0 DEF Kinds
    <3>2. Lookback[acct.kind] # 0
      BY <1>0, <1>3, <1>5 DEF MinSignalBars
    <3>3. acct.kind = "rule"
      BY <3>1, <3>2 DEF WarmupAgrees
    <3>4. /\ Lookback["rule"] \in Nat /\ FirstBar["rule"] \in Nat
          /\ FirstBar["rule"] > Lookback["rule"]
      BY <3>2, <3>3, DeployAssumption DEF WarmupAgrees
    <3>5. acct.bar + 1 < Lookback["rule"] + 1
      BY <1>3, <1>5, <3>2, <3>3 DEF MinSignalBars
    <3> QED
      BY <1>0, <3>3, <3>4, <3>5
  <2>2. sig = RuleSignal({}) /\ acct' = d
    BY <1>1, <1>4, <1>5, <2>1
  <2>3. sig.flags = {}
    BY <2>2 DEF RuleSignal
  <2>4. RuleAsks(d, sig)
    BY <1>3, <2>3 DEF RuleAsks
  <2>5. Agrees(acct', sig)
    BY <1>3, <1>4, <2>1, <2>2, <2>4 DEF Agrees
  <2> QED
    BY <1>3, <2>2, <2>5 DEF Walked, c
<1>6. CASE ~(d.bar < MinSignalBars)
  <2> DEFINE e == AllSubmitted(d, q)
  <2>1. acct' = e
    BY <1>1, <1>6
  <2>2. /\ q \in Seq(Intents)
        /\ \A a : a.kind = acct.kind /\ a.pending = Range(q) => Agrees(a, sig)
    <3>1. CASE acct.kind = "grid"
      <4>1. PICK l \in SUBSET Levels : sig = GridSignal(l)
        BY <1>4, <3>1
      <4>2. sig.levels = l
        BY <4>1 DEF GridSignal
      <4> QED
        BY <1>4, <3>1, <4>1, <4>2, GridIntents DEF Agrees, LevelsWanted
    <3>2. CASE acct.kind = "dca"
      <4>1. PICK buy \in BOOLEAN : sig = DcaSignal(buy)
        BY <1>4, <3>2
      <4>2. sig.dca = buy
        BY <4>1 DEF DcaSignal
      <4> QED
        BY <1>4, <3>2, <4>1, <4>2, DcaIntents DEF Agrees
    <3>3. CASE acct.kind = "rule"
      <4>1. PICK f : sig = RuleSignal(f)
        BY <1>4, <3>3
      <4>2. sig.flags = f
        BY <4>1 DEF RuleSignal
      <4> QED
        BY <1>4, <3>3, <4>1, <4>2, RuleIntents DEF Agrees, RuleAsks
    <3> QED
      BY <1>0, <3>1, <3>2, <3>3 DEF Kinds
  <2>3. IsAccount(d)
    BY <1>3 DEF Proper, Sound
  <2> HIDE DEF q
  <2>4. /\ IsAccount(e) /\ e.pending = d.pending \cup Range(q)
        /\ \A f \in AccountFields \ {"orders", "pending"} : e[f] = d[f]
    BY <2>2, <2>3, AllSubmittedKeeps
  <2> HIDE DEF e
  <2>5. e.pending = Range(q) /\ e.pending \subseteq Intents
    BY <1>3, <2>2, <2>4 DEF Range
  <2>6. /\ e.kind = d.kind /\ e.bar = d.bar /\ e.mark = d.mark /\ e.cash = d.cash
        /\ e.pos = d.pos /\ e.trades = d.trades /\ e.grid = d.grid /\ e.dca = d.dca
    BY <2>4 DEF AccountFields
  <2>7. Proper(e) /\ Fresh(e)
    BY <1>3, <2>4, <2>5, OrdersAside
  <2>8. Agrees(e, sig)
    BY <1>3, <2>2, <2>5, <2>6
  <2> QED
    BY <1>3, <2>1, <2>6, <2>7, <2>8 DEF Walked, c
<1> QED
  BY <1>5, <1>6

-----------------------------------------------------------------------------
(* The position that a bar leaves is the one it found or one that was       *)
(* asked for.                                                              *)

(* A position that the intents leave was there before, or has its side      *)
(* among them.                                                              *)
LEMMA SideAsked ==
  ASSUME NEW a, IsAccount(a), NEW bar, RuleApplied(a, bar).pos # None
  PROVE  \/ RuleApplied(a, bar).pos = a.pos
         \/ \E side \in {"long", "short"} :
              Flag(side) \in a.pending /\ RuleApplied(a, bar).pos.side = side
<1> DEFINE against == IF a.pos = None THEN "none"
                      ELSE IF a.pos.side = "long" THEN "short" ELSE "long"
           leave == a.pos # None /\ a.pending \cap {Flag("exit"), Flag(against)} # {}
           b == IF leave
                THEN Closed(a, Slip(bar.open, a.pos.side = "long"), "signal")
                ELSE a
           c == RuleApplied(a, bar)
<1>1. c = IF b.pos # None THEN b
          ELSE IF Flag("long") \in a.pending THEN Opened(b, "long", bar.open)
          ELSE IF Flag("short") \in a.pending THEN Opened(b, "short", bar.open)
          ELSE b
  BY DEF RuleApplied
<1>2. IsAccount(b) /\ (b.pos # None => b.pos = a.pos)
  BY ClosedKeeps
<1> HIDE DEF b, c
<1>3. CASE b.pos # None
  BY <1>1, <1>2, <1>3 DEF c
<1>4. ASSUME NEW side \in {"long", "short"}, c = Opened(b, side, bar.open)
      PROVE  c.pos.side = side
  <2>1. c.pos = NewPosition(side, b.cash, bar.open)
    BY <1>2, <1>4, OpenedKeeps
  <2> QED
    BY <2>1 DEF NewPosition
<1>5. CASE b.pos = None /\ Flag("long") \in a.pending
  BY <1>1, <1>4, <1>5 DEF c
<1>6. CASE b.pos = None /\ Flag("long") \notin a.pending /\ Flag("short") \in a.pending
  BY <1>1, <1>4, <1>6 DEF c
<1>7. CASE b.pos = None /\ Flag("long") \notin a.pending /\ Flag("short") \notin a.pending
  BY <1>1, <1>7 DEF c
<1> QED
  BY <1>3, <1>5, <1>6, <1>7

(* So the side of a position is one that the rules enter.                   *)
LEMMA BarSided ==
  ASSUME FillsAreIntegers, DeployedInv, ~ended, acct.kind = "rule", NEW b, IsBar(b),
         NEW c, c = Filled(Dated(acct, b), b), c.pos # None
  PROVE  \E f \in rules : Enter[c.pos.side] \in f
<1> DEFINE a == Dated(acct, b)
           x == RuleApplied(a, b)
           y == RiskChecked(x, b)
<1>0. Proper(acct) /\ Agrees(acct, signal) /\ Sided(acct)
  BY DEF DeployedInv
<1>1. Sound(a) /\ a.pos = acct.pos /\ a.pending = acct.pending /\ a.kind = "rule"
  BY <1>0, DatedSound
<1>2. c = Held(y, b)
  BY <1>1 DEF Filled
<1> HIDE DEF a
<1>3. IsAccount(x)
  BY <1>1, RuleAppliedKeeps DEF Sound
<1>4. \/ x.pos = None \/ x.pos = a.pos
      \/ \E side \in {"long", "short"} : Flag(side) \in a.pending /\ x.pos.side = side
  BY <1>1, SideAsked DEF Sound
<1> HIDE DEF x
<1>5. IsAccount(y) /\ y.pos \in {None, x.pos}
  BY <1>3, RiskCheckedKeeps
<1> HIDE DEF y
<1>6. y.pos # None /\ c.pos = HeldOneBar(y.pos, b.close)
  BY <1>2, <1>5, HeldKeeps
<1>7. Sound(RuleApplied(a, b))
  BY <1>1, RuleAppliedSound
<1>8. x.pos \in Position
  BY <1>5, <1>6, <1>7 DEF x, Sound, Money
<1>9. c.pos.side = x.pos.side
  <2>1. y.pos = x.pos
    BY <1>5, <1>6
  <2>2. HeldOneBar(x.pos, b.close).side = x.pos.side
    BY <1>8 DEF HeldOneBar, Position
  <2> QED
    BY <1>6, <2>1, <2>2
<1>10. CASE x.pos = a.pos
  <2>1. acct.pos # None /\ acct.pos.side = c.pos.side
    BY <1>1, <1>5, <1>6, <1>9, <1>10
  <2> QED
    BY <1>0, <2>1 DEF Sided
<1>11. ASSUME NEW side \in {"long", "short"}, Flag(side) \in a.pending, x.pos.side = side
       PROVE  \E f \in rules : Enter[c.pos.side] \in f
  <2>1. signal # None /\ RuleAsks(acct, signal)
    BY <1>0, <1>1, <1>11 DEF Agrees
  <2>2. Enter[side] \in signal.flags
    BY <1>1, <1>11, <2>1 DEF RuleAsks, Enter
  <2>3. signal.flags \in rules
    BY <2>1, <2>2 DEF DeployedInv
  <2> QED
    BY <1>9, <1>11, <2>2, <2>3
<1> QED
  BY <1>4, <1>5, <1>6, <1>10, <1>11

-----------------------------------------------------------------------------
(* Equity, for each kind of account.                                       *)

(* An account has the terms of its own kind only.                           *)
LEMMA EquityOf ==
  ASSUME NEW a, Money(a), OneKind(a), a.mark # None
  PROVE  /\ a.kind = "rule" =>
              Equity(a) = a.cash + IF a.pos = None THEN 0 ELSE Unrealized(a.pos, a.mark)
         /\ a.kind = "grid" =>
              Equity(a) = a.cash + SumFunction([l \in DOMAIN a.grid |-> a.grid[l].size * a.mark])
         /\ a.kind = "dca" => Equity(a) = a.cash + a.dca.base * a.mark
<1> DEFINE u == IF a.pos = None THEN 0 ELSE Unrealized(a.pos, a.mark)
           s == SumFunction([l \in DOMAIN a.grid |-> a.grid[l].size * a.mark])
           d == a.dca.base * a.mark
<1>1. Equity(a) = a.cash + u + s + d
  BY DEF Equity
<1>2. a.cash \in Int /\ a.mark \in Int /\ a.dca.base \in Int
  BY DEF Money, Holding
<1>3. a.pos # None => Gross(a.pos, a.mark) \in Int /\ a.pos.fee \in Int /\ a.pos.funding \in Int
  <2>1. ASSUME a.pos # None PROVE a.pos \in Position
    BY <2>1 DEF Money
  <2> QED
    BY <1>2, <2>1 DEF Gross, Position
<1>4. u \in Int
  BY <1>3 DEF Unrealized
<1>5. s \in Int
  <2> DEFINE k == SumFunction([l \in DOMAIN a.grid |-> a.grid[l].size])
  <2>1. k \in Int /\ s = k * a.mark
    BY <1>2, SlicesAtOnePrice
  <2> HIDE DEF k, s
  <2> QED
    BY <1>2, <2>1
<1>6. a.kind # "rule" => u = 0
  BY DEF OneKind
<1>7. a.kind # "grid" => s = 0
  <2>1. ASSUME NEW F, DOMAIN F = {} PROVE SumFunction(F) = 0
    BY <2>1, SumOfNone DEF SumFunction
  <2> QED
    BY <2>1 DEF OneKind
<1>8. a.kind # "dca" => d = 0
  BY <1>2 DEF OneKind
<1>9. d \in Int
  BY <1>2
<1> HIDE DEF u, s, d
<1>10. a.kind = "rule" => Equity(a) = a.cash + u
  BY <1>1, <1>2, <1>4, <1>7, <1>8
<1>11. a.kind = "grid" => Equity(a) = a.cash + s
  BY <1>1, <1>2, <1>5, <1>6, <1>8
<1>12. a.kind = "dca" => Equity(a) = a.cash + d
  BY <1>1, <1>2, <1>6, <1>7, <1>9
<1> QED
  BY <1>10, <1>11, <1>12 DEF u, s, d

-----------------------------------------------------------------------------
(* One bar, for each kind of account: what the account holds after it is    *)
(* what the backtest holds.                                                *)

(* Rules that agree raise no signal that the brokers read differently.      *)
LEMMA SignalIsClear ==
  ASSUME RulesAgree, DeployedInv, acct.kind = "rule", signal # None
  PROVE  Clear(acct.pos, signal.flags)
<1>1. rules \in RuleSets /\ signal.flags \in rules \cup {{}}
  BY DEF DeployedInv
<1>2. ~({"enter_long", "enter_short"} \subseteq signal.flags)
  BY <1>1 DEF RulesAgree
<1>3. ASSUME acct.pos # None PROVE ExitOpposite[acct.pos.side] \notin signal.flags
  <2>1. acct.pos.side \in DOMAIN Enter
    BY <1>3 DEF DeployedInv, Proper, Sound, Money, Position, Enter
  <2>2. \E f \in rules : Enter[acct.pos.side] \in f
    BY <1>3 DEF DeployedInv, Sided
  <2> QED
    BY <1>1, <2>1, <2>2 DEF RulesAgree
<1> QED
  BY <1>2, <1>3 DEF Clear

(* A rule strategy: intents, stop and target, one more bar held.            *)
LEMMA RuleStep ==
  ASSUME FillsAreIntegers, RulesAgree, DeployedInv, ~ended, acct.kind = "rule",
         NEW b, IsBar(b), Walked(b)
  PROVE  Backtest!RuleBar(b)
<1> DEFINE a == Dated(acct, b)
           x == RuleApplied(a, b)
           y == RiskChecked(x, b)
           c == Filled(a, b)
           l == IF signal = None THEN Backtest!Ledger ELSE Backtest!Executed(Backtest!Ledger, signal, b)
           m == Backtest!Carried(Backtest!Stopped(l, b), b)
<1>0. Proper(acct) /\ Agrees(acct, signal)
  BY DEF DeployedInv
<1>1. /\ Sound(a) /\ a.cash = acct.cash /\ a.pos = acct.pos /\ a.trades = acct.trades
      /\ a.grid = acct.grid /\ a.dca = acct.dca
      /\ a.pending = acct.pending /\ a.kind = "rule"
  BY <1>0, DatedSound
<1>2. c = Held(y, b)
  BY <1>1 DEF Filled
<1>3. LedgerOf(a) = Backtest!Ledger
  BY <1>1 DEF LedgerOf, Backtest!Ledger
<1>4. c.grid = a.grid /\ c.dca = a.dca
  BY <1>1, <1>2, RuleBarSound
<1> HIDE DEF a, c
<1>5. IsAccount(a) /\ a.pos \in Position \cup {None}
  BY <1>1 DEF Sound, Money
<1>6. LedgerOf(x) = l
  <2>1. CASE signal = None
    <3>1. a.pending = {}
      BY <1>0, <1>1, <2>1 DEF Agrees
    <3> QED
      BY <1>3, <2>1, <3>1, NothingApplied
  <2>2. CASE signal # None
    <3>1. Clear(a.pos, signal.flags)
      BY <1>1, <2>2, SignalIsClear
    <3>2. RuleAsks(a, signal)
      BY <1>0, <1>1, <2>2 DEF Agrees, RuleAsks
    <3> QED
      BY <1>3, <1>5, <2>2, <3>1, <3>2, AppliedIsExecuted
  <2> QED
    BY <2>1, <2>2
<1>7. IsAccount(x)
  BY <1>5, RuleAppliedKeeps
<1> HIDE DEF x, l
<1>8. IsAccount(y) /\ LedgerOf(y) = Backtest!Stopped(l, b)
  BY <1>6, <1>7, RiskCheckedKeeps, CheckedIsStopped
<1> HIDE DEF y
<1>9. LedgerOf(c) = m
  BY <1>2, <1>8, HeldIsCarried
<1> HIDE DEF m
<1>10. m.cash = c.cash /\ m.pos = c.pos /\ m.trades = c.trades
  BY <1>9 DEF LedgerOf
<1>11. /\ acct'.cash = m.cash /\ acct'.pos = m.pos /\ acct'.trades = m.trades
       /\ acct'.grid = acct.grid /\ acct'.dca = acct.dca
  BY <1>1, <1>4, <1>10 DEF Walked, a, c
<1>12. Equity(acct') = m.cash + IF m.pos = None THEN 0 ELSE Backtest!Unrealized(m.pos, b.close)
  <2>1. Money(acct') /\ OneKind(acct') /\ acct'.kind = "rule" /\ acct'.mark # None
        /\ acct'.mark = b.close
    BY DEF Walked, Proper, Sound
  <2>2. Equity(acct') = acct'.cash + IF acct'.pos = None THEN 0 ELSE Unrealized(acct'.pos, acct'.mark)
    BY <2>1, EquityOf
  <2>3. Unrealized(m.pos, b.close) = Backtest!Unrealized(m.pos, b.close)
    BY SamePositions
  <2> QED
    BY <1>11, <2>1, <2>2, <2>3
<1> QED
  BY <1>11, <1>12 DEF Backtest!RuleBar, m, l

(* A grid strategy: what the signal buys, and what its target sells.        *)
LEMMA GridStep ==
  ASSUME FillsAreIntegers, DeployedInv, ~ended, acct.kind = "grid", NEW b, IsBar(b), Walked(b)
  PROVE  Backtest!GridBar(b)
<1> DEFINE a == Dated(acct, b)
           c == Filled(a, b)
           buys == IF signal = None THEN {} ELSE signal.levels \ DOMAIN acct.grid
           lots == [l \in DOMAIN acct.grid \cup buys |->
                      IF l \in buys THEN GridLot(l, acct'.bar) ELSE acct.grid[l]]
           due == {l \in DOMAIN lots : GridTarget(l) # None /\ b.close >= GridTarget(l)}
           price == [l \in due |-> SlipDown(GridTarget(l))]
           order == Ascending(due)
           paid == SumFunction([l \in buys |-> LotCost(lots[l])])
           got == SumFunction([l \in due |-> price[l] * lots[l].size - Taker(price[l] * lots[l].size)])
           sold == [k \in DOMAIN order |->
                      LotTrade(lots[order[k]], price[order[k]], acct'.bar, "take_profit")]
           d == LotsBought(a, buys)
<1>0. Proper(acct) /\ Agrees(acct, signal)
  BY DEF DeployedInv
<1>1. /\ Sound(a) /\ a.cash = acct.cash /\ a.pos = acct.pos /\ a.trades = acct.trades
      /\ a.grid = acct.grid /\ a.dca = acct.dca /\ a.bar = acct.bar + 1
      /\ a.pending = acct.pending /\ a.kind = "grid"
  BY <1>0, DatedSound
<1>2. LevelsWanted(a) \ DOMAIN a.grid = buys
  <2>1. CASE signal = None
    BY <1>0, <1>1, <2>1 DEF Agrees, LevelsWanted
  <2>2. CASE signal # None
    BY <1>0, <1>1, <2>2 DEF Agrees, LevelsWanted
  <2> QED
    BY <2>1, <2>2
<1>3. c = GridApplied(a, b)
  BY <1>1 DEF Filled
<1>4. c.pos = a.pos /\ c.dca = a.dca
  BY <1>1, <1>3, GridAppliedSound
<1>5. acct'.bar = a.bar
  BY <1>1 DEF Walked
<1> HIDE DEF a, c, buys
<1>6. IsAccount(a)
  BY <1>1 DEF Sound
<1>7. /\ IsAccount(d) /\ d.grid = lots /\ d.cash = acct.cash - paid
      /\ d.trades = acct.trades /\ d.bar = acct'.bar
  <2>1. IsAccount(d)
    BY <1>6, LotsBoughtKeeps
  <2>2. /\ d.grid = [l \in DOMAIN a.grid \cup buys |->
                      IF l \in buys THEN GridLot(l, a.bar) ELSE a.grid[l]]
        /\ d.trades = a.trades /\ d.bar = a.bar
        /\ d.cash = a.cash - SumFunction([l \in buys |->
             LotCost([i \in DOMAIN a.grid \cup buys |->
                        IF i \in buys THEN GridLot(i, a.bar) ELSE a.grid[i]][l])])
    BY <1>6 DEF LotsBought, IsAccount, AccountFields
  <2> QED
    BY <1>1, <1>5, <2>1, <2>2
<1> HIDE DEF d, lots, paid
<1>8. c = LotsSold(d, due, price, "take_profit")
  <2>1. c = LotsSold(d, {l \in DOMAIN d.grid : GridTarget(l) # None /\ b.close >= GridTarget(l)},
                     [l \in {l \in DOMAIN d.grid : GridTarget(l) # None /\ b.close >= GridTarget(l)}
                        |-> SlipDown(GridTarget(l))], "take_profit")
    BY <1>2, <1>3 DEF GridApplied, d
  <2> QED
    BY <1>7, <2>1
<1> HIDE DEF due, price
<1>9. /\ c.cash = d.cash + SumFunction([l \in due |->
            price[l] * d.grid[l].size - Taker(price[l] * d.grid[l].size)])
      /\ c.grid = [l \in DOMAIN d.grid \ due |-> d.grid[l]]
      /\ c.trades = d.trades \o [k \in DOMAIN order |->
            LotTrade(d.grid[order[k]], price[order[k]], d.bar, "take_profit")]
  BY <1>7, <1>8 DEF LotsSold, IsAccount, AccountFields
<1>10. /\ c.cash = acct.cash - paid + got
       /\ c.grid = [l \in DOMAIN lots \ due |-> lots[l]]
       /\ c.trades = acct.trades \o sold
  BY <1>7, <1>9
<1> HIDE DEF order, got, sold
<1>11. /\ acct'.cash = acct.cash - paid + got
       /\ acct'.grid = [l \in DOMAIN lots \ due |-> lots[l]]
       /\ acct'.trades = acct.trades \o sold
       /\ acct'.pos = acct.pos /\ acct'.dca = acct.dca
  BY <1>1, <1>4, <1>10 DEF Walked, a, c
<1>12. Equity(acct') = acct'.cash + SumFunction([l \in DOMAIN lots \ due |-> lots[l].size * b.close])
  <2>1. Money(acct') /\ OneKind(acct') /\ acct'.kind = "grid" /\ acct'.mark # None
        /\ acct'.mark = b.close
    BY DEF Walked, Proper, Sound
  <2>2. Equity(acct') = acct'.cash + SumFunction([l \in DOMAIN acct'.grid |-> acct'.grid[l].size * acct'.mark])
    BY <2>1, EquityOf
  <2>3. [l \in DOMAIN acct'.grid |-> acct'.grid[l].size * acct'.mark]
          = [l \in DOMAIN lots \ due |-> lots[l].size * b.close]
    BY <1>11, <2>1
  <2> QED
    BY <2>2, <2>3
<1>13. Backtest!Sales(lots, due, price, "take_profit") = sold
  BY SameSlices DEF Backtest!Sales, sold, order
<1>14. Backtest!SalesCash(lots, due, price) = got
  BY SameSlices DEF Backtest!SalesCash, got
<1> DEFINE lots2 == [l \in DOMAIN acct.grid \cup buys |->
                      IF l \in buys THEN Backtest!GridLot(l, acct'.bar) ELSE acct.grid[l]]
           due2 == {l \in DOMAIN lots2 : /\ Backtest!GridTarget(l) # None
                                         /\ b.close >= Backtest!GridTarget(l)}
           price2 == [l \in due2 |-> SlipDown(Backtest!GridTarget(l))]
           paid2 == Backtest!SumFunction([l \in buys |-> Backtest!LotCost(lots2[l])])
           left2 == Backtest!SumFunction([l \in DOMAIN lots2 \ due2 |-> lots2[l].size * b.close])
<1>15. lots2 = lots
  BY SameSlices DEF lots
<1> HIDE DEF lots2
<1>16. due2 = due
  BY <1>15, SameSlices DEF due
<1> HIDE DEF due2
<1>17. price2 = price
  BY <1>16, SameSlices DEF price
<1>18. paid2 = paid
  <2>1. [l \in buys |-> Backtest!LotCost(lots2[l])] = [l \in buys |-> LotCost(lots[l])]
    BY <1>15, SameSlices
  <2> QED
    BY <2>1, SameSlices DEF paid
<1>19. left2 = SumFunction([l \in DOMAIN lots \ due |-> lots[l].size * b.close])
  BY <1>15, <1>16, SameSlices
<1> HIDE DEF price2, paid2, left2
<1>20. Backtest!GridBar(b) <=>
         /\ acct'.cash = acct.cash - paid2 + Backtest!SalesCash(lots2, due2, price2)
         /\ acct'.grid = [l \in DOMAIN lots2 \ due2 |-> lots2[l]]
         /\ acct'.trades = acct.trades \o Backtest!Sales(lots2, due2, price2, "take_profit")
         /\ Equity(acct') = acct'.cash + left2
         /\ acct'.pos = acct.pos /\ acct'.dca = acct.dca
  BY DEF Backtest!GridBar, lots2, due2, price2, paid2, left2, buys
<1> QED
  BY <1>11, <1>12, <1>13, <1>14, <1>15, <1>16, <1>17, <1>18, <1>19, <1>20

(* A DCA strategy: the purchase, within the cash there is.                  *)
LEMMA DcaStep ==
  ASSUME FillsAreIntegers, DeployedInv, ~ended, acct.kind = "dca", NEW b, IsBar(b), Walked(b)
  PROVE  Backtest!DcaBar(b)
<1> DEFINE a == Dated(acct, b)
           c == Filled(a, b)
           spend == DcaSpend(acct.cash)
           buys == signal # None /\ signal.dca /\ ~DcaCapped(acct.dca) /\ spend > 0
<1>0. Proper(acct) /\ Agrees(acct, signal)
  BY DEF DeployedInv
<1>1. /\ Sound(a) /\ a.cash = acct.cash /\ a.pos = acct.pos /\ a.trades = acct.trades
      /\ a.grid = acct.grid /\ a.dca = acct.dca /\ a.bar = acct.bar + 1
      /\ a.pending = acct.pending /\ a.kind = "dca"
  BY <1>0, DatedSound
<1>2. Flag("dca") \in a.pending <=> signal # None /\ signal.dca
  BY <1>0, <1>1 DEF Agrees
<1>3. c = DcaApplied(a, b)
  BY <1>1 DEF Filled
<1>4. acct'.bar = a.bar
  BY <1>1 DEF Walked
<1> HIDE DEF a
<1>5. IsAccount(a)
  BY <1>1 DEF Sound
<1>6. c = IF ~buys THEN a
          ELSE [a EXCEPT !.dca = DcaBought(@, spend, b.open, a.bar),
                         !.fees = @ + Taker(spend), !.cash = @ - spend]
  BY <1>1, <1>2, <1>3 DEF DcaApplied
<1> HIDE DEF buys, c, spend
<1>7. /\ c.pos = a.pos /\ c.trades = a.trades /\ c.grid = a.grid
      /\ IF buys THEN c.dca = DcaBought(a.dca, spend, b.open, a.bar) /\ c.cash = a.cash - spend
                 ELSE c.dca = a.dca /\ c.cash = a.cash
  <2>1. CASE buys
    <3>1. c = [a EXCEPT !.dca = DcaBought(@, spend, b.open, a.bar),
                        !.fees = @ + Taker(spend), !.cash = @ - spend]
      BY <1>6, <2>1
    <3> QED
      BY <1>5, <2>1, <3>1 DEF IsAccount, AccountFields
  <2>2. CASE ~buys
    BY <1>6, <2>2
  <2> QED
    BY <2>1, <2>2
<1>8. /\ acct'.pos = acct.pos /\ acct'.trades = acct.trades /\ acct'.grid = acct.grid
      /\ IF buys THEN /\ acct'.dca = DcaBought(acct.dca, spend, b.open, acct'.bar)
                      /\ acct'.cash = acct.cash - spend
                 ELSE acct'.dca = acct.dca /\ acct'.cash = acct.cash
  BY <1>1, <1>4, <1>7 DEF Walked, a, c
<1>9. Equity(acct') = acct'.cash + acct'.dca.base * b.close
  <2>1. Money(acct') /\ OneKind(acct') /\ acct'.kind = "dca" /\ acct'.mark # None
        /\ acct'.mark = b.close
    BY DEF Walked, Proper, Sound
  <2> QED
    BY <2>1, EquityOf
<1> QED
  BY <1>8, <1>9, SamePurchases DEF Backtest!DcaBar, buys, spend

(* One bar of the deployed strategy is one bar of the backtest.             *)
LEMMA BarStepsAlike ==
  ASSUME FillsAreIntegers, FillsAreFair, RulesAgree, WarmupAgrees, DeployedInv,
         NEW b \in Bars, NEW sig \in SignalsAt(b, acct.bar + 1), DeployedOnBar(b, sig)
  PROVE  DeployedInv' /\ Backtest!Next
<1> DEFINE c == Filled(Dated(acct, b), b)
<1>1. /\ ~ended /\ ended' = ended /\ signal' = sig /\ rules' = rules
      /\ Proper(acct) /\ rules \in RuleSets /\ acct.kind \in {"rule", "grid", "dca"}
  BY DEF DeployedOnBar, DeployedInv, Proper, Sound, IsAccount, Kinds
<1>2. IsBar(b)
  BY BarsAssumption DEF IsBar
<1>3. Walked(b) /\ Fresh(acct') /\ Agrees(acct', sig)
  BY BarAgrees
<1>4. /\ sig \in AllSignals
      /\ acct.kind = "rule" => \E f \in rules \cup {{}} : sig = RuleSignal(f)
  BY <1>1, SignalsTyped DEF Kinds
<1>5. acct.kind = "rule" => sig.flags \in rules \cup {{}}
  BY <1>4 DEF RuleSignal
<1>6. acct'.kind = acct.kind /\ Proper(acct') /\ acct'.pos = c.pos
  BY <1>3 DEF Walked
<1> HIDE DEF c
<1>7. Sided(acct)'
  <2>1. ASSUME acct.kind = "rule", c.pos # None PROVE \E f \in rules : Enter[c.pos.side] \in f
    BY <1>1, <1>2, <2>1, BarSided DEF c
  <2> QED
    BY <1>1, <1>6, <2>1 DEF Sided
<1>8. Agrees(acct, signal)'
  BY <1>1, <1>3 DEF Agrees, RuleAsks, LevelsWanted
<1>9. DeployedInv'
  BY <1>1, <1>3, <1>5, <1>6, <1>7, <1>8 DEF DeployedInv
<1>10. \/ acct.kind = "rule" /\ Backtest!RuleBar(b)
       \/ acct.kind = "grid" /\ Backtest!GridBar(b)
       \/ acct.kind = "dca"  /\ Backtest!DcaBar(b)
  BY <1>1, <1>2, <1>3, RuleStep, GridStep, DcaStep
<1>11. acct'.mark = b.close /\ acct'.bar = acct.bar + 1
  BY <1>3 DEF Walked
<1>12. Backtest!WalkBar(b, sig)
  BY <1>1, <1>6, <1>10, <1>11 DEF Backtest!WalkBar
<1> QED
  BY <1>4, <1>9, <1>12 DEF Backtest!Next

-----------------------------------------------------------------------------
(* The end: everything that is open is closed, by either broker.            *)

(* An account that holds nothing is worth its cash.                         *)
LEMMA Emptied ==
  ASSUME NEW a, Money(a)
  PROVE  /\ DOMAIN a.grid = {} => a.grid = NoLots
         /\ a.dca.base = 0 => a.dca = [a.dca EXCEPT !.base = 0]
         /\ /\ OneKind(a) /\ a.kind \in Kinds /\ a.mark # None
            /\ a.pos = None /\ DOMAIN a.grid = {} /\ a.dca.base = 0
            => Equity(a) = a.cash
<1>1. DOMAIN a.grid = {} => a.grid = NoLots
  BY DEF Money, NoLots
<1>2. a.dca.base = 0 => a.dca = [a.dca EXCEPT !.base = 0]
  BY DEF Money, Holding
<1>3. ASSUME OneKind(a), a.kind \in Kinds, a.mark # None,
             a.pos = None, DOMAIN a.grid = {}, a.dca.base = 0
      PROVE  Equity(a) = a.cash
  <2>1. a.cash \in Int /\ a.mark \in Int
    BY <1>3 DEF Money
  <2>2. SumFunction([l \in DOMAIN a.grid |-> a.grid[l].size * a.mark]) = 0
    <3>1. ASSUME NEW F, DOMAIN F = {} PROVE SumFunction(F) = 0
      BY <3>1, SumOfNone DEF SumFunction
    <3> QED
      BY <1>3, <3>1
  <2>3. a.dca.base * a.mark = 0
    BY <1>3, <2>1
  <2>4. a.cash + 0 = a.cash
    BY <2>1
  <2> QED
    BY <1>3, <2>2, <2>3, <2>4, EquityOf DEF Kinds
<1> QED
  BY <1>1, <1>2, <1>3

(* Nothing is sold of no slices.                                            *)
LEMMA NoSales ==
  ASSUME NEW lots, NEW price, NEW trades, trades \in Seq(Trades)
  PROVE  /\ Backtest!SalesCash(lots, {}, price) = 0
         /\ trades \o Backtest!Sales(lots, {}, price, "end_of_data") = trades
<1> DEFINE order == Ascending({})
           sold == [k \in DOMAIN order |->
                      LotTrade(lots[order[k]], price[order[k]], acct'.bar, "end_of_data")]
           F == [l \in {} |-> price[l] * lots[l].size - Taker(price[l] * lots[l].size)]
<1>1. Backtest!SalesCash(lots, {}, price) = SumFunction(F)
  BY SameSlices DEF Backtest!SalesCash
<1>2. SumFunction(F) = 0
  <2>1. DOMAIN F = {}
    OBVIOUS
  <2> QED
    BY <2>1, SumOfNone DEF SumFunction
<1>3. Backtest!Sales(lots, {}, price, "end_of_data") = sold
  BY SameSlices DEF Backtest!Sales
<1>4. DOMAIN order = 1 .. 0
  <2>1. IsFiniteSet({}) /\ Cardinality({}) = 0
    BY FS_EmptySet
  <2>2. \E s : Ascends(s, {})
    BY <2>1, AscendingExists
  <2>3. order \in [1 .. 0 -> {}]
    BY <2>1, <2>2 DEF Ascending, Ascends
  <2> QED
    BY <2>3
<1> HIDE DEF order
<1>5. sold \in Seq(Trades) /\ Len(sold) = 0
  <2>1. DOMAIN sold = 1 .. 0 /\ sold \in [1 .. 0 -> Trades]
    BY <1>4
  <2> HIDE DEF sold
  <2> QED
    BY <2>1
<1> HIDE DEF sold
<1>6. trades \o sold = trades
  BY <1>5
<1> QED
  BY <1>1, <1>2, <1>3, <1>6

(* stop_strategy closes at the last close, as the backtest does after its   *)
(* last bar.                                                                *)
LEMMA StopStepsAlike ==
  ASSUME FillsAreIntegers, FillsAreFair, DeployedInv, Stop
  PROVE  DeployedInv' /\ Backtest!Finish
<1> DEFINE a == acct
           c == acct'
           px == SlipDown(a.mark)
           price == [l \in DOMAIN a.grid |-> px]
<1>1. /\ ~ended /\ a.mark # None /\ c = ForceClosed(a) /\ ended' = TRUE
      /\ rules' = rules /\ signal' = signal
  BY DEF Stop, ForceClose, DeployedInv
<1>2. Proper(a) /\ IsAccount(a) /\ Money(a) /\ OneKind(a) /\ a.kind \in Kinds
  BY DEF DeployedInv, Proper, Sound, IsAccount
<1>3. Proper(c) /\ c.bar = a.bar /\ Money(c) /\ OneKind(c)
  BY <1>1, <1>2, ForceClosedSound DEF Proper, Sound
<1> DEFINE Booked(cash, trades) ==
             /\ c.kind = a.kind /\ c.mark = a.mark
             /\ c.pos = None /\ DOMAIN c.grid = {} /\ c.dca = [a.dca EXCEPT !.base = 0]
             /\ c.cash = cash /\ c.trades = trades
<1> HIDE DEF c, price
<1>4. ASSUME NEW cash, NEW trades, Booked(cash, trades)
      PROVE  /\ DeployedInv' /\ Equity(c) = c.cash /\ c.grid = NoLots
  <2>1. c.dca.base = 0
    BY <1>2, <1>4 DEF Money, Holding
  <2>2. Equity(c) = c.cash /\ c.grid = NoLots
    BY <1>1, <1>2, <1>3, <1>4, <2>1, Emptied
  <2>3. Sided(acct)'
    BY <1>4 DEF Sided, c
  <2>4. ended' \in BOOLEAN /\ ~(~ended')
    BY <1>1
  <2>5. signal' = None \/ (acct'.kind = "rule" => signal'.flags \in rules' \cup {{}})
    BY <1>1, <1>4 DEF DeployedInv, c
  <2>6. Proper(acct') /\ rules' \in RuleSets
    BY <1>1, <1>3 DEF DeployedInv, c
  <2> QED
    BY <2>2, <2>3, <2>4, <2>5, <2>6 DEF DeployedInv
<1> HIDE DEF Booked
<1>5. ASSUME NEW cash, NEW trades, Booked(cash, trades),
             \/ /\ a.kind = "rule"
                /\ LET l == IF a.pos = None THEN Backtest!Ledger
                            ELSE Backtest!Settled(Backtest!Ledger, a.mark, "end_of_data")
                   IN cash = l.cash /\ trades = l.trades
             \/ /\ a.kind = "grid"
                /\ cash = a.cash + Backtest!SalesCash(a.grid, DOMAIN a.grid, price)
                /\ trades = a.trades \o Backtest!Sales(a.grid, DOMAIN a.grid, price, "end_of_data")
             \/ /\ a.kind = "dca"
                /\ IF a.dca.base > 0
                   THEN /\ cash = a.cash + DcaProceeds(a.dca, px)
                        /\ trades = Append(a.trades, DcaTrade(a.dca, px, a.bar))
                   ELSE cash = a.cash /\ trades = a.trades
      PROVE  Backtest!Finish
  <2>1. Equity(c) = c.cash /\ c.grid = NoLots
    BY <1>4, <1>5
  <2>2. /\ c.kind = a.kind /\ c.mark = a.mark /\ c.pos = None
        /\ c.dca = [a.dca EXCEPT !.base = 0] /\ c.cash = cash /\ c.trades = trades
    BY <1>5 DEF Booked
  <2>3. Backtest!DcaProceeds(a.dca, px) = DcaProceeds(a.dca, px)
        /\ Backtest!DcaTrade(a.dca, px, a.bar) = DcaTrade(a.dca, px, a.bar)
        /\ Backtest!NoLots = NoLots
    BY SamePurchases, SameSlices
  <2> QED
    BY <1>1, <1>3, <1>5, <2>1, <2>2, <2>3
      DEF Backtest!Finish, Backtest!RuleEnds, Backtest!GridEnds, Backtest!DcaEnds, c, price
<1>6. CASE a.kind = "rule"
  <2> DEFINE l == IF a.pos = None THEN Backtest!Ledger
                  ELSE Backtest!Settled(Backtest!Ledger, a.mark, "end_of_data")
  <2>1. Booked(l.cash, l.trades)
    <3>1. DOMAIN a.grid = {} /\ a.dca = [a.dca EXCEPT !.base = 0]
      BY <1>2, <1>6, Emptied DEF OneKind
    <3>2. CASE a.pos = None
      <4>1. c = a
        BY <1>1, <1>6, <3>2 DEF ForceClosed
      <4>2. l.cash = a.cash /\ l.trades = a.trades
        BY <3>2 DEF Backtest!Ledger
      <4> QED
        BY <3>1, <3>2, <4>1, <4>2 DEF Booked
    <3>3. CASE a.pos # None
      <4> DEFINE d == Closed(a, a.mark, "end_of_data")
      <4>1. c = d
        BY <1>1, <1>6, <3>3 DEF ForceClosed
      <4>2. a.pos \in Position /\ a.mark \in Int /\ "end_of_data" \in Reasons /\ Sound(a)
        BY <1>1, <1>2, <3>3 DEF Money, Reasons, Proper
      <4>3. d.pos = None /\ d.grid = a.grid /\ d.dca = a.dca /\ SameBar(d, a)
        BY <4>2, ClosedSound
      <4>4. LedgerOf(d) = l
        BY <1>2, <3>3, ClosedIsSettled DEF LedgerOf, Backtest!Ledger
      <4> HIDE DEF d, l
      <4>5. d.cash = l.cash /\ d.trades = l.trades
        BY <4>4 DEF LedgerOf
      <4> QED
        BY <3>1, <4>1, <4>3, <4>5 DEF Booked, SameBar
    <3> QED
      BY <3>2, <3>3
  <2> QED
    BY <1>4, <1>5, <1>6, <2>1
<1>7. CASE a.kind = "grid"
  <2> DEFINE cash == a.cash + Backtest!SalesCash(a.grid, DOMAIN a.grid, price)
             trades == a.trades \o Backtest!Sales(a.grid, DOMAIN a.grid, price, "end_of_data")
  <2>1. a.pos = None /\ a.dca = [a.dca EXCEPT !.base = 0]
    BY <1>2, <1>7, Emptied DEF OneKind
  <2>2. Booked(cash, trades)
    <3>1. CASE DOMAIN a.grid = {}
      <4>1. c = a
        BY <1>1, <1>7, <3>1 DEF ForceClosed
      <4>2. cash = a.cash /\ trades = a.trades
        <5>1. a.trades \in Seq(Trades) /\ a.cash \in Int
          BY <1>2 DEF Money
        <5>2. a.cash + 0 = a.cash
          BY <5>1
        <5> QED
          BY <3>1, <5>1, <5>2, NoSales
      <4> QED
        BY <2>1, <3>1, <4>1, <4>2 DEF Booked
    <3>2. CASE DOMAIN a.grid # {}
      <4> DEFINE d == LotsSold(a, DOMAIN a.grid, price, "end_of_data")
                 order == Ascending(DOMAIN a.grid)
                 got == SumFunction([l \in DOMAIN a.grid |->
                          price[l] * a.grid[l].size - Taker(price[l] * a.grid[l].size)])
                 sold == [k \in DOMAIN order |->
                            LotTrade(a.grid[order[k]], price[order[k]], a.bar, "end_of_data")]
      <4>1. c = d
        BY <1>1, <1>7, <3>2 DEF ForceClosed, price
      <4> HIDE DEF order
      <4>2. /\ d.kind = a.kind /\ d.mark = a.mark /\ d.pos = a.pos /\ d.dca = a.dca
            /\ DOMAIN d.grid = {}
            /\ d.cash = a.cash + got /\ d.trades = a.trades \o sold
        BY <1>2 DEF LotsSold, IsAccount, AccountFields, order
      <4>3. Backtest!Sales(a.grid, DOMAIN a.grid, price, "end_of_data") = sold
        BY <1>3, SameSlices DEF Backtest!Sales, order, c
      <4>4. Backtest!SalesCash(a.grid, DOMAIN a.grid, price) = got
        BY SameSlices DEF Backtest!SalesCash
      <4> HIDE DEF d, got, sold
      <4> QED
        BY <2>1, <4>1, <4>2, <4>3, <4>4 DEF Booked
    <3> QED
      BY <3>1, <3>2
  <2> HIDE DEF cash, trades
  <2>3. DeployedInv'
    BY <1>4, <2>2
  <2>4. Backtest!Finish
    BY <1>5, <1>7, <2>2 DEF cash, trades
  <2> QED
    BY <2>3, <2>4
<1>8. CASE a.kind = "dca"
  <2> DEFINE d == DcaSold(a)
  <2>1. DOMAIN a.grid = {} /\ a.pos = None
    BY <1>2, <1>8 DEF OneKind
  <2>2. CASE ~(a.dca.base > 0)
    <3>1. c = a
      BY <1>1, <1>8, <2>2 DEF ForceClosed
    <3>2. a.dca = [a.dca EXCEPT !.base = 0]
      <4>1. a.dca.base = 0
        BY <1>2, <2>2 DEF Money, Holding
      <4> QED
        BY <1>2, <4>1, Emptied
    <3>3. Booked(a.cash, a.trades)
      BY <2>1, <3>1, <3>2 DEF Booked
    <3> QED
      BY <1>4, <1>5, <1>8, <2>2, <3>3
  <2>3. CASE a.dca.base > 0
    <3>1. c = d
      BY <1>1, <1>8, <2>3 DEF ForceClosed
    <3>2. /\ d.kind = a.kind /\ d.mark = a.mark /\ d.pos = a.pos /\ d.grid = a.grid
          /\ d.dca = [a.dca EXCEPT !.base = 0]
          /\ d.cash = a.cash + DcaProceeds(a.dca, px)
          /\ d.trades = Append(a.trades, DcaTrade(a.dca, px, a.bar))
      BY <1>2 DEF DcaSold, IsAccount, AccountFields
    <3> HIDE DEF d
    <3>3. Booked(a.cash + DcaProceeds(a.dca, px), Append(a.trades, DcaTrade(a.dca, px, a.bar)))
      BY <2>1, <3>1, <3>2 DEF Booked
    <3> QED
      BY <1>4, <1>5, <1>8, <2>3, <3>3
  <2> QED
    BY <2>2, <2>3
<1> QED
  BY <1>2, <1>6, <1>7, <1>8 DEF Kinds

-----------------------------------------------------------------------------

(* A deployment begins as a backtest does.                                  *)
LEMMA InitsAlike ==
  ASSUME DeployedInit
  PROVE  DeployedInv /\ Backtest!Init
<1>1. PICK kind \in Kinds : acct = NewAccount(kind)
  BY DEF DeployedInit, Init
<1>2. /\ acct.kind = kind /\ acct.cash = InitialCash /\ acct.pos = None /\ acct.trades = << >>
      /\ acct.mark = None /\ acct.bar = 0 /\ acct.pending = {} /\ acct.grid = NoLots
      /\ acct.dca = NoDca
  BY <1>1 DEF NewAccount
<1>3. Proper(acct) /\ ended = FALSE /\ Fresh(acct)
  BY InitBooks DEF DeployedInit, Init, BooksInv
<1>4. rules \in RuleSets /\ signal = None
  BY DEF DeployedInit
<1>5. DeployedInv
  BY <1>2, <1>3, <1>4 DEF DeployedInv, Agrees, Sided
<1>6. Equity(acct) = InitialCash
  BY <1>2 DEF Equity
<1>7. Backtest!NoLots = NoLots /\ Backtest!NoDca = NoDca
  BY SameSlices, SamePurchases
<1>8. Backtest!Init
  BY <1>2, <1>3, <1>4, <1>6, <1>7 DEF Backtest!Init, Kinds
<1> QED
  BY <1>5, <1>8

(* Parity, for any fills, any bars and any strategy whose rules do not ask  *)
(* for two sides at once and whose first signal the gate lets through: the  *)
(* deployed strategy does what the backtest does, bar by bar and at the     *)
(* end.                                                                    *)
THEOREM DeployedIsBacktest ==
  ASSUME FillsAreIntegers, FillsAreFair, RulesAgree, WarmupAgrees
  PROVE  DeployedSpec => Parity
<1>1. DeployedInit => DeployedInv /\ Backtest!Init
  BY InitsAlike
<1>2. DeployedInv /\ [DeployedNext]_deployed => DeployedInv' /\ [Backtest!Next]_(Backtest!vars)
  <2> SUFFICES ASSUME DeployedInv, [DeployedNext]_deployed
               PROVE  DeployedInv' /\ [Backtest!Next]_(Backtest!vars)
    OBVIOUS
  <2>1. ASSUME NEW b \in Bars, NEW sig \in SignalsAt(b, acct.bar + 1), DeployedOnBar(b, sig)
        PROVE  DeployedInv' /\ Backtest!Next
    BY <2>1, BarStepsAlike
  <2>2. ASSUME Stop PROVE DeployedInv' /\ Backtest!Next
    BY <2>2, StopStepsAlike DEF Backtest!Next
  <2>3. ASSUME UNCHANGED deployed PROVE DeployedInv' /\ UNCHANGED Backtest!vars
    <3>1. acct' = acct /\ ended' = ended /\ rules' = rules /\ signal' = signal
      BY <2>3 DEF deployed, vars
    <3>2. DeployedInv'
      BY <3>1 DEF DeployedInv, Agrees, Sided, RuleAsks, LevelsWanted
    <3>3. UNCHANGED Backtest!vars
      BY <3>1 DEF Backtest!vars, Equity
    <3> QED
      BY <3>2, <3>3
  <2> QED
    BY <2>1, <2>2, <2>3 DEF DeployedNext
<1> QED
  BY <1>1, <1>2, PTL DEF DeployedSpec, Parity, Backtest!Spec
=============================================================================
