--------------------------- MODULE DataInduction ---------------------------
(***************************************************************************)
(* Induction and recursion in a first-order form: the library states both  *)
(* for an operator P(_), which no installed prover can instantiate.  Here  *)
(* the induction hypothesis is a set, and a recursive definition steps by  *)
(* a function, so each lemma is used like any other.  The folds of the     *)
(* community modules and recursive functions unfold to a CHOOSE of a       *)
(* solution of their equation; these lemmas say that there is one, and     *)
(* what holds of the sums it defines.                                      *)
(***************************************************************************)
EXTENDS Integers, Sequences, Functions, FiniteSetTheorems, WellFoundedInduction, TLAPS

\* A non-empty set of numbers has a least one.
LEMMA LeastNumber ==
    ASSUME NEW T, T \subseteq Nat, T # {}
    PROVE  \E m \in T : \A k \in T : m <= k
<1> DEFINE R == {p \in Nat \X Nat : p[1] < p[2]}
<1>1. IsWellFoundedOn(R, Nat) BY NatLessThanWellFounded DEF OpToRel
<1> HIDE DEF R
<1>2. PICK x \in T : \A y \in T : ~(<<y, x>> \in R) BY <1>1, WFMin
<1>3. ASSUME NEW y \in T PROVE x <= y
  <2> SUFFICES ASSUME y < x PROVE FALSE OBVIOUS
  <2>1. <<y, x>> \in R BY DEF R
  <2> QED BY <1>2, <2>1
<1> QED BY <1>3

\* Induction over the numbers up to n.
LEMMA NumberInduction ==
    ASSUME NEW n \in Nat, NEW T, 0 \in T, \A i \in 0..n : i \in T /\ i < n => i + 1 \in T
    PROVE  0..n \subseteq T
<1> DEFINE U == (0..n) \ T
<1> SUFFICES ASSUME U # {} PROVE FALSE OBVIOUS
<1>0. U \subseteq Nat OBVIOUS
<1>1. PICK m \in U : \A k \in U : m <= k
  <2> HIDE DEF U
  <2> QED BY <1>0, LeastNumber
<1>2. m # 0 /\ m - 1 \in 0..n /\ m - 1 < n /\ ~(m <= m - 1) BY <1>1
<1>3. m - 1 \in T BY <1>1, <1>2
<1>4. (m - 1) + 1 \in T BY <1>2, <1>3
<1> QED BY <1>1, <1>2, <1>4

\* Induction over the subsets of a finite set, one element at a time.
LEMMA SubsetInduction ==
    ASSUME NEW S, IsFiniteSet(S), NEW T, {} \in T,
           \A s \in SUBSET S : s # {} /\ (\A x \in s : s \ {x} \in T) => s \in T
    PROVE  SUBSET S \subseteq T
<1> DEFINE U == (SUBSET S) \ T
           K == {Cardinality(s) : s \in U}
<1> SUFFICES ASSUME U # {} PROVE FALSE OBVIOUS
<1>1. \A s \in SUBSET S : IsFiniteSet(s) /\ Cardinality(s) \in Nat BY FS_Subset, FS_CardinalityType
<1>2. K \subseteq Nat /\ K # {} BY <1>1
<1>3. PICK m \in K : \A k \in K : m <= k BY <1>2, LeastNumber
<1>4. PICK s \in U : Cardinality(s) = m BY <1>3
<1>5. ASSUME NEW x \in s PROVE s \ {x} \in T
  <2>1. s \ {x} \in SUBSET S /\ Cardinality(s \ {x}) = Cardinality(s) - 1 BY <1>1, <1>4, FS_RemoveElement
  <2>2. ~(m <= m - 1) BY <1>1, <1>4
  <2>3. Cardinality(s \ {x}) \notin K BY <1>3, <1>4, <2>1, <2>2
  <2> QED BY <2>1, <2>3
<1>6. s # {} BY <1>4
<1> QED BY <1>4, <1>5, <1>6

\* A function defined by recursion over the numbers up to n.
NumberSteps(n, V, base, op) == n \in Nat /\ base \in V /\ op \in [(1..n) \X V -> V]

NumberSolution(n, V, base, op, f) ==
    /\ f \in [0..n -> V]
    /\ f[0] = base /\ \A i \in 1..n : f[i] = op[<<i, f[i - 1]>>]

\* There is such a function.
LEMMA NumberRecursion ==
    ASSUME NEW n, NEW V, NEW base, NEW op, NumberSteps(n, V, base, op)
    PROVE  \E f : NumberSolution(n, V, base, op, f)
<1> USE DEF NumberSteps
<1> DEFINE Solves(f, k) == f \in [0..k -> V] /\ f[0] = base /\ \A i \in 1..k : f[i] = op[<<i, f[i - 1]>>]
           T == {k \in 0..n : \E f : Solves(f, k)}
<1>1. 0 \in T
  <2>1. Solves([i \in 0..0 |-> base], 0) OBVIOUS
  <2>2. 0 \in 0..n OBVIOUS
  <2> HIDE DEF Solves
  <2> QED BY <2>1, <2>2
<1>2. ASSUME NEW k \in 0..n, k \in T, k < n PROVE k + 1 \in T
  <2>1. PICK f : Solves(f, k) BY <1>2
  <2> DEFINE v == op[<<k + 1, f[k]>>]
             g == [i \in 0..(k + 1) |-> IF i = k + 1 THEN v ELSE f[i]]
  <2>2. k \in 0..k /\ k + 1 \in 1..n BY <1>2
  <2>3. f[k] \in V /\ v \in V BY <2>1, <2>2
  <2>4. g \in [0..(k + 1) -> V]
    <3>1. \A i \in 0..(k + 1) : i # k + 1 => i \in 0..k BY <1>2
    <3> QED BY <2>1, <2>3, <3>1
  <2>5. g[0] = base BY <2>1, <1>2
  <2>6. ASSUME NEW i \in 1..(k + 1) PROVE g[i] = op[<<i, g[i - 1]>>]
    <3>1. i - 1 \in 0..k /\ i - 1 # k + 1 /\ i - 1 \in 0..(k + 1) BY <1>2
    <3>2. g[i - 1] = f[i - 1] BY <3>1
    <3>3. CASE i = k + 1
      <4>1. i - 1 = k BY <1>2, <3>3
      <4> QED BY <3>2, <3>3, <4>1, SMTT(30)
    <3>4. CASE i # k + 1
      <4>1. i \in 1..k BY <1>2, <3>4
      <4> QED BY <2>1, <3>2, <3>4, <4>1
    <3> QED BY <3>3, <3>4
  <2>7. Solves(g, k + 1) BY <2>4, <2>5, <2>6
  <2>8. k + 1 \in 0..n BY <2>2
  <2> HIDE DEF Solves, g
  <2> QED BY <2>7, <2>8
<1> HIDE DEF T
<1>3. n \in T BY <1>1, <1>2, NumberInduction
<1> QED BY <1>3 DEF T, NumberSolution

\* A function defined by recursion over the subsets of a finite set, which
\* takes away one element at a time, chosen by pick.
SubsetSteps(S, V, base, op, pick) ==
    /\ IsFiniteSet(S) /\ base \in V /\ op \in [S \X V -> V]
    /\ \A s \in SUBSET S : s # {} => pick[s] \in s

SubsetSolution(S, V, base, op, pick, g) ==
    /\ g \in [SUBSET S -> V]
    /\ \A s \in SUBSET S : g[s] = IF s = {} THEN base ELSE op[<<pick[s], g[s \ {pick[s]}]>>]

\* There is such a function.
LEMMA SubsetRecursion ==
    ASSUME NEW S, NEW V, NEW base, NEW op, NEW pick, SubsetSteps(S, V, base, op, pick)
    PROVE  \E g : SubsetSolution(S, V, base, op, pick, g)
<1> USE DEF SubsetSteps
<1> DEFINE D(k) == {s \in SUBSET S : Cardinality(s) <= k}
           Step(g, s) == IF s = {} THEN base ELSE op[<<pick[s], g[s \ {pick[s]}]>>]
           Solves(g, k) == g \in [D(k) -> V] /\ \A s \in D(k) : g[s] = Step(g, s)
           n == Cardinality(S)
           T == {k \in 0..n : \E g : Solves(g, k)}
<1>1. \A s \in SUBSET S : IsFiniteSet(s) /\ Cardinality(s) \in Nat /\ Cardinality(s) <= n
  BY FS_Subset, FS_CardinalityType
<1>2. n \in Nat BY FS_CardinalityType
<1>3. 0 \in T
  <2>1. \A s \in D(0) : s = {}
    <3> SUFFICES ASSUME NEW s \in D(0) PROVE s = {} OBVIOUS
    <3>1. Cardinality(s) = 0 BY <1>1
    <3> QED BY <1>1, <3>1, FS_EmptySet
  <2>2. Solves([s \in D(0) |-> base], 0) BY <2>1
  <2>3. 0 \in 0..n BY <1>2
  <2> HIDE DEF Solves, n
  <2> QED BY <2>2, <2>3
<1>4. ASSUME NEW k \in 0..n, k \in T, k < n PROVE k + 1 \in T
  <2>1. PICK f : Solves(f, k) BY <1>4
  <2> DEFINE g == [s \in D(k + 1) |-> Step(f, s)]
  <2>2. ASSUME NEW s \in D(k + 1), s # {} PROVE s \ {pick[s]} \in D(k) /\ pick[s] \in S
    <3>1. pick[s] \in s BY <2>2
    <3>2. s \ {pick[s]} \in SUBSET S /\ Cardinality(s \ {pick[s]}) = Cardinality(s) - 1
      BY <1>1, <3>1, FS_RemoveElement
    <3>3. Cardinality(s) - 1 <= k BY <1>1, <1>4
    <3> QED BY <3>1, <3>2, <3>3
  <2>3. \A s \in D(k + 1) : Step(f, s) \in V BY <2>1, <2>2
  <2>4. \A s \in D(k) : s \in D(k + 1) BY <1>1, <1>4
  <2>5. \A s \in D(k) : g[s] = f[s] BY <2>1, <2>4
  <2>6. ASSUME NEW s \in D(k + 1) PROVE g[s] = Step(g, s)
    <3>1. g[s] = Step(f, s) OBVIOUS
    <3>2. CASE s = {} BY <3>1, <3>2
    <3>3. CASE s # {}
      <4>1. g[s \ {pick[s]}] = f[s \ {pick[s]}] BY <2>2, <2>5, <3>3
      <4> HIDE DEF g
      <4> QED BY <3>1, <3>3, <4>1
    <3> QED BY <3>2, <3>3
  <2>7. g \in [D(k + 1) -> V] BY <2>3
  <2> HIDE DEF g
  <2>8. Solves(g, k + 1) BY <2>6, <2>7
  <2>9. k + 1 \in 0..n BY <1>2, <1>4
  <2> HIDE DEF Solves, n
  <2> QED BY <2>8, <2>9
<1> HIDE DEF T
<1>5. n \in T BY <1>2, <1>3, <1>4, NumberInduction
<1>6. D(n) = SUBSET S BY <1>1
<1> QED BY <1>5, <1>6 DEF T, SubsetSolution

\* A finite non-empty set of integers has a greatest element.
LEMMA GreatestInteger ==
    ASSUME NEW S, IsFiniteSet(S), S \subseteq Int, S # {}
    PROVE  \E m \in S : \A k \in S : k <= m
<1> DEFINE T == {s \in SUBSET S : s # {} => \E m \in s : \A k \in s : k <= m}
<1>1. ASSUME NEW s \in SUBSET S, s # {}, \A x \in s : s \ {x} \in T PROVE s \in T
  <2>1. PICK x \in s : TRUE BY <1>1
  <2>2. CASE s \ {x} = {} BY <1>1, <2>1, <2>2
  <2>3. CASE s \ {x} # {}
    <3>1. PICK m \in s \ {x} : \A k \in s \ {x} : k <= m BY <1>1, <2>1, <2>3
    <3>2. m \in Int /\ x \in Int BY <1>1, <2>1, <3>1
    <3>3. CASE x <= m BY <1>1, <3>1, <3>3
    <3>4. CASE m <= x
      <4>1. \A k \in s : k \in Int /\ k <= x BY <1>1, <2>1, <3>1, <3>2, <3>4
      <4> QED BY <2>1, <4>1
    <3> QED BY <3>2, <3>3, <3>4
  <2> QED BY <2>2, <2>3
<1>2. {} \in T OBVIOUS
<1>3. S \in T
  <2> HIDE DEF T
  <2>1. SUBSET S \subseteq T BY <1>1, <1>2, SubsetInduction
  <2> QED BY <2>1
<1> QED BY <1>3

\* g sums f over the subsets of S, in the order CHOOSE takes their elements.
SumSolution(S, f, g) ==
    /\ IsFiniteSet(S) /\ f \in [S -> Int] /\ g \in [SUBSET S -> Int]
    /\ \A t \in SUBSET S :
          g[t] = IF t = {} THEN 0
                 ELSE f[CHOOSE x \in t : TRUE] + g[t \ {CHOOSE x \in t : TRUE}]

\* There is such a sum.
LEMMA SumExists ==
    ASSUME NEW S, IsFiniteSet(S), NEW f \in [S -> Int]
    PROVE  \E g : SumSolution(S, f, g)
<1> DEFINE op == [p \in S \X Int |-> f[p[1]] + p[2]]
           pick == [t \in SUBSET S |-> CHOOSE x \in t : TRUE]
<1>1. \A t \in SUBSET S : t # {} => pick[t] \in t OBVIOUS
<1>2. \A x \in S, v \in Int : op[<<x, v>>] = f[x] + v /\ f[x] + v \in Int OBVIOUS
<1>3. op \in [S \X Int -> Int] OBVIOUS
<1>4. \A t \in SUBSET S : pick[t] = CHOOSE x \in t : TRUE OBVIOUS
<1> HIDE DEF op, pick
<1>5. SubsetSteps(S, Int, 0, op, pick) BY <1>1, <1>3 DEF SubsetSteps
<1>6. PICK g : SubsetSolution(S, Int, 0, op, pick, g) BY <1>5, SubsetRecursion
<1>7. g \in [SUBSET S -> Int] BY <1>6 DEF SubsetSolution
<1>8. ASSUME NEW t \in SUBSET S, t # {}
      PROVE  g[t] = f[CHOOSE x \in t : TRUE] + g[t \ {CHOOSE x \in t : TRUE}]
  <2>1. g[t] = op[<<pick[t], g[t \ {pick[t]}]>>] BY <1>6, <1>8 DEF SubsetSolution
  <2>2. pick[t] \in S /\ t \ {pick[t]} \in SUBSET S BY <1>1, <1>8
  <2>3. g[t \ {pick[t]}] \in Int BY <1>7, <2>2
  <2>4. g[t] = f[pick[t]] + g[t \ {pick[t]}] BY <1>2, <2>1, <2>2, <2>3
  <2> QED BY <1>4, <2>4
<1>9. g[{}] = 0 BY <1>6 DEF SubsetSolution
<1> QED BY <1>7, <1>8, <1>9 DEF SumSolution

\* A sum may be taken in any order.
LEMMA SumAnyOrder ==
    ASSUME NEW S, NEW f, NEW g, SumSolution(S, f, g)
    PROVE  \A t \in SUBSET S : \A x \in t : g[t] = f[x] + g[t \ {x}]
<1> DEFINE T == {t \in SUBSET S : \A x \in t : g[t] = f[x] + g[t \ {x}]}
<1>1. {} \in T OBVIOUS
<1>2. ASSUME NEW t \in SUBSET S, t # {}, \A x \in t : t \ {x} \in T PROVE t \in T
  <2> SUFFICES ASSUME NEW x \in t PROVE g[t] = f[x] + g[t \ {x}] OBVIOUS
  <2> DEFINE p == CHOOSE z \in t : TRUE
  <2>1. p \in t /\ g[t] = f[p] + g[t \ {p}] BY <1>2 DEF SumSolution
  <2> HIDE DEF p
  <2>2. CASE p = x BY <2>1, <2>2
  <2>3. CASE p # x
    <3> DEFINE r == (t \ {p}) \ {x}
    <3>1. r \in SUBSET S /\ r = (t \ {x}) \ {p} OBVIOUS
    <3>2. x \in t \ {p} /\ p \in t \ {x} BY <2>1, <2>3
    <3>3. g[t \ {p}] = f[x] + g[r] BY <1>2, <2>1, <3>2
    <3>4. g[t \ {x}] = f[p] + g[(t \ {x}) \ {p}] BY <1>2, <3>2
    <3>5. g[r] \in Int /\ f[x] \in Int /\ f[p] \in Int BY <2>1, <3>1 DEF SumSolution
    <3>6. g[t \ {x}] = f[p] + g[r] BY <3>1, <3>4
    <3> HIDE DEF r
    <3> QED BY <2>1, <3>3, <3>5, <3>6
  <2> QED BY <2>2, <2>3
<1>3. SUBSET S \subseteq T
  <2> HIDE DEF T
  <2> QED BY <1>1, <1>2, SubsetInduction DEF SumSolution
<1> QED BY <1>3

\* The sum over a set does not depend on the set it is computed within.
LEMMA SumUnique ==
    ASSUME NEW S, NEW f, NEW g, SumSolution(S, f, g),
           NEW R \in SUBSET S, NEW e, NEW h, SumSolution(R, e, h), \A x \in R : e[x] = f[x]
    PROVE  \A t \in SUBSET R : h[t] = g[t]
<1> DEFINE T == {t \in SUBSET R : h[t] = g[t]}
<1>1. {} \in T BY DEF SumSolution
<1>2. ASSUME NEW t \in SUBSET R, t # {}, \A x \in t : t \ {x} \in T PROVE t \in T
  <2> DEFINE p == CHOOSE z \in t : TRUE
  <2>1. p \in t BY <1>2
  <2>2. g[t] = f[p] + g[t \ {p}] /\ h[t] = e[p] + h[t \ {p}] BY <1>2 DEF SumSolution
  <2> HIDE DEF p
  <2>3. h[t \ {p}] = g[t \ {p}] /\ e[p] = f[p] BY <1>2, <2>1
  <2> QED BY <2>2, <2>3
<1>3. SUBSET R \subseteq T
  <2> HIDE DEF T
  <2> QED BY <1>1, <1>2, SubsetInduction DEF SumSolution
<1> QED BY <1>3

\* More numbers that are not negative add up to more.
LEMMA SumGrows ==
    ASSUME NEW S, NEW f \in [S -> Nat], NEW g, SumSolution(S, f, g), NEW t \in SUBSET S
    PROVE  \A u \in SUBSET S : t \subseteq u => g[t] <= g[u]
<1> DEFINE T == {u \in SUBSET S : t \subseteq u => g[t] <= g[u]}
<1>0. \A u \in SUBSET S : g[u] \in Int BY DEF SumSolution
<1>1. {} \in T
  <2>1. t \subseteq {} => t = {} OBVIOUS
  <2>2. g[{}] \in Int BY <1>0
  <2> QED BY <2>1, <2>2
<1>2. ASSUME NEW u \in SUBSET S, u # {}, \A x \in u : u \ {x} \in T PROVE u \in T
  <2> SUFFICES ASSUME t \subseteq u PROVE g[t] <= g[u] OBVIOUS
  <2>1. CASE t = u BY <1>0, <2>1
  <2>2. CASE t # u
    <3>1. PICK x \in u : x \notin t BY <2>2
    <3>2. g[u] = f[x] + g[u \ {x}] BY <3>1, SumAnyOrder
    <3>3. t \subseteq u \ {x} /\ u \ {x} \in SUBSET S BY <3>1
    <3>4. g[t] <= g[u \ {x}] BY <1>2, <3>1, <3>3
    <3>5. f[x] \in Nat /\ g[t] \in Int /\ g[u \ {x}] \in Int BY <1>0, <3>1, <3>3
    <3> QED BY <3>2, <3>4, <3>5
  <2> QED BY <2>1, <2>2
<1>3. SUBSET S \subseteq T
  <2> HIDE DEF T
  <2> QED BY <1>1, <1>2, SubsetInduction DEF SumSolution
<1> QED BY <1>3

\* The fold behind SumFunctionOnSet, as the equation it solves.
AddsUpOn(R, f, h) ==
    h = [t \in SUBSET R |->
            IF t = {} THEN 0
            ELSE f[CHOOSE x \in t : TRUE] + h[t \ {CHOOSE x \in t : TRUE}]]

\* SumFunctionOnSet computes the sum.
LEMMA FoldIsSum ==
    ASSUME NEW S, NEW f, NEW g, SumSolution(S, f, g), NEW R \in SUBSET S
    PROVE  SumFunctionOnSet(f, R) = g[R]
<1> DEFINE k == CHOOSE h : AddsUpOn(R, f, h)
           r == [t \in SUBSET R |-> g[t]]
<1>1. SumFunctionOnSet(f, R) = k[R]
  BY DEF SumFunctionOnSet, FoldFunctionOnSet, MapThenFoldSet, AddsUpOn
<1>2. \A t \in SUBSET R : t \in SUBSET S /\ g[t] = IF t = {} THEN 0
          ELSE f[CHOOSE x \in t : TRUE] + g[t \ {CHOOSE x \in t : TRUE}]
  BY DEF SumSolution
<1>3. AddsUpOn(R, f, r)
  <2>1. \A t \in SUBSET R : r[t] = g[t] OBVIOUS
  <2>2. ASSUME NEW t \in SUBSET R
        PROVE  r[t] = IF t = {} THEN 0
                      ELSE f[CHOOSE x \in t : TRUE] + r[t \ {CHOOSE x \in t : TRUE}]
    <3>1. t \ {CHOOSE x \in t : TRUE} \in SUBSET R OBVIOUS
    <3>2. r[t] = g[t] /\ r[t \ {CHOOSE x \in t : TRUE}] = g[t \ {CHOOSE x \in t : TRUE}]
      BY <2>1, <3>1
    <3> QED BY <1>2, <3>2
  <2> QED BY <2>2 DEF AddsUpOn
<1>4. AddsUpOn(R, f, k) BY <1>3
<1> HIDE DEF k
<1>5. \A t \in SUBSET R : k[t] = IF t = {} THEN 0
          ELSE f[CHOOSE x \in t : TRUE] + k[t \ {CHOOSE x \in t : TRUE}]
  BY <1>4 DEF AddsUpOn
<1> DEFINE T == {t \in SUBSET R : k[t] = g[t]}
<1>6. {} \in T BY <1>2, <1>5
<1>7. ASSUME NEW t \in SUBSET R, t # {}, \A x \in t : t \ {x} \in T PROVE t \in T
  <2> DEFINE p == CHOOSE x \in t : TRUE
  <2>1. p \in t /\ k[t] = f[p] + k[t \ {p}] /\ g[t] = f[p] + g[t \ {p}] BY <1>2, <1>5, <1>7
  <2> HIDE DEF p
  <2>2. k[t \ {p}] = g[t \ {p}] BY <1>7, <2>1
  <2> QED BY <2>1, <2>2
<1>8. R \in T
  <2> HIDE DEF T
  <2>1. IsFiniteSet(R) BY FS_Subset DEF SumSolution
  <2>2. SUBSET R \subseteq T BY <1>6, <1>7, <2>1, SubsetInduction
  <2> QED BY <2>2
<1> QED BY <1>1, <1>8

\* Smaller terms have the smaller sum.
LEMMA SumBounded ==
    ASSUME NEW S, NEW f, NEW g, SumSolution(S, f, g), NEW e, NEW h, SumSolution(S, e, h)
    PROVE  \A u \in SUBSET S : (\A x \in u : f[x] <= e[x]) => g[u] <= h[u]
<1> SUFFICES ASSUME NEW u \in SUBSET S, \A x \in u : f[x] <= e[x] PROVE g[u] <= h[u]
  OBVIOUS
<1> DEFINE T == {t \in SUBSET S : t \subseteq u => g[t] <= h[t]}
<1>1. {} \in T
  <2>1. g[{}] = 0 /\ h[{}] = 0 BY DEF SumSolution
  <2> QED BY <2>1
<1>2. ASSUME NEW t \in SUBSET S, t # {}, \A x \in t : t \ {x} \in T PROVE t \in T
  <2> SUFFICES ASSUME t \subseteq u PROVE g[t] <= h[t] OBVIOUS
  <2>1. PICK x \in t : TRUE BY <1>2
  <2>2. g[t] = f[x] + g[t \ {x}] /\ h[t] = e[x] + h[t \ {x}] BY SumAnyOrder
  <2>3. g[t \ {x}] <= h[t \ {x}] /\ f[x] <= e[x] BY <1>2
  <2>4. f[x] \in Int /\ e[x] \in Int /\ g[t \ {x}] \in Int /\ h[t \ {x}] \in Int
    BY DEF SumSolution
  <2> QED BY <2>2, <2>3, <2>4
<1>3. SUBSET S \subseteq T
  <2> HIDE DEF T
  <2> QED BY <1>1, <1>2, SubsetInduction DEF SumSolution
<1> QED BY <1>3

\* Terms that are zero can be left out.
LEMMA SumZeroes ==
    ASSUME NEW S, NEW f, NEW g, SumSolution(S, f, g), NEW u \in SUBSET S
    PROVE  \A t \in SUBSET S : u \subseteq t /\ (\A x \in t \ u : f[x] = 0) => g[t] = g[u]
<1> DEFINE T == {t \in SUBSET S : u \subseteq t /\ (\A x \in t \ u : f[x] = 0) => g[t] = g[u]}
<1>1. {} \in T
  <2>1. u \subseteq {} => u = {} OBVIOUS
  <2> QED BY <2>1
<1>2. ASSUME NEW t \in SUBSET S, t # {}, \A x \in t : t \ {x} \in T PROVE t \in T
  <2> SUFFICES ASSUME u \subseteq t, \A x \in t \ u : f[x] = 0 PROVE g[t] = g[u] OBVIOUS
  <2>1. CASE t = u BY <2>1
  <2>2. CASE t # u
    <3>1. PICK x \in t \ u : TRUE BY <2>2
    <3>2. g[t] = f[x] + g[t \ {x}] /\ f[x] = 0 BY SumAnyOrder
    <3>3. g[t \ {x}] = g[u] BY <1>2, <3>1
    <3>4. g[t \ {x}] \in Int BY DEF SumSolution
    <3> QED BY <3>2, <3>3, <3>4
  <2> QED BY <2>1, <2>2
<1>3. SUBSET S \subseteq T
  <2> HIDE DEF T
  <2> QED BY <1>1, <1>2, SubsetInduction DEF SumSolution
<1> QED BY <1>3

\* e and h are f and g times c.
Scaled(S, f, g, c, e, h) ==
    /\ SumSolution(S, f, g) /\ c \in Int
    /\ e \in [S -> Int] /\ \A x \in S : e[x] = c * f[x]
    /\ h \in [SUBSET S -> Int] /\ \A t \in SUBSET S : h[t] = c * g[t]

\* A common factor comes out of a sum.
LEMMA SumScaled ==
    ASSUME NEW S, NEW f, NEW g, NEW c, NEW e, NEW h, Scaled(S, f, g, c, e, h)
    PROVE  SumSolution(S, e, h)
<1>0. /\ SumSolution(S, f, g) /\ c \in Int
      /\ e \in [S -> Int] /\ \A x \in S : e[x] = c * f[x]
      /\ h \in [SUBSET S -> Int] /\ \A t \in SUBSET S : h[t] = c * g[t]
  BY DEF Scaled
<1>1. (\A x \in S : f[x] \in Int) /\ (\A t \in SUBSET S : g[t] \in Int) BY <1>0 DEF SumSolution
<1>2. ASSUME NEW t \in SUBSET S
      PROVE  h[t] = IF t = {} THEN 0
                    ELSE e[CHOOSE x \in t : TRUE] + h[t \ {CHOOSE x \in t : TRUE}]
  <2>1. CASE t = {}
    <3>1. g[t] = 0 /\ h[t] = c * g[t] BY <1>0, <2>1 DEF SumSolution
    <3>2. c * 0 = 0 BY <1>0
    <3> QED BY <2>1, <3>1, <3>2
  <2>2. CASE t # {}
    <3> DEFINE p == CHOOSE x \in t : TRUE
    <3>1. p \in t /\ g[t] = f[p] + g[t \ {p}] BY <1>0, <2>2 DEF SumSolution
    <3> HIDE DEF p
    <3>2. h[t] = c * g[t] /\ e[p] = c * f[p] /\ h[t \ {p}] = c * g[t \ {p}] BY <1>0, <3>1
    <3>3. \A a, b \in Int : c * (a + b) = c * a + c * b BY <1>0
    <3>4. f[p] \in Int /\ g[t \ {p}] \in Int BY <1>1, <3>1
    <3>5. h[t] = e[p] + h[t \ {p}] BY <3>1, <3>2, <3>3, <3>4
    <3> QED BY <2>2, <3>5 DEF p
  <2> QED BY <2>1, <2>2
<1> QED BY <1>0, <1>2 DEF SumSolution

\* Terms bounded by a multiple of others have a sum bounded by that multiple.
LEMMA ScaledBounds ==
    ASSUME NEW S, NEW f, NEW g, SumSolution(S, f, g), NEW e, NEW h, SumSolution(S, e, h),
           NEW c \in Int
    PROVE  /\ (\A x \in S : c * f[x] <= e[x]) => c * g[S] <= h[S]
           /\ (\A x \in S : e[x] <= c * f[x]) => h[S] <= c * g[S]
<1> DEFINE d == [x \in S |-> c * f[x]]
           k == [t \in SUBSET S |-> c * g[t]]
<1>1. \A a \in Int : c * a \in Int OBVIOUS
<1>2. (\A t \in SUBSET S : g[t] \in Int) /\ (\A x \in S : f[x] \in Int) BY DEF SumSolution
<1>3. /\ \A t \in SUBSET S : k[t] = c * g[t]
      /\ \A x \in S : d[x] = c * f[x]
      /\ d \in [S -> Int] /\ k \in [SUBSET S -> Int]
  BY <1>1, <1>2
<1> HIDE DEF d, k
<1>8. Scaled(S, f, g, c, d, k) BY <1>3 DEF Scaled
<1>4. SumSolution(S, d, k) BY <1>8, SumScaled
<1>5. \A u \in SUBSET S : (\A x \in u : d[x] <= e[x]) => k[u] <= h[u] BY <1>4, SumBounded
<1>6. \A u \in SUBSET S : (\A x \in u : e[x] <= d[x]) => h[u] <= k[u] BY <1>4, SumBounded
<1>7. S \in SUBSET S OBVIOUS
<1> QED BY <1>3, <1>5, <1>6, <1>7

\* No term that is not negative exceeds a sum it is part of.
LEMMA TermInSum ==
    ASSUME NEW S, NEW f \in [S -> Nat], NEW g, SumSolution(S, f, g), NEW x \in S
    PROVE  f[x] <= g[S]
<1>1. g[S] = f[x] + g[S \ {x}] BY SumAnyOrder
<1>2. S \ {x} \in SUBSET S /\ {} \in SUBSET S OBVIOUS
<1>3. g[{}] = 0 /\ g[S \ {x}] \in Int BY <1>2 DEF SumSolution
<1>4. \A u \in SUBSET S : {} \subseteq u => g[{}] <= g[u] BY <1>2, SumGrows
<1>5. 0 <= g[S \ {x}] BY <1>2, <1>3, <1>4
<1>6. f[x] \in Nat OBVIOUS
<1> QED BY <1>1, <1>3, <1>5, <1>6

\* Renaming the indices one to one keeps the sum.
LEMMA SumRenamed ==
    ASSUME NEW S, NEW f, NEW g, SumSolution(S, f, g), NEW R, NEW e, NEW h, SumSolution(R, e, h),
           NEW m \in [S -> R], \A x, y \in S : m[x] = m[y] => x = y, \A x \in S : e[m[x]] = f[x]
    PROVE  \A t \in SUBSET S : g[t] = h[{m[x] : x \in t}]
<1> DEFINE T == {t \in SUBSET S : g[t] = h[{m[x] : x \in t}]}
<1>1. {} \in T
  <2>1. {m[x] : x \in {}} = {} OBVIOUS
  <2>2. g[{}] = 0 /\ h[{}] = 0 BY DEF SumSolution
  <2> QED BY <2>1, <2>2
<1>2. ASSUME NEW t \in SUBSET S, t # {}, \A x \in t : t \ {x} \in T PROVE t \in T
  <2>1. PICK x \in t : TRUE BY <1>2
  <2> DEFINE u == {m[y] : y \in t}
             w == {m[y] : y \in t \ {x}}
  <2>2. u \in SUBSET R /\ m[x] \in u /\ u \ {m[x]} = w OBVIOUS
  <2>3. g[t \ {x}] = h[w] BY <1>2
  <2> HIDE DEF u, w
  <2>4. g[t] = f[x] + g[t \ {x}] BY SumAnyOrder
  <2>5. h[u] = e[m[x]] + h[u \ {m[x]}] BY <2>2, SumAnyOrder
  <2>6. g[t] = h[u] BY <2>2, <2>3, <2>4, <2>5
  <2> QED BY <2>6 DEF u
<1>4. IsFiniteSet(S) BY DEF SumSolution
<1>3. SUBSET S \subseteq T
  <2> HIDE DEF T
  <2> QED BY <1>1, <1>2, <1>4, SubsetInduction
<1> QED BY <1>3

\* e is f under other names, with k besides.
HasOneMore(S, f, g, R, e, h, m, k) ==
    /\ SumSolution(S, f, g) /\ SumSolution(R, e, h)
    /\ m \in [S -> R] /\ \A x, y \in S : m[x] = m[y] => x = y
    /\ \A x \in S : e[m[x]] = f[x]
    /\ k \in R /\ R \ {k} = {m[x] : x \in S}

\* One index more adds its term.
LEMMA SumOneMore ==
    ASSUME NEW S, NEW f, NEW g, NEW R, NEW e, NEW h, NEW m, NEW k,
           HasOneMore(S, f, g, R, e, h, m, k)
    PROVE  g[S] \in Int /\ h[R] \in Int /\ h[R] = e[k] + g[S]
<1>1. /\ SumSolution(S, f, g) /\ SumSolution(R, e, h)
      /\ m \in [S -> R] /\ \A x, y \in S : m[x] = m[y] => x = y
      /\ \A x \in S : e[m[x]] = f[x]
      /\ k \in R /\ R \ {k} = {m[x] : x \in S}
  BY DEF HasOneMore
<1>2. \A t \in SUBSET S : g[t] = h[{m[x] : x \in t}] BY <1>1, SumRenamed
<1>3. \A t \in SUBSET R : \A y \in t : h[t] = e[y] + h[t \ {y}]
  <2>1. SumSolution(R, e, h) BY <1>1
  <2> SUFFICES ASSUME NEW t \in SUBSET R, NEW y \in t PROVE h[t] = e[y] + h[t \ {y}] OBVIOUS
  <2> QED BY <2>1, SumAnyOrder
<1>4. S \in SUBSET S /\ R \in SUBSET R OBVIOUS
<1>5. g[S] = h[{m[x] : x \in S}] BY <1>2, <1>4
<1>6. h[R] = e[k] + h[R \ {k}] BY <1>1, <1>3, <1>4
<1>7. g[S] \in Int /\ h[R] \in Int BY <1>1, <1>4 DEF SumSolution
<1> QED BY <1>1, <1>5, <1>6, <1>7

\* The sum of the weights v of the elements of a sequence.
SeqSum(s, v) == SumFunction([i \in DOMAIN s |-> v[s[i]]])

\* It is a sum over the indices.
LEMMA SeqSumIs ==
    ASSUME NEW V, NEW s \in Seq(V), NEW v \in [V -> Int]
    PROVE  /\ [i \in 1..Len(s) |-> v[s[i]]] \in [1..Len(s) -> Int]
           /\ \E g : SumSolution(1..Len(s), [i \in 1..Len(s) |-> v[s[i]]], g)
           /\ \A g : SumSolution(1..Len(s), [i \in 1..Len(s) |-> v[s[i]]], g)
                        => SeqSum(s, v) = g[1..Len(s)]
<1> DEFINE S == 1..Len(s)
           f == [i \in S |-> v[s[i]]]
<1>1. DOMAIN s = S /\ Len(s) \in Int /\ \A i \in S : s[i] \in V OBVIOUS
<1>2. f \in [S -> Int] /\ DOMAIN f = S BY <1>1
<1>3. IsFiniteSet(S)
  <2>1. \A b \in Int : IsFiniteSet(1..b) BY FS_Interval
  <2> QED BY <1>1, <2>1
<1>4. SeqSum(s, v) = SumFunctionOnSet(f, S)
  <2>1. SeqSum(s, v) = SumFunction(f) BY <1>1 DEF SeqSum
  <2> HIDE DEF f
  <2> QED BY <1>2, <2>1 DEF SumFunction
<1> HIDE DEF f, S
<1>5. \E g : SumSolution(S, f, g) BY <1>2, <1>3, SumExists
<1>6. ASSUME NEW g, SumSolution(S, f, g) PROVE SeqSum(s, v) = g[S]
  <2>1. S \in SUBSET S OBVIOUS
  <2>2. \A R \in SUBSET S : SumFunctionOnSet(f, R) = g[R] BY <1>6, FoldIsSum
  <2> QED BY <1>4, <2>1, <2>2
<1> QED BY <1>2, <1>5, <1>6 DEF f, S

\* An element more at the end adds its weight.
LEMMA SeqSumAppend ==
    ASSUME NEW V, NEW s \in Seq(V), NEW v \in [V -> Int], NEW x \in V
    PROVE  /\ SeqSum(s, v) \in Int
           /\ SeqSum(Append(s, x), v) = SeqSum(s, v) + v[x]
<1> DEFINE n == Len(s)
           a == Append(s, x)
           S == 1..n
           R == 1..(n + 1)
           f == [i \in 1..Len(s) |-> v[s[i]]]
           e == [i \in 1..Len(a) |-> v[a[i]]]
           m == [i \in S |-> i]
<1>1. /\ n \in Nat /\ a \in Seq(V) /\ Len(a) = n + 1 /\ a[n + 1] = x
      /\ \A i \in S : a[i] = s[i]
  OBVIOUS
<1>2. PICK g : SumSolution(1..Len(s), f, g) /\ SeqSum(s, v) = g[1..Len(s)] BY SeqSumIs
<1>3. PICK h : SumSolution(1..Len(a), e, h) /\ SeqSum(a, v) = h[1..Len(a)] BY <1>1, SeqSumIs
<1>4. /\ SumSolution(S, f, g) /\ SeqSum(s, v) = g[S]
      /\ SumSolution(R, e, h) /\ SeqSum(a, v) = h[R]
  BY <1>1, <1>2, <1>3
<1>5. /\ m \in [S -> R] /\ (\A i, j \in S : m[i] = m[j] => i = j)
      /\ n + 1 \in R /\ R \ {n + 1} = {m[i] : i \in S}
      /\ \A i \in S : e[m[i]] = f[i]
  <2>1. \A i \in S : i \in R /\ m[i] = i BY <1>1
  <2>2. \A i \in S : f[i] = v[s[i]] /\ e[i] = v[a[i]] BY <1>1, <2>1
  <2>3. R \ {n + 1} = S BY <1>1
  <2>4. S = {m[i] : i \in S} BY <2>1
  <2>5. m \in [S -> R] /\ n + 1 \in R BY <1>1, <2>1
  <2>6. \A i \in S : e[m[i]] = f[i] BY <1>1, <2>1, <2>2
  <2> HIDE DEF m, R, S
  <2> QED BY <2>1, <2>3, <2>4, <2>5, <2>6
<1>6. e[n + 1] = v[x] /\ v[x] \in Int BY <1>1
<1> HIDE DEF n, a, S, R, f, e, m
<1>7. HasOneMore(S, f, g, R, e, h, m, n + 1) BY <1>4, <1>5 DEF HasOneMore
<1>8. g[S] \in Int /\ h[R] \in Int /\ h[R] = e[n + 1] + g[S] BY <1>7, SumOneMore
<1>9. SeqSum(a, v) = SeqSum(s, v) + v[x] BY <1>4, <1>6, <1>8
<1> QED BY <1>4, <1>8, <1>9 DEF a

\* The first element contributes its weight.
LEMMA SeqSumTail ==
    ASSUME NEW V, NEW s \in Seq(V), NEW v \in [V -> Int], s # <<>>
    PROVE  /\ SeqSum(Tail(s), v) \in Int /\ SeqSum(s, v) \in Int
           /\ SeqSum(s, v) = v[s[1]] + SeqSum(Tail(s), v)
<1> DEFINE n == Len(s)
           a == Tail(s)
           S == 1..(n - 1)
           R == 1..n
           f == [i \in 1..Len(a) |-> v[a[i]]]
           e == [i \in 1..Len(s) |-> v[s[i]]]
           m == [i \in S |-> i + 1]
<1>1. /\ n \in Nat \ {0} /\ a \in Seq(V) /\ Len(a) = n - 1 /\ s[1] \in V
      /\ \A i \in S : a[i] = s[i + 1]
  OBVIOUS
<1>2. PICK g : SumSolution(1..Len(a), f, g) /\ SeqSum(a, v) = g[1..Len(a)] BY <1>1, SeqSumIs, ZenonT(60)
<1>3. PICK h : SumSolution(1..Len(s), e, h) /\ SeqSum(s, v) = h[1..Len(s)] BY SeqSumIs
<1>4. /\ SumSolution(S, f, g) /\ SeqSum(a, v) = g[S]
      /\ SumSolution(R, e, h) /\ SeqSum(s, v) = h[R]
  BY <1>1, <1>2, <1>3
<1>5. \A i \in S : i + 1 \in R BY <1>1
<1>6. /\ m \in [S -> R] /\ \A i, j \in S : m[i] = m[j] => i = j
      /\ \A i \in S : m[i] = i + 1
  BY <1>1, <1>5
<1>7. /\ R \in SUBSET R /\ 1 \in R /\ R \ {1} = {i + 1 : i \in S}
      /\ \A i \in S : f[i] = v[a[i]] /\ e[i + 1] = v[s[i + 1]]
      /\ e[1] = v[s[1]]
  <2>1. R \ {1} = {i + 1 : i \in S}
    <3>1. ASSUME NEW k \in R \ {1} PROVE k \in {i + 1 : i \in S}
      <4>1. k - 1 \in S /\ (k - 1) + 1 = k BY <1>1
      <4> QED BY <4>1
    <3>2. \A i \in S : i + 1 \in R \ {1} BY <1>1
    <3> QED BY <3>1, <3>2
  <2>2. \A i \in S : f[i] = v[a[i]] /\ e[i + 1] = v[s[i + 1]] BY <1>1, <1>5
  <2> QED BY <1>1, <2>1, <2>2
<1> HIDE DEF n, a, S, R, f, e, m
<1>8. \A i \in S : e[m[i]] = f[i] BY <1>1, <1>6, <1>7
<1>9. {m[i] : i \in S} = R \ {1} BY <1>6, <1>7
<1>10. HasOneMore(S, f, g, R, e, h, m, 1) BY <1>4, <1>6, <1>7, <1>8, <1>9 DEF HasOneMore
<1>11. g[S] \in Int /\ h[R] \in Int /\ h[R] = e[1] + g[S] BY <1>10, SumOneMore
<1>12. SeqSum(s, v) = v[s[1]] + SeqSum(a, v) BY <1>4, <1>7, <1>11
<1> QED BY <1>4, <1>11, <1>12 DEF a

\* Nothing adds up to nothing.
LEMMA SeqSumEmpty ==
    ASSUME NEW V, NEW v \in [V -> Int]
    PROVE  SeqSum(<<>>, v) = 0
<1>1. <<>> \in Seq(V) /\ 1..Len(<<>>) = {} OBVIOUS
<1> DEFINE s == <<>>
<1>2. s \in Seq(V) /\ 1..Len(s) = {} BY <1>1
<1>3. SeqSum(<<>>, v) = SeqSum(s, v) OBVIOUS
<1> HIDE DEF s
<1>4. PICK g : /\ SumSolution(1..Len(s), [i \in 1..Len(s) |-> v[s[i]]], g)
               /\ SeqSum(s, v) = g[1..Len(s)]
  BY <1>2, SeqSumIs
<1>5. g[{}] = 0 BY <1>4 DEF SumSolution
<1> QED BY <1>2, <1>3, <1>4, <1>5

\* A ring of n slots holds the end of the history h.
RingOf(r, h, n) ==
    /\ Len(r) = IF Len(h) > n THEN n ELSE Len(h)
    /\ \A k \in 1..Len(r) : r[k] = h[Len(h) - Len(r) + k]

\* It still does when both take in x, the ring at the expense of its oldest slot.
LEMMA RingPush ==
    ASSUME NEW V, NEW r \in Seq(V), NEW h \in Seq(V), NEW n \in Nat \ {0}, RingOf(r, h, n),
           NEW x \in V
    PROVE  LET q == IF Len(r) = n THEN Append(Tail(r), x) ELSE Append(r, x)
           IN  q \in Seq(V) /\ RingOf(q, Append(h, x), n)
<1> DEFINE a == Append(h, x)
           m == Len(r)
           l == Len(h)
<1>1. /\ a \in Seq(V) /\ l \in Nat /\ Len(a) = l + 1 /\ a[l + 1] = x
      /\ \A i \in 1..l : a[i] = h[i]
  OBVIOUS
<1>0. m \in Nat OBVIOUS
<1>2. m = (IF l > n THEN n ELSE l) /\ \A k \in 1..m : r[k] = h[l - m + k]
  BY DEF RingOf
<1>5. m <= l
  <2> HIDE DEF m, l
  <2> QED BY <1>0, <1>1, <1>2
<1>3. CASE m = n
  <2> DEFINE q == Append(Tail(r), x)
  <2>1. r # <<>> BY <1>3
  <2>2. /\ q \in Seq(V) /\ Len(q) = m /\ q[m] = x
        /\ \A k \in 1..(m - 1) : q[k] = r[k + 1]
    BY <2>1
  <2> HIDE DEF q, a, m, l
  <2>3. ASSUME NEW k \in 1..m PROVE q[k] = a[(l + 1) - m + k]
    <3>1. CASE k = m
      <4>1. (l + 1) - m + k = l + 1 BY <1>0, <1>1, <3>1
      <4> QED BY <1>1, <2>2, <3>1, <4>1
    <3>2. CASE k # m
      <4>1. /\ k \in 1..(m - 1) /\ k + 1 \in 1..m /\ l - m + (k + 1) = (l + 1) - m + k
            /\ (l + 1) - m + k \in 1..l
        BY <1>0, <1>1, <1>5, <3>2
      <4>2. q[k] = r[k + 1] /\ r[k + 1] = h[l - m + (k + 1)] BY <1>2, <2>2, <4>1
      <4>3. a[(l + 1) - m + k] = h[(l + 1) - m + k] BY <1>1, <4>1
      <4> QED BY <4>1, <4>2, <4>3
    <3> QED BY <3>1, <3>2
  <2>4. m = IF l + 1 > n THEN n ELSE l + 1 BY <1>0, <1>1, <1>2, <1>3
  <2>5. RingOf(q, a, n) BY <1>1, <2>2, <2>3, <2>4 DEF RingOf
  <2> QED BY <1>3, <2>2, <2>5 DEF q, a, m
<1>4. CASE m # n
  <2> DEFINE q == Append(r, x)
  <2>1. m = l /\ l < n BY <1>1, <1>2, <1>4
  <2>2. q \in Seq(V) /\ Len(q) = m + 1 /\ q[m + 1] = x /\ \A k \in 1..m : q[k] = r[k]
    OBVIOUS
  <2> HIDE DEF q, a, m, l
  <2>3. ASSUME NEW k \in 1..(m + 1) PROVE q[k] = a[(l + 1) - (m + 1) + k]
    <3>1. (l + 1) - (m + 1) + k = k /\ l - m + k = k BY <1>0, <1>1, <2>1
    <3>2. CASE k = m + 1 BY <1>1, <2>1, <2>2, <3>1, <3>2
    <3>3. CASE k # m + 1
      <4>1. k \in 1..m BY <1>0, <3>3
      <4> QED BY <1>1, <1>2, <2>1, <2>2, <3>1, <4>1
    <3> QED BY <3>2, <3>3
  <2>4. m + 1 = IF l + 1 > n THEN n ELSE l + 1 BY <1>1, <2>1
  <2>5. RingOf(q, a, n) BY <1>1, <2>2, <2>3, <2>4 DEF RingOf
  <2> QED BY <1>4, <2>2, <2>5 DEF q, a, m
<1> QED BY <1>3, <1>4

\* The sum of a function over a finite set, as a solution of the equation of sums.
LEMMA SumFunctionIs ==
    ASSUME NEW S, IsFiniteSet(S), NEW f \in [S -> Int]
    PROVE  \E g : SumSolution(S, f, g) /\ SumFunction(f) = g[S]
<1>1. PICK g : SumSolution(S, f, g) BY SumExists
<1>2. S \in SUBSET S /\ DOMAIN f = S OBVIOUS
<1>3. \A R \in SUBSET S : SumFunctionOnSet(f, R) = g[R] BY <1>1, FoldIsSum
<1>4. SumFunction(f) = g[S] BY <1>2, <1>3 DEF SumFunction
<1> QED BY <1>1, <1>4

\* The sum of a sequence of numbers grows by what is appended.
LEMMA SumAppend ==
    ASSUME NEW s \in Seq(Int), NEW x \in Int
    PROVE  SumFunction(s) \in Int /\ SumFunction(Append(s, x)) = SumFunction(s) + x
<1> DEFINE v == [i \in Int |-> i]
<1>1. v \in [Int -> Int] /\ v[x] = x OBVIOUS
<1>2. ASSUME NEW q \in Seq(Int) PROVE SeqSum(q, v) = SumFunction(q)
  <2>1. [i \in DOMAIN q |-> v[q[i]]] = [i \in DOMAIN q |-> q[i]] OBVIOUS
  <2>2. [i \in DOMAIN q |-> q[i]] = q OBVIOUS
  <2> QED BY <2>1, <2>2 DEF SeqSum
<1>3. Append(s, x) \in Seq(Int) OBVIOUS
<1> HIDE DEF v
<1>4. SeqSum(s, v) \in Int /\ SeqSum(Append(s, x), v) = SeqSum(s, v) + v[x] BY <1>1, SeqSumAppend, Zenon
<1> QED BY <1>1, <1>2, <1>3, <1>4

\* No numbers add up to zero.
LEMMA SumNothing == SumFunction(<<>>) = 0
<1> DEFINE v == [i \in Int |-> i]
<1>1. v \in [Int -> Int] OBVIOUS
<1>2. [i \in DOMAIN <<>> |-> v[<<>>[i]]] = <<>> OBVIOUS
<1>3. SeqSum(<<>>, v) = SumFunction(<<>>) BY <1>2 DEF SeqSum
<1> HIDE DEF v
<1> QED BY <1>1, <1>3, SeqSumEmpty

\* w is what v holds at its last m of l indices, and v is zero before them.
EndsIn(v, l, w, m) ==
    /\ l \in Nat /\ m \in Nat /\ m <= l /\ v \in [1..l -> Int] /\ w \in [1..m -> Int]
    /\ \A i \in 1..l : i <= l - m => v[i] = 0
    /\ \A k \in 1..m : w[k] = v[l - m + k]

\* Then both have the same sum.
LEMMA SumOfEnd ==
    ASSUME NEW v, NEW l, NEW w, NEW m, EndsIn(v, l, w, m)
    PROVE  SumFunction(w) = SumFunction(v)
<1> DEFINE S == 1..m
           R == 1..l
           e == [k \in S |-> l - m + k]
           u == {e[k] : k \in S}
<1>1. /\ l \in Nat /\ m \in Nat /\ m <= l /\ v \in [R -> Int] /\ w \in [S -> Int]
      /\ \A i \in R : i <= l - m => v[i] = 0
      /\ \A k \in S : w[k] = v[l - m + k]
  BY DEF EndsIn
<1>2. IsFiniteSet(S) /\ IsFiniteSet(R) BY <1>1, FS_Interval
<1>3. \A k \in S : l - m + k \in R BY <1>1
<1>4. e \in [S -> R] /\ \A k \in S : e[k] = l - m + k BY <1>3
<1>5. \A x, y \in S : e[x] = e[y] => x = y BY <1>1, <1>4
<1>6. \A k \in S : v[e[k]] = w[k] BY <1>1, <1>4
<1>7. u \in SUBSET R BY <1>4
<1>8. ASSUME NEW i \in R \ u PROVE v[i] = 0
  <2>1. CASE i <= l - m BY <1>1, <2>1
  <2>2. CASE ~(i <= l - m)
    <3>1. i - (l - m) \in S /\ l - m + (i - (l - m)) = i BY <1>1, <2>2
    <3>2. e[i - (l - m)] = i BY <1>4, <3>1
    <3> QED BY <3>1, <3>2
  <2> QED BY <2>1, <2>2
<1> HIDE DEF S, R, e
<1>9. PICK g : SumSolution(S, w, g) /\ SumFunction(w) = g[S] BY <1>1, <1>2, SumFunctionIs
<1>10. PICK h : SumSolution(R, v, h) /\ SumFunction(v) = h[R] BY <1>1, <1>2, SumFunctionIs
<1>11. \A t \in SUBSET S : g[t] = h[{e[x] : x \in t}] BY <1>4, <1>5, <1>6, <1>9, <1>10, SumRenamed
<1>12. g[S] = h[u] BY <1>11
<1> HIDE DEF u
<1>13. \A t \in SUBSET R : u \subseteq t /\ (\A x \in t \ u : v[x] = 0) => h[t] = h[u]
  BY <1>7, <1>10, SumZeroes
<1>14. h[R] = h[u] BY <1>7, <1>8, <1>13
<1> QED BY <1>9, <1>10, <1>12, <1>14
=============================================================================
