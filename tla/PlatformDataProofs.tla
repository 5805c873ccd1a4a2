--------------------------- MODULE PlatformDataProofs ---------------------------
(***************************************************************************)
(* Proofs about what the platform keeps: the references of the asset       *)
(* registry, the stored runs and the paging through them, and the audit    *)
(* history of the recommendations.  About how its data are generated: the  *)
(* random numbers, the stages of a generation and the validation of what   *)
(* was made.  And about what models learn from and how they are judged.    *)
(***************************************************************************)
EXTENDS PlatformData, FiniteSetTheorems, SequenceTheorems, WellFoundedInduction, TLAPS

-----------------------------------------------------------------------------
(* Induction and recursion over the naturals, for sets and functions       *)
(* where the library's theorems are about operators.                       *)

\* Sets of naturals have least elements, ...
LEMMA LeastExists ==
    ASSUME NEW T, T \subseteq Nat, T # {}
    PROVE  \E t \in T : \A y \in T : t <= y
<1>1. PICK t \in T : \A y \in T : ~ (<<y, t>> \in OpToRel(<, Nat))
  BY NatLessThanWellFounded, WFMin
<1>2. \A y \in T : <<y, t>> \in Nat \X Nat
  OBVIOUS
<1>3. \A y \in T : ~ (y < t)
  BY <1>1, <1>2 DEF OpToRel
<1>4. QED
  BY <1>3

\* ... so that what holds of 0 and is inherited holds of all.
LEMMA InductionOverNat ==
    ASSUME NEW S, 0 \in S, \A n \in Nat : n \in S => n + 1 \in S
    PROVE  Nat \subseteq S
<1> SUFFICES ASSUME Nat \ S # {} PROVE FALSE
  OBVIOUS
<1>1. PICK t \in Nat \ S : \A y \in Nat \ S : t <= y
  BY LeastExists
<1>2. t # 0 /\ t - 1 \in Nat
  BY <1>1
<1>3. t - 1 \in S
  BY <1>1, <1>2
<1>4. (t - 1) + 1 \in S
  BY <1>2, <1>3
<1>5. QED
  BY <1>1, <1>4

\* g is what the recursion with F makes of base.
Follows(g, base, F, domain) == g[0] = base /\ \A k \in domain : g[k + 1] = F[<<k, g[k]>>]

\* Recursion defines a sequence, as far as one likes ...
LEMMA PartialRecursion ==
    ASSUME NEW V, NEW base \in V, NEW F \in [Nat \X V -> V], NEW n \in Nat
    PROVE  \E g \in [0..n -> V] : Follows(g, base, F, 0..(n - 1))
<1> DEFINE Good(g, m) == g[0] = base /\ \A k \in 0..(m - 1) : g[k + 1] = F[<<k, g[k]>>]
           S == {m \in Nat : \E g \in [0..m -> V] : Good(g, m)}
<1>1. 0 \in S
  <2> DEFINE g == [k \in 0..0 |-> base]
  <2>1. g \in [0..0 -> V] /\ Good(g, 0)
    OBVIOUS
  <2> QED
    BY <2>1
<1>2. \A m \in Nat : m \in S => m + 1 \in S
  <2> SUFFICES ASSUME NEW m \in Nat, m \in S PROVE m + 1 \in S
    OBVIOUS
  <2>1. PICK g \in [0..m -> V] : Good(g, m)
    OBVIOUS
  <2> DEFINE h == [k \in 0..(m + 1) |-> IF k = m + 1 THEN F[<<m, g[m]>>] ELSE g[k]]
  <2>2. g[m] \in V /\ F[<<m, g[m]>>] \in V
    OBVIOUS
  <2>3. h \in [0..(m + 1) -> V]
    BY <2>2
  <2>4. \A k \in 0..m : h[k] = g[k]
    OBVIOUS
  <2>5. h[m + 1] = F[<<m, g[m]>>] /\ h[m] = g[m] /\ h[0] = base
    BY <2>1
  <2>6. \A k \in 0..m : h[k + 1] = F[<<k, h[k]>>]
    <3> SUFFICES ASSUME NEW k \in 0..m PROVE h[k + 1] = F[<<k, h[k]>>]
      OBVIOUS
    <3>1. CASE k = m
      BY <2>5, <3>1
    <3>2. CASE k # m
      <4>1. k \in 0..(m - 1) /\ k + 1 \in 0..m
        BY <3>2
      <4> QED
        BY <2>1, <2>4, <4>1
    <3> QED
      BY <3>1, <3>2
  <2> HIDE DEF h
  <2>7. Good(h, m + 1)
    <3>1. (m + 1) - 1 = m
      OBVIOUS
    <3> QED
      BY Zenon, <2>5, <2>6, <3>1
  <2> HIDE DEF Good
  <2>8. \E f \in [0..(m + 1) -> V] : Good(f, m + 1)
    BY Zenon, <2>3, <2>7
  <2> QED
    BY <2>8
<1>3. n \in S
  <2> HIDE DEF S
  <2> QED
    BY <1>1, <1>2, InductionOverNat
<1>4. QED
  BY <1>3 DEF Follows

\* ... and without end.
LEMMA Recursion ==
    ASSUME NEW V, NEW base \in V, NEW F \in [Nat \X V -> V]
    PROVE  \E g \in [Nat -> V] : Follows(g, base, F, Nat)
<1> DEFINE Good(g, m) == Follows(g, base, F, 0..(m - 1))
           part[m \in Nat] == CHOOSE g \in [0..m -> V] : Good(g, m)
           h == [m \in Nat |-> part[m][m]]
<1>1. \A m \in Nat : part[m] \in [0..m -> V] /\ Good(part[m], m)
  <2> SUFFICES ASSUME NEW m \in Nat PROVE part[m] \in [0..m -> V] /\ Good(part[m], m)
    OBVIOUS
  <2>1. part[m] = CHOOSE g \in [0..m -> V] : Good(g, m)
    OBVIOUS
  <2>2. \E g \in [0..m -> V] : Good(g, m)
    BY PartialRecursion
  <2> HIDE DEF Good, part
  <2> QED
    BY <2>1, <2>2
<1> HIDE DEF part
<1> USE DEF Follows
<1>2. \A m \in Nat : \A k \in 0..m : part[m][k] = part[k][k]
  <2> SUFFICES ASSUME NEW m \in Nat PROVE \A k \in 0..m : part[m][k] = part[k][k]
    OBVIOUS
  <2> DEFINE S == {k \in Nat : \A a, b \in Nat : k <= a /\ k <= b => part[a][k] = part[b][k]}
  <2>1. 0 \in S
    BY <1>1
  <2>2. ASSUME NEW k \in Nat, k \in S
        PROVE  k + 1 \in S
    <3> SUFFICES ASSUME NEW a \in Nat, NEW b \in Nat, k + 1 <= a, k + 1 <= b
                 PROVE  part[a][k + 1] = part[b][k + 1]
      OBVIOUS
    <3>1. part[a][k] = part[b][k]
      BY <2>2
    <3>2. k \in 0..(a - 1) /\ k \in 0..(b - 1)
      OBVIOUS
    <3>3. part[a][k + 1] = F[<<k, part[a][k]>>] /\ part[b][k + 1] = F[<<k, part[b][k]>>]
      BY <1>1, <3>2
    <3> QED
      BY <3>1, <3>3
  <2>3. Nat \subseteq S
    <3> HIDE DEF S
    <3> QED
      BY <2>1, <2>2, InductionOverNat
  <2> QED
    BY <2>3
<1>3. h \in [Nat -> V] /\ h[0] = base
  BY <1>1
<1>4. \A k \in Nat : h[k + 1] = F[<<k, h[k]>>]
  <2> SUFFICES ASSUME NEW k \in Nat PROVE h[k + 1] = F[<<k, h[k]>>]
    OBVIOUS
  <2>1. k \in 0..((k + 1) - 1) /\ k \in 0..(k + 1) /\ k + 1 \in Nat
    OBVIOUS
  <2>2. part[k + 1][k + 1] = F[<<k, part[k + 1][k]>>]
    BY <1>1, <2>1
  <2>3. part[k + 1][k] = part[k][k]
    BY <1>2, <2>1
  <2> QED
    BY <2>2, <2>3
<1>5. QED
  BY <1>3, <1>4 DEF Follows

\* A fraction's quotient: the last number whose multiple fits.
LEMMA DivFacts ==
    ASSUME NEW a \in Nat, NEW q \in Nat \ {0}
    PROVE  /\ a \div q \in Nat /\ (a \div q) * q <= a
           /\ \A n \in Nat : n * q <= a => n <= a \div q
<1>1. a \div q \in Int
  OBVIOUS
<1>2. a = q * (a \div q) + (a % q) /\ 0 <= a % q /\ a % q < q
  OBVIOUS
<1>3. a \div q \in Nat /\ (a \div q) * q <= a
  BY <1>1, <1>2
<1>4. ASSUME NEW n \in Nat, n * q <= a PROVE n <= a \div q
  BY <1>4
<1>5. QED
  BY <1>3, <1>4

\* What fits into a fraction fits into one that is not less.
LEMMA FractionsCompare ==
    ASSUME NEW a \in Nat, NEW b \in Nat, NEW q \in Nat \ {0}, NEW r \in Nat \ {0},
           a * r <= b * q
    PROVE  a \div q <= b \div r
<1>1. PICK n \in Nat : n = a \div q /\ n * q <= a
  BY DivFacts
<1>2. (n * q) * r <= a * r
  BY <1>1
<1>3. (n * r) * q <= b * q
  BY <1>2
<1>4. n * r <= b
  BY <1>3
<1>5. n <= b \div r
  BY <1>4, DivFacts
<1>6. QED
  BY <1>1, <1>5

-----------------------------------------------------------------------------
(* Division, the sums of functions over finite sets, and their values.     *)

\* Division by a positive number, of any number.
LEMMA Quotients ==
    ASSUME NEW a \in Int, NEW q \in Nat \ {0}
    PROVE  /\ a \div q \in Int /\ a % q \in 0..(q - 1) /\ a = (a \div q) * q + (a % q)
           /\ \A n \in Int : n * q <= a <=> n <= a \div q
           /\ \A b \in Int : a <= b => a \div q <= b \div q
<1>1. /\ a \div q \in Int /\ a % q \in 0..(q - 1) /\ a = (a \div q) * q + (a % q)
  OBVIOUS
<1>2. ASSUME NEW n \in Int, n <= a \div q PROVE n * q <= a
  <2>1. n * q <= (a \div q) * q
    BY <1>1, <1>2
  <2> QED
    BY <1>1, <2>1
<1>3. ASSUME NEW n \in Int, n * q <= a PROVE n <= a \div q
  <2> SUFFICES ASSUME a \div q + 1 <= n PROVE FALSE
    BY <1>1
  <2>1. (a \div q + 1) * q <= n * q
    BY <1>1
  <2> QED
    BY <1>1, <1>3, <2>1
<1>4. ASSUME NEW b \in Int, a <= b PROVE a \div q <= b \div q
  <2>1. b \div q \in Int /\ b % q \in 0..(q - 1) /\ b = (b \div q) * q + (b % q)
    OBVIOUS
  <2> SUFFICES ASSUME b \div q + 1 <= a \div q PROVE FALSE
    BY <1>1, <2>1
  <2>2. (b \div q + 1) * q <= (a \div q) * q
    BY <1>1, <2>1
  <2> QED
    BY <1>1, <1>4, <2>1, <2>2
<1>5. QED
  BY <1>1, <1>2, <1>3, <1>4

\* A multiple leaves nothing and is divided exactly.
LEMMA Multiples ==
    ASSUME NEW m \in Int, NEW q \in Nat \ {0}
    PROVE  (m * q) % q = 0 /\ (m * q) \div q = m
<1> SUFFICES ASSUME NEW a, a = m * q PROVE a % q = 0 /\ a \div q = m
  OBVIOUS
<1>1. a \in Int
  OBVIOUS
<1>2. a \div q \in Int /\ m <= a \div q
  BY <1>1, Quotients
<1>3. (a \div q) * q <= a
  BY <1>1, Quotients
<1>4. a \div q <= m
  <2> SUFFICES ASSUME m + 1 <= a \div q PROVE FALSE
    BY <1>2
  <2>1. (m + 1) * q <= (a \div q) * q
    BY <1>2
  <2> QED
    BY <1>1, <1>2, <1>3, <2>1
<1>5. a = (a \div q) * q + (a % q) /\ a % q \in 0..(q - 1)
  BY <1>1, Quotients, Zenon
<1>6. a \div q = m
  BY <1>2, <1>4
<1>7. a = m * q + (a % q)
  BY <1>5, <1>6
<1>8. a % q = 0
  BY <1>1, <1>5, <1>7
<1> QED
  BY <1>6, <1>8

\* A set that has no two members has one at most.
LEMMA AtMostOne ==
    ASSUME NEW S, \A x, y \in S : x = y
    PROVE  Cardinality(S) = IF S = {} THEN 0 ELSE 1
<1>1. CASE S = {}
  BY <1>1, FS_EmptySet
<1>2. CASE S # {}
  <2>1. PICK x \in S : TRUE
    BY <1>2
  <2>2. S = {x}
    BY <2>1
  <2> QED
    BY <1>2, <2>2, FS_Singleton
<1> QED
  BY <1>1, <1>2

\* Sets of subsets of a finite set have least elements.
LEMMA LeastSubset ==
    ASSUME NEW S, IsFiniteSet(S), NEW B, B \subseteq SUBSET S, B # {}
    PROVE  \E T \in B : \A U \in B : U \subseteq T => U = T
<1>1. B \subseteq FiniteSubsetsOf(S)
  BY FS_Subset DEF FiniteSubsetsOf
<1>2. PICK T \in B : \A U \in B : ~ (<<U, T>> \in StrictSubsetOrdering(S))
  BY <1>1, FS_StrictSubsetOrderingWellFounded, WFMin
<1>3. ASSUME NEW U \in B, U \subseteq T PROVE U = T
  <2>1. ~ (U # T /\ U \subseteq T)
    BY <1>2, <1>3 DEF StrictSubsetOrdering
  <2> QED
    BY <1>3, <2>1
<1> QED
  BY <1>3

\* g sums the values of f over the subsets of S, as the library does.
Sums(g, f, S) ==
    g = [s \in SUBSET S |-> IF s = {} THEN 0
                            ELSE f[CHOOSE x \in s : TRUE] + g[s \ {CHOOSE x \in s : TRUE}]]

\* Such sums agree where the values do, ...
LEMMA SumsAgree ==
    ASSUME NEW S, NEW T, NEW f, NEW e, NEW g, NEW h, Sums(g, f, S), Sums(h, e, T),
           NEW U, IsFiniteSet(U), U \subseteq S, U \subseteq T, \A x \in U : f[x] = e[x]
    PROVE  g[U] = h[U]
<1> DEFINE B == {V \in SUBSET U : g[V] # h[V]}
<1> SUFFICES ASSUME B # {} PROVE FALSE
  OBVIOUS
<1>0. B \subseteq SUBSET U
  OBVIOUS
<1> HIDE DEF B
<1>1. PICK V \in B : \A W \in B : W \subseteq V => W = V
  BY <1>0, LeastSubset
<1>2. V \subseteq U /\ g[V] # h[V] /\ V \in SUBSET S /\ V \in SUBSET T
  BY DEF B
<1>3. V # {}
  BY <1>2 DEF Sums
<1> DEFINE x == CHOOSE x \in V : TRUE
<1>4. x \in V
  BY <1>3
<1>5. g[V] = f[x] + g[V \ {x}] /\ h[V] = e[x] + h[V \ {x}]
  BY <1>2, <1>3 DEF Sums
<1> HIDE DEF x
<1>6. V \ {x} \notin B
  BY <1>1, <1>4
<1>7. g[V \ {x}] = h[V \ {x}]
  BY <1>2, <1>6 DEF B
<1> QED
  BY <1>2, <1>4, <1>5, <1>7

\* ... and there are some.
LEMMA SumsExist ==
    ASSUME NEW S, IsFiniteSet(S), NEW f
    PROVE  \E g : Sums(g, f, S)
<1> DEFINE B == {T \in SUBSET S : ~ \E g : Sums(g, f, T)}
<1> SUFFICES ASSUME B # {} PROVE FALSE
  OBVIOUS
<1>0. B \subseteq SUBSET S
  OBVIOUS
<1> HIDE DEF B
<1>1. PICK T \in B : \A U \in B : U \subseteq T => U = T
  BY <1>0, LeastSubset
<1>2. T \in SUBSET S /\ ~ \E g : Sums(g, f, T)
  BY DEF B
<1>3. \A U \in SUBSET T : U # T => \E g : Sums(g, f, U)
  BY <1>1, <1>2 DEF B
<1> DEFINE Sum(U) == (CHOOSE g : Sums(g, f, U))[U]
           Last(s) == CHOOSE x \in s : TRUE
           g == [s \in SUBSET T |-> IF s = {} THEN 0 ELSE f[Last(s)] + Sum(s \ {Last(s)})]
<1>4. \A U \in SUBSET T : U # T => Sums(CHOOSE h : Sums(h, f, U), f, U)
  BY <1>3
<1>5. ASSUME NEW s \in SUBSET T, s # T PROVE g[s] = Sum(s)
  <2>1. PICK h : h = (CHOOSE i : Sums(i, f, s)) /\ Sums(h, f, s)
    BY <1>4, <1>5
  <2>2. h[s] = IF s = {} THEN 0 ELSE f[Last(s)] + h[s \ {Last(s)}]
    BY <2>1 DEF Sums
  <2>3. CASE s = {}
    BY <2>1, <2>2, <2>3
  <2>4. CASE s # {}
    <3> DEFINE r == s \ {Last(s)}
    <3>1. Last(s) \in s
      BY <2>4
    <3>2. r \in SUBSET T /\ r # T /\ r \subseteq s
      BY <3>1
    <3>3. PICK k : k = (CHOOSE i : Sums(i, f, r)) /\ Sums(k, f, r)
      BY <1>4, <3>2
    <3>4. IsFiniteSet(r)
      BY <1>2, <3>2, FS_Subset
    <3> HIDE DEF r
    <3>5. h[r] = k[r]
      BY <2>1, <3>2, <3>3, <3>4, SumsAgree
    <3>6. Sum(r) = k[r]
      BY <3>3
    <3>7. Sum(s) = h[s]
      BY <2>1
    <3>8. h[s] = f[Last(s)] + h[r]
      BY <2>2, <2>4 DEF r
    <3>9. g[s] = f[Last(s)] + Sum(r)
      BY <2>4 DEF r
    <3> QED
      BY <3>5, <3>6, <3>7, <3>8, <3>9
  <2> QED
    BY <2>3, <2>4
<1>6. g = [s \in SUBSET T |-> IF s = {} THEN 0 ELSE f[Last(s)] + g[s \ {Last(s)}]]
  <2>1. ASSUME NEW s \in SUBSET T, s # {} PROVE Sum(s \ {Last(s)}) = g[s \ {Last(s)}]
    <3>1. Last(s) \in s
      BY <2>1
    <3>2. s \ {Last(s)} \in SUBSET T /\ s \ {Last(s)} # T
      BY <3>1
    <3> QED
      BY <1>5, <3>2
  <2> DEFINE t == [s \in SUBSET T |-> IF s = {} THEN 0 ELSE f[Last(s)] + g[s \ {Last(s)}]]
  <2>2. \A s \in SUBSET T : t[s] = IF s = {} THEN 0 ELSE f[Last(s)] + g[s \ {Last(s)}]
    BY Zenon
  <2>3. \A s \in SUBSET T : g[s] = IF s = {} THEN 0 ELSE f[Last(s)] + Sum(s \ {Last(s)})
    BY Zenon
  <2>4. /\ DOMAIN g = SUBSET T /\ DOMAIN t = SUBSET T
        /\ g = [s \in DOMAIN g |-> g[s]] /\ t = [s \in DOMAIN t |-> t[s]]
    OBVIOUS
  <2> HIDE DEF g, t, Sum, Last
  <2>5. \A s \in SUBSET T : g[s] = t[s]
    BY <2>1, <2>2, <2>3
  <2>6. g = t
    BY <2>4, <2>5
  <2> QED
    BY <2>6 DEF t
<1>7. Sums(g, f, T)
  BY <1>6 DEF Sums
<1> QED
  BY <1>2, <1>7

\* The library's sum is the one of them.
LEMMA SumOnSet ==
    ASSUME NEW S, IsFiniteSet(S), NEW f
    PROVE  \E g : Sums(g, f, S) /\ SumFunctionOnSet(f, S) = g[S]
<1>1. SumFunctionOnSet(f, S) = (CHOOSE g : Sums(g, f, S))[S]
  BY Zenon DEF SumFunctionOnSet, FoldFunctionOnSet, MapThenFoldSet, Sums
<1>2. Sums(CHOOSE g : Sums(g, f, S), f, S)
  BY SumsExist
<1> QED
  BY <1>1, <1>2

\* A sum is the same whichever summand is taken out, ...
TakesOut(g, f, S) ==
    /\ g[{}] = 0
    /\ \A T \in SUBSET S : g[T] \in Int /\ \A x \in T : g[T] = f[x] + g[T \ {x}]

\* ... for every way to sum, ...
LEMMA SumTakesOut ==
    ASSUME NEW S, IsFiniteSet(S), NEW f, \A x \in S : f[x] \in Int, NEW g, Sums(g, f, S)
    PROVE  TakesOut(g, f, S)
<1> DEFINE Good(T) == g[T] \in Int /\ \A x \in T : g[T] = f[x] + g[T \ {x}]
           B == {T \in SUBSET S : ~ Good(T)}
<1>1. g[{}] = 0
  BY DEF Sums
<1> SUFFICES ASSUME B # {} PROVE FALSE
  BY <1>1 DEF TakesOut
<1>2. B \subseteq SUBSET S
  OBVIOUS
<1> HIDE DEF B
<1>3. PICK T \in B : \A U \in B : U \subseteq T => U = T
  BY <1>2, LeastSubset
<1>4. T \in SUBSET S /\ ~ Good(T)
  BY DEF B
<1>5. \A U \in SUBSET T : U # T => Good(U)
  BY <1>3, <1>4 DEF B
<1>6. T # {}
  BY <1>1, <1>4
<1> DEFINE y == CHOOSE x \in T : TRUE
<1>7. y \in T
  BY <1>6
<1>8. g[T] = f[y] + g[T \ {y}]
  BY <1>4, <1>6 DEF Sums
<1> HIDE DEF y
<1>9. f[y] \in Int /\ g[T \ {y}] \in Int
  <2>1. T \ {y} \in SUBSET T /\ T \ {y} # T
    BY <1>7
  <2> QED
    BY <1>4, <1>5, <1>7, <2>1
<1>10. ASSUME NEW x \in T PROVE g[T] = f[x] + g[T \ {x}]
  <2>1. CASE x = y
    BY <1>8, <2>1
  <2>2. CASE x # y
    <3> DEFINE v == T \ {x}
               w == T \ {y}
               r == T \ {x, y}
    <3>1. /\ v \in SUBSET T /\ v # T /\ y \in v /\ v \ {y} = r
          /\ w \in SUBSET T /\ w # T /\ x \in w /\ w \ {x} = r
          /\ r \in SUBSET T /\ r # T
      BY <1>7, <2>2
    <3> HIDE DEF v, w, r
    <3>2. g[v] = f[y] + g[r] /\ g[w] = f[x] + g[r] /\ g[r] \in Int
      BY <1>5, <3>1
    <3>3. f[x] \in Int
      BY <1>4
    <3>4. g[T] = f[y] + g[w]
      BY <1>8 DEF w
    <3>5. g[T] = f[x] + g[v]
      BY <1>9, <3>2, <3>3, <3>4
    <3> QED
      BY <3>5 DEF v
  <2> QED
    BY <2>1, <2>2
<1>11. g[T] \in Int
  BY <1>8, <1>9
<1> QED
  BY <1>4, <1>10, <1>11

\* ... and so is the library's.
LEMMA SumFacts ==
    ASSUME NEW S, IsFiniteSet(S), NEW f, \A x \in S : f[x] \in Int
    PROVE  /\ SumFunctionOnSet(f, S) \in Int
           /\ S = {} => SumFunctionOnSet(f, S) = 0
           /\ \A x \in S : SumFunctionOnSet(f, S) = f[x] + SumFunctionOnSet(f, S \ {x})
<1>1. PICK g : Sums(g, f, S) /\ SumFunctionOnSet(f, S) = g[S]
  BY SumOnSet
<1>2. g[S] \in Int /\ g[{}] = 0 /\ \A x \in S : g[S] = f[x] + g[S \ {x}]
  <2>1. TakesOut(g, f, S)
    BY <1>1, SumTakesOut
  <2> QED
    BY <2>1 DEF TakesOut
<1>3. ASSUME NEW x \in S PROVE SumFunctionOnSet(f, S \ {x}) = g[S \ {x}]
  <2> DEFINE T == S \ {x}
  <2>1. IsFiniteSet(T) /\ T \subseteq S
    BY FS_Subset
  <2> HIDE DEF T
  <2>2. PICK h : Sums(h, f, T) /\ SumFunctionOnSet(f, T) = h[T]
    BY <2>1, SumOnSet
  <2>3. g[T] = h[T]
    BY <1>1, <2>1, <2>2, SumsAgree
  <2> QED
    BY <2>2, <2>3 DEF T
<1> QED
  BY <1>1, <1>2, <1>3

\* Sums over the same set agree where the values do.
LEMMA SumDepends ==
    ASSUME NEW S, IsFiniteSet(S), NEW f, NEW e, \A x \in S : f[x] = e[x]
    PROVE  SumFunctionOnSet(f, S) = SumFunctionOnSet(e, S)
<1>1. PICK g : Sums(g, f, S) /\ SumFunctionOnSet(f, S) = g[S]
  BY SumOnSet
<1>2. PICK h : Sums(h, e, S) /\ SumFunctionOnSet(e, S) = h[S]
  BY SumOnSet
<1> QED
  BY <1>1, <1>2, SumsAgree

\* What is not negative has a sum that is not, and is nothing only of nothing.
LEMMA SumOfNaturals ==
    ASSUME NEW S, IsFiniteSet(S), NEW f, \A x \in S : f[x] \in Nat
    PROVE  /\ SumFunctionOnSet(f, S) \in Nat
           /\ SumFunctionOnSet(f, S) = 0 <=> \A x \in S : f[x] = 0
<1> DEFINE Good(T) == /\ SumFunctionOnSet(f, T) \in Nat
                      /\ SumFunctionOnSet(f, T) = 0 <=> \A x \in T : f[x] = 0
           B == {T \in SUBSET S : ~ Good(T)}
<1> SUFFICES ASSUME B # {} PROVE FALSE
  OBVIOUS
<1>1. B \subseteq SUBSET S
  OBVIOUS
<1> HIDE DEF B
<1>2. PICK T \in B : \A U \in B : U \subseteq T => U = T
  BY <1>1, LeastSubset
<1>3. T \in SUBSET S /\ ~ Good(T) /\ \A U \in SUBSET T : U # T => Good(U)
  BY <1>2 DEF B
<1>4. IsFiniteSet(T) /\ \A x \in T : f[x] \in Int /\ f[x] \in Nat
  BY <1>3, FS_Subset
<1>5. T # {}
  BY <1>3, <1>4, SumFacts
<1>6. PICK x \in T : TRUE
  BY <1>5
<1>7. SumFunctionOnSet(f, T) = f[x] + SumFunctionOnSet(f, T \ {x})
  BY <1>4, SumFacts
<1>8. Good(T \ {x})
  <2>1. T \ {x} \in SUBSET T /\ T \ {x} # T
    BY <1>6
  <2> HIDE DEF Good
  <2> QED
    BY <1>3, <2>1
<1>9. Good(T)
  BY <1>4, <1>7, <1>8
<1> QED
  BY <1>3, <1>9

\* The image of a finite set is finite.
LEMMA FiniteValues ==
    ASSUME NEW S, IsFiniteSet(S), NEW f, DOMAIN f = S
    PROVE  IsFiniteSet({f[x] : x \in S})
<1> DEFINE T == {f[x] : x \in S}
           g == [x \in S |-> f[x]]
<1>1. g \in Surjection(S, T)
  BY DEF Surjection
<1> HIDE DEF g, T
<1>2. IsFiniteSet(T)
  BY Zenon, <1>1, FS_Surjection
<1> QED
  BY <1>2 DEF T

-----------------------------------------------------------------------------
(* What is in order can be put in order: each has a rank of its own, that  *)
(* is the number of what comes before it.                                  *)

\* What comes before x of a set that a relation orders.
Earlier(R, S, x) == {y \in S : <<y, x>> \in R}

Orders(R, S) ==
    /\ \A x \in S : <<x, x>> \notin R
    /\ \A x, y \in S : x = y \/ <<x, y>> \in R \/ <<y, x>> \in R
    /\ \A x, y, z \in S : <<x, y>> \in R /\ <<y, z>> \in R => <<x, z>> \in R

Rank(R, S, x) == Cardinality(Earlier(R, S, x))

HasRank(R, S, n) == \E x \in S : Rank(R, S, x) = n

Ranked(R, S) ==
    /\ \A x \in S : Rank(R, S, x) \in 0..(Cardinality(S) - 1)
    /\ \A x, y \in S : <<x, y>> \in R <=> Rank(R, S, x) < Rank(R, S, y)
    /\ \A x, y \in S : Rank(R, S, x) = Rank(R, S, y) => x = y
    /\ \A n \in 0..(Cardinality(S) - 1) : \E x \in S : Rank(R, S, x) = n

\* Of what is in order each has a rank of its own, and each rank is one's.
LEMMA Ranks ==
    ASSUME NEW S, IsFiniteSet(S), NEW R, Orders(R, S) PROVE Ranked(R, S)
<1> DEFINE n == Cardinality(S)
           rank == [x \in S |-> Cardinality(Earlier(R, S, x))]
<1>1. n \in Nat
  BY FS_CardinalityType
<1>2. \A x \in S : /\ IsFiniteSet(Earlier(R, S, x)) /\ rank[x] \in Nat /\ rank[x] < n
                   /\ rank[x] = Cardinality(Earlier(R, S, x))
  <2> TAKE x \in S
  <2>1. x \notin Earlier(R, S, x) /\ Earlier(R, S, x) \in SUBSET S
    BY DEF Earlier, Orders
  <2>2. /\ IsFiniteSet(Earlier(R, S, x)) /\ Cardinality(Earlier(R, S, x)) <= n
        /\ n = Cardinality(Earlier(R, S, x)) => S = Earlier(R, S, x)
    BY <2>1, FS_Subset
  <2>3. Cardinality(Earlier(R, S, x)) \in Nat
    BY <2>2, FS_CardinalityType
  <2> HIDE DEF n
  <2> QED
    BY <2>1, <2>2, <2>3, <1>1
<1>3. ASSUME NEW x \in S, NEW y \in S, <<x, y>> \in R PROVE rank[x] < rank[y]
  <2>1. x \in Earlier(R, S, y) /\ x \notin Earlier(R, S, x)
    BY <1>3 DEF Earlier, Orders
  <2>2. Earlier(R, S, x) \in SUBSET Earlier(R, S, y)
    BY <1>3 DEF Earlier, Orders
  <2>3. /\ Cardinality(Earlier(R, S, x)) <= Cardinality(Earlier(R, S, y))
        /\ Cardinality(Earlier(R, S, y)) = Cardinality(Earlier(R, S, x)) =>
               Earlier(R, S, y) = Earlier(R, S, x)
    BY <1>2, <2>2, FS_Subset
  <2> HIDE DEF rank
  <2> QED
    BY <2>1, <2>3, <1>2
<1> HIDE DEF n
<1>4. \A x, y \in S : <<x, y>> \in R <=> rank[x] < rank[y]
  <2> SUFFICES ASSUME NEW x \in S, NEW y \in S, rank[x] < rank[y] PROVE <<x, y>> \in R
    BY <1>3
  <2>1. x # y /\ ~ (rank[y] < rank[x])
    BY <1>2
  <2> QED
    BY <2>1, <1>3 DEF Orders
<1>5. \A x, y \in S : rank[x] = rank[y] => x = y
  <2> SUFFICES ASSUME NEW x \in S, NEW y \in S, rank[x] = rank[y] PROVE x = y
    OBVIOUS
  <2>1. ~ (rank[x] < rank[y]) /\ ~ (rank[y] < rank[x])
    BY <1>2
  <2> QED
    BY <2>1, <1>4 DEF Orders
<1>6. rank \in Injection(S, 0..(n - 1))
  <2>1. rank \in [S -> 0..(n - 1)]
    BY <1>1, <1>2
  <2> QED
    BY <2>1, <1>5 DEF Injection, IsInjective
<1>7. IsFiniteSet(0..(n - 1)) /\ Cardinality(0..(n - 1)) = n
  <2>1. 0 \in Int /\ n - 1 \in Int
    BY <1>1
  <2>2. /\ IsFiniteSet(0..(n - 1))
        /\ Cardinality(0..(n - 1)) = IF 0 > n - 1 THEN 0 ELSE (n - 1) - 0 + 1
    BY <2>1, FS_Interval
  <2> QED
    BY <2>2, <1>1
<1>8. rank \in Surjection(S, 0..(n - 1))
  BY <1>6, <1>7, FS_Injection DEF n
<1>9. \A m \in 0..(n - 1) : \E x \in S : rank[x] = m
  BY <1>8 DEF Surjection
<1> HIDE DEF rank
<1>10. \A x \in S : rank[x] \in 0..(n - 1)
  BY <1>1, <1>2
<1> QED
  <2>1. \A x \in S : Rank(R, S, x) = rank[x]
    BY Zenon, <1>2 DEF Rank
  <2> QED
    BY <1>4, <1>5, <1>9, <1>10, <2>1 DEF n, Ranked

\* Where each place has what is of its rank, the places are in order.
LEMMA Sorting ==
    ASSUME NEW n \in Nat, NEW S, S = 1..n, NEW R, Orders(R, S),
           NEW p, \A k \in S : p[k] \in S /\ Rank(R, S, p[k]) = k - 1
    PROVE  /\ \A j, k \in S : p[j] = p[k] => j = k
           /\ \A j, k \in S : j < k <=> <<p[j], p[k]>> \in R
<1>1. IsFiniteSet(S)
  BY FS_Interval
<1>2. \A x, y \in S : <<x, y>> \in R <=> Rank(R, S, x) < Rank(R, S, y)
  <2>1. Ranked(R, S)
    BY <1>1, Ranks
  <2> QED
    BY Zenon, <2>1 DEF Ranked
<1>3. \A k \in S : p[k] \in S /\ Rank(R, S, p[k]) = k - 1
  OBVIOUS
<1>4. \A j, k \in S : p[j] = p[k] => j = k
  BY <1>3
<1>5. \A j, k \in S : j < k <=> <<p[j], p[k]>> \in R
  <2> TAKE j, k \in S
  <2>1. Rank(R, S, p[j]) = j - 1 /\ Rank(R, S, p[k]) = k - 1 /\ p[j] \in S /\ p[k] \in S
    BY <1>3
  <2>2. <<p[j], p[k]>> \in R <=> j - 1 < k - 1
    BY Zenon, <1>2, <2>1
  <2> QED
    BY <2>2
<1> QED
  BY <1>4, <1>5

\* What is in order can be put in order.
LEMMA RanksFound ==
    ASSUME NEW n \in Nat, NEW S, NEW R, NEW k \in S, S = 1..n, Orders(R, S)
    PROVE  HasRank(R, S, k - 1)
<1>1. IsFiniteSet(S) /\ Cardinality(S) = n
  <2>1. IsFiniteSet(S) /\ Cardinality(S) = IF 1 > n THEN 0 ELSE n - 1 + 1
    BY FS_Interval
  <2> QED
    BY <2>1
<1>2. Ranked(R, S)
  BY <1>1, Ranks
<1>3. k - 1 \in 0..(n - 1)
  OBVIOUS
<1>4. \A m \in 0..(n - 1) : \E j \in S : Rank(R, S, j) = m
  BY Zenon, <1>1, <1>2 DEF Ranked
<1> QED
  BY Zenon, <1>3, <1>4 DEF HasRank

-----------------------------------------------------------------------------
(* Labels, features and splits of failure datasets: each stage keeps the   *)
(* rows that were given, in another order and with what they were given by *)
(* the stages before, and what is added to a row hangs on earlier ones.    *)

\* The module of the labels counts and sums as this one does.
LEMMA LabelsCount ==
    /\ \A S : Labels!Cardinality(S) = Cardinality(S)
    /\ \A f : Labels!SumFunction(f) = SumFunctionOnSet(f, DOMAIN f)
    /\ \A f : Labels!Range(f) = {f[x] : x \in DOMAIN f}
<1>1. \A S : Labels!Cardinality(S) = Cardinality(S)
  BY Zenon DEF Labels!Cardinality, Cardinality
<1>2. \A f, S : Labels!SumFunctionOnSet(f, S) = SumFunctionOnSet(f, S)
  BY Zenon DEF Labels!SumFunctionOnSet, SumFunctionOnSet, Labels!FoldFunctionOnSet, FoldFunctionOnSet,
               Labels!MapThenFoldSet, MapThenFoldSet
<1>3. \A f : Labels!SumFunction(f) = Labels!SumFunctionOnSet(f, DOMAIN f)
  BY Zenon DEF Labels!SumFunction
<1>4. \A f : Labels!Range(f) = {f[x] : x \in DOMAIN f}
  BY Zenon DEF Labels!Range
<1> QED
  BY <1>1, <1>2, <1>3, <1>4

Numbered(s, n) == DOMAIN s = 1..n /\ \A k \in 1..n : s[k].equipment \in Int /\ s[k].time \in Int

Permuted(t, s, n) ==
    /\ DOMAIN t = 1..n
    /\ \E p \in [1..n -> 1..n] : \A k \in 1..n :
           t[k] = s[p[k]] /\ \A j \in 1..n : p[j] = p[k] => j = k

\* A dataset is its rows in another order, by equipment and time.
LEMMA DatasetIsSorted ==
    ASSUME NEW n \in Nat, NEW s, Numbered(s, n), Labels!DatasetAccepted(s)
    PROVE  /\ Permuted(Labels!SortedDataset(s), s, n)
           /\ Labels!InOrder(Labels!SortedDataset(s))
<1> DEFINE S == DOMAIN s
           t == Labels!SortedDataset(s)
           First(i, j) == \/ s[i].equipment < s[j].equipment
                          \/ s[i].equipment = s[j].equipment /\ s[i].time < s[j].time
           R == {x \in S \X S : First(x[1], x[2])}
           p == [k \in S |-> CHOOSE j \in S : Labels!Cardinality({i \in S : First(i, j)}) = k - 1]
<1>0. S = 1..n
  BY DEF Numbered
<1>1. \A i, j \in S : <<i, j>> \in R <=> First(i, j)
  OBVIOUS
<1>2. t = [k \in S |-> s[CHOOSE j \in S : Labels!Cardinality({i \in S : First(i, j)}) = k - 1]]
  BY Zenon DEF Labels!SortedDataset
<1>3. DOMAIN t = S /\ \A k \in S : t[k] = s[p[k]]
  BY Zenon, <1>2
<1> HIDE DEF R
<1>4. Orders(R, S)
  <2>1. \A k \in S : s[k].equipment \in Int /\ s[k].time \in Int
    BY <1>0 DEF Numbered
  <2>2. \A i, j \in S : i = j \/ First(i, j) \/ First(j, i)
    <3> TAKE i, j \in S
    <3>1. s[i].equipment = s[j].equipment /\ s[i].time = s[j].time => i = j
      BY DEF Labels!DatasetAccepted
    <3> QED
      BY <2>1, <3>1
  <2>3. \A i \in S : ~First(i, i)
    BY <2>1
  <2>4. \A i, j, k \in S : First(i, j) /\ First(j, k) => First(i, k)
    BY <2>1
  <2> HIDE DEF First, S
  <2> QED
    BY Zenon, <1>1, <2>2, <2>3, <2>4 DEF Orders
<1>5. \A j \in S : Labels!Cardinality({i \in S : First(i, j)}) = Rank(R, S, j)
  <2> TAKE j \in S
  <2> HIDE DEF First, S
  <2>1. {i \in S : First(i, j)} = Earlier(R, S, j)
    BY <1>1 DEF Earlier
  <2> QED
    BY <2>1, LabelsCount DEF Rank
<1>6. \A k \in S : p[k] \in S /\ Rank(R, S, p[k]) = k - 1
  <2> TAKE k \in S
  <2> HIDE DEF First, S
  <2>1. HasRank(R, S, k - 1)
    BY Zenon, <1>0, <1>4, RanksFound
  <2>2. \E j \in S : Labels!Cardinality({i \in S : First(i, j)}) = k - 1
    BY <2>1, <1>5 DEF HasRank
  <2>3. p[k] \in S /\ Labels!Cardinality({i \in S : First(i, p[k])}) = k - 1
    BY Zenon, <2>2
  <2> QED
    BY <2>3, <1>5
<1>7. p \in [S -> S]
  <2>1. \A k \in S : (CHOOSE j \in S : Labels!Cardinality({i \in S : First(i, j)}) = k - 1) \in S
    BY Zenon, <1>6
  <2> HIDE DEF S, First
  <2> QED
    BY Zenon, <2>1
<1> HIDE DEF p, t
<1>8. /\ \A j, k \in S : p[j] = p[k] => j = k
      /\ \A j, k \in S : j < k <=> <<p[j], p[k]>> \in R
  BY Zenon, <1>0, <1>4, <1>6, Sorting
<1>9. Labels!InOrder(t)
  <2>1. \A j, k \in S : j < k <=> First(p[j], p[k])
    BY Zenon, <1>1, <1>6, <1>8
  <2>2. \A j, k \in S :
          j < k <=> \/ t[j].equipment < t[k].equipment
                    \/ t[j].equipment = t[k].equipment /\ t[j].time < t[k].time
    BY <1>3, <2>1
  <2> QED
    BY Zenon, <2>2, <1>3 DEF Labels!InOrder
<1> QED
  BY Zenon, <1>0, <1>3, <1>7, <1>8, <1>9 DEF t, Permuted

\* A set whose members are told apart is counted by what stands for them.
LEMMA CountedBy ==
    ASSUME NEW T, IsFiniteSet(T), NEW f, DOMAIN f = T, \A x, y \in T : f[x] = f[y] => x = y
    PROVE  IsFiniteSet({f[x] : x \in T}) /\ Cardinality({f[x] : x \in T}) = Cardinality(T)
<1> DEFINE V == {f[x] : x \in T}
           g == [x \in T |-> f[x]]
<1>1. g \in Bijection(T, V)
  BY DEF Bijection, Injection, Surjection, IsInjective
<1> HIDE DEF V, g
<1>2. ExistsBijection(T, V)
  BY <1>1 DEF ExistsBijection
<1>3. IsFiniteSet(V) /\ Cardinality(V) = Cardinality(T)
  BY Zenon, <1>1, <1>2, FS_Bijection, FS_SameCardinalityBij
<1> QED
  BY <1>3 DEF V

\* An arrangement of places without repetition leaves none out.
LEMMA NoneLeftOut ==
    ASSUME NEW n \in Nat, NEW p \in [1..n -> 1..n], \A j, k \in 1..n : p[j] = p[k] => j = k
    PROVE  \A m \in 1..n : \E k \in 1..n : p[k] = m
<1>1. IsFiniteSet(1..n)
  BY FS_Interval
<1>2. p \in Injection(1..n, 1..n)
  BY DEF Injection, IsInjective
<1>3. p \in Surjection(1..n, 1..n)
  BY <1>1, <1>2, FS_Injection
<1> QED
  BY <1>3 DEF Surjection

\* The rows of the equipment of a row above it.
Above(s, k) == {j \in 1..(k - 1) : s[j].equipment = s[k].equipment}

Arranged(s, obs, n, p) ==
    /\ p \in [1..n -> 1..n] /\ DOMAIN s = 1..n /\ DOMAIN obs = 1..n
    /\ \A k \in 1..n : Labels!Agree(s[k], obs[p[k]])
    /\ \A j, k \in 1..n : p[j] = p[k] => j = k

\* They are later the nearer they are.
LEMMA AboveFacts ==
    ASSUME NEW n \in Nat, NEW s, Numbered(s, n), Labels!InOrder(s), NEW k \in 1..n
    PROVE  /\ IsFiniteSet(Above(s, k)) /\ Above(s, k) \subseteq 1..n
           /\ \A j \in 1..n : j \in Above(s, k) <=>
                  s[j].equipment = s[k].equipment /\ s[j].time < s[k].time
           /\ \A i, j \in Above(s, k) : i > j <=> s[i].time > s[j].time
           /\ \A j \in Above(s, k) : Labels!Between(s, j, k) = {i \in Above(s, k) : i > j}
<1>1. IsFiniteSet(Above(s, k))
  <2>1. IsFiniteSet(1..(k - 1))
    BY FS_Interval
  <2>2. Above(s, k) \in SUBSET (1..(k - 1))
    BY DEF Above
  <2> QED
    BY <2>1, <2>2, FS_Subset
<1>2. \A i, j \in 1..n : i < j <=> \/ s[i].equipment < s[j].equipment
                                   \/ s[i].equipment = s[j].equipment /\ s[i].time < s[j].time
  BY DEF Labels!InOrder, Numbered
<1>3. Above(s, k) \subseteq 1..n /\ \A i \in Above(s, k) : i < k /\ s[i].equipment = s[k].equipment
  BY DEF Above
<1>4. \A j \in 1..n : j \in Above(s, k) <=> s[j].equipment = s[k].equipment /\ s[j].time < s[k].time
  <2> TAKE j \in 1..n
  <2>1. j \in Above(s, k) <=> j < k /\ s[j].equipment = s[k].equipment
    BY DEF Above
  <2> QED
    BY <2>1, <1>2 DEF Numbered
<1>5. \A i, j \in Above(s, k) : i > j <=> s[i].time > s[j].time
  BY <1>2, <1>3 DEF Numbered
<1>6. \A j \in Above(s, k) : Labels!Between(s, j, k) = {i \in Above(s, k) : i > j}
  BY DEF Labels!Between, Above
<1> QED
  BY <1>1, <1>3, <1>4, <1>5, <1>6

\* The observations of the past are those of the rows above, one for each.
PastShown(s, p, k) ==
    /\ Cardinality(Labels!Past(s[k])) = Cardinality(Above(s, k))
    /\ \A j \in Above(s, k) :
           /\ input.observations[p[j]] \in Labels!Past(s[k])
           /\ Cardinality({q \in Labels!Past(s[k]) : q.time > input.observations[p[j]].time})
                  = Cardinality(Labels!Between(s, j, k))

\* So it is for the rows in order.
LEMMA PastFacts ==
    ASSUME NEW n \in Nat, NEW s, NEW p, Arranged(s, input.observations, n, p), Numbered(s, n),
           Labels!InOrder(s), NEW k \in 1..n
    PROVE  PastShown(s, p, k)
<1> DEFINE B == Above(s, k)
           o == [j \in 1..n |-> input.observations[p[j]]]
           past == Labels!Past(s[k])
<1>1. \A j \in 1..n : /\ o[j] = input.observations[p[j]]
                      /\ o[j].equipment = s[j].equipment /\ o[j].time = s[j].time
  BY DEF Arranged, Labels!Agree
<1>2. {o[j] : j \in 1..n} = Labels!Range(input.observations)
  <2>1. /\ p \in [1..n -> 1..n] /\ DOMAIN input.observations = 1..n
        /\ \A i, j \in 1..n : p[i] = p[j] => i = j
    BY DEF Arranged
  <2>2. \A m \in 1..n : \E j \in 1..n : p[j] = m
    BY Zenon, <2>1, NoneLeftOut
  <2>3. Labels!Range(input.observations) = {input.observations[m] : m \in 1..n}
    BY <2>1, LabelsCount
  <2> HIDE DEF o
  <2>4. \A j \in 1..n : p[j] \in 1..n /\ o[j] = input.observations[p[j]]
    BY <2>1, <1>1
  <2>5. ASSUME NEW m \in 1..n PROVE input.observations[m] \in {o[j] : j \in 1..n}
    <3>1. PICK j \in 1..n : p[j] = m
      BY <2>2
    <3> QED
      BY <2>4, <3>1
  <2>6. ASSUME NEW j \in 1..n PROVE o[j] \in {input.observations[m] : m \in 1..n}
    BY <2>4
  <2> QED
    BY <2>3, <2>5, <2>6
<1> HIDE DEF o
<1>3. /\ IsFiniteSet(B) /\ B \subseteq 1..n
      /\ \A j \in 1..n : j \in B <=> s[j].equipment = s[k].equipment /\ s[j].time < s[k].time
      /\ \A i, j \in B : i > j <=> s[i].time > s[j].time
      /\ \A j \in B : Labels!Between(s, j, k) = {i \in B : i > j}
  BY AboveFacts
<1>4. \A j \in 1..n : s[j].time \in Int
  BY DEF Numbered
<1> HIDE DEF B
<1>5. past = {q \in Labels!Range(input.observations) :
                  q.equipment = s[k].equipment /\ q.time < s[k].time}
  BY DEF Labels!Past
<1> HIDE DEF past
<1>6. past = {o[j] : j \in B}
  <2>1. ASSUME NEW q \in past PROVE q \in {o[j] : j \in B}
    <3>1. PICK j \in 1..n : q = o[j]
      BY <1>2, <1>5
    <3>2. j \in B
      BY <1>1, <1>3, <1>5, <3>1
    <3> QED
      BY <3>1, <3>2
  <2>2. ASSUME NEW j \in B PROVE o[j] \in past
    <3>1. j \in 1..n /\ o[j] \in Labels!Range(input.observations)
      BY <1>2, <1>3
    <3>2. o[j].equipment = s[k].equipment /\ o[j].time < s[k].time
      BY <1>1, <1>3, <3>1
    <3> QED
      BY <1>5, <3>1, <3>2
  <2> QED
    BY Zenon, <2>1, <2>2
<1>7. \A i, j \in B : o[i] = o[j] => i = j
  <2> SUFFICES ASSUME NEW i \in B, NEW j \in B, o[i] = o[j] PROVE i = j
    OBVIOUS
  <2>1. s[i].time = s[j].time
    BY <1>1, <1>3
  <2>2. ~(i > j) /\ ~(j > i) /\ i \in Int /\ j \in Int
    BY <1>3, <1>4, <2>1
  <2> QED
    BY <2>2
<1>8. ASSUME NEW T, T \subseteq B PROVE Cardinality({o[j] : j \in T}) = Cardinality(T)
  <2> DEFINE f == [j \in T |-> o[j]]
  <2>1. IsFiniteSet(T)
    BY <1>3, <1>8, FS_Subset
  <2>2. DOMAIN f = T /\ \A i, j \in T : f[i] = f[j] => i = j
    BY <1>7, <1>8
  <2>3. {f[j] : j \in T} = {o[j] : j \in T}
    OBVIOUS
  <2> HIDE DEF f
  <2>4. Cardinality({f[j] : j \in T}) = Cardinality(T)
    BY <2>1, <2>2, CountedBy
  <2> QED
    BY <2>3, <2>4
<1>9. Cardinality(past) = Cardinality(B)
  BY <1>6, <1>8
<1>10. ASSUME NEW j \in B
       PROVE  /\ input.observations[p[j]] \in past
              /\ Cardinality({q \in past : q.time > input.observations[p[j]].time})
                     = Cardinality(Labels!Between(s, j, k))
  <2> DEFINE T == {i \in B : i > j}
  <2>1. o[j] = input.observations[p[j]] /\ o[j] \in past
    BY <1>1, <1>3, <1>6
  <2>2. \A i \in B : o[i].time > o[j].time <=> i > j
    BY <1>1, <1>3
  <2>3. {q \in past : q.time > o[j].time} = {o[i] : i \in T}
    BY <1>6, <2>2
  <2>4. Cardinality({o[i] : i \in T}) = Cardinality(T)
    <3>1. T \subseteq B
      OBVIOUS
    <3> HIDE DEF T
    <3> QED
      BY <3>1, <1>8
  <2> QED
    BY <1>3, <2>1, <2>3, <2>4
<1> QED
  BY <1>9, <1>10 DEF past, B, PastShown

\* What is so many rows above is missing only where there are too few.
LEMMA ShiftedFacts ==
    ASSUME NEW n \in Nat, NEW s, Numbered(s, n), Labels!InOrder(s), NEW k \in 1..n,
           NEW lag \in Nat \ {0}
    PROVE  /\ Cardinality(Above(s, k)) < lag => Labels!Shifted(s, k, lag) = None
           /\ Cardinality(Above(s, k)) >= lag =>
                  \E j \in Above(s, k) : /\ Cardinality(Labels!Between(s, j, k)) = lag - 1
                                         /\ Labels!Shifted(s, k, lag) = s[j].value
<1> DEFINE B == Above(s, k)
           R == {x \in B \X B : x[1] > x[2]}
           places == {j \in 1..(k - 1) : /\ s[j].equipment = s[k].equipment
                                         /\ Labels!Cardinality(Labels!Between(s, j, k)) = lag - 1}
<1>1. /\ IsFiniteSet(B) /\ B \subseteq 1..n
      /\ \A j \in B : Labels!Between(s, j, k) = {i \in B : i > j}
  BY AboveFacts
<1>2. places = {j \in B : Cardinality(Labels!Between(s, j, k)) = lag - 1}
  BY LabelsCount DEF Above
<1>3. Labels!Shifted(s, k, lag) = IF places = {} THEN None ELSE s[CHOOSE j \in places : TRUE].value
  BY Zenon DEF Labels!Shifted
<1> HIDE DEF places, B
<1>4. \A i, j \in B : <<i, j>> \in R <=> i > j
  OBVIOUS
<1> HIDE DEF R
<1>5. Orders(R, B)
  <2>1. \A i \in B : i \in Int
    BY <1>1
  <2>2. \A i, j, l \in B : ~(i > i) /\ (i = j \/ i > j \/ j > i) /\ (i > j /\ j > l => i > l)
    BY <2>1
  <2> QED
    BY Zenon, <1>4, <2>2 DEF Orders
<1>6. Ranked(R, B)
  BY Zenon, <1>1, <1>5, Ranks
<1>7. \A j \in B : Rank(R, B, j) = Cardinality(Labels!Between(s, j, k))
  <2> TAKE j \in B
  <2>1. Earlier(R, B, j) = {i \in B : i > j}
    BY <1>4 DEF Earlier
  <2> QED
    BY <1>1, <2>1 DEF Rank
<1>8. Cardinality(B) \in Nat
  BY <1>1, FS_CardinalityType
<1>9. CASE Cardinality(B) < lag
  <2>1. \A j \in B : Rank(R, B, j) \in 0..(Cardinality(B) - 1)
    BY Zenon, <1>6 DEF Ranked
  <2>2. \A j \in B : Rank(R, B, j) # lag - 1
    BY <2>1, <1>8, <1>9
  <2>3. places = {}
    BY <1>2, <1>7, <2>2
  <2>4. ~ (Cardinality(B) >= lag)
    BY <1>8, <1>9
  <2>5. Labels!Shifted(s, k, lag) = None
    BY Zenon, <1>3, <2>3
  <2> QED
    BY Zenon, <2>4, <2>5 DEF B
<1>10. CASE Cardinality(B) >= lag
  <2>1. lag - 1 \in 0..(Cardinality(B) - 1)
    BY <1>8, <1>10
  <2>2. \E j \in B : Rank(R, B, j) = lag - 1
    BY Zenon, <1>6, <2>1 DEF Ranked
  <2>3. places # {}
    BY <1>2, <1>7, <2>2
  <2>4. PICK j \in places : Labels!Shifted(s, k, lag) = s[j].value
    BY <1>3, <2>3
  <2>5. j \in B /\ Cardinality(Labels!Between(s, j, k)) = lag - 1
    BY <1>2, <2>4
  <2> QED
    BY <1>8, <1>10, <2>4, <2>5 DEF B
<1> QED
  BY <1>8, <1>9, <1>10 DEF B

\* The rows are the observations in some order, with numbers in their columns.
LEMMA LabelRows ==
    ASSUME Labels!LabelsInv, Labels!Rearranged(state.rows, input.observations)
    PROVE  \E n \in Nat : \E p : Arranged(state.rows, input.observations, n, p) /\ Numbered(state.rows, n)
<1> DEFINE n == Len(input.observations)
           s == state.rows
<1>1. /\ n \in Nat /\ DOMAIN input.observations = 1..n
      /\ \A k \in 1..n : input.observations[k].equipment \in Int
  BY LabelsConstants DEF Labels!LabelsInv, Labels!LabelsFit
<1> HIDE DEF n
<1>2. PICK p \in [DOMAIN s -> DOMAIN s] :
          \A k \in DOMAIN s : /\ Labels!Agree(s[k], input.observations[p[k]])
                              /\ \A j \in DOMAIN s : p[j] = p[k] => j = k
  BY Zenon DEF Labels!Rearranged
<1>3. DOMAIN s = 1..n
  BY <1>1 DEF Labels!Rearranged
<1> HIDE DEF s
<1>4. Arranged(s, input.observations, n, p)
  BY Zenon, <1>1, <1>2, <1>3 DEF Arranged
<1>5. \A k \in 1..n : s[k].equipment \in Int /\ s[k].time \in Int
  <2> TAKE k \in 1..n
  <2>1. Labels!Agree(s[k], input.observations[p[k]]) /\ p[k] \in 1..n
    BY <1>2, <1>3
  <2> QED
    BY <1>1, <2>1 DEF Labels!Agree
<1>6. Numbered(s, n)
  BY Zenon, <1>3, <1>5 DEF Numbered
<1> QED
  BY Zenon, <1>1, <1>4, <1>6 DEF s

\* The sum of one number is that number.
LEMMA OneSummand ==
    ASSUME NEW f, DOMAIN f = 1..1, f[1] \in Int
    PROVE  Labels!SumFunction(f) = f[1]
<1> DEFINE S == {1}
<1>1. 1..1 = S /\ S \ {1} = {}
  OBVIOUS
<1>2. IsFiniteSet(S) /\ IsFiniteSet({})
  BY FS_EmptySet, FS_Singleton
<1>3. \A x \in {} : f[x] \in Int
  OBVIOUS
<1>4. SumFunctionOnSet(f, {}) = 0
  BY <1>2, <1>3, SumFacts
<1>5. \A x \in S : f[x] \in Int
  OBVIOUS
<1> HIDE DEF S
<1>6. \A x \in S : SumFunctionOnSet(f, S) = f[x] + SumFunctionOnSet(f, S \ {x})
  BY <1>2, <1>5, SumFacts
<1>7. SumFunctionOnSet(f, S) = f[1] + 0
  BY <1>1, <1>4, <1>6 DEF S
<1>8. Labels!SumFunction(f) = SumFunctionOnSet(f, S)
  BY <1>1, LabelsCount
<1> QED
  BY <1>7, <1>8

\* A feature is of the observations just before the row's, whatever the order
\* they came in: AddFeatures on the sorted rows.
LEMMA FeaturesShow ==
    ASSUME Labels!LabelsInv PROVE Labels!FeaturesSeeThePast
<1> DEFINE s == state.rows
<1> SUFFICES ASSUME state.phase \in {"features", "split"}, NEW k \in DOMAIN s
             PROVE  LET row == s[k] IN
                    IF Labels!Cardinality(Labels!Past(row)) < input.lag
                    THEN row.lagged = None /\ row.rolling = None
                    ELSE \E o \in Labels!Past(row) :
                             /\ Labels!Cardinality({q \in Labels!Past(row) : q.time > o.time}) = input.lag - 1
                             /\ row.lagged = o.value
                             /\ input.lag = 1 => row.rolling = o.value /\ row.delta = row.value - o.value
  BY Zenon DEF Labels!FeaturesSeeThePast
<1>1. /\ Labels!Rearranged(s, input.observations) /\ Labels!InOrder(s)
      /\ s[k].lagged = Labels!Shifted(s, k, input.lag)
      /\ s[k].delta = Labels!Delta(s, k)
      /\ s[k].rolling = Labels!RollingSum(s, k, input.lag)
  BY DEF Labels!LabelsInv, Labels!Featured
<1>2. input.lag \in Nat \ {0}
  <2>1. input.lag >= 1 /\ input \in LabelInputs
    BY DEF Labels!LabelsInv
  <2>2. input.lag \in Int
    BY <2>1, LabelsConstants DEF Labels!LabelsFit
  <2> QED
    BY <2>1, <2>2
<1>0. PICK n \in Nat : \E p : Arranged(s, input.observations, n, p) /\ Numbered(s, n)
  BY <1>1, LabelRows
<1>3. PICK p : Arranged(s, input.observations, n, p) /\ Numbered(s, n)
  BY <1>0
<1> HIDE DEF s
<1>4. k \in 1..n
  BY <1>3 DEF Arranged
<1>11. PastShown(s, p, k)
  <2>1. /\ Arranged(s, input.observations, n, p) /\ Numbered(s, n)
        /\ Labels!InOrder(s) /\ n \in Nat /\ k \in 1..n
    BY <1>1, <1>3, <1>4
  <2> QED
    BY Zenon, <2>1, PastFacts
<1> DEFINE past == Labels!Past(s[k])
           B == Above(s, k)
           lag == input.lag
           obs == input.observations
<1>5. /\ Cardinality(past) = Cardinality(B)
      /\ \A j \in B : /\ obs[p[j]] \in past
                      /\ Cardinality({q \in past : q.time > obs[p[j]].time})
                             = Cardinality(Labels!Between(s, j, k))
  BY <1>11 DEF PastShown
<1>6. /\ Cardinality(B) < lag => Labels!Shifted(s, k, lag) = None
      /\ Cardinality(B) >= lag =>
             \E j \in B : /\ Cardinality(Labels!Between(s, j, k)) = lag - 1
                          /\ Labels!Shifted(s, k, lag) = s[j].value
  <2>1. /\ Numbered(s, n) /\ Labels!InOrder(s) /\ n \in Nat /\ k \in 1..n
        /\ input.lag \in Nat \ {0}
    BY <1>1, <1>2, <1>3, <1>4
  <2> QED
    BY <2>1, ShiftedFacts
<1>7. IsFiniteSet(B) /\ B \subseteq 1..n
  BY <1>1, <1>3, <1>4, AboveFacts
<1>8. Cardinality(B) \in Nat
  BY <1>7, FS_CardinalityType
<1> HIDE DEF past, B, lag, obs
<1>9. CASE Cardinality(B) < lag
  <2>1. s[k].lagged = None /\ s[k].rolling = None
    BY <1>1, <1>6, <1>9 DEF Labels!RollingSum, lag
  <2> QED
    BY <1>5, <1>9, <2>1, LabelsCount DEF past, lag
<1>10. CASE Cardinality(B) >= lag
  <2>1. PICK j \in B : /\ Cardinality(Labels!Between(s, j, k)) = lag - 1
                       /\ Labels!Shifted(s, k, lag) = s[j].value
    BY <1>6, <1>10
  <2> DEFINE o == obs[p[j]]
  <2>2. o.value = s[j].value
    BY <1>3, <1>7 DEF Arranged, Labels!Agree, obs
  <2>3. o \in past /\ Cardinality({q \in past : q.time > o.time}) = lag - 1
    BY <1>5, <2>1
  <2>4. o.value \in Int
    <3>1. p[j] \in 1..n /\ DOMAIN obs = 1..n /\ input \in LabelInputs
      BY <1>3, <1>7 DEF Arranged, obs, Labels!LabelsInv
    <3> QED
      BY <3>1, LabelsConstants DEF Labels!LabelsFit, obs
  <2> HIDE DEF o
  <2>5. s[k].lagged = o.value
    BY <1>1, <2>1, <2>2 DEF lag
  <2>6. ASSUME lag = 1 PROVE s[k].rolling = o.value /\ s[k].delta = s[k].value - o.value
    <3> DEFINE f == [i \in 1..1 |-> Labels!Shifted(s, k, i)]
    <3>1. Labels!Shifted(s, k, 1) = o.value /\ o.value # None
      BY <2>1, <2>2, <2>4, <2>6, LabelsConstants DEF Labels!LabelsFit
    <3>2. s[k].rolling = Labels!SumFunction(f)
      BY <1>1, <2>6, <3>1 DEF Labels!RollingSum, lag
    <3>3. DOMAIN f = 1..1 /\ f[1] = o.value
      BY <3>1
    <3> HIDE DEF f
    <3>4. Labels!SumFunction(f) = o.value
      BY <2>4, <3>3, OneSummand
    <3> QED
      BY <1>1, <3>1, <3>2, <3>4 DEF Labels!Delta
  <2>7. ~ (Labels!Cardinality(past) < lag)
    BY <1>5, <1>8, <1>10, <1>2, LabelsCount DEF lag
  <2>8. Labels!Cardinality({q \in past : q.time > o.time}) = lag - 1
    BY <2>3, LabelsCount
  <2> QED
    BY <2>3, <2>5, <2>6, <2>7, <2>8 DEF past, lag
<1> QED
  BY <1>2, <1>8, <1>9, <1>10 DEF lag

\* Each number up to that of the times is that of the times up to one of them.
Upto(T, t) == Cardinality({u \in T : u <= t})

LEMMA TimesFacts ==
    ASSUME NEW T, T \subseteq Int, IsFiniteSet(T)
    PROVE  /\ \A t \in T : Upto(T, t) \in 1..Cardinality(T)
           /\ \A t, u \in T : t < u <=> Upto(T, t) < Upto(T, u)
           /\ \A m \in 1..Cardinality(T) : \E t \in T : Upto(T, t) = m
<1> DEFINE R == {x \in T \X T : x[1] < x[2]}
<1>1. \A t, u \in T : <<t, u>> \in R <=> t < u
  OBVIOUS
<1> HIDE DEF R
<1>2. Orders(R, T)
  <2>1. \A i, j, l \in T : ~(i < i) /\ (i = j \/ i < j \/ j < i) /\ (i < j /\ j < l => i < l)
    OBVIOUS
  <2> QED
    BY Zenon, <1>1, <2>1 DEF Orders
<1>3. Ranked(R, T)
  BY Zenon, <1>2, Ranks
<1>4. Cardinality(T) \in Nat
  BY FS_CardinalityType
<1>5. \A t \in T : Upto(T, t) = Rank(R, T, t) + 1
  <2> TAKE t \in T
  <2> DEFINE E == Earlier(R, T, t)
  <2>0. E = {u \in T : u < t}
    BY <1>1 DEF Earlier
  <2> HIDE DEF E
  <2>1. {u \in T : u <= t} = E \cup {t} /\ t \notin E /\ E \in SUBSET T
    <3>1. \A u \in T : u <= t <=> u < t \/ u = t
      OBVIOUS
    <3>2. ~ (t < t)
      OBVIOUS
    <3> QED
      BY Zenon, <2>0, <3>1, <3>2
  <2>2. IsFiniteSet(E)
    BY <2>1, FS_Subset
  <2>3. Cardinality(E \cup {t}) = Cardinality(E) + 1
    BY <2>1, <2>2, FS_AddElement
  <2> QED
    BY <2>1, <2>3 DEF Upto, Rank, E
<1>6. \A t \in T : Rank(R, T, t) \in 0..(Cardinality(T) - 1)
  BY Zenon, <1>3 DEF Ranked
<1>7. \A t \in T : Upto(T, t) \in 1..Cardinality(T)
  BY <1>4, <1>5, <1>6
<1>8. \A t, u \in T : t < u <=> Upto(T, t) < Upto(T, u)
  <2> TAKE t, u \in T
  <2>1. t < u <=> Rank(R, T, t) < Rank(R, T, u)
    BY Zenon, <1>1, <1>3 DEF Ranked
  <2>2. Rank(R, T, t) \in Int /\ Rank(R, T, u) \in Int
    BY <1>6
  <2> QED
    BY <1>5, <2>1, <2>2
<1>9. ASSUME NEW m \in 1..Cardinality(T) PROVE \E t \in T : Upto(T, t) = m
  <2>1. m - 1 \in 0..(Cardinality(T) - 1)
    BY <1>4
  <2>2. PICK t \in T : Rank(R, T, t) = m - 1
    BY Zenon, <1>3, <2>1 DEF Ranked
  <2> QED
    BY <1>5, <2>2
<1> QED
  BY <1>7, <1>8, <1>9

\* A share of a number is less than it.
LEMMA Shares ==
    ASSUME NEW c \in Nat \ {0}, NEW share \in 1..98
    PROVE  (c * share) \div 100 \in 0..(c - 1)
<1> DEFINE v == c * share
           q == v \div 100
<1>1. v \in Nat /\ v <= c * 98
  OBVIOUS
<1> HIDE DEF v
<1>2. q \in Nat /\ 100 * q <= v
  BY <1>1
<1> HIDE DEF q
<1>3. q < c
  BY <1>1, <1>2
<1> QED
  BY <1>2, <1>3 DEF q, v

\* What is trained on is before what is validated and tested on, whatever the
\* shares: split_chronologically gives each of the three a place in the times.
LEMMA SplitsShow ==
    ASSUME Labels!LabelsInv PROVE Labels!SplitsAreApart
<1> DEFINE s == state.rows
           T == Labels!Times(s)
           c == Cardinality(T)
           q == (c * input.train) \div 100
           r == (c * (input.train + input.validation)) \div 100
           train == Labels!Larger(1, q)
           validation == Labels!Smaller(c - 1, Labels!Larger(train + 1, r))
           trainEnd == Labels!NthTime(s, train)
           validationEnd == Labels!NthTime(s, validation)
           Rows == Labels!Range(s)
<1> SUFFICES ASSUME state.split # None
             PROVE  LET x == state.split IN
                    /\ x.train \cup x.validation \cup x.test = Labels!Range(state.rows)
                    /\ \A a \in x.train, b \in x.validation, d \in x.test :
                           a.time < b.time /\ b.time < d.time
                    /\ \A a \in x.train, d \in x.test : a.time < d.time
                    /\ x.train # {} /\ x.test # {}
  BY Zenon DEF Labels!SplitsAreApart
<1>1. /\ Labels!Rearranged(s, input.observations)
      /\ Labels!SplitAccepted(s) /\ state.split = Labels!ChronologicalSplit(s)
  BY DEF Labels!LabelsInv
<1>2. PICK n \in Nat : \E p : Arranged(s, input.observations, n, p) /\ Numbered(s, n)
  BY <1>1, LabelRows
<1>3. DOMAIN s = 1..n /\ \A k \in 1..n : s[k].time \in Int
  BY <1>2 DEF Numbered
<1>4. Labels!ChronologicalSplit(s) =
          [train |-> {row \in Rows : row.time <= trainEnd},
           validation |-> {row \in Rows : trainEnd < row.time /\ row.time <= validationEnd},
           test |-> {row \in Rows : row.time > validationEnd}]
  BY Zenon, LabelsCount DEF Labels!ChronologicalSplit
<1> HIDE DEF s
<1>5. Rows = {s[k] : k \in 1..n} /\ T = {s[k].time : k \in 1..n}
  BY <1>3, LabelsCount DEF Labels!Times
<1>6. T \subseteq Int /\ IsFiniteSet(T)
  <2> DEFINE f == [k \in 1..n |-> s[k].time]
  <2>1. IsFiniteSet(1..n) /\ DOMAIN f = 1..n
    BY FS_Interval
  <2>2. T = {f[k] : k \in 1..n}
    BY <1>5
  <2> HIDE DEF f, T
  <2>3. IsFiniteSet(T)
    BY <2>1, <2>2, FiniteValues
  <2> QED
    BY <1>3, <1>5, <2>3
<1>7. /\ \A row \in Rows : row.time \in T /\ row.time \in Int
      /\ \A t \in T : \E row \in Rows : row.time = t
  BY <1>3, <1>5
<1> HIDE DEF T, Rows
<1>8. c \in Nat
  BY <1>6, FS_CardinalityType
<1>9. /\ c >= 3 /\ input.train \in 1..98 /\ input.validation \in 1..99
  BY <1>1, LabelsCount DEF Labels!SplitAccepted, T
<1> HIDE DEF c
<1>10. /\ train \in 1..(c - 1) /\ validation \in 1..(c - 1) /\ train <= validation
  <2>1. q \in 0..(c - 1)
    BY <1>8, <1>9, Shares
  <2>2. r \in Int
    <3> DEFINE w == c * (input.train + input.validation)
    <3>1. w \in Int
      BY <1>8, <1>9
    <3> HIDE DEF w
    <3>2. w \div 100 \in Int
      BY <3>1
    <3> QED
      BY <3>2 DEF w
  <2> HIDE DEF q, r
  <2>3. train \in 1..(c - 1)
    BY <1>8, <1>9, <2>1 DEF Labels!Larger
  <2> HIDE DEF train
  <2> QED
    BY <1>8, <1>9, <2>2, <2>3 DEF Labels!Larger, Labels!Smaller
<1>11. /\ \A t \in T : Upto(T, t) \in 1..c
       /\ \A t, u \in T : t < u <=> Upto(T, t) < Upto(T, u)
       /\ \A m \in 1..c : \E t \in T : Upto(T, t) = m
  BY <1>6, TimesFacts DEF c
<1>12. ASSUME NEW m \in 1..c PROVE Labels!NthTime(s, m) \in T /\ Upto(T, Labels!NthTime(s, m)) = m
  <2>1. \E t \in T : Labels!Cardinality({u \in T : u <= t}) = m
    BY <1>11, LabelsCount DEF Upto
  <2>2. Labels!NthTime(s, m) = CHOOSE t \in T : Labels!Cardinality({u \in T : u <= t}) = m
    BY Zenon DEF Labels!NthTime, T
  <2> DEFINE t == Labels!NthTime(s, m)
  <2>3. t \in T /\ Labels!Cardinality({u \in T : u <= t}) = m
    BY Zenon, <2>1, <2>2
  <2> QED
    BY <2>3, LabelsCount DEF Upto
<1> HIDE DEF train, validation
<1>13. train \in 1..c /\ validation \in 1..c /\ c \in 1..c
  BY <1>8, <1>9, <1>10
<1>14. /\ trainEnd \in T /\ Upto(T, trainEnd) = train
       /\ validationEnd \in T /\ Upto(T, validationEnd) = validation
  BY <1>12, <1>13
<1>15. PICK last \in T : Upto(T, last) = c
  BY <1>11, <1>13
<1> HIDE DEF trainEnd, validationEnd
<1>16. trainEnd \in Int /\ validationEnd \in Int /\ last \in Int
  BY <1>6, <1>14, <1>15
<1>17. validationEnd < last
  BY <1>8, <1>10, <1>11, <1>14, <1>15
<1>18. trainEnd <= validationEnd
  <2>1. ~ (Upto(T, validationEnd) < Upto(T, trainEnd))
    BY <1>10, <1>14
  <2>2. ~ (validationEnd < trainEnd)
    BY <1>11, <1>14, <2>1
  <2> QED
    BY <1>16, <2>2
<1> DEFINE x == state.split
<1>19. /\ x.train = {row \in Rows : row.time <= trainEnd}
       /\ x.validation = {row \in Rows : trainEnd < row.time /\ row.time <= validationEnd}
       /\ x.test = {row \in Rows : row.time > validationEnd}
  BY <1>1, <1>4
<1> HIDE DEF x
<1>20. x.train \cup x.validation \cup x.test = Rows
  BY <1>7, <1>16, <1>18, <1>19
<1>21. \A a \in x.train, b \in x.validation, d \in x.test : a.time < b.time /\ b.time < d.time
  BY <1>7, <1>16, <1>19
<1>22. \A a \in x.train, d \in x.test : a.time < d.time
  BY <1>7, <1>16, <1>18, <1>19
<1>23. x.train # {} /\ x.test # {}
  <2>1. PICK a \in Rows : a.time = trainEnd
    BY <1>7, <1>14
  <2>2. PICK d \in Rows : d.time = last
    BY <1>7
  <2>3. a \in x.train /\ d \in x.test
    BY <1>16, <1>17, <1>19, <2>1, <2>2
  <2> QED
    BY <2>3
<1> QED
  BY Zenon, <1>20, <1>21, <1>22, <1>23 DEF x, Rows, s

\* A label tells of a failure ahead within the window: label_failure_windows.
LEMMA LabelsShow ==
    ASSUME Labels!LabelsInv PROVE Labels!LabelsTellWhatIsAhead
<1> DEFINE s == state.rows
           Near(a) == \E f \in Labels!Ahead(a) : f.time - a.time <= input.window
<1> SUFFICES ASSUME state.phase \in {"labelled", "dataset", "features", "split"}
             PROVE  \A a \in Labels!Range(s) :
                        /\ a.label = Near(a)
                        /\ \A b \in Labels!Range(s) :
                               (a.label /\ a.time < b.time /\ Labels!Ahead(b) = Labels!Ahead(a)
                                    /\ Labels!Ahead(a) # {}) => b.label
  BY Zenon DEF Labels!LabelsTellWhatIsAhead
<1>1. Labels!Rearranged(s, input.observations) /\ Labels!Told(s) /\ input \in LabelInputs
  BY DEF Labels!LabelsInv
<1>2. PICK n \in Nat : \E p : Arranged(s, input.observations, n, p) /\ Numbered(s, n)
  BY <1>1, LabelRows
<1>3. DOMAIN s = 1..n /\ \A k \in 1..n : s[k].time \in Int
  BY <1>2 DEF Numbered
<1>4. input.window \in Int /\ \A f \in input.failures : f.time \in Int
  BY <1>1, LabelsConstants DEF Labels!LabelsFit, Labels!Told
<1> HIDE DEF s
<1>5. \A a \in Labels!Range(s) : a.time \in Int /\ a.label = Labels!FailsSoon(a)
  BY Zenon, <1>1, <1>3, LabelsCount DEF Labels!Told
<1>6. ASSUME NEW a, a.time \in Int PROVE Labels!FailsSoon(a) = Near(a)
  BY <1>4, <1>6 DEF Labels!FailsSoon, Labels!Ahead
<1>7. ASSUME NEW a, NEW b, a.time \in Int, b.time \in Int, a.time < b.time,
             Labels!Ahead(b) = Labels!Ahead(a), Near(a)
      PROVE  Near(b)
  <2>1. PICK f \in Labels!Ahead(a) : f.time - a.time <= input.window
    BY Zenon, <1>7
  <2>2. f.time \in Int
    BY <1>4 DEF Labels!Ahead
  <2>3. f.time - b.time <= input.window
    BY <1>4, <1>7, <2>1, <2>2
  <2> QED
    BY Zenon, <1>7, <2>3
<1> HIDE DEF Near
<1>8. \A a \in Labels!Range(s) : a.label = Near(a)
  BY Zenon, <1>5, <1>6
<1> QED
  BY Zenon, <1>5, <1>7, <1>8

\* Rows that are arranged are rearranged.
LEMMA Rearranges ==
    ASSUME NEW n, NEW s, NEW obs, NEW p, Arranged(s, obs, n, p)
    PROVE  Labels!Rearranged(s, obs)
BY Zenon DEF Arranged, Labels!Rearranged

\* Labelling leaves the observations where they are.
LEMMA RowsLabelled ==
    ASSUME Labels!LabelsInv, state.phase = "given", Labels!LabelsAccepted(state.rows)
    PROVE  LET t == [k \in DOMAIN state.rows |-> Labels!Labelled(state.rows[k])] IN
           Labels!Rearranged(t, input.observations) /\ Labels!Told(t)
<1> DEFINE n == Len(input.observations)
           obs == input.observations
           s == [k \in DOMAIN obs |-> Labels!Labelled(obs[k])]
           p == [k \in 1..n |-> k]
<1>1. state.rows = obs /\ input \in LabelInputs
  BY DEF Labels!LabelsInv
<1>2. /\ n \in Nat /\ DOMAIN obs = 1..n
      /\ \A k \in 1..n : obs[k].time # None => obs[k].time \in Int
  BY <1>1, LabelsConstants DEF Labels!LabelsFit
<1>3. \A k \in 1..n : obs[k].time # None
  BY <1>1, <1>2 DEF Labels!LabelsAccepted
<1>4. DOMAIN s = 1..n /\ \A k \in 1..n : s[k] = Labels!Labelled(obs[k])
  BY <1>2
<1>5. /\ p \in [1..n -> 1..n] /\ \A k \in 1..n : p[k] = k
  OBVIOUS
<1> HIDE DEF n, obs, s, p
<1>6. \A k \in 1..n : Labels!Agree(s[k], obs[p[k]])
  BY <1>2, <1>3, <1>4, <1>5 DEF Labels!Agree, Labels!Labelled
<1>7. Arranged(s, obs, n, p)
  BY Zenon, <1>2, <1>4, <1>5, <1>6 DEF Arranged
<1>8. Labels!Rearranged(s, obs)
  BY Zenon, <1>7, Rearranges
<1>9. Labels!Told(s)
  <2>1. \A k \in 1..n : s[k].label = Labels!FailsSoon(s[k])
    <3> TAKE k \in 1..n
    <3>1. /\ s[k].label = Labels!FailsSoon(obs[k])
          /\ s[k].equipment = obs[k].equipment /\ s[k].time = obs[k].time
      BY <1>4 DEF Labels!Labelled
    <3>2. Labels!FailsSoon(s[k]) = Labels!FailsSoon(obs[k])
      BY <3>1 DEF Labels!FailsSoon
    <3> QED
      BY Zenon, <3>1, <3>2
  <2> QED
    BY Zenon, <1>4, <2>1 DEF Labels!Told, Labels!LabelsAccepted
<1> QED
  BY Zenon, <1>1, <1>8, <1>9 DEF s, obs

\* Sorting them gives them another place each.
LEMMA RowsSorted ==
    ASSUME Labels!LabelsInv, state.phase = "labelled", Labels!DatasetAccepted(state.rows)
    PROVE  /\ Labels!Rearranged(Labels!SortedDataset(state.rows), input.observations)
           /\ Labels!InOrder(Labels!SortedDataset(state.rows))
           /\ Labels!Told(Labels!SortedDataset(state.rows))
<1> DEFINE s == state.rows
           t == Labels!SortedDataset(s)
           obs == input.observations
<1>1. Labels!Rearranged(s, obs) /\ Labels!Told(s)
  BY DEF Labels!LabelsInv
<1>2. PICK n \in Nat : \E p : Arranged(s, obs, n, p) /\ Numbered(s, n)
  BY <1>1, LabelRows
<1>3. PICK p : Arranged(s, obs, n, p) /\ Numbered(s, n)
  BY <1>2
<1> HIDE DEF obs
<1>4. Permuted(t, s, n) /\ Labels!InOrder(t)
  BY Zenon, <1>3, DatasetIsSorted
<1> HIDE DEF s, t
<1>5. PICK q \in [1..n -> 1..n] : \A k \in 1..n :
          t[k] = s[q[k]] /\ \A j \in 1..n : q[j] = q[k] => j = k
  BY Zenon, <1>4 DEF Permuted
<1> DEFINE r == [k \in 1..n |-> p[q[k]]]
<1>6. /\ p \in [1..n -> 1..n] /\ DOMAIN obs = 1..n
      /\ \A k \in 1..n : Labels!Agree(s[k], obs[p[k]])
      /\ \A j, k \in 1..n : p[j] = p[k] => j = k
  BY <1>3 DEF Arranged
<1>7. \A k \in 1..n : q[k] \in 1..n
  BY <1>5
<1>8. r \in [1..n -> 1..n] /\ \A k \in 1..n : r[k] = p[q[k]]
  BY <1>6, <1>7
<1> HIDE DEF r
<1>9. \A k \in 1..n : Labels!Agree(t[k], obs[r[k]])
  BY <1>5, <1>6, <1>7, <1>8
<1>10. \A j, k \in 1..n : r[j] = r[k] => j = k
  BY <1>5, <1>6, <1>7, <1>8
<1>11. Arranged(t, obs, n, r)
  BY Zenon, <1>4, <1>6, <1>8, <1>9, <1>10 DEF Arranged, Permuted
<1>12. Labels!Told(t)
  <2>1. \A k \in 1..n : t[k] = s[q[k]] /\ q[k] \in DOMAIN s
    BY <1>3, <1>5, <1>7 DEF Arranged
  <2>2. \A k \in 1..n : t[k].label = Labels!FailsSoon(t[k])
    BY <1>1, <2>1 DEF Labels!Told
  <2> QED
    BY Zenon, <1>1, <1>4, <2>2 DEF Labels!Told, Permuted
<1> QED
  BY Zenon, <1>4, <1>11, <1>12, Rearranges DEF s, t, obs

\* Features are added to the rows, which stay as they are.
LEMMA RowsFeatured ==
    ASSUME Labels!LabelsInv, state.phase = "dataset",
           NEW t, t = [k \in DOMAIN state.rows |-> Labels!WithFeatures(state.rows, k)]
    PROVE  /\ Labels!Rearranged(t, input.observations) /\ Labels!InOrder(t)
           /\ Labels!Featured(t, input.lag) /\ Labels!Told(t)
<1> DEFINE s == state.rows
           obs == input.observations
<1>1. Labels!Rearranged(s, obs) /\ Labels!InOrder(s) /\ Labels!Told(s)
  BY DEF Labels!LabelsInv
<1>2. PICK n \in Nat : \E p : Arranged(s, obs, n, p) /\ Numbered(s, n)
  BY <1>1, LabelRows
<1>3. PICK p : Arranged(s, obs, n, p) /\ Numbered(s, n)
  BY <1>2
<1>4. DOMAIN s = 1..n
  BY <1>3 DEF Numbered
<1> HIDE DEF s, obs
<1>5. /\ DOMAIN t = 1..n
      /\ \A k \in 1..n : /\ t[k].equipment = s[k].equipment /\ t[k].time = s[k].time
                         /\ t[k].value = s[k].value /\ t[k].label = s[k].label
                         /\ t[k].lagged = Labels!Shifted(s, k, input.lag)
                         /\ t[k].delta = Labels!Delta(s, k)
                         /\ t[k].rolling = Labels!RollingSum(s, k, input.lag)
  BY <1>4 DEF Labels!WithFeatures, s
<1>6. Labels!Rearranged(t, obs)
  <2>0. \A k \in 1..n : Labels!Agree(s[k], obs[p[k]])
    BY Zenon, <1>3 DEF Arranged
  <2>1. \A k \in 1..n : Labels!Agree(t[k], obs[p[k]])
    <3> TAKE k \in 1..n
    <3>1. /\ t[k].equipment = s[k].equipment /\ t[k].time = s[k].time /\ t[k].value = s[k].value
          /\ Labels!Agree(s[k], obs[p[k]])
      BY Zenon, <1>5, <2>0
    <3> QED
      BY <3>1 DEF Labels!Agree
  <2>2. Arranged(t, obs, n, p)
    BY <1>3, <1>5, <2>1 DEF Arranged
  <2> QED
    BY Zenon, <2>2, Rearranges
<1>7. Labels!InOrder(t)
  <2>1. \A j, k \in 1..n : j < k <=> \/ s[j].equipment < s[k].equipment
                                     \/ s[j].equipment = s[k].equipment /\ s[j].time < s[k].time
    BY Zenon, <1>1, <1>4 DEF Labels!InOrder
  <2>2. \A j, k \in 1..n : j < k <=> \/ t[j].equipment < t[k].equipment
                                     \/ t[j].equipment = t[k].equipment /\ t[j].time < t[k].time
    <3> TAKE j, k \in 1..n
    <3>1. /\ t[j].equipment = s[j].equipment /\ t[k].equipment = s[k].equipment
          /\ t[j].time = s[j].time /\ t[k].time = s[k].time
      BY Zenon, <1>5
    <3>2. j < k <=> \/ s[j].equipment < s[k].equipment
                    \/ s[j].equipment = s[k].equipment /\ s[j].time < s[k].time
      BY Zenon, <2>1
    <3> QED
      BY <3>1, <3>2
  <2>3. DOMAIN t = 1..n
    BY Zenon, <1>5
  <2> SUFFICES ASSUME NEW j \in DOMAIN t, NEW k \in DOMAIN t
               PROVE  j < k <=> \/ t[j].equipment < t[k].equipment
                                \/ t[j].equipment = t[k].equipment /\ t[j].time < t[k].time
    BY Zenon DEF Labels!InOrder
  <2>4. j \in 1..n /\ k \in 1..n
    BY <2>3
  <2> QED
    BY Zenon, <2>2, <2>4
<1>8. ASSUME NEW k \in 1..n, NEW lag PROVE Labels!Shifted(t, k, lag) = Labels!Shifted(s, k, lag)
  <2> DEFINE Places(u) == {j \in 1..(k - 1) : /\ u[j].equipment = u[k].equipment
                                              /\ Labels!Cardinality(Labels!Between(u, j, k)) = lag - 1}
  <2>1. ASSUME NEW j \in 1..(k - 1)
        PROVE  Labels!Between(t, j, k) = Labels!Between(s, j, k) /\ t[j].equipment = s[j].equipment
    <3>1. (j + 1)..(k - 1) \subseteq 1..n /\ j \in 1..n
      OBVIOUS
    <3> QED
      BY <1>5, <3>1 DEF Labels!Between
  <2>2. Places(t) = Places(s)
    BY <1>5, <2>1
  <2>3. \A u : Labels!Shifted(u, k, lag) =
            IF Places(u) = {} THEN None ELSE u[CHOOSE j \in Places(u) : TRUE].value
    BY Zenon DEF Labels!Shifted
  <2>4. Places(s) \subseteq 1..n
    OBVIOUS
  <2> HIDE DEF Places
  <2>5. Places(s) # {} => (CHOOSE j \in Places(s) : TRUE) \in 1..n
    BY <2>4
  <2>6. Labels!Shifted(t, k, lag) = IF Places(t) = {} THEN None ELSE t[CHOOSE j \in Places(t) : TRUE].value
    BY Zenon, <2>3
  <2>7. Labels!Shifted(s, k, lag) = IF Places(s) = {} THEN None ELSE s[CHOOSE j \in Places(s) : TRUE].value
    BY Zenon, <2>3
  <2> DEFINE P == Places(s)
             m == CHOOSE j \in P : TRUE
  <2>8. Labels!Shifted(t, k, lag) = IF P = {} THEN None ELSE t[m].value
    BY <2>2, <2>6
  <2>9. P # {} => t[m].value = s[m].value
    BY <1>5, <2>5
  <2> QED
    BY <2>7, <2>8, <2>9
<1>9. ASSUME NEW k \in 1..n
      PROVE  /\ Labels!Delta(t, k) = Labels!Delta(s, k)
             /\ Labels!RollingSum(t, k, input.lag) = Labels!RollingSum(s, k, input.lag)
  <2> DEFINE F(u) == [j \in 1..input.lag |-> Labels!Shifted(u, k, j)]
  <2>1. F(t) = F(s)
    BY <1>8
  <2> HIDE DEF F
  <2>2. \A u : Labels!RollingSum(u, k, input.lag) =
            IF Labels!Shifted(u, k, input.lag) = None THEN None ELSE Labels!SumFunction(F(u))
    BY Zenon DEF Labels!RollingSum, F
  <2>4. /\ t[k].value = s[k].value /\ Labels!Shifted(t, k, 1) = Labels!Shifted(s, k, 1)
        /\ Labels!Shifted(t, k, input.lag) = Labels!Shifted(s, k, input.lag)
    BY Zenon, <1>5, <1>8
  <2>3. Labels!RollingSum(t, k, input.lag) = Labels!RollingSum(s, k, input.lag)
    BY Zenon, <2>1, <2>2, <2>4
  <2> QED
    BY <2>3, <2>4 DEF Labels!Delta
<1>10. \A k \in 1..n : /\ t[k].lagged = Labels!Shifted(t, k, input.lag)
                       /\ t[k].delta = Labels!Delta(t, k)
                       /\ t[k].rolling = Labels!RollingSum(t, k, input.lag)
  BY <1>5, <1>8, <1>9
<1>11. Labels!Featured(t, input.lag)
  BY Zenon, <1>5, <1>10 DEF Labels!Featured
<1>12. Labels!Told(t)
  <2>1. \A k \in 1..n : Labels!FailsSoon(t[k]) = Labels!FailsSoon(s[k])
    BY <1>5 DEF Labels!FailsSoon
  <2>2. \A k \in 1..n : t[k].label = Labels!FailsSoon(t[k])
    BY Zenon, <1>1, <1>4, <1>5, <2>1 DEF Labels!Told
  <2> QED
    BY Zenon, <1>1, <1>5, <2>2 DEF Labels!Told
<1> QED
  BY Zenon, <1>6, <1>7, <1>11, <1>12 DEF obs

-----------------------------------------------------------------------------
(* Backtests: the folds so far are those of the points so far, and each    *)
(* model that was judged was judged on all of them.                        *)

\* The module of the backtest counts and sums as this one does.
LEMMA BacktestCounts ==
    /\ \A S : Backtest!Cardinality(S) = Cardinality(S)
    /\ \A f : Backtest!SumFunction(f) = SumFunctionOnSet(f, DOMAIN f)
    /\ \A f : Backtest!Range(f) = {f[x] : x \in DOMAIN f}
<1>1. \A S : Backtest!Cardinality(S) = Cardinality(S)
  BY Zenon DEF Backtest!Cardinality, Cardinality
<1>2. \A f, S : Backtest!SumFunctionOnSet(f, S) = SumFunctionOnSet(f, S)
  BY Zenon DEF Backtest!SumFunctionOnSet, SumFunctionOnSet, Backtest!FoldFunctionOnSet, FoldFunctionOnSet,
               Backtest!MapThenFoldSet, MapThenFoldSet
<1>3. \A f : Backtest!SumFunction(f) = Backtest!SumFunctionOnSet(f, DOMAIN f)
  BY Zenon DEF Backtest!SumFunction
<1>4. \A f : Backtest!Range(f) = {f[x] : x \in DOMAIN f}
  BY Zenon DEF Backtest!Range
<1> QED
  BY <1>1, <1>2, <1>3, <1>4

\* Times that are told apart, and in order.
Timed(s, n) == DOMAIN s = 1..n /\ \A k \in 1..n : s[k].time \in Int

Rising(s, n) == \A j, k \in 1..n : j < k <=> s[j].time < s[k].time

\* Sorting puts the rows of a frame in the order of their times.
LEMMA FrameIsSorted ==
    ASSUME NEW n \in Nat, NEW s, Timed(s, n), Backtest!DatasetAccepted(s)
    PROVE  Permuted(Backtest!SortedByTime(s), s, n) /\ Rising(Backtest!SortedByTime(s), n)
<1> DEFINE S == DOMAIN s
           t == Backtest!SortedByTime(s)
           First(i, j) == s[i].time < s[j].time
           R == {x \in S \X S : First(x[1], x[2])}
           p == [k \in S |-> CHOOSE j \in S : Backtest!Cardinality({i \in S : First(i, j)}) = k - 1]
<1>0. S = 1..n
  BY DEF Timed
<1>1. \A i, j \in S : <<i, j>> \in R <=> First(i, j)
  OBVIOUS
<1>2. t = [k \in S |-> s[CHOOSE j \in S : Backtest!Cardinality({i \in S : First(i, j)}) = k - 1]]
  BY Zenon DEF Backtest!SortedByTime
<1>3. DOMAIN t = S /\ \A k \in S : t[k] = s[p[k]]
  BY Zenon, <1>2
<1> HIDE DEF R
<1>4. Orders(R, S)
  <2>1. \A k \in S : s[k].time \in Int
    BY <1>0 DEF Timed
  <2>2. \A i, j \in S : i = j \/ First(i, j) \/ First(j, i)
    <3> TAKE i, j \in S
    <3>1. s[i].time = s[j].time => i = j
      BY DEF Backtest!DatasetAccepted
    <3> QED
      BY <2>1, <3>1
  <2>3. \A i \in S : ~First(i, i)
    BY <2>1
  <2>4. \A i, j, k \in S : First(i, j) /\ First(j, k) => First(i, k)
    BY <2>1
  <2> HIDE DEF First, S
  <2> QED
    BY Zenon, <1>1, <2>2, <2>3, <2>4 DEF Orders
<1>5. \A j \in S : Backtest!Cardinality({i \in S : First(i, j)}) = Rank(R, S, j)
  <2> TAKE j \in S
  <2> HIDE DEF First, S
  <2>1. {i \in S : First(i, j)} = Earlier(R, S, j)
    BY <1>1 DEF Earlier
  <2> QED
    BY <2>1, BacktestCounts DEF Rank
<1>6. \A k \in S : p[k] \in S /\ Rank(R, S, p[k]) = k - 1
  <2> TAKE k \in S
  <2> HIDE DEF First, S
  <2>1. HasRank(R, S, k - 1)
    BY Zenon, <1>0, <1>4, RanksFound
  <2>2. \E j \in S : Backtest!Cardinality({i \in S : First(i, j)}) = k - 1
    BY <2>1, <1>5 DEF HasRank
  <2>3. p[k] \in S /\ Backtest!Cardinality({i \in S : First(i, p[k])}) = k - 1
    BY Zenon, <2>2
  <2> QED
    BY <2>3, <1>5
<1>7. p \in [S -> S]
  <2>1. \A k \in S : (CHOOSE j \in S : Backtest!Cardinality({i \in S : First(i, j)}) = k - 1) \in S
    BY Zenon, <1>6
  <2> HIDE DEF S, First
  <2> QED
    BY Zenon, <2>1
<1> HIDE DEF p, t
<1>8. /\ \A j, k \in S : p[j] = p[k] => j = k
      /\ \A j, k \in S : j < k <=> <<p[j], p[k]>> \in R
  BY Zenon, <1>0, <1>4, <1>6, Sorting
<1>9. Rising(t, n)
  <2>1. \A j, k \in S : j < k <=> First(p[j], p[k])
    BY Zenon, <1>1, <1>6, <1>8
  <2>2. \A j, k \in S : j < k <=> t[j].time < t[k].time
    BY <1>3, <2>1
  <2> QED
    BY <1>0, <2>2 DEF Rising
<1> QED
  BY Zenon, <1>0, <1>3, <1>7, <1>8, <1>9 DEF t, Permuted

\* What is sorted stays as it is.
LEMMA SortedStays ==
    ASSUME NEW n \in Nat, NEW s, Timed(s, n), Rising(s, n), s = [k \in DOMAIN s |-> s[k]]
    PROVE  Backtest!SortedByTime(s) = s
<1> DEFINE S == DOMAIN s
           Before(j) == {i \in S : s[i].time < s[j].time}
<1>0. S = 1..n
  BY DEF Timed
<1>1. Backtest!SortedByTime(s) = [k \in S |-> s[CHOOSE j \in S : Backtest!Cardinality(Before(j)) = k - 1]]
  BY Zenon DEF Backtest!SortedByTime
<1>2. \A j \in S : Backtest!Cardinality(Before(j)) = j - 1
  <2> TAKE j \in S
  <2>1. Before(j) = {i \in S : i < j}
    BY <1>0 DEF Rising
  <2>2. {i \in S : i < j} = 1..(j - 1)
    BY <1>0
  <2>3. j \in Nat \ {0}
    BY <1>0
  <2> DEFINE b == j - 1
  <2>4. b \in Nat
    BY <2>3
  <2> HIDE DEF b
  <2>5. Cardinality(1..b) = IF 1 > b THEN 0 ELSE b - 1 + 1
    BY <2>4, FS_Interval
  <2>6. Cardinality(1..b) = b
    BY <2>4, <2>5
  <2> QED
    BY <2>1, <2>2, <2>6, BacktestCounts DEF b
<1> HIDE DEF Before, S
<1>3. \A k \in S : (CHOOSE j \in S : Backtest!Cardinality(Before(j)) = k - 1) = k
  <2> TAKE k \in S
  <2>1. \E j \in S : Backtest!Cardinality(Before(j)) = k - 1
    BY <1>2
  <2> DEFINE c == CHOOSE j \in S : Backtest!Cardinality(Before(j)) = k - 1
  <2>2. c \in S /\ Backtest!Cardinality(Before(c)) = k - 1
    BY Zenon, <2>1
  <2> HIDE DEF c
  <2>3. c - 1 = k - 1 /\ c \in Int /\ k \in Int
    BY <1>0, <1>2, <2>2
  <2>4. c = k
    BY <2>3
  <2> QED
    BY <2>4 DEF c
<1>4. [k \in S |-> s[CHOOSE j \in S : Backtest!Cardinality(Before(j)) = k - 1]] = [k \in S |-> s[k]]
  BY Zenon, <1>3
<1> QED
  BY Zenon, <1>1, <1>4 DEF S

\* Appending to what has so many members gives what has one more.
LEMMA AppendOne ==
    ASSUME NEW n \in Nat, NEW s, s = [k \in 1..n |-> s[k]], NEW e
    PROVE  Len(s) = n /\ Append(s, e) = [k \in 1..(n + 1) |-> IF k = n + 1 THEN e ELSE s[k]]
<1> DEFINE S == {s[k] : k \in 1..n} \cup {e}
<1>1. s \in [1..n -> S]
  <2>1. \A k \in 1..n : s[k] \in S
    OBVIOUS
  <2> HIDE DEF S
  <2> QED
    BY Zenon, <2>1
<1>2. s \in Seq(S) /\ e \in S
  BY <1>1
<1> HIDE DEF S
<1>3. Len(s) = n
  BY <1>1, <1>2
<1>4. /\ Append(s, e) \in Seq(S) /\ Len(Append(s, e)) = n + 1
      /\ \A k \in 1..n : Append(s, e)[k] = s[k]
      /\ Append(s, e)[n + 1] = e
  BY <1>2, <1>3, AppendProperties
<1> QED
  BY <1>3, <1>4

Steady(s, n) == \A j \in 1..(n - 1) : s[j + 1].time = s[j].time + 1

AreApart(s, n, i, k) ==
    /\ s[i + k].time >= s[i].time + k
    /\ Steady(s, n) => s[i + k].time = s[i].time + k

\* Times that rise are apart by what they are places apart, and no more where
\* each is followed by the next.
LEMMA TimesApart ==
    ASSUME NEW n \in Nat, NEW s, Timed(s, n), Rising(s, n), NEW i \in 1..n, NEW k \in Nat, i + k <= n
    PROVE  AreApart(s, n, i, k)
<1> DEFINE Apart(m) == /\ s[i + m].time >= s[i].time + m
                       /\ Steady(s, n) => s[i + m].time = s[i].time + m
           B == {m \in 0..k : ~ Apart(m)}
<1>1. \A j \in 1..n : s[j].time \in Int
  BY DEF Timed
<1>2. \A j \in 1..(n - 1) : s[j].time < s[j + 1].time
  <2> TAKE j \in 1..(n - 1)
  <2>1. j \in 1..n /\ j + 1 \in 1..n /\ j < j + 1
    OBVIOUS
  <2> QED
    BY <2>1 DEF Rising
<1>3. B = {}
  <2> SUFFICES ASSUME B # {} PROVE FALSE
    OBVIOUS
  <2>1. PICK m \in B : \A y \in B : m <= y
    <3>1. B \subseteq Nat
      OBVIOUS
    <3> HIDE DEF B
    <3> QED
      BY <3>1, LeastExists
  <2>2. m \in 0..k /\ ~ Apart(m)
    BY <2>1
  <2>3. i + 0 = i /\ s[i].time \in Int
    BY <1>1
  <2>4. m # 0
    <3>1. Apart(0)
      BY <2>3
    <3> HIDE DEF Apart
    <3> QED
      BY <2>2, <3>1
  <2>5. Apart(m - 1)
    <3>1. m - 1 \in 0..k /\ ~ (m <= m - 1)
      BY <2>2, <2>4
    <3> HIDE DEF Apart
    <3> QED
      BY <2>1, <3>1
  <2> DEFINE j == i + (m - 1)
  <2>6. j \in 1..(n - 1) /\ j + 1 = i + m /\ j \in 1..n /\ j + 1 \in 1..n
    BY <2>2, <2>4
  <2>7. /\ s[j].time >= s[i].time + (m - 1)
        /\ Steady(s, n) => s[j].time = s[i].time + (m - 1)
    BY <2>5
  <2> HIDE DEF j
  <2>8. s[j].time \in Int /\ s[j + 1].time \in Int /\ s[j].time < s[j + 1].time
        /\ (Steady(s, n) => s[j + 1].time = s[j].time + 1)
    BY <1>1, <1>2, <2>6 DEF Steady
  <2>9. Apart(m)
    BY <2>2, <2>3, <2>6, <2>7, <2>8
  <2> QED
    BY <2>2, <2>9
<1>4. Apart(k)
  <2>1. k \in 0..k
    OBVIOUS
  <2> HIDE DEF Apart
  <2> QED
    BY <1>3, <2>1
<1> QED
  BY <1>4 DEF AreApart

OfFrame(s, frame, n) ==
    /\ Timed(s, n) /\ Rising(s, n) /\ Len(s) = n
    /\ \A k \in 1..n : s[k].value \in Int /\ s[k] \in Backtest!Range(frame)
    /\ {s[k].time : k \in 1..n} = {frame[k].time : k \in DOMAIN frame}

\* With no gap in a frame, each row is followed by that of the next interval.
LEMMA GaplessRows ==
    ASSUME NEW n \in Nat, NEW s, OfFrame(s, input.frame, n), Backtest!Gapless
    PROVE  Steady(s, n)
<1> SUFFICES ASSUME NEW j \in 1..(n - 1) PROVE s[j + 1].time = s[j].time + 1
  BY DEF Steady
<1> DEFINE T == {s[k].time : k \in 1..n}
<1>1. \A t \in T : t + 1 \in T \/ \A u \in T : u <= t
  <2>1. T = {input.frame[k].time : k \in DOMAIN input.frame}
    BY DEF OfFrame
  <2> HIDE DEF T
  <2> QED
    BY <2>1 DEF Backtest!Gapless
<1>2. j \in 1..n /\ j + 1 \in 1..n
  OBVIOUS
<1>3. s[j].time \in T /\ s[j + 1].time \in T
  BY <1>2
<1>4. s[j].time \in Int /\ s[j + 1].time \in Int /\ s[j].time < s[j + 1].time
  BY <1>2 DEF OfFrame, Timed, Rising
<1>5. s[j].time + 1 \in T
  BY <1>1, <1>3, <1>4
<1>6. PICK m \in 1..n : s[m].time = s[j].time + 1
  BY <1>5
<1>7. s[j].time < s[m].time
  BY <1>4, <1>6
<1>8. j < m
  BY <1>2, <1>7 DEF OfFrame, Rising
<1>9. j + 1 = m \/ j + 1 < m
  BY <1>8
<1>10. j + 1 < m => s[j + 1].time < s[m].time
  BY <1>2 DEF OfFrame, Rising
<1> QED
  BY <1>4, <1>6, <1>9, <1>10

\* The dataset is the rows of the frame in the order of their times.
LEMMA FrameOrdered ==
    ASSUME Backtest!BacktestInv, state.phase = "given", Backtest!DatasetAccepted(state.rows)
    PROVE  Backtest!Ordered(Backtest!SortedByTime(state.rows), input.frame)
<1> DEFINE s == input.frame
           n == Len(s)
           t == Backtest!SortedByTime(s)
<1>1. state.rows = s /\ input \in BacktestInputs
  BY DEF Backtest!BacktestInv
<1>2. /\ n \in Nat /\ DOMAIN s = 1..n
      /\ \A k \in 1..n : (s[k].time # None => s[k].time \in Int) /\ (s[k].value # NaN => s[k].value \in Int)
  BY <1>1, BacktestConstants DEF Backtest!BacktestFits
<1>3. Backtest!DatasetAccepted(s)
  BY <1>1
<1> HIDE DEF s, n
<1>4. \A k \in 1..n : s[k].time \in Int /\ s[k].value \in Int
  BY <1>2, <1>3 DEF Backtest!DatasetAccepted
<1>5. Timed(s, n)
  BY <1>2, <1>4 DEF Timed
<1>6. Permuted(t, s, n) /\ Rising(t, n)
  BY <1>2, <1>3, <1>5, FrameIsSorted
<1>7. t = [k \in DOMAIN t |-> t[k]]
  BY DEF Backtest!SortedByTime
<1> HIDE DEF t
<1>8. DOMAIN t = 1..n
  BY <1>6 DEF Permuted
<1>9. PICK p \in [1..n -> 1..n] : \A k \in 1..n :
          t[k] = s[p[k]] /\ \A j \in 1..n : p[j] = p[k] => j = k
  BY Zenon, <1>6 DEF Permuted
<1>10. \A k \in 1..n : p[k] \in 1..n /\ t[k] = s[p[k]]
  BY <1>9
<1>11. \A m \in 1..n : \E k \in 1..n : p[k] = m
  <2>1. \A j, k \in 1..n : p[j] = p[k] => j = k
    BY Zenon, <1>9
  <2> QED
    BY Zenon, <1>2, <2>1, NoneLeftOut
<1>12. Backtest!Range(t) = Backtest!Range(s)
  <2>1. ASSUME NEW m \in 1..n PROVE s[m] \in {t[k] : k \in 1..n}
    <3>1. PICK k \in 1..n : p[k] = m
      BY <1>11
    <3> QED
      BY <1>10, <3>1
  <2>2. ASSUME NEW k \in 1..n PROVE t[k] \in {s[m] : m \in 1..n}
    BY <1>10
  <2>3. Backtest!Range(t) = {t[k] : k \in 1..n} /\ Backtest!Range(s) = {s[m] : m \in 1..n}
    BY <1>2, <1>8, BacktestCounts
  <2> QED
    BY <2>1, <2>2, <2>3
<1>13. \A k \in 1..n : t[k].time \in Int /\ t[k].value \in Int
  BY <1>4, <1>10
<1>14. Timed(t, n)
  BY <1>8, <1>13 DEF Timed
<1>15. Backtest!SortedByTime(t) = t
  BY <1>2, <1>6, <1>7, <1>14, SortedStays
<1>16. \A j, k \in 1..n : j < k <=> t[j].time < t[k].time
  BY <1>6 DEF Rising
<1>17. Backtest!Ordered(t, s)
  BY Zenon, <1>2, <1>8, <1>12, <1>13, <1>15, <1>16 DEF Backtest!Ordered
<1> QED
  BY <1>1, <1>17 DEF s, t

\* How long a sequence is that is given by its places.
LEMMA LengthOf ==
    ASSUME NEW n \in Nat, NEW s, s = [k \in 1..n |-> s[k]] PROVE Len(s) = n
BY AppendOne

\* A dataset has as many rows as the frame.
LEMMA OrderedFacts ==
    ASSUME NEW n \in Nat, NEW frame, DOMAIN frame = 1..n, NEW s, Backtest!Ordered(s, frame)
    PROVE  OfFrame(s, frame, n)
<1>1. /\ DOMAIN s = 1..n /\ Backtest!Range(s) = Backtest!Range(frame)
      /\ Backtest!SortedByTime(s) = s
      /\ \A k \in 1..n : s[k].time \in Int /\ s[k].value \in Int
      /\ \A j, k \in 1..n : j < k <=> s[j].time < s[k].time
  BY Zenon DEF Backtest!Ordered
<1>2. s = [k \in DOMAIN s |-> s[k]]
  <2>1. Backtest!SortedByTime(s) = [k \in DOMAIN Backtest!SortedByTime(s) |-> Backtest!SortedByTime(s)[k]]
    BY DEF Backtest!SortedByTime
  <2> QED
    BY <1>1, <2>1
<1>3. Len(s) = n
  <2>1. s = [k \in 1..n |-> s[k]]
    BY <1>1, <1>2
  <2> QED
    BY <2>1, LengthOf
<1>4. Backtest!Range(s) = {s[k] : k \in 1..n} /\ Backtest!Range(frame) = {frame[k] : k \in 1..n}
  BY <1>1, BacktestCounts
<1>5. \A k \in 1..n : s[k] \in Backtest!Range(frame)
  BY <1>1, <1>4
<1>6. {s[k].time : k \in 1..n} = {frame[k].time : k \in 1..n}
  <2>1. {s[k] : k \in 1..n} = {frame[k] : k \in 1..n}
    BY <1>1, <1>4
  <2>2. \A j \in 1..n : \E k \in 1..n : s[j] = frame[k]
    BY <2>1
  <2>3. \A k \in 1..n : \E j \in 1..n : s[j] = frame[k]
    BY <2>1
  <2>4. ASSUME NEW j \in 1..n PROVE s[j].time \in {frame[k].time : k \in 1..n}
    BY <2>2
  <2>5. ASSUME NEW k \in 1..n PROVE frame[k].time \in {s[j].time : j \in 1..n}
    BY <2>3
  <2> QED
    BY Zenon, <2>4, <2>5
<1> QED
  BY <1>1, <1>3, <1>5, <1>6 DEF Timed, Rising, OfFrame

SeasonPlace(model, point, k) == point - model + ((k - 1) % model) + 1

FoldFits(fold, model, s, point, k) ==
    /\ DOMAIN fold.actuals = 1..input.horizon /\ DOMAIN fold.forecast = 1..input.horizon
    /\ fold.actuals[k] = s[point + k]
    /\ fold.forecast[k].time = s[point].time + k
    /\ fold.forecast[k].prediction = s[SeasonPlace(model, point, k)].value
    /\ SeasonPlace(model, point, k) \in 1..point

\* What a fold predicts and what it is compared with.
LEMMA FoldFacts ==
    ASSUME NEW model \in Nat \ {0}, NEW point \in Nat, model <= point, NEW s,
           input.horizon \in Nat \ {0}, NEW k \in 1..input.horizon
    PROVE  FoldFits(Backtest!FoldOf(model, s, point), model, s, point, k)
<1> DEFINE fold == Backtest!FoldOf(model, s, point)
           train == Backtest!TrainRows(s, point)
           fitted == Backtest!Fit(model, train)
           place == ((k - 1) % model) + 1
<1>1. /\ fold.actuals = [j \in 1..input.horizon |-> s[point + j]]
      /\ fold.forecast = Backtest!Predict(model, fitted, input.horizon)
  BY DEF Backtest!FoldOf, Backtest!TestRows
<1>2. Len(train) = point /\ \A j \in 1..point : train[j] = s[j]
  <2>1. train = [j \in 1..point |-> s[j]]
    BY Zenon DEF Backtest!TrainRows
  <2> HIDE DEF train
  <2>2. train = [j \in 1..point |-> train[j]] /\ \A j \in 1..point : train[j] = s[j]
    BY <2>1
  <2>3. Len(train) = point
    BY <2>2, LengthOf
  <2> QED
    BY <2>2, <2>3
<1> HIDE DEF train
<1>3. point \in 1..point /\ model \in 1..point
  OBVIOUS
<1>4. /\ fitted.last = s[point].time
      /\ \A j \in 1..model : fitted.history[j] = train[point - model + j].value
  BY <1>2, <1>3 DEF Backtest!Fit
<1> HIDE DEF fitted, fold
<1>5. /\ DOMAIN fold.forecast = 1..input.horizon
      /\ fold.forecast[k] = [time |-> fitted.last + k, prediction |-> fitted.history[place]]
  BY <1>1 DEF Backtest!Predict
<1>6. place \in 1..model
  <2>1. k - 1 \in Int
    OBVIOUS
  <2>2. (k - 1) % model \in 0..(model - 1)
    BY <2>1, Quotients
  <2> QED
    BY <2>2
<1> HIDE DEF place
<1>7. point - model + place \in 1..point
  BY <1>3, <1>6
<1>8. SeasonPlace(model, point, k) = point - model + place
  <2>1. (k - 1) % model \in Int
    BY <1>6 DEF place
  <2> QED
    BY <2>1 DEF SeasonPlace, place
<1>9. fold.forecast[k].prediction = s[point - model + place].value
  BY <1>2, <1>4, <1>5, <1>6, <1>7
<1>10. fold.actuals[k] = s[point + k] /\ DOMAIN fold.actuals = 1..input.horizon
  BY <1>1
<1>11. fold.forecast[k].time = s[point].time + k
  BY <1>4, <1>5
<1> QED
  BY <1>5, <1>7, <1>8, <1>9, <1>10, <1>11 DEF fold, FoldFits

\* The numbers of a backtest.
LEMMA BacktestNumbers ==
    ASSUME Backtest!BacktestInv
    PROVE  /\ Len(input.frame) \in Nat /\ DOMAIN input.frame = 1..Len(input.frame)
           /\ input.models \in Seq(Int) /\ Len(input.models) \in Nat \ {0}
           /\ DOMAIN input.models = 1..Len(input.models)
           /\ \A j \in 1..Len(input.models) : input.models[j] \in Int
           /\ input.initial \in Int /\ input.horizon \in Int /\ input.step \in Int
<1>1. input \in BacktestInputs
  BY DEF Backtest!BacktestInv
<1>2. /\ Len(input.frame) \in Nat /\ DOMAIN input.frame = 1..Len(input.frame)
      /\ input.models \in Seq(Int) /\ input.models # <<>>
      /\ {input.initial, input.horizon, input.step} \subseteq Int
  BY <1>1, BacktestConstants DEF Backtest!BacktestFits
<1> QED
  BY <1>2

\* Points of folds are positions in the data, one step apart.
LEMMA Points ==
    ASSUME input.initial \in Nat \ {0}, input.step \in Nat \ {0}, NEW f \in Nat
    PROVE  /\ f >= 1 => Backtest!PointOf(f) \in Nat /\ Backtest!PointOf(f) >= input.initial
                        /\ Backtest!PointOf(f) >= f
           /\ Backtest!PointOf(f + 1) = Backtest!PointOf(f) + input.step
           /\ Backtest!PointOf(f) \in Int
<1> DEFINE i == input.initial
           s == input.step
           g == f - 1
<1>1. g \in Int /\ (f >= 1 => g \in Nat)
  OBVIOUS
<1>2. g * s \in Int /\ (g \in Nat => g * s \in Nat /\ g * s >= g)
  <2> HIDE DEF g, s
  <2>1. s \in Nat \ {0}
    BY DEF s
  <2>2. g * s \in Int
    BY <1>1, <2>1
  <2>3. ASSUME g \in Nat PROVE g * s \in Nat /\ g * s >= g
    <3>1. s - 1 \in Nat /\ g * (s - 1) \in Nat
      BY <2>1, <2>3
    <3>2. g * s = g * (s - 1) + g
      BY <2>1, <2>3
    <3> DEFINE u == g * s
               w == g * (s - 1)
    <3>3. u = w + g /\ w \in Nat
      BY <3>1, <3>2
    <3> HIDE DEF u, w
    <3>4. u \in Nat /\ u >= g
      BY <2>3, <3>3
    <3> QED
      BY <3>4 DEF u
  <2> QED
    BY <2>2, <2>3
<1>3. Backtest!PointOf(f) = i + g * s
  BY DEF Backtest!PointOf
<1>4. Backtest!PointOf(f + 1) = i + (g + 1) * s
  BY DEF Backtest!PointOf
<1>5. (g + 1) * s = g * s + s
  <2> HIDE DEF g, s
  <2> QED
    BY <1>1 DEF s
<1> DEFINE v == g * s
<1>6. v \in Int /\ (f >= 1 => v \in Nat /\ v >= f - 1)
  BY <1>1, <1>2
<1> HIDE DEF v
<1>7. Backtest!PointOf(f) = i + v /\ Backtest!PointOf(f + 1) = i + v + s
  BY <1>3, <1>4, <1>5 DEF v
<1> QED
  BY <1>6, <1>7

\* What is predicted at a fold hangs on values from before all it is tested on.
LEMMA FoldsShow ==
    ASSUME Backtest!BacktestInv PROVE Backtest!FoldsSeeNoFuture
<1> DEFINE s == state.rows
           frame == input.frame
           h == input.horizon
           model == Backtest!Model
           n == Len(frame)
<1> SUFFICES ASSUME state.phase = "backtest", NEW f \in DOMAIN state.folds,
                    NEW k \in DOMAIN state.folds[f].forecast
             PROVE  LET fold == state.folds[f]
                        p == fold.forecast[k] a == fold.actuals[k] IN
                    /\ \E row \in Backtest!Range(frame) :
                           /\ row.value = p.prediction
                           /\ \A j \in DOMAIN fold.actuals : row.time < fold.actuals[j].time
                           /\ Backtest!Gapless => p.time = a.time /\ (p.time - row.time) % model = 0
                    /\ p.time <= a.time
  BY Zenon DEF Backtest!FoldsSeeNoFuture
<1>1. /\ n \in Nat /\ DOMAIN frame = 1..n /\ h \in Int /\ input.initial \in Int /\ input.step \in Int
      /\ \A j \in 1..Len(input.models) : input.models[j] \in Int
      /\ Len(input.models) \in Nat
  BY BacktestNumbers
<1>2. Backtest!Ordered(s, frame)
  BY DEF Backtest!BacktestInv
<1>3. PICK number \in 0..Len(s) : Backtest!FoldsSoFar(number)
  BY DEF Backtest!BacktestInv
<1>4. PICK m \in 0..Len(input.models) :
          /\ state.summaries = [j \in 1..m |-> Backtest!SummaryOf(input.models[j], s)]
          /\ Backtest!BacktestAccepted(s) /\ m < Len(input.models)
  BY DEF Backtest!BacktestInv
<1>5. input.initial \in Nat \ {0} /\ h \in Nat \ {0} /\ input.step \in Nat \ {0}
  BY <1>1, <1>4 DEF Backtest!BacktestAccepted
<1> HIDE DEF s, frame, h, model, n
<1>20. OfFrame(s, frame, n)
  BY <1>1, <1>2, OrderedFacts
<1>6. /\ Timed(s, n) /\ Rising(s, n) /\ Len(s) = n
      /\ \A j \in 1..n : s[j].value \in Int /\ s[j] \in Backtest!Range(frame)
  BY <1>20 DEF OfFrame
<1>7. Len(state.summaries) = m
  <2> DEFINE q == state.summaries
  <2>1. q = [j \in 1..m |-> q[j]]
    BY <1>4
  <2> HIDE DEF q
  <2>2. m \in Nat
    BY <1>1
  <2> QED
    BY <2>1, <2>2, LengthOf DEF q
<1>8. model \in Int
  BY <1>1, <1>4, <1>7 DEF model, Backtest!Model
<1>9. /\ state.folds = Backtest!FoldsOf(model, s, number)
      /\ \A g \in 1..number : /\ Backtest!PointOf(g) + h <= n
                              /\ model >= 1 /\ model <= Backtest!PointOf(g)
  BY <1>3, <1>6 DEF Backtest!FoldsSoFar, model, s, h, Backtest!Naive
<1>10. /\ f \in 1..number
       /\ state.folds[f] = Backtest!FoldOf(model, s, Backtest!PointOf(f))
  BY <1>9 DEF Backtest!FoldsOf
<1> DEFINE point == Backtest!PointOf(f)
           fold == Backtest!FoldOf(model, s, point)
<1>11. point \in Nat /\ point >= 1 /\ point + h <= n /\ model \in Nat \ {0} /\ model <= point
  <2>1. f \in Nat /\ f >= 1
    BY <1>10
  <2>2. Backtest!PointOf(f) \in Nat /\ Backtest!PointOf(f) >= f
    BY <1>5, <2>1, Points
  <2> QED
    BY <1>8, <1>9, <1>10, <2>1, <2>2
<1> HIDE DEF point
<1>12. \A j \in 1..h :
           /\ DOMAIN fold.actuals = 1..h /\ DOMAIN fold.forecast = 1..h
           /\ fold.actuals[j] = s[point + j]
           /\ fold.forecast[j].time = s[point].time + j
           /\ fold.forecast[j].prediction = s[SeasonPlace(model, point, j)].value
           /\ SeasonPlace(model, point, j) \in 1..point
  <2> TAKE j \in 1..h
  <2>1. input.horizon \in Nat \ {0} /\ j \in 1..input.horizon
    BY <1>5 DEF h
  <2>2. FoldFits(fold, model, s, point, j)
    BY Zenon, <1>11, <2>1, FoldFacts
  <2> HIDE DEF fold
  <2> QED
    BY Zenon, <2>2 DEF FoldFits, h
<1>13. DOMAIN fold.actuals = 1..h /\ DOMAIN fold.forecast = 1..h
  <2>1. 1 \in 1..h
    BY <1>5
  <2> QED
    BY <1>12, <2>1
<1>14. state.folds[f] = fold
  BY <1>10 DEF point
<1> HIDE DEF fold
<1>15. k \in 1..h
  BY <1>13, <1>14
<1> DEFINE place == SeasonPlace(model, point, k)
           row == s[place]
           p == fold.forecast[k]
           a == fold.actuals[k]
<1>16. /\ a = s[point + k] /\ p.time = s[point].time + k /\ p.prediction = row.value
       /\ place \in 1..point
  BY <1>12, <1>15
<1>17. place \in 1..n /\ point \in 1..n /\ point + k \in 1..n /\ k \in Nat
  BY <1>1, <1>11, <1>15, <1>16
<1>18. row \in Backtest!Range(frame)
  BY <1>6, <1>17
<1>19. \A j \in 1..h : row.time < fold.actuals[j].time
  <2> TAKE j \in 1..h
  <2>1. fold.actuals[j] = s[point + j] /\ point + j \in 1..n /\ place < point + j
    BY <1>1, <1>11, <1>12, <1>16
  <2> HIDE DEF place
  <2> QED
    BY <1>6, <1>17, <2>1 DEF Rising
<1>23. a.time >= s[point].time + k /\ s[point].time \in Int /\ a.time \in Int
  <2>1. point + k <= n
    BY <1>17
  <2>2. s[point + k].time >= s[point].time + k
    <3>1. AreApart(s, n, point, k)
      BY Zenon, <1>1, <1>6, <1>17, <2>1, TimesApart
    <3> QED
      BY <3>1 DEF AreApart
  <2> QED
    BY <1>6, <1>16, <1>17, <2>2 DEF Timed
<1>21. ASSUME Backtest!Gapless
       PROVE  p.time = a.time /\ (p.time - row.time) % model = 0
  <2>1. Steady(s, n)
    BY <1>1, <1>20, <1>21, GaplessRows DEF frame
  <2>2. a.time = s[point].time + k
    <3>1. point + k <= n
      BY <1>17
    <3>2. s[point + k].time = s[point].time + k
      <4>1. AreApart(s, n, point, k)
        BY Zenon, <1>1, <1>6, <1>17, <3>1, TimesApart
      <4> QED
        BY <2>1, <4>1 DEF AreApart
    <3> QED
      BY <1>16, <3>2
  <2> DEFINE d == point - place
  <2>3. d \in Nat /\ place + d = point /\ place + d <= n
    BY <1>16, <1>17
  <2> HIDE DEF d, place
  <2>4. s[place + d].time = s[place].time + d
    <3>1. AreApart(s, n, place, d)
      BY Zenon, <1>1, <1>6, <1>17, <2>3, TimesApart
    <3> QED
      BY <2>1, <3>1 DEF AreApart
  <2>5. p.time - row.time = d + k
    <3>1. s[place].time \in Int
      BY <1>6, <1>17 DEF Timed
    <3> QED
      BY <1>16, <1>17, <2>3, <2>4, <3>1
  <2>6. (d + k) % model = 0
    <3> DEFINE e == k - 1
               r == e % model
               q == e \div model
    <3>1. e \in Int
      BY <1>17
    <3> HIDE DEF e
    <3>2. q \in Int /\ r \in 0..(model - 1) /\ e = q * model + r
      BY <1>11, <3>1, Quotients
    <3>3. place = point - model + r + 1
      BY DEF place, SeasonPlace, e
    <3> HIDE DEF q, r
    <3>4. d + k = model + e - r
      BY <1>11, <1>17, <3>1, <3>2, <3>3 DEF d, e
    <3> DEFINE v == q * model
    <3>5. v \in Int
      BY <1>11, <3>2
    <3>6. (q + 1) * model = v + model
      BY <1>11, <3>2
    <3> HIDE DEF v
    <3>7. e = v + r
      BY <3>2 DEF v
    <3>8. d + k = v + model
      BY <1>11, <3>2, <3>4, <3>5, <3>7
    <3>9. d + k = (q + 1) * model
      BY <3>6, <3>8
    <3>10. q + 1 \in Int
      BY <3>2
    <3> QED
      BY <1>11, <3>9, <3>10, Multiples
  <2> QED
    BY <1>16, <2>2, <2>5, <2>6
<1> HIDE DEF place, row, p, a
<1>22. /\ \E r \in Backtest!Range(frame) :
              /\ r.value = p.prediction
              /\ \A j \in DOMAIN fold.actuals : r.time < fold.actuals[j].time
              /\ Backtest!Gapless => p.time = a.time /\ (p.time - r.time) % model = 0
       /\ p.time <= a.time
  BY <1>13, <1>16, <1>18, <1>19, <1>23, <1>21
<1> QED
  BY <1>14, <1>22 DEF p, a

\* There is room in the data for so many folds and no more.
Fitting(s) ==
    /\ Backtest!NumberOf(s) \in Nat \ {0}
    /\ \A f \in Nat \ {0} : f <= Backtest!NumberOf(s) <=> Backtest!PointOf(f) + input.horizon <= Len(s)

LEMMA FoldsFit ==
    ASSUME NEW s, Len(s) \in Nat, input.initial \in Int, input.horizon \in Int, input.step \in Int,
           Backtest!BacktestAccepted(s)
    PROVE  Fitting(s)
<1> DEFINE i == input.initial
           h == input.horizon
           q == input.step
           a == Len(s) - i - h
<1>1. q \in Nat \ {0} /\ a \in Nat /\ i \in Int /\ h \in Int
  BY DEF Backtest!BacktestAccepted
<1>2. Backtest!NumberOf(s) = (a \div q) + 1
  BY DEF Backtest!NumberOf
<1>3. \A f \in Nat : Backtest!PointOf(f) = i + (f - 1) * q
  BY DEF Backtest!PointOf
<1>4. Len(s) = a + i + h
  BY <1>1
<1> HIDE DEF i, q, a, h
<1>5. a \div q \in Int /\ \A m \in Int : m * q <= a <=> m <= a \div q
  <2>1. a \in Int
    BY <1>1
  <2>2. a \div q \in Int
    BY <1>1, <2>1, Quotients
  <2>3. \A m \in Int : m * q <= a <=> m <= a \div q
    BY Zenon, <1>1, <2>1, Quotients
  <2> QED
    BY <2>2, <2>3
<1>6. a \div q >= 0
  <2>1. 0 * q = 0
    BY <1>1
  <2>2. 0 * q <= a
    BY <1>1, <2>1
  <2>3. 0 \in Int
    OBVIOUS
  <2> QED
    BY <1>5, <2>2, <2>3
<1>7. ASSUME NEW f \in Nat \ {0}
      PROVE  f <= Backtest!NumberOf(s) <=> Backtest!PointOf(f) + h <= Len(s)
  <2> DEFINE m == f - 1
             u == m * q
  <2>1. m \in Int
    OBVIOUS
  <2> HIDE DEF m
  <2>2. u \in Int
    BY <1>1, <2>1
  <2>3. u <= a <=> m <= a \div q
    BY <1>5, <2>1
  <2>4. Backtest!PointOf(f) = i + u
    BY <1>3 DEF m
  <2> HIDE DEF u
  <2>5. Backtest!PointOf(f) + h <= Len(s) <=> u <= a
    BY <1>1, <1>4, <2>2, <2>4
  <2>6. f <= Backtest!NumberOf(s) <=> m <= a \div q
    BY <1>2, <1>5 DEF m
  <2> QED
    BY <2>3, <2>5, <2>6
<1> QED
  BY <1>2, <1>5, <1>6, <1>7 DEF Fitting, h

\* As many pairs of places as each of one has of the other.
LEMMA PairsOfPlaces ==
    ASSUME NEW m \in Nat \ {0}, NEW n \in Nat \ {0}
    PROVE  IsFiniteSet((1..m) \X (1..n)) /\ Cardinality((1..m) \X (1..n)) = m * n
<1> DEFINE S == 1..m
           T == 1..n
<1>1. IsFiniteSet(S) /\ Cardinality(S) = IF 1 > m THEN 0 ELSE m - 1 + 1
  BY FS_Interval
<1>2. IsFiniteSet(T) /\ Cardinality(T) = IF 1 > n THEN 0 ELSE n - 1 + 1
  BY FS_Interval
<1> HIDE DEF S, T
<1>3. Cardinality(S) = m /\ Cardinality(T) = n
  BY <1>1, <1>2
<1>4. IsFiniteSet(S \X T) /\ Cardinality(S \X T) = Cardinality(S) * Cardinality(T)
  BY Zenon, <1>1, <1>2, FS_Product
<1> QED
  BY <1>3, <1>4 DEF S, T

\* What there is of a model that was judged.
Judged(r, model, s) ==
    /\ r.model = model /\ r.mae \in Nat
    /\ r.folds = Backtest!NumberOf(s) /\ r.samples = input.horizon * Backtest!NumberOf(s)

LEMMA JudgedFacts ==
    ASSUME NEW s, NEW n \in Nat, OfFrame(s, input.frame, n), Backtest!BacktestAccepted(s),
           input.initial \in Int, input.horizon \in Int, input.step \in Int,
           NEW model \in Int, model >= 1, model <= input.initial
    PROVE  Judged(Backtest!SummaryOf(model, s), model, s)
<1> DEFINE F == Backtest!NumberOf(s)
           h == input.horizon
           folds == Backtest!FoldsOf(model, s, F)
           pairs == Backtest!Pairs(folds)
           errors == [x \in DOMAIN pairs |-> Backtest!Abs(pairs[x][1] - pairs[x][2])]
           P == (1..F) \X (1..h)
<1>1. Len(s) = n /\ Timed(s, n) /\ \A j \in 1..n : s[j].value \in Int
  BY DEF OfFrame
<1>2. Fitting(s)
  BY <1>1, FoldsFit
<1>3. h \in Nat \ {0} /\ F \in Nat \ {0} /\ input.initial \in Nat \ {0} /\ input.step \in Nat \ {0}
  BY <1>2 DEF Backtest!BacktestAccepted, Fitting
<1>4. DOMAIN folds = 1..F /\ \A f \in 1..F : folds[f] = Backtest!FoldOf(model, s, Backtest!PointOf(f))
  BY DEF Backtest!FoldsOf
<1>5. folds = [f \in 1..F |-> folds[f]]
  BY DEF Backtest!FoldsOf
<1>6. /\ Backtest!SummaryOf(model, s).model = model
      /\ Backtest!SummaryOf(model, s).folds = Len(folds)
      /\ Backtest!SummaryOf(model, s).samples = Backtest!Cardinality(DOMAIN pairs)
      /\ Backtest!SummaryOf(model, s).mae = Backtest!SumFunction(errors)
  BY DEF Backtest!SummaryOf, Backtest!Summary
<1>7. DOMAIN pairs = (DOMAIN folds) \X (1..h)
      /\ \A x \in (DOMAIN folds) \X (1..h) :
             /\ pairs[x][1] = folds[x[1]].actuals[x[2]].value
             /\ pairs[x][2] = folds[x[1]].forecast[x[2]].prediction
  BY DEF Backtest!Pairs
<1>8. DOMAIN errors = DOMAIN pairs
      /\ \A x \in DOMAIN pairs : errors[x] = Backtest!Abs(pairs[x][1] - pairs[x][2])
  OBVIOUS
<1> HIDE DEF folds, pairs, errors, F
<1>9. ASSUME NEW f \in 1..F, NEW k \in 1..h
      PROVE  /\ folds[f].actuals[k].value \in Int
             /\ folds[f].forecast[k].prediction \in Int
  <2> DEFINE point == Backtest!PointOf(f)
             fold == Backtest!FoldOf(model, s, point)
  <2>1. f \in Nat \ {0} /\ f >= 1 /\ f <= F
    BY <1>3
  <2>2. point \in Nat /\ point >= input.initial
    BY <1>3, <2>1, Points
  <2>3. point + h <= n
    BY <1>1, <1>2, <2>1 DEF Fitting, F
  <2> HIDE DEF point
  <2>4. model <= point /\ model \in Nat \ {0}
    BY <1>3, <2>2
  <2>5. FoldFits(fold, model, s, point, k)
    BY Zenon, <1>3, <2>2, <2>4, FoldFacts DEF h
  <2>6. folds[f] = fold
    BY <1>4 DEF point
  <2> HIDE DEF fold
  <2>7. /\ fold.actuals[k] = s[point + k]
        /\ fold.forecast[k].prediction = s[SeasonPlace(model, point, k)].value
        /\ SeasonPlace(model, point, k) \in 1..point
    BY <2>5 DEF FoldFits
  <2>8. point + k \in 1..n /\ SeasonPlace(model, point, k) \in 1..n
    BY <1>3, <2>2, <2>3, <2>7
  <2> QED
    BY <1>1, <2>6, <2>7, <2>8
<1>10. \A x \in P : errors[x] \in Nat
  <2> TAKE x \in P
  <2>1. x[1] \in 1..F /\ x[2] \in 1..h
    OBVIOUS
  <2>2. x \in DOMAIN pairs /\ pairs[x][1] \in Int /\ pairs[x][2] \in Int
    BY <1>4, <1>7, <1>9, <2>1
  <2>3. errors[x] = Backtest!Abs(pairs[x][1] - pairs[x][2])
    BY <1>8, <2>2
  <2> DEFINE v == pairs[x][1] - pairs[x][2]
  <2>4. v \in Int
    BY <2>2
  <2> HIDE DEF v
  <2>5. Backtest!Abs(v) \in Nat
    BY <2>4 DEF Backtest!Abs
  <2> QED
    BY <2>3, <2>5 DEF v
<1>11. IsFiniteSet(P) /\ Cardinality(P) = F * h
  BY Zenon, <1>3, PairsOfPlaces
<1>12. DOMAIN errors = P /\ DOMAIN pairs = P
  BY <1>4, <1>7, <1>8
<1> HIDE DEF P
<1>13. Backtest!SumFunction(errors) \in Nat
  <2>1. SumFunctionOnSet(errors, P) \in Nat
    BY Zenon, <1>10, <1>11, SumOfNaturals
  <2> QED
    BY Zenon, <1>12, <2>1, BacktestCounts
<1>14. Backtest!Cardinality(DOMAIN pairs) = h * F
  <2>1. Backtest!Cardinality(P) = F * h
    BY Zenon, <1>11, BacktestCounts
  <2>2. F * h = h * F
    BY <1>3
  <2> QED
    BY <1>12, <2>1, <2>2
<1>15. Len(folds) = F
  BY <1>3, <1>5, LengthOf
<1> QED
  BY <1>6, <1>13, <1>14, <1>15 DEF Judged, F, h

Graded(r, m) == \A j, k \in 1..m : j < k => r[j].mae <= r[k].mae

\* Ranking puts the summaries in the order of their errors.
LEMMA ModelsAreRanked ==
    ASSUME NEW n \in Nat, NEW s, DOMAIN s = 1..n, \A k \in 1..n : s[k].mae \in Int
    PROVE  Permuted(Backtest!RankedModels(s), s, n) /\ Graded(Backtest!RankedModels(s), n)
<1> DEFINE S == DOMAIN s
           t == Backtest!RankedModels(s)
           First(i, j) == s[i].mae < s[j].mae \/ (s[i].mae = s[j].mae /\ i < j)
           R == {x \in S \X S : First(x[1], x[2])}
           p == [k \in S |-> CHOOSE j \in S : Backtest!Cardinality({i \in S : First(i, j)}) = k - 1]
<1>0. S = 1..n
  OBVIOUS
<1>1. \A i, j \in S : <<i, j>> \in R <=> First(i, j)
  OBVIOUS
<1>2. t = [k \in S |-> s[CHOOSE j \in S : Backtest!Cardinality({i \in S : First(i, j)}) = k - 1]]
  BY Zenon DEF Backtest!RankedModels
<1>3. DOMAIN t = S /\ \A k \in S : t[k] = s[p[k]]
  BY Zenon, <1>2
<1> HIDE DEF R
<1>4. Orders(R, S)
  <2>1. \A k \in S : s[k].mae \in Int /\ k \in Int
    BY <1>0
  <2>2. \A i, j \in S : i = j \/ First(i, j) \/ First(j, i)
    BY <2>1
  <2>3. \A i \in S : ~First(i, i)
    BY <2>1
  <2>4. \A i, j, k \in S : First(i, j) /\ First(j, k) => First(i, k)
    BY <2>1
  <2> HIDE DEF First, S
  <2> QED
    BY Zenon, <1>1, <2>2, <2>3, <2>4 DEF Orders
<1>5. \A j \in S : Backtest!Cardinality({i \in S : First(i, j)}) = Rank(R, S, j)
  <2> TAKE j \in S
  <2> HIDE DEF First, S
  <2>1. {i \in S : First(i, j)} = Earlier(R, S, j)
    BY <1>1 DEF Earlier
  <2> QED
    BY <2>1, BacktestCounts DEF Rank
<1>6. \A k \in S : p[k] \in S /\ Rank(R, S, p[k]) = k - 1
  <2> TAKE k \in S
  <2> HIDE DEF First, S
  <2>1. HasRank(R, S, k - 1)
    BY Zenon, <1>0, <1>4, RanksFound
  <2>2. \E j \in S : Backtest!Cardinality({i \in S : First(i, j)}) = k - 1
    BY <2>1, <1>5 DEF HasRank
  <2>3. p[k] \in S /\ Backtest!Cardinality({i \in S : First(i, p[k])}) = k - 1
    BY Zenon, <2>2
  <2> QED
    BY <2>3, <1>5
<1>7. p \in [S -> S]
  <2>1. \A k \in S : (CHOOSE j \in S : Backtest!Cardinality({i \in S : First(i, j)}) = k - 1) \in S
    BY Zenon, <1>6
  <2> HIDE DEF S, First
  <2> QED
    BY Zenon, <2>1
<1> HIDE DEF p, t
<1>8. /\ \A j, k \in S : p[j] = p[k] => j = k
      /\ \A j, k \in S : j < k <=> <<p[j], p[k]>> \in R
  BY Zenon, <1>0, <1>4, <1>6, Sorting
<1>9. Graded(t, n)
  <2>1. \A j, k \in S : j < k => First(p[j], p[k])
    BY Zenon, <1>1, <1>6, <1>8
  <2>2. ASSUME NEW j \in S, NEW k \in S, j < k PROVE t[j].mae < t[k].mae \/ t[j].mae = t[k].mae
    <3>1. t[j] = s[p[j]] /\ t[k] = s[p[k]]
      BY Zenon, <1>3, <2>2
    <3>2. First(p[j], p[k])
      BY Zenon, <2>1, <2>2
    <3> QED
      BY <3>1, <3>2
  <2>3. \A k \in S : t[k].mae \in Int
    BY Zenon, <1>0, <1>3, <1>6
  <2>4. \A j, k \in S : j < k => t[j].mae <= t[k].mae
    BY <2>2, <2>3
  <2> QED
    BY Zenon, <1>0, <2>4 DEF Graded
<1> QED
  BY Zenon, <1>0, <1>3, <1>7, <1>8, <1>9 DEF t, Permuted

\* Whoever is first errs no more than any other.
LEMMA FirstIsLeast ==
    ASSUME NEW n \in Nat \ {0}, NEW s, DOMAIN s = 1..n, \A k \in 1..n : s[k].mae \in Int
    PROVE  \A k \in 1..n : Backtest!RankedModels(s)[1].mae <= s[k].mae
<1> DEFINE t == Backtest!RankedModels(s)
<1>1. Permuted(t, s, n) /\ Graded(t, n)
  BY ModelsAreRanked
<1> HIDE DEF t
<1>2. PICK p \in [1..n -> 1..n] : \A k \in 1..n :
          t[k] = s[p[k]] /\ \A j \in 1..n : p[j] = p[k] => j = k
  BY Zenon, <1>1 DEF Permuted
<1>3. \A k \in 1..n : p[k] \in 1..n /\ t[k] = s[p[k]]
  BY <1>2
<1>4. \A m \in 1..n : \E k \in 1..n : p[k] = m
  <2>1. \A j, k \in 1..n : p[j] = p[k] => j = k
    BY Zenon, <1>2
  <2>2. DOMAIN s = 1..n /\ n \in Nat
    OBVIOUS
  <2> QED
    BY Zenon, <2>1, <2>2, NoneLeftOut
<1>5. ASSUME NEW k \in 1..n PROVE t[1].mae <= s[k].mae
  <2>1. PICK j \in 1..n : p[j] = k
    BY <1>4
  <2>2. t[j] = s[k]
    BY Zenon, <1>3, <2>1
  <2>3. 1 \in 1..n /\ s[k].mae \in Int /\ (j = 1 \/ 1 < j)
    OBVIOUS
  <2>4. 1 < j => t[1].mae <= t[j].mae
    BY Zenon, <1>1, <2>3 DEF Graded
  <2> QED
    BY <2>2, <2>3, <2>4
<1> QED
  BY <1>5 DEF t

\* The head of a sequence is in its first place.
LEMMA FirstOf ==
    ASSUME NEW n \in Nat \ {0}, NEW s, s = [k \in 1..n |-> s[k]]
    PROVE  Head(s) = s[1]
<1> DEFINE S == {s[k] : k \in 1..n}
<1>1. s \in [1..n -> S]
  <2>1. \A k \in 1..n : s[k] \in S
    OBVIOUS
  <2> HIDE DEF S
  <2> QED
    BY Zenon, <2>1
<1> HIDE DEF S
<1>2. s \in Seq(S) /\ Len(s) = n
  BY <1>1, LengthOf
<1> QED
  BY <1>2

\* Models that are compared were tested alike, and the first of them errs no
\* more than the others.
LEMMA ComparisonShows ==
    ASSUME Backtest!BacktestInv PROVE Backtest!ComparisonIsFair
<1> DEFINE models == input.models
           s == state.rows
           n == Len(input.frame)
           m == Len(models)
           q == state.summaries
           r == state.ranking
<1> SUFFICES ASSUME state.phase = "compared"
             PROVE  /\ \A j, k \in DOMAIN r : j < k => r[j].mae <= r[k].mae
                    /\ \A j \in DOMAIN r :
                           r[j].samples = input.horizon * (((n - input.initial - input.horizon) \div input.step) + 1)
                    /\ state.improvement # None =>
                           (state.improvement > 0 => Head(r).model # Head(models) \/ m = 1)
  BY Zenon DEF Backtest!ComparisonIsFair
<1>1. /\ n \in Nat /\ DOMAIN input.frame = 1..n /\ m \in Nat \ {0}
      /\ models \in Seq(Int) /\ DOMAIN models = 1..m
      /\ \A j \in 1..m : models[j] \in Int
      /\ input.initial \in Int /\ input.horizon \in Int /\ input.step \in Int
  BY BacktestNumbers
<1>2. OfFrame(s, input.frame, n)
  <2>1. Backtest!Ordered(s, input.frame)
    BY DEF Backtest!BacktestInv
  <2> HIDE DEF s, n
  <2> QED
    BY <1>1, <2>1, OrderedFacts
<1>3. /\ q = [j \in 1..m |-> Backtest!SummaryOf(models[j], s)]
      /\ \A j \in 1..m : models[j] >= Backtest!Naive /\ models[j] <= input.initial
      /\ Backtest!BacktestAccepted(s)
  <2>1. PICK l \in 0..m :
            /\ q = [j \in 1..l |-> Backtest!SummaryOf(models[j], s)]
            /\ l > 0 => \A j \in 1..l : models[j] >= Backtest!Naive /\ models[j] <= input.initial
            /\ l > 0 => Backtest!BacktestAccepted(s)
            /\ l = m
    BY DEF Backtest!BacktestInv
  <2> HIDE DEF q, s, models, m
  <2>2. m > 0 /\ l > 0
    BY <1>1, <2>1
  <2> QED
    BY Zenon, <2>1, <2>2
<1>4. /\ r = Backtest!RankedModels(q)
      /\ state.improvement = Backtest!Improvement(q[1].mae, q[Len(q)].mae)
  BY DEF Backtest!BacktestInv
<1>5. Len(s) = n
  BY <1>2 DEF OfFrame
<1> HIDE DEF models, s, n, m, q, r
<1>6. \A j \in 1..m : Judged(q[j], models[j], s)
  <2> TAKE j \in 1..m
  <2>1. models[j] \in Int /\ models[j] >= 1 /\ models[j] <= input.initial
    BY <1>1, <1>3 DEF Backtest!Naive
  <2>2. Judged(Backtest!SummaryOf(models[j], s), models[j], s)
    BY Zenon, <1>1, <1>2, <1>3, <2>1, JudgedFacts
  <2>3. q[j] = Backtest!SummaryOf(models[j], s)
    BY <1>3
  <2> QED
    BY <2>2, <2>3
<1>7. DOMAIN q = 1..m /\ q = [j \in 1..m |-> q[j]]
  BY <1>3
<1>8. \A j \in 1..m : q[j].mae \in Nat
  BY <1>6 DEF Judged
<1>9. \A j \in 1..m : q[j].mae \in Int
  BY <1>8
<1>10. Permuted(r, q, m) /\ Graded(r, m)
  BY Zenon, <1>1, <1>4, <1>7, <1>9, ModelsAreRanked
<1>11. PICK p \in [1..m -> 1..m] : \A k \in 1..m :
          r[k] = q[p[k]] /\ \A j \in 1..m : p[j] = p[k] => j = k
  BY Zenon, <1>10 DEF Permuted
<1>12. DOMAIN r = 1..m /\ \A k \in 1..m : p[k] \in 1..m /\ r[k] = q[p[k]]
  BY <1>10, <1>11 DEF Permuted
<1>13. \A j, k \in DOMAIN r : j < k => r[j].mae <= r[k].mae
  BY <1>10, <1>12 DEF Graded
<1>14. ASSUME NEW j \in DOMAIN r
       PROVE  r[j].samples = input.horizon * (((n - input.initial - input.horizon) \div input.step) + 1)
  <2>1. p[j] \in 1..m /\ r[j] = q[p[j]]
    BY <1>12
  <2>2. r[j].samples = input.horizon * Backtest!NumberOf(s)
    BY <1>6, <2>1 DEF Judged
  <2> QED
    BY Zenon, <1>5, <2>2 DEF Backtest!NumberOf
<1>15. ASSUME state.improvement # None, state.improvement > 0
       PROVE  Head(r).model # Head(models) \/ m = 1
  <2> SUFFICES ASSUME Head(r).model = Head(models) PROVE FALSE
    OBVIOUS
  <2>1. Head(r) = r[1] /\ Head(models) = models[1] /\ 1 \in 1..m
    <3>1. r = [k \in 1..m |-> r[k]]
      <4>1. r = [k \in DOMAIN r |-> r[k]]
        BY <1>4 DEF Backtest!RankedModels
      <4> QED
        BY <1>12, <4>1
    <3>2. Head(models) = models[1]
      BY <1>1 DEF m
    <3> QED
      BY <1>1, <3>1, <3>2, FirstOf
  <2>2. r[1].model = models[p[1]] /\ p[1] \in 1..m /\ r[1] = q[p[1]]
    <3>1. p[1] \in 1..m /\ r[1] = q[p[1]]
      BY <1>12, <2>1
    <3> QED
      BY <1>6, <3>1 DEF Judged
  <2>3. models[p[1]] = models[1]
    BY <2>1, <2>2
  <2>4. q[p[1]] = q[1]
    BY <1>3, <2>1, <2>2, <2>3
  <2>5. Len(q) = m
    BY <1>1, <1>7, LengthOf
  <2>6. \A k \in 1..m : r[1].mae <= q[k].mae
    BY Zenon, <1>1, <1>4, <1>7, <1>9, FirstIsLeast
  <2> DEFINE b == q[1].mae
             c == q[m].mae
             d == (b - c) * 100
  <2>7. b \in Nat /\ c \in Nat /\ b <= c
    BY <1>1, <1>8, <2>1, <2>2, <2>4, <2>6
  <2>8. state.improvement = IF b = 0 THEN None ELSE d \div b
    BY <1>4, <2>5 DEF Backtest!Improvement
  <2> HIDE DEF b, c
  <2>9. b \in Nat \ {0} /\ state.improvement = d \div b
    BY <1>15, <2>7, <2>8
  <2>10. d \in Int /\ d <= 0
    BY <2>7
  <2> HIDE DEF d
  <2>11. 0 * b = 0 /\ 0 \in Int
    BY <2>9
  <2>12. (0 * b) \div b = 0
    BY Zenon, <2>9, <2>11, Multiples
  <2>13. d \div b <= 0 \div b
    <3>1. \A e \in Int : d <= e => d \div b <= e \div b
      BY Zenon, <2>9, <2>10, Quotients
    <3> QED
      BY Zenon, <2>10, <2>11, <3>1
  <2>14. d \div b \in Int
    BY <2>9, <2>10, Quotients
  <2> QED
    BY <1>15, <2>9, <2>11, <2>12, <2>13, <2>14
<1> QED
  BY Zenon, <1>13, <1>14, <1>15

\* What is made of the input is the same while it is.
LEMMA InputKept ==
    ASSUME input' = input
    PROVE  /\ \A f : Backtest!PointOf(f)' = Backtest!PointOf(f)
           /\ \A m, s, n : Backtest!FoldsOf(m, s, n)' = Backtest!FoldsOf(m, s, n)
           /\ \A m, s : Backtest!SummaryOf(m, s)' = Backtest!SummaryOf(m, s)
           /\ \A s : Backtest!BacktestAccepted(s)' = Backtest!BacktestAccepted(s)
<1>1. \A f : Backtest!PointOf(f)' = Backtest!PointOf(f)
  BY Zenon DEF Backtest!PointOf
<1>2. \A m, s, p : Backtest!FoldOf(m, s, p)' = Backtest!FoldOf(m, s, p)
  BY Zenon DEF Backtest!FoldOf, Backtest!TestRows
<1>3. \A m, s, n : Backtest!FoldsOf(m, s, n)' = Backtest!FoldsOf(m, s, n)
  BY Zenon, <1>1, <1>2 DEF Backtest!FoldsOf
<1>4. \A s : Backtest!NumberOf(s)' = Backtest!NumberOf(s)
  BY Zenon DEF Backtest!NumberOf
<1>5. \A q : Backtest!Pairs(q)' = Backtest!Pairs(q)
  BY Zenon DEF Backtest!Pairs
<1>6. \A m, q : Backtest!Summary(m, q)' = Backtest!Summary(m, q)
  BY Zenon, <1>5 DEF Backtest!Summary
<1>7. \A m, s : Backtest!SummaryOf(m, s)' = Backtest!SummaryOf(m, s)
  BY Zenon, <1>3, <1>4, <1>6 DEF Backtest!SummaryOf
<1>8. \A s : Backtest!BacktestAccepted(s)' = Backtest!BacktestAccepted(s)
  BY Zenon DEF Backtest!BacktestAccepted
<1> QED
  BY Zenon, <1>1, <1>3, <1>7, <1>8

\* So many models were judged, on the same rows.
Judges(q, m, s) ==
    /\ q = [j \in 1..m |-> Backtest!SummaryOf(input.models[j], s)]
    /\ m > 0 => \A j \in 1..m : input.models[j] >= Backtest!Naive /\ input.models[j] <= input.initial
    /\ m > 0 => Backtest!BacktestAccepted(s)

\* Nor is it judged otherwise while the input is the same.
LEMMA JudgesKept ==
    ASSUME input' = input PROVE \A q, m, s : Judges(q, m, s)' = Judges(q, m, s)
BY Zenon, InputKept DEF Judges

\* A backtest is of the model after those that were judged.
AtModel(m) ==
    /\ Judges(state.summaries, m, state.rows) /\ Len(state.summaries) = m
    /\ Backtest!Model = input.models[m + 1] /\ Backtest!Model \in Int
    /\ Backtest!BacktestAccepted(state.rows)
    /\ Len(state.rows) = Len(input.frame) /\ Len(input.frame) \in Nat
    /\ OfFrame(state.rows, input.frame, Len(input.frame))
    /\ input.initial \in Nat \ {0} /\ input.horizon \in Nat \ {0} /\ input.step \in Nat \ {0}

LEMMA InBacktest ==
    ASSUME Backtest!BacktestInv, state.phase = "backtest"
    PROVE  \E m \in 0..(Len(input.models) - 1) : AtModel(m)
<1> DEFINE s == state.rows
           n == Len(input.frame)
           models == input.models
           q == state.summaries
<1>1. /\ n \in Nat /\ DOMAIN input.frame = 1..n /\ Len(models) \in Nat \ {0}
      /\ \A j \in 1..Len(models) : models[j] \in Int
      /\ input.initial \in Int /\ input.horizon \in Int /\ input.step \in Int
  BY BacktestNumbers
<1>2. Backtest!Ordered(s, input.frame)
  BY DEF Backtest!BacktestInv
<1>3. PICK m \in 0..Len(models) :
          /\ q = [j \in 1..m |-> Backtest!SummaryOf(models[j], s)]
          /\ m > 0 => \A j \in 1..m : models[j] >= Backtest!Naive /\ models[j] <= input.initial
          /\ Backtest!BacktestAccepted(s)
          /\ m < Len(models)
  BY DEF Backtest!BacktestInv
<1> HIDE DEF s, n, models, q
<1>4. OfFrame(s, input.frame, n)
  BY Zenon, <1>1, <1>2, OrderedFacts
<1>5. Len(s) = n
  BY <1>4 DEF OfFrame
<1>6. m \in 0..(Len(models) - 1) /\ m \in Nat /\ m + 1 \in 1..Len(models)
  BY <1>1, <1>3
<1>7. q = [j \in 1..m |-> q[j]]
  BY <1>3
<1>8. Len(q) = m
  BY <1>6, <1>7, LengthOf
<1>9. Backtest!Model = models[m + 1] /\ Backtest!Model \in Int
  BY <1>1, <1>6, <1>8 DEF Backtest!Model, models, q
<1>10. Judges(q, m, s)
  BY Zenon, <1>3 DEF Judges, models
<1>11. input.initial \in Nat \ {0} /\ input.horizon \in Nat \ {0} /\ input.step \in Nat \ {0}
  BY <1>1, <1>3 DEF Backtest!BacktestAccepted
<1>12. AtModel(m)
  BY Zenon, <1>1, <1>3, <1>4, <1>5, <1>8, <1>9, <1>10, <1>11 DEF AtModel, s, n, models, q
<1> QED
  BY Zenon, <1>6, <1>12 DEF models

\* A fold that is accepted is one more of the folds there are to be.
OneMore(folds, number) ==
    /\ state.point + input.step = Backtest!PointOf(number + 1)
    /\ folds = Backtest!FoldsOf(Backtest!Model, state.rows, number)
    /\ \A f \in 1..number : /\ Backtest!PointOf(f) + input.horizon <= Len(state.rows)
                             /\ Backtest!Model >= Backtest!Naive /\ Backtest!Model <= Backtest!PointOf(f)

LEMMA OneMoreFold ==
    ASSUME Backtest!BacktestInv, state.phase = "backtest", state.point + input.horizon <= Len(state.rows),
           Backtest!FitAccepted(Backtest!Model, Backtest!TrainRows(state.rows, state.point))
    PROVE  \E number \in 0..Len(state.rows) :
               OneMore(Append(state.folds, Backtest!FoldOf(Backtest!Model, state.rows, state.point)), number)
<1> DEFINE s == state.rows
           h == input.horizon
           model == Backtest!Model
           point == state.point
           folds == state.folds
           n == Len(s)
<1>1. PICK m \in 0..(Len(input.models) - 1) : AtModel(m)
  BY Zenon, InBacktest
<1>2. /\ n \in Nat /\ model \in Int
      /\ input.initial \in Nat \ {0} /\ h \in Nat \ {0} /\ input.step \in Nat \ {0}
  BY <1>1 DEF AtModel
<1>3. PICK number \in 0..n : Backtest!FoldsSoFar(number)
  BY DEF Backtest!BacktestInv
<1>4. /\ point = Backtest!PointOf(number + 1) /\ folds = Backtest!FoldsOf(model, s, number)
      /\ \A f \in 1..number : /\ Backtest!PointOf(f) + h <= n
                              /\ model >= Backtest!Naive /\ model <= Backtest!PointOf(f)
  BY <1>3 DEF Backtest!FoldsSoFar
<1> DEFINE e == Backtest!FoldOf(model, s, point)
           u == number + 1
<1>5. Backtest!FitAccepted(model, Backtest!TrainRows(s, point)) /\ point + h <= n
  OBVIOUS
<1> SUFFICES \E k \in 0..n : OneMore(Append(folds, e), k)
  OBVIOUS
<1> HIDE DEF s, h, model, point, folds, n, e
<1>6. number \in Nat /\ u \in Nat \ {0}
  BY <1>2, <1>3
<1>7. /\ point \in Nat /\ point >= u
      /\ Backtest!PointOf(u + 1) = point + input.step
  <2>1. point = Backtest!PointOf(u)
    BY <1>4
  <2> HIDE DEF u
  <2>2. u \in Nat /\ u >= 1
    BY <1>6
  <2>3. /\ Backtest!PointOf(u) \in Nat /\ Backtest!PointOf(u) >= u
        /\ Backtest!PointOf(u + 1) = Backtest!PointOf(u) + input.step
    BY <1>2, <2>2, Points
  <2> QED
    BY <2>1, <2>3
<1>8. model >= Backtest!Naive /\ model <= point
  <2> DEFINE t == Backtest!TrainRows(s, point)
  <2>1. t = [k \in 1..point |-> s[k]]
    BY Zenon DEF Backtest!TrainRows
  <2> HIDE DEF t
  <2>2. t = [k \in 1..point |-> t[k]]
    BY <2>1
  <2>3. Len(t) = point
    BY <1>7, <2>2, LengthOf
  <2> QED
    BY <1>5, <2>3 DEF Backtest!FitAccepted, t
<1>9. u \in 0..n
  BY <1>2, <1>5, <1>6, <1>7
<1>10. Append(folds, e) = Backtest!FoldsOf(model, s, u)
  <2> DEFINE all == Backtest!FoldsOf(model, s, u)
  <2>1. folds = [f \in 1..number |-> Backtest!FoldOf(model, s, Backtest!PointOf(f))]
    BY Zenon, <1>4 DEF Backtest!FoldsOf
  <2>2. all = [f \in 1..u |-> Backtest!FoldOf(model, s, Backtest!PointOf(f))]
    BY Zenon DEF Backtest!FoldsOf
  <2>3. folds = [f \in 1..number |-> folds[f]]
    BY <2>1
  <2> HIDE DEF all
  <2>4. Append(folds, e) = [f \in 1..u |-> IF f = u THEN e ELSE folds[f]]
    BY <1>6, <2>3, AppendOne
  <2>5. \A f \in 1..u : all[f] = IF f = u THEN e ELSE folds[f]
    <3> TAKE f \in 1..u
    <3>1. f = u \/ f \in 1..number
      BY <1>6
    <3>2. all[f] = Backtest!FoldOf(model, s, Backtest!PointOf(f))
      BY Zenon, <2>2
    <3>3. CASE f = u
      BY <1>4, <3>2, <3>3 DEF e
    <3>4. CASE f # u
      <4>1. folds[f] = Backtest!FoldOf(model, s, Backtest!PointOf(f))
        BY Zenon, <2>1, <3>1, <3>4
      <4> QED
        BY <3>2, <3>4, <4>1
    <3> QED
      BY <3>3, <3>4
  <2>6. all = [f \in 1..u |-> all[f]]
    BY <2>2
  <2> HIDE DEF u
  <2>7. all = [f \in 1..u |-> IF f = u THEN e ELSE folds[f]]
    BY <2>5, <2>6
  <2> QED
    BY <2>4, <2>7 DEF all
<1>11. ASSUME NEW f \in 1..u
       PROVE  /\ Backtest!PointOf(f) + h <= n
              /\ model >= Backtest!Naive /\ model <= Backtest!PointOf(f)
  <2>1. f = u \/ f \in 1..number
    BY <1>6
  <2>2. CASE f = u
    BY <1>4, <1>5, <1>8, <2>2
  <2>3. CASE f \in 1..number
    BY <1>4, <2>3
  <2> QED
    BY <2>1, <2>2, <2>3
<1>12. OneMore(Append(folds, e), u)
  <2> HIDE DEF u
  <2> QED
    BY Zenon, <1>7, <1>10, <1>11 DEF OneMore, s, h, model, point, n
<1> QED
  BY Zenon, <1>9, <1>12

\* A model whose folds are all done was judged as the others are.
LEMMA OneMoreJudged ==
    ASSUME Backtest!BacktestInv, state.phase = "backtest", state.point + input.horizon > Len(state.rows)
    PROVE  \E m \in 1..Len(input.models) :
               Judges(Append(state.summaries, Backtest!Summary(Backtest!Model, state.folds)), m, state.rows)
<1> DEFINE s == state.rows
           h == input.horizon
           model == Backtest!Model
           models == input.models
           folds == state.folds
           q == state.summaries
           F == Backtest!NumberOf(s)
           n == Len(s)
<1>1. PICK m \in 0..(Len(models) - 1) : AtModel(m)
  BY Zenon, InBacktest
<1>2. /\ n \in Nat /\ model \in Int
      /\ input.initial \in Nat \ {0} /\ h \in Nat \ {0} /\ input.step \in Nat \ {0}
      /\ Judges(q, m, s) /\ model = models[m + 1] /\ Backtest!BacktestAccepted(s)
  BY <1>1 DEF AtModel
<1>3. PICK number \in 0..n : Backtest!FoldsSoFar(number)
  BY DEF Backtest!BacktestInv
<1>4. /\ state.point = Backtest!PointOf(number + 1) /\ folds = Backtest!FoldsOf(model, s, number)
      /\ \A f \in 1..number : /\ Backtest!PointOf(f) + h <= n
                              /\ model >= Backtest!Naive /\ model <= Backtest!PointOf(f)
  BY <1>3 DEF Backtest!FoldsSoFar
<1>5. state.point + h > n
  OBVIOUS
<1>6. Len(models) \in Nat \ {0}
  BY BacktestNumbers
<1> DEFINE e == Backtest!Summary(model, folds)
           u == m + 1
<1> SUFFICES \E k \in 1..Len(models) : Judges(Append(q, e), k, s)
  OBVIOUS
<1> HIDE DEF s, h, model, models, folds, q, F, n, e
<1>7. Fitting(s)
  BY <1>2, FoldsFit DEF n, h
<1>8. number = F /\ F \in Nat \ {0}
  <2>1. F \in Nat \ {0} /\ \A f \in Nat \ {0} : f <= F <=> Backtest!PointOf(f) + h <= n
    BY Zenon, <1>7 DEF Fitting, F, h, n
  <2>2. number \in Nat /\ number + 1 \in Nat \ {0}
    BY <1>2, <1>3
  <2>3. ~(number + 1 <= F)
    <3>1. Backtest!PointOf(number + 1) \in Int
      BY <1>2, <2>2, Points
    <3>2. ~(Backtest!PointOf(number + 1) + h <= n)
      BY <1>2, <1>4, <1>5, <3>1
    <3> QED
      BY Zenon, <2>1, <2>2, <3>2
  <2>4. number = 0 \/ number <= F
    <3>1. CASE number \in Nat \ {0}
      <4>1. number \in 1..number
        BY <3>1
      <4>2. Backtest!PointOf(number) + h <= n
        BY <1>4, <4>1
      <4> QED
        BY Zenon, <2>1, <3>1, <4>2
    <3> QED
      BY <2>2, <3>1
  <2> QED
    BY <2>1, <2>2, <2>3, <2>4
<1>9. model >= Backtest!Naive /\ model <= input.initial
  <2>1. 1 \in 1..number
    BY <1>8
  <2>2. model >= Backtest!Naive /\ model <= Backtest!PointOf(1)
    BY <1>4, <2>1
  <2>3. Backtest!PointOf(1) = input.initial
    BY <1>2 DEF Backtest!PointOf
  <2> QED
    BY <2>2, <2>3
<1>10. e = Backtest!SummaryOf(model, s)
  BY Zenon, <1>4, <1>8 DEF e, F, Backtest!SummaryOf
<1>11. u \in 1..Len(models) /\ m \in Nat
  BY <1>1, <1>6
<1>12. Append(q, e) = [j \in 1..u |-> Backtest!SummaryOf(models[j], s)]
  <2>1. q = [j \in 1..m |-> Backtest!SummaryOf(models[j], s)]
    BY Zenon, <1>2 DEF Judges, models
  <2>2. q = [j \in 1..m |-> q[j]]
    BY <2>1
  <2>3. Append(q, e) = [j \in 1..u |-> IF j = u THEN e ELSE q[j]]
    BY <1>11, <2>2, AppendOne
  <2>4. \A j \in 1..u : (IF j = u THEN e ELSE q[j]) = Backtest!SummaryOf(models[j], s)
    <3> TAKE j \in 1..u
    <3>1. j = u \/ j \in 1..m
      BY <1>11
    <3>2. CASE j = u
      BY <1>2, <1>10, <3>2
    <3>3. CASE j # u
      <4>1. q[j] = Backtest!SummaryOf(models[j], s)
        BY Zenon, <2>1, <3>1, <3>3
      <4> QED
        BY <3>3, <4>1
    <3> QED
      BY <3>2, <3>3
  <2> HIDE DEF u
  <2> QED
    BY Zenon, <2>3, <2>4
<1>13. \A j \in 1..u : models[j] >= Backtest!Naive /\ models[j] <= input.initial
  <2> TAKE j \in 1..u
  <2>1. j = u \/ j \in 1..m
    BY <1>11
  <2>2. CASE j = u
    BY <1>2, <1>9, <2>2
  <2>3. CASE j \in 1..m
    BY <1>2, <1>11, <2>3 DEF Judges, models
  <2> QED
    BY <2>1, <2>2, <2>3
<1>14. Judges(Append(q, e), u, s)
  <2> HIDE DEF u
  <2> QED
    BY Zenon, <1>2, <1>12, <1>13 DEF Judges, models
<1> QED
  BY Zenon, <1>11, <1>14

\* A backtest starts from what is given.
LEMMA BacktestInitial == Backtest!Init => Backtest!BacktestInv
BY DEF Backtest!Init, Backtest!BacktestInv

Fields == {"phase", "rows", "point", "folds", "summaries", "ranking", "improvement"}

\* Between backtests, and in one, the rows are those of the frame and so many
\* models were judged on them.
LEMMA NextDataset ==
    ASSUME input' = input, input \in BacktestInputs, DOMAIN state' = Fields, state'.phase = "dataset",
           Backtest!Ordered(state'.rows, input.frame),
           NEW m \in 0..Len(input.models), Judges(state'.summaries, m, state'.rows)
    PROVE  Backtest!BacktestInv'
<1>1. Judges(state.summaries, m, state.rows)'
  BY Zenon, JudgesKept
<1>2. Backtest!Ordered(state.rows, input.frame)'
  BY Zenon
<1>3. (\E l \in 0..Len(input.models) :
           /\ state.summaries = [j \in 1..l |-> Backtest!SummaryOf(input.models[j], state.rows)]
           /\ l > 0 => \A j \in 1..l : input.models[j] >= Backtest!Naive /\ input.models[j] <= input.initial
           /\ l > 0 => Backtest!BacktestAccepted(state.rows))'
  BY Zenon, <1>1 DEF Judges
<1> QED
  BY <1>2, <1>3 DEF Backtest!BacktestInv, Fields

LEMMA NextBacktest ==
    ASSUME input' = input, input \in BacktestInputs, DOMAIN state' = Fields, state'.phase = "backtest",
           Backtest!Ordered(state'.rows, input.frame), Backtest!BacktestAccepted(state'.rows),
           NEW m \in 0..(Len(input.models) - 1), Judges(state'.summaries, m, state'.rows),
           Len(input.models) \in Nat,
           NEW number \in 0..Len(state'.rows), Backtest!FoldsSoFar(number)'
    PROVE  Backtest!BacktestInv'
<1>1. Judges(state.summaries, m, state.rows)'
  BY Zenon, JudgesKept
<1>2. Backtest!Ordered(state.rows, input.frame)'
  BY Zenon
<1>3. Backtest!BacktestAccepted(state.rows)'
  BY Zenon, InputKept
<1>4. m < Len(input'.models) /\ m \in 0..Len(input'.models)
  BY SMT
<1>5. (\E l \in 0..Len(input.models) :
           /\ state.summaries = [j \in 1..l |-> Backtest!SummaryOf(input.models[j], state.rows)]
           /\ l > 0 => \A j \in 1..l : input.models[j] >= Backtest!Naive /\ input.models[j] <= input.initial
           /\ Backtest!BacktestAccepted(state.rows) /\ l < Len(input.models))'
  BY Zenon, <1>1, <1>3, <1>4 DEF Judges
<1>6. (\E k \in 0..Len(state.rows) : Backtest!FoldsSoFar(k))'
  BY Zenon
<1> QED
  BY <1>2, <1>5, <1>6 DEF Backtest!BacktestInv, Fields

LEMMA NextCompared ==
    ASSUME input' = input, input \in BacktestInputs, DOMAIN state' = Fields, state'.phase = "compared",
           Backtest!Ordered(state'.rows, input.frame), Len(input.models) \in Nat \ {0},
           Judges(state'.summaries, Len(input.models), state'.rows),
           state'.ranking = Backtest!RankedModels(state'.summaries),
           state'.improvement = Backtest!Improvement(state'.summaries[1].mae,
                                                     state'.summaries[Len(state'.summaries)].mae)
    PROVE  Backtest!BacktestInv'
<1>1. Judges(state.summaries, Len(input.models), state.rows)'
  BY Zenon, JudgesKept
<1>2. Backtest!Ordered(state.rows, input.frame)'
  BY Zenon
<1>3. Len(input'.models) \in 0..Len(input'.models)
  BY SMT
<1>5. (\E l \in 0..Len(input.models) :
           /\ state.summaries = [j \in 1..l |-> Backtest!SummaryOf(input.models[j], state.rows)]
           /\ l > 0 => \A j \in 1..l : input.models[j] >= Backtest!Naive /\ input.models[j] <= input.initial
           /\ l > 0 => Backtest!BacktestAccepted(state.rows)
           /\ l = Len(input.models))'
  BY Zenon, <1>1, <1>3 DEF Judges
<1> QED
  BY <1>2, <1>5 DEF Backtest!BacktestInv, Fields

\* Each step keeps what the steps before it have made of the frame.
LEMMA BacktestNext ==
    ASSUME Backtest!BacktestInv, [Backtest!Next]_<<input, state>>
    PROVE  Backtest!BacktestInv'
<1>1. input \in BacktestInputs /\ DOMAIN state = Fields /\ Len(input.models) \in Nat \ {0}
  BY BacktestNumbers DEF Backtest!BacktestInv, Fields
<1>2. ASSUME input' = input, Backtest!Refused PROVE Backtest!BacktestInv'
  <2>1. state' = [state EXCEPT !.phase = "refused"]
    BY <1>2 DEF Backtest!Refused
  <2>2. DOMAIN state' = Fields /\ state'.phase = "refused"
    BY <1>1, <2>1 DEF Fields
  <2> QED
    BY <1>1, <1>2, <2>2 DEF Backtest!BacktestInv, Fields
<1>3. ASSUME state.phase \in {"dataset", "backtest"} PROVE Backtest!Ordered(state.rows, input.frame)
  BY <1>3 DEF Backtest!BacktestInv
<1>4. ASSUME state.phase = "dataset"
      PROVE  \E m \in 0..Len(input.models) : Judges(state.summaries, m, state.rows)
  BY <1>4 DEF Backtest!BacktestInv, Judges
<1>5. CASE Backtest!BuildForecastDataset
  <2> DEFINE t == Backtest!SortedByTime(state.rows)
  <2>1. /\ state.phase = "given" /\ input' = input
        /\ IF Backtest!DatasetAccepted(state.rows)
           THEN state' = [state EXCEPT !.phase = "dataset", !.rows = t]
           ELSE Backtest!Refused
    BY <1>5 DEF Backtest!BuildForecastDataset
  <2>2. CASE Backtest!DatasetAccepted(state.rows)
    <3>1. Backtest!Ordered(t, input.frame)
      BY <2>1, <2>2, FrameOrdered
    <3>2. state' = [state EXCEPT !.phase = "dataset", !.rows = t]
      BY <2>1, <2>2
    <3> HIDE DEF t
    <3>3. DOMAIN state' = Fields /\ state'.phase = "dataset" /\ state'.rows = t
          /\ state'.summaries = state.summaries
      BY <1>1, <3>2 DEF Fields
    <3>4. state.summaries = <<>>
      BY <2>1 DEF Backtest!BacktestInv
    <3>5. Judges(state'.summaries, 0, state'.rows)
      BY <3>3, <3>4 DEF Judges
    <3>6. 0 \in 0..Len(input.models)
      BY <1>1
    <3>7. Backtest!Ordered(state'.rows, input.frame)
      BY <3>1, <3>3
    <3> QED
      BY Zenon, <1>1, <2>1, <3>3, <3>5, <3>6, <3>7, NextDataset
  <2>3. CASE ~Backtest!DatasetAccepted(state.rows)
    BY <1>2, <2>1, <2>3
  <2> QED
    BY <2>2, <2>3
<1>6. CASE Backtest!StartBacktest
  <2> DEFINE t == Backtest!SortedByTime(state.rows)
  <2>1. /\ state.phase = "dataset" /\ input' = input /\ Len(state.summaries) < Len(input.models)
        /\ IF Backtest!BacktestAccepted(state.rows)
           THEN state' = [state EXCEPT !.phase = "backtest", !.rows = t, !.point = input.initial, !.folds = <<>>]
           ELSE Backtest!Refused
    BY <1>6 DEF Backtest!StartBacktest
  <2>2. CASE Backtest!BacktestAccepted(state.rows)
    <3>1. Backtest!Ordered(state.rows, input.frame)
      BY <1>3, <2>1
    <3>2. t = state.rows
      BY <3>1 DEF Backtest!Ordered
    <3>3. state' = [state EXCEPT !.phase = "backtest", !.rows = t, !.point = input.initial, !.folds = <<>>]
      BY <2>1, <2>2
    <3> HIDE DEF t
    <3>4. DOMAIN state' = Fields /\ state'.phase = "backtest" /\ state'.rows = state.rows
          /\ state'.summaries = state.summaries /\ state'.point = input.initial /\ state'.folds = <<>>
      BY <1>1, <3>2, <3>3 DEF Fields
    <3>5. PICK m \in 0..Len(input.models) : Judges(state.summaries, m, state.rows)
      BY <1>4, <2>1
    <3>6. m \in 0..(Len(input.models) - 1)
      <4>1. m \in Nat
        BY <1>1
      <4>2. state.summaries = [j \in 1..m |-> state.summaries[j]]
        BY <3>5 DEF Judges
      <4>3. Len(state.summaries) = m
        BY Zenon, <4>1, <4>2, LengthOf
      <4> QED
        BY <1>1, <2>1, <4>1, <4>3
    <3>7. 0 \in 0..Len(state'.rows)
      <4>1. Len(input.frame) \in Nat /\ DOMAIN input.frame = 1..Len(input.frame)
        BY BacktestNumbers
      <4>2. OfFrame(state.rows, input.frame, Len(input.frame))
        BY Zenon, <3>1, <4>1, OrderedFacts
      <4> QED
        BY <3>4, <4>1, <4>2 DEF OfFrame
    <3>8. Backtest!PointOf(1) = input.initial
      <4>1. input.initial \in Int /\ input.step \in Int
        BY BacktestNumbers
      <4> QED
        BY <4>1 DEF Backtest!PointOf
    <3>9. (state.point = Backtest!PointOf(1))'
      BY Zenon, <2>1, <3>4, <3>8, InputKept
    <3>10. (state.folds = Backtest!FoldsOf(Backtest!Model, state.rows, 0))'
      BY <3>4 DEF Backtest!FoldsOf
    <3>11. Backtest!FoldsSoFar(0)'
      BY <3>9, <3>10 DEF Backtest!FoldsSoFar
    <3>12. /\ Backtest!Ordered(state'.rows, input.frame) /\ Backtest!BacktestAccepted(state'.rows)
           /\ Judges(state'.summaries, m, state'.rows) /\ Len(input.models) \in Nat
      BY <1>1, <2>2, <3>1, <3>4, <3>5
    <3> QED
      BY Zenon, <1>1, <2>1, <3>4, <3>6, <3>7, <3>11, <3>12, NextBacktest
  <2>3. CASE ~Backtest!BacktestAccepted(state.rows)
    BY <1>2, <2>1, <2>3
  <2> QED
    BY <2>2, <2>3
<1>7. CASE Backtest!BacktestFold
  <2> DEFINE fold == Backtest!FoldOf(Backtest!Model, state.rows, state.point)
             all == Append(state.folds, fold)
  <2>1. /\ state.phase = "backtest" /\ input' = input /\ state.point + input.horizon <= Len(state.rows)
        /\ IF Backtest!FitAccepted(Backtest!Model, Backtest!TrainRows(state.rows, state.point))
           THEN state' = [state EXCEPT !.point = state.point + input.step, !.folds = all]
           ELSE Backtest!Refused
    BY <1>7 DEF Backtest!BacktestFold
  <2>2. CASE Backtest!FitAccepted(Backtest!Model, Backtest!TrainRows(state.rows, state.point))
    <3>1. PICK number \in 0..Len(state.rows) : OneMore(all, number)
      BY Zenon, <2>1, <2>2, OneMoreFold
    <3>2. state' = [state EXCEPT !.point = state.point + input.step, !.folds = all]
      BY <2>1, <2>2
    <3>3. PICK m \in 0..(Len(input.models) - 1) : AtModel(m)
      BY Zenon, <2>1, InBacktest
    <3> HIDE DEF all
    <3>4. DOMAIN state' = Fields /\ state'.phase = state.phase /\ state'.rows = state.rows
          /\ state'.summaries = state.summaries /\ state'.point = state.point + input.step /\ state'.folds = all
      BY <1>1, <3>2 DEF Fields
    <3>5. Backtest!Model' = Backtest!Model
      BY <2>1, <3>4 DEF Backtest!Model
    <3>6. /\ state'.point = Backtest!PointOf(number + 1)
          /\ state'.folds = Backtest!FoldsOf(Backtest!Model, state.rows, number)
          /\ \A f \in 1..number : /\ Backtest!PointOf(f) + input.horizon <= Len(state.rows)
                                   /\ Backtest!Model >= Backtest!Naive /\ Backtest!Model <= Backtest!PointOf(f)
      BY Zenon, <3>1, <3>4 DEF OneMore
    <3>7. Backtest!FoldsSoFar(number)'
      BY Zenon, <2>1, <3>4, <3>5, <3>6, InputKept DEF Backtest!FoldsSoFar
    <3>8. /\ Judges(state'.summaries, m, state'.rows) /\ Backtest!BacktestAccepted(state'.rows)
          /\ number \in 0..Len(state'.rows)
      BY Zenon, <3>1, <3>3, <3>4 DEF AtModel
    <3>9. Backtest!Ordered(state'.rows, input.frame) /\ state'.phase = "backtest"
      BY <1>3, <2>1, <3>4
    <3>10. Len(input.models) \in Nat
      BY <1>1
    <3> QED
      BY Zenon, <1>1, <2>1, <3>3, <3>4, <3>7, <3>8, <3>9, <3>10, NextBacktest
  <2>3. CASE ~Backtest!FitAccepted(Backtest!Model, Backtest!TrainRows(state.rows, state.point))
    BY <1>2, <2>1, <2>3
  <2> QED
    BY <2>2, <2>3
<1>8. CASE Backtest!AggregateBacktestMetrics
  <2> DEFINE all == Append(state.summaries, Backtest!Summary(Backtest!Model, state.folds))
  <2>1. /\ state.phase = "backtest" /\ input' = input /\ state.point + input.horizon > Len(state.rows)
        /\ state' = [state EXCEPT !.phase = "dataset", !.summaries = all]
    BY <1>8 DEF Backtest!AggregateBacktestMetrics
  <2>2. PICK m \in 1..Len(input.models) : Judges(all, m, state.rows)
    BY Zenon, <2>1, OneMoreJudged
  <2> HIDE DEF all
  <2>3. DOMAIN state' = Fields /\ state'.phase = "dataset" /\ state'.rows = state.rows
        /\ state'.summaries = all
    BY <1>1, <2>1 DEF Fields
  <2>4. Backtest!Ordered(state'.rows, input.frame)
    BY <1>3, <2>1, <2>3
  <2>5. m \in 0..Len(input.models) /\ Judges(state'.summaries, m, state'.rows)
    BY <1>1, <2>2, <2>3
  <2> QED
    BY Zenon, <1>1, <2>1, <2>3, <2>4, <2>5, NextDataset
<1>9. CASE Backtest!CompareModels
  <2> DEFINE q == state.summaries
             b == Head(q)
             c == q[Len(q)]
  <2>1. /\ state.phase = "dataset" /\ input' = input /\ Len(q) = Len(input.models)
        /\ IF Backtest!ComparisonAccepted(c, b)
           THEN state' = [state EXCEPT !.phase = "compared", !.ranking = Backtest!RankedModels(q),
                          !.improvement = Backtest!Improvement(b.mae, c.mae)]
           ELSE Backtest!Refused
    BY <1>9 DEF Backtest!CompareModels
  <2>2. CASE Backtest!ComparisonAccepted(c, b)
    <3>1. PICK m \in 0..Len(input.models) : Judges(q, m, state.rows)
      BY <1>4, <2>1
    <3>2. m \in Nat /\ q = [j \in 1..m |-> q[j]]
      BY <1>1, <3>1 DEF Judges
    <3>3. state' = [state EXCEPT !.phase = "compared", !.ranking = Backtest!RankedModels(q),
                          !.improvement = Backtest!Improvement(b.mae, c.mae)]
      BY <2>1, <2>2
    <3> HIDE DEF q, b, c
    <3>4. Len(q) = m
      BY Zenon, <3>2, LengthOf
    <3>5. m = Len(input.models) /\ m \in Nat \ {0}
      BY <1>1, <2>1, <3>4
    <3>6. b = q[1]
      BY Zenon, <3>2, <3>5, FirstOf DEF b
    <3>7. DOMAIN state' = Fields /\ state'.phase = "compared" /\ state'.rows = state.rows
          /\ state'.summaries = q /\ state'.ranking = Backtest!RankedModels(q)
          /\ state'.improvement = Backtest!Improvement(b.mae, c.mae)
      BY <1>1, <3>3 DEF Fields, q
    <3>8. Backtest!Ordered(state'.rows, input.frame)
      BY <1>3, <2>1, <3>7
    <3>9. /\ Judges(state'.summaries, Len(input.models), state'.rows)
          /\ state'.ranking = Backtest!RankedModels(state'.summaries)
          /\ state'.improvement = Backtest!Improvement(state'.summaries[1].mae,
                                                       state'.summaries[Len(state'.summaries)].mae)
      BY Zenon, <3>1, <3>5, <3>6, <3>7 DEF c
    <3> QED
      BY Zenon, <1>1, <2>1, <3>7, <3>8, <3>9, NextCompared
  <2>3. CASE ~Backtest!ComparisonAccepted(c, b)
    BY <1>2, <2>1, <2>3
  <2> QED
    BY <2>2, <2>3
<1>10. CASE UNCHANGED <<input, state>>
  <2>1. input' = input /\ state' = state
    BY <1>10
  <2>2. \A k : Backtest!FoldsSoFar(k)' = Backtest!FoldsSoFar(k)
    BY Zenon, <2>1, InputKept DEF Backtest!FoldsSoFar, Backtest!Model
  <2>3. CASE state.phase = "dataset"
    <3>1. PICK m \in 0..Len(input.models) : Judges(state.summaries, m, state.rows)
      BY <1>4, <2>3
    <3> QED
      BY <1>1, <1>3, <2>1, <2>3, <3>1, NextDataset
  <2>4. CASE state.phase = "backtest"
    <3>1. PICK m \in 0..(Len(input.models) - 1) : AtModel(m)
      BY Zenon, <2>4, InBacktest
    <3>2. PICK number \in 0..Len(state.rows) : Backtest!FoldsSoFar(number)
      BY <2>4 DEF Backtest!BacktestInv
    <3>3. /\ Judges(state'.summaries, m, state'.rows) /\ Backtest!BacktestAccepted(state'.rows)
          /\ number \in 0..Len(state'.rows) /\ Backtest!FoldsSoFar(number)'
      BY Zenon, <2>1, <2>2, <3>1, <3>2 DEF AtModel
    <3>4. Backtest!Ordered(state'.rows, input.frame) /\ state'.phase = "backtest"
          /\ Len(input.models) \in Nat /\ DOMAIN state' = Fields
      BY <1>1, <1>3, <2>1, <2>4
    <3> QED
      BY Zenon, <1>1, <2>1, <3>1, <3>3, <3>4, NextBacktest
  <2>5. CASE state.phase = "compared"
    <3>1. /\ Backtest!Ordered(state.rows, input.frame)
          /\ state.ranking = Backtest!RankedModels(state.summaries)
          /\ state.improvement = Backtest!Improvement(state.summaries[1].mae,
                                                      state.summaries[Len(state.summaries)].mae)
          /\ \E m \in 0..Len(input.models) :
                 Judges(state.summaries, m, state.rows) /\ m = Len(input.models)
      BY <2>5 DEF Backtest!BacktestInv, Judges
    <3> QED
      BY Zenon, <1>1, <2>1, <2>5, <3>1, NextCompared
  <2>6. CASE state.phase = "given"
    BY <1>1, <2>1, <2>6 DEF Backtest!BacktestInv
  <2>7. CASE state.phase \notin {"given", "dataset", "backtest", "compared"}
    BY <1>1, <2>1, <2>7 DEF Backtest!BacktestInv
  <2> QED
    BY <2>3, <2>4, <2>5, <2>6, <2>7
<1> QED
  BY <1>5, <1>6, <1>7, <1>8, <1>9, <1>10 DEF Backtest!Next

-----------------------------------------------------------------------------
(* The asset registry: its rows.                                           *)

\* What is registered is one of the versions of a row.
LEMMA CandidateIsVersion ==
    ASSUME NEW id \in Ids, NEW c \in Candidates[id]
    PROVE  c \in Registry!Versions(id)
BY RegistryConstants DEF Registry!CandidatesFit

\* A version of a row differs from a candidate in its status and in references set to NULL only;
\* all versions of a row are in one table.
LEMMA RowFacts ==
    ASSUME NEW id \in Ids, NEW row \in Registry!Versions(id)
    PROVE  /\ row # None
           /\ \E c \in Candidates[id] :
                /\ row \in [table : {c.table}, serial : {c.serial},
                            status : {c.status, "decommissioned"}, refs : Registry!Nulled(c.refs)]
                /\ row.table = c.table /\ DOMAIN row.refs = DOMAIN c.refs
                /\ \A f \in DOMAIN c.refs : row.refs[f] \in {c.refs[f], None}
           /\ \A other \in Registry!Versions(id) : other.table = row.table
<1>1. PICK c \in Candidates[id] :
        row \in [table : {c.table}, serial : {c.serial},
                 status : {c.status, "decommissioned"}, refs : Registry!Nulled(c.refs)]
  BY DEF Registry!Versions
<1>2. row.table = c.table /\ row.refs \in Registry!Nulled(c.refs)
  BY <1>1
<1>3. DOMAIN row.refs = DOMAIN c.refs /\ \A f \in DOMAIN c.refs : row.refs[f] \in {c.refs[f], None}
  BY <1>2 DEF Registry!Nulled
<1>4. ASSUME NEW other \in Registry!Versions(id)
      PROVE  other.table = row.table
  <2>1. PICK d \in Candidates[id] :
          other \in [table : {d.table}, serial : {d.serial},
                     status : {d.status, "decommissioned"}, refs : Registry!Nulled(d.refs)]
    BY DEF Registry!Versions
  <2>2. d.table = c.table
    BY RegistryConstants DEF Registry!CandidatesFit
  <2> QED
    BY <1>2, <2>1, <2>2
<1>5. row # None
  BY RegistryConstants DEF Registry!CandidatesFit
<1>6. QED
  BY <1>1, <1>2, <1>3, <1>4, <1>5

\* The foreign keys of the schema.
LEMMA RuleTable ==
    /\ DOMAIN Registry!OnDelete = {"equipment", "tariffs", "budgets", "weather", "scada", "ground_truth",
                            "alarms", "incidents", "work_orders"}
    /\ \A t \in DOMAIN Registry!OnDelete :
           DOMAIN Registry!OnDelete[t] \subseteq {"plant", "equipment", "parent", "alarm", "incident"}
    /\ \A t \in DOMAIN Registry!OnDelete : \A f \in DOMAIN Registry!OnDelete[t] :
           Registry!OnDelete[t][f] = "cascade" => t = "scada"
    /\ \A t \in {"alarms", "incidents", "work_orders"} :
           {"plant", "equipment"} \subseteq DOMAIN Registry!OnDelete[t]
    /\ "parent" \in DOMAIN Registry!OnDelete["equipment"]
    /\ \A t \in {"alarms", "incidents", "work_orders"} : \A f \in {"plant", "equipment"} :
           Registry!OnDelete[t][f] = "restrict"
<1>1. DOMAIN Registry!OnDelete = {"equipment", "tariffs", "budgets", "weather", "scada", "ground_truth",
                           "alarms", "incidents", "work_orders"}
  BY DEF Registry!OnDelete
<1>2. /\ DOMAIN Registry!OnDelete["equipment"] = {"plant", "parent"}
      /\ DOMAIN Registry!OnDelete["tariffs"] = {"plant"}
      /\ DOMAIN Registry!OnDelete["budgets"] = {"plant"}
      /\ DOMAIN Registry!OnDelete["weather"] = {"plant"}
      /\ DOMAIN Registry!OnDelete["scada"] = {"plant", "equipment"}
      /\ DOMAIN Registry!OnDelete["ground_truth"] = {"plant", "equipment"}
      /\ DOMAIN Registry!OnDelete["alarms"] = {"plant", "equipment"}
      /\ DOMAIN Registry!OnDelete["incidents"] = {"plant", "equipment", "alarm"}
      /\ DOMAIN Registry!OnDelete["work_orders"] = {"plant", "equipment", "incident"}
  BY DEF Registry!OnDelete
<1>3. /\ Registry!OnDelete["equipment"]["plant"] = "restrict"
         /\ Registry!OnDelete["equipment"]["parent"] = "set null"
      /\ Registry!OnDelete["tariffs"]["plant"] = "restrict"
      /\ Registry!OnDelete["budgets"]["plant"] = "restrict"
      /\ Registry!OnDelete["weather"]["plant"] = "restrict"
      /\ Registry!OnDelete["ground_truth"]["plant"] = "restrict"
      /\ Registry!OnDelete["ground_truth"]["equipment"] = "set null"
  BY DEF Registry!OnDelete
<1>4. /\ Registry!OnDelete["alarms"]["plant"] = "restrict"
         /\ Registry!OnDelete["alarms"]["equipment"] = "restrict"
      /\ Registry!OnDelete["incidents"]["plant"] = "restrict"
      /\ Registry!OnDelete["incidents"]["equipment"] = "restrict"
      /\ Registry!OnDelete["incidents"]["alarm"] = "set null"
      /\ Registry!OnDelete["work_orders"]["plant"] = "restrict"
      /\ Registry!OnDelete["work_orders"]["equipment"] = "restrict"
      /\ Registry!OnDelete["work_orders"]["incident"] = "set null"
  BY DEF Registry!OnDelete
<1>5. \A t \in DOMAIN Registry!OnDelete :
        DOMAIN Registry!OnDelete[t] \subseteq {"plant", "equipment", "parent", "alarm", "incident"}
  BY <1>1, <1>2
<1>6. ASSUME NEW t \in DOMAIN Registry!OnDelete, NEW f \in DOMAIN Registry!OnDelete[t], t # "scada"
      PROVE  Registry!OnDelete[t][f] # "cascade"
  BY <1>1, <1>2, <1>3, <1>4, <1>6
<1>7. QED
  BY <1>1, <1>2, <1>4, <1>5, <1>6

\* The references of a row are the foreign keys of its table, and what they
\* lead to is in theirs; none leads to telemetry.
LEMMA ReferenceFacts ==
    ASSUME NEW id \in Ids, NEW row \in Registry!Versions(id)
    PROVE  /\ row.table \in {"plants"} \cup DOMAIN Registry!OnDelete
           /\ DOMAIN row.refs = IF row.table = "plants" THEN {} ELSE DOMAIN Registry!OnDelete[row.table]
           /\ \A f \in DOMAIN row.refs : row.refs[f] # None =>
                /\ row.refs[f] \in Ids
                /\ \A other \in Registry!Versions(row.refs[f]) : other.table # "scada"
<1>1. PICK c \in Candidates[id] :
        /\ row.table = c.table /\ DOMAIN row.refs = DOMAIN c.refs
        /\ \A f \in DOMAIN c.refs : row.refs[f] \in {c.refs[f], None}
  BY RowFacts
<1>2. /\ DOMAIN c.refs = IF c.table = "plants" THEN {} ELSE DOMAIN Registry!OnDelete[c.table]
      /\ c.table \in {"plants"} \cup DOMAIN Registry!OnDelete
      /\ \A f \in DOMAIN c.refs : c.refs[f] # None =>
           /\ c.refs[f] \in Ids
           /\ \A d \in Candidates[c.refs[f]] : d.table = Registry!LeadsTo[f]
  BY RegistryConstants DEF Registry!CandidatesFit
<1>3. \A f \in DOMAIN c.refs : f \in {"plant", "equipment", "parent", "alarm", "incident"}
  BY <1>2, RuleTable
<1>4. \A f \in DOMAIN c.refs : Registry!LeadsTo[f] # "scada"
  BY <1>3 DEF Registry!LeadsTo
<1>5. ASSUME NEW f \in DOMAIN row.refs, row.refs[f] # None
      PROVE  /\ row.refs[f] \in Ids
             /\ \A other \in Registry!Versions(row.refs[f]) : other.table # "scada"
  <2>1. row.refs[f] = c.refs[f] /\ c.refs[f] \in Ids
    BY <1>1, <1>2, <1>5
  <2>2. ASSUME NEW other \in Registry!Versions(c.refs[f])
        PROVE  other.table # "scada"
    <3>1. PICK d \in Candidates[c.refs[f]] : other.table = d.table
      BY <2>1, RowFacts
    <3> QED
      BY <1>1, <1>2, <1>4, <1>5, <2>1, <3>1
  <2> QED
    BY <2>1, <2>2
<1>6. QED
  BY <1>1, <1>2, <1>5

\* An update touches no reference.
LEMMA UpdatedRow ==
    ASSUME NEW id \in Ids, NEW row \in Registry!Versions(id)
    PROVE  LET new == [row EXCEPT !.status = "decommissioned"]
           IN  new \in Registry!Versions(id) /\ new.refs = row.refs /\ new.table = row.table
<1> DEFINE new == [row EXCEPT !.status = "decommissioned"]
<1>1. PICK c \in Candidates[id] :
        row \in [table : {c.table}, serial : {c.serial},
                 status : {c.status, "decommissioned"}, refs : Registry!Nulled(c.refs)]
  BY RowFacts
<1>2. /\ new \in [table : {c.table}, serial : {c.serial},
                  status : {c.status, "decommissioned"}, refs : Registry!Nulled(c.refs)]
      /\ new.refs = row.refs /\ new.table = row.table
  BY <1>1
<1> HIDE DEF new
<1>3. QED
  BY <1>2 DEF Registry!Versions, new

\* What a deletion makes of a row: telemetry goes, other rows stay with the
\* reference cut.
LEMMA DeletedReference ==
    ASSUME NEW id \in Ids, NEW row \in Registry!Versions(id), NEW target \in Ids
    PROVE  LET new == Registry!AfterDelete(row, target) IN
           /\ new = None => row.table = "scada"
           /\ new # None =>
                /\ new \in Registry!Versions(id) /\ new.table = row.table
                /\ DOMAIN new.refs = DOMAIN row.refs
                /\ \A f \in DOMAIN row.refs :
                     new.refs[f] = IF row.refs[f] = target THEN None ELSE row.refs[f]
<1> DEFINE refs == [f \in DOMAIN row.refs |-> IF row.refs[f] = target THEN None ELSE row.refs[f]]
           cut == [row EXCEPT !.refs = refs]
<1>1. Registry!AfterDelete(row, target) =
        IF \E f \in Registry!RefersBy(row, target) : Registry!Rule(row, f) = "cascade" THEN None
           ELSE cut
  BY DEF Registry!AfterDelete
<1>2. PICK c \in Candidates[id] :
        /\ row \in [table : {c.table}, serial : {c.serial},
                    status : {c.status, "decommissioned"}, refs : Registry!Nulled(c.refs)]
        /\ row.table = c.table /\ DOMAIN row.refs = DOMAIN c.refs
        /\ \A f \in DOMAIN c.refs : row.refs[f] \in {c.refs[f], None}
  BY RowFacts
<1>3. row # None
  BY RowFacts
<1>4. refs \in Registry!Nulled(c.refs)
  <2>1. \A f \in DOMAIN c.refs : refs[f] \in {c.refs[f], None}
    BY <1>2
  <2>2. refs \in [DOMAIN c.refs -> {c.refs[f] : f \in DOMAIN c.refs} \cup {None}]
    BY <1>2, <2>1
  <2> QED
    BY <2>1, <2>2 DEF Registry!Nulled
<1>5. /\ DOMAIN refs = DOMAIN row.refs
      /\ \A f \in DOMAIN row.refs : refs[f] = IF row.refs[f] = target THEN None ELSE row.refs[f]
  OBVIOUS
<1> HIDE DEF refs
<1>6. /\ cut \in [table : {c.table}, serial : {c.serial},
                  status : {c.status, "decommissioned"}, refs : Registry!Nulled(c.refs)]
      /\ cut.refs = refs /\ cut.table = row.table
  BY <1>2, <1>4
<1> HIDE DEF cut
<1>7. cut \in Registry!Versions(id) /\ cut # None
  <2>1. cut \in Registry!Versions(id)
    BY <1>6 DEF Registry!Versions
  <2> QED
    BY <2>1, RowFacts
<1>8. CASE \E f \in Registry!RefersBy(row, target) : Registry!Rule(row, f) = "cascade"
  <2>1. PICK f \in DOMAIN row.refs : Registry!OnDelete[row.table][f] = "cascade"
    BY <1>3, <1>8 DEF Registry!RefersBy, Registry!Rule
  <2>2. /\ row.table \in {"plants"} \cup DOMAIN Registry!OnDelete
        /\ DOMAIN row.refs = IF row.table = "plants" THEN {} ELSE DOMAIN Registry!OnDelete[row.table]
    BY ReferenceFacts
  <2>3. row.table = "scada"
    BY <2>1, <2>2, RuleTable
  <2> QED
    BY <1>1, <1>8, <2>3
<1>9. CASE ~ \E f \in Registry!RefersBy(row, target) : Registry!Rule(row, f) = "cascade"
  <2>1. Registry!AfterDelete(row, target) = cut
    BY <1>1, <1>9
  <2> QED
    BY <1>5, <1>6, <1>7, <2>1
<1>10. QED
  BY <1>8, <1>9

-----------------------------------------------------------------------------
(* The asset registry: what drafts and rows say of each other.             *)

\* A draft holds versions of rows, or their ends.
LEMMA DraftRows ==
    ASSUME Registry!SessionType, NEW s \in Sessions, NEW x \in DOMAIN session[s].draft
    PROVE  /\ x \in Ids
           /\ session[s].draft[x] # None => session[s].draft[x] \in Registry!Versions(x)
BY DEF Registry!SessionType, Registry!IsSession

\* An idle session does nothing.
LEMMA IdleFacts ==
    /\ DOMAIN Registry!Idle.draft = {}
    /\ Registry!Idle.op = None /\ Registry!Idle.queue = <<>> /\ Registry!Idle.load = <<>>
    /\ Registry!Idle = [op |-> Registry!Idle.op, target |-> Registry!Idle.target, draft |-> Registry!Idle.draft,
                 queue |-> Registry!Idle.queue, load |-> Registry!Idle.load]
BY DEF Registry!Idle

\* Only a deletion drafts the end of a row: of its target, or of telemetry.
LEMMA EndOfRow ==
    ASSUME Registry!RegistryInv, NEW s \in Sessions, NEW x \in DOMAIN session[s].draft,
           session[s].draft[x] = None
    PROVE  /\ session[s].op = "delete"
           /\ x = session[s].target \/ (rows[x] # None /\ rows[x].table = "scada")
<1>1. Registry!SessionType /\ Registry!DraftInv(s) /\ Registry!RowsInv
  BY DEF Registry!RegistryInv
<1>2. x \in Ids
  BY <1>1, DraftRows
<1>3. \A c \in Candidates[x] : c # None
  BY <1>2, CandidateIsVersion, RowFacts
<1>4. session[s].op \in {None, "create", "update", "delete", "load"}
  BY <1>1 DEF Registry!SessionType, Registry!IsSession
<1>5. session[s].op # None
  BY <1>1, IdleFacts DEF Registry!DraftInv
<1>6. session[s].op # "create"
  BY <1>1, <1>3 DEF Registry!DraftInv, Registry!CreateInv
<1>7. session[s].op # "load"
  BY <1>1, <1>3 DEF Registry!DraftInv, Registry!LoadInv
<1>8. session[s].op # "update"
  <2> SUFFICES ASSUME session[s].op = "update" PROVE FALSE
    OBVIOUS
  <2>1. rows[x] # None /\ None = [rows[x] EXCEPT !.status = "decommissioned"]
    BY <1>1 DEF Registry!DraftInv, Registry!UpdateInv
  <2>2. rows[x] \in Registry!Versions(x)
    BY <1>1, <1>2, <2>1 DEF Registry!RowsInv
  <2>3. [rows[x] EXCEPT !.status = "decommissioned"] \in Registry!Versions(x)
    BY <1>2, <2>2, UpdatedRow
  <2> QED
    BY <1>2, <2>1, <2>3, RowFacts
<1>9. session[s].op = "delete"
  BY <1>4, <1>5, <1>6, <1>7, <1>8
<1>10. ASSUME x # session[s].target
       PROVE  rows[x] # None /\ rows[x].table = "scada"
  <2>1. /\ session[s].target \in Ids
        /\ Registry!RefersBy(rows[x], session[s].target) # {}
        /\ None = Registry!AfterDelete(rows[x], session[s].target)
    BY <1>1, <1>2, <1>9, <1>10 DEF Registry!DraftInv, Registry!DeleteInv, Registry!Touched
  <2>2. rows[x] # None
    BY <2>1 DEF Registry!RefersBy
  <2>3. rows[x] \in Registry!Versions(x)
    BY <1>1, <1>2, <2>2 DEF Registry!RowsInv
  <2> QED
    BY <1>2, <2>1, <2>2, <2>3, DeletedReference
<1>11. QED
  BY <1>9, <1>10

\* Whoever deletes a row holds those that refer to it.
LEMMA ReferrersHeld ==
    ASSUME Registry!RegistryInv, NEW o \in Sessions, NEW x \in Ids, rows[x] # None,
           NEW f \in DOMAIN rows[x].refs, rows[x].refs[f] # None,
           rows[x].refs[f] \in DOMAIN session[o].draft,
           session[o].draft[rows[x].refs[f]] = None
    PROVE  x \in DOMAIN session[o].draft
<1> DEFINE y == rows[x].refs[f]
<1>1. Registry!RowsInv /\ Registry!DraftInv(o) /\ rows[x] \in Registry!Versions(x)
  BY DEF Registry!RegistryInv, Registry!RowsInv
<1>2. y \in Ids /\ \A other \in Registry!Versions(y) : other.table # "scada"
  BY <1>1, ReferenceFacts
<1>3. session[o].op = "delete" /\ (y = session[o].target \/ (rows[y] # None /\ rows[y].table = "scada"))
  BY EndOfRow
<1>4. y = session[o].target
  BY <1>1, <1>2, <1>3 DEF Registry!RowsInv
<1>5. Registry!RefersBy(rows[x], session[o].target) # {}
  BY <1>4 DEF Registry!RefersBy
<1>6. QED
  BY <1>1, <1>3, <1>5 DEF Registry!DraftInv, Registry!DeleteInv, Registry!Touched

\* A row nobody may end is there for a session that has not begun.
LEMMA IdleVersion ==
    ASSUME NEW s \in Sessions, session[s] = Registry!Idle
    PROVE  /\ \A x \in Ids : Registry!Version(s, x) = rows[x]
           /\ DOMAIN session[s].draft = {}
BY IdleFacts DEF Registry!Version

\* draft takes no row from another session, and ends none another's draft
\* refers to.
SparesOthers(s, draft) ==
    \A o \in Sessions \ {s} :
        /\ DOMAIN draft \cap DOMAIN session[o].draft = {}
        /\ \A x \in DOMAIN session[o].draft : session[o].draft[x] # None =>
               \A f \in DOMAIN session[o].draft[x].refs :
                   session[o].draft[x].refs[f] # None /\ session[o].draft[x].refs[f] \in DOMAIN draft =>
                       draft[session[o].draft[x].refs[f]] # None

\* A draft without the end of a row ends nothing anybody refers to.
LEMMA SparesWithoutEnds ==
    ASSUME NEW s, NEW draft, \A x \in DOMAIN draft : draft[x] # None,
           \A o \in Sessions \ {s} : DOMAIN draft \cap DOMAIN session[o].draft = {}
    PROVE  SparesOthers(s, draft)
BY DEF SparesOthers

\* What draft refers to is there for s, and nobody else ends it.
DraftKept(s, draft) ==
    \A x \in DOMAIN draft : draft[x] # None =>
        \A f \in DOMAIN draft[x].refs : draft[x].refs[f] # None =>
            /\ (IF draft[x].refs[f] \in DOMAIN draft THEN draft[draft[x].refs[f]]
                ELSE rows[draft[x].refs[f]]) # None
            /\ \A o \in Sessions \ {s} :
                   draft[x].refs[f] \in DOMAIN session[o].draft =>
                       session[o].draft[draft[x].refs[f]] # None

\* The record of session s changes and no committed row.
LEMMA SessionStep ==
    ASSUME Registry!RegistryInv, rows' = rows, NEW s \in Sessions, NEW new,
           session' = [session EXCEPT ![s] = new],
           Registry!IsSession(new), SparesOthers(s, new.draft), DraftKept(s, new.draft),
           Registry!DraftInv(s)'
    PROVE  Registry!RegistryInv'
<1>1. /\ Registry!RowsInv /\ Registry!SessionType /\ Registry!LocksInv
         /\ Registry!ReferencesResolve /\ Registry!HierarchyIsAcyclic
      /\ \A o \in Sessions : Registry!DraftInv(o) /\ Registry!KeptInv(o)
  BY DEF Registry!RegistryInv
<1>2. /\ session'[s] = new
      /\ \A o \in Sessions \ {s} : session'[o] = session[o]
      /\ DOMAIN session' = Sessions
  BY <1>1 DEF Registry!SessionType
<1>3. Registry!RowsInv' /\ Registry!ReferencesResolve' /\ Registry!HierarchyIsAcyclic'
  BY <1>1 DEF Registry!RowsInv, Registry!ReferencesResolve, Registry!HierarchyIsAcyclic
<1>4. Registry!SessionType'
  <2>1. \A o \in Sessions : Registry!IsSession(session'[o])
    BY <1>1, <1>2 DEF Registry!SessionType
  <2>2. session' = [o \in Sessions |-> session'[o]]
    BY <1>1 DEF Registry!SessionType
  <2>3. \A o \in Sessions : Registry!IsSession(session[o])'
    BY <2>1 DEF Registry!IsSession, Registry!Versions, Registry!Nulled
  <2> QED
    BY <2>2, <2>3 DEF Registry!SessionType
<1>5. Registry!LocksInv'
  BY <1>1, <1>2 DEF Registry!LocksInv, SparesOthers
<1>6. ASSUME NEW o \in Sessions \ {s}
      PROVE  Registry!DraftInv(o)'
  <2>1. Registry!DraftInv(o) /\ session'[o] = session[o]
    BY <1>1, <1>2
  <2>2. Registry!CreateInv(o)' <=> Registry!CreateInv(o)
    BY <2>1 DEF Registry!CreateInv
  <2>3. Registry!UpdateInv(o)' <=> Registry!UpdateInv(o)
    BY <2>1 DEF Registry!UpdateInv
  <2>4. Registry!DeleteInv(o)' <=> Registry!DeleteInv(o)
    BY <2>1 DEF Registry!DeleteInv, Registry!Touched
  <2>5. Registry!LoadInv(o)' <=> Registry!LoadInv(o)
    BY <2>1 DEF Registry!LoadInv, Registry!Range
  <2> QED
    BY <2>1, <2>2, <2>3, <2>4, <2>5 DEF Registry!DraftInv
<1>7. ASSUME NEW o \in Sessions \ {s}
      PROVE  Registry!KeptInv(o)'
  <2> SUFFICES ASSUME NEW x \in DOMAIN session[o].draft, session[o].draft[x] # None,
                      NEW f \in DOMAIN session[o].draft[x].refs,
                      session[o].draft[x].refs[f] # None
               PROVE  LET y == session[o].draft[x].refs[f] IN
                      /\ Registry!Version(o, y)' # None
                      /\ \A p \in Sessions \ {o} :
                           y \in DOMAIN session'[p].draft => session'[p].draft[y] # None
    BY <1>2 DEF Registry!KeptInv
  <2> DEFINE y == session[o].draft[x].refs[f]
  <2>1. Registry!Version(o, y) # None
    BY <1>1 DEF Registry!KeptInv
  <2>2. Registry!Version(o, y)' # None
    BY <1>2, <2>1 DEF Registry!Version
  <2>3. ASSUME NEW p \in Sessions \ {o}, y \in DOMAIN session'[p].draft
        PROVE  session'[p].draft[y] # None
    <3>1. CASE p = s
      BY <1>2, <2>3, <3>1 DEF SparesOthers
    <3>2. CASE p # s
      BY <1>1, <1>2, <2>3, <3>2 DEF Registry!KeptInv
    <3> QED
      BY <3>1, <3>2
  <2> QED
    BY <2>2, <2>3
<1>8. Registry!KeptInv(s)'
  BY <1>2 DEF Registry!KeptInv, DraftKept, Registry!Version
<1>9. QED
  BY <1>3, <1>4, <1>5, <1>6, <1>7, <1>8 DEF Registry!RegistryInv

\* A session that ends without a commit.
LEMMA RegistryRollback ==
    ASSUME Registry!RegistryInv, NEW s \in Sessions, Registry!Rollback(s)
    PROVE  Registry!RegistryInv'
<1>1. rows' = rows /\ session' = [session EXCEPT ![s] = Registry!Idle]
  BY DEF Registry!Rollback
<1>2. session'[s] = Registry!Idle
  BY <1>1 DEF Registry!RegistryInv, Registry!SessionType
<1>3. Registry!DraftInv(s)'
  BY <1>2, IdleFacts, RegistryConstants DEF Registry!DraftInv, Registry!Idle
<1>4. Registry!IsSession(Registry!Idle) /\ SparesOthers(s, Registry!Idle.draft)
      /\ DraftKept(s, Registry!Idle.draft)
  BY IdleFacts DEF Registry!IsSession, SparesOthers, DraftKept
<1>5. QED
  BY <1>1, <1>3, <1>4, SessionStep

-----------------------------------------------------------------------------
(* The asset registry: its operations.                                     *)

\* A session that begins has exactly the draft it is given.
LEMMA BeginFacts ==
    ASSUME Registry!SessionType, NEW s \in Sessions, NEW op, NEW target, NEW draft,
           Registry!Begin(s, op, target, draft)
    PROVE  LET new == Registry!Doing(op, target, draft) IN
           /\ session' = [session EXCEPT ![s] = new] /\ session'[s] = new
           /\ new.op = op /\ new.target = target /\ new.draft = draft
           /\ new.queue = <<>> /\ new.load = <<>>
<1>1. session' = [session EXCEPT ![s] = Registry!Doing(op, target, draft)]
  BY DEF Registry!Begin
<1>2. session'[s] = Registry!Doing(op, target, draft)
  BY <1>1 DEF Registry!SessionType
<1>3. QED
  BY <1>1, <1>2 DEF Registry!Doing

\* The new record of a session that begins, with a draft of versions.
LEMMA BegunSession ==
    ASSUME NEW op \in {"create", "update", "delete"}, NEW target, NEW draft,
           DOMAIN draft \subseteq Ids,
           \A x \in DOMAIN draft : draft[x] \in Registry!Versions(x) \cup {None}
    PROVE  Registry!IsSession(Registry!Doing(op, target, draft))
BY DEF Registry!IsSession, Registry!Doing

\* The first statement of a session that creates keeps the invariant.
LEMMA RegistryCreate ==
    ASSUME Registry!RegistryInv, NEW s \in Sessions, NEW id \in Ids, NEW row \in Candidates[id],
           Registry!Create(s, id, row)
    PROVE  Registry!RegistryInv'
<1>1. /\ Registry!RowsInv /\ Registry!SessionType /\ \A o \in Sessions : Registry!DraftInv(o)
         /\ Registry!KeptInv(o)
      /\ session[s] = Registry!Idle /\ ~Registry!InsertWaits(s, id, row)
  BY DEF Registry!RegistryInv, Registry!Create
<1>2. CASE ~Registry!InsertSucceeds(s, id, row)
  BY <1>2, RegistryRollback DEF Registry!Create
<1>3. CASE Registry!InsertSucceeds(s, id, row)
  <2> DEFINE draft == [x \in {id} |-> row]
             new == Registry!Doing("create", id, draft)
  <2>1. Registry!Begin(s, "create", id, draft) /\ rows' = rows
    BY <1>3 DEF Registry!Create
  <2> HIDE DEF draft
  <2>2. /\ session' = [session EXCEPT ![s] = new] /\ session'[s] = new
        /\ new.op = "create" /\ new.target = id /\ new.draft = draft
        /\ new.queue = <<>> /\ new.load = <<>>
    BY <1>1, <2>1, BeginFacts
  <2>3. DOMAIN draft = {id} /\ draft[id] = row
    BY DEF draft
  <2>4. row \in Registry!Versions(id) /\ row # None
    BY CandidateIsVersion, RowFacts
  <2>5. rows[id] = None
    BY <1>1, <1>3, IdleVersion DEF Registry!InsertSucceeds
  <2>6. ASSUME NEW f \in DOMAIN row.refs, row.refs[f] # None
        PROVE  /\ row.refs[f] # id /\ rows[row.refs[f]] # None
               /\ ~Registry!Held(s, row.refs[f])
    <3>1. row.refs[f] \in Ids
      BY <2>4, <2>6, ReferenceFacts
    <3> QED
      BY <1>1, <1>3, <2>5, <2>6, <3>1, IdleVersion DEF Registry!InsertSucceeds,
         Registry!InsertWaits
  <2>7. \A x \in DOMAIN draft : draft[x] \in Registry!Versions(x) /\ draft[x] # None
    BY <2>3, <2>4
  <2>8. Registry!IsSession(new)
    BY <2>3, <2>7, BegunSession
  <2> HIDE DEF new
  <2>9. Registry!DraftInv(s)'
    <3>1. \A f \in DOMAIN row.refs : row.refs[f] # id
      BY <2>6, RegistryConstants
    <3>2. Registry!CreateInv(s)'
      BY <2>1, <2>2, <2>3, <2>5, <3>1 DEF Registry!CreateInv
    <3> QED
      BY <2>2, <3>2, RegistryConstants DEF Registry!DraftInv
  <2>10. DraftKept(s, draft)
    BY <2>3, <2>6 DEF DraftKept, Registry!Held
  <2>11. SparesOthers(s, draft)
    <3>1. \A o \in Sessions \ {s} : DOMAIN draft \cap DOMAIN session[o].draft = {}
      BY <1>1, <2>3 DEF Registry!InsertWaits, Registry!Held
    <3> QED
      BY <2>7, <3>1, SparesWithoutEnds
  <2> QED
    BY <2>1, <2>2, <2>9, <2>10, <2>11, <2>8, SessionStep
<1>4. QED
  BY <1>2, <1>3

\* So does the first statement of one that updates,
LEMMA RegistryUpdate ==
    ASSUME Registry!RegistryInv, NEW s \in Sessions, NEW id \in Ids,
           Registry!Update(s, id, "decommissioned")
    PROVE  Registry!RegistryInv'
<1> DEFINE row == [rows[id] EXCEPT !.status = "decommissioned"]
           draft == [x \in {id} |-> row]
           new == Registry!Doing("update", id, draft)
<1>1. /\ Registry!RowsInv /\ Registry!SessionType /\ Registry!ReferencesResolve
      /\ session[s] = Registry!Idle /\ rows[id] # None /\ ~Registry!Held(s, id)
      /\ Registry!Begin(s, "update", id, draft) /\ rows' = rows
  BY DEF Registry!RegistryInv, Registry!Update
<1> HIDE DEF draft
<1>2. /\ session' = [session EXCEPT ![s] = new] /\ session'[s] = new
      /\ new.op = "update" /\ new.target = id /\ new.draft = draft
      /\ new.queue = <<>> /\ new.load = <<>>
  BY <1>1, BeginFacts
<1>3. rows[id] \in Registry!Versions(id)
  BY <1>1 DEF Registry!RowsInv
<1>4. row \in Registry!Versions(id) /\ row # None /\ row.refs = rows[id].refs
  BY <1>3, UpdatedRow, RowFacts
<1>5. DOMAIN draft = {id} /\ draft[id] = row
  BY DEF draft
<1>6. Registry!UpdateInv(s)'
  <2>1. session'[s].target = id /\ session'[s].draft = draft
    BY <1>2
  <2> QED
    BY <1>1, <1>5, <2>1 DEF Registry!UpdateInv
<1> HIDE DEF row
<1>7. \A x \in DOMAIN draft : draft[x] \in Registry!Versions(x) /\ draft[x] # None
  BY <1>4, <1>5
<1>8. Registry!IsSession(new)
  BY <1>5, <1>7, BegunSession
<1> HIDE DEF new
<1>9. Registry!DraftInv(s)'
  BY <1>2, <1>6, RegistryConstants DEF Registry!DraftInv
<1>10. DraftKept(s, draft)
  <2> SUFFICES ASSUME NEW f \in DOMAIN row.refs, row.refs[f] # None
               PROVE  /\ row.refs[f] \notin {id} => rows[row.refs[f]] # None
                      /\ \A o \in Sessions \ {s} :
                           row.refs[f] \in DOMAIN session[o].draft =>
                              session[o].draft[row.refs[f]] # None
    BY <1>4, <1>5 DEF DraftKept
  <2>1. rows[row.refs[f]] # None
    BY <1>1, <1>4 DEF Registry!ReferencesResolve
  <2>2. \A o \in Sessions \ {s} : id \notin DOMAIN session[o].draft
    BY <1>1 DEF Registry!Held
  <2> QED
    BY <1>1, <1>4, <2>1, <2>2, ReferrersHeld
<1>11. SparesOthers(s, draft)
  <2>1. \A o \in Sessions \ {s} : DOMAIN draft \cap DOMAIN session[o].draft = {}
    BY <1>1, <1>5 DEF Registry!Held
  <2> QED
    BY <1>7, <2>1, SparesWithoutEnds
<1>12. QED
  BY <1>1, <1>2, <1>9, <1>10, <1>11, <1>8, SessionStep

\* of one that deletes,
LEMMA RegistryDelete ==
    ASSUME Registry!RegistryInv, NEW s \in Sessions, NEW id \in Ids, Registry!Delete(s, id)
    PROVE  Registry!RegistryInv'
<1> DEFINE touched == Registry!Referrers(s, id)
           draft == [x \in {id} \cup touched |->
                        IF x = id THEN None ELSE Registry!AfterDelete(rows[x], id)]
           new == Registry!Doing("delete", id, draft)
           refused == \E x \in touched : \E f \in Registry!RefersBy(rows[x], id) :
                          Registry!Rule(rows[x], f) = "restrict"
<1>1. /\ Registry!RowsInv /\ Registry!SessionType /\ Registry!ReferencesResolve
      /\ session[s] = Registry!Idle /\ rows[id] # None
      /\ ~Registry!Held(s, id) /\ ~Registry!Kept(s, id) /\ \A x \in touched : ~Registry!Held(s, x)
  BY DEF Registry!RegistryInv, Registry!Delete
<1>2. CASE refused
  BY <1>2, RegistryRollback DEF Registry!Delete
<1>3. CASE ~refused
  <2>1. Registry!Begin(s, "delete", id, draft) /\ rows' = rows
    BY <1>3 DEF Registry!Delete
  <2>2. touched = {x \in Ids : Registry!RefersBy(rows[x], id) # {}}
    BY <1>1, IdleVersion DEF Registry!Referrers
  <2>3. /\ DOMAIN draft = {id} \cup touched /\ draft[id] = None
        /\ \A x \in touched : x # id => draft[x] = Registry!AfterDelete(rows[x], id)
    OBVIOUS
  <2> HIDE DEF draft, touched
  <2>4. /\ session' = [session EXCEPT ![s] = new] /\ session'[s] = new
        /\ new.op = "delete" /\ new.target = id /\ new.draft = draft
        /\ new.queue = <<>> /\ new.load = <<>>
    BY <1>1, <2>1, BeginFacts
  <2> HIDE DEF new
  <2>5. ASSUME NEW x \in touched, x # id
        PROVE  /\ x \in Ids /\ rows[x] # None /\ rows[x] \in Registry!Versions(x)
               /\ draft[x] = None => rows[x].table = "scada"
               /\ draft[x] # None =>
                    /\ draft[x] \in Registry!Versions(x)
                    /\ DOMAIN draft[x].refs = DOMAIN rows[x].refs
                    /\ \A f \in DOMAIN rows[x].refs : draft[x].refs[f] =
                         IF rows[x].refs[f] = id THEN None ELSE rows[x].refs[f]
    <3>1. x \in Ids /\ rows[x] # None
      BY <2>2, <2>5 DEF Registry!RefersBy
    <3>2. rows[x] \in Registry!Versions(x)
      BY <1>1, <3>1 DEF Registry!RowsInv
    <3> QED
      BY <2>3, <2>5, <3>1, <3>2, DeletedReference
  <2>6. Registry!IsSession(new)
    <3>1. \A x \in DOMAIN draft : draft[x] \in Registry!Versions(x) \cup {None}
      BY <2>3, <2>5
    <3>2. DOMAIN draft \subseteq Ids
      BY <2>2, <2>3
    <3> QED
      BY <3>1, <3>2, BegunSession DEF new
  <2>7. Registry!DraftInv(s)'
    <3>1. Registry!Touched(s)' = touched
      BY <2>1, <2>2, <2>4 DEF Registry!Touched
    <3>2. \A x \in touched : \A f \in Registry!RefersBy(rows[x], id) : Registry!Rule(rows[x], f) # "restrict"
      BY <1>3 DEF touched
    <3>3. Registry!DeleteInv(s)'
      BY <1>1, <2>1, <2>3, <2>4, <3>1, <3>2 DEF Registry!DeleteInv
    <3> QED
      BY <2>4, <3>3, RegistryConstants DEF Registry!DraftInv
  \* Nobody refers to a row whose end is drafted.
  <2>8. ASSUME NEW x \in Ids, NEW row \in Registry!Versions(x), NEW f \in DOMAIN row.refs,
               row.refs[f] # None, row.refs[f] \in DOMAIN draft, row.refs[f] # id
        PROVE  draft[row.refs[f]] # None
    <3>1. \A other \in Registry!Versions(row.refs[f]) : other.table # "scada"
      BY <2>8, ReferenceFacts
    <3> QED
      BY <2>3, <2>5, <2>8, <3>1
  <2>9. SparesOthers(s, draft)
    <3> SUFFICES ASSUME NEW o \in Sessions \ {s}
                 PROVE  /\ DOMAIN draft \cap DOMAIN session[o].draft = {}
                        /\ \A x \in DOMAIN session[o].draft : session[o].draft[x] # None =>
                             \A f \in DOMAIN session[o].draft[x].refs :
                                /\ session[o].draft[x].refs[f] # None
                                /\ session[o].draft[x].refs[f] \in DOMAIN draft
                                => draft[session[o].draft[x].refs[f]] # None
      BY DEF SparesOthers
    <3>1. DOMAIN draft \cap DOMAIN session[o].draft = {}
      BY <1>1, <2>3 DEF Registry!Held
    <3>2. ASSUME NEW x \in DOMAIN session[o].draft, session[o].draft[x] # None,
                 NEW f \in DOMAIN session[o].draft[x].refs,
                 session[o].draft[x].refs[f] # None,
                 session[o].draft[x].refs[f] \in DOMAIN draft
          PROVE  draft[session[o].draft[x].refs[f]] # None
      <4>1. x \in Ids /\ session[o].draft[x] \in Registry!Versions(x)
        BY <1>1, <3>2, DraftRows
      <4>2. session[o].draft[x].refs[f] # id
        BY <1>1, <3>2 DEF Registry!Kept, Registry!RefersBy
      <4> QED
        BY <2>8, <3>2, <4>1, <4>2
    <3> QED
      BY <3>1, <3>2
  <2>10. DraftKept(s, draft)
    <3> SUFFICES ASSUME NEW x \in DOMAIN draft, draft[x] # None,
                        NEW f \in DOMAIN draft[x].refs, draft[x].refs[f] # None
                 PROVE  /\ draft[x].refs[f] \in DOMAIN draft => draft[draft[x].refs[f]] # None
                        /\ rows[draft[x].refs[f]] # None
                        /\ \A o \in Sessions \ {s} :
                             draft[x].refs[f] \in DOMAIN session[o].draft =>
                                session[o].draft[draft[x].refs[f]] # None
      BY DEF DraftKept
    <3>1. x \in touched /\ x # id
      BY <2>3
    <3>2. /\ x \in Ids /\ rows[x] # None /\ rows[x] \in Registry!Versions(x)
          /\ draft[x] \in Registry!Versions(x)
          /\ f \in DOMAIN rows[x].refs /\ draft[x].refs[f] = rows[x].refs[f]
          /\ rows[x].refs[f] # id
      BY <2>5, <3>1
    <3>3. draft[x].refs[f] \in DOMAIN draft => draft[draft[x].refs[f]] # None
      BY <2>8, <3>2
    <3>4. rows[draft[x].refs[f]] # None
      BY <1>1, <3>2 DEF Registry!ReferencesResolve
    <3>5. \A o \in Sessions \ {s} : x \notin DOMAIN session[o].draft
      BY <1>1, <3>1 DEF Registry!Held
    <3> QED
      BY <3>2, <3>3, <3>4, <3>5, ReferrersHeld
  <2> QED
    BY <2>1, <2>4, <2>6, <2>7, <2>9, <2>10, SessionStep
<1>4. QED
  BY <1>2, <1>3

\* and of one that loads.
LEMMA RegistryStartLoad ==
    ASSUME Registry!RegistryInv, NEW s \in Sessions, NEW load \in Loads, Registry!StartLoad(s, load)
    PROVE  Registry!RegistryInv'
<1> DEFINE new == Registry!Loading(load, <<>>, load)
<1>1. /\ Registry!SessionType /\ session[s] = Registry!Idle /\ rows' = rows
      /\ session' = [session EXCEPT ![s] = new]
      /\ \A id \in Registry!Range(load) : Candidates[id] # {}
  BY DEF Registry!RegistryInv, Registry!StartLoad
<1>2. load \in Seq(Ids)
      /\ \A id \in Registry!Range(load) : \A c \in Candidates[id] : c.table \in Registry!Telemetry
  BY RegistryConstants DEF Registry!LoadsFit
<1>3. /\ new.op = "load" /\ new.queue = load /\ new.load = load
      /\ new.draft = <<>> /\ DOMAIN new.draft = {}
  BY DEF Registry!Loading
<1>4. Registry!IsSession(new)
  BY <1>2 DEF Registry!IsSession, Registry!Loading
<1> HIDE DEF new
<1>5. session'[s] = new
  BY <1>1 DEF Registry!SessionType
<1>6. SparesOthers(s, new.draft) /\ DraftKept(s, new.draft)
  BY <1>3 DEF SparesOthers, DraftKept
<1>7. Registry!LoadInv(s)'
  BY <1>1, <1>2, <1>3, <1>5 DEF Registry!LoadInv, Registry!Range
<1>8. Registry!DraftInv(s)'
  BY <1>3, <1>5, <1>7, RegistryConstants DEF Registry!DraftInv
<1>9. QED
  BY <1>1, <1>4, <1>6, <1>8, SessionStep

\* A queue is its first part and the rest.
LEMMA QueueParts ==
    ASSUME NEW queue \in Seq(Ids), NEW size \in 0 .. Len(queue)
    PROVE  LET batch == SubSeq(queue, 1, size)
               rest  == SubSeq(queue, size + 1, Len(queue)) IN
           /\ rest \in Seq(Ids)
           /\ Registry!Range(queue) = Registry!Range(batch) \cup Registry!Range(rest)
<1> DEFINE batch == SubSeq(queue, 1, size)
           rest  == SubSeq(queue, size + 1, Len(queue))
<1>1. size \in Int /\ Len(queue) \in Nat /\ size <= Len(queue) /\ 0 <= size
  OBVIOUS
<1>2. \A i \in 1 .. Len(queue) : queue[i] \in Ids
  OBVIOUS
<1>3. /\ batch \in Seq(Ids) /\ Len(batch) = size
      /\ \A i \in 1 .. size : batch[i] = queue[i]
  <2>1. \A i \in 1 .. size : queue[i] \in Ids
    BY <1>1, <1>2
  <2>2. /\ batch \in Seq(Ids)
        /\ Len(batch) = IF 1 <= size THEN size - 1 + 1 ELSE 0
        /\ \A i \in 1 .. size - 1 + 1 : batch[i] = queue[1 + i - 1]
    BY <1>1, <2>1, SubSeqProperties
  <2> HIDE DEF batch
  <2> QED
    BY <1>1, <2>2
<1>4. /\ rest \in Seq(Ids) /\ Len(rest) = Len(queue) - size
      /\ \A i \in 1 .. Len(queue) - size : rest[i] = queue[size + i]
  <2>1. \A i \in size + 1 .. Len(queue) : queue[i] \in Ids
    BY <1>1, <1>2
  <2>2. /\ rest \in Seq(Ids)
        /\ Len(rest) = IF size + 1 <= Len(queue) THEN Len(queue) - (size + 1) + 1 ELSE 0
        /\ \A i \in 1 .. Len(queue) - (size + 1) + 1 : rest[i] = queue[size + 1 + i - 1]
    BY <1>1, <2>1, SubSeqProperties
  <2> HIDE DEF rest
  <2> QED
    BY <1>1, <2>2
<1> HIDE DEF batch, rest
<1>5. ASSUME NEW i \in 1 .. Len(queue)
      PROVE  queue[i] \in Registry!Range(batch) \cup Registry!Range(rest)
  <2>1. CASE i <= size
    <3>1. i \in DOMAIN batch /\ queue[i] = batch[i]
      BY <1>1, <1>3, <2>1
    <3> QED
      BY <3>1 DEF Registry!Range
  <2>2. CASE ~(i <= size)
    <3>1. i - size \in 1 .. Len(queue) - size /\ size + (i - size) = i
      BY <1>1, <2>2
    <3>2. i - size \in DOMAIN rest /\ queue[i] = rest[i - size]
      BY <1>4, <3>1
    <3> QED
      BY <3>2 DEF Registry!Range
  <2> QED
    BY <2>1, <2>2
<1>6. ASSUME NEW i \in DOMAIN batch
      PROVE  batch[i] \in Registry!Range(queue)
  <2>1. i \in 1 .. Len(queue) /\ batch[i] = queue[i]
    BY <1>1, <1>3
  <2> QED
    BY <2>1 DEF Registry!Range
<1>7. ASSUME NEW i \in DOMAIN rest
      PROVE  rest[i] \in Registry!Range(queue)
  <2>1. i \in 1 .. Len(queue) - size
    BY <1>4
  <2>2. size + i \in 1 .. Len(queue) /\ rest[i] = queue[size + i]
    BY <1>1, <1>4, <2>1
  <2> QED
    BY <2>2 DEF Registry!Range
<1>8. Registry!Range(queue) = Registry!Range(batch) \cup Registry!Range(rest)
  BY <1>5, <1>6, <1>7 DEF Registry!Range
<1>9. QED
  BY <1>4, <1>8 DEF batch, rest

\* Each further batch of a load only adds to its draft.
LEMMA RegistryLoadBatch ==
    ASSUME Registry!RegistryInv, NEW s \in Sessions, Registry!LoadBatch(s)
    PROVE  Registry!RegistryInv'
<1> DEFINE queue == session[s].queue
           old   == session[s].draft
           size  == IF Len(queue) < BatchSize THEN Len(queue) ELSE BatchSize
           batch == SubSeq(queue, 1, size)
           rest  == SubSeq(queue, size + 1, Len(queue))
           Row(id) == CHOOSE row \in Candidates[id] : TRUE
           draft == [x \in DOMAIN old \cup Registry!Range(batch) |->
                        IF x \in Registry!Range(batch) THEN Row(x) ELSE old[x]]
           new   == Registry!Loading(session[s].load, draft, rest)
           taken == /\ Registry!IsInjective(batch)
                    /\ \A id \in Registry!Range(batch) : Registry!InsertSucceeds(s, id, Row(id))
<1>1. /\ Registry!SessionType /\ \A o \in Sessions : Registry!DraftInv(o) /\ Registry!KeptInv(o)
      /\ Registry!LocksInv /\ queue # <<>>
      /\ \A id \in Registry!Range(batch) : ~Registry!InsertWaits(s, id, Row(id))
  BY DEF Registry!RegistryInv, Registry!LoadBatch
<1>2. CASE ~taken
  BY <1>2, RegistryRollback DEF Registry!LoadBatch
<1>3. CASE taken
  <2>1. rows' = rows /\ session' = [session EXCEPT ![s] = new]
    BY <1>1, <1>3 DEF Registry!LoadBatch, Registry!SessionType
  <2>2. Registry!IsSession(session[s]) /\ session[s].op = "load" /\ Registry!LoadInv(s)
    BY <1>1 DEF Registry!SessionType, Registry!DraftInv
  <2>3. size \in 0 .. Len(queue)
    <3>1. Len(queue) \in Nat /\ BatchSize \in Nat
      BY <2>2, RegistryConstants DEF Registry!IsSession
    <3> QED
      BY <3>1
  <2>4. rest \in Seq(Ids) /\ Registry!Range(queue) = Registry!Range(batch) \cup Registry!Range(rest)
    BY <2>2, <2>3, QueueParts DEF Registry!IsSession
  <2>5. ASSUME NEW x \in Registry!Range(batch)
        PROVE  /\ x \in Ids /\ Row(x) \in Candidates[x]
               /\ Row(x) \in Registry!Versions(x) /\ Row(x) # None
    <3>1. x \in Registry!Range(queue) /\ x \in Registry!Range(session[s].load)
      BY <2>2, <2>4 DEF Registry!LoadInv
    <3>2. x \in Ids
      <4> HIDE DEF queue
      <4> QED BY <2>2, <3>1 DEF Registry!IsSession, Registry!Range, queue
    <3>3. Row(x) \in Candidates[x]
      BY <2>2, <3>1 DEF Registry!LoadInv
    <3> HIDE DEF Row
    <3> QED
      BY <3>2, <3>3, CandidateIsVersion, RowFacts
  <2>6. /\ DOMAIN draft = DOMAIN old \cup Registry!Range(batch)
        /\ \A x \in Registry!Range(batch) : draft[x] = Row(x)
        /\ \A x \in DOMAIN old \ Registry!Range(batch) : draft[x] = old[x]
    OBVIOUS
  <2>7. /\ new.op = "load" /\ new.draft = draft /\ new.queue = rest
        /\ new.load = session[s].load
    <3> HIDE DEF draft, rest
    <3> QED
      BY DEF Registry!Loading
  <2> HIDE DEF new, draft, batch, rest, Row, queue
  <2>8. session'[s] = new
    BY <1>1, <2>1 DEF Registry!SessionType
  <2>9. \A x \in DOMAIN old :
           x \in Ids /\ rows[x] = None /\ old[x] \in Candidates[x] /\ old[x] # None
    BY <1>1, <2>2, DraftRows, CandidateIsVersion, RowFacts DEF Registry!LoadInv
  <2>10. \A x \in DOMAIN draft :
           x \in Ids /\ draft[x] \in Candidates[x] /\ draft[x] \in Registry!Versions(x)
           /\ draft[x] # None
    BY <2>5, <2>6, <2>9, CandidateIsVersion
  <2>11. Registry!IsSession(new)
    BY <2>2, <2>4, <2>10 DEF Registry!IsSession, Registry!Loading, new
  <2>12. SparesOthers(s, draft)
    <3>1. \A o \in Sessions \ {s} : DOMAIN draft \cap DOMAIN session[o].draft = {}
      BY <1>1, <2>6 DEF Registry!LocksInv, Registry!InsertWaits, Registry!Held
    <3> QED
      BY <2>10, <3>1, SparesWithoutEnds
  <2>13. ASSUME NEW x \in Registry!Range(batch)
         PROVE  /\ rows[x] = None
                /\ \A f \in DOMAIN Row(x).refs : Row(x).refs[f] # None =>
                      /\ Registry!Version(s, Row(x).refs[f]) # None
                      /\ ~Registry!Held(s, Row(x).refs[f])
    <3>1. Registry!InsertSucceeds(s, x, Row(x)) /\ ~Registry!InsertWaits(s, x, Row(x))
      BY <1>1, <1>3
    <3> QED
      BY <2>9, <3>1 DEF Registry!InsertSucceeds, Registry!InsertWaits, Registry!Version
  <2>14. DraftKept(s, draft)
    <3> SUFFICES ASSUME NEW x \in DOMAIN draft,
                        NEW f \in DOMAIN draft[x].refs, draft[x].refs[f] # None
                 PROVE  /\ draft[x].refs[f] \notin DOMAIN draft => rows[draft[x].refs[f]] # None
                        /\ \A o \in Sessions \ {s} :
                             draft[x].refs[f] \in DOMAIN session[o].draft =>
                                session[o].draft[draft[x].refs[f]] # None
      BY <2>10 DEF DraftKept
    <3>1. CASE x \in Registry!Range(batch)
      BY <2>6, <2>13, <3>1 DEF Registry!Version, Registry!Held
    <3>2. CASE x \notin Registry!Range(batch)
      BY <1>1, <2>6, <2>9, <3>2 DEF Registry!Version, Registry!KeptInv
    <3> QED
      BY <3>1, <3>2
  <2>15. Registry!LoadInv(s)'
    <3>1. \A x \in DOMAIN draft : rows[x] = None
      BY <2>6, <2>9, <2>13
    <3>2. Registry!Range(session[s].load) = DOMAIN draft \cup Registry!Range(rest)
      BY <2>2, <2>4, <2>6 DEF Registry!LoadInv, queue
    <3>3. /\ Registry!Range(new.load) = DOMAIN new.draft \cup Registry!Range(new.queue)
          /\ \A x \in DOMAIN new.draft : rows[x] = None /\ new.draft[x] \in Candidates[x]
          /\ \A x \in Registry!Range(new.load) :
                Candidates[x] # {} /\ \A c \in Candidates[x] : c.table \in Registry!Telemetry
      BY <2>2, <2>7, <2>10, <3>1, <3>2 DEF Registry!LoadInv
    <3> QED
      BY <2>1, <2>8, <3>3 DEF Registry!LoadInv
  <2>16. Registry!DraftInv(s)'
    BY <2>7, <2>8, <2>15, RegistryConstants DEF Registry!DraftInv
  <2> QED
    BY <2>1, <2>7, <2>11, <2>12, <2>14, <2>16, SessionStep
<1>4. QED
  BY <1>2, <1>3

-----------------------------------------------------------------------------
(* The asset registry: a commit.                                           *)

\* The rows after a commit of s are those of its draft and, for the rest, the
\* committed ones.
LEMMA CommitFacts ==
    ASSUME Registry!RegistryInv, NEW s \in Sessions, Registry!Commit(s)
    PROVE  /\ session[s].op # None /\ session[s].queue = <<>>
           /\ \A x \in Ids : rows'[x] = Registry!Version(s, x)
           /\ rows' = [x \in Ids |-> Registry!Version(s, x)]
           /\ \A x \in Ids \ DOMAIN session[s].draft : rows'[x] = rows[x]
           /\ \A x \in DOMAIN session[s].draft : x \in Ids /\ rows'[x] = session[s].draft[x]
           /\ session'[s] = Registry!Idle /\ \A o \in Sessions \ {s} : session'[o] = session[o]
           /\ session' = [o \in Sessions |-> session'[o]]
<1>1. Registry!SessionType
  BY DEF Registry!RegistryInv
<1>2. \A x \in DOMAIN session[s].draft : x \in Ids
  BY <1>1, DraftRows
<1>3. rows' = [x \in Ids |-> Registry!Version(s, x)] /\ session' = [session EXCEPT ![s] = Registry!Idle]
  BY DEF Registry!Commit
<1>4. \A x \in Ids : rows'[x] = Registry!Version(s, x)
  BY <1>3
<1>5. /\ \A x \in Ids \ DOMAIN session[s].draft : rows'[x] = rows[x]
      /\ \A x \in DOMAIN session[s].draft : rows'[x] = session[s].draft[x]
  BY <1>2, <1>4 DEF Registry!Version
<1>6. /\ session'[s] = Registry!Idle /\ \A o \in Sessions \ {s} : session'[o] = session[o]
      /\ session' = [o \in Sessions |-> session'[o]]
  BY <1>1, <1>3 DEF Registry!SessionType
<1>7. QED
  BY <1>2, <1>3, <1>4, <1>5, <1>6 DEF Registry!Commit

\* What a commit makes of a row that was there: the same row, one with another
\* status, one with references cut, or nothing.
LEMMA CommittedRow ==
    ASSUME Registry!RegistryInv, NEW s \in Sessions, Registry!Commit(s), NEW x \in Ids, rows[x] # None
    PROVE  /\ rows'[x] = None =>
                session[s].op = "delete" /\ (x = session[s].target \/ rows[x].table = "scada")
           /\ rows'[x] # None =>
                /\ DOMAIN rows'[x].refs = DOMAIN rows[x].refs
                /\ \A f \in DOMAIN rows[x].refs :
                     \/ rows'[x].refs[f] = rows[x].refs[f]
                     \/ rows'[x].refs[f] = None /\ Registry!OnDelete[rows[x].table][f] # "restrict"
<1>1. Registry!RowsInv /\ Registry!SessionType /\ Registry!DraftInv(s)
      /\ rows[x] \in Registry!Versions(x)
  BY DEF Registry!RegistryInv, Registry!RowsInv
<1>2. CASE x \notin DOMAIN session[s].draft
  BY <1>2, CommitFacts
<1>3. CASE x \in DOMAIN session[s].draft
  <2> DEFINE draft == session[s].draft
  <2>1. rows'[x] = draft[x]
    BY <1>3, CommitFacts
  <2>2. rows'[x] = None =>
           session[s].op = "delete" /\ (x = session[s].target \/ rows[x].table = "scada")
    BY <1>3, <2>1, EndOfRow
  <2>3. session[s].op \in {"create", "update", "delete", "load"}
    BY <1>1, CommitFacts DEF Registry!SessionType, Registry!IsSession
  <2>4. session[s].op # "create" /\ session[s].op # "load"
    BY <1>1, <1>3 DEF Registry!DraftInv, Registry!CreateInv, Registry!LoadInv
  <2>5. CASE session[s].op = "update"
    <3>1. draft[x] = [rows[x] EXCEPT !.status = "decommissioned"]
      BY <1>1, <1>3, <2>5 DEF Registry!DraftInv, Registry!UpdateInv
    <3>2. draft[x].refs = rows[x].refs
      BY <1>1, <3>1, UpdatedRow
    <3> QED
      BY <2>1, <2>2, <3>2
  <2>6. CASE session[s].op = "delete"
    <3> DEFINE target == session[s].target
    <3>1. Registry!DeleteInv(s)
      BY <1>1, <2>6 DEF Registry!DraftInv
    <3> SUFFICES ASSUME rows'[x] # None
                 PROVE  /\ DOMAIN rows'[x].refs = DOMAIN rows[x].refs
                        /\ \A f \in DOMAIN rows[x].refs :
                             \/ rows'[x].refs[f] = rows[x].refs[f]
                             \/ /\ rows'[x].refs[f] = None
                                /\ Registry!OnDelete[rows[x].table][f] # "restrict"
      BY <2>2
    <3>2. x # target /\ x \in Registry!Touched(s) /\ target \in Ids
      BY <1>3, <2>1, <3>1 DEF Registry!DeleteInv
    <3>3. draft[x] = Registry!AfterDelete(rows[x], target)
      BY <3>1, <3>2 DEF Registry!DeleteInv
    <3>4. /\ DOMAIN draft[x].refs = DOMAIN rows[x].refs
          /\ \A f \in DOMAIN rows[x].refs : draft[x].refs[f] =
               IF rows[x].refs[f] = target THEN None ELSE rows[x].refs[f]
      BY <1>1, <2>1, <3>2, <3>3, DeletedReference
    <3>5. \A f \in DOMAIN rows[x].refs :
             rows[x].refs[f] = target => Registry!OnDelete[rows[x].table][f] # "restrict"
      BY <3>1, <3>2 DEF Registry!DeleteInv, Registry!RefersBy, Registry!Rule
    <3> QED
      BY <2>1, <3>4, <3>5
  <2> QED
    BY <2>3, <2>4, <2>5, <2>6
<1>4. QED
  BY <1>2, <1>3

\* After a commit, too, references lead to rows.
LEMMA CommitResolves ==
    ASSUME Registry!RegistryInv, NEW s \in Sessions, Registry!Commit(s)
    PROVE  Registry!ReferencesResolve'
<1>1. Registry!RowsInv /\ Registry!SessionType /\ Registry!ReferencesResolve /\ Registry!KeptInv(s)
  BY DEF Registry!RegistryInv
<1>2. SUFFICES ASSUME NEW x \in Ids, rows'[x] # None,
                      NEW f \in DOMAIN rows'[x].refs, rows'[x].refs[f] # None
               PROVE  rows'[rows'[x].refs[f]] # None
  BY DEF Registry!ReferencesResolve
<1>3. CASE x \in DOMAIN session[s].draft
  <2>1. rows'[x] = session[s].draft[x] /\ rows'[x] \in Registry!Versions(x)
    BY <1>1, <1>2, <1>3, CommitFacts, DraftRows
  <2>2. rows'[x].refs[f] \in Ids
    BY <1>2, <2>1, ReferenceFacts
  <2>3. Registry!Version(s, rows'[x].refs[f]) # None
    BY <1>1, <1>2, <1>3, <2>1 DEF Registry!KeptInv
  <2> QED
    BY <2>2, <2>3, CommitFacts
<1>4. CASE x \notin DOMAIN session[s].draft
  <2>1. rows'[x] = rows[x] /\ rows[x] \in Registry!Versions(x)
    BY <1>1, <1>2, <1>4, CommitFacts DEF Registry!RowsInv
  <2>2. rows[x].refs[f] \in Ids /\ rows[rows[x].refs[f]] # None
    BY <1>1, <1>2, <2>1, ReferenceFacts DEF Registry!ReferencesResolve
  <2>3. rows[x].refs[f] \in DOMAIN session[s].draft => session[s].draft[rows[x].refs[f]] # None
    BY <1>2, <1>4, <2>1, ReferrersHeld
  <2> QED
    BY <2>1, <2>2, <2>3, CommitFacts
<1>5. QED
  BY <1>3, <1>4

\* What the other sessions hold is as it was, ...
LEMMA CommitKeepsDrafts ==
    ASSUME Registry!RegistryInv, NEW s \in Sessions, Registry!Commit(s), NEW o \in Sessions \ {s}
    PROVE  Registry!DraftInv(o)'
<1>1. Registry!DraftInv(o) /\ Registry!SessionType /\ Registry!LocksInv /\ Registry!KeptInv(s)
      /\ session'[o] = session[o]
  BY CommitFacts DEF Registry!RegistryInv
<1>2. \A x \in DOMAIN session[o].draft : rows'[x] = rows[x]
  BY <1>1, CommitFacts, DraftRows DEF Registry!LocksInv
<1>3. Registry!CreateInv(o) => Registry!CreateInv(o)'
  BY <1>1, <1>2 DEF Registry!CreateInv
<1>4. Registry!UpdateInv(o) => Registry!UpdateInv(o)'
  BY <1>1, <1>2 DEF Registry!UpdateInv
<1>5. Registry!LoadInv(o) => Registry!LoadInv(o)'
  BY <1>1, <1>2 DEF Registry!LoadInv
<1>6. ASSUME Registry!DeleteInv(o)
      PROVE  Registry!DeleteInv(o)'
  <2> DEFINE target == session[o].target
  <2>1. Registry!Touched(o) \subseteq DOMAIN session[o].draft /\ target \in DOMAIN session[o].draft
    BY <1>6 DEF Registry!DeleteInv
  <2>2. ASSUME NEW x \in Ids \ DOMAIN session[o].draft
        PROVE  Registry!RefersBy(rows'[x], target) = {}
    <3>1. Registry!RefersBy(rows[x], target) = {}
      BY <2>1 DEF Registry!Touched
    <3>2. CASE x \notin DOMAIN session[s].draft
      BY <3>1, <3>2, CommitFacts
    <3>3. CASE x \in DOMAIN session[s].draft
      <4> SUFFICES ASSUME session[s].draft[x] # None,
                          NEW f \in DOMAIN session[s].draft[x].refs,
                          session[s].draft[x].refs[f] = target
                   PROVE  FALSE
        BY <3>3, CommitFacts DEF Registry!RefersBy
      <4>1. target # None /\ session[o].draft[target] = None
        BY <1>6, RegistryConstants DEF Registry!DeleteInv
      <4> QED
        BY <1>1, <2>1, <3>3, <4>1 DEF Registry!KeptInv
    <3> QED
      BY <3>2, <3>3
  <2>3. Registry!Touched(o)' = Registry!Touched(o)
    <3>1. Registry!Touched(o)' = {x \in Ids : Registry!RefersBy(rows'[x], target) # {}}
      BY <1>1 DEF Registry!Touched
    <3>2. \A x \in Ids : Registry!RefersBy(rows'[x], target) # {} <=> Registry!RefersBy(rows[x], target) # {}
      BY <1>2, <2>1, <2>2 DEF Registry!Touched
    <3> QED
      BY <3>1, <3>2 DEF Registry!Touched
  <2> QED
    BY <1>1, <1>2, <1>6, <2>1, <2>3 DEF Registry!DeleteInv
<1>7. QED
  BY <1>1, <1>3, <1>4, <1>5, <1>6 DEF Registry!DraftInv

\* ... and what their drafts refer to is still there.
LEMMA CommitKeepsReferences ==
    ASSUME Registry!RegistryInv, NEW s \in Sessions, Registry!Commit(s), NEW o \in Sessions \ {s}
    PROVE  Registry!KeptInv(o)'
<1>1. Registry!SessionType /\ Registry!LocksInv /\ Registry!KeptInv(o) /\ session'[o] = session[o]
  BY CommitFacts DEF Registry!RegistryInv
<1> SUFFICES ASSUME NEW x \in DOMAIN session[o].draft, session[o].draft[x] # None,
                    NEW f \in DOMAIN session[o].draft[x].refs,
                    session[o].draft[x].refs[f] # None
             PROVE  /\ Registry!Version(o, session[o].draft[x].refs[f])' # None
                    /\ \A p \in Sessions \ {o} :
                         session[o].draft[x].refs[f] \in DOMAIN session'[p].draft =>
                            session'[p].draft[session[o].draft[x].refs[f]] # None
  BY <1>1 DEF Registry!KeptInv
<1> DEFINE y == session[o].draft[x].refs[f]
<1>2. x \in Ids /\ session[o].draft[x] \in Registry!Versions(x)
  BY <1>1, DraftRows
<1>3. y \in Ids
  BY <1>2, ReferenceFacts
<1>4. /\ Registry!Version(o, y) # None
      /\ \A p \in Sessions \ {o} : y \in DOMAIN session[p].draft => session[p].draft[y] # None
  BY <1>1 DEF Registry!KeptInv
<1>5. y \notin DOMAIN session[o].draft => rows'[y] # None
  BY <1>3, <1>4, CommitFacts DEF Registry!Version
<1>6. Registry!Version(o, y)' # None
  BY <1>1, <1>4, <1>5 DEF Registry!Version
<1>7. \A p \in Sessions \ {o} : y \in DOMAIN session'[p].draft => session'[p].draft[y] # None
  BY <1>4, CommitFacts, IdleFacts
<1>8. QED
  BY <1>6, <1>7

\* A commit adds at most one piece of equipment, which nothing there names as
\* its parent, and gives none another parent.
LEMMA CommitAcyclic ==
    ASSUME Registry!RegistryInv, NEW s \in Sessions, Registry!Commit(s)
    PROVE  Registry!HierarchyIsAcyclic'
<1>1. /\ Registry!RowsInv /\ Registry!SessionType /\ Registry!DraftInv(s) /\ Registry!KeptInv(s)
      /\ Registry!ReferencesResolve /\ Registry!HierarchyIsAcyclic
  BY DEF Registry!RegistryInv
<1> SUFFICES ASSUME NEW group \in SUBSET {x \in Ids : rows'[x] # None /\ rows'[x].table = "equipment"},
                    group # {}
             PROVE  \E e \in group : rows'[e].refs.parent \notin group
  BY DEF Registry!HierarchyIsAcyclic
<1>2. \A x \in Ids : rows'[x] # None => rows'[x] \in Registry!Versions(x)
  BY <1>1, CommitFacts, DraftRows DEF Registry!RowsInv, Registry!Version
<1>3. ASSUME NEW e \in group
      PROVE  "parent" \in DOMAIN rows'[e].refs
  <2>1. e \in Ids /\ rows'[e] \in Registry!Versions(e) /\ rows'[e].table = "equipment"
    BY <1>2
  <2> QED
    BY <2>1, ReferenceFacts, RuleTable
<1> DEFINE known == {x \in group : rows[x] # None}
\* Equipment that was there has its parent, or none.
<1>4. ASSUME NEW e \in known
      PROVE  /\ e \in Ids /\ rows[e] # None /\ rows[e] \in Registry!Versions(e)
             /\ rows[e].table = "equipment" /\ "parent" \in DOMAIN rows[e].refs
             /\ rows'[e].refs.parent \in {rows[e].refs.parent, None}
  <2>1. e \in Ids /\ rows[e] # None /\ rows'[e] # None /\ rows'[e].table = "equipment"
    OBVIOUS
  <2>2. rows[e] \in Registry!Versions(e) /\ rows'[e] \in Registry!Versions(e)
    BY <1>1, <1>2, <2>1 DEF Registry!RowsInv
  <2>3. rows[e].table = "equipment"
    BY <2>1, <2>2, RowFacts
  <2>4. "parent" \in DOMAIN rows[e].refs
    BY <1>3, <2>1, CommittedRow
  <2> QED
    BY <2>1, <2>2, <2>3, <2>4, CommittedRow
<1>5. CASE known # {}
  <2>1. known \in SUBSET {x \in Ids : rows[x] # None /\ rows[x].table = "equipment"}
    BY <1>4
  <2>2. PICK e \in known : rows[e].refs.parent \notin known
    BY <1>1, <1>5, <2>1 DEF Registry!HierarchyIsAcyclic
  <2>3. rows[e].refs.parent # None => rows[rows[e].refs.parent] # None
    BY <1>1, <1>4 DEF Registry!ReferencesResolve
  <2>4. rows'[e].refs.parent \notin group
    BY <1>4, <2>2, <2>3, RegistryConstants
  <2> QED
    BY <2>4
<1>6. CASE known = {}
  \* Then all of it is new: the one row of a creation.
  <2>1. PICK e \in group : TRUE
    OBVIOUS
  <2>2. \A x \in group : x \in Ids /\ rows[x] = None /\ rows'[x] # None
    BY <1>6
  <2>3. \A x \in group : x \in DOMAIN session[s].draft /\ rows'[x] = session[s].draft[x]
    BY <2>2, CommitFacts
  <2>4. session[s].op \in {"create", "update", "delete", "load"}
    BY <1>1, CommitFacts DEF Registry!SessionType, Registry!IsSession
  <2>5. session[s].op # "update"
    BY <1>1, <2>1, <2>2, <2>3 DEF Registry!DraftInv, Registry!UpdateInv
  <2>6. session[s].op # "delete"
    <3> SUFFICES ASSUME session[s].op = "delete" PROVE FALSE
      OBVIOUS
    <3>1. e = session[s].target \/ e \in Registry!Touched(s)
      BY <1>1, <2>3 DEF Registry!DraftInv, Registry!DeleteInv
    <3>2. rows[e] # None
      BY <1>1, <3>1 DEF Registry!DraftInv, Registry!DeleteInv, Registry!Touched,
         Registry!RefersBy
    <3> QED
      BY <2>2, <3>2
  <2>7. session[s].op # "load"
    <3> SUFFICES ASSUME session[s].op = "load" PROVE FALSE
      OBVIOUS
    <3>1. Registry!LoadInv(s)
      BY <1>1 DEF Registry!DraftInv
    <3>2. e \in Registry!Range(session[s].load) /\ session[s].draft[e] \in Candidates[e]
      BY <2>3, <3>1 DEF Registry!LoadInv
    <3>3. session[s].draft[e].table \in Registry!Telemetry
      BY <3>1, <3>2 DEF Registry!LoadInv
    <3> QED
      BY <2>3, <3>3 DEF Registry!Telemetry
  <2>8. Registry!CreateInv(s)
    BY <1>1, <2>4, <2>5, <2>6, <2>7 DEF Registry!DraftInv
  <2>9. group = {session[s].target} /\ rows'[e].refs.parent # session[s].target
    BY <1>3, <2>1, <2>3, <2>8 DEF Registry!CreateInv
  <2> QED
    BY <2>9
<1>7. QED
  BY <1>5, <1>6

\* A commit keeps the invariant: what the foreign keys accept resolves, and closes no cycle.
LEMMA RegistryCommit ==
    ASSUME Registry!RegistryInv, NEW s \in Sessions, Registry!Commit(s)
    PROVE  Registry!RegistryInv'
<1>1. Registry!RowsInv /\ Registry!SessionType /\ Registry!LocksInv
  BY DEF Registry!RegistryInv
<1>2. Registry!RowsInv'
  <2>1. \A x \in Ids : rows'[x] # None => rows'[x] \in Registry!Versions(x)
    BY <1>1, CommitFacts, DraftRows DEF Registry!RowsInv, Registry!Version
  <2>2. rows' = [x \in Ids |-> rows'[x]]
    BY CommitFacts
  <2> QED
    BY <2>1, <2>2 DEF Registry!RowsInv, Registry!Versions, Registry!Nulled
<1>3. Registry!SessionType'
  <2>1. Registry!IsSession(Registry!Idle)
    BY IdleFacts DEF Registry!IsSession
  <2>2. \A o \in Sessions : Registry!IsSession(session'[o])
    BY <1>1, <2>1, CommitFacts DEF Registry!SessionType
  <2>3. \A o \in Sessions : Registry!IsSession(session[o])'
    BY <2>2 DEF Registry!IsSession, Registry!Versions, Registry!Nulled
  <2> QED
    BY <2>3, CommitFacts DEF Registry!SessionType
<1>4. Registry!LocksInv'
  BY <1>1, CommitFacts, IdleFacts DEF Registry!LocksInv
<1>5. ASSUME NEW o \in Sessions
      PROVE  Registry!DraftInv(o)' /\ Registry!KeptInv(o)'
  <2>1. CASE o = s
    <3>1. session'[o] = Registry!Idle
      BY <2>1, CommitFacts
    <3>2. Registry!DraftInv(o)'
      BY <3>1, IdleFacts, RegistryConstants DEF Registry!DraftInv, Registry!Idle
    <3>3. Registry!KeptInv(o)'
      BY <3>1, IdleFacts DEF Registry!KeptInv
    <3> QED
      BY <3>2, <3>3
  <2>2. CASE o # s
    BY <2>2, CommitKeepsDrafts, CommitKeepsReferences
  <2> QED
    BY <2>1, <2>2
<1>6. QED
  BY <1>2, <1>3, <1>4, <1>5, CommitResolves, CommitAcyclic DEF Registry!RegistryInv

-----------------------------------------------------------------------------
(* The asset registry: every step, and what follows.                       *)

\* The registry begins empty.
LEMMA RegistryInitial ==
    ASSUME Registry!Init
    PROVE  Registry!RegistryInv
<1>1. /\ rows = [x \in Ids |-> None] /\ session = [s \in Sessions |-> Registry!Idle]
      /\ \A x \in Ids : rows[x] = None
      /\ \A s \in Sessions : session[s] = Registry!Idle
  BY DEF Registry!Init
<1>2. Registry!IsSession(Registry!Idle)
  BY IdleFacts DEF Registry!IsSession
<1>3. Registry!RowsInv /\ Registry!ReferencesResolve
  BY <1>1 DEF Registry!RowsInv, Registry!ReferencesResolve
<1>4. Registry!SessionType
  BY <1>1, <1>2 DEF Registry!SessionType
<1>5. Registry!LocksInv
  BY <1>1, IdleFacts DEF Registry!LocksInv
<1>6. Registry!HierarchyIsAcyclic
  BY <1>1 DEF Registry!HierarchyIsAcyclic
<1>7. ASSUME NEW s \in Sessions
      PROVE  Registry!DraftInv(s) /\ Registry!KeptInv(s)
  <2>1. session[s].op = None /\ session[s].queue = <<>> /\ DOMAIN session[s].draft = {}
    BY <1>1, IdleFacts
  <2> QED
    BY <1>1, <2>1, RegistryConstants DEF Registry!DraftInv, Registry!KeptInv
<1>8. QED
  BY <1>3, <1>6, <1>7, <1>4, <1>5 DEF Registry!RegistryInv

\* Who takes a step, and which one.
LEMMA RegistrySteps ==
    ASSUME Registry!Next
    PROVE  \E s \in Sessions :
             \/ \E id \in Ids :
                  \/ \E row \in Candidates[id] : Registry!Create(s, id, row)
                  \/ Registry!Update(s, id, "decommissioned")
                  \/ Registry!Delete(s, id)
             \/ \E load \in Loads : Registry!StartLoad(s, load)
             \/ Registry!LoadBatch(s)
             \/ Registry!Commit(s)
             \/ Registry!Abort(s)
<1>1. \A t : Registry!KeysOf(t) \subseteq Ids
  BY DEF Registry!KeysOf
<1>2. PICK s \in Sessions :
        \/ Registry!PlantService(s) \/ Registry!EquipmentService(s) \/ Registry!OperationalService(s)
        \/ \E load \in Loads : Registry!StartLoad(s, load)
        \/ Registry!LoadBatch(s) \/ Registry!Commit(s) \/ Registry!Abort(s)
  BY DEF Registry!Next
<1>3. QED
  BY <1>1, <1>2 DEF Registry!PlantService, Registry!EquipmentService,
     Registry!OperationalService

\* Every step of the registry keeps the invariant.
LEMMA RegistryNext ==
    ASSUME Registry!RegistryInv, Registry!Next \/ UNCHANGED registry
    PROVE  Registry!RegistryInv'
<1>1. CASE Registry!Next
  <2>1. PICK s \in Sessions :
             \/ \E id \in Ids :
                  \/ \E row \in Candidates[id] : Registry!Create(s, id, row)
                  \/ Registry!Update(s, id, "decommissioned")
                  \/ Registry!Delete(s, id)
             \/ \E load \in Loads : Registry!StartLoad(s, load)
             \/ Registry!LoadBatch(s)
             \/ Registry!Commit(s)
             \/ Registry!Abort(s)
    BY <1>1, RegistrySteps
  <2>2. Registry!Abort(s) => Registry!Rollback(s)
    BY DEF Registry!Abort
  <2> QED
    BY <2>1, <2>2, RegistryCreate, RegistryUpdate, RegistryDelete, RegistryStartLoad,
       RegistryLoadBatch, RegistryCommit, RegistryRollback
<1>2. CASE UNCHANGED registry
  <2>1. rows' = rows /\ session' = session
    BY <1>2 DEF registry
  <2>2. Registry!RowsInv' <=> Registry!RowsInv
    BY <2>1 DEF Registry!RowsInv
  <2>3. Registry!SessionType' <=> Registry!SessionType
    BY <2>1 DEF Registry!SessionType
  <2>4. Registry!LocksInv' <=> Registry!LocksInv
    BY <2>1 DEF Registry!LocksInv
  <2>5. \A s \in Sessions : Registry!DraftInv(s)' <=> Registry!DraftInv(s)
    BY <2>1 DEF Registry!DraftInv, Registry!CreateInv, Registry!UpdateInv, Registry!DeleteInv,
       Registry!Touched, Registry!LoadInv
  <2>6. \A s \in Sessions : Registry!KeptInv(s)' <=> Registry!KeptInv(s)
    BY <2>1 DEF Registry!KeptInv, Registry!Version
  <2>7. Registry!ReferencesResolve' <=> Registry!ReferencesResolve
    BY <2>1 DEF Registry!ReferencesResolve
  <2>8. Registry!HierarchyIsAcyclic' <=> Registry!HierarchyIsAcyclic
    BY <2>1 DEF Registry!HierarchyIsAcyclic
  <2> QED
    BY <2>2, <2>3, <2>4, <2>5, <2>6, <2>7, <2>8 DEF Registry!RegistryInv
<1>3. QED
  BY <1>1, <1>2

\* No step but a commit changes a row.
LEMMA OnlyCommits ==
    ASSUME Registry!Next, rows' # rows
    PROVE  \E s \in Sessions : Registry!Commit(s)
BY RegistrySteps
   DEF Registry!Create, Registry!Update, Registry!Delete, Registry!StartLoad, Registry!LoadBatch,
       Registry!Abort, Registry!Rollback, Registry!Begin

\* The invariant types the registry.
LEMMA RegistryTypes ==
    ASSUME Registry!RegistryInv
    PROVE  Registry!TypeOK
<1>1. /\ Registry!RowsInv /\ Registry!SessionType /\ \A s \in Sessions : Registry!DraftInv(s)
  BY DEF Registry!RegistryInv
<1>2. ASSUME NEW id \in Ids, rows[id] # None
      PROVE  \E c \in Candidates[id] : rows[id].table = c.table /\ rows[id].serial = c.serial
  <2>1. rows[id] \in Registry!Versions(id)
    BY <1>1, <1>2 DEF Registry!RowsInv
  <2>2. PICK c \in Candidates[id] :
          rows[id] \in [table : {c.table}, serial : {c.serial},
                        status : {c.status, "decommissioned"}, refs : Registry!Nulled(c.refs)]
    BY <2>1, RowFacts
  <2> QED
    BY <2>2
<1>3. ASSUME NEW s \in Sessions
      PROVE  /\ session[s].op \in {None, "create", "update", "delete", "load"}
             /\ session[s].op = None => session[s] = Registry!Idle
             /\ session[s].queue # <<>> => session[s].op = "load"
  BY <1>1 DEF Registry!SessionType, Registry!IsSession, Registry!DraftInv
<1>4. QED
  BY <1>2, <1>3 DEF Registry!TypeOK

\* What a commit leaves of the alarms, incidents and work orders.
LEMMA HistoryOutlives ==
    ASSUME Registry!RegistryInv, Registry!Next \/ UNCHANGED registry
    PROVE  Registry!HistoryOutlivesAssets
<1> SUFFICES ASSUME NEW id \in Ids, rows[id] # None
             PROVE  /\ rows'[id] = None =>
                         \/ \E s \in Sessions : session[s].op = "delete" /\ session[s].target = id
                         \/ rows[id].table = "scada"
                    /\ (/\ rows[id].table \in {"alarms", "incidents", "work_orders"}
                        /\ rows'[id] # None) =>
                         \A f \in {"plant", "equipment"} : rows'[id].refs[f] = rows[id].refs[f]
  BY DEF Registry!HistoryOutlivesAssets
<1>1. CASE rows' = rows
  BY <1>1
<1>2. CASE rows' # rows
  <2>1. PICK s \in Sessions : Registry!Commit(s)
    BY <1>2, OnlyCommits DEF registry
  <2>2. rows[id] \in Registry!Versions(id)
    BY DEF Registry!RegistryInv, Registry!RowsInv
  <2>3. ASSUME rows[id].table \in {"alarms", "incidents", "work_orders"},
               NEW f \in {"plant", "equipment"}
        PROVE  f \in DOMAIN rows[id].refs /\ Registry!OnDelete[rows[id].table][f] = "restrict"
    BY <2>2, <2>3, ReferenceFacts, RuleTable
  <2> QED
    BY <2>1, <2>3, CommittedRow
<1>3. QED
  BY <1>1, <1>2

\* Every step shows all rows of a load or none.
LEMMA LoadsAtomic ==
    ASSUME Registry!RegistryInv, Registry!Next \/ UNCHANGED registry
    PROVE  Registry!LoadsAreAtomic
<1> SUFFICES ASSUME NEW s \in Sessions, session[s].op = "load", rows' # rows,
                    session'[s] = Registry!Idle,
                    NEW id \in Registry!Range(session[s].load)
             PROVE  rows[id] = None /\ rows'[id] # None
  BY DEF Registry!LoadsAreAtomic
<1>1. PICK o \in Sessions : Registry!Commit(o)
  BY OnlyCommits DEF registry
<1>2. o = s
  BY <1>1, CommitFacts, IdleFacts, RegistryConstants
<1>3. Registry!LoadInv(s) /\ Registry!SessionType /\ session[s].queue = <<>>
  BY <1>1, <1>2, CommitFacts DEF Registry!RegistryInv, Registry!DraftInv
<1>4. id \in DOMAIN session[s].draft
  BY <1>3 DEF Registry!LoadInv, Registry!Range
<1>5. rows[id] = None /\ session[s].draft[id] # None
  BY <1>3, <1>4, DraftRows, CandidateIsVersion, RowFacts DEF Registry!LoadInv
<1>6. QED
  BY <1>1, <1>2, <1>4, <1>5, CommitFacts

-----------------------------------------------------------------------------
(* The stored runs: the rows of a frame and the values that are wanted.    *)

\* The module of the stores speaks of cardinality and injections as this one does.
LEMMA SameOperators ==
    \A T : /\ RunStores!Cardinality(T) = Cardinality(T) /\ RunStores!IsFiniteSet(T) = IsFiniteSet(T)
           /\ RunStores!IsInjective(T) = IsInjective(T)
<1> TAKE T
<1>1. RunStores!Cardinality(T) = Cardinality(T)
  BY Zenon DEF RunStores!Cardinality, Cardinality
<1>2. RunStores!IsFiniteSet(T) = IsFiniteSet(T)
  BY DEF RunStores!IsFiniteSet, IsFiniteSet
<1>3. RunStores!IsInjective(T) = IsInjective(T)
  BY DEF RunStores!IsInjective, IsInjective
<1>4. QED
  BY <1>1, <1>2, <1>3

\* A frame without a timestamp twice has as many rows in the table as in
\* memory, and as many anomalies.
LEMMA RowsCount ==
    ASSUME NEW r \in Runs, NEW frame \in Frames, IsInjective([k \in DOMAIN frame |-> frame[k][1]])
    PROVE  /\ RunStores!Rows(r, frame) \subseteq RunStores!RunValue
              /\ IsFiniteSet(RunStores!Rows(r, frame))
           /\ Cardinality(RunStores!Rows(r, frame)) = Len(frame)
           /\ Cardinality({v \in RunStores!Rows(r, frame) : v.flagged}) = Cardinality(RunStores!Flagged(frame))
           /\ Cardinality(RunStores!Flagged(frame)) \in Nat
           /\ \A v, w \in RunStores!Rows(r, frame) : v.at = w.at => v = w
<1> DEFINE D == 1..Len(frame)
           rowOf == [k \in D |-> [run |-> r, at |-> frame[k][1], flagged |-> frame[k][2]]]
           F == {k \in D : frame[k][2]}
           flaggedOf == [k \in F |-> rowOf[k]]
           G == {v \in RunStores!Rows(r, frame) : v.flagged}
<1>1. /\ frame \in Seq(Nat \X BOOLEAN) /\ DOMAIN frame = D /\ Len(frame) \in Nat
      /\ \A k \in D : frame[k][1] \in Nat /\ frame[k][2] \in BOOLEAN
  BY RunsConstants DEF RunStores!FramesFit
<1>2. RunStores!Rows(r, frame) = {rowOf[k] : k \in D}
  BY <1>1 DEF RunStores!Rows
<1>3. \A k \in D : /\ rowOf[k] \in RunStores!RunValue
                   /\ rowOf[k].at = frame[k][1] /\ rowOf[k].flagged = frame[k][2]
  BY <1>1 DEF RunStores!RunValue
<1>4. \A k, l \in D : frame[k][1] = frame[l][1] => k = l
  BY <1>1 DEF IsInjective
<1> HIDE DEF rowOf
<1>5. /\ RunStores!Rows(r, frame) \subseteq RunStores!RunValue
      /\ \A v, w \in RunStores!Rows(r, frame) : v.at = w.at => v = w
  BY <1>2, <1>3, <1>4
<1>6. rowOf \in Bijection(D, RunStores!Rows(r, frame))
  <2>1. rowOf \in [D -> RunStores!Rows(r, frame)]
    BY <1>2 DEF rowOf
  <2>2. IsInjective(rowOf)
    BY <2>1, <1>3, <1>4 DEF IsInjective
  <2> QED
    BY <2>1, <2>2, <1>2 DEF Bijection, Injection, Surjection
<1>7. IsFiniteSet(D) /\ Cardinality(D) = Len(frame)
  <2>1. 1 \in Int /\ Len(frame) \in Int
    BY <1>1
  <2>2. IsFiniteSet(D) /\ Cardinality(D) = IF 1 > Len(frame) THEN 0 ELSE Len(frame) - 1 + 1
    BY <2>1, FS_Interval
  <2> QED
    BY <2>2, <1>1
<1>8. IsFiniteSet(RunStores!Rows(r, frame)) /\ Cardinality(RunStores!Rows(r, frame)) = Len(frame)
  <2>1. ExistsBijection(D, RunStores!Rows(r, frame))
    BY <1>6 DEF ExistsBijection
  <2> QED
    BY <1>7, <2>1, FS_Bijection
<1>9. RunStores!Flagged(frame) = F /\ IsFiniteSet(F) /\ Cardinality(F) \in Nat
  BY <1>1, <1>7, FS_Subset, FS_CardinalityType DEF RunStores!Flagged
<1>10. flaggedOf \in Bijection(F, G)
  <2>1. flaggedOf \in [F -> G]
    BY <1>1, <1>2, <1>3
  <2>2. IsInjective(flaggedOf)
    BY <2>1, <1>3, <1>4 DEF IsInjective
  <2>3. \A v \in G : \E k \in F : flaggedOf[k] = v
    BY <1>2, <1>3
  <2> QED
    BY <2>1, <2>2, <2>3 DEF Bijection, Injection, Surjection
<1>11. Cardinality(G) = Cardinality(F)
  <2>1. ExistsBijection(F, G)
    BY <1>10 DEF ExistsBijection
  <2> QED
    BY <1>9, <2>1, FS_Bijection
<1>12. QED
  BY <1>5, <1>8, <1>9, <1>11

\* Of rows that differ in their timestamps the first Horizon are read, or all
\* when there are fewer.
LEMMA FirstCount ==
    ASSUME NEW T \in SUBSET RunStores!RunValue, IsFiniteSet(T), \A v, w \in T : v.at = w.at => v = w
    PROVE  Cardinality(RunStores!FirstValues(T)) =
               IF Cardinality(T) < Horizon THEN Cardinality(T) ELSE Horizon
<1> DEFINE n == Cardinality(T)
           Before(v) == RunStores!Earlier(v, T)
           rank == [v \in T |-> Cardinality(Before(v))]
           m == IF n < Horizon THEN n ELSE Horizon
           first == RunStores!FirstValues(T)
           place == [v \in first |-> rank[v]]
<1>1. n \in Nat /\ Horizon \in Nat /\ m \in 0..n
  BY FS_CardinalityType, RunsConstants
<1>2. /\ \A v \in T : v.at \in Nat /\ Before(v) \in SUBSET T
      /\ \A v, w \in T : w \in Before(v) <=> w.at < v.at
      /\ \A v \in T : rank[v] = Cardinality(Before(v))
      /\ DOMAIN rank = T
      /\ first = {v \in T : Cardinality(Before(v)) < Horizon}
  <2>1. \A v \in T : v.at \in Nat
    BY DEF RunStores!RunValue
  <2>2. first = {v \in T : Cardinality(Before(v)) < Horizon}
    BY SameOperators DEF RunStores!FirstValues
  <2>3. \A v, w \in T : w \in Before(v) <=> w.at < v.at
    BY DEF RunStores!Earlier
  <2>4. \A v \in T : Before(v) \in SUBSET T
    BY DEF RunStores!Earlier
  <2> HIDE DEF Before, first
  <2> QED
    BY <2>1, <2>2, <2>3, <2>4
<1> HIDE DEF Before, rank, n, first
<1>3. \A v \in T : /\ IsFiniteSet(Before(v)) /\ Cardinality(Before(v)) \in Nat
                   /\ Cardinality(Before(v)) < n
  <2> TAKE v \in T
  <2>1. v \notin Before(v)
    BY <1>2
  <2>2. /\ IsFiniteSet(Before(v)) /\ Cardinality(Before(v)) <= n
        /\ n = Cardinality(Before(v)) => T = Before(v)
    BY <1>2, FS_Subset DEF n
  <2>3. Cardinality(Before(v)) \in Nat
    BY <2>2, FS_CardinalityType
  <2>4. n # Cardinality(Before(v))
    BY <2>1, <2>2
  <2> QED
    BY <2>2, <2>3, <2>4, <1>1
<1>4. \A v, w \in T : v.at < w.at => Cardinality(Before(v)) < Cardinality(Before(w))
  <2> TAKE v, w \in T
  <2> HAVE v.at < w.at
  <2>1. v \in Before(w) /\ v \notin Before(v) /\ \A u \in Before(v) : u \in Before(w)
    BY <1>2
  <2>2. Before(v) \in SUBSET Before(w)
    BY <2>1
  <2>3. /\ Cardinality(Before(v)) <= Cardinality(Before(w))
        /\ Cardinality(Before(w)) = Cardinality(Before(v)) => Before(w) = Before(v)
    BY <1>3, <2>2, FS_Subset
  <2>4. Cardinality(Before(v)) # Cardinality(Before(w))
    BY <2>1, <2>3
  <2> QED
    BY <2>3, <2>4, <1>3
<1>5. \A v, w \in T : rank[v] = rank[w] => v = w
  <2> TAKE v, w \in T
  <2> HAVE rank[v] = rank[w]
  <2>1. v.at = w.at
    BY <1>2, <1>3, <1>4
  <2> QED
    BY <2>1
<1>6. /\ first = {v \in T : rank[v] < Horizon}
      /\ \A v \in T : rank[v] \in 0..(n - 1)
  BY <1>1, <1>2, <1>3
<1>7. rank \in Injection(T, 0..(n - 1))
  <2>1. rank \in [T -> 0..(n - 1)]
    BY <1>6 DEF rank
  <2> QED
    BY <2>1, <1>5 DEF Injection, IsInjective
<1>8. IsFiniteSet(0..(n - 1)) /\ Cardinality(0..(n - 1)) = n
  <2>1. 0 \in Int /\ n - 1 \in Int
    BY <1>1
  <2>2. /\ IsFiniteSet(0..(n - 1))
        /\ Cardinality(0..(n - 1)) = IF 0 > n - 1 THEN 0 ELSE (n - 1) - 0 + 1
    BY <2>1, FS_Interval
  <2> QED
    BY <2>2, <1>1
<1>9. rank \in Surjection(T, 0..(n - 1))
  BY <1>7, <1>8, FS_Injection DEF n
<1>10. place \in Bijection(first, 0..(m - 1))
  <2>1. \A v \in first : v \in T /\ rank[v] \in 0..(m - 1)
    BY <1>6, <1>1
  <2>2. place \in [first -> 0..(m - 1)]
    BY <2>1
  <2>3. IsInjective(place)
    BY <2>1, <2>2, <1>5 DEF IsInjective
  <2>4. \A k \in 0..(m - 1) : \E v \in first : place[v] = k
    <3> TAKE k \in 0..(m - 1)
    <3>1. k \in 0..(n - 1) /\ k < Horizon
      BY <1>1
    <3>2. PICK v \in T : rank[v] = k
      BY <3>1, <1>9 DEF Surjection
    <3> QED
      BY <3>1, <3>2, <1>6
  <2> QED
    BY <2>2, <2>3, <2>4 DEF Bijection, Injection, Surjection
<1>11. Cardinality(0..(m - 1)) = Cardinality(first)
  <2>1. first \in SUBSET T
    BY <1>6
  <2>2. IsFiniteSet(first)
    BY <2>1, FS_Subset
  <2>3. ExistsBijection(first, 0..(m - 1))
    BY <1>10 DEF ExistsBijection
  <2> QED
    BY <2>2, <2>3, FS_Bijection
<1>12. Cardinality(0..(m - 1)) = m
  <2>1. m \in Nat /\ 0 \in Int /\ m - 1 \in Int
    BY <1>1
  <2>2. Cardinality(0..(m - 1)) = IF 0 > m - 1 THEN 0 ELSE (m - 1) - 0 + 1
    BY <2>1, FS_Interval
  <2> QED
    BY <2>1, <2>2
<1>13. QED
  BY <1>11, <1>12 DEF n, first

\* What a run is stored with agrees with its metadata.
LEMMA StoredRun ==
    ASSUME RunStores!StoredInv, NEW r \in RunStores!Stored
    PROVE  /\ r \in Runs /\ runs[r] \in RunStores!RunMetadata
           /\ IsFiniteSet(RunStores!RowsOf(r)) /\ RunStores!RowsOf(r) \subseteq RunStores!RunValue
           /\ Cardinality(RunStores!RowsOf(r)) = runs[r].row_count
           /\ Cardinality({v \in RunStores!RowsOf(r) : v.flagged}) = runs[r].anomaly_count
           /\ \A v, w \in RunStores!RowsOf(r) : v.at = w.at => v = w
<1>1. r \in Runs /\ runs[r] # None /\ runs[r] \in RunStores!RunMetadata
  BY DEF RunStores!StoredInv, RunStores!Stored
<1>2. PICK frame \in Frames, at \in 1..MaxGenerated :
        /\ RunStores!IsInjective([k \in DOMAIN frame |-> frame[k][1]])
        /\ runs[r] = RunStores!Metadata(frame, at) /\ RunStores!RowsOf(r) = RunStores!Rows(r, frame)
  BY DEF RunStores!StoredInv
<1>3. IsInjective([k \in DOMAIN frame |-> frame[k][1]])
  BY <1>2, SameOperators
<1>4. /\ runs[r].row_count = Len(frame)
      /\ runs[r].anomaly_count = Cardinality(RunStores!Flagged(frame))
  BY <1>2, SameOperators DEF RunStores!Metadata
<1>5. /\ RunStores!Rows(r, frame) \subseteq RunStores!RunValue /\ IsFiniteSet(RunStores!Rows(r, frame))
      /\ Cardinality(RunStores!Rows(r, frame)) = Len(frame)
      /\ Cardinality({v \in RunStores!Rows(r, frame) : v.flagged}) = Cardinality(RunStores!Flagged(frame))
      /\ \A v, w \in RunStores!Rows(r, frame) : v.at = w.at => v = w
  BY <1>1, <1>3, RowsCount
<1>6. QED
  BY <1>1, <1>2, <1>4, <1>5

\* A transaction that saves a run leaves the others as they were.
LEMMA SavedRun ==
    ASSUME RunStores!StoredInv, NEW r \in Runs, NEW frame \in Frames, NEW at \in 1..MaxGenerated,
           RunStores!Save(r, frame, at)
    PROVE  /\ r \notin RunStores!Stored /\ RunStores!Stored' = RunStores!Stored \cup {r}
           /\ runs'[r] = RunStores!Metadata(frame, at) /\ runs'[r] \in RunStores!RunMetadata
           /\ runs'[r].generated_at = at
           /\ \A q \in Runs : q # r => runs'[q] = runs[q]
           /\ RunStores!StoredInv'
<1>1. /\ runs[r] = None /\ r \notin RunStores!Stored
      /\ IsInjective([k \in DOMAIN frame |-> frame[k][1]])
      /\ runs' = [runs EXCEPT ![r] = RunStores!Metadata(frame, at)]
      /\ values' = values \cup RunStores!Rows(r, frame)
  BY SameOperators DEF RunStores!Save, RunStores!Stored
<1>2. /\ RunStores!Rows(r, frame) \subseteq RunStores!RunValue
      /\ Cardinality(RunStores!Flagged(frame)) \in Nat
  BY <1>1, RowsCount
<1>3. RunStores!Metadata(frame, at) \in RunStores!RunMetadata
      /\ RunStores!Metadata(frame, at).generated_at = at
  <2>1. Len(frame) \in Nat
    BY RunsConstants DEF RunStores!FramesFit
  <2> QED
    BY <1>2, <2>1, SameOperators DEF RunStores!Metadata, RunStores!RunMetadata
<1>4. /\ runs'[r] = RunStores!Metadata(frame, at)
         /\ runs' \in [Runs -> RunStores!RunMetadata \cup {None}]
      /\ \A q \in Runs : q # r => runs'[q] = runs[q]
  BY <1>1, <1>3 DEF RunStores!StoredInv
<1>5. runs'[r] # None
  BY <1>3, <1>4, RunsConstants
<1>6. RunStores!Stored' = RunStores!Stored \cup {r}
  BY <1>4, <1>5 DEF RunStores!Stored
<1>7. \A v \in RunStores!Rows(r, frame) : v.run = r
  BY DEF RunStores!Rows
<1>8. values' \subseteq RunStores!RunValue /\ \A v \in values' : v.run \in RunStores!Stored'
  BY <1>1, <1>2, <1>6, <1>7 DEF RunStores!StoredInv
<1>9. RunStores!RowsOf(r)' = RunStores!Rows(r, frame)
  <2>1. \A v \in values : v.run # r
    BY <1>1 DEF RunStores!StoredInv
  <2> QED
    BY <1>1, <1>7, <2>1 DEF RunStores!RowsOf
<1>10. \A q \in Runs : q # r => RunStores!RowsOf(q)' = RunStores!RowsOf(q)
  BY <1>1, <1>7 DEF RunStores!RowsOf
<1>11. \A q \in RunStores!Stored' : \E f \in Frames, t \in 1..MaxGenerated :
         /\ RunStores!IsInjective([k \in DOMAIN f |-> f[k][1]])
         /\ runs'[q] = RunStores!Metadata(f, t) /\ RunStores!RowsOf(q)' = RunStores!Rows(q, f)
  <2> TAKE q \in RunStores!Stored'
  <2>1. CASE q = r
    BY <2>1, <1>1, <1>4, <1>9, SameOperators
  <2>2. CASE q # r
    <3>1. q \in RunStores!Stored /\ q \in Runs
      BY <2>2, <1>6 DEF RunStores!Stored
    <3> QED
      BY <2>2, <3>1, <1>4, <1>10 DEF RunStores!StoredInv
  <2> QED
    BY <2>1, <2>2
<1>12. RunStores!StoredInv'
  BY <1>4, <1>8, <1>11 DEF RunStores!StoredInv
<1>13. QED
  BY <1>1, <1>3, <1>4, <1>6, <1>12

\* So does one that deletes it; nothing of it stays.
LEMMA DeletedRun ==
    ASSUME RunStores!StoredInv, NEW r \in Runs, RunStores!Delete(r)
    PROVE  /\ RunStores!Stored' = RunStores!Stored \ {r} /\ runs'[r] = None
           /\ \A q \in Runs : q # r => runs'[q] = runs[q]
           /\ RunStores!StoredInv'
<1>1. /\ runs' = [runs EXCEPT ![r] = None] /\ values' = values \ RunStores!RowsOf(r)
  BY DEF RunStores!Delete
<1>2. /\ runs' \in [Runs -> RunStores!RunMetadata \cup {None}] /\ runs'[r] = None
      /\ \A q \in Runs : q # r => runs'[q] = runs[q]
  BY <1>1 DEF RunStores!StoredInv
<1>3. RunStores!Stored' = RunStores!Stored \ {r}
  BY <1>2 DEF RunStores!Stored
<1>4. \A v \in values' : v \in values /\ v.run # r
  BY <1>1 DEF RunStores!RowsOf
<1>5. values' \subseteq RunStores!RunValue /\ \A v \in values' : v.run \in RunStores!Stored'
  BY <1>3, <1>4 DEF RunStores!StoredInv
<1>6. \A q \in Runs : q # r => RunStores!RowsOf(q)' = RunStores!RowsOf(q)
  BY <1>1 DEF RunStores!RowsOf
<1>7. \A q \in RunStores!Stored' : \E f \in Frames, t \in 1..MaxGenerated :
         /\ RunStores!IsInjective([k \in DOMAIN f |-> f[k][1]])
         /\ runs'[q] = RunStores!Metadata(f, t) /\ RunStores!RowsOf(q)' = RunStores!Rows(q, f)
  <2> TAKE q \in RunStores!Stored'
  <2>1. q \in RunStores!Stored /\ q \in Runs /\ q # r
    BY <1>3 DEF RunStores!Stored
  <2> QED
    BY <2>1, <1>2, <1>6 DEF RunStores!StoredInv
<1>8. RunStores!StoredInv'
  BY <1>2, <1>5, <1>7 DEF RunStores!StoredInv
<1>9. QED
  BY <1>2, <1>3, <1>8

\* The requests of a client leave the stores alone.
LEMMA StoredStays ==
    ASSUME RunStores!StoredInv, UNCHANGED <<runs, values>>
    PROVE  /\ RunStores!Stored' = RunStores!Stored
           /\ \A r : RunStores!RowsOf(r)' = RunStores!RowsOf(r)
              /\ RunStores!Newer(r)' = RunStores!Newer(r)
           /\ RunStores!StoredInv'
<1>1. runs' = runs /\ values' = values
  OBVIOUS
<1>2. RunStores!Stored' = RunStores!Stored
  BY <1>1 DEF RunStores!Stored
<1>3. \A r : RunStores!RowsOf(r)' = RunStores!RowsOf(r) /\ RunStores!Newer(r)' = RunStores!Newer(r)
  BY <1>1, <1>2 DEF RunStores!RowsOf, RunStores!Newer
<1>4. RunStores!StoredInv'
  BY <1>1, <1>2, <1>3 DEF RunStores!StoredInv
<1>5. QED
  BY <1>2, <1>3, <1>4

-----------------------------------------------------------------------------
(* A client and its requests: the stores change under them.                *)

\* What a save tells the client of itself.
LEMMA SavedClient ==
    ASSUME RunStores!RequestInv, NEW r \in Runs, NEW frame \in Frames, NEW at \in 1..MaxGenerated,
           RunStores!Save(r, frame, at)
    PROVE  /\ r \notin client.used
           /\ client' \in RunStores!Client /\ client'.used = client.used \cup {r}
           /\ client'.stage = client.stage /\ client'.offset = client.offset
           /\ client'.before = client.before /\ client'.seen = client.seen
           /\ client'.todo = client.todo /\ client'.items = client.items
           /\ ~client'.disturbed =>
                  /\ ~client.disturbed
                  /\ \A old \in RunStores!Stored : ~ (runs[old].generated_at >= at)
<1> DEFINE late == \E old \in RunStores!Stored : runs[old].generated_at >= at
<1>1. client \in RunStores!Client
  BY DEF RunStores!RequestInv
<1>2. /\ client' = [client EXCEPT !.used = client.used \cup {r},
                                  !.disturbed = client.disturbed \/ late]
      /\ r \notin client.used
  BY DEF RunStores!Save
<1> HIDE DEF late
<1>3. (client.disturbed \/ late) \in BOOLEAN /\ client.used \cup {r} \in SUBSET Runs
  BY <1>1 DEF RunStores!Client
<1>4. client' \in RunStores!Client
  BY <1>1, <1>2, <1>3 DEF RunStores!Client
<1>5. /\ client'.used = client.used \cup {r}
      /\ client'.stage = client.stage /\ client'.offset = client.offset
      /\ client'.before = client.before /\ client'.seen = client.seen
      /\ client'.todo = client.todo /\ client'.items = client.items
      /\ client'.disturbed = (client.disturbed \/ late)
  BY <1>1, <1>2 DEF RunStores!Client
<1>6. QED
  BY <1>2, <1>4, <1>5 DEF late

\* What a deletion tells the client of itself.
LEMMA DeletedClient ==
    ASSUME RunStores!RequestInv, NEW r \in Runs, RunStores!Delete(r)
    PROVE  /\ client' \in RunStores!Client /\ client'.used = client.used
           /\ client'.stage = client.stage /\ client'.offset = client.offset
           /\ client'.before = client.before /\ client'.seen = client.seen
           /\ client'.todo = client.todo /\ client'.items = client.items
           /\ client'.disturbed = TRUE
<1>1. client \in RunStores!Client
  BY DEF RunStores!RequestInv
<1>2. client' = [client EXCEPT !.disturbed = TRUE]
  BY DEF RunStores!Delete
<1>3. client' \in RunStores!Client
  BY <1>1, <1>2 DEF RunStores!Client
<1>4. QED
  BY <1>1, <1>2, <1>3 DEF RunStores!Client


\* An answer that is whole stays so while no run it tells of gets other values.
LEMMA AnswersStay ==
    ASSUME RunStores!ForecastsAreWhole, client'.items = client.items,
           \A k \in DOMAIN client.items :
               runs[client.items[k].run] = None => runs'[client.items[k].run] = None
    PROVE  RunStores!ForecastsAreWhole'
<1> DEFINE Wanted(item) ==
             IF item.metadata.row_count < Horizon THEN item.metadata.row_count ELSE Horizon
           Whole(item) == RunStores!Cardinality(item.values) = Wanted(item)
<1>1. RunStores!ForecastsAreWhole <=>
        \A k \in DOMAIN client.items :
            \/ Whole(client.items[k])
            \/ client.items[k].values = {} /\ runs[client.items[k].run] = None
  BY DEF RunStores!ForecastsAreWhole
<1>2. RunStores!ForecastsAreWhole' <=>
        \A k \in DOMAIN client'.items :
            \/ Whole(client'.items[k])
            \/ client'.items[k].values = {} /\ runs'[client'.items[k].run] = None
  BY DEF RunStores!ForecastsAreWhole
<1> HIDE DEF Whole
<1>3. QED
  BY <1>1, <1>2

\* A save changes nothing a request speaks of.
LEMMA SaveKeepsRequests ==
    ASSUME RunStores!StoredInv, RunStores!RequestInv,
           NEW r \in Runs, NEW frame \in Frames, NEW at \in 1..MaxGenerated,
           RunStores!Save(r, frame, at)
    PROVE  RunStores!RequestInv'
<1>1. /\ r \notin client.used
      /\ client' \in RunStores!Client /\ client'.used = client.used \cup {r}
      /\ client'.before = client.before /\ client'.seen = client.seen
      /\ client'.todo = client.todo /\ client'.items = client.items
  BY SavedClient
<1>2. RunStores!Stored' = RunStores!Stored \cup {r} /\ \A q \in Runs : q # r => runs'[q] = runs[q]
  BY SavedRun
<1>3. \A q \in client.used : q \in Runs /\ runs'[q] = runs[q]
  BY <1>1, <1>2 DEF RunStores!RequestInv, RunStores!Client
<1>4. RunStores!IsFiniteSet(client'.used) /\ RunStores!Stored' \subseteq client'.used
  <2>1. IsFiniteSet(client.used)
    BY SameOperators DEF RunStores!RequestInv
  <2>2. IsFiniteSet(client'.used)
    BY <2>1, <1>1, FS_AddElement
  <2> QED
    BY <2>2, <1>1, <1>2, SameOperators DEF RunStores!RequestInv
<1>5. client'.seen \subseteq client'.used /\ client'.before \subseteq client'.used
  BY <1>1 DEF RunStores!RequestInv
<1>6. \A k \in DOMAIN client'.todo :
        /\ client'.todo[k].run \in client'.used
        /\ runs'[client'.todo[k].run] \in {None, client'.todo[k].metadata}
  BY <1>1, <1>3 DEF RunStores!RequestInv
<1>7. \A k \in DOMAIN client'.items : client'.items[k].run \in client'.used
  BY <1>1 DEF RunStores!RequestInv
<1>8. RunStores!ForecastsAreWhole'
  BY <1>1, <1>3, AnswersStay DEF RunStores!RequestInv
<1>9. QED
  BY <1>1, <1>4, <1>5, <1>6, <1>7, <1>8 DEF RunStores!RequestInv

\* A deletion takes runs away that a request speaks of, and changes none.
LEMMA DeleteKeepsRequests ==
    ASSUME RunStores!StoredInv, RunStores!RequestInv, NEW r \in Runs, RunStores!Delete(r)
    PROVE  RunStores!RequestInv'
<1>1. /\ client' \in RunStores!Client /\ client'.used = client.used
      /\ client'.before = client.before /\ client'.seen = client.seen
      /\ client'.todo = client.todo /\ client'.items = client.items
  BY DeletedClient
<1>2. /\ RunStores!Stored' = RunStores!Stored \ {r} /\ runs'[r] = None
      /\ \A q \in Runs : q # r => runs'[q] = runs[q]
  BY DeletedRun
<1>3. \A q \in client.used : q \in Runs /\ runs'[q] \in {None, runs[q]}
  BY <1>1, <1>2 DEF RunStores!RequestInv, RunStores!Client
<1>4. RunStores!IsFiniteSet(client'.used) /\ RunStores!Stored' \subseteq client'.used
  BY <1>1, <1>2 DEF RunStores!RequestInv
<1>5. client'.seen \subseteq client'.used /\ client'.before \subseteq client'.used
  BY <1>1 DEF RunStores!RequestInv
<1>6. \A k \in DOMAIN client'.todo :
        /\ client'.todo[k].run \in client'.used
        /\ runs'[client'.todo[k].run] \in {None, client'.todo[k].metadata}
  BY <1>1, <1>3 DEF RunStores!RequestInv
<1>7. \A k \in DOMAIN client'.items : client'.items[k].run \in client'.used
  BY <1>1 DEF RunStores!RequestInv
<1>8. RunStores!ForecastsAreWhole'
  <2>1. \A k \in DOMAIN client.items :
          runs[client.items[k].run] = None => runs'[client.items[k].run] = None
    BY <1>3 DEF RunStores!RequestInv
  <2> QED
    BY <1>1, <2>1, AnswersStay DEF RunStores!RequestInv
<1>9. QED
  BY <1>1, <1>4, <1>5, <1>6, <1>7, <1>8 DEF RunStores!RequestInv

\* The runs that are newer than one are finitely many, and stay so when a new
\* one is the newest.
LEMMA NewerFinite ==
    ASSUME RunStores!RequestInv, NEW r
    PROVE  /\ IsFiniteSet(RunStores!Stored) /\ IsFiniteSet(RunStores!Newer(r))
           /\ Cardinality(RunStores!Newer(r)) \in Nat
<1>1. IsFiniteSet(RunStores!Stored)
  BY SameOperators, FS_Subset DEF RunStores!RequestInv
<1>2. RunStores!Newer(r) \in SUBSET RunStores!Stored
  BY DEF RunStores!Newer
<1>3. QED
  BY <1>1, <1>2, FS_Subset, FS_CardinalityType

\* A new run that is the newest pushes the others towards later pages only.
LEMMA SaveKeepsPaging ==
    ASSUME RunStores!RunsInv,
           NEW r \in Runs, NEW frame \in Frames, NEW at \in 1..MaxGenerated,
           RunStores!Save(r, frame, at)
    PROVE  RunStores!PagingInv'
<1>1. RunStores!StoredInv /\ RunStores!RequestInv /\ RunStores!PagingInv
  BY DEF RunStores!RunsInv
<1>2. /\ r \notin client.used
      /\ client'.stage = client.stage /\ client'.offset = client.offset
      /\ client'.before = client.before /\ client'.seen = client.seen
      /\ client'.todo = client.todo /\ client'.items = client.items
      /\ ~client'.disturbed =>
             /\ ~client.disturbed
             /\ \A old \in RunStores!Stored : ~ (runs[old].generated_at >= at)
  BY <1>1, SavedClient
<1>3. /\ r \notin RunStores!Stored /\ RunStores!Stored' = RunStores!Stored \cup {r}
      /\ runs'[r].generated_at = at
      /\ \A q \in Runs : q # r => runs'[q] = runs[q]
  BY <1>1, SavedRun
<1>4. /\ RunStores!Stored \subseteq Runs /\ at \in Nat
      /\ \A q \in RunStores!Stored : runs'[q] = runs[q] /\ runs[q].generated_at \in Nat
  <2>1. \A q \in RunStores!Stored : q \in Runs /\ runs[q].generated_at \in 1..MaxGenerated
    BY <1>1, StoredRun DEF RunStores!RunMetadata
  <2> QED
    BY <2>1, <1>3, RunsConstants
<1>5. ASSUME ~client'.disturbed, NEW q \in RunStores!Stored
      PROVE  Cardinality(RunStores!Newer(q)) <= Cardinality(RunStores!Newer(q)')
  <2>1. RunStores!Newer(q) \subseteq RunStores!Newer(q)'
    BY <1>3, <1>4 DEF RunStores!Newer
  <2>2. RunStores!RequestInv'
    BY <1>1, SaveKeepsRequests
  <2>3. IsFiniteSet(RunStores!Newer(q)')
    <3>1. IsFiniteSet(RunStores!Stored')
      BY <1>1, <1>3, NewerFinite, FS_AddElement
    <3>2. RunStores!Newer(q)' \in SUBSET RunStores!Stored'
      BY DEF RunStores!Newer
    <3> QED
      BY <3>1, <3>2, FS_Subset
  <2> QED
    BY <2>1, <2>3, FS_Subset
<1>6. RunStores!Pending' = RunStores!Pending
  BY <1>2 DEF RunStores!Pending
<1>7. ASSUME client.stage # "idle", ~client'.disturbed
      PROVE  /\ client.before \subseteq RunStores!Stored /\ client.before \subseteq RunStores!Stored'
             /\ \A p, q \in RunStores!Stored' :
                    p # q => runs'[p].generated_at # runs'[q].generated_at
  BY <1>1, <1>2, <1>3, <1>4, <1>7 DEF RunStores!PagingInv
<1>8. ASSUME client.stage # "idle", ~client'.disturbed, NEW q \in client.before, NEW b \in Nat,
             Cardinality(RunStores!Newer(q)') < b
      PROVE  Cardinality(RunStores!Newer(q)) < b
  <2>1. q \in RunStores!Stored
    BY <1>7, <1>8
  <2>2. Cardinality(RunStores!Newer(q)) <= Cardinality(RunStores!Newer(q)')
    BY <1>5, <1>8, <2>1
  <2>3. Cardinality(RunStores!Newer(q)) \in Nat /\ Cardinality(RunStores!Newer(q)') \in Nat
    <3>1. IsFiniteSet(RunStores!Newer(q)')
      <4>1. IsFiniteSet(RunStores!Stored')
        BY <1>1, <1>3, NewerFinite, FS_AddElement
      <4>2. RunStores!Newer(q)' \in SUBSET RunStores!Stored'
        BY DEF RunStores!Newer
      <4> QED
        BY <4>1, <4>2, FS_Subset
    <3> QED
      BY <1>1, <3>1, NewerFinite, FS_CardinalityType
  <2> QED
    BY <1>8, <2>2, <2>3
<1>9. client.offset \in Nat /\ client.offset + Limit \in Nat
  BY <1>1, RunsConstants DEF RunStores!RequestInv, RunStores!Client
<1>10. RunStores!NothingIsMissed'
  BY <1>1, <1>2 DEF RunStores!PagingInv, RunStores!NothingIsMissed
<1>11. client'.stage \in {"counted", "paging"} /\ ~client'.disturbed =>
         \A q \in client'.before :
             Cardinality(RunStores!Newer(q)') < client'.offset => q \in client'.seen
  BY <1>1, <1>2, <1>8, <1>9, SameOperators DEF RunStores!PagingInv
<1>12. client'.stage = "selected" /\ ~client'.disturbed =>
         \A q \in client'.before : Cardinality(RunStores!Newer(q)') < client'.offset + Limit =>
             q \in client'.seen \cup RunStores!Pending'
  BY <1>1, <1>2, <1>6, <1>8, <1>9, SameOperators DEF RunStores!PagingInv
<1>13. client'.stage = "selected" /\ ~client'.disturbed =>
         (Len(client'.items) + Len(client'.todo) < Limit =>
             client'.before \subseteq client'.seen \cup RunStores!Pending')
  BY <1>1, <1>2, <1>6 DEF RunStores!PagingInv
<1>14. QED
  BY <1>1, <1>2, <1>7, <1>10, <1>11, <1>12, <1>13, SameOperators DEF RunStores!PagingInv


\* Who deletes a run disturbs the listing.
LEMMA DeleteKeepsPaging ==
    ASSUME RunStores!RunsInv, NEW r \in Runs, RunStores!Delete(r)
    PROVE  RunStores!PagingInv'
<1>1. /\ client'.stage = client.stage /\ client'.offset = client.offset
      /\ client'.seen = client.seen /\ client'.items = client.items /\ client'.disturbed
  BY DeletedClient DEF RunStores!RunsInv
<1>2. RunStores!NothingIsMissed'
  BY <1>1 DEF RunStores!NothingIsMissed
<1>3. QED
  BY <1>1, <1>2 DEF RunStores!RunsInv, RunStores!PagingInv

-----------------------------------------------------------------------------
(* A client and its requests: what they read.                              *)

\* The first statement of a request begins its listing, or the next page of it.
LEMMA CountRunsInv ==
    ASSUME RunStores!RunsInv, RunStores!CountRuns
    PROVE  RunStores!RunsInv'
<1> DEFINE ties == \E r, q \in RunStores!Stored : r # q /\ runs[r].generated_at = runs[q].generated_at
           before == IF client.stage = "idle" THEN RunStores!Stored ELSE client.before
           disturbed == IF client.stage = "idle" THEN ties ELSE client.disturbed
           total == RunStores!Cardinality(RunStores!Stored)
<1>1. RunStores!StoredInv /\ RunStores!RequestInv /\ RunStores!PagingInv /\ client \in RunStores!Client
  BY DEF RunStores!RunsInv, RunStores!RequestInv
<1>2. /\ UNCHANGED <<runs, values>>
      /\ client.stage \in {"idle", "paging"}
      /\ client' = [client EXCEPT !.stage = "counted", !.total = total, !.items = <<>>,
                                  !.before = before, !.disturbed = disturbed]
  BY DEF RunStores!CountRuns
<1>3. /\ RunStores!Stored' = RunStores!Stored /\ RunStores!StoredInv'
         /\ \A r : RunStores!Newer(r)' = RunStores!Newer(r)
  BY <1>1, <1>2, StoredStays
<1>4. RunStores!Stored \subseteq client.used /\ client.used \subseteq Runs /\ total \in Nat
  BY <1>1, NewerFinite, FS_CardinalityType, SameOperators
     DEF RunStores!RequestInv, RunStores!Client
<1>5. ties \in BOOLEAN /\ before \in SUBSET client.used /\ disturbed \in BOOLEAN
  BY <1>1, <1>4 DEF RunStores!RequestInv, RunStores!Client
<1> HIDE DEF ties, total
<1>6. client' \in RunStores!Client
  <2>1. before \in SUBSET Runs
    BY <1>4, <1>5
  <2>2. <<>> \in Seq([run : Runs, metadata : RunStores!RunMetadata, values : SUBSET RunStores!RunValue])
    OBVIOUS
  <2> HIDE DEF before, disturbed
  <2> QED
    BY <1>1, <1>2, <1>4, <1>5, <2>1, <2>2 DEF RunStores!Client
<1>7. /\ client'.stage = "counted" /\ client'.used = client.used
      /\ client'.offset = client.offset /\ client'.before = before
      /\ client'.disturbed = disturbed /\ client'.seen = client.seen
      /\ client'.todo = client.todo /\ client'.items = <<>>
  <2> HIDE DEF before, disturbed
  <2> QED
    BY <1>1, <1>2 DEF RunStores!Client
<1>8. RunStores!RequestInv'
  <2>1. RunStores!ForecastsAreWhole'
    BY <1>7 DEF RunStores!ForecastsAreWhole
  <2>2. client'.before \subseteq client'.used
    BY <1>5, <1>7
  <2>3. \A k \in DOMAIN client'.items : client'.items[k].run \in client'.used
    BY <1>7
  <2> HIDE DEF before, disturbed
  <2> QED
    BY <1>1, <1>2, <1>3, <1>6, <1>7, <2>1, <2>2, <2>3 DEF RunStores!RequestInv
<1>9. RunStores!PagingInv'
  <2>1. ~disturbed =>
          /\ before \subseteq RunStores!Stored
          /\ \A r, q \in RunStores!Stored : r # q => runs[r].generated_at # runs[q].generated_at
    BY <1>1, <1>2 DEF RunStores!PagingInv, ties
  <2>2. ~disturbed => \A r \in before :
          Cardinality(RunStores!Newer(r)) < client.offset => r \in client.seen
    <3>1. CASE client.stage = "idle"
      <4>1. \A r : ~ (Cardinality(RunStores!Newer(r)) < 0)
        BY <1>1, NewerFinite
      <4> QED
        BY <1>1, <3>1, <4>1 DEF RunStores!PagingInv
    <3>2. CASE client.stage = "paging"
      BY <1>1, <3>2, SameOperators DEF RunStores!PagingInv
    <3> QED
      BY <1>2, <3>1, <3>2
  <2>3. RunStores!NothingIsMissed'
    BY <1>7 DEF RunStores!NothingIsMissed
  <2> HIDE DEF before, disturbed
  <2> QED
    BY <1>2, <1>3, <1>7, <2>1, <2>2, <2>3, SameOperators DEF RunStores!PagingInv
<1>10. QED
  BY <1>3, <1>8, <1>9 DEF RunStores!RunsInv

\* In a listing of runs that all differ in age, as many runs come before one as
\* are newer.
LEMMA ListingPlace ==
    ASSUME RunStores!StoredInv, RunStores!RequestInv, NEW o \in RunStores!Listings(RunStores!Stored),
           \A r, q \in RunStores!Stored : r # q => runs[r].generated_at # runs[q].generated_at,
           NEW r \in RunStores!Stored
    PROVE  \E p \in 1..Cardinality(RunStores!Stored) :
               o[p] = r /\ Cardinality(RunStores!Newer(r)) = p - 1
<1> DEFINE n == Cardinality(RunStores!Stored)
<1>1. IsFiniteSet(RunStores!Stored) /\ n \in Nat
  BY NewerFinite, FS_CardinalityType
<1>2. /\ o \in [1..n -> RunStores!Stored] /\ IsInjective(o)
      /\ \A i, j \in 1..n : i < j => runs[o[i]].generated_at >= runs[o[j]].generated_at
  BY SameOperators DEF RunStores!Listings
<1>3. IsFiniteSet(1..n) /\ Cardinality(1..n) = n
  <2>1. 1 \in Int /\ n \in Int
    BY <1>1
  <2>2. IsFiniteSet(1..n) /\ Cardinality(1..n) = IF 1 > n THEN 0 ELSE n - 1 + 1
    BY <2>1, FS_Interval
  <2> QED
    BY <2>2, <1>1
<1>4. o \in Surjection(1..n, RunStores!Stored)
  <2>1. o \in Injection(1..n, RunStores!Stored)
    BY <1>2 DEF Injection
  <2> QED
    BY <2>1, <1>1, <1>3, FS_Injection
<1> HIDE DEF n
<1>5. PICK p \in 1..n : o[p] = r
  BY <1>4 DEF Surjection
<1>6. \A q \in RunStores!Stored : q \in Runs /\ runs[q].generated_at \in Nat
  <2>1. \A q \in RunStores!Stored : q \in Runs /\ runs[q].generated_at \in 1..MaxGenerated
    BY StoredRun DEF RunStores!RunMetadata
  <2> QED
    BY <2>1, RunsConstants
<1>7. \A i \in 1..n : o[i] \in RunStores!Newer(r) <=> i \in 1..(p - 1)
  <2> TAKE i \in 1..n
  <2>1. o[i] \in RunStores!Stored /\ (o[i] \in RunStores!Newer(r) <=> runs[o[i]].generated_at > runs[r].generated_at)
    BY <1>2 DEF RunStores!Newer
  <2>2. CASE i < p
    <3>1. o[i] # r
      BY <2>2, <1>1, <1>2, <1>5 DEF IsInjective
    <3> QED
      BY <2>1, <2>2, <3>1, <1>1, <1>2, <1>5, <1>6
  <2>3. CASE p < i
    BY <2>1, <2>3, <1>1, <1>2, <1>5, <1>6
  <2>4. CASE i = p
    BY <2>1, <2>4, <1>1, <1>5, <1>6
  <2> QED
    BY <2>2, <2>3, <2>4, <1>1, <1>5
<1>8. Cardinality(RunStores!Newer(r)) = p - 1
  <2> DEFINE placed == [i \in 1..(p - 1) |-> o[i]]
  <2>1. \A i \in 1..(p - 1) : i \in 1..n
    BY <1>1, <1>5
  <2>2. placed \in [1..(p - 1) -> RunStores!Newer(r)]
    BY <2>1, <1>7
  <2>3. IsInjective(placed)
    BY <2>1, <2>2, <1>2 DEF IsInjective
  <2>4. \A q \in RunStores!Newer(r) : \E i \in 1..(p - 1) : placed[i] = q
    <3> TAKE q \in RunStores!Newer(r)
    <3>1. q \in RunStores!Stored
      BY DEF RunStores!Newer
    <3>2. PICK i \in 1..n : o[i] = q
      BY <3>1, <1>4 DEF Surjection
    <3> QED
      BY <3>2, <1>7
  <2>5. ExistsBijection(1..(p - 1), RunStores!Newer(r))
    BY <2>2, <2>3, <2>4 DEF ExistsBijection, Bijection, Injection, Surjection
  <2>6. p - 1 \in Nat
    BY <1>1, <1>5
  <2> QED
    BY <2>5, <2>6, FS_CountingElements
<1>9. QED
  BY <1>5, <1>8 DEF n


\* The second: what was on the pages before has been seen, and the rest of it is pending.
LEMMA SelectPageInv ==
    ASSUME RunStores!RunsInv, RunStores!SelectPage
    PROVE  RunStores!RunsInv'
<1> DEFINE n == Cardinality(RunStores!Stored)
           last == client.offset + Limit
           bound == IF last < n THEN last ELSE n
           Job == [run : Runs, metadata : RunStores!RunMetadata]
<1>1. RunStores!StoredInv /\ RunStores!RequestInv /\ RunStores!PagingInv /\ client \in RunStores!Client
  BY DEF RunStores!RunsInv, RunStores!RequestInv
<1>2. n \in Nat
  BY <1>1, NewerFinite, FS_CardinalityType
<1>3. PICK o \in RunStores!Listings(RunStores!Stored) :
        LET end == client.offset + Limit
            page == SubSeq(o, client.offset + 1, IF end < Len(o) THEN end ELSE Len(o)) IN
        client' = [client EXCEPT !.stage = "selected",
            !.todo = [k \in DOMAIN page |-> [run |-> page[k], metadata |-> runs[page[k]]]]]
  BY DEF RunStores!SelectPage
<1>4. /\ UNCHANGED <<runs, values>> /\ client.stage = "counted"
  BY DEF RunStores!SelectPage
<1>5. o \in [1..n -> RunStores!Stored] /\ Len(o) = n
  <2>1. o \in [1..n -> RunStores!Stored]
    BY SameOperators DEF RunStores!Listings
  <2> HIDE DEF n
  <2> QED
    BY <2>1, <1>2
<1> DEFINE page == SubSeq(o, client.offset + 1, bound)
           todo == [k \in DOMAIN page |-> [run |-> page[k], metadata |-> runs[page[k]]]]
<1>6. client' = [client EXCEPT !.stage = "selected", !.todo = todo]
  BY <1>3, <1>5
<1>7. /\ client.offset \in Nat /\ Limit \in Nat \ {0} /\ bound \in Nat
      /\ bound <= n /\ bound <= last /\ (bound < last => bound = n)
  BY <1>1, <1>2, RunsConstants DEF RunStores!Client
<1> HIDE DEF n, bound
<1>8. /\ page \in Seq(RunStores!Stored)
      /\ Len(page) = IF client.offset + 1 <= bound THEN bound - client.offset ELSE 0
      /\ \A k \in 1..(bound - client.offset) : page[k] = o[client.offset + k]
  <2>1. client.offset + 1 \in Int /\ bound \in Int
    BY <1>7
  <2>2. \A i \in (client.offset + 1)..bound : o[i] \in RunStores!Stored
    BY <1>2, <1>5, <1>7
  <2>3. /\ page \in Seq(RunStores!Stored)
        /\ Len(page) = IF client.offset + 1 <= bound THEN bound - (client.offset + 1) + 1 ELSE 0
        /\ \A k \in 1..(bound - (client.offset + 1) + 1) : page[k] = o[client.offset + 1 + k - 1]
    BY <2>1, <2>2, SubSeqProperties
  <2>4. bound - (client.offset + 1) + 1 = bound - client.offset
    BY <1>7
  <2>5. \A k \in 1..(bound - client.offset) : client.offset + 1 + k - 1 = client.offset + k
    BY <1>7
  <2> HIDE DEF page
  <2> QED
    BY <2>3, <2>4, <2>5
<1> HIDE DEF page
<1>9. /\ DOMAIN page = 1..Len(page) /\ Len(page) \in Nat
      /\ \A k \in DOMAIN page : page[k] \in RunStores!Stored
  BY <1>8
<1>10. \A r \in RunStores!Stored : r \in Runs /\ r \in client.used /\ runs[r] \in RunStores!RunMetadata
  BY <1>1, StoredRun DEF RunStores!RequestInv
<1>11. todo \in Seq(Job) /\ Len(todo) = Len(page) /\ DOMAIN todo = DOMAIN page
       /\ \A k \in DOMAIN page : todo[k].run = page[k] /\ todo[k].metadata = runs[page[k]]
  <2>1. todo \in [1..Len(page) -> Job]
    BY <1>9, <1>10
  <2>2. todo \in Seq(Job) /\ Len(todo) = Len(page)
    BY <2>1, <1>9
  <2>3. DOMAIN todo = DOMAIN page
        /\ \A k \in DOMAIN page : todo[k].run = page[k] /\ todo[k].metadata = runs[page[k]]
    OBVIOUS
  <2> QED
    BY <2>2, <2>3
<1> HIDE DEF todo
<1>12. client' \in RunStores!Client
  BY <1>1, <1>6, <1>11 DEF RunStores!Client
<1>13. /\ client'.stage = "selected" /\ client'.used = client.used
       /\ client'.offset = client.offset /\ client'.before = client.before
       /\ client'.disturbed = client.disturbed /\ client'.seen = client.seen
       /\ client'.todo = todo /\ client'.items = client.items
  BY <1>1, <1>6 DEF RunStores!Client
<1>14. /\ RunStores!Stored' = RunStores!Stored /\ RunStores!StoredInv'
          /\ \A r : RunStores!Newer(r)' = RunStores!Newer(r)
  BY <1>1, <1>4, StoredStays
<1>15. RunStores!RequestInv'
  <2>1. RunStores!ForecastsAreWhole'
    BY <1>1, <1>4, <1>13, AnswersStay DEF RunStores!RequestInv
  <2>2. \A k \in DOMAIN client'.todo :
          /\ client'.todo[k].run \in client'.used
          /\ runs'[client'.todo[k].run] \in {None, client'.todo[k].metadata}
    BY <1>4, <1>9, <1>10, <1>11, <1>13
  <2>3. \A k \in DOMAIN client'.items : client'.items[k].run \in client'.used
    BY <1>1, <1>13 DEF RunStores!RequestInv
  <2> QED
    BY <1>1, <1>12, <1>13, <1>14, <2>1, <2>2, <2>3 DEF RunStores!RequestInv
<1>16. RunStores!Pending' = {page[k] : k \in DOMAIN page}
  BY <1>11, <1>13 DEF RunStores!Pending
<1>17. ASSUME ~client.disturbed
       PROVE  /\ client.before \subseteq RunStores!Stored
              /\ \A r, q \in RunStores!Stored : r # q => runs[r].generated_at # runs[q].generated_at
  BY <1>1, <1>4, <1>17 DEF RunStores!PagingInv
<1>18. ASSUME ~client.disturbed, NEW r \in client.before,
              Cardinality(RunStores!Newer(r)) < client.offset + Limit
       PROVE  r \in client.seen \cup RunStores!Pending'
  <2>1. PICK p \in 1..n : o[p] = r /\ Cardinality(RunStores!Newer(r)) = p - 1
    BY <1>1, <1>17, <1>18, ListingPlace DEF n
  <2>2. CASE p - 1 < client.offset
    BY <1>1, <1>4, <1>18, <2>1, <2>2, SameOperators DEF RunStores!PagingInv
  <2>3. CASE client.offset <= p - 1
    <3>1. p <= bound
      BY <1>2, <1>7, <1>18, <2>1
    <3>2. p - client.offset \in 1..(bound - client.offset)
      BY <1>2, <1>7, <2>3, <3>1
    <3>3. page[p - client.offset] = o[client.offset + (p - client.offset)]
      BY <1>8, <3>2
    <3>4. client.offset + (p - client.offset) = p
      BY <1>2, <1>7
    <3>5. p - client.offset \in DOMAIN page
      BY <1>7, <1>8, <1>9, <3>2
    <3> QED
      BY <1>16, <2>1, <3>3, <3>4, <3>5
  <2> QED
    BY <1>2, <1>7, <2>2, <2>3
<1>19. ASSUME ~client.disturbed, Len(client'.items) + Len(client'.todo) < Limit
       PROVE  client.before \subseteq client.seen \cup RunStores!Pending'
  <2>1. Len(page) < Limit
    BY <1>1, <1>4, <1>9, <1>11, <1>13, <1>19 DEF RunStores!PagingInv
  <2>2. n <= client.offset + Limit
    BY <1>2, <1>7, <1>8, <2>1
  <2> SUFFICES ASSUME NEW r \in client.before
               PROVE  Cardinality(RunStores!Newer(r)) < client.offset + Limit
    BY <1>18, <1>19
  <2>3. PICK p \in 1..n : o[p] = r /\ Cardinality(RunStores!Newer(r)) = p - 1
    BY <1>1, <1>17, <1>19, ListingPlace DEF n
  <2> QED
    BY <1>2, <1>7, <2>2, <2>3
<1>20. RunStores!PagingInv'
  <2>1. RunStores!NothingIsMissed'
    BY <1>13 DEF RunStores!NothingIsMissed
  <2> QED
    BY <1>4, <1>13, <1>14, <1>17, <1>18, <1>19, <2>1, SameOperators DEF RunStores!PagingInv
<1>21. QED
  BY <1>14, <1>15, <1>20 DEF RunStores!RunsInv


\* What one statement reads of a run is whole, or empty when the run is gone.
LEMMA ReadValues ==
    ASSUME RunStores!StoredInv, NEW r \in Runs, NEW metadata \in RunStores!RunMetadata,
           runs[r] \in {None, metadata}
    PROVE  /\ RunStores!FirstValues(RunStores!RowsOf(r)) \in SUBSET RunStores!RunValue
           /\ \/ RunStores!Cardinality(RunStores!FirstValues(RunStores!RowsOf(r))) =
                     IF metadata.row_count < Horizon THEN metadata.row_count ELSE Horizon
              \/ RunStores!FirstValues(RunStores!RowsOf(r)) = {} /\ runs[r] = None
<1>1. RunStores!FirstValues(RunStores!RowsOf(r)) \in SUBSET RunStores!RunValue
  BY DEF RunStores!FirstValues, RunStores!RowsOf, RunStores!StoredInv
<1>2. CASE runs[r] = None
  <2>1. RunStores!RowsOf(r) = {}
    BY <1>2 DEF RunStores!StoredInv, RunStores!Stored, RunStores!RowsOf
  <2> QED
    BY <1>1, <1>2, <2>1 DEF RunStores!FirstValues
<1>3. CASE runs[r] # None
  <2>1. r \in RunStores!Stored /\ runs[r] = metadata
    BY <1>3 DEF RunStores!Stored
  <2>2. /\ RunStores!RowsOf(r) \in SUBSET RunStores!RunValue /\ IsFiniteSet(RunStores!RowsOf(r))
        /\ Cardinality(RunStores!RowsOf(r)) = metadata.row_count
        /\ \A v, w \in RunStores!RowsOf(r) : v.at = w.at => v = w
    BY <2>1, StoredRun
  <2>3. Cardinality(RunStores!FirstValues(RunStores!RowsOf(r))) =
          IF Cardinality(RunStores!RowsOf(r)) < Horizon THEN Cardinality(RunStores!RowsOf(r))
             ELSE Horizon
    BY <2>2, FirstCount
  <2> QED
    BY <1>1, <2>2, <2>3, SameOperators
<1>4. QED
  BY <1>2, <1>3

\* Each further one moves a run from those pending to those seen.
LEMMA SelectValuesInv ==
    ASSUME RunStores!RunsInv, RunStores!SelectValues
    PROVE  RunStores!RunsInv'
<1> DEFINE Job == [run : Runs, metadata : RunStores!RunMetadata]
           Item == [run : Runs, metadata : RunStores!RunMetadata, values : SUBSET RunStores!RunValue]
           next == Head(client.todo)
           item == [run |-> next.run, metadata |-> next.metadata,
                    values |-> RunStores!FirstValues(RunStores!RowsOf(next.run))]
           todo == Tail(client.todo)
           items == Append(client.items, item)
           seen == client.seen \cup {next.run}
<1>1. RunStores!StoredInv /\ RunStores!RequestInv /\ RunStores!PagingInv /\ client \in RunStores!Client
  BY DEF RunStores!RunsInv, RunStores!RequestInv
<1>2. /\ UNCHANGED <<runs, values>> /\ client.stage = "selected" /\ client.todo # <<>>
      /\ client' = [client EXCEPT !.todo = todo, !.seen = seen, !.items = items]
  BY DEF RunStores!SelectValues
<1>3. client.todo \in Seq(Job) /\ client.items \in Seq(Item) /\ client.used \subseteq Runs
  BY <1>1 DEF RunStores!Client
<1>4. /\ next = client.todo[1] /\ 1 \in DOMAIN client.todo /\ next \in Job
      /\ todo \in Seq(Job) /\ Len(todo) = Len(client.todo) - 1 /\ Len(client.todo) \in Nat
      /\ \A k \in DOMAIN todo : k + 1 \in DOMAIN client.todo /\ todo[k] = client.todo[k + 1]
      /\ \A k \in DOMAIN client.todo : k = 1 \/ (k - 1 \in DOMAIN todo /\ k = (k - 1) + 1)
  <2>1. /\ Head(client.todo) \in Job /\ todo \in Seq(Job) /\ Len(todo) = Len(client.todo) - 1
        /\ \A k \in 1..Len(todo) : todo[k] = client.todo[k + 1]
    BY <1>2, <1>3, HeadTailProperties
  <2>2. Len(client.todo) \in Nat \ {0} /\ next = client.todo[1]
    BY <1>2, <1>3
  <2> HIDE DEF next, todo
  <2>3. DOMAIN todo = 1..Len(todo) /\ DOMAIN client.todo = 1..Len(client.todo)
    BY <1>3, <2>1
  <2> QED
    BY <2>1, <2>2, <2>3 DEF next
<1>5. /\ next.run \in client.used /\ next.run \in Runs /\ next.metadata \in RunStores!RunMetadata
      /\ runs[next.run] \in {None, next.metadata}
  <2> HIDE DEF next
  <2> QED
    BY <1>1, <1>3, <1>4 DEF RunStores!RequestInv
<1>6. /\ item.values \in SUBSET RunStores!RunValue
      /\ \/ RunStores!Cardinality(item.values) =
                IF item.metadata.row_count < Horizon THEN item.metadata.row_count ELSE Horizon
         \/ item.values = {} /\ runs[item.run] = None
  <2> HIDE DEF next
  <2>1. /\ RunStores!FirstValues(RunStores!RowsOf(next.run)) \in SUBSET RunStores!RunValue
        /\ \/ RunStores!Cardinality(RunStores!FirstValues(RunStores!RowsOf(next.run))) =
                  IF next.metadata.row_count < Horizon THEN next.metadata.row_count ELSE Horizon
           \/ RunStores!FirstValues(RunStores!RowsOf(next.run)) = {} /\ runs[next.run] = None
    BY <1>1, <1>5, ReadValues
  <2> QED
    BY <2>1
<1>7. item \in Item /\ item.run = next.run
  <2> HIDE DEF next
  <2> QED
    BY <1>5, <1>6
<1> HIDE DEF item, next, todo
<1>8. /\ items \in Seq(Item) /\ Len(items) = Len(client.items) + 1
      /\ DOMAIN items = 1..Len(items) /\ items[Len(items)] = item
      /\ \A k \in DOMAIN items :
             k = Len(items) \/ (k \in DOMAIN client.items /\ items[k] = client.items[k])
  BY <1>3, <1>7
<1> HIDE DEF items
<1>9. client' \in RunStores!Client
  <2>1. seen \in SUBSET Runs
    BY <1>1, <1>5 DEF RunStores!Client
  <2> HIDE DEF seen
  <2> QED
    BY <1>1, <1>2, <1>4, <1>8, <2>1 DEF RunStores!Client
<1>10. /\ client'.stage = "selected" /\ client'.used = client.used
       /\ client'.offset = client.offset /\ client'.before = client.before
       /\ client'.disturbed = client.disturbed /\ client'.seen = seen
       /\ client'.todo = todo /\ client'.items = items
  <2> HIDE DEF seen
  <2> QED
    BY <1>1, <1>2 DEF RunStores!Client
<1>11. /\ RunStores!Stored' = RunStores!Stored /\ RunStores!StoredInv'
          /\ \A r : RunStores!Newer(r)' = RunStores!Newer(r)
  BY <1>1, <1>2, StoredStays
<1>12. RunStores!RequestInv'
  <2>1. \A k \in DOMAIN client'.items :
          \/ RunStores!Cardinality(items[k].values) =
                 IF items[k].metadata.row_count < Horizon THEN items[k].metadata.row_count
                 ELSE Horizon
          \/ items[k].values = {} /\ runs[items[k].run] = None
    <3> TAKE k \in DOMAIN client'.items
    <3>1. CASE k = Len(items)
      BY <3>1, <1>6, <1>8
    <3>2. CASE k # Len(items)
      BY <3>2, <1>1, <1>8, <1>10 DEF RunStores!RequestInv, RunStores!ForecastsAreWhole
    <3> QED
      BY <3>1, <3>2
  <2>2. RunStores!ForecastsAreWhole'
    BY <2>1, <1>2, <1>10 DEF RunStores!ForecastsAreWhole
  <2>3. \A k \in DOMAIN client'.todo :
          /\ client'.todo[k].run \in client'.used
          /\ runs'[client'.todo[k].run] \in {None, client'.todo[k].metadata}
    BY <1>1, <1>2, <1>4, <1>10 DEF RunStores!RequestInv
  <2>4. \A k \in DOMAIN client'.items : client'.items[k].run \in client'.used
    BY <1>1, <1>5, <1>7, <1>8, <1>10 DEF RunStores!RequestInv
  <2>5. client'.seen \subseteq client'.used /\ client'.before \subseteq client'.used
    BY <1>1, <1>5, <1>10 DEF RunStores!RequestInv
  <2> QED
    BY <1>1, <1>9, <1>10, <1>11, <2>2, <2>3, <2>4, <2>5 DEF RunStores!RequestInv
<1>13. client.seen \cup RunStores!Pending = seen \cup RunStores!Pending'
  <2>1. RunStores!Pending' = {todo[k].run : k \in DOMAIN todo}
    BY <1>10 DEF RunStores!Pending
  <2>2. RunStores!Pending = {next.run} \cup RunStores!Pending'
    <3>1. /\ client.todo[1] = next /\ 1 \in DOMAIN client.todo
          /\ \A k \in DOMAIN todo : k + 1 \in DOMAIN client.todo /\ todo[k] = client.todo[k + 1]
      BY <1>4
    <3>2. \A k \in DOMAIN client.todo :
            k = 1 \/ \E l \in DOMAIN todo : todo[l] = client.todo[k]
      <4> TAKE k \in DOMAIN client.todo
      <4>1. CASE k # 1
        <5>1. k - 1 \in DOMAIN todo /\ k = (k - 1) + 1
          BY <1>4, <4>1
        <5>2. todo[k - 1] = client.todo[(k - 1) + 1]
          BY <3>1, <5>1
        <5> QED
          BY <5>1, <5>2
      <4> QED
        BY <4>1
    <3>3. \A r \in RunStores!Pending : r = next.run \/ r \in RunStores!Pending'
      <4> TAKE r \in RunStores!Pending
      <4>1. PICK k \in DOMAIN client.todo : r = client.todo[k].run
        BY DEF RunStores!Pending
      <4> QED
        BY <2>1, <3>1, <3>2, <4>1
    <3>4. next.run \in RunStores!Pending
      BY <3>1 DEF RunStores!Pending
    <3>5. \A r \in RunStores!Pending' : r \in RunStores!Pending
      <4> TAKE r \in RunStores!Pending'
      <4>1. PICK k \in DOMAIN todo : r = todo[k].run
        BY <2>1
      <4>2. k + 1 \in DOMAIN client.todo /\ r = client.todo[k + 1].run
        BY <3>1, <4>1
      <4> QED
        BY <4>2 DEF RunStores!Pending
    <3> QED
      BY <3>3, <3>4, <3>5
  <2> QED
    BY <2>2
<1>14. Len(items) + Len(todo) = Len(client.items) + Len(client.todo)
  <2>1. Len(client.items) \in Nat
    BY <1>3
  <2>2. Len(todo) = Len(client.todo) - 1 /\ Len(client.todo) \in Nat
    BY <1>4
  <2>3. Len(items) = Len(client.items) + 1
    BY <1>8
  <2>4. \A a, b \in Nat : (a + 1) + (b - 1) = a + b
    OBVIOUS
  <2> QED
    BY <2>1, <2>2, <2>3, <2>4
<1>15. RunStores!PagingInv'
  <2>1. RunStores!NothingIsMissed'
    BY <1>10 DEF RunStores!NothingIsMissed
  <2>2. ~client.disturbed =>
          /\ \A r \in client.before : Cardinality(RunStores!Newer(r)) < client.offset + Limit =>
                 r \in seen \cup RunStores!Pending'
          /\ Len(items) + Len(todo) < Limit => client.before \subseteq seen \cup RunStores!Pending'
    BY <1>1, <1>2, <1>13, <1>14, SameOperators DEF RunStores!PagingInv
  <2>3. ~client.disturbed =>
          /\ client.before \subseteq RunStores!Stored
          /\ \A r, q \in RunStores!Stored : r # q => runs[r].generated_at # runs[q].generated_at
    BY <1>1, <1>2 DEF RunStores!PagingInv
  <2> HIDE DEF seen
  <2> QED
    BY <1>2, <1>10, <1>11, <2>1, <2>2, <2>3, SameOperators DEF RunStores!PagingInv
<1>16. QED
  BY <1>11, <1>12, <1>15 DEF RunStores!RunsInv

\* The response: a page that is not full was the last.
LEMMA RespondInv ==
    ASSUME RunStores!RunsInv, RunStores!Respond
    PROVE  RunStores!RunsInv'
<1> DEFINE stage == IF Len(client.items) < Limit THEN "done" ELSE "paging"
<1>1. RunStores!StoredInv /\ RunStores!RequestInv /\ RunStores!PagingInv /\ client \in RunStores!Client
  BY DEF RunStores!RunsInv, RunStores!RequestInv
<1>2. /\ UNCHANGED <<runs, values>> /\ client.stage = "selected" /\ client.todo = <<>>
      /\ client' = [client EXCEPT !.stage = stage, !.offset = client.offset + Limit]
  BY DEF RunStores!Respond
<1>3. /\ stage \in {"done", "paging"} /\ client.offset + Limit \in Nat
      /\ Len(client.items) \in Nat
  BY <1>1, RunsConstants DEF RunStores!Client
<1> HIDE DEF stage
<1>4. client' \in RunStores!Client
  BY <1>1, <1>2, <1>3 DEF RunStores!Client
<1>5. /\ client'.stage = stage /\ client'.used = client.used
      /\ client'.offset = client.offset + Limit /\ client'.before = client.before
      /\ client'.disturbed = client.disturbed /\ client'.seen = client.seen
      /\ client'.todo = client.todo /\ client'.items = client.items
  BY <1>1, <1>2 DEF RunStores!Client
<1>6. /\ RunStores!Stored' = RunStores!Stored /\ RunStores!StoredInv'
         /\ \A r : RunStores!Newer(r)' = RunStores!Newer(r)
  BY <1>1, <1>2, StoredStays
<1>7. RunStores!RequestInv'
  <2>1. RunStores!ForecastsAreWhole'
    BY <1>1, <1>2, <1>5, AnswersStay DEF RunStores!RequestInv
  <2> QED
    BY <1>1, <1>2, <1>4, <1>5, <1>6, <2>1 DEF RunStores!RequestInv
<1>8. RunStores!Pending = {} /\ Len(client.todo) = 0
  BY <1>2 DEF RunStores!Pending
<1>9. RunStores!PagingInv'
  <2>1. ~client.disturbed =>
          /\ \A r \in client.before :
                 Cardinality(RunStores!Newer(r)) < client.offset + Limit => r \in client.seen
          /\ stage = "done" => client.before \subseteq client.seen
    BY <1>1, <1>2, <1>3, <1>8, SameOperators DEF RunStores!PagingInv, stage
  <2>2. ~client.disturbed =>
          /\ client.before \subseteq RunStores!Stored
          /\ \A r, q \in RunStores!Stored : r # q => runs[r].generated_at # runs[q].generated_at
    BY <1>1, <1>2 DEF RunStores!PagingInv
  <2>3. RunStores!NothingIsMissed'
    BY <1>5, <2>1 DEF RunStores!NothingIsMissed
  <2> QED
    BY <1>2, <1>3, <1>5, <1>6, <2>1, <2>2, <2>3, SameOperators DEF RunStores!PagingInv
<1>10. QED
  BY <1>6, <1>7, <1>9 DEF RunStores!RunsInv

-----------------------------------------------------------------------------
(* The stored runs: the invariant.                                         *)

\* Nothing is stored and nobody asks.
LEMMA RunsInitial ==
    ASSUME RunStores!Init
    PROVE  RunStores!RunsInv
<1>1. runs = [r \in Runs |-> None] /\ values = {} /\ client = RunStores!NewClient
  BY DEF RunStores!Init
<1>2. RunStores!Stored = {}
  BY <1>1 DEF RunStores!Stored
<1>3. RunStores!StoredInv
  BY <1>1, <1>2 DEF RunStores!StoredInv
<1>4. /\ client.stage = "idle" /\ client.used = {} /\ client.offset = 0 /\ client.before = {}
      /\ client.disturbed = FALSE /\ client.seen = {} /\ client.todo = <<>>
      /\ client.items = <<>>
  BY <1>1 DEF RunStores!NewClient
<1>5. client \in RunStores!Client
  BY <1>1 DEF RunStores!NewClient, RunStores!Client
<1>6. RunStores!IsFiniteSet(client.used)
  BY <1>4, FS_EmptySet, SameOperators
<1>7. RunStores!RequestInv
  BY <1>2, <1>4, <1>5, <1>6 DEF RunStores!RequestInv, RunStores!ForecastsAreWhole
<1>8. RunStores!PagingInv
  BY <1>4 DEF RunStores!PagingInv, RunStores!NothingIsMissed
<1>9. QED
  BY <1>3, <1>7, <1>8 DEF RunStores!RunsInv

\* Every step of a store or of its client keeps the invariant.
LEMMA RunsNext ==
    ASSUME RunStores!RunsInv, RunStores!Next \/ UNCHANGED runStores
    PROVE  RunStores!RunsInv'
<1>1. ASSUME NEW r \in Runs, NEW frame \in Frames, NEW at \in 1..MaxGenerated,
             RunStores!Save(r, frame, at)
      PROVE  RunStores!RunsInv'
  BY <1>1, SavedRun, SaveKeepsRequests, SaveKeepsPaging DEF RunStores!RunsInv
<1>2. ASSUME NEW r \in Runs, RunStores!Delete(r)
      PROVE  RunStores!RunsInv'
  BY <1>2, DeletedRun, DeleteKeepsRequests, DeleteKeepsPaging DEF RunStores!RunsInv
<1>3. CASE UNCHANGED runStores
  <2>1. client' = client /\ UNCHANGED <<runs, values>>
    BY <1>3 DEF runStores
  <2>2. /\ RunStores!Stored' = RunStores!Stored /\ RunStores!StoredInv'
           /\ \A r : RunStores!Newer(r)' = RunStores!Newer(r)
    BY <2>1, StoredStays DEF RunStores!RunsInv
  <2>3. RunStores!ForecastsAreWhole'
    BY <2>1, AnswersStay DEF RunStores!RunsInv, RunStores!RequestInv
  <2>4. RunStores!RequestInv'
    BY <2>1, <2>2, <2>3 DEF RunStores!RunsInv, RunStores!RequestInv
  <2>5. RunStores!Pending' = RunStores!Pending /\ (RunStores!NothingIsMissed' <=> RunStores!NothingIsMissed)
    BY <2>1 DEF RunStores!Pending, RunStores!NothingIsMissed
  <2>6. RunStores!PagingInv'
    BY <2>1, <2>2, <2>5, SameOperators DEF RunStores!RunsInv, RunStores!PagingInv
  <2> QED
    BY <2>2, <2>4, <2>6 DEF RunStores!RunsInv
<1>4. QED
  BY <1>1, <1>2, <1>3, CountRunsInv, SelectPageInv, SelectValuesInv, RespondInv
     DEF RunStores!Next

\* What the runs show follows from the invariant.
LEMMA RunsShow ==
    ASSUME RunStores!RunsInv
    PROVE  RunStores!TypeOK /\ RunStores!StoredIsWhole /\ RunStores!ForecastsAreWhole
           /\ RunStores!NothingIsMissed
<1>1. RunStores!StoredInv /\ RunStores!RequestInv /\ RunStores!PagingInv
  BY DEF RunStores!RunsInv
<1>2. RunStores!TypeOK
  <2>1. \A r \in RunStores!Stored : runs[r].generated_at \in 1..MaxGenerated
    BY <1>1, StoredRun DEF RunStores!RunMetadata
  <2> QED
    BY <1>1, <2>1 DEF RunStores!TypeOK, RunStores!RequestInv, RunStores!Client
<1>3. RunStores!StoredIsWhole
  BY <1>1, StoredRun, SameOperators DEF RunStores!StoredIsWhole, RunStores!StoredInv
<1>4. QED
  BY <1>1, <1>2, <1>3 DEF RunStores!RequestInv, RunStores!PagingInv

-----------------------------------------------------------------------------
(* Governance: the log grows by one event.                                 *)

\* What has been appended to the log: an event about r, of a type.
Logged(r, type, previous, new, at) ==
    [recommendation |-> r, event_type |-> type, previous_value |-> previous,
     new_value |-> Required(new), occurred_at |-> at]

\* An appended event is the last, at a position of its own.
LEMMA LogGrows ==
    ASSUME events \in Seq(Governance!Event), Len(events) < MaxHistory,
           NEW e \in Governance!Event, events' = Append(events, e)
    PROVE  /\ events' \in Seq(Governance!Event) /\ Len(events') <= MaxHistory
           /\ Len(events) + 1 \in Nat /\ DOMAIN events \subseteq Nat
           /\ DOMAIN events' = DOMAIN events \cup {Len(events) + 1}
           /\ events'[Len(events) + 1] = e
           /\ \A k \in DOMAIN events : k < Len(events) + 1 /\ events'[k] = events[k]
BY GovernanceConstants DEF Governance!GovernanceFits

\* Only the history of the event's recommendation grows, and of the parts of
\* it that of its type.
LEMMA HistoryGrows ==
    ASSUME events \in Seq(Governance!Event), Len(events) < MaxHistory,
           NEW r \in Recommendations,
           NEW type \in {"STATUS_CHANGED", "OWNER_ASSIGNED", "REVIEW_NOTE_ADDED"},
           NEW previous, NEW new, NEW at,
           Logged(r, type, previous, new, at) \in Governance!Event,
           events' = Append(events, Logged(r, type, previous, new, at)),
           NEW q \in Recommendations, NEW t
    PROVE  /\ Governance!History(q) \subseteq DOMAIN events
           /\ Governance!EventsOfType(q, t) \subseteq Governance!History(q)
           /\ Governance!History(q)' = IF q = r THEN Governance!History(q) \cup {Len(events) + 1}
                 ELSE Governance!History(q)
           /\ Governance!EventsOfType(q, t)' = IF q = r /\ t = type
                                      THEN Governance!EventsOfType(q, t) \cup {Len(events) + 1}
                                      ELSE Governance!EventsOfType(q, t)
<1> DEFINE e == Logged(r, type, previous, new, at)
<1>1. e.recommendation = r /\ e.event_type = type
  BY DEF Logged
<1> HIDE DEF e
<1>2. /\ DOMAIN events' = DOMAIN events \cup {Len(events) + 1}
      /\ Len(events) + 1 \notin DOMAIN events
      /\ events'[Len(events) + 1] = e
      /\ \A k \in DOMAIN events : events'[k] = events[k]
  <2>1. e \in Governance!Event /\ events' = Append(events, e)
    BY DEF e
  <2> QED
    BY <2>1, LogGrows
<1>3. Governance!History(q)' = IF q = r THEN Governance!History(q) \cup {Len(events) + 1}
         ELSE Governance!History(q)
  BY <1>1, <1>2 DEF Governance!History
<1>4. Governance!EventsOfType(q, t)' = IF q = r /\ t = type
                              THEN Governance!EventsOfType(q, t) \cup {Len(events) + 1}
                              ELSE Governance!EventsOfType(q, t)
  <2>1. Governance!EventsOfType(q, t)' = {k \in Governance!History(q)' : events'[k].event_type = t}
    BY DEF Governance!EventsOfType
  <2>2. \A k \in Governance!History(q) : events'[k] = events[k] /\ k # Len(events) + 1
    BY <1>2 DEF Governance!History
  <2>3. CASE q = r
    <3>1. Governance!History(q)' = Governance!History(q) \cup {Len(events) + 1}
      BY <1>3, <2>3
    <3> DEFINE n == Len(events) + 1
    <3>2. events'[n].event_type = type /\ n \notin Governance!History(q)
      BY <1>1, <1>2 DEF Governance!History
    <3> HIDE DEF n
    <3>3. Governance!EventsOfType(q, t)' = {k \in Governance!History(q) \cup {n} : events'[k].event_type = t}
      BY <2>1, <3>1 DEF n
    <3>4. Governance!EventsOfType(q, t)' = Governance!EventsOfType(q, t) \cup {k \in {n} : type = t}
      BY <2>2, <3>2, <3>3 DEF Governance!EventsOfType
    <3> QED
      BY <2>3, <3>4 DEF n
  <2>4. CASE q # r
    <3>1. Governance!History(q)' = Governance!History(q)
      BY <1>3, <2>4
    <3> QED
      BY <2>1, <2>2, <2>4, <3>1 DEF Governance!EventsOfType
  <2> QED
    BY <2>3, <2>4
<1>5. QED
  BY <1>3, <1>4 DEF Governance!History, Governance!EventsOfType

\* A set of places that grows at its end has a last one.
LEMMA LastGrows ==
    ASSUME NEW S, S \subseteq Nat, NEW n \in Nat, \A k \in S : k < n
    PROVE  Governance!IsLast(n, S \cup {n}) /\ \A k \in S : ~Governance!IsLast(k, S \cup {n})
BY DEF Governance!IsLast

\* Explains, of any log.
Connected(log, S, first, now) ==
    /\ S = {} => now = first
    /\ \A k \in S : /\ (\A j \in S : k <= j) => log[k].previous_value = first
                    /\ Governance!IsLast(k, S) => log[k].new_value = Required(now)
    /\ \A j, k \in S : j < k /\ (\A i \in S : i <= j \/ k <= i) =>
           log[j].new_value = Required(log[k].previous_value)

\* The chain of S, when the events at S stay as they are, ...
LEMMA ChainStays ==
    ASSUME NEW S, NEW first, NEW now, \A k \in S : events'[k] = events[k],
           Connected(events, S, first, now)
    PROVE  Connected(events', S, first, now)
BY DEF Connected

\* ... and the longer one, when the new event starts from what was recorded.
LEMMA ChainGrows ==
    ASSUME NEW S, S \subseteq Nat, NEW n \in Nat, \A k \in S : k < n,
           NEW first, NEW now, NEW new, Connected(events, S, first, now),
           \A k \in S : events'[k] = events[k],
           events'[n].previous_value = now, events'[n].new_value = Required(new)
    PROVE  Connected(events', S \cup {n}, first, new)
<1> DEFINE log == events'
           T == S \cup {n}
<1>1. ASSUME NEW k \in T, \A j \in T : k <= j
      PROVE  log[k].previous_value = first
  <2>1. CASE k = n
    <3>1. S = {}
      BY <1>1, <2>1
    <3> QED
      BY <2>1, <3>1 DEF Connected
  <2>2. CASE k # n
    BY <1>1, <2>2 DEF Connected
  <2> QED
    BY <2>1, <2>2
<1>2. ASSUME NEW k \in T, Governance!IsLast(k, T)
      PROVE  log[k].new_value = Required(new)
  BY <1>2, LastGrows
<1>3. ASSUME NEW j \in T, NEW k \in T, j < k, \A i \in T : i <= j \/ k <= i
      PROVE  log[j].new_value = Required(log[k].previous_value)
  <2>1. j \in S
    BY <1>3
  <2>2. CASE k = n
    <3>1. \A i \in S : i <= j
      BY <1>3, <2>2
    <3>2. Governance!IsLast(j, S)
      BY <2>1, <3>1 DEF Governance!IsLast
    <3> QED
      BY <2>1, <2>2, <3>2 DEF Connected
  <2>3. CASE k # n
    <3>1. k \in S /\ \A i \in S : i <= j \/ k <= i
      BY <1>3, <2>3
    <3> QED
      BY <1>3, <2>1, <3>1 DEF Connected
  <2> QED
    BY <2>2, <2>3
<1>4. QED
  BY <1>1, <1>2, <1>3 DEF Connected

\* What the log says of a recommendation no event is appended about, or of a
\* part of its history that does not grow.
LEMMA LogStays ==
    ASSUME Governance!GovernanceInv, NEW r \in Recommendations,
           NEW type \in {"STATUS_CHANGED", "OWNER_ASSIGNED", "REVIEW_NOTE_ADDED"},
           NEW previous, NEW new, NEW at, Len(events) < MaxHistory,
           Logged(r, type, previous, new, at) \in Governance!Event,
           events' = Append(events, Logged(r, type, previous, new, at)),
           Governance!ValidEventTime(r, at),
           NEW q \in Recommendations
    PROVE  /\ Governance!HasLast(Governance!History(q))'
              /\ Governance!HasLast(Governance!EventsOfType(q, "STATUS_CHANGED"))'
           /\ \A j, k \in Governance!History(q)' : j < k => events'[j].occurred_at <= events'[k].occurred_at
<1> DEFINE n == Len(events) + 1
           e == Logged(r, type, previous, new, at)
<1>1. /\ events \in Seq(Governance!Event)
      /\ Governance!HasLast(Governance!History(q))
         /\ Governance!HasLast(Governance!EventsOfType(q, "STATUS_CHANGED"))
      /\ \A j, k \in Governance!History(q) : j < k => events[j].occurred_at <= events[k].occurred_at
  BY DEF Governance!GovernanceInv, Governance!HistoryExplainsState
<1>2. e.occurred_at = at /\ e \in Governance!Event
  BY DEF Logged
<1> HIDE DEF e
<1>3. /\ n \in Nat /\ DOMAIN events \subseteq Nat
      /\ events'[n] = e /\ \A k \in DOMAIN events : k < n /\ events'[k] = events[k]
  <2>1. events' = Append(events, e)
    BY DEF e
  <2> QED
    BY <1>1, <1>2, <2>1, LogGrows
<1> HIDE DEF n
<1>4. /\ Governance!History(q) \subseteq DOMAIN events
      /\ Governance!EventsOfType(q, "STATUS_CHANGED") \subseteq DOMAIN events
      /\ Governance!History(q)' = IF q = r THEN Governance!History(q) \cup {n}
            ELSE Governance!History(q)
      /\ \/ Governance!EventsOfType(q, "STATUS_CHANGED")' = Governance!EventsOfType(q, "STATUS_CHANGED") \cup {n}
         \/ Governance!EventsOfType(q, "STATUS_CHANGED")' = Governance!EventsOfType(q, "STATUS_CHANGED")
  BY <1>1, HistoryGrows DEF n
<1>5. ASSUME NEW S, S \subseteq DOMAIN events, Governance!HasLast(S)
      PROVE  Governance!HasLast(S \cup {n})
  BY <1>3, <1>5, LastGrows DEF Governance!HasLast
<1>6. Governance!HasLast(Governance!History(q))'
  <2>1. Governance!HasLast(Governance!History(q)') 
    BY <1>1, <1>4, <1>5
  <2> QED
    BY <2>1 DEF Governance!HasLast, Governance!IsLast
<1>7. Governance!HasLast(Governance!EventsOfType(q, "STATUS_CHANGED"))'
  <2>1. Governance!HasLast(Governance!EventsOfType(q, "STATUS_CHANGED")')
    BY <1>1, <1>4, <1>5
  <2> QED
    BY <2>1 DEF Governance!HasLast, Governance!IsLast
<1>8. ASSUME NEW j \in Governance!History(q)', NEW k \in Governance!History(q)', j < k
      PROVE  events'[j].occurred_at <= events'[k].occurred_at
  <2>1. j \in Governance!History(q)
    BY <1>3, <1>4, <1>8
  <2>2. CASE k \in Governance!History(q)
    BY <1>1, <1>3, <1>4, <1>8, <2>1, <2>2
  <2>3. CASE k \notin Governance!History(q)
    <3>1. q = r /\ k = n
      BY <1>4, <2>3
    <3>2. PICK last \in Governance!History(r) : Governance!IsLast(last, Governance!History(r))
      BY <1>1, <2>1, <3>1 DEF Governance!HasLast
    <3>3. at >= events[last].occurred_at /\ j <= last
      BY <2>1, <3>1, <3>2 DEF Governance!ValidEventTime, Governance!IsLast
    <3>4. events[j].occurred_at <= events[last].occurred_at
      <4>1. j < last \/ j = last
        BY <1>3, <1>4, <2>1, <3>1, <3>2, <3>3
      <4>2. events[j] \in Governance!Event
        BY <1>1, <1>4, <2>1
      <4> QED
        BY <1>1, <2>1, <3>1, <3>2, <4>1, <4>2, GovernanceConstants DEF Governance!Event, Governance!GovernanceFits
    <3>5. at \in Int /\ events[last].occurred_at \in Int /\ events[j].occurred_at \in Int
      <4>1. events[last] \in Governance!Event /\ events[j] \in Governance!Event
        BY <1>1, <1>4, <2>1, <3>1, <3>2
      <4>2. at \in 1 .. MaxOccurred
        BY <1>2 DEF Governance!Event
      <4> QED
        BY <4>1, <4>2, GovernanceConstants DEF Governance!Event, Governance!GovernanceFits
    <3>6. events'[j] = events[j] /\ events'[k].occurred_at = at
      BY <1>2, <1>3, <1>4, <2>1, <3>1
    <3> QED
      BY <3>3, <3>4, <3>5, <3>6
  <2> QED
    BY <2>2, <2>3
<1>9. QED
  BY <1>6, <1>7, <1>8

-----------------------------------------------------------------------------
(* Governance: what an event does to the state it explains.                *)

\* The transitions of the review that the order of statuses rests on.
LEMMA TransitionTable ==
    ASSUME NEW now \in Governance!RecommendationStatus, NEW new \in Governance!ALLOWED_TRANSITIONS[now]
    PROVE  /\ new \in Governance!RecommendationStatus
           /\ now \notin {"REJECTED", "COMPLETED", "CANCELLED"}
           /\ new = "APPROVED" => now = "UNDER_REVIEW"
           /\ new = "IN_PROGRESS" => now = "APPROVED"
           /\ new = "COMPLETED" => now = "IN_PROGRESS"
<1>1. now \in {"PROPOSED", "UNDER_REVIEW", "DEFERRED", "APPROVED", "IN_PROGRESS", "REJECTED",
               "COMPLETED", "CANCELLED"}
  BY DEF Governance!RecommendationStatus, Governance!ALLOWED_TRANSITIONS
<1>2. QED
  BY <1>1 DEF Governance!RecommendationStatus, Governance!ALLOWED_TRANSITIONS

\* A status comes to the log as it is.
LEMMA StatusesAreKept ==
    ASSUME NEW status \in Governance!RecommendationStatus
    PROVE  Required(status) = status
BY GovernanceConstants DEF Governance!GovernanceFits

\* What the events at S say is over is over now, and at their end.
Over(S, log, now) ==
    \A k \in S : log[k].new_value \in {"REJECTED", "COMPLETED", "CANCELLED"} =>
        Governance!IsLast(k, S) /\ now = log[k].new_value

\* The events at S: what is carried out was approved, what is approved was
\* reviewed.
Reviewed(S, log) ==
    \A k \in S :
        /\ log[k].new_value = "APPROVED" =>
               \E i \in S : i < k /\ log[i].new_value = "UNDER_REVIEW"
        /\ log[k].new_value \in {"IN_PROGRESS", "COMPLETED"} =>
               \E i, j \in S : /\ i < j /\ j < k
                               /\ log[i].new_value = "UNDER_REVIEW"
                               /\ log[j].new_value = "APPROVED"

\* Nothing was over before an allowed transition.
LEMMA NothingOver ==
    ASSUME NEW S, NEW now \in Governance!RecommendationStatus,
           NEW new \in Governance!ALLOWED_TRANSITIONS[now], Over(S, events, now), NEW k \in S
    PROVE  events[k].new_value \notin {"REJECTED", "COMPLETED", "CANCELLED"}
<1>1. now \notin {"REJECTED", "COMPLETED", "CANCELLED"}
  BY TransitionTable
<1>2. QED
  BY <1>1 DEF Over

\* What is over when no status changes, ...
LEMMA OverStays ==
    ASSUME NEW S, \A k \in S : events'[k] = events[k], NEW now, Over(S, events, now)
    PROVE  Over(S, events', now)
BY DEF Over

\* ... when one does without an event, ...
LEMMA OverRaised ==
    ASSUME NEW S, events' = events, NEW now \in Governance!RecommendationStatus,
           NEW new \in Governance!ALLOWED_TRANSITIONS[now], Over(S, events, now)
    PROVE  Over(S, events', new)
BY NothingOver DEF Over

\* ... and with one.
LEMMA OverGrows ==
    ASSUME NEW S, S \subseteq Nat, NEW n \in Nat, \A k \in S : k < n,
           \A k \in S : events'[k] = events[k],
           NEW now \in Governance!RecommendationStatus, NEW new \in Governance!ALLOWED_TRANSITIONS[now],
           events'[n].new_value = new, Over(S, events, now)
    PROVE  Over(S \cup {n}, events', new)
<1>1. \A k \in S : events'[k].new_value \notin {"REJECTED", "COMPLETED", "CANCELLED"}
  BY NothingOver
<1>2. QED
  BY <1>1, LastGrows DEF Over

\* A review is a matter of the events it is about.
LEMMA ReviewStays ==
    ASSUME NEW S, \A k \in S : events'[k] = events[k], Reviewed(S, events)
    PROVE  Reviewed(S, events')
BY DEF Reviewed

\* An allowed transition of a reviewed history is reviewed.
LEMMA ReviewGrows ==
    ASSUME NEW S, S \subseteq Nat, Governance!HasLast(S), NEW n \in Nat, \A k \in S : k < n,
           \A k \in S : events'[k] = events[k],
           NEW now \in Governance!RecommendationStatus, NEW new \in Governance!ALLOWED_TRANSITIONS[now],
           events'[n].new_value = new,
           Connected(events, S, "PROPOSED", now), Reviewed(S, events)
    PROVE  Reviewed(S \cup {n}, events')
<1> DEFINE T == S \cup {n}
<1>1. /\ new = "APPROVED" => now = "UNDER_REVIEW"
      /\ new = "IN_PROGRESS" => now = "APPROVED"
      /\ new = "COMPLETED" => now = "IN_PROGRESS"
  BY TransitionTable
<1>2. ASSUME now # "PROPOSED"
      PROVE  \E last \in S : events[last].new_value = now
  BY <1>2, StatusesAreKept DEF Connected, Governance!HasLast
<1>4. ASSUME NEW k \in T, events'[k].new_value = "APPROVED"
      PROVE  \E i \in T : i < k /\ events'[i].new_value = "UNDER_REVIEW"
  <2>1. CASE k = n
    BY <1>1, <1>2, <1>4, <2>1
  <2>2. CASE k # n
    <3>1. k \in S /\ events[k].new_value = "APPROVED"
      BY <1>4, <2>2
    <3>2. PICK i \in S : i < k /\ events[i].new_value = "UNDER_REVIEW"
      BY <3>1 DEF Reviewed
    <3> QED
      BY <3>2
  <2> QED
    BY <2>1, <2>2
<1>5. ASSUME NEW k \in T, events'[k].new_value \in {"IN_PROGRESS", "COMPLETED"}
      PROVE  \E i, j \in T : /\ i < j /\ j < k
                             /\ events'[i].new_value = "UNDER_REVIEW"
                             /\ events'[j].new_value = "APPROVED"
  <2>1. CASE k # n
    <3>1. k \in S /\ events[k].new_value \in {"IN_PROGRESS", "COMPLETED"}
      BY <1>5, <2>1
    <3>2. PICK i \in S, j \in S : /\ i < j /\ j < k
                                  /\ events[i].new_value = "UNDER_REVIEW"
                                  /\ events[j].new_value = "APPROVED"
      BY <3>1 DEF Reviewed
    <3> QED
      BY <3>2
  <2>2. CASE k = n /\ new = "IN_PROGRESS"
    <3>1. PICK j \in S : events[j].new_value = "APPROVED"
      BY <1>1, <1>2, <2>2
    <3>2. PICK i \in S : i < j /\ events[i].new_value = "UNDER_REVIEW"
      BY <3>1 DEF Reviewed
    <3> QED
      BY <2>2, <3>1, <3>2
  <2>3. CASE k = n /\ new = "COMPLETED"
    <3>1. PICK last \in S : events[last].new_value = "IN_PROGRESS"
      BY <1>1, <1>2, <2>3
    <3>2. PICK i \in S, j \in S : /\ i < j /\ j < last
                                  /\ events[i].new_value = "UNDER_REVIEW"
                                  /\ events[j].new_value = "APPROVED"
      BY <3>1 DEF Reviewed
    <3>3. j < n
      BY <3>2
    <3> QED
      BY <2>3, <3>2, <3>3
  <2> QED
    BY <1>5, <2>1, <2>2, <2>3
<1>6. QED
  BY <1>4, <1>5 DEF Reviewed

\* An event that tells what a write did keeps the invariant.
LEMMA GovernanceStep ==
    ASSUME Governance!GovernanceInv, NEW r \in Recommendations,
           NEW type \in {"STATUS_CHANGED", "OWNER_ASSIGNED", "REVIEW_NOTE_ADDED"},
           NEW previous, NEW new, NEW at, Len(events) + Len(missed) < MaxHistory, missed' = missed,
           Logged(r, type, previous, new, at) \in Governance!Event,
           events' = Append(events, Logged(r, type, previous, new, at)),
           Governance!ValidEventTime(r, at),
           recommendations' \in [Recommendations -> Governance!Recommendation],
           \A q \in Recommendations \ {r} : recommendations'[q] = recommendations[q],
           type = "STATUS_CHANGED" =>
               /\ previous = recommendations[r].status /\ new = recommendations'[r].status
               /\ new \in Governance!ALLOWED_TRANSITIONS[previous]
               /\ recommendations'[r].status_classification = "USER_ENTERED",
           type # "STATUS_CHANGED" =>
               /\ recommendations'[r].status = recommendations[r].status
               /\ recommendations'[r].status_classification = recommendations[r].status_classification,
           type = "OWNER_ASSIGNED" =>
               /\ previous = Governance!Label(recommendations[r].owner)
               /\ new = Governance!Label(recommendations'[r].owner),
           type # "OWNER_ASSIGNED" => recommendations'[r].owner = recommendations[r].owner
    PROVE  Governance!GovernanceInv'
<1> DEFINE n == Len(events) + 1
           e == Logged(r, type, previous, new, at)
           statuses(q) == Governance!EventsOfType(q, "STATUS_CHANGED")
           owners(q) == Governance!EventsOfType(q, "OWNER_ASSIGNED")
<1>1. /\ events \in Seq(Governance!Event)
         /\ recommendations \in [Recommendations -> Governance!Recommendation]
      /\ Governance!HistoryExplainsState /\ Governance!ReviewedBeforeDone
      /\ \A q \in Recommendations :
             Governance!HasLast(statuses(q)) /\ (~Governance!Unaudited(q) => Governance!ApprovedInReview(q))
      /\ missed \in Seq(Recommendations) /\ Len(missed) \in Nat
      /\ Len(events) < MaxHistory /\ Len(events) + 1 + Len(missed) <= MaxHistory
  BY GovernanceConstants DEF Governance!GovernanceInv, Governance!GovernanceFits
<1>2. e.previous_value = previous /\ e.new_value = Required(new)
  BY DEF Logged
<1> HIDE DEF e
<1>3. /\ n \in Nat /\ DOMAIN events \subseteq Nat
      /\ events'[n] = e /\ \A k \in DOMAIN events : k < n /\ events'[k] = events[k]
      /\ events' \in Seq(Governance!Event) /\ Len(events') + Len(missed') <= MaxHistory
  <2>1. events' = Append(events, e) /\ e \in Governance!Event
    BY DEF e
  <2> QED
    BY <1>1, <2>1, LogGrows, GovernanceConstants
<1> HIDE DEF n
<1>4. ASSUME NEW q \in Recommendations
      PROVE  /\ statuses(q) \subseteq DOMAIN events /\ owners(q) \subseteq DOMAIN events
             /\ statuses(q)' = IF q = r /\ type = "STATUS_CHANGED" THEN statuses(q) \cup {n}
                               ELSE statuses(q)
             /\ owners(q)' = IF q = r /\ type = "OWNER_ASSIGNED" THEN owners(q) \cup {n}
                             ELSE owners(q)
  BY <1>1, HistoryGrows DEF n
<1>5. ASSUME NEW q \in Recommendations
      PROVE  /\ ~Governance!Unaudited(q) =>
                    /\ Connected(events, statuses(q), "PROPOSED", recommendations[q].status)
                    /\ Reviewed(statuses(q), events)
             /\ Connected(events, owners(q), Governance!Label(Governance!Unassigned), Governance!Label(recommendations[q].owner))
             /\ recommendations[q].status_classification = "USER_ENTERED" <=>
                    statuses(q) # {} \/ Governance!Unaudited(q)
             /\ recommendations[q].status \in Governance!RecommendationStatus
             /\ Over(statuses(q), events, recommendations[q].status)
  BY <1>1 DEF Governance!HistoryExplainsState, Governance!ReviewedBeforeDone,
     Governance!ApprovedInReview, Governance!Explains,
              Governance!Recommendation, Connected, Reviewed, Over
<1>14. \A q : Governance!Unaudited(q)' <=> Governance!Unaudited(q)
  BY DEF Governance!Unaudited
<1>6. ASSUME NEW q \in Recommendations, ~Governance!Unaudited(q)
      PROVE  Connected(events', statuses(q)', "PROPOSED", recommendations'[q].status)
  <2> HIDE DEF statuses
  <2>1. CASE q = r /\ type = "STATUS_CHANGED"
    <3>1. /\ statuses(q)' = statuses(q) \cup {n} /\ recommendations'[q].status = new
          /\ e.previous_value = recommendations[q].status
      BY <1>2, <1>4, <2>1
    <3>2. /\ statuses(q) \subseteq Nat /\ n \in Nat
          /\ \A k \in statuses(q) : k < n /\ events'[k] = events[k]
          /\ events'[n].previous_value = recommendations[q].status
          /\ events'[n].new_value = Required(new)
          /\ Connected(events, statuses(q), "PROPOSED", recommendations[q].status)
      BY <1>2, <1>3, <1>4, <1>5, <1>6, <3>1
    <3>3. Connected(events', statuses(q) \cup {n}, "PROPOSED", new)
      BY <3>2, ChainGrows
    <3> QED
      BY <3>1, <3>3
  <2>2. CASE ~(q = r /\ type = "STATUS_CHANGED")
    <3>1. statuses(q)' = statuses(q) /\ recommendations'[q].status = recommendations[q].status
      BY <1>4, <2>2
    <3> QED
      BY <1>3, <1>4, <1>5, <1>6, <3>1, ChainStays
  <2> QED
    BY <2>1, <2>2
<1>7. ASSUME NEW q \in Recommendations
      PROVE  Connected(events', owners(q)', Governance!Label(Governance!Unassigned), Governance!Label(recommendations'[q].owner))
  <2> HIDE DEF owners
  <2>1. CASE q = r /\ type = "OWNER_ASSIGNED"
    <3>1. /\ owners(q)' = owners(q) \cup {n} /\ Governance!Label(recommendations'[q].owner) = new
          /\ e.previous_value = Governance!Label(recommendations[q].owner)
      BY <1>2, <1>4, <2>1
    <3>2. /\ owners(q) \subseteq Nat /\ n \in Nat
          /\ \A k \in owners(q) : k < n /\ events'[k] = events[k]
          /\ events'[n].previous_value = Governance!Label(recommendations[q].owner)
          /\ events'[n].new_value = Required(new)
          /\ Connected(events, owners(q), Governance!Label(Governance!Unassigned), Governance!Label(recommendations[q].owner))
      BY <1>2, <1>3, <1>4, <1>5, <3>1
    <3>3. Connected(events', owners(q) \cup {n}, Governance!Label(Governance!Unassigned), new)
      BY <3>2, ChainGrows
    <3> QED
      BY <3>1, <3>3
  <2>2. CASE ~(q = r /\ type = "OWNER_ASSIGNED")
    <3>1. owners(q)' = owners(q) /\ recommendations'[q].owner = recommendations[q].owner
      BY <1>4, <2>2
    <3> QED
      BY <1>3, <1>4, <1>5, <3>1, ChainStays
  <2> QED
    BY <2>1, <2>2
<1>8. ASSUME NEW q \in Recommendations
      PROVE  recommendations'[q].status_classification = "USER_ENTERED" <=>
                 statuses(q)' # {} \/ Governance!Unaudited(q)
  BY <1>4, <1>5
<1>9. ASSUME NEW q \in Recommendations
      PROVE  /\ Over(statuses(q)', events', recommendations'[q].status)
             /\ ~Governance!Unaudited(q) => Reviewed(statuses(q)', events')
  <2> HIDE DEF statuses
  <2>1. CASE q = r /\ type = "STATUS_CHANGED"
    <3>1. /\ statuses(q)' = statuses(q) \cup {n} /\ recommendations'[q].status = new
          /\ new \in Governance!ALLOWED_TRANSITIONS[recommendations[q].status]
      BY <1>4, <2>1
    <3>2. Governance!HasLast(statuses(q))
      BY <1>1 DEF statuses
    <3>3. /\ recommendations[q].status \in Governance!RecommendationStatus
          /\ Over(statuses(q), events, recommendations[q].status)
          /\ ~Governance!Unaudited(q) =>
                 /\ Connected(events, statuses(q), "PROPOSED", recommendations[q].status)
                 /\ Reviewed(statuses(q), events)
      BY <1>5
    <3>4. /\ statuses(q) \subseteq Nat /\ n \in Nat
          /\ \A k \in statuses(q) : k < n /\ events'[k] = events[k]
          /\ events'[n].new_value = new
      <4>1. new \in Governance!RecommendationStatus
        BY Zenon, <3>1, <3>3, TransitionTable
      <4>2. Required(new) = new
        BY Zenon, <4>1, StatusesAreKept
      <4> QED
        BY <1>2, <1>3, <1>4, <4>2
    <3>5. Over(statuses(q) \cup {n}, events', new)
      BY Zenon, <3>1, <3>3, <3>4, OverGrows
    <3>6. ASSUME ~Governance!Unaudited(q)
          PROVE  Reviewed(statuses(q) \cup {n}, events')
      BY Zenon, <3>1, <3>2, <3>3, <3>4, <3>6, ReviewGrows
    <3> QED
      BY <3>1, <3>5, <3>6
  <2>2. CASE ~(q = r /\ type = "STATUS_CHANGED")
    <3>1. /\ statuses(q)' = statuses(q) /\ \A k \in statuses(q) : events'[k] = events[k]
          /\ recommendations'[q].status = recommendations[q].status
      BY <1>3, <1>4, <2>2
    <3> QED
      BY <1>5, <3>1, ReviewStays, OverStays
  <2> QED
    BY <2>1, <2>2
<1>10. ASSUME NEW q \in Recommendations
       PROVE  /\ Governance!HasLast(Governance!History(q))'
                 /\ Governance!HasLast(Governance!EventsOfType(q, "STATUS_CHANGED"))'
              /\ \A j, k \in Governance!History(q)' : j < k => events'[j].occurred_at <= events'[k].occurred_at
  BY Zenon, <1>1, LogStays
<1>11. Governance!HistoryExplainsState'
  <2>1. ASSUME NEW q \in Recommendations, ~Governance!Unaudited(q)
        PROVE  Governance!Explains(statuses(q), "PROPOSED", recommendations[q].status)'
    <3>1. Connected(events', statuses(q)', "PROPOSED", recommendations'[q].status)
      BY Zenon, <1>6, <2>1
    <3> QED
      BY Zenon, <3>1 DEF Governance!Explains, Governance!IsLast, Connected
  <2>2. ASSUME NEW q \in Recommendations
        PROVE  Governance!Explains(owners(q), Governance!Label(Governance!Unassigned),
                                   Governance!Label(recommendations[q].owner))'
    BY Zenon, <1>7, <2>2 DEF Governance!Explains, Governance!IsLast, Connected
  <2> QED
    BY <1>14, <1>8, <1>10, <2>1, <2>2 DEF Governance!HistoryExplainsState
<1>12. /\ Governance!ReviewedBeforeDone'
       /\ \A q \in Recommendations : ~Governance!Unaudited(q)' => Governance!ApprovedInReview(q)'
  <2>1. Governance!ReviewedBeforeDone'
    <3>1. ASSUME NEW q \in Recommendations, NEW k \in statuses(q)',
                 events'[k].new_value \in {"REJECTED", "COMPLETED", "CANCELLED"}
          PROVE  Governance!IsLast(k, statuses(q)') /\ recommendations'[q].status = events'[k].new_value
      <4>1. Over(statuses(q)', events', recommendations'[q].status)
        BY Zenon, <1>9, <3>1
      <4> HIDE DEF statuses
      <4> QED
        BY Zenon, <3>1, <4>1 DEF Over
    <3>2. ASSUME NEW q \in Recommendations, NEW k \in statuses(q)', ~Governance!Unaudited(q),
                 events'[k].new_value \in {"IN_PROGRESS", "COMPLETED"}
          PROVE  \E i, j \in statuses(q)' : /\ i < j /\ j < k
                                            /\ events'[i].new_value = "UNDER_REVIEW"
                                            /\ events'[j].new_value = "APPROVED"
      <4>1. Reviewed(statuses(q)', events')
        BY Zenon, <1>9, <3>2
      <4> HIDE DEF statuses
      <4> QED
        BY Zenon, <3>2, <4>1 DEF Reviewed
    <3> QED
      BY <1>14, <3>1, <3>2 DEF Governance!ReviewedBeforeDone, Governance!IsLast,
         Governance!EventsOfType, Governance!History
  <2>2. ASSUME NEW q \in Recommendations, ~Governance!Unaudited(q)
        PROVE  Governance!ApprovedInReview(q)'
    BY <1>9, <2>2 DEF Reviewed, Governance!ApprovedInReview
  <2> QED
    BY Zenon, <1>14, <2>1, <2>2
<1>13. QED
  BY <1>1, <1>3, <1>10, <1>11, <1>12 DEF Governance!GovernanceInv, Governance!Recommendation,
     Governance!Event

\* What raises on an allowed transition after its write keeps the invariant.
LEMMA RaisedStep ==
    ASSUME Governance!GovernanceInv, NEW r \in Recommendations, Governance!RaiseBeforeEvent(r),
           recommendations' \in [Recommendations -> Governance!Recommendation],
           \A q \in Recommendations \ {r} : recommendations'[q] = recommendations[q],
           recommendations'[r].status \in Governance!ALLOWED_TRANSITIONS[recommendations[r].status],
           recommendations'[r].status_classification = "USER_ENTERED",
           recommendations'[r].owner = recommendations[r].owner
    PROVE  Governance!GovernanceInv'
<1> DEFINE statuses(q) == Governance!EventsOfType(q, "STATUS_CHANGED")
<1>1. /\ events \in Seq(Governance!Event) /\ missed \in Seq(Recommendations)
      /\ recommendations \in [Recommendations -> Governance!Recommendation]
      /\ Len(events) + Len(missed) < MaxHistory
      /\ events' = events /\ missed' = Append(missed, r)
      /\ Governance!HistoryExplainsState /\ Governance!ReviewedBeforeDone
      /\ \A q \in Recommendations :
             /\ Governance!HasLast(Governance!History(q)) /\ Governance!HasLast(statuses(q))
             /\ ~Governance!Unaudited(q) => Governance!ApprovedInReview(q)
  BY DEF Governance!GovernanceInv, Governance!RaiseBeforeEvent
<1>2. /\ missed' \in Seq(Recommendations) /\ Len(events') + Len(missed') <= MaxHistory
      /\ \A q : Governance!Unaudited(q)' <=> Governance!Unaudited(q) \/ q = r
  <2>1. /\ missed' \in Seq(Recommendations) /\ Len(missed') = Len(missed) + 1
        /\ DOMAIN missed' = DOMAIN missed \cup {Len(missed) + 1}
        /\ missed'[Len(missed) + 1] = r
        /\ \A k \in DOMAIN missed : missed'[k] = missed[k]
    BY <1>1
  <2>2. Len(events') + Len(missed') <= MaxHistory
    BY <1>1, <2>1, GovernanceConstants DEF Governance!GovernanceFits
  <2> QED
    BY <2>1, <2>2 DEF Governance!Unaudited
<1>3. \A q, t : /\ Governance!History(q)' = Governance!History(q)
                /\ Governance!EventsOfType(q, t)' = Governance!EventsOfType(q, t)
  BY <1>1 DEF Governance!History, Governance!EventsOfType
<1>4. ASSUME NEW q \in Recommendations
      PROVE  Over(statuses(q), events', recommendations'[q].status)
  <2> HIDE DEF statuses
  <2>1. /\ Over(statuses(q), events, recommendations[q].status)
        /\ recommendations[q].status \in Governance!RecommendationStatus
    BY <1>1 DEF statuses, Over, Governance!ReviewedBeforeDone, Governance!Recommendation
  <2>2. CASE q = r
    BY <1>1, <2>1, <2>2, OverRaised
  <2>3. CASE q # r
    <3>1. recommendations'[q].status = recommendations[q].status
      BY <2>3
    <3> QED
      BY <1>1, <2>1, <3>1
  <2> QED
    BY <2>2, <2>3
<1>5. ASSUME NEW q \in Recommendations, ~Governance!Unaudited(q)'
      PROVE  ~Governance!Unaudited(q) /\ recommendations'[q] = recommendations[q]
  BY <1>2, <1>5
<1>6. ASSUME NEW q \in Recommendations
      PROVE  /\ recommendations'[q].owner = recommendations[q].owner
             /\ recommendations'[q].status_classification = "USER_ENTERED" <=>
                    statuses(q) # {} \/ Governance!Unaudited(q)'
  <2>1. recommendations[q].status_classification = "USER_ENTERED" <=>
            statuses(q) # {} \/ Governance!Unaudited(q)
    BY <1>1 DEF Governance!HistoryExplainsState
  <2> QED
    BY <1>2, <2>1
<1>7. Governance!HistoryExplainsState'
  BY <1>1, <1>3, <1>5, <1>6 DEF Governance!HistoryExplainsState, Governance!Explains
<1>8. Governance!ReviewedBeforeDone'
  BY <1>1, <1>3, <1>4, <1>5 DEF Governance!ReviewedBeforeDone, Over
<1>9. \A q \in Recommendations :
          /\ Governance!HasLast(Governance!History(q))'
          /\ Governance!HasLast(Governance!EventsOfType(q, "STATUS_CHANGED"))'
          /\ ~Governance!Unaudited(q)' => Governance!ApprovedInReview(q)'
  BY <1>1, <1>3, <1>5 DEF Governance!HasLast, Governance!IsLast, Governance!ApprovedInReview
<1>10. QED
  BY <1>1, <1>2, <1>7, <1>8, <1>9 DEF Governance!GovernanceInv, Governance!Recommendation,
     Governance!Event

-----------------------------------------------------------------------------
(* Governance: its operations.                                             *)

\* Record appends what Logged describes.
LEMMA RecordFacts ==
    ASSUME NEW r, NEW type, NEW previous, NEW new, NEW at, Governance!Record(r, type, previous, new, at)
    PROVE  /\ Len(events) + Len(missed) < MaxHistory /\ missed' = missed
           /\ events' = Append(events, Logged(r, type, previous, new, at))
BY DEF Governance!Record, Logged

\* A transition keeps the invariant,
LEMMA TransitionInv ==
    ASSUME Governance!GovernanceInv, NEW r \in Recommendations, NEW role \in Roles,
           NEW at \in 1 .. MaxOccurred, NEW status \in Governance!RecommendationStatus,
           NEW is_text \in BOOLEAN, Governance!Transition(r, status, is_text, role, at)
    PROVE  Governance!GovernanceInv'
<1> DEFINE current == recommendations[r]
           next == [current EXCEPT !.status = status, !.is_text = is_text,
                                   !.status_classification = "USER_ENTERED"]
<1>1. current \in Governance!Recommendation
      /\ recommendations \in [Recommendations -> Governance!Recommendation]
  BY DEF Governance!GovernanceInv
<1>2. /\ next \in Governance!Recommendation /\ next.status = status
      /\ next.status_classification = "USER_ENTERED" /\ next.owner = current.owner
  BY <1>1 DEF Governance!Recommendation
<1>3. /\ status \in Governance!ALLOWED_TRANSITIONS[current.status] /\ Governance!ValidEventTime(r, at)
      /\ recommendations' = [recommendations EXCEPT ![r] = next]
      /\ \/ Governance!Record(r, "STATUS_CHANGED", current.status, status, at)
         \/ Governance!RaiseBeforeEvent(r)
  BY DEF Governance!Transition
<1> HIDE DEF next
<1>4. /\ recommendations' \in [Recommendations -> Governance!Recommendation]
      /\ recommendations'[r] = next
      /\ \A q \in Recommendations \ {r} : recommendations'[q] = recommendations[q]
  BY <1>1, <1>2, <1>3
<1>5. Logged(r, "STATUS_CHANGED", current.status, status, at) \in Governance!Event
  <2>1. Required(status) = status
    BY StatusesAreKept
  <2> QED
    BY <1>1, <2>1 DEF Logged, Governance!Event, Governance!Recommendation
<1>6. CASE Governance!Record(r, "STATUS_CHANGED", current.status, status, at)
  BY <1>2, <1>3, <1>4, <1>5, <1>6, RecordFacts, GovernanceStep
<1>7. CASE Governance!RaiseBeforeEvent(r)
  BY <1>2, <1>3, <1>4, <1>7, RaisedStep
<1>8. QED
  BY <1>3, <1>6, <1>7

\* so does the assignment of an owner,
LEMMA AssignOwnerInv ==
    ASSUME Governance!GovernanceInv, NEW r \in Recommendations, NEW role \in Roles,
           NEW at \in 1 .. MaxOccurred, NEW owner \in Owners,
           Governance!AssignOwner(r, owner, role, at)
    PROVE  Governance!GovernanceInv'
<1> DEFINE current == recommendations[r]
           next == [current EXCEPT !.owner = owner]
<1>1. current \in Governance!Recommendation
      /\ recommendations \in [Recommendations -> Governance!Recommendation]
  BY DEF Governance!GovernanceInv
<1>2. /\ next \in Governance!Recommendation /\ next.status = current.status /\ next.owner = owner
      /\ next.status_classification = current.status_classification
  BY <1>1 DEF Governance!Recommendation
<1>3. /\ Governance!ValidEventTime(r, at)
      /\ recommendations' = [recommendations EXCEPT ![r] = next]
      /\ Governance!Record(r, "OWNER_ASSIGNED", Governance!Label(current.owner), Governance!Label(owner), at)
  BY DEF Governance!AssignOwner
<1> HIDE DEF next
<1>4. /\ recommendations' \in [Recommendations -> Governance!Recommendation]
      /\ recommendations'[r] = next
      /\ \A q \in Recommendations \ {r} : recommendations'[q] = recommendations[q]
  BY <1>1, <1>2, <1>3
<1>5. Logged(r, "OWNER_ASSIGNED", Governance!Label(current.owner), Governance!Label(owner), at) \in Governance!Event
  <2>1. current.owner \in Owners \cup {Governance!Unassigned}
    BY <1>1 DEF Governance!Recommendation
  <2> QED
    BY <2>1 DEF Logged, Governance!Event
<1>6. QED
  BY <1>2, <1>3, <1>4, <1>5, RecordFacts, GovernanceStep

\* and a note.
LEMMA AddReviewNoteInv ==
    ASSUME Governance!GovernanceInv, NEW r \in Recommendations, NEW role \in Roles,
           NEW at \in 1 .. MaxOccurred, Governance!AddReviewNote(r, role, at)
    PROVE  Governance!GovernanceInv'
<1>1. recommendations \in [Recommendations -> Governance!Recommendation]
  BY DEF Governance!GovernanceInv
<1>2. /\ Governance!ValidEventTime(r, at) /\ recommendations' = recommendations
      /\ Governance!Record(r, "REVIEW_NOTE_ADDED", None, "note", at)
  BY DEF Governance!AddReviewNote
<1>3. Logged(r, "REVIEW_NOTE_ADDED", None, "note", at) \in Governance!Event
  BY GovernanceConstants DEF Logged, Governance!Event, Governance!GovernanceFits
<1>4. QED
  BY <1>1, <1>2, <1>3, RecordFacts, GovernanceStep

\* No recommendation has a history when it is proposed.
LEMMA GovernanceInitial ==
    ASSUME Governance!Init
    PROVE  Governance!GovernanceInv
<1>1. /\ events = <<>> /\ DOMAIN events = {} /\ missed = <<>>
      /\ recommendations = [r \in Recommendations |->
            [status |-> "PROPOSED", is_text |-> FALSE, status_classification |-> "CONFIGURED",
             owner |-> Governance!Unassigned]]
  BY DEF Governance!Init
<1>2. \A r \in Recommendations :
        /\ recommendations[r].status = "PROPOSED"
        /\ recommendations[r].status_classification # "USER_ENTERED"
        /\ recommendations[r].owner = Governance!Unassigned
  BY <1>1
<1>3. recommendations \in [Recommendations -> Governance!Recommendation]
  <2>1. "PROPOSED" \in Governance!RecommendationStatus
    BY DEF Governance!RecommendationStatus, Governance!ALLOWED_TRANSITIONS
  <2> QED
    BY <1>1, <2>1 DEF Governance!Recommendation
<1>4. /\ events \in Seq(Governance!Event) /\ missed \in Seq(Recommendations)
      /\ Len(events) + Len(missed) <= MaxHistory /\ \A r : ~Governance!Unaudited(r)
  BY <1>1, GovernanceConstants DEF Governance!GovernanceFits, Governance!Unaudited
<1>5. \A r, t : Governance!History(r) = {} /\ Governance!EventsOfType(r, t) = {}
  BY <1>1 DEF Governance!History, Governance!EventsOfType
<1>6. QED
  BY <1>2, <1>3, <1>4, <1>5
     DEF Governance!GovernanceInv, Governance!HistoryExplainsState, Governance!ReviewedBeforeDone,
         Governance!Explains,
         Governance!ApprovedInReview, Governance!HasLast

\* Every step of the governance keeps the invariant.
LEMMA GovernanceNext ==
    ASSUME Governance!GovernanceInv, Governance!Next \/ UNCHANGED governance
    PROVE  Governance!GovernanceInv'
<1>1. CASE Governance!Next
  BY <1>1, TransitionInv, AssignOwnerInv, AddReviewNoteInv DEF Governance!Next
<1>2. CASE UNCHANGED governance
  <2>1. /\ events' = events /\ recommendations' = recommendations /\ missed' = missed
        /\ \A r : Governance!Unaudited(r)' <=> Governance!Unaudited(r)
    BY <1>2 DEF governance, Governance!Unaudited
  <2>2. \A r, t : Governance!History(r)' = Governance!History(r)
        /\ Governance!EventsOfType(r, t)' = Governance!EventsOfType(r, t)
    BY <2>1 DEF Governance!History, Governance!EventsOfType
  <2>3. Governance!HistoryExplainsState' <=> Governance!HistoryExplainsState
    BY <2>1, <2>2 DEF Governance!HistoryExplainsState, Governance!Explains
  <2>4. Governance!ReviewedBeforeDone' <=> Governance!ReviewedBeforeDone
    BY <2>1, <2>2 DEF Governance!ReviewedBeforeDone
  <2>5. \A r : Governance!ApprovedInReview(r)' <=> Governance!ApprovedInReview(r)
    BY <2>1, <2>2 DEF Governance!ApprovedInReview
  <2>6. \A r, t : /\ Governance!HasLast(Governance!History(r))' <=> Governance!HasLast(Governance!History(r))
                 /\ Governance!HasLast(Governance!EventsOfType(r, t))' <=> Governance!HasLast(Governance!EventsOfType(r, t))
    BY <2>2 DEF Governance!HasLast, Governance!IsLast
  <2> QED
    BY <2>1, <2>3, <2>4, <2>5, <2>6 DEF Governance!GovernanceInv
<1>3. QED
  BY <1>1, <1>2

\* The invariant types it.
LEMMA GovernanceTypes ==
    ASSUME Governance!GovernanceInv
    PROVE  Governance!TypeOK
BY DEF Governance!GovernanceInv, Governance!TypeOK, Governance!Recommendation

-----------------------------------------------------------------------------
(* The random numbers of synthetic runs.                                   *)

\* Contexts are those of the input, and what is decided is one of the known decisions.
LEMMA RunFacts ==
    ASSUME input \in RunInputs
    PROVE  /\ DOMAIN input.contexts = DOMAIN input.decisions
           /\ \A r \in DOMAIN input.decisions :
                  /\ input.contexts[r] \in Streams!Contexts
                  /\ input.decisions[r] \subseteq Streams!Decisions
BY StreamsConstants DEF Streams!RunsFit

\* What is asked for a decision: about an entity, its key; else none.
LEMMA RequestFacts ==
    ASSUME NEW d \in Streams!Decisions
    PROVE  /\ d.about = "stream" => Streams!Request(d).key = None
           /\ d.about # "stream" =>
                  /\ Streams!Request(d).key \in Seq(Streams!Words)
                  /\ Streams!Request(d).key # <<>> /\ Streams!Request(d).key # None
<1> DEFINE A   == Streams!Words
           key == Streams!Request(d).key
<1>1. "|" \in A /\ "primary" \in A
  BY DEF Streams!Words, Streams!Atoms
<1>2. ASSUME NEW s \in Seq(A) PROVE s # None
  <2>1. A \subseteq Streams!Atoms
    BY Zenon DEF Streams!Words
  <2> HIDE DEF A
  <2>2. s \in Seq(Streams!Atoms)
    BY <2>1
  <2> QED
    BY <2>2, StreamsConstants DEF Streams!RunsFit
<1>3. CASE d \in [about : {"event type"}, type : A]
  <2>1. key = <<d.type>> /\ d.about # "stream" /\ d.type \in A
    BY <1>3, Zenon DEF Streams!Request
  <2> HIDE DEF key, A
  <2>2. key \in Seq(A) /\ key # <<>>
    BY <2>1
  <2> QED
    BY <1>2, <2>1, <2>2 DEF key, A
<1>4. CASE d \in [about : {"tariff", "budget"}, plant : A]
  <2>1. key = <<d.plant>> /\ d.about # "stream" /\ d.plant \in A
    BY <1>4, Zenon DEF Streams!Request
  <2> HIDE DEF key, A
  <2>2. key \in Seq(A) /\ key # <<>>
    BY <2>1
  <2> QED
    BY <1>2, <2>1, <2>2 DEF key, A
<1>5. CASE d \in [about : {"primary alarm", "nuisance alarm"}, event : A, code : A]
  <2>1. /\ key = <<d.event, "|", d.code>> \/ key = <<d.event, "|", d.code, "|", "primary">>
        /\ d.about # "stream" /\ d.event \in A /\ d.code \in A
    BY <1>5, Zenon DEF Streams!Request, Streams!PrimaryAlarmKey
  <2> HIDE DEF key, A
  <2>2. /\ <<d.event, "|", d.code>> \in Seq(A) /\ <<d.event, "|", d.code>> # <<>>
        /\ <<d.event, "|", d.code, "|", "primary">> \in Seq(A)
        /\ <<d.event, "|", d.code, "|", "primary">> # <<>>
    BY <1>1, <2>1
  <2>3. key \in Seq(A) /\ key # <<>>
    BY <2>1, <2>2
  <2> QED
    BY <1>2, <2>1, <2>3 DEF key, A
<1>6. CASE d \in [about : {"incident"}, event : A, alarm : A, group : A]
  <2>1. /\ key = <<d.event, "|", d.alarm, "|", d.group>> /\ d.about # "stream"
        /\ d.event \in A /\ d.alarm \in A /\ d.group \in A
    BY <1>6, Zenon DEF Streams!Request
  <2> HIDE DEF key, A
  <2>2. key \in Seq(A) /\ key # <<>>
    BY <1>1, <2>1
  <2> QED
    BY <1>2, <2>1, <2>2 DEF key, A
<1>7. CASE d \in [about : {"work order"}, incident : A]
  <2>1. key = <<d.incident>> /\ d.about # "stream" /\ d.incident \in A
    BY <1>7, Zenon DEF Streams!Request
  <2> HIDE DEF key, A
  <2>2. key \in Seq(A) /\ key # <<>>
    BY <2>1
  <2> QED
    BY <1>2, <2>1, <2>2 DEF key, A
<1>8. CASE d \in [about : {"stream"}, name : Streams!Atoms]
  BY <1>8, Zenon DEF Streams!Request
<1> QED
  BY <1>3, <1>4, <1>5, <1>6, <1>7, <1>8, Zenon DEF Streams!Decisions

\* Nothing is drawn at first.
LEMMA StreamsInitial == Streams!Init => Streams!StreamsInv
<1> SUFFICES ASSUME Streams!Init PROVE Streams!StreamsInv
  OBVIOUS
<1> DEFINE contexts == {input.contexts[r] : r \in DOMAIN input.contexts}
           zero == [c \in contexts |-> [name \in Streams!StreamKeys |-> 0]]
<1>1. input \in RunInputs /\ state = [draws |-> {}, failed |-> {}, positions |-> zero]
  BY DEF Streams!Init
<1>2. zero \in [contexts -> [Streams!StreamKeys -> Nat]]
  OBVIOUS
<1> HIDE DEF contexts, zero
<1>3. DOMAIN state = {"draws", "failed", "positions"} /\ state.draws = {} /\ state.positions = zero
  BY <1>1
<1> QED
  BY <1>1, <1>2, <1>3 DEF Streams!StreamsInv, contexts

\* A draw for an entity leaves the shared streams alone, ...
LEMMA EntityDraw ==
    ASSUME Streams!StreamsInv, NEW r \in DOMAIN input.decisions, NEW d \in input.decisions[r],
           Streams!EntityStream(r, d), input' = input
    PROVE  Streams!StreamsInv'
<1> DEFINE name == Streams!NameOf(d)
           new  == Streams!Drawn(r, d, [seed |-> Streams!EntitySeed(
                       Streams!Root(input.contexts[r]), name, Streams!Request(d).key),
                       position |-> 0])
<1>1. /\ input \in RunInputs /\ DOMAIN state = {"draws", "failed", "positions"}
      /\ \A x \in state.draws : Streams!DrawFits(x)
      /\ \A x, y \in state.draws :
             Streams!SharesStream(x, y) /\ x.value.position = y.value.position => x = y
  BY DEF Streams!StreamsInv
<1>2. d \in Streams!Decisions
  BY <1>1, RunFacts
<1>3. d.about # "stream"
  BY <1>2, RequestFacts DEF Streams!EntityStream
<1>4. DOMAIN state' = {"draws", "failed", "positions"} /\ state'.positions = state.positions
  BY <1>1 DEF Streams!EntityStream
<1>5. \/ state'.draws = state.draws
      \/ name \in Streams!StreamKeys /\ state'.draws = state.draws \cup {new}
  BY <1>1 DEF Streams!EntityStream, Streams!NameOf
<1>6. \A x : Streams!DrawFits(x)' <=> Streams!DrawFits(x)
  BY <1>4 DEF Streams!DrawFits
<1>7. name \in Streams!StreamKeys => Streams!DrawFits(new)
  BY <1>3 DEF Streams!DrawFits, Streams!Drawn
<1>8. new.decision = d
  BY DEF Streams!Drawn
<1>9. \A x, y : Streams!SharesStream(x, y)' <=> Streams!SharesStream(x, y)
  BY DEF Streams!SharesStream
<1>10. \A x : ~Streams!SharesStream(x, new) /\ ~Streams!SharesStream(new, x)
  BY <1>3, <1>8 DEF Streams!SharesStream
<1> HIDE DEF new
<1>11. \A x, y \in state'.draws :
           Streams!SharesStream(x, y) /\ x.value.position = y.value.position => x = y
  BY <1>1, <1>5, <1>10
<1>12. \A x \in state'.draws : Streams!DrawFits(x)'
  BY <1>1, <1>5, <1>6, <1>7
<1> QED
  BY <1>4, <1>9, <1>11, <1>12 DEF Streams!StreamsInv

\* ... and one from a shared stream takes a position nobody had.
LEMMA SharedDraw ==
    ASSUME Streams!StreamsInv, NEW r \in DOMAIN input.decisions, NEW d \in input.decisions[r],
           Streams!Stream(r, d), input' = input
    PROVE  Streams!StreamsInv'
<1> DEFINE name == Streams!NameOf(d)
           c    == input.contexts[r]
           position == state.positions[c][name]
           new  == Streams!Drawn(r, d, [seed |-> Streams!StreamSeed(Streams!Root(c), name),
                                        position |-> position])
           contexts == {input.contexts[q] : q \in DOMAIN input.contexts}
<1>1. /\ input \in RunInputs /\ DOMAIN state = {"draws", "failed", "positions"}
      /\ state.positions \in [contexts -> [Streams!StreamKeys -> Nat]]
      /\ \A x \in state.draws : Streams!DrawFits(x)
      /\ \A x, y \in state.draws :
             Streams!SharesStream(x, y) /\ x.value.position = y.value.position => x = y
  BY DEF Streams!StreamsInv
<1>2. d \in Streams!Decisions /\ c \in contexts
  BY <1>1, RunFacts
<1>3. d.about = "stream" /\ DOMAIN input.contexts = DOMAIN input.decisions
  BY <1>1, <1>2, RequestFacts, RunFacts DEF Streams!Stream
<1>4. CASE name \notin Streams!StreamKeys
  <2>1. /\ DOMAIN state' = {"draws", "failed", "positions"}
        /\ state'.positions = state.positions /\ state'.draws = state.draws
    BY <1>1, <1>4 DEF Streams!Stream, Streams!NameOf
  <2>2. \A x : Streams!DrawFits(x)' <=> Streams!DrawFits(x)
    BY <2>1 DEF Streams!DrawFits
  <2>3. \A x, y : Streams!SharesStream(x, y)' <=> Streams!SharesStream(x, y)
    BY DEF Streams!SharesStream
  <2> QED
    BY <1>1, <2>1, <2>2, <2>3 DEF Streams!StreamsInv
<1>5. CASE name \in Streams!StreamKeys
  <2>1. /\ DOMAIN state' = {"draws", "failed", "positions"}
        /\ state'.draws = state.draws \cup {new}
        /\ state'.positions = Streams!Advanced(state.positions, c, name)
    BY <1>1, <1>5 DEF Streams!Stream, Streams!NameOf
  <2>2. position \in Nat
    BY <1>1, <1>2, <1>5
  <2>3. /\ state'.positions \in [contexts -> [Streams!StreamKeys -> Nat]]
        /\ state'.positions[c][name] = position + 1
        /\ \A b \in contexts : \A n \in Streams!StreamKeys :
               state.positions[b][n] <= state'.positions[b][n]
    <3> DEFINE advanced == [state.positions[c] EXCEPT ![name] = position + 1]
    <3>1. advanced \in [Streams!StreamKeys -> Nat] /\ advanced[name] = position + 1
      BY <1>1, <1>2, <1>5, <2>2
    <3>2. \A n \in Streams!StreamKeys : state.positions[c][n] <= advanced[n]
      <4> SUFFICES ASSUME NEW n \in Streams!StreamKeys
                   PROVE  state.positions[c][n] <= advanced[n]
        OBVIOUS
      <4>1. state.positions[c] \in [Streams!StreamKeys -> Nat]
        BY <1>1, <1>2
      <4>2. CASE n = name
        BY <2>2, <3>1, <4>2
      <4>3. CASE n # name
        <5>1. advanced[n] = state.positions[c][n] /\ state.positions[c][n] \in Nat
          BY <4>1, <4>3
        <5> QED
          BY <5>1
      <4> QED
        BY <4>2, <4>3
    <3>3. state'.positions = [state.positions EXCEPT ![c] = advanced]
      BY <2>1 DEF Streams!Advanced
    <3> HIDE DEF advanced, position, name, c, contexts
    <3> QED
      BY <1>1, <1>2, <3>1, <3>2, <3>3
  <2>4. /\ new.run = r /\ new.decision = d /\ new.value.position = position
        /\ new.value = [seed |-> Streams!StreamSeed(Streams!Root(c), name), position |-> position]
    BY DEF Streams!Drawn
  <2> HIDE DEF new, position, contexts
  <2>5. \A x \in state.draws : Streams!DrawFits(x)'
    <3> SUFFICES ASSUME NEW x \in state.draws PROVE Streams!DrawFits(x)'
      OBVIOUS
    <3> DEFINE xc == input.contexts[x.run]
               xn == Streams!NameOf(x.decision)
    <3>1. Streams!DrawFits(x)
      BY <1>1
    <3>2. /\ xc \in contexts /\ xn \in Streams!StreamKeys
      BY <1>3, <3>1 DEF Streams!DrawFits, contexts
    <3>3. /\ state.positions[xc][xn] \in Nat /\ state'.positions[xc][xn] \in Nat
          /\ state.positions[xc][xn] <= state'.positions[xc][xn]
      BY <1>1, <2>3, <3>2
    <3> QED
      BY <3>1, <3>3 DEF Streams!DrawFits
  <2>6. \A x : x = new => Streams!DrawFits(x)'
    <3> SUFFICES ASSUME NEW x, x = new PROVE Streams!DrawFits(x)'
      OBVIOUS
    <3>1. /\ x.run = r /\ x.decision = d /\ x.value.position = position
          /\ x.value = [seed |-> Streams!StreamSeed(Streams!Root(c), name), position |-> position]
      BY <2>4
    <3>2. position \in 0..(state'.positions[c][name] - 1)
      BY <2>2, <2>3
    <3> QED
      BY <1>3, <1>5, <3>1, <3>2 DEF Streams!DrawFits
  <2>7. ASSUME NEW x \in state.draws, Streams!SharesStream(x, new) \/ Streams!SharesStream(new, x)
        PROVE  x.value.position # new.value.position
    <3>1. Streams!DrawFits(x)
      BY <1>1
    <3>2. /\ x.decision.about = "stream" /\ input.contexts[x.run] = c
          /\ Streams!NameOf(x.decision) = name
      BY <2>4, <2>7 DEF Streams!SharesStream
    <3>3. x.value.position \in 0..(position - 1)
      BY <3>1, <3>2 DEF Streams!DrawFits, position
    <3> QED
      BY <2>2, <2>4, <3>3
  <2>8. \A x, y : Streams!SharesStream(x, y)' <=> Streams!SharesStream(x, y)
    BY DEF Streams!SharesStream
  <2>9. \A x, y \in state'.draws :
            Streams!SharesStream(x, y) /\ x.value.position = y.value.position => x = y
    BY <1>1, <2>1, <2>7
  <2>10. \A x \in state'.draws : Streams!DrawFits(x)'
    BY <2>1, <2>5, <2>6
  <2>11. state'.positions \in [{input'.contexts[q] : q \in DOMAIN input'.contexts}
                                   -> [Streams!StreamKeys -> Nat]]
    BY <2>3 DEF contexts
  <2> QED
    BY <1>1, <2>1, <2>8, <2>9, <2>10, <2>11 DEF Streams!StreamsInv
<1> QED
  BY <1>4, <1>5

\* What is drawn fits, in whatever order it is drawn.
LEMMA StreamsNext ==
    ASSUME Streams!StreamsInv, Streams!Next \/ UNCHANGED <<input, state>>
    PROVE  Streams!StreamsInv'
<1>1. CASE Streams!Next
  BY <1>1, EntityDraw, SharedDraw DEF Streams!Next
<1>2. CASE UNCHANGED <<input, state>>
  BY <1>2 DEF Streams!StreamsInv, Streams!DrawFits, Streams!SharesStream
<1> QED
  BY <1>1, <1>2

\* Two texts joined are a text as long as both.
LEMMA JoinedFacts ==
    ASSUME NEW A, NEW s \in Seq(A), NEW t \in Seq(A)
    PROVE  s \o t \in Seq(A) /\ Len(s \o t) = Len(s) + Len(t)
BY ConcatProperties, Zenon

\* Two texts over one alphabet.
Texts(A, p, s) == p \in Seq(A) /\ s \in Seq(A)

\* What stands after prefixes of one length is the same if all of it is.
LEMMA SameTail ==
    ASSUME NEW A, NEW p, NEW q, NEW s, NEW t, Texts(A, p, s), Texts(A, q, t),
           Len(p) = Len(q), p \o s = q \o t
    PROVE  p = q /\ s = t
<1> USE DEF Texts
<1>1. /\ Len(p \o s) = Len(p) + Len(s)
      /\ \A k \in 1..(Len(p) + Len(s)) :
             (p \o s)[k] = IF k <= Len(p) THEN p[k] ELSE s[k - Len(p)]
  BY ConcatProperties, Zenon
<1>2. /\ Len(q \o t) = Len(q) + Len(t)
      /\ \A k \in 1..(Len(q) + Len(t)) :
             (q \o t)[k] = IF k <= Len(q) THEN q[k] ELSE t[k - Len(q)]
  BY ConcatProperties, Zenon
<1>3. Len(p) \in Nat /\ Len(q) \in Nat /\ Len(s) \in Nat /\ Len(t) \in Nat
  OBVIOUS
<1>4. Len(s) = Len(t)
  BY <1>1, <1>2, <1>3
<1>5. ASSUME NEW k \in 1..Len(p) PROVE p[k] = q[k]
  <2>1. k \in 1..(Len(p) + Len(s)) /\ k \in 1..(Len(q) + Len(t)) /\ k <= Len(p) /\ k <= Len(q)
    BY <1>3, <1>4
  <2> QED
    BY <1>1, <1>2, <2>1
<1>6. ASSUME NEW k \in 1..Len(s) PROVE s[k] = t[k]
  <2> DEFINE j == Len(p) + k
  <2>1. /\ j \in 1..(Len(p) + Len(s)) /\ j \in 1..(Len(q) + Len(t))
        /\ ~(j <= Len(p)) /\ j - Len(p) = k
    BY <1>3, <1>4
  <2> HIDE DEF j
  <2> QED
    BY <1>1, <1>2, <2>1
<1> QED
  BY <1>4, <1>5, <1>6, SeqEqual

\* The same for what is made of three parts, ...
LEMMA NestedTail ==
    ASSUME NEW A, NEW v, NEW m, NEW n, NEW s, NEW t, Texts(A, v, m), Texts(A, v, n),
           Texts(A, m, s), Texts(A, n, t), Len(m) = Len(n), (v \o m) \o s = (v \o n) \o t
    PROVE  s = t /\ m = n
<1> DEFINE x == v \o m
           y == v \o n
<1>1. /\ x \in Seq(A) /\ y \in Seq(A)
      /\ Len(x) = Len(v) + Len(m) /\ Len(y) = Len(v) + Len(n)
  BY ConcatProperties, Zenon DEF Texts
<1>2. Len(x) = Len(y)
  BY <1>1
<1> HIDE DEF x, y
<1>3. Texts(A, x, s) /\ Texts(A, y, t) /\ x \o s = y \o t
  BY <1>1 DEF Texts, x, y
<1>4. x = y /\ s = t
  BY <1>2, <1>3, SameTail
<1>5. v \o m = v \o n
  BY <1>4 DEF x, y
<1>6. m = n
  <2>1. Texts(A, v, m) /\ Texts(A, v, n) /\ Len(v) = Len(v)
    BY DEF Texts
  <2> HIDE DEF x, y
  <2> QED
    BY <1>5, <2>1, SameTail
<1> QED
  BY <1>4, <1>6

\* A key of words has nothing to strip.
LEMMA KeysAreKept ==
    ASSUME NEW key \in Seq(Streams!Words), key # <<>>
    PROVE  Streams!EntityKey(key) = key
<1> DEFINE kept  == {k \in DOMAIN key : key[k] # " "}
           first == CHOOSE k \in kept : \A j \in kept : k <= j
           last  == CHOOSE k \in kept : \A j \in kept : j <= k
<1>1. DOMAIN key = 1..Len(key) /\ Len(key) \in Nat \ {0}
  OBVIOUS
<1>2. kept = 1..Len(key)
  <2>1. \A k \in 1..Len(key) : key[k] \in Streams!Words
    OBVIOUS
  <2>2. \A w \in Streams!Words : w # " "
    BY Zenon DEF Streams!Words
  <2> QED
    BY <1>1, <2>1, <2>2, Zenon
<1>3. Streams!EntityKey(key) = IF kept = {} THEN <<>> ELSE SubSeq(key, first, last)
  BY DEF Streams!EntityKey
<1> HIDE DEF kept
<1>4. \E k \in kept : \A j \in kept : k <= j
  <2>1. 1 \in kept /\ \A j \in kept : 1 <= j
    BY <1>1, <1>2
  <2> QED
    BY <2>1
<1>5. \E k \in kept : \A j \in kept : j <= k
  <2>1. Len(key) \in kept /\ \A j \in kept : j <= Len(key)
    BY <1>1, <1>2
  <2> QED
    BY <2>1
<1>6. first = 1
  <2>1. first \in kept /\ \A j \in kept : first <= j
    BY <1>4
  <2> HIDE DEF first
  <2> QED
    BY <1>1, <1>2, <2>1
<1>7. last = Len(key)
  <2>1. last \in kept /\ \A j \in kept : j <= last
    BY <1>5
  <2>2. Len(key) \in kept
    BY <1>1, <1>2
  <2> HIDE DEF last
  <2>3. /\ last \in Int /\ Len(key) \in Int
        /\ last <= Len(key) /\ Len(key) <= last
    BY <1>1, <1>2, <2>1, <2>2
  <2> QED
    BY <2>3
<1> HIDE DEF first, last
<1>8. SubSeq(key, 1, Len(key)) = key
  BY SubSeqFull, Zenon
<1> QED
  BY <1>1, <1>2, <1>3, <1>6, <1>7, <1>8

\* Seeds are the same for the same root, stream and key only.
LEMMA EntitySeeds ==
    ASSUME NEW r1, NEW r2, NEW n1, NEW n2,
           NEW k1 \in Seq(Streams!Words), NEW k2 \in Seq(Streams!Words), k1 # <<>>, k2 # <<>>,
           Streams!EntitySeed(r1, n1, k1) = Streams!EntitySeed(r2, n2, k2)
    PROVE  r1 = r2 /\ n1 = n2 /\ k1 = k2
<1> DEFINE A  == Streams!Words \cup {r1, r2, n1, n2, "1.0.0", ":", "entity"}
           v  == <<"1.0.0", ":">>
           m1 == <<n1, ":", "entity", ":">>
           m2 == <<n2, ":", "entity", ":">>
           p1 == <<r1, ":">>
           p2 == <<r2, ":">>
<1>1. Streams!EntityKey(k1) = k1 /\ Streams!EntityKey(k2) = k2
  BY KeysAreKept
<1>2. /\ Streams!EntitySeed(r1, n1, k1).root = r1
      /\ Streams!EntitySeed(r1, n1, k1).digest = p1 \o ((v \o m1) \o k1)
  BY <1>1 DEF Streams!EntitySeed, Streams!SeedWords, Streams!Version
<1>3. /\ Streams!EntitySeed(r2, n2, k2).root = r2
      /\ Streams!EntitySeed(r2, n2, k2).digest = p2 \o ((v \o m2) \o k2)
  BY <1>1 DEF Streams!EntitySeed, Streams!SeedWords, Streams!Version
<1>4. r1 = r2 /\ p1 \o ((v \o m1) \o k1) = p2 \o ((v \o m2) \o k2)
  BY <1>2, <1>3
<1>5. /\ v \in Seq(A) /\ m1 \in Seq(A) /\ m2 \in Seq(A) /\ p1 \in Seq(A) /\ p2 \in Seq(A)
      /\ Len(v) = 2 /\ Len(m1) = 4 /\ Len(m2) = 4 /\ Len(p1) = 2 /\ Len(p2) = 2
      /\ m1[1] = n1 /\ m2[1] = n2
  OBVIOUS
<1>6. k1 \in Seq(A) /\ k2 \in Seq(A)
  <2>1. Streams!Words \subseteq A
    OBVIOUS
  <2> HIDE DEF A
  <2> QED
    BY <2>1
<1> HIDE DEF A, v, m1, m2, p1, p2
<1>7. v \o m1 \in Seq(A) /\ v \o m2 \in Seq(A)
  BY <1>5, ConcatProperties, Zenon
<1>8. (v \o m1) \o k1 \in Seq(A) /\ (v \o m2) \o k2 \in Seq(A)
  BY <1>6, <1>7, ConcatProperties, Zenon
<1>9. (v \o m1) \o k1 = (v \o m2) \o k2
  <2>1. /\ Len(p1) = Len(p2) /\ Texts(A, p1, (v \o m1) \o k1)
        /\ Texts(A, p2, (v \o m2) \o k2)
    BY <1>5, <1>8 DEF Texts
  <2> QED
    BY <1>4, <2>1, SameTail
<1>10. k1 = k2 /\ m1 = m2
  <2>1. /\ Len(m1) = Len(m2) /\ Texts(A, v, m1) /\ Texts(A, v, m2)
        /\ Texts(A, m1, k1) /\ Texts(A, m2, k2)
    BY <1>5, <1>6 DEF Texts
  <2> QED
    BY <1>9, <2>1, NestedTail
<1> QED
  BY <1>4, <1>5, <1>10

LEMMA StreamSeeds ==
    ASSUME NEW r1, NEW r2, NEW n1, NEW n2,
           Streams!StreamSeed(r1, n1) = Streams!StreamSeed(r2, n2)
    PROVE  r1 = r2 /\ n1 = n2
<1> DEFINE A  == {r1, r2, n1, n2, "1.0.0", ":", "stream"}
           v  == <<"1.0.0", ":">> \o <<"stream", ":">>
           p1 == <<r1, ":">>
           p2 == <<r2, ":">>
           s1 == <<n1>>
           s2 == <<n2>>
<1>1. /\ Streams!StreamSeed(r1, n1).root = r1
      /\ Streams!StreamSeed(r1, n1).digest = p1 \o (v \o s1)
  BY DEF Streams!StreamSeed, Streams!SeedWords, Streams!Version
<1>2. /\ Streams!StreamSeed(r2, n2).root = r2
      /\ Streams!StreamSeed(r2, n2).digest = p2 \o (v \o s2)
  BY DEF Streams!StreamSeed, Streams!SeedWords, Streams!Version
<1>3. r1 = r2 /\ p1 \o (v \o s1) = p2 \o (v \o s2)
  BY <1>1, <1>2
<1>4. /\ v \in Seq(A) /\ s1 \in Seq(A) /\ s2 \in Seq(A) /\ p1 \in Seq(A) /\ p2 \in Seq(A)
      /\ Len(p1) = 2 /\ Len(p2) = 2 /\ s1[1] = n1 /\ s2[1] = n2
  OBVIOUS
<1> HIDE DEF A, v, s1, s2, p1, p2
<1>5. v \o s1 \in Seq(A) /\ v \o s2 \in Seq(A)
  BY <1>4, JoinedFacts
<1>6. v \o s1 = v \o s2
  <2>1. Len(p1) = Len(p2) /\ Texts(A, p1, v \o s1) /\ Texts(A, p2, v \o s2)
    BY <1>4, <1>5 DEF Texts
  <2> QED
    BY <1>3, <2>1, SameTail
<1>7. s1 = s2
  <2>1. Len(v) = Len(v) /\ Texts(A, v, s1) /\ Texts(A, v, s2)
    BY <1>4 DEF Texts
  <2> QED
    BY <1>6, <2>1, SameTail
<1> QED
  BY <1>3, <1>4, <1>7

\* No entity of a stream shares a generator with a stream.
LEMMA SeedsDiffer ==
    ASSUME NEW r1, NEW r2, NEW n1, NEW n2, NEW k \in Seq(Streams!Words), k # <<>>
    PROVE  Streams!StreamSeed(r1, n1) # Streams!EntitySeed(r2, n2, k)
<1> DEFINE A  == Streams!Words \cup {r1, r2, n1, n2, "1.0.0", ":", "stream", "entity"}
           v  == <<"1.0.0", ":">>
           m1 == <<"stream", ":">>
           s1 == <<n1>>
           m2 == <<n2, ":", "entity", ":">>
           p1 == <<r1, ":">>
           p2 == <<r2, ":">>
<1>1. Streams!EntityKey(k) = k
  BY KeysAreKept
<1>2. Streams!StreamSeed(r1, n1).digest = p1 \o ((v \o m1) \o s1)
  BY DEF Streams!StreamSeed, Streams!SeedWords, Streams!Version
<1>3. Streams!EntitySeed(r2, n2, k).digest = p2 \o ((v \o m2) \o k)
  BY <1>1 DEF Streams!EntitySeed, Streams!SeedWords, Streams!Version
<1>4. /\ v \in Seq(A) /\ m1 \in Seq(A) /\ m2 \in Seq(A) /\ s1 \in Seq(A)
      /\ p1 \in Seq(A) /\ p2 \in Seq(A)
      /\ Len(v) = 2 /\ Len(m1) = 2 /\ Len(m2) = 4 /\ Len(s1) = 1 /\ Len(p1) = 2 /\ Len(p2) = 2
  OBVIOUS
<1>5. k \in Seq(A)
  <2>1. Streams!Words \subseteq A
    OBVIOUS
  <2> HIDE DEF A
  <2> QED
    BY <2>1
<1> HIDE DEF A, v, m1, m2, s1, p1, p2
<1>6. Len(k) \in Nat
  OBVIOUS
<1>7. /\ v \o m1 \in Seq(A) /\ v \o m2 \in Seq(A)
      /\ Len(v \o m1) = Len(v) + Len(m1) /\ Len(v \o m2) = Len(v) + Len(m2)
  BY <1>4, JoinedFacts, Zenon
<1>8. /\ (v \o m1) \o s1 \in Seq(A) /\ (v \o m2) \o k \in Seq(A)
      /\ Len((v \o m1) \o s1) = Len(v \o m1) + Len(s1)
      /\ Len((v \o m2) \o k) = Len(v \o m2) + Len(k)
  BY <1>4, <1>5, <1>7, JoinedFacts, Zenon
<1>9. /\ Len(p1 \o ((v \o m1) \o s1)) = Len(p1) + Len((v \o m1) \o s1)
      /\ Len(p2 \o ((v \o m2) \o k)) = Len(p2) + Len((v \o m2) \o k)
  BY <1>4, <1>8, JoinedFacts, Zenon
<1>10. /\ Len(p1 \o ((v \o m1) \o s1)) = 7
       /\ Len(p2 \o ((v \o m2) \o k)) = 8 + Len(k)
  BY <1>4, <1>6, <1>7, <1>8, <1>9
<1> QED
  BY <1>2, <1>3, <1>6, <1>10
\* Contexts have the same root for the same namespace only.
LEMMA RootFacts ==
    ASSUME NEW c \in Streams!Contexts, NEW d \in Streams!Contexts,
           Streams!Root(c) = Streams!Root(d), input \in RunInputs
    PROVE  c.namespace = d.namespace
<1> DEFINE A    == Streams!Atoms \cup {<<>>, ":", "1.0.0", "context"}
           p    == <<<<>>, ":">>
           q    == <<"1.0.0", ":">> \o <<"context", ":">>
           word(namespace) == Streams!ChildRoot(<<>>, namespace)
<1>1. ASSUME NEW m \in Seq(Streams!Atoms), NEW n \in Seq(Streams!Atoms), word(m) = word(n)
      PROVE  m = n
  <2>1. /\ Streams!ChildRoot(<<>>, m).digest = p \o (q \o m)
        /\ Streams!ChildRoot(<<>>, n).digest = p \o (q \o n)
    BY DEF Streams!ChildRoot, Streams!SeedWords, Streams!Version
  <2>2. p \o (q \o m) = p \o (q \o n)
    BY <1>1, <2>1
  <2>3. p \in Seq(A) /\ q \in Seq(A)
    OBVIOUS
  <2>4. m \in Seq(A) /\ n \in Seq(A)
    <3>1. Streams!Atoms \subseteq A
      OBVIOUS
    <3> HIDE DEF A
    <3> QED
      BY <3>1
  <2> HIDE DEF A, p, q
  <2>5. q \o m \in Seq(A) /\ q \o n \in Seq(A)
    BY <2>3, <2>4, ConcatProperties, Zenon
  <2>6. q \o m = q \o n
    <3>1. Texts(A, p, q \o m) /\ Texts(A, p, q \o n) /\ Len(p) = Len(p)
      BY <2>3, <2>5 DEF Texts
    <3> QED
      BY <2>2, <3>1, SameTail
  <2> QED
    <3>1. Texts(A, q, m) /\ Texts(A, q, n) /\ Len(q) = Len(q)
      BY <2>3, <2>4 DEF Texts
    <3> QED
      BY <2>6, <3>1, SameTail
<1> HIDE DEF word
<1>2. /\ Streams!Root(c) = IF c.namespace = None THEN <<>> ELSE <<word(c.namespace)>>
      /\ Streams!Root(d) = IF d.namespace = None THEN <<>> ELSE <<word(d.namespace)>>
  BY DEF Streams!Root, word
<1>3. \A u : <<>> # <<u>>
  OBVIOUS
<1>4. \A u, w : <<u>> = <<w>> => u = w
  OBVIOUS
<1>5. /\ c.namespace \in Seq(Streams!Atoms) \cup {None}
      /\ d.namespace \in Seq(Streams!Atoms) \cup {None}
  BY DEF Streams!Contexts
<1> QED
  BY <1>1, <1>2, <1>3, <1>4, <1>5

\* What is asked for, by what is decided.
Asked(x, about, name, key) ==
    x.about = about /\ Streams!NameOf(x) = name /\ Streams!Request(x).key = key

Asks(x) ==
    \/ Asked(x, "event type", "events", <<x.type>>)
       /\ x = [about |-> x.about, type |-> x.type]
    \/ Asked(x, "tariff", "tariffs", <<x.plant>>)
       /\ x = [about |-> x.about, plant |-> x.plant]
    \/ Asked(x, "budget", "budgets", <<x.plant>>)
       /\ x = [about |-> x.about, plant |-> x.plant]
    \/ Asked(x, "primary alarm", "alarms", <<x.event, "|", x.code, "|", "primary">>)
       /\ x = [about |-> x.about, event |-> x.event, code |-> x.code]
    \/ Asked(x, "nuisance alarm", "alarms", <<x.event, "|", x.code>>)
       /\ x = [about |-> x.about, event |-> x.event, code |-> x.code]
    \/ Asked(x, "incident", "incidents", <<x.event, "|", x.alarm, "|", x.group>>)
       /\ x = [about |-> x.about, event |-> x.event, alarm |-> x.alarm, group |-> x.group]
    \/ Asked(x, "work order", "work_orders", <<x.incident>>)
       /\ x = [about |-> x.about, incident |-> x.incident]

LEMMA Requests ==
    ASSUME NEW x \in Streams!Decisions, x.about # "stream"
    PROVE  Asks(x)
<1> USE DEF Asks, Asked, Streams!NameOf, Streams!StreamName, Streams!StreamMap, Streams!Request,
            Streams!PrimaryAlarmKey
<1>1. CASE x \in [about : {"event type"}, type : Streams!Words]
  BY <1>1, Zenon
<1>2. CASE x \in [about : {"tariff", "budget"}, plant : Streams!Words]
  BY <1>2, Zenon
<1>3. CASE x \in [about : {"primary alarm", "nuisance alarm"}, event : Streams!Words,
                  code : Streams!Words]
  BY <1>3, Zenon
<1>4. CASE x \in [about : {"incident"}, event : Streams!Words, alarm : Streams!Words,
                  group : Streams!Words]
  BY <1>4, Zenon
<1>5. CASE x \in [about : {"work order"}, incident : Streams!Words]
  BY <1>5, Zenon
<1>6. CASE x \in [about : {"stream"}, name : Streams!Atoms]
  BY <1>6, Zenon
<1> QED
  BY <1>1, <1>2, <1>3, <1>4, <1>5, <1>6, Zenon DEF Streams!Decisions

\* It determines what is decided.
LEMMA RequestsDiffer ==
    ASSUME NEW d \in Streams!Decisions, NEW e \in Streams!Decisions,
           d.about # "stream", e.about # "stream", Streams!NameOf(d) = Streams!NameOf(e),
           Streams!Request(d).key = Streams!Request(e).key
    PROVE  d = e
<1>1. \A a, b : <<a>> = <<b>> => a = b
  OBVIOUS
<1>4. \A a, b, c, f, g : <<a, "|", b, "|", c>> # <<f, "|", g>>
  OBVIOUS
<1>5. Asks(d) /\ Asks(e)
  BY Requests
<1>6. CASE /\ Asked(d, "event type", "events", <<d.type>>)
          /\ d = [about |-> d.about, type |-> d.type]
  <2>1. /\ Asked(e, "event type", "events", <<e.type>>)
        /\ e = [about |-> e.about, type |-> e.type]
    BY <1>6, <1>5, Zenon DEF Asks, Asked
  <2> QED
    BY <1>6, <2>1, <1>1, Zenon DEF Asked
<1>7. CASE /\ Asked(d, "tariff", "tariffs", <<d.plant>>)
          /\ d = [about |-> d.about, plant |-> d.plant]
  <2>1. /\ Asked(e, "tariff", "tariffs", <<e.plant>>)
        /\ e = [about |-> e.about, plant |-> e.plant]
    BY <1>7, <1>5 DEF Asks, Asked
  <2> QED
    BY <1>7, <2>1, <1>1 DEF Asked
<1>8. CASE /\ Asked(d, "budget", "budgets", <<d.plant>>)
          /\ d = [about |-> d.about, plant |-> d.plant]
  <2>1. /\ Asked(e, "budget", "budgets", <<e.plant>>)
        /\ e = [about |-> e.about, plant |-> e.plant]
    BY <1>8, <1>5 DEF Asks, Asked
  <2> QED
    BY <1>8, <2>1, <1>1 DEF Asked
<1>9. CASE /\ Asked(d, "primary alarm", "alarms", <<d.event, "|", d.code, "|", "primary">>)
          /\ d = [about |-> d.about, event |-> d.event, code |-> d.code]
  <2>1. /\ Asked(e, "primary alarm", "alarms", <<e.event, "|", e.code, "|", "primary">>)
        /\ e = [about |-> e.about, event |-> e.event, code |-> e.code]
    BY <1>9, <1>5, <1>4, Zenon DEF Asks, Asked
  <2>2. <<d.event, "|", d.code, "|", "primary">> = <<e.event, "|", e.code, "|", "primary">>
    BY <1>9, <2>1, Zenon DEF Asked
  <2>3. d.event = e.event /\ d.code = e.code
    BY <2>2
  <2> QED
    BY <1>9, <2>1, <2>3, Zenon DEF Asked
<1>10. CASE /\ Asked(d, "nuisance alarm", "alarms", <<d.event, "|", d.code>>)
          /\ d = [about |-> d.about, event |-> d.event, code |-> d.code]
  <2>1. /\ Asked(e, "nuisance alarm", "alarms", <<e.event, "|", e.code>>)
        /\ e = [about |-> e.about, event |-> e.event, code |-> e.code]
    BY <1>10, <1>5, <1>4, Zenon DEF Asks, Asked
  <2>2. <<d.event, "|", d.code>> = <<e.event, "|", e.code>>
    BY <1>10, <2>1, Zenon DEF Asked
  <2>3. d.event = e.event /\ d.code = e.code
    BY <2>2
  <2> QED
    BY <1>10, <2>1, <2>3, Zenon DEF Asked
<1>11. CASE /\ Asked(d, "incident", "incidents", <<d.event, "|", d.alarm, "|", d.group>>)
          /\ d = [about |-> d.about, event |-> d.event, alarm |-> d.alarm, group |-> d.group]
  <2>1. /\ Asked(e, "incident", "incidents", <<e.event, "|", e.alarm, "|", e.group>>)
        /\ e = [about |-> e.about, event |-> e.event, alarm |-> e.alarm, group |-> e.group]
    BY <1>11, <1>5 DEF Asks, Asked
  <2>2. <<d.event, "|", d.alarm, "|", d.group>> = <<e.event, "|", e.alarm, "|", e.group>>
    BY <1>11, <2>1 DEF Asked
  <2>3. d.event = e.event /\ d.alarm = e.alarm /\ d.group = e.group
    BY <2>2
  <2> QED
    BY <1>11, <2>1, <2>3 DEF Asked
<1>12. CASE /\ Asked(d, "work order", "work_orders", <<d.incident>>)
          /\ d = [about |-> d.about, incident |-> d.incident]
  <2>1. /\ Asked(e, "work order", "work_orders", <<e.incident>>)
        /\ e = [about |-> e.about, incident |-> e.incident]
    BY <1>12, <1>5, Zenon DEF Asks, Asked
  <2> QED
    BY <1>12, <2>1, <1>1, Zenon DEF Asked
<1> QED
  BY <1>5, <1>6, <1>7, <1>8, <1>9, <1>10, <1>11, <1>12, Zenon DEF Asks

\* Decisions hang on what they are about: what the invariant shows.
LEMMA StreamsShow ==
    ASSUME Streams!StreamsInv
    PROVE  Streams!DecisionsAreRepeatable /\ Streams!DecisionsAreIndependent
<1>1. /\ input \in RunInputs /\ \A x \in state.draws : Streams!DrawFits(x)
      /\ \A x, y \in state.draws :
             Streams!SharesStream(x, y) /\ x.value.position = y.value.position => x = y
  BY DEF Streams!StreamsInv
<1> DEFINE root(x) == Streams!Root(input.contexts[x.run])
           name(x) == Streams!NameOf(x.decision)
           key(x)  == Streams!Request(x.decision).key
<1>2. ASSUME NEW x \in state.draws
      PROVE  /\ x.decision \in Streams!Decisions /\ input.contexts[x.run] \in Streams!Contexts
             /\ x.decision.about = "stream" =>
                    x.value.seed = Streams!StreamSeed(root(x), name(x))
             /\ x.decision.about # "stream" =>
                    /\ x.value = [seed |-> Streams!EntitySeed(root(x), name(x), key(x)), position |-> 0]
                    /\ x.value.seed = Streams!EntitySeed(root(x), name(x), key(x))
                    /\ key(x) \in Seq(Streams!Words) /\ key(x) # <<>>
  <2>1. Streams!DrawFits(x)
    BY <1>1
  <2>2. x.run \in DOMAIN input.decisions /\ x.decision \in input.decisions[x.run]
    BY <2>1 DEF Streams!DrawFits
  <2>3. x.decision \in Streams!Decisions /\ input.contexts[x.run] \in Streams!Contexts
    BY <1>1, <2>2, RunFacts
  <2>4. CASE x.decision.about = "stream"
    <3>1. x.value = [seed |-> Streams!StreamSeed(root(x), name(x)), position |-> x.value.position]
      BY <2>1, <2>4 DEF Streams!DrawFits
    <3>2. \A s, p : [seed |-> s, position |-> p].seed = s
      OBVIOUS
    <3>3. x.value.seed = Streams!StreamSeed(root(x), name(x))
      BY <3>1, <3>2
    <3> QED
      BY <2>3, <2>4, <3>3
  <2>5. CASE x.decision.about # "stream"
    <3>1. x.value = [seed |-> Streams!EntitySeed(root(x), name(x), key(x)), position |-> 0]
      BY <2>1, <2>5 DEF Streams!DrawFits
    <3>2. key(x) \in Seq(Streams!Words) /\ key(x) # <<>>
      BY <2>3, <2>5, RequestFacts
    <3>3. \A s, p : [seed |-> s, position |-> p].seed = s
      OBVIOUS
    <3>4. x.value.seed = Streams!EntitySeed(root(x), name(x), key(x))
      BY <3>1, <3>3
    <3> QED
      BY <2>3, <2>5, <3>1, <3>2, <3>4
  <2> QED
    BY <2>4, <2>5
<1>3. Streams!DecisionsAreRepeatable
  <2> SUFFICES ASSUME NEW x \in state.draws, NEW y \in state.draws, x.decision = y.decision,
                      x.decision.about # "stream", Streams!Namespace(x) = Streams!Namespace(y)
               PROVE  x.value = y.value
    BY DEF Streams!DecisionsAreRepeatable
  <2>1. root(x) = root(y)
    BY DEF Streams!Root, Streams!Namespace
  <2> QED
    BY <1>2, <2>1
<1>4. Streams!DecisionsAreIndependent
  <2> SUFFICES ASSUME NEW x \in state.draws, NEW y \in state.draws, x.value = y.value
               PROVE  /\ Streams!Spelling(x.decision) = Streams!Spelling(y.decision)
                      /\ Streams!Namespace(x) = Streams!Namespace(y)
                      /\ x.decision.about = "stream" /\ x # y =>
                             input.contexts[x.run] # input.contexts[y.run]
    BY DEF Streams!DecisionsAreIndependent
  <2>1. CASE x.decision.about # "stream" /\ y.decision.about # "stream"
    <3>1. Streams!EntitySeed(root(x), name(x), key(x)) = Streams!EntitySeed(root(y), name(y), key(y))
      <4>1. [seed |-> Streams!EntitySeed(root(x), name(x), key(x)), position |-> 0]
                = [seed |-> Streams!EntitySeed(root(y), name(y), key(y)), position |-> 0]
        BY <1>2, <2>1
      <4>2. \A s, t : [seed |-> s, position |-> 0] = [seed |-> t, position |-> 0] => s = t
        OBVIOUS
      <4> QED
        BY <4>1, <4>2
    <3>2. /\ key(x) \in Seq(Streams!Words) /\ key(x) # <<>>
          /\ key(y) \in Seq(Streams!Words) /\ key(y) # <<>>
      BY <1>2, <2>1
    <3>3. root(x) = root(y) /\ name(x) = name(y) /\ key(x) = key(y)
      <4> HIDE DEF root, name, key
      <4> QED
        BY <3>1, <3>2, EntitySeeds
    <3>4. x.decision = y.decision
      BY <1>2, <2>1, <3>3, RequestsDiffer
    <3>5. Streams!Namespace(x) = Streams!Namespace(y)
      BY <1>1, <1>2, <3>3, RootFacts DEF Streams!Namespace
    <3> QED
      BY <2>1, <3>4, <3>5
  <2>2. CASE x.decision.about = "stream" /\ y.decision.about = "stream"
    <3>1. Streams!StreamSeed(root(x), name(x)) = Streams!StreamSeed(root(y), name(y))
      BY <1>2, <2>2
    <3>2. root(x) = root(y) /\ name(x) = name(y)
      <4> HIDE DEF root, name
      <4> QED
        BY <3>1, StreamSeeds
    <3>3. Streams!Namespace(x) = Streams!Namespace(y)
      BY <1>1, <1>2, <3>2, RootFacts DEF Streams!Namespace
    <3>4. ASSUME NEW d \in Streams!Decisions, d.about = "stream"
          PROVE  Streams!Spelling(d) = [about |-> "stream", name |-> Streams!NameOf(d)]
      <4>1. d = [about |-> "stream", name |-> d.name]
        BY <3>4, Zenon DEF Streams!Decisions
      <4>2. Streams!NameOf(d) = Streams!StreamName(Streams!StreamMap(d.name))
        BY <3>4 DEF Streams!NameOf, Streams!Request
      <4>3. \A n, m : [[about |-> "stream", name |-> n] EXCEPT !.name = m]
                          = [about |-> "stream", name |-> m]
        OBVIOUS
      <4>4. Streams!Spelling(d) = [d EXCEPT !.name = Streams!NameOf(d)]
        BY <3>4, <4>2 DEF Streams!Spelling
      <4> QED
        BY <4>1, <4>3, <4>4
    <3>5. Streams!Spelling(x.decision) = Streams!Spelling(y.decision)
      BY <1>2, <2>2, <3>2, <3>4
    <3>6. x # y => input.contexts[x.run] # input.contexts[y.run]
      BY <1>1, <2>2, <3>2 DEF Streams!SharesStream
    <3> QED
      BY <3>3, <3>5, <3>6
  <2>3. CASE x.decision.about = "stream" /\ y.decision.about # "stream"
    <3>1. Streams!StreamSeed(root(x), name(x)) = Streams!EntitySeed(root(y), name(y), key(y))
      BY <1>2, <2>3
    <3>2. key(y) \in Seq(Streams!Words) /\ key(y) # <<>>
      BY <1>2, <2>3
    <3> HIDE DEF root, name, key
    <3> QED
      BY <3>1, <3>2, SeedsDiffer
  <2>4. CASE x.decision.about # "stream" /\ y.decision.about = "stream"
    <3>1. Streams!StreamSeed(root(y), name(y)) = Streams!EntitySeed(root(x), name(x), key(x))
      BY <1>2, <2>4
    <3>2. key(x) \in Seq(Streams!Words) /\ key(x) # <<>>
      BY <1>2, <2>4
    <3> HIDE DEF root, name, key
    <3> QED
      BY <3>1, <3>2, SeedsDiffer
  <2> QED
    BY <2>1, <2>2, <2>3, <2>4
<1> QED
  BY <1>3, <1>4

-----------------------------------------------------------------------------
(* The stages of a generation, from accepted settings to tariffs and       *)
(* budgets.                                                                *)

\* The module of the stages counts as this one does.
LEMMA StagesCount == \A S : Stages!Cardinality(S) = Cardinality(S)
BY Zenon DEF Stages!Cardinality, Cardinality

\* A month has days.
LEMMA MonthsHaveDays == MonthDays \in Nat \ {0}
BY StagesConstants DEF Stages!StagesFit

\* A range of time begins and ends somewhere.
TimesFit(time) == time.start \in Int /\ time.end \in Int /\ time.start < time.end

\* The last day of a range of time is the last that begins before its end.
LEMMA LastDays ==
    ASSUME NEW time, TimesFit(time)
    PROVE  /\ Stages!DayOf(time.start) \in Int /\ Stages!LastDay(time) \in Int
           /\ Stages!DayOf(time.start) <= Stages!LastDay(time)
           /\ \A d \in Int : d <= Stages!LastDay(time) <=> d * 12 < time.end
           /\ \A t \in time.start..(time.end - 1) :
                  Stages!DayOf(t) \in Stages!DayOf(time.start)..Stages!LastDay(time)
<1> DEFINE s == time.start
           e == time.end
<1>1. s \in Int /\ e \in Int /\ s < e
  BY DEF TimesFit
<1>2. /\ Stages!DayOf(s) = s \div 12
      /\ Stages!LastDay(time) = (IF e % 12 = 0 THEN e \div 12 ELSE e \div 12 + 1) - 1
      /\ \A t \in s..(e - 1) : Stages!DayOf(t) = t \div 12
  BY DEF Stages!DayOf, Stages!LastDay, Stages!Day
<1> HIDE DEF s, e
<1>3. /\ s \div 12 \in Int /\ e \div 12 \in Int
      /\ s \div 12 <= (IF e % 12 = 0 THEN e \div 12 ELSE e \div 12 + 1) - 1
  BY <1>1
<1>4. \A d \in Int : d <= (IF e % 12 = 0 THEN e \div 12 ELSE e \div 12 + 1) - 1 <=> d * 12 < e
  BY <1>1
<1>5. \A t \in s..(e - 1) : t \div 12 \in Int /\ s \div 12 <= t \div 12 /\ (t \div 12) * 12 < e
  BY <1>1
<1>6. \A t \in s..(e - 1) : Stages!DayOf(t) \in Stages!DayOf(s)..Stages!LastDay(time)
  BY <1>2, <1>3, <1>4, <1>5
<1> QED
  BY <1>1, <1>2, <1>3, <1>4, <1>6 DEF s, e

\* Months follow one another without a gap.
LEMMA MonthFacts ==
    ASSUME NEW t \in Int, NEW u \in Int, t <= u
    PROVE  /\ Stages!DayOf(t) \in Int /\ Stages!MonthOf(t) \in Int
           /\ Stages!MonthStart(Stages!MonthOf(t)) \in Int
           /\ Stages!MonthOf(t) <= Stages!MonthOf(u)
           /\ Stages!MonthStart(Stages!MonthOf(t)) <= Stages!DayOf(t)
           /\ Stages!DayOf(t) * 12 <= t
<1>1. Stages!DayOf(t) = t \div 12 /\ Stages!DayOf(u) = u \div 12
  BY DEF Stages!DayOf, Stages!Day
<1>2. t \div 12 \in Int /\ u \div 12 \in Int /\ t \div 12 <= u \div 12 /\ (t \div 12) * 12 <= t
  OBVIOUS
<1>3. /\ (t \div 12) \div MonthDays \in Int
      /\ ((t \div 12) \div MonthDays) * MonthDays <= t \div 12
      /\ (t \div 12) \div MonthDays <= (u \div 12) \div MonthDays
  BY <1>2, MonthsHaveDays, Quotients
<1>4. ((t \div 12) \div MonthDays) * MonthDays \in Int
  BY <1>3, MonthsHaveDays
<1> QED
  BY <1>1, <1>2, <1>3, <1>4 DEF Stages!MonthOf, Stages!MonthStart

\* Each plant has a tariff on the days of the range, and no other plant.
LEMMA TariffRows ==
    ASSUME NEW plants, NEW time, NEW flat \in SUBSET plants
    PROVE  LET tariffs == Stages!Tariffs(plants, time, flat) IN
           /\ \A r \in tariffs :
                  /\ r.plant \in plants
                  /\ r.first = Stages!DayOf(time.start) /\ r.last = Stages!LastDay(time)
                  /\ r.window \in {Stages!FlatWindow} \cup Stages!DefaultWindows
                  /\ r.window = Stages!FlatWindow <=> r.plant \in flat
           /\ \A q, r \in tariffs : q.plant = r.plant /\ q.window = r.window => q = r
           /\ \A p \in flat : \E r \in tariffs : r.plant = p /\ r.window = Stages!FlatWindow
           /\ \A p \in plants \ flat : \A w \in Stages!DefaultWindows :
                  \E r \in tariffs : r.plant = p /\ r.window = w
<1>1. Stages!FlatWindow \notin Stages!DefaultWindows
  BY DEF Stages!FlatWindow, Stages!DefaultWindows
<1> DEFINE Row(p, w) ==
             [plant |-> p, window |-> w, first |-> Stages!DayOf(time.start),
              last |-> Stages!LastDay(time)]
           tariffs == Stages!Tariffs(plants, time, flat)
<1>2. tariffs = {Row(p, Stages!FlatWindow) : p \in flat}
                   \cup {Row(p, w) : p \in plants \ flat, w \in Stages!DefaultWindows}
  BY DEF Stages!Tariffs
<1>3. \A r \in tariffs :
         \/ \E p \in flat : r = Row(p, Stages!FlatWindow)
         \/ \E p \in plants \ flat : \E w \in Stages!DefaultWindows : r = Row(p, w)
  BY <1>2
<1>4. /\ \A p \in flat : Row(p, Stages!FlatWindow) \in tariffs
      /\ \A p \in plants \ flat : \A w \in Stages!DefaultWindows : Row(p, w) \in tariffs
  BY <1>2
<1> HIDE DEF tariffs
<1>5. ASSUME NEW r \in tariffs
      PROVE  /\ r.plant \in plants
             /\ r.first = Stages!DayOf(time.start) /\ r.last = Stages!LastDay(time)
             /\ r.window \in {Stages!FlatWindow} \cup Stages!DefaultWindows
             /\ r.window = Stages!FlatWindow <=> r.plant \in flat
             /\ r = Row(r.plant, r.window)
  <2>1. CASE \E p \in flat : r = Row(p, Stages!FlatWindow)
    BY <2>1
  <2>2. CASE \E p \in plants \ flat : \E w \in Stages!DefaultWindows : r = Row(p, w)
    BY <1>1, <2>2
  <2> QED
    BY <1>3, <2>1, <2>2
<1>6. /\ \A p \in flat : \E r \in tariffs : r.plant = p /\ r.window = Stages!FlatWindow
      /\ \A p \in plants \ flat : \A w \in Stages!DefaultWindows :
             \E r \in tariffs : r.plant = p /\ r.window = w
  BY <1>4
<1>7. \A q, r \in tariffs : q.plant = r.plant /\ q.window = r.window => q = r
  BY <1>5, Zenon
<1> QED
  BY <1>5, <1>6, <1>7 DEF tariffs

\* The rates of a tariff are those of its windows.
LEMMA RatesGiven ==
    ASSUME NEW plants, NEW time, NEW flat \in SUBSET plants, NEW p \in plants, NEW month
    PROVE  <<p, month>> \in Stages!TariffReferenceRates(Stages!Tariffs(plants, time, flat)) <=>
               \E d \in Stages!DayOf(time.start)..Stages!LastDay(time) :
                   d % MonthDays = 0 /\ d \div MonthDays = month
<1> DEFINE tariffs == Stages!Tariffs(plants, time, flat)
           first == Stages!DayOf(time.start)
           last == Stages!LastDay(time)
           Rate(d, t) == <<t.plant, d \div MonthDays>>
<1>1. <<p, month>> \in Stages!TariffReferenceRates(tariffs) <=>
         \E t \in tariffs : \E d \in t.first..t.last :
            d % MonthDays = 0 /\ t.plant = p /\ d \div MonthDays = month
  BY DEF Stages!TariffReferenceRates
<1>2. \E w \in Stages!DefaultWindows : TRUE
  BY DEF Stages!DefaultWindows
<1>3. \E t \in tariffs : t.plant = p
  BY <1>2, TariffRows
<1>4. \A t \in tariffs : t.first = first /\ t.last = last
  BY TariffRows
<1> HIDE DEF tariffs, first, last
<1>5. QED
  BY <1>1, <1>3, <1>4 DEF tariffs, first, last

\* A window has an hour of the day, of which there are twelve.
HasHour(w, hour) == w.from <= hour /\ hour < IF w.to = 0 THEN 12 ELSE w.to

\* Every hour is in one of the windows, and in no two.
LEMMA WindowsPartition ==
    ASSUME NEW hour \in 0..11
    PROVE  /\ HasHour(Stages!FlatWindow, hour) /\ Stages!FlatWindow.days # "weekday"
           /\ \A v, w \in Stages!DefaultWindows : HasHour(v, hour) /\ HasHour(w, hour) => v = w
           /\ \E w \in Stages!DefaultWindows :
                  HasHour(w, hour) /\ (w.days = "weekday" <=> hour \in 6..8)
<1> DEFINE w1 == [code |-> "OFF_PEAK", days |-> "all_days", from |-> 0, to |-> 3]
           w2 == [code |-> "SHOULDER_AM", days |-> "all_days", from |-> 3, to |-> 6]
           w3 == [code |-> "PEAK", days |-> "weekday", from |-> 6, to |-> 9]
           w4 == [code |-> "SHOULDER_PM", days |-> "all_days", from |-> 9, to |-> 0]
<1>1. Stages!DefaultWindows = {w1, w2, w3, w4}
  BY DEF Stages!DefaultWindows
<1>2. HasHour(Stages!FlatWindow, hour) /\ Stages!FlatWindow.days # "weekday"
  BY DEF HasHour, Stages!FlatWindow
<1>3. /\ HasHour(w1, hour) <=> hour \in 0..2
      /\ HasHour(w2, hour) <=> hour \in 3..5
      /\ HasHour(w3, hour) <=> hour \in 6..8
      /\ HasHour(w4, hour) <=> hour \in 9..11
      /\ w1.days # "weekday" /\ w2.days # "weekday" /\ w3.days = "weekday" /\ w4.days # "weekday"
  BY DEF HasHour
<1> HIDE DEF w1, w2, w3, w4
<1>4. \A v, w \in Stages!DefaultWindows : HasHour(v, hour) /\ HasHour(w, hour) => v = w
  BY <1>1, <1>3
<1>5. \E w \in Stages!DefaultWindows : HasHour(w, hour) /\ (w.days = "weekday" <=> hour \in 6..8)
  BY <1>1, <1>3
<1> QED
  BY <1>2, <1>4, <1>5

\* Tariffs have one price for an instant of the plant's clock on their days,
\* but in the evenings of a weekend, and none on others.
LEMMA InstantsPriced ==
    ASSUME NEW plants, NEW time, TimesFit(time), NEW flat \in SUBSET plants, NEW p \in plants,
           NEW local \in Int
    PROVE  LET priced == {r \in {q \in Stages!Tariffs(plants, time, flat) : q.plant = p} :
                              Stages!Prices(r, local)} IN
           /\ Cardinality(priced) <= 1
           /\ Cardinality(priced) = 0 <=>
                  \/ Stages!DayOf(local) \notin Stages!DayOf(time.start)..Stages!LastDay(time)
                  \/ Stages!WeekendEvening(local) /\ p \notin flat
<1> DEFINE tariffs == Stages!Tariffs(plants, time, flat)
           priced == {r \in {q \in tariffs : q.plant = p} : Stages!Prices(r, local)}
           hour == local % 12
           days == Stages!DayOf(time.start)..Stages!LastDay(time)
<1>1. hour \in 0..11 /\ Stages!DayOf(local) \in Int
  BY DEF Stages!DayOf, Stages!Day
<1>2. \A r \in tariffs :
         Stages!Prices(r, local) <=>
             /\ Stages!DayOf(local) \in days
             /\ r.window.days = "weekday" => Stages!DayOf(local) \notin Weekend
             /\ HasHour(r.window, hour)
  <2> SUFFICES ASSUME NEW r \in tariffs
               PROVE  Stages!Prices(r, local) <=>
                        /\ Stages!DayOf(local) \in days
                        /\ r.window.days = "weekday" => Stages!DayOf(local) \notin Weekend
                        /\ HasHour(r.window, hour)
    OBVIOUS
  <2>1. r.first <= Stages!DayOf(local) /\ Stages!DayOf(local) <= r.last <=> Stages!DayOf(local) \in days
    BY <1>1, LastDays, TariffRows
  <2> QED
    BY <2>1 DEF Stages!Prices, HasHour, Stages!Day
<1>3. Stages!WeekendEvening(local) <=> Stages!DayOf(local) \in Weekend /\ hour \in 6..8
  BY DEF Stages!WeekendEvening, Stages!Day
<1>4. /\ \A r \in tariffs : r.window \in {Stages!FlatWindow} \cup Stages!DefaultWindows
      /\ \A r \in tariffs : r.window = Stages!FlatWindow <=> r.plant \in flat
      /\ \A q, r \in tariffs : q.plant = r.plant /\ q.window = r.window => q = r
      /\ p \in flat => \E r \in tariffs : r.plant = p /\ r.window = Stages!FlatWindow
      /\ p \notin flat => \A w \in Stages!DefaultWindows : \E r \in tariffs : r.plant = p /\ r.window = w
  BY TariffRows
<1>5. /\ HasHour(Stages!FlatWindow, hour) /\ Stages!FlatWindow.days # "weekday"
      /\ \A v, w \in Stages!DefaultWindows : HasHour(v, hour) /\ HasHour(w, hour) => v = w
      /\ \E w \in Stages!DefaultWindows : HasHour(w, hour) /\ (w.days = "weekday" <=> hour \in 6..8)
  BY <1>1, WindowsPartition
<1> HIDE DEF tariffs, hour, days
<1>6. \A x, y \in priced : x = y
  <2> SUFFICES ASSUME NEW x \in priced, NEW y \in priced PROVE x.window = y.window
    BY <1>4
  <2>1. CASE p \in flat
    BY <1>4, <2>1
  <2>2. CASE p \notin flat
    <3>1. x.window \in Stages!DefaultWindows /\ y.window \in Stages!DefaultWindows
      BY <1>4, <2>2
    <3> QED
      BY <1>2, <1>5, <3>1
  <2> QED
    BY <2>1, <2>2
<1>7. priced = {} <=> Stages!DayOf(local) \notin days \/ (Stages!WeekendEvening(local) /\ p \notin flat)
  <2>1. CASE Stages!DayOf(local) \notin days
    BY <1>2, <2>1
  <2>2. CASE Stages!DayOf(local) \in days /\ p \in flat
    BY <1>2, <1>4, <1>5, <2>2
  <2>3. CASE Stages!DayOf(local) \in days /\ p \notin flat
    <3>1. PICK w \in Stages!DefaultWindows :
            HasHour(w, hour) /\ (w.days = "weekday" <=> hour \in 6..8)
      BY <1>5
    <3>2. PICK r \in tariffs : r.plant = p /\ r.window = w
      BY <1>4, <2>3
    <3>3. \A q \in priced : q.window = w
      BY <1>2, <1>4, <1>5, <2>3, <3>1
    <3> QED
      BY <1>2, <1>3, <2>3, <3>1, <3>2, <3>3
  <2> QED
    BY <2>1, <2>2, <2>3
<1>8. Cardinality(priced) = IF priced = {} THEN 0 ELSE 1
  BY <1>6, AtMostOne
<1> QED
  BY <1>7, <1>8 DEF tariffs, days

\* The days of the instants of a range are the days of its tariffs.
LEMMA DaysCovered ==
    ASSUME NEW time, TimesFit(time)
    PROVE  Stages!DayOf(time.start)..Stages!LastDay(time)
               = {Stages!DayOf(t) : t \in time.start..(time.end - 1)}
<1> DEFINE s == time.start
           e == time.end
           first == Stages!DayOf(s)
           last == Stages!LastDay(time)
<1>1. s \in Int /\ e \in Int /\ s < e
  BY DEF TimesFit
<1>2. \A t \in Int : Stages!DayOf(t) = t \div 12
  BY DEF Stages!DayOf, Stages!Day
<1>3. first \in Int /\ last \in Int /\ \A d \in Int : d <= last <=> d * 12 < e
  BY LastDays
<1>4. \A t \in s..(e - 1) : Stages!DayOf(t) \in first..last
  BY LastDays
<1>5. first = s \div 12
  BY <1>1, <1>2
<1> HIDE DEF s, e, first, last
<1>6. ASSUME NEW d \in first..last PROVE \E t \in s..(e - 1) : Stages!DayOf(t) = d
  <2>1. CASE d = first
    BY <1>1, <1>2, <1>5, <2>1
  <2>2. CASE d # first
    <3>1. d \in Int /\ d * 12 < e /\ s < d * 12 /\ (d * 12) \div 12 = d
      BY <1>1, <1>3, <1>5, <2>2
    <3>2. d * 12 \in s..(e - 1) /\ Stages!DayOf(d * 12) = d
      BY <1>1, <1>2, <3>1
    <3> QED
      BY <3>2
  <2> QED
    BY <2>1, <2>2
<1>7. first..last = {Stages!DayOf(t) : t \in s..(e - 1)}
  BY <1>4, <1>6
<1> QED
  BY <1>7 DEF s, e, first, last

\* The rates suffice exactly when the range starts with a month.
LEMMA BudgetsNeedAMonth ==
    ASSUME NEW plants, NEW time, TimesFit(time), NEW flat \in SUBSET plants, plants # {}
    PROVE  Stages!BudgetsSucceed(plants, Stages!Tariffs(plants, time, flat), time) <=>
               Stages!DayOf(time.start) = Stages!MonthStart(Stages!MonthOf(time.start))
<1> DEFINE s == time.start
           e == time.end
           first == Stages!DayOf(s)
           last == Stages!LastDay(time)
           start == Stages!MonthOf(s)
           rates == Stages!TariffReferenceRates(Stages!Tariffs(plants, time, flat))
           windows == Stages!MonthWindows(time)
           HasRate(m) == \E d \in first..last : d % MonthDays = 0 /\ d \div MonthDays = m
<1>1. s \in Int /\ e \in Int /\ s < e
  BY DEF TimesFit
<1>2. first \in Int /\ last \in Int /\ first <= last /\ \A d \in Int : d <= last <=> d * 12 < e
  BY LastDays
<1>3. start \in Int /\ start * MonthDays \in Int /\ start * MonthDays <= first /\ first * 12 <= s
  <2>1. s <= s /\ Stages!MonthStart(start) = start * MonthDays
    BY <1>1 DEF Stages!MonthStart
  <2> HIDE DEF s, e
  <2>2. /\ Stages!MonthOf(s) \in Int /\ Stages!MonthStart(Stages!MonthOf(s)) \in Int
        /\ Stages!MonthStart(Stages!MonthOf(s)) <= Stages!DayOf(s) /\ Stages!DayOf(s) * 12 <= s
    BY <1>1, <2>1, MonthFacts, Zenon
  <2> QED
    BY <2>1, <2>2
<1>4. Stages!MonthOf(e) \in Int /\ start <= Stages!MonthOf(e)
  <2>1. s <= e /\ e <= e
    BY <1>1
  <2> HIDE DEF s, e
  <2> QED
    BY <1>1, <2>1, MonthFacts, Zenon
<1>5. \A m : m \in windows <=> m \in start..Stages!MonthOf(e) /\ (m * MonthDays) * 12 < e
  BY DEF Stages!MonthWindows, Stages!MonthStart, Stages!Day
<1>6. \A p \in plants : \A m : <<p, m>> \in rates <=> HasRate(m)
  BY RatesGiven
<1>7. Stages!BudgetsSucceed(plants, Stages!Tariffs(plants, time, flat), time)
         <=> \A m \in windows : HasRate(m)
  <2>1. Stages!BudgetsSucceed(plants, Stages!Tariffs(plants, time, flat), time)
           <=> \A p \in plants : \A m \in windows : <<p, m>> \in rates
    BY DEF Stages!BudgetsSucceed
  <2> HIDE DEF rates, windows, HasRate
  <2> QED
    BY <1>6, <2>1
<1> HIDE DEF s, e, first, last, start, rates, windows
<1>8. ASSUME \A m \in windows : HasRate(m) PROVE first = start * MonthDays
  <2>1. (start * MonthDays) * 12 < e
    BY <1>1, <1>2, <1>3
  <2>2. start \in windows
    BY <1>3, <1>4, <1>5, <2>1
  <2>3. PICK d \in first..last : d % MonthDays = 0 /\ d \div MonthDays = start
    BY <1>8, <2>2
  <2>4. d = start * MonthDays
    <3>1. d = (d \div MonthDays) * MonthDays + (d % MonthDays)
      BY <1>2, <2>3, MonthsHaveDays, Quotients
    <3> QED
      BY <1>3, <2>3, <3>1
  <2> QED
    BY <1>2, <1>3, <2>4
<1>9. ASSUME first = start * MonthDays, NEW m \in windows PROVE HasRate(m)
  <2>1. m \in Int /\ start <= m /\ (m * MonthDays) * 12 < e
    BY <1>3, <1>4, <1>5
  <2>2. m * MonthDays \in Int /\ start * MonthDays <= m * MonthDays
    BY <1>3, <2>1, MonthsHaveDays
  <2>3. (m * MonthDays) % MonthDays = 0 /\ (m * MonthDays) \div MonthDays = m
    BY <2>1, MonthsHaveDays, Multiples
  <2>4. m * MonthDays \in first..last
    BY <1>2, <1>9, <2>1, <2>2
  <2> QED
    BY <2>3, <2>4
<1> QED
  BY <1>7, <1>8, <1>9 DEF s, first, start, Stages!MonthStart

\* The instants of a range are in its months, and have one budget.
LEMMA MonthsBudgeted ==
    ASSUME NEW plants, NEW time, TimesFit(time), NEW p \in plants,
           NEW t \in time.start..(time.end - 1)
    PROVE  Cardinality({b \in Stages!Budgets(plants, time) :
                            b.plant = p /\ b.month = Stages!MonthOf(t)}) = 1
<1> DEFINE month == Stages!MonthOf(t)
           budget == [plant |-> p, month |-> month]
<1>1. /\ time.start \in Int /\ time.end \in Int /\ t \in Int
      /\ time.start <= t /\ t < time.end
  BY DEF TimesFit
<1>2. /\ month \in Int /\ Stages!MonthOf(time.start) \in Int /\ Stages!MonthOf(time.end) \in Int
      /\ Stages!MonthOf(time.start) <= month /\ month <= Stages!MonthOf(time.end)
      /\ Stages!MonthStart(month) \in Int /\ Stages!MonthStart(month) <= Stages!DayOf(t)
      /\ Stages!DayOf(t) \in Int /\ Stages!DayOf(t) * 12 <= t
  <2>1. t <= time.end /\ time.end <= time.end
    BY <1>1
  <2> QED
    BY <1>1, <2>1, MonthFacts, Zenon
<1>3. Stages!MonthStart(month) * 12 < time.end
  BY <1>1, <1>2
<1> HIDE DEF month
<1>4. month \in Stages!MonthWindows(time)
  BY <1>2, <1>3 DEF Stages!MonthWindows, Stages!Day
<1>5. {b \in Stages!Budgets(plants, time) : b.plant = p /\ b.month = month} = {budget}
  BY <1>4 DEF Stages!Budgets
<1> QED
  BY <1>5, FS_Singleton DEF month

\* What is measured by the quarter of an hour is on the grid, up to the last
\* whole day, and is all of it when the days are whole.
LEMMA GridMeasured ==
    ASSUME NEW time, TimesFit(time), time.interval = 3, (time.end - time.start) % 3 = 0,
           Stages!DurationDays(time) > 0
    PROVE  LET measured == Stages!Timestamps(time)
               grid == Stages!TimeGrid(time) IN
           /\ measured \subseteq grid /\ grid \subseteq time.start..(time.end - 1)
           /\ \A t \in grid \ measured : t >= time.end - 11
           /\ measured = grid <=> (time.end - time.start) % 12 = 0
<1> DEFINE s == time.start
           e == time.end
           days == (e - s) \div 12
           measured == Stages!Timestamps(time)
           grid == Stages!TimeGrid(time)
<1>1. s \in Int /\ e \in Int /\ s < e /\ (e - s) % 3 = 0
  BY DEF TimesFit
<1>2. days \in Int /\ days > 0
  BY <1>1 DEF Stages!DurationDays, Stages!Day
<1>3. \A t : t \in grid <=> t \in s..(e - 1) /\ (t - s) % 3 = 0
  BY DEF Stages!TimeGrid
<1>4. \A t : t \in measured <=> \E k \in 0..((days * 12) \div 3 - 1) : t = s + k * 3
  BY DEF Stages!Timestamps, Stages!DurationDays, Stages!Day
<1> HIDE DEF s, e, measured, grid
<1>5. (days * 12) \div 3 = days * 4 /\ days * 12 <= e - s /\ e - s < days * 12 + 12
      /\ ((e - s) % 12 = 0 <=> e - s = days * 12)
  BY <1>1
<1> HIDE DEF days
<1>6. \A t : t \in measured <=> \E k \in 0..(days * 4 - 1) : t = s + k * 3
  BY <1>4, <1>5
<1>7. measured \subseteq grid
  <2> SUFFICES ASSUME NEW k \in 0..(days * 4 - 1)
               PROVE  s + k * 3 \in s..(e - 1) /\ ((s + k * 3) - s) % 3 = 0
    BY <1>3, <1>6
  <2>1. s + k * 3 \in s..(e - 1)
    BY <1>1, <1>2, <1>5
  <2>2. (s + k * 3) - s = k * 3 /\ k \in Int
    BY <1>1, <1>2
  <2> QED
    BY <2>1, <2>2
<1>8. ASSUME NEW t \in grid, t < s + days * 12 PROVE t \in measured
  <2>1. t \in Int /\ s <= t /\ (t - s) % 3 = 0
    BY <1>1, <1>3
  <2>2. PICK k \in Int : k = (t - s) \div 3 /\ t = s + k * 3
    BY <1>1, <2>1
  <2>3. k \in 0..(days * 4 - 1)
    BY <1>1, <1>2, <1>8, <2>1, <2>2
  <2> QED
    BY <1>6, <2>2, <2>3
<1>9. \A t \in grid \ measured : t >= e - 11
  BY <1>1, <1>2, <1>3, <1>5, <1>8
<1>10. ASSUME e - s = days * 12 PROVE measured = grid
  BY <1>1, <1>2, <1>3, <1>7, <1>8, <1>10
<1>11. ASSUME e - s # days * 12 PROVE measured # grid
  <2> DEFINE t == s + days * 12
  <2>1. t \in s..(e - 1) /\ t - s = days * 12
    BY <1>1, <1>2, <1>5, <1>11
  <2>2. (t - s) % 3 = 0
    BY <1>2, <2>1
  <2>3. t \in grid
    BY <1>3, <2>1, <2>2
  <2>4. t \notin measured
    BY <1>1, <1>2, <1>6
  <2> QED
    BY <2>3, <2>4
<1>12. grid \subseteq s..(e - 1)
  BY <1>3
<1> QED
  BY <1>5, <1>7, <1>9, <1>10, <1>11, <1>12 DEF s, e, measured, grid

\* Before anything is asked for, nothing has been generated.
LEMMA StagesInitial == Stages!Init => Stages!StagesInv
<1> SUFFICES ASSUME Stages!Init PROVE Stages!StagesInv
  OBVIOUS
<1>1. /\ input \in GenerationInputs
      /\ state = [phase |-> "asked", config |-> Stages!NamedProfile(input.profile),
                  weather |-> {}, grid |-> {}, scada |-> {}, tariffs |-> {}, budgets |-> {}]
  BY DEF Stages!Init
<1>2. state.phase = "asked" /\ state.config = Stages!NamedProfile(input.profile)
      /\ DOMAIN state = {"phase", "config", "weather", "grid", "scada", "tariffs", "budgets"}
  BY <1>1
<1>3. Stages!Passed(state.phase) = {}
  BY <1>2 DEF Stages!Passed
<1> QED
  BY <1>1, <1>2, <1>3 DEF Stages!StagesInv

\* Settings that are accepted have the kinds of values the stages rely on.
LEMMA AcceptedFits ==
    ASSUME NEW i \in GenerationInputs,
           Stages!OverridesAccepted(Stages!NamedProfile(i.profile), i.overrides)
    PROVE  Stages!SettingsFit(Stages!ApplyOverrides(Stages!NamedProfile(i.profile), i.overrides))
<1> DEFINE config == Stages!NamedProfile(i.profile)
           given == i.overrides
           applied == Stages!ApplyOverrides(config, given)
<1>1. /\ DOMAIN config = {"profile_name", "plants", "time"}
      /\ config.plants = Profiles[i.profile].plants
      /\ config.time = [start |-> Profiles[i.profile].start, end |-> Profiles[i.profile].end,
                        interval |-> 3]
  BY DEF Stages!NamedProfile, Stages!Quarter
<1>2. /\ i.profile \in DOMAIN Profiles
      /\ "plants" \in DOMAIN given => given.plants \in Int
      /\ "time" \in DOMAIN given => \A f \in DOMAIN given.time : given.time[f] \in Int
  BY StagesConstants DEF Stages!StagesFit
<1>3. /\ Profiles[i.profile].start \in Int /\ Profiles[i.profile].end \in Int
      /\ Profiles[i.profile].plants \in Int
  BY <1>2, StagesConstants DEF Stages!StagesFit
<1>4. /\ Stages!TimeRangeAccepted(applied.time) /\ applied.plants > 0
  BY DEF Stages!OverridesAccepted
<1> HIDE DEF config, given
<1>5. /\ applied.plants = IF "plants" \in DOMAIN given THEN given.plants ELSE config.plants
      /\ applied.time = IF "time" \in DOMAIN given
                        THEN Stages!Replaced(config.time, given.time) ELSE config.time
  <2>1. "plants" \in DOMAIN config \cup DOMAIN given /\ "time" \in DOMAIN config \cup DOMAIN given
    BY <1>1
  <2>2. DOMAIN Stages!Replaced(config, given) = DOMAIN config \cup DOMAIN given
    BY DEF Stages!Replaced
  <2>3. Stages!Replaced(config, given).plants
            = IF "plants" \in DOMAIN given THEN given.plants ELSE config.plants
    BY <2>1 DEF Stages!Replaced
  <2> QED
    BY <2>1, <2>2, <2>3 DEF Stages!ApplyOverrides
<1>6. applied.plants \in Int
  BY <1>1, <1>2, <1>3, <1>5
<1>7. applied.time.start \in Int /\ applied.time.end \in Int
  <2>1. CASE "time" \in DOMAIN given
    <3>1. DOMAIN config.time = {"start", "end", "interval"}
          /\ config.time.start \in Int /\ config.time.end \in Int
      BY <1>1, <1>3
    <3>2. \A f \in {"start", "end"} :
            Stages!Replaced(config.time, given.time)[f]
                = IF f \in DOMAIN given.time THEN given.time[f] ELSE config.time[f]
      BY <3>1 DEF Stages!Replaced
    <3> QED
      BY <1>2, <1>5, <2>1, <3>1, <3>2
  <2>2. CASE "time" \notin DOMAIN given
    BY <1>1, <1>3, <1>5, <2>2
  <2> QED
    BY <2>1, <2>2
<1> HIDE DEF applied
<1>8. Stages!SettingsFit(applied)
  BY <1>4, <1>6, <1>7 DEF Stages!SettingsFit
<1> QED
  BY <1>8 DEF applied, config, given

\* What is required of settings makes their range one.
LEMMA SettingsFacts ==
    ASSUME Stages!SettingsFit(state.config)
    PROVE  /\ TimesFit(state.config.time)
           /\ Stages!Plants # {}
           /\ state.config.time.interval = 3 =>
                  (state.config.time.end - state.config.time.start) % 3 = 0
           /\ Stages!DurationDays(state.config.time) > 0 <=>
                  ~ (state.config.time.end - state.config.time.start < 12)
<1>1. /\ state.config.time.start \in Int /\ state.config.time.end \in Int
      /\ state.config.time.start < state.config.time.end
      /\ state.config.plants \in Nat \ {0}
      /\ (state.config.time.end - state.config.time.start) % state.config.time.interval = 0
  BY DEF Stages!SettingsFit, Stages!TimeRangeAccepted
<1>2. 1 \in Stages!Plants
  BY <1>1 DEF Stages!Plants
<1>3. Stages!DurationDays(state.config.time) > 0 <=>
         ~ (state.config.time.end - state.config.time.start < 12)
  BY <1>1 DEF Stages!DurationDays, Stages!Day
<1> QED
  BY <1>1, <1>2, <1>3 DEF TimesFit

\* The stages that a phase has behind it.
LEMMA PassedFacts ==
    /\ Stages!Passed("weather") = {"weather"}
    /\ Stages!Passed("events") = {"weather", "events"}
    /\ Stages!Passed("scada") = {"weather", "events", "scada"}
    /\ Stages!Passed("tariffs") = {"weather", "events", "scada", "tariffs"}
    /\ Stages!Passed("generated") = {"weather", "events", "scada", "tariffs", "generated"}
    /\ \A phase \in {"asked", "loaded", "refused", "failed"} : Stages!Passed(phase) = {}
BY DEF Stages!Passed

\* Each stage leaves what the later ones rely on.
LEMMA StagesNext ==
    Stages!StagesInv /\ [Stages!Next]_Stages!vars => Stages!StagesInv'
<1> SUFFICES ASSUME Stages!StagesInv, [Stages!Next]_Stages!vars PROVE Stages!StagesInv'
  OBVIOUS
<1> USE PassedFacts
<1>1. CASE UNCHANGED Stages!vars
  BY <1>1, Zenon DEF Stages!vars, Stages!StagesInv, Stages!Plants
<1>2. CASE Stages!LoadConfig
  <2> DEFINE config == Stages!ApplyOverrides(state.config, input.overrides)
             accepted == /\ Stages!OverridesAccepted(state.config, input.overrides)
                         /\ Stages!ValidateGenerationConfig(config)
  <2>1. /\ state.phase = "asked" /\ input' = input
        /\ state' = IF accepted THEN [state EXCEPT !.phase = "loaded", !.config = config]
                    ELSE [state EXCEPT !.phase = "refused"]
    BY <1>2 DEF Stages!LoadConfig
  <2>2. /\ input \in GenerationInputs /\ state.config = Stages!NamedProfile(input.profile)
        /\ DOMAIN state = {"phase", "config", "weather", "grid", "scada", "tariffs", "budgets"}
    BY <2>1 DEF Stages!StagesInv
  <2>3. accepted => Stages!SettingsFit(config)
    BY <2>2, AcceptedFits
  <2> HIDE DEF accepted, config
  <2>4. /\ DOMAIN state' = {"phase", "config", "weather", "grid", "scada", "tariffs", "budgets"}
        /\ \/ state'.phase = "loaded" /\ accepted /\ state'.config = config
           \/ state'.phase = "refused"
    BY <2>1, <2>2
  <2> QED
    BY <2>1, <2>2, <2>3, <2>4 DEF Stages!StagesInv
<1>3. ASSUME NEW next, NEW succeeds \in BOOLEAN, NEW passed, Stages!Becomes(succeeds, next),
             state.phase \notin {"asked", "refused"},
             succeeds => /\ next.config = state.config /\ next.phase = passed
                         /\ passed \notin {"asked", "refused", "failed"}
                         /\ DOMAIN next = DOMAIN state,
             ~ succeeds => Stages!Unsuitable(state.config.time)
      PROVE  /\ input' = input /\ input \in GenerationInputs
             /\ DOMAIN state' = {"phase", "config", "weather", "grid", "scada", "tariffs", "budgets"}
             /\ state'.config = state.config /\ Stages!SettingsFit(state'.config)
             /\ \/ succeeds /\ state' = next
                \/ ~ succeeds /\ state'.phase = "failed" /\ Stages!Unsuitable(state'.config.time)
  <2>1. /\ input \in GenerationInputs /\ Stages!SettingsFit(state.config)
        /\ DOMAIN state = {"phase", "config", "weather", "grid", "scada", "tariffs", "budgets"}
    BY <1>3 DEF Stages!StagesInv
  <2>2. input' = input /\ state' = IF succeeds THEN next ELSE [state EXCEPT !.phase = "failed"]
    BY <1>3 DEF Stages!Becomes
  <2>3. CASE succeeds
    BY <1>3, <2>1, <2>2, <2>3, Zenon
  <2>4. CASE ~ succeeds
    <3>1. state' = [state EXCEPT !.phase = "failed"]
      BY <2>2, <2>4
    <3>2. DOMAIN state' = DOMAIN state /\ state'.phase = "failed" /\ state'.config = state.config
      BY <2>1, <3>1
    <3> QED
      BY <1>3, <2>1, <2>2, <2>4, <3>2, Zenon
  <2> QED
    BY <2>3, <2>4
<1>4. CASE Stages!GenerateWeather
  <2> DEFINE succeeds == Stages!DurationDays(state.config.time) > 0
             next == [state EXCEPT !.phase = "weather", !.weather = Stages!Timestamps(state.config.time)]
  <2>1. state.phase = "loaded" /\ Stages!Becomes(succeeds, next)
    BY <1>4 DEF Stages!GenerateWeather
  <2>2. /\ Stages!SettingsFit(state.config)
        /\ DOMAIN state = {"phase", "config", "weather", "grid", "scada", "tariffs", "budgets"}
    BY <2>1 DEF Stages!StagesInv
  <2>3. ~ succeeds => Stages!Unsuitable(state.config.time)
    BY <2>2, SettingsFacts DEF Stages!Unsuitable, Stages!Day
  <2>4. /\ next.config = state.config /\ next.phase = "weather" /\ DOMAIN next = DOMAIN state
        /\ next.weather = Stages!Timestamps(state.config.time)
    BY <2>2
  <2> HIDE DEF succeeds, next
  <2>5. succeeds \in BOOLEAN
    BY DEF succeeds
  <2>6. /\ input' = input /\ input \in GenerationInputs
        /\ DOMAIN state' = {"phase", "config", "weather", "grid", "scada", "tariffs", "budgets"}
        /\ state'.config = state.config /\ Stages!SettingsFit(state'.config)
        /\ \/ succeeds /\ state' = next
           \/ ~ succeeds /\ state'.phase = "failed" /\ Stages!Unsuitable(state'.config.time)
    BY <1>3, <2>1, <2>3, <2>4, <2>5
  <2> QED
    BY <2>4, <2>6 DEF Stages!StagesInv, succeeds
<1>5. CASE Stages!ScheduleEvents
  <2> DEFINE next == [state EXCEPT !.phase = "events", !.grid = Stages!TimeGrid(state.config.time)]
  <2>1. state.phase = "weather" /\ Stages!Becomes(TRUE, next)
    BY <1>5 DEF Stages!ScheduleEvents
  <2>2. /\ Stages!SettingsFit(state.config)
        /\ DOMAIN state = {"phase", "config", "weather", "grid", "scada", "tariffs", "budgets"}
        /\ Stages!DurationDays(state.config.time) > 0
        /\ state.weather = Stages!Timestamps(state.config.time)
    BY <2>1 DEF Stages!StagesInv
  <2>3. /\ next.config = state.config /\ next.phase = "events" /\ DOMAIN next = DOMAIN state
        /\ next.weather = state.weather /\ next.grid = Stages!TimeGrid(state.config.time)
    BY <2>2
  <2> HIDE DEF next
  <2>4. /\ input' = input /\ input \in GenerationInputs
        /\ DOMAIN state' = {"phase", "config", "weather", "grid", "scada", "tariffs", "budgets"}
        /\ state'.config = state.config /\ Stages!SettingsFit(state'.config)
        /\ state' = next
    BY <1>3, <2>1, <2>3
  <2> QED
    BY <2>2, <2>3, <2>4 DEF Stages!StagesInv
<1>6. CASE Stages!GenerateSCADA
  <2> DEFINE succeeds == state.config.time.interval = Stages!Quarter
             next == [state EXCEPT !.phase = "scada", !.scada = Stages!Timestamps(state.config.time)]
  <2>1. state.phase = "events" /\ Stages!Becomes(succeeds, next)
    BY <1>6 DEF Stages!GenerateSCADA
  <2>2. /\ Stages!SettingsFit(state.config)
        /\ DOMAIN state = {"phase", "config", "weather", "grid", "scada", "tariffs", "budgets"}
        /\ Stages!DurationDays(state.config.time) > 0
        /\ state.weather = Stages!Timestamps(state.config.time)
        /\ state.grid = Stages!TimeGrid(state.config.time)
    BY <2>1 DEF Stages!StagesInv
  <2>3. ~ succeeds => Stages!Unsuitable(state.config.time)
    BY DEF Stages!Unsuitable
  <2>4. /\ next.config = state.config /\ next.phase = "scada" /\ DOMAIN next = DOMAIN state
        /\ next.weather = state.weather /\ next.grid = state.grid
        /\ next.scada = Stages!Timestamps(state.config.time)
    BY <2>2
  <2> HIDE DEF succeeds, next
  <2>5. succeeds \in BOOLEAN
    BY DEF succeeds
  <2>6. /\ input' = input /\ input \in GenerationInputs
        /\ DOMAIN state' = {"phase", "config", "weather", "grid", "scada", "tariffs", "budgets"}
        /\ state'.config = state.config /\ Stages!SettingsFit(state'.config)
        /\ \/ succeeds /\ state' = next
           \/ ~ succeeds /\ state'.phase = "failed" /\ Stages!Unsuitable(state'.config.time)
    BY <1>3, <2>1, <2>3, <2>4, <2>5
  <2> QED
    BY <2>2, <2>4, <2>6 DEF Stages!StagesInv, succeeds
<1>7. CASE Stages!GenerateTariffs
  <2>1. PICK flat \in SUBSET Stages!Plants :
          Stages!Becomes(TRUE, [state EXCEPT !.phase = "tariffs",
                                    !.tariffs = Stages!Tariffs(Stages!Plants, state.config.time, flat)])
    BY <1>7 DEF Stages!GenerateTariffs
  <2> DEFINE next == [state EXCEPT !.phase = "tariffs",
                                   !.tariffs = Stages!Tariffs(Stages!Plants, state.config.time, flat)]
  <2>2. state.phase = "scada"
    BY <1>7 DEF Stages!GenerateTariffs
  <2>3. /\ Stages!SettingsFit(state.config)
        /\ DOMAIN state = {"phase", "config", "weather", "grid", "scada", "tariffs", "budgets"}
        /\ Stages!DurationDays(state.config.time) > 0
        /\ state.weather = Stages!Timestamps(state.config.time)
        /\ state.grid = Stages!TimeGrid(state.config.time)
        /\ state.config.time.interval = Stages!Quarter
        /\ state.scada = Stages!Timestamps(state.config.time)
    BY <2>2 DEF Stages!StagesInv
  <2>4. /\ next.config = state.config /\ next.phase = "tariffs" /\ DOMAIN next = DOMAIN state
        /\ next.weather = state.weather /\ next.grid = state.grid /\ next.scada = state.scada
        /\ next.tariffs = Stages!Tariffs(Stages!Plants, state.config.time, flat)
    BY <2>3
  <2> HIDE DEF next
  <2>5. /\ input' = input /\ input \in GenerationInputs
        /\ DOMAIN state' = {"phase", "config", "weather", "grid", "scada", "tariffs", "budgets"}
        /\ state'.config = state.config /\ Stages!SettingsFit(state'.config)
        /\ state' = next
    BY <1>3, <2>1, <2>2, <2>4 DEF next
  <2>6. Stages!Plants' = Stages!Plants
    BY <2>5 DEF Stages!Plants
  <2>7. \E f \in SUBSET Stages!Plants' :
          state'.tariffs = Stages!Tariffs(Stages!Plants', state'.config.time, f)
    BY <2>4, <2>5, <2>6
  <2> QED
    BY <2>3, <2>4, <2>5, <2>7 DEF Stages!StagesInv
<1>8. CASE Stages!GenerateBudgets
  <2> DEFINE time == state.config.time
             succeeds == Stages!BudgetsSucceed(Stages!Plants, state.tariffs, time)
             next == [state EXCEPT !.phase = "generated", !.budgets = Stages!Budgets(Stages!Plants, time)]
  <2>1. state.phase = "tariffs" /\ Stages!Becomes(succeeds, next)
    BY <1>8 DEF Stages!GenerateBudgets
  <2>2. /\ Stages!SettingsFit(state.config)
        /\ DOMAIN state = {"phase", "config", "weather", "grid", "scada", "tariffs", "budgets"}
        /\ Stages!DurationDays(state.config.time) > 0
        /\ state.weather = Stages!Timestamps(state.config.time)
        /\ state.grid = Stages!TimeGrid(state.config.time)
        /\ state.config.time.interval = Stages!Quarter
        /\ state.scada = Stages!Timestamps(state.config.time)
    BY <2>1 DEF Stages!StagesInv
  <2>3. PICK flat \in SUBSET Stages!Plants :
          state.tariffs = Stages!Tariffs(Stages!Plants, time, flat)
    BY <2>1 DEF Stages!StagesInv
  <2>4. ~ succeeds => Stages!Unsuitable(time)
    <3>1. TimesFit(time) /\ Stages!Plants # {}
      BY <2>2, SettingsFacts
    <3>2. succeeds <=> Stages!DayOf(time.start) = Stages!MonthStart(Stages!MonthOf(time.start))
      BY <2>3, <3>1, BudgetsNeedAMonth
    <3> QED
      BY <3>2 DEF Stages!Unsuitable
  <2>5. /\ next.config = state.config /\ next.phase = "generated" /\ DOMAIN next = DOMAIN state
        /\ next.weather = state.weather /\ next.grid = state.grid /\ next.scada = state.scada
        /\ next.tariffs = state.tariffs /\ next.budgets = Stages!Budgets(Stages!Plants, time)
    BY <2>2
  <2> HIDE DEF succeeds, next, time
  <2>6. succeeds \in BOOLEAN
    BY DEF succeeds, Stages!BudgetsSucceed
  <2>7. /\ input' = input /\ input \in GenerationInputs
        /\ DOMAIN state' = {"phase", "config", "weather", "grid", "scada", "tariffs", "budgets"}
        /\ state'.config = state.config /\ Stages!SettingsFit(state'.config)
        /\ \/ succeeds /\ state' = next
           \/ ~ succeeds /\ state'.phase = "failed" /\ Stages!Unsuitable(state'.config.time)
    BY <1>3, <2>1, <2>4, <2>5, <2>6 DEF time
  <2>8. Stages!Plants' = Stages!Plants
    BY <2>7 DEF Stages!Plants
  <2>9. CASE succeeds /\ state' = next
    <3>1. \E f \in SUBSET Stages!Plants' :
            state'.tariffs = Stages!Tariffs(Stages!Plants', state'.config.time, f)
      BY <2>3, <2>5, <2>7, <2>8, <2>9 DEF time
    <3>2. Stages!BudgetsSucceed(Stages!Plants', state'.tariffs, state'.config.time)
          /\ state'.budgets = Stages!Budgets(Stages!Plants', state'.config.time)
      BY <2>5, <2>7, <2>8, <2>9 DEF succeeds, time
    <3> QED
      BY <2>2, <2>5, <2>7, <2>9, <3>1, <3>2 DEF Stages!StagesInv, time
  <2>10. CASE ~ succeeds /\ state'.phase = "failed" /\ Stages!Unsuitable(state'.config.time)
    BY <2>7, <2>10 DEF Stages!StagesInv
  <2> QED
    BY <2>7, <2>9, <2>10
<1> QED
  BY <1>1, <1>2, <1>4, <1>5, <1>6, <1>7, <1>8 DEF Stages!Next

\* What the stages leave has the properties that are promised of it.
LEMMA StagesShow ==
    Stages!StagesInv => /\ Stages!InstantsHaveOnePrice /\ Stages!EveryMonthHasABudget
                        /\ Stages!AcceptedSettingsGenerate
<1> SUFFICES ASSUME Stages!StagesInv
             PROVE  /\ Stages!InstantsHaveOnePrice /\ Stages!EveryMonthHasABudget
                    /\ Stages!AcceptedSettingsGenerate
  OBVIOUS
<1> USE PassedFacts
<1> DEFINE time == state.config.time
<1>1. ASSUME state.phase \in {"tariffs", "generated"}
      PROVE  /\ Stages!SettingsFit(state.config) /\ TimesFit(time) /\ Stages!Plants # {}
             /\ Stages!DurationDays(time) > 0 /\ time.interval = 3
             /\ (time.end - time.start) % 3 = 0
             /\ \E flat \in SUBSET Stages!Plants :
                    state.tariffs = Stages!Tariffs(Stages!Plants, time, flat)
             /\ state.weather = Stages!Timestamps(time) /\ state.grid = Stages!TimeGrid(time)
             /\ state.scada = Stages!Timestamps(time)
  BY <1>1, SettingsFacts DEF Stages!StagesInv, Stages!Quarter
<1>2. Stages!Instants = time.start..(time.end - 1)
  BY DEF Stages!Instants
<1> HIDE DEF time
<1>3. Stages!InstantsHaveOnePrice
  <2> SUFFICES ASSUME state.phase \in {"tariffs", "generated"}, NEW p \in Stages!Plants
               PROVE  LET given == {r \in state.tariffs : r.plant = p}
                          Of(local) == Cardinality({r \in given : Stages!Prices(r, local)})
                          one == \E r \in given : r.window = Stages!FlatWindow IN
                      /\ \A t \in Stages!Instants, offset \in Offsets :
                             /\ Of(t + offset) <= 1
                             /\ Of(t + offset) = 0 <=>
                                    \/ Stages!DayOf(t + offset) \notin Stages!Dates
                                    \/ Stages!WeekendEvening(t + offset) /\ ~one
                      /\ given # {}
                      /\ \A r \in given : r.first..r.last = Stages!Dates
    BY StagesCount DEF Stages!InstantsHaveOnePrice
  <2>1. PICK flat \in SUBSET Stages!Plants :
          state.tariffs = Stages!Tariffs(Stages!Plants, time, flat)
    BY <1>1
  <2>2. TimesFit(time)
    BY <1>1
  <2> DEFINE given == {r \in state.tariffs : r.plant = p}
             Of(local) == Cardinality({r \in given : Stages!Prices(r, local)})
  <2>3. Stages!DayOf(time.start)..Stages!LastDay(time) = Stages!Dates
    BY <1>2, <2>2, DaysCovered DEF Stages!Dates
  <2>4. given # {} /\ ((\E r \in given : r.window = Stages!FlatWindow) <=> p \in flat)
    <3>1. \E w : w \in Stages!DefaultWindows
      BY DEF Stages!DefaultWindows
    <3> QED
      BY <2>1, <3>1, TariffRows
  <2>5. \A local \in Int :
            /\ Of(local) <= 1
            /\ Of(local) = 0 <=>
                   \/ Stages!DayOf(local) \notin Stages!Dates
                   \/ Stages!WeekendEvening(local) /\ p \notin flat
    <3> SUFFICES ASSUME NEW local \in Int
                 PROVE  /\ Of(local) <= 1
                        /\ Of(local) = 0 <=>
                               \/ Stages!DayOf(local) \notin Stages!Dates
                               \/ Stages!WeekendEvening(local) /\ p \notin flat
      OBVIOUS
    <3>1. LET priced == {r \in {q \in Stages!Tariffs(Stages!Plants, time, flat) : q.plant = p} :
                             Stages!Prices(r, local)} IN
          /\ Cardinality(priced) <= 1
          /\ Cardinality(priced) = 0 <=>
                 \/ Stages!DayOf(local) \notin Stages!DayOf(time.start)..Stages!LastDay(time)
                 \/ Stages!WeekendEvening(local) /\ p \notin flat
      BY <2>2, InstantsPriced
    <3> QED
      BY <2>1, <2>3, <3>1
  <2>6. \A r \in given : r.first..r.last = Stages!Dates
    BY <2>1, <2>3, TariffRows
  <2>7. \A t \in Stages!Instants, offset \in Offsets : t + offset \in Int
    BY <1>2, <2>2, StagesConstants DEF TimesFit, Stages!StagesFit
  <2> HIDE DEF given, Of
  <2>8. \A t \in Stages!Instants, offset \in Offsets :
            /\ Of(t + offset) <= 1
            /\ Of(t + offset) = 0 <=>
                   \/ Stages!DayOf(t + offset) \notin Stages!Dates
                   \/ Stages!WeekendEvening(t + offset) /\ ~ \E r \in given : r.window = Stages!FlatWindow
    BY <2>4, <2>5, <2>7
  <2> QED
    BY <2>4, <2>6, <2>8 DEF given, Of
<1>4. Stages!EveryMonthHasABudget
  <2> SUFFICES ASSUME state.phase = "generated"
               PROVE  /\ \A p \in Stages!Plants, t \in state.scada :
                             Cardinality({b \in state.budgets :
                                            b.plant = p /\ b.month = Stages!MonthOf(t)}) = 1
                      /\ state.scada = state.weather /\ state.scada \subseteq state.grid
                      /\ \A t \in state.grid \ state.scada : t >= time.end - 12 + 1
                      /\ state.scada = state.grid <=> (time.end - time.start) % 12 = 0
    BY StagesCount DEF Stages!EveryMonthHasABudget, time, Stages!Day
  <2>1. state.budgets = Stages!Budgets(Stages!Plants, time)
    BY DEF Stages!StagesInv, time
  <2>2. /\ state.scada \subseteq state.grid /\ state.grid \subseteq time.start..(time.end - 1)
        /\ \A t \in state.grid \ state.scada : t >= time.end - 11
        /\ state.scada = state.grid <=> (time.end - time.start) % 12 = 0
    BY <1>1, GridMeasured
  <2>3. \A p \in Stages!Plants, t \in state.scada :
          Cardinality({b \in state.budgets : b.plant = p /\ b.month = Stages!MonthOf(t)}) = 1
    BY <1>1, <2>1, <2>2, MonthsBudgeted
  <2>4. time.end - 12 + 1 = time.end - 11
    BY <1>1 DEF TimesFit
  <2> QED
    BY <1>1, <2>2, <2>3, <2>4
<1>5. Stages!AcceptedSettingsGenerate
  <2> SUFFICES ASSUME state.phase = "generated" PROVE ~ Stages!Unsuitable(time)
    BY DEF Stages!AcceptedSettingsGenerate, Stages!StagesInv, time
  <2>1. PICK flat \in SUBSET Stages!Plants :
          state.tariffs = Stages!Tariffs(Stages!Plants, time, flat)
    BY <1>1
  <2>2. Stages!BudgetsSucceed(Stages!Plants, state.tariffs, time)
    BY DEF Stages!StagesInv, time
  <2>3. Stages!DayOf(time.start) = Stages!MonthStart(Stages!MonthOf(time.start))
    BY <1>1, <2>1, <2>2, BudgetsNeedAMonth
  <2>4. ~ (time.end - time.start < 12)
    BY <1>1, SettingsFacts DEF time
  <2> QED
    BY <1>1, <2>3, <2>4 DEF Stages!Unsuitable, Stages!Day, Stages!Quarter
<1> QED
  BY <1>3, <1>4, <1>5

-----------------------------------------------------------------------------
(* What passes the validation of a dataset can be loaded.                  *)

\* The module of the datasets counts in the same way.
LEMMA DatasetsCount == \A S : Synthetic!Cardinality(S) = Cardinality(S)
BY Zenon DEF Synthetic!Cardinality, Cardinality

\* A rule whose failures are counted, in a report that lets nothing pass.
LEMMA RuleHolds ==
    ASSUME NEW issues, NEW s, NEW results, NEW rule, NEW F,
           issues = {r \in results : r.failed_count > 0},
           Synthetic!Passed(issues, s), Synthetic!Result(rule, "error", F) \in results, IsFiniteSet(F)
    PROVE  F = {}
<1> DEFINE r == Synthetic!Result(rule, "error", F)
<1>1. r.severity = "error" /\ r.failed_count = Cardinality(F)
  BY DatasetsCount DEF Synthetic!Result
<1>2. r \in results
  OBVIOUS
<1> HIDE DEF r
<1>3. r \notin issues
  BY Zenon, <1>1 DEF Synthetic!Passed
<1>4. ~(r.failed_count > 0)
  BY Zenon, <1>2, <1>3
<1>5. Cardinality(F) \in Nat
  BY Zenon, FS_CardinalityType
<1>6. Cardinality(F) = 0
  BY <1>1, <1>4, <1>5
<1> QED
  BY Zenon, <1>6, FS_EmptySet

\* The tables of a dataset have finitely many rows.
LEMMA TableFacts ==
    ASSUME NEW d \in Datasets, NEW t \in Synthetic!Tables
    PROVE  /\ Len(d[t]) \in Nat /\ DOMAIN d[t] = 1..Len(d[t]) /\ IsFiniteSet(DOMAIN d[t])
           /\ \A field : IsFiniteSet(Synthetic!Values(d[t], field))
           /\ \A fields : IsFiniteSet(Synthetic!Repeats(d[t], fields))
<1>1. Len(d[t]) \in Nat /\ DOMAIN d[t] = 1..Len(d[t])
  BY Zenon, DatasetsConstants DEF Synthetic!DatasetsFit
<1>2. IsFiniteSet(DOMAIN d[t])
  BY <1>1, FS_Interval
<1>3. ASSUME NEW field PROVE IsFiniteSet(Synthetic!Values(d[t], field))
  <2> DEFINE f == [k \in DOMAIN d[t] |-> d[t][k][field]]
  <2>1. DOMAIN f = DOMAIN d[t] /\ Synthetic!Values(d[t], field) = {f[k] : k \in DOMAIN d[t]}
    BY DEF Synthetic!Values
  <2> HIDE DEF f
  <2> QED
    BY <2>1, <1>2, FiniteValues
<1>4. ASSUME NEW fields PROVE IsFiniteSet(Synthetic!Repeats(d[t], fields))
  <2>1. Synthetic!Repeats(d[t], fields) \in SUBSET DOMAIN d[t]
    BY DEF Synthetic!Repeats
  <2> QED
    BY Zenon, <2>1, <1>2, FS_Subset
<1> QED
  BY <1>1, <1>2, <1>3, <1>4

\* The rows that the rules of a passed report find: none.
LEMMA RulesHold ==
    ASSUME NEW d \in Datasets, NEW s \in Settings,
           Synthetic!Passed(Synthetic!Report(d, s), s)
    PROVE  LET Times == Synthetic!Values(d.inverter_scada, "time") IN
           /\ Synthetic!Repeats(d.plants, {"id"}) = {} /\ Synthetic!Repeats(d.equipment, {"id"}) = {}
           /\ \A t \in Synthetic!Operations : Synthetic!Repeats(d[t], {"id"}) = {}
           /\ Synthetic!Values(d.equipment, "plant") \subseteq Synthetic!Values(d.plants, "id")
           /\ Synthetic!Values(d.inverter_scada, "plant") \subseteq Synthetic!Values(d.plants, "id")
           /\ Synthetic!Values(d.inverter_scada, "equipment") \subseteq Synthetic!Values(d.equipment, "id")
           /\ \A t \in Synthetic!Operations :
                  Synthetic!Upper(Synthetic!Values(d[t], "plant")) \subseteq Synthetic!Values(d.plants, "id")
           /\ Synthetic!Repeats(d.inverter_scada, {"equipment", "time"}) = {}
           /\ {x \in Times : ~(s.start <= x /\ x < s.end)} = {}
           /\ {x \in Times : x % s.interval # 0} = {}
<1> DEFINE results == Synthetic!Schema(d) \cup Synthetic!Identifiers(d)
                          \cup Synthetic!ReferentialIntegrity(d) \cup Synthetic!Temporal(d, s)
                          \cup Synthetic!Volumes(d, s) \cup Synthetic!NumericPhysics(d)
                          \cup Synthetic!Lifecycle(d)
           issues == Synthetic!Report(d, s)
<1>1. issues = {r \in results : r.failed_count > 0}
  BY Zenon DEF Synthetic!Report
<1>2. \A x : \/ x \in Synthetic!Identifiers(d) \/ x \in Synthetic!ReferentialIntegrity(d)
             \/ x \in Synthetic!Temporal(d, s)
             => x \in results
  OBVIOUS
<1> HIDE DEF results, issues
<1>3. Synthetic!Passed(issues, s)
  BY DEF issues
<1>4. ASSUME NEW rule, NEW F, IsFiniteSet(F), Synthetic!Result(rule, "error", F) \in results
      PROVE  F = {}
  BY Zenon, <1>1, <1>3, <1>4, RuleHolds
<1>5. /\ d.plants = d["plants"] /\ d.equipment = d["equipment"]
      /\ d.inverter_scada = d["inverter_scada"]
      /\ {"plants", "equipment", "inverter_scada"} \subseteq Synthetic!Tables
      /\ Synthetic!Operations \subseteq Synthetic!Tables
  BY DEF Synthetic!Tables
<1>6. \A t \in Synthetic!Tables :
        /\ \A field : IsFiniteSet(Synthetic!Values(d[t], field))
        /\ \A fields : IsFiniteSet(Synthetic!Repeats(d[t], fields))
  BY Zenon, TableFacts
<1>7. \A A, B : IsFiniteSet(A) => IsFiniteSet(A \ B)
  BY FS_Difference
<1>8. /\ Synthetic!Repeats(d.plants, {"id"}) = {} /\ Synthetic!Repeats(d.equipment, {"id"}) = {}
      /\ \A t \in Synthetic!Operations : Synthetic!Repeats(d[t], {"id"}) = {}
  <2>1. /\ Synthetic!Result("ID-001", "error", Synthetic!Repeats(d.plants, {"id"})) \in results
        /\ Synthetic!Result("ID-002", "error", Synthetic!Repeats(d.equipment, {"id"})) \in results
        /\ \A t \in Synthetic!Operations :
               Synthetic!Result("ID-003", "error", Synthetic!Repeats(d[t], {"id"})) \in results
    BY Zenon, <1>2 DEF Synthetic!Identifiers
  <2>2. IsFiniteSet(Synthetic!Repeats(d.plants, {"id"})) /\ IsFiniteSet(Synthetic!Repeats(d.equipment, {"id"}))
    BY <1>5, <1>6
  <2>3. \A t \in Synthetic!Operations : IsFiniteSet(Synthetic!Repeats(d[t], {"id"}))
    BY <1>5, <1>6
  <2> QED
    BY Zenon, <2>1, <2>2, <2>3, <1>4
<1>9. /\ Synthetic!Values(d.equipment, "plant") \ Synthetic!Values(d.plants, "id") = {}
      /\ Synthetic!Values(d.inverter_scada, "plant") \ Synthetic!Values(d.plants, "id") = {}
      /\ Synthetic!Values(d.inverter_scada, "equipment") \ Synthetic!Values(d.equipment, "id") = {}
  <2>1. /\ Synthetic!Result("REF-001", "error",
               Synthetic!Values(d.equipment, "plant") \ Synthetic!Values(d.plants, "id")) \in results
        /\ Synthetic!Result("REF-002", "error",
               Synthetic!Values(d.inverter_scada, "plant") \ Synthetic!Values(d.plants, "id")) \in results
        /\ Synthetic!Result("REF-003", "error",
               Synthetic!Values(d.inverter_scada, "equipment") \ Synthetic!Values(d.equipment, "id"))
               \in results
    BY Zenon, <1>2 DEF Synthetic!ReferentialIntegrity
  <2>2. /\ IsFiniteSet(Synthetic!Values(d.equipment, "plant"))
        /\ IsFiniteSet(Synthetic!Values(d.inverter_scada, "plant"))
        /\ IsFiniteSet(Synthetic!Values(d.inverter_scada, "equipment"))
    BY <1>5, <1>6
  <2>3. /\ IsFiniteSet(Synthetic!Values(d.equipment, "plant") \ Synthetic!Values(d.plants, "id"))
        /\ IsFiniteSet(Synthetic!Values(d.inverter_scada, "plant") \ Synthetic!Values(d.plants, "id"))
        /\ IsFiniteSet(Synthetic!Values(d.inverter_scada, "equipment") \ Synthetic!Values(d.equipment, "id"))
    BY Zenon, <2>2, <1>7
  <2> QED
    BY Zenon, <2>1, <2>3, <1>4
<1>10. ASSUME NEW t \in Synthetic!Operations
       PROVE  Synthetic!Upper(Synthetic!Values(d[t], "plant")) \ Synthetic!Values(d.plants, "id") = {}
  <2> DEFINE P == Synthetic!Values(d[t], "plant")
             f == [p \in P |-> p.id]
  <2>1. Synthetic!Result("REF-007", "error", Synthetic!Upper(P) \ Synthetic!Values(d.plants, "id"))
            \in results
    BY Zenon, <1>2 DEF Synthetic!ReferentialIntegrity
  <2>2. IsFiniteSet(P)
    BY <1>5, <1>6
  <2>3. DOMAIN f = P /\ Synthetic!Upper(P) = {f[p] : p \in P}
    BY DEF Synthetic!Upper
  <2> HIDE DEF f, P
  <2>4. IsFiniteSet(Synthetic!Upper(P))
    BY <2>2, <2>3, FiniteValues
  <2>5. IsFiniteSet(Synthetic!Upper(P) \ Synthetic!Values(d.plants, "id"))
    BY Zenon, <2>4, <1>7
  <2>6. Synthetic!Upper(P) \ Synthetic!Values(d.plants, "id") = {}
    BY Zenon, <2>1, <2>5, <1>4
  <2> QED
    BY <2>6 DEF P
<1>11. LET Times == Synthetic!Values(d.inverter_scada, "time") IN
       /\ Synthetic!Repeats(d.inverter_scada, {"equipment", "time"}) = {}
       /\ {x \in Times : ~(s.start <= x /\ x < s.end)} = {}
       /\ {x \in Times : x % s.interval # 0} = {}
  <2> DEFINE Times == Synthetic!Values(d.inverter_scada, "time")
             Beyond == {x \in Times : ~(s.start <= x /\ x < s.end)}
             Beside == {x \in Times : x % s.interval # 0}
             again == Synthetic!Repeats(d.inverter_scada, {"equipment", "time"})
  <2>1. /\ Synthetic!Result("TMP-001", "error", again) \in results
        /\ Synthetic!Result("TMP-002", "error", Beyond) \in results
        /\ Synthetic!Result("TMP-003", "error", Beside) \in results
    BY Zenon, <1>2 DEF Synthetic!Temporal
  <2>2. IsFiniteSet(Times) /\ IsFiniteSet(again)
    BY <1>5, <1>6
  <2>3. Beyond \in SUBSET Times /\ Beside \in SUBSET Times
    OBVIOUS
  <2>4. IsFiniteSet(Beyond) /\ IsFiniteSet(Beside)
    BY Zenon, <2>2, <2>3, FS_Subset
  <2> HIDE DEF again, Beyond, Beside
  <2>5. again = {} /\ Beyond = {} /\ Beside = {}
    BY Zenon, <2>1, <2>2, <2>4, <1>4
  <2> QED
    BY <2>5 DEF again, Beyond, Beside
<1>12. \A A, B : A \ B = {} => A \subseteq B
  OBVIOUS
<1>13. \A t \in Synthetic!Operations :
         Synthetic!Upper(Synthetic!Values(d[t], "plant")) \subseteq Synthetic!Values(d.plants, "id")
  BY Zenon, <1>10, <1>12
<1> QED
  BY Zenon, <1>8, <1>9, <1>11, <1>12, <1>13

\* A set of naturals with a bound has a greatest element.
LEMMA GreatestExists ==
    ASSUME NEW n \in Nat, NEW T, T \subseteq 0..n, T # {}
    PROVE  \E t \in T : \A y \in T : y <= t
<1> DEFINE U == {n - y : y \in T}
<1>1. U \subseteq Nat
  OBVIOUS
<1>2. U # {}
  OBVIOUS
<1>3. PICK u \in U : \A v \in U : u <= v
  BY Zenon, <1>1, <1>2, LeastExists
<1>4. PICK t \in T : u = n - t
  BY <1>3
<1>5. \A y \in T : n - t <= n - y
  BY <1>3, <1>4
<1> QED
  BY <1>5

\* Of a plant's readings in a passed dataset, a later one counts no less.
LEMMA RegistersRise ==
    ASSUME NEW d \in Datasets, NEW s \in Settings,
           Synthetic!Passed(Synthetic!Report(d, s), s)
    PROVE  \A j, k \in DOMAIN d.plant_scada :
               j < k /\ d.plant_scada[j].plant = d.plant_scada[k].plant =>
                   d.plant_scada[j].cumulative <= d.plant_scada[k].cumulative
<1> DEFINE o == d.plant_scada
           Falls(p) == {k \in DOMAIN o : \E j \in 1..(k - 1) :
               /\ o[j].plant = p /\ o[k].plant = p /\ o[k].cumulative < o[j].cumulative
               /\ \A i \in (j + 1)..(k - 1) : o[i].plant # p}
           results == Synthetic!Schema(d) \cup Synthetic!Identifiers(d)
                          \cup Synthetic!ReferentialIntegrity(d) \cup Synthetic!Temporal(d, s)
                          \cup Synthetic!Volumes(d, s) \cup Synthetic!NumericPhysics(d)
                          \cup Synthetic!Lifecycle(d)
           issues == Synthetic!Report(d, s)
<1>1. o = d["plant_scada"] /\ "plant_scada" \in Synthetic!Tables
  BY DEF Synthetic!Tables
<1>2. Len(o) \in Nat /\ DOMAIN o = 1..Len(o) /\ IsFiniteSet(DOMAIN o)
  BY Zenon, <1>1, TableFacts
<1>3. \A k \in DOMAIN o : o[k].cumulative \in Int
  BY Zenon, DatasetsConstants DEF Synthetic!DatasetsFit
<1>4. ASSUME NEW p \in Synthetic!Values(o, "plant") PROVE Falls(p) = {}
  <2>1. Synthetic!Result("PHY-004", "error", Falls(p)) \in Synthetic!NumericPhysics(d)
    BY <1>4 DEF Synthetic!NumericPhysics
  <2>2. Synthetic!Result("PHY-004", "error", Falls(p)) \in results
    BY Zenon, <2>1
  <2>3. Falls(p) \in SUBSET DOMAIN o
    OBVIOUS
  <2>4. IsFiniteSet(Falls(p))
    BY Zenon, <2>3, <1>2, FS_Subset
  <2>5. issues = {r \in results : r.failed_count > 0}
    BY Zenon DEF Synthetic!Report
  <2>6. Synthetic!Passed(issues, s)
    OBVIOUS
  <2> HIDE DEF results, issues, Falls, o
  <2> QED
    BY Zenon, <2>2, <2>4, <2>5, <2>6, RuleHolds
<1>5. SUFFICES ASSUME NEW j \in DOMAIN o, NEW m \in DOMAIN o, j < m, o[j].plant = o[m].plant,
                      ~(o[j].cumulative <= o[m].cumulative)
               PROVE  FALSE
  BY Zenon
<1> DEFINE p == o[j].plant
           S == {k \in DOMAIN o : k > j /\ o[k].plant = p /\ o[k].cumulative < o[j].cumulative}
<1>6. p \in Synthetic!Values(o, "plant")
  BY DEF Synthetic!Values
<1>7. m \in S /\ S \subseteq Nat
  BY <1>5, <1>2, <1>3
<1>8. PICK k \in S : \A l \in S : k <= l
  BY Zenon, <1>7, LeastExists
<1> DEFINE B == {i \in j..(k - 1) : o[i].plant = p}
<1>9. j \in B /\ B \subseteq 0..Len(o)
  BY <1>2, <1>8
<1>10. PICK i \in B : \A l \in B : l <= i
  BY <1>9, <1>2, GreatestExists
<1>11. o[i].cumulative >= o[j].cumulative
  <2>1. CASE i = j
    BY <2>1, <1>3
  <2>2. CASE i # j
    <3>1. i \in DOMAIN o /\ i > j /\ i < k /\ o[i].plant = p
      BY <2>2, <1>10, <1>8, <1>2
    <3>2. i \notin S
      BY <3>1, <1>7, <1>8
    <3> QED
      BY <3>1, <3>2, <1>3
  <2> QED
    BY <2>1, <2>2
<1>12. i \in 1..(k - 1) /\ i \in DOMAIN o /\ k \in DOMAIN o
  BY <1>10, <1>8, <1>2
<1>13. \A l \in (i + 1)..(k - 1) : o[l].plant # p
  BY <1>10, <1>12, <1>8, <1>2
<1>14. o[k].plant = p /\ o[k].cumulative < o[i].cumulative
  BY <1>8, <1>11, <1>12, <1>3
<1>15. k \in Falls(p)
  BY <1>12, <1>13, <1>14, <1>10
<1> QED
  BY Zenon, <1>4, <1>6, <1>15

\* The points of the grid in a range that begins and ends at one.
LEMMA GridPoints ==
    ASSUME NEW s \in Settings, NEW x \in Int, s.start <= x, x < s.end, x % s.interval = 0
    PROVE  x \in {s.start + k * s.interval : k \in 0..((s.end - s.start) \div s.interval - 1)}
<1> DEFINE i == s.interval
<1>1. s.start \in Int /\ s.end \in Int /\ i \in Nat \ {0} /\ s.start % i = 0 /\ s.end % i = 0 /\ x % i = 0
  BY DatasetsConstants DEF Synthetic!DatasetsFit
<1> HIDE DEF i
<1>2. ASSUME NEW y \in Int, y % i = 0 PROVE \E m \in Int : y = m * i
  <2> DEFINE m == y \div i
             r == y % i
  <2>1. m \in Int /\ y = m * i + r /\ r = 0
    BY Zenon, <1>1, <1>2, Quotients
  <2> HIDE DEF m, r
  <2>2. m * i \in Int
    BY <2>1, <1>1
  <2>3. y = m * i
    BY <2>1, <2>2
  <2> QED
    BY <2>1, <2>3
<1>3. PICK a \in Int : s.start = a * i
  BY <1>1, <1>2
<1>4. PICK b \in Int, c \in Int : s.end = b * i /\ x = c * i
  BY <1>1, <1>2
<1>5. a <= c /\ c < b
  BY <1>1, <1>3, <1>4
<1>6. (b - a) * i = s.end - s.start /\ (c - a) * i = x - s.start
  BY <1>1, <1>3, <1>4
<1>7. (s.end - s.start) \div i = b - a
  BY <1>1, <1>3, <1>4, <1>6, Multiples
<1>8. c - a \in 0..((s.end - s.start) \div i - 1) /\ x = s.start + (c - a) * i
  BY <1>1, <1>3, <1>4, <1>5, <1>6, <1>7
<1> QED
  BY <1>8 DEF i

\* A passed dataset has a reading for each plant and interval, and nothing in
\* it ended before it began.
LEMMA VolumesHold ==
    ASSUME NEW d \in Datasets, NEW s \in Settings,
           Synthetic!Passed(Synthetic!Report(d, s), s)
    PROVE  /\ Len(d.plant_scada) = s.plant_count * ((s.end - s.start) \div s.interval)
           /\ \A t \in Synthetic!Operations : \A k \in DOMAIN d[t] :
                  d[t][k].begun # None /\ d[t][k].ended # None => d[t][k].begun <= d[t][k].ended
<1> DEFINE rows_ == s.plant_count * ((s.end - s.start) \div s.interval)
           more == 1..Synthetic!Abs(Len(d.plant_scada) - rows_)
           Early(t) == {k \in DOMAIN d[t] :
               LET r == d[t][k] IN r.ended # None /\ r.begun # None /\ r.ended < r.begun}
           results == Synthetic!Schema(d) \cup Synthetic!Identifiers(d)
                          \cup Synthetic!ReferentialIntegrity(d) \cup Synthetic!Temporal(d, s)
                          \cup Synthetic!Volumes(d, s) \cup Synthetic!NumericPhysics(d)
                          \cup Synthetic!Lifecycle(d)
           issues == Synthetic!Report(d, s)
<1>1. issues = {r \in results : r.failed_count > 0} /\ Synthetic!Passed(issues, s)
  BY Zenon DEF Synthetic!Report
<1>2. /\ Synthetic!Result("VOL-001", "error", more) \in results
      /\ \A t \in Synthetic!Operations : Synthetic!Result("LFC-001", "error", Early(t)) \in results
  <2>1. Synthetic!Result("VOL-001", "error", more) \in Synthetic!Volumes(d, s)
    BY Zenon DEF Synthetic!Volumes
  <2>2. \A t \in Synthetic!Operations :
            Synthetic!Result("LFC-001", "error", Early(t)) \in Synthetic!Lifecycle(d)
    BY DEF Synthetic!Lifecycle
  <2> QED
    BY Zenon, <2>1, <2>2
<1>3. d.plant_scada = d["plant_scada"] /\ "plant_scada" \in Synthetic!Tables
      /\ Synthetic!Operations \subseteq Synthetic!Tables
  BY DEF Synthetic!Tables
<1>4. Len(d.plant_scada) \in Nat
  BY Zenon, <1>3, TableFacts
<1>5. rows_ \in Int
  <2>1. s.start \in Int /\ s.end \in Int /\ s.interval \in Nat \ {0} /\ s.plant_count \in Nat
    BY DatasetsConstants DEF Synthetic!DatasetsFit
  <2>2. s.end - s.start \in Int
    BY <2>1
  <2>3. (s.end - s.start) \div s.interval \in Int
    BY Zenon, <2>1, <2>2, Quotients
  <2> QED
    BY <2>1, <2>3
<1> HIDE DEF results, issues, rows_
<1>6. Len(d.plant_scada) = rows_
  <2> DEFINE n == Synthetic!Abs(Len(d.plant_scada) - rows_)
  <2>1. n \in Nat /\ (n = 0 => Len(d.plant_scada) = rows_)
    BY <1>4, <1>5 DEF Synthetic!Abs
  <2> HIDE DEF n
  <2>2. more = 1..n
    BY DEF n
  <2>3. IsFiniteSet(1..n)
    BY <2>1, FS_Interval
  <2>4. 1..n = {}
    BY Zenon, <2>2, <2>3, <1>1, <1>2, RuleHolds
  <2> QED
    BY <2>1, <2>4
<1>7. ASSUME NEW t \in Synthetic!Operations
      PROVE  \A k \in DOMAIN d[t] :
                 d[t][k].begun # None /\ d[t][k].ended # None => d[t][k].begun <= d[t][k].ended
  <2>1. IsFiniteSet(DOMAIN d[t])
    BY Zenon, <1>3, TableFacts
  <2>2. Early(t) \in SUBSET DOMAIN d[t]
    OBVIOUS
  <2>3. IsFiniteSet(Early(t))
    BY Zenon, <2>1, <2>2, FS_Subset
  <2>4. Early(t) = {}
    BY Zenon, <2>3, <1>1, <1>2, RuleHolds
  <2>5. \A k \in DOMAIN d[t] :
          /\ d[t][k].begun # None => d[t][k].begun \in Int
          /\ d[t][k].ended # None => d[t][k].ended \in Int
    BY Zenon, DatasetsConstants DEF Synthetic!DatasetsFit
  <2> QED
    BY <2>4, <2>5
<1> QED
  BY Zenon, <1>6, <1>7 DEF rows_

\* A dataset is given before it is judged.
LEMMA SyntheticInitial == Synthetic!Init => Synthetic!SyntheticInv
BY DEF Synthetic!Init, Synthetic!SyntheticInv

\* A report is that of the dataset and its settings.
LEMMA SyntheticNext ==
    ASSUME Synthetic!SyntheticInv, [Synthetic!Next]_Synthetic!vars
    PROVE  Synthetic!SyntheticInv'
<1>1. CASE Synthetic!Next
  <2>1. input' = input /\ state' = IF Synthetic!CanRun(input.dataset)
                THEN LET issues == Synthetic!Report(input.dataset, input.settings) IN
                     [phase |-> "reported", issues |-> issues,
                      passed |-> Synthetic!Passed(issues, input.settings)]
                ELSE [phase |-> "raised"]
    BY Zenon, <1>1 DEF Synthetic!Next
  <2>2. CASE Synthetic!CanRun(input.dataset)
    <3> DEFINE issues == Synthetic!Report(input.dataset, input.settings)
    <3>1. state' = [phase |-> "reported", issues |-> issues,
                    passed |-> Synthetic!Passed(issues, input.settings)]
      BY Zenon, <2>1, <2>2
    <3> HIDE DEF issues
    <3>2. state'.issues = issues /\ state'.passed = Synthetic!Passed(issues, input.settings)
      BY <3>1
    <3> QED
      BY <2>1, <3>2 DEF issues, Synthetic!SyntheticInv
  <2>3. CASE ~Synthetic!CanRun(input.dataset)
    <3>1. state' = [phase |-> "raised"]
      BY Zenon, <2>1, <2>3
    <3>2. state'.phase # "reported"
      BY <3>1
    <3> QED
      BY <2>1, <3>2 DEF Synthetic!SyntheticInv
  <2> QED
    BY <2>2, <2>3
<1>2. CASE UNCHANGED Synthetic!vars
  BY <1>2 DEF Synthetic!vars, Synthetic!SyntheticInv
<1> QED
  BY <1>1, <1>2

\* What a report lets pass, its tables take, but for what its rules do not look at.
LEMMA SyntheticShows ==
    ASSUME Synthetic!SyntheticInv PROVE Synthetic!PassedIsLoadable
<1> SUFFICES ASSUME state.phase = "reported", state.passed PROVE Synthetic!PassedIsLoadable
  BY DEF Synthetic!PassedIsLoadable
<1> DEFINE d == input.dataset
           s == input.settings
           plants == Synthetic!Values(d.plants, "id")
<1>1. d \in Datasets /\ s \in Settings
  BY DEF Synthetic!SyntheticInv
<1>2. Synthetic!Passed(Synthetic!Report(d, s), s)
  BY DEF Synthetic!SyntheticInv
<1> HIDE DEF d, s
<1> DEFINE Times == Synthetic!Values(d.inverter_scada, "time")
<1>3. /\ Synthetic!Repeats(d.plants, {"id"}) = {} /\ Synthetic!Repeats(d.equipment, {"id"}) = {}
      /\ \A t \in Synthetic!Operations : Synthetic!Repeats(d[t], {"id"}) = {}
      /\ Synthetic!Values(d.equipment, "plant") \subseteq plants
      /\ Synthetic!Values(d.inverter_scada, "plant") \subseteq plants
      /\ Synthetic!Values(d.inverter_scada, "equipment") \subseteq Synthetic!Values(d.equipment, "id")
      /\ \A t \in Synthetic!Operations :
             Synthetic!Upper(Synthetic!Values(d[t], "plant")) \subseteq plants
      /\ Synthetic!Repeats(d.inverter_scada, {"equipment", "time"}) = {}
      /\ {x \in Times : ~(s.start <= x /\ x < s.end)} = {}
      /\ {x \in Times : x % s.interval # 0} = {}
  BY Zenon, <1>1, <1>2, RulesHold
<1>4. Synthetic!Refused(d) \subseteq Synthetic!NotLookedAt(d)
  <2> SUFFICES ASSUME NEW t \in Synthetic!Refused(d) PROVE t \in Synthetic!NotLookedAt(d)
    OBVIOUS
  <2> HIDE DEF plants, Times
  <2>1. /\ d.plants = d["plants"] /\ d.equipment = d["equipment"]
        /\ d.inverter_scada = d["inverter_scada"]
    OBVIOUS
  <2>2. t \in Synthetic!Operations
        /\ (Synthetic!NoKey(d[t], {"id"}) \/ Synthetic!Dangling(t, d) # {} \/ Synthetic!Unassigned(t, d) # {})
    BY <2>1, <1>3 DEF Synthetic!Refused, Synthetic!NoKey, plants
  <2>3. ~Synthetic!NoKey(d[t], {"id"})
    BY <1>3, <2>2 DEF Synthetic!NoKey
  <2>4. CASE Synthetic!Unassigned(t, d) # {}
    BY <2>2, <2>4 DEF Synthetic!NotLookedAt
  <2>5. CASE Synthetic!Dangling(t, d) # {}
    <3>1. PICK k \in DOMAIN d[t] : d[t][k].plant.lower \/ d[t][k].plant.id \notin plants
      BY <2>5 DEF Synthetic!Dangling, plants
    <3>2. d[t][k].plant.id \in Synthetic!Upper(Synthetic!Values(d[t], "plant"))
      BY DEF Synthetic!Upper, Synthetic!Values
    <3>3. d[t][k].plant.id \in plants
      BY Zenon, <3>2, <2>2, <1>3
    <3> QED
      BY <3>1, <3>3, <2>2 DEF Synthetic!NotLookedAt
  <2> QED
    BY <2>2, <2>3, <2>4, <2>5
<1>5. Times \subseteq {s.start + k * s.interval : k \in 0..((s.end - s.start) \div s.interval - 1)}
  <2> SUFFICES ASSUME NEW x \in Times
               PROVE  x \in {s.start + k * s.interval : k \in 0..((s.end - s.start) \div s.interval - 1)}
    OBVIOUS
  <2>1. x \in Int
    BY <1>1, DatasetsConstants DEF Synthetic!DatasetsFit, Synthetic!Values
  <2>2. s.start <= x /\ x < s.end /\ x % s.interval = 0
    BY <1>3
  <2> QED
    BY <1>1, <2>1, <2>2, GridPoints
<1>6. \A j, k \in DOMAIN d.plant_scada :
        j < k /\ d.plant_scada[j].plant = d.plant_scada[k].plant =>
            d.plant_scada[j].cumulative <= d.plant_scada[k].cumulative
  BY Zenon, <1>1, <1>2, RegistersRise
<1>7. /\ Len(d.plant_scada) = s.plant_count * ((s.end - s.start) \div s.interval)
      /\ \A t \in Synthetic!Operations : \A k \in DOMAIN d[t] :
             d[t][k].begun # None /\ d[t][k].ended # None => d[t][k].begun <= d[t][k].ended
  BY Zenon, <1>1, <1>2, VolumesHold
<1>8. \A t \in Synthetic!Operations : \A r \in {d[t][k] : k \in DOMAIN d[t]} :
        r.begun # None /\ r.ended # None => r.begun <= r.ended
  BY <1>7
<1> QED
  BY Zenon, <1>4, <1>5, <1>6, <1>7, <1>8 DEF Synthetic!PassedIsLoadable, d, s

=================================================================================
