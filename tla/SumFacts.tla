------------------------------ MODULE SumFacts ------------------------------
(***************************************************************************)
(* What sums over a finite set do when one summand changes, for the sums   *)
(* the models write with MapThenSumSet: the Compute accrued by all regions *)
(* of the game, what all regions have earned, what the levels bought cost. *)
(*                                                                         *)
(* The induction is on the subsets of the set: one that is minimal among   *)
(* those for which a statement fails has no counterexample below it.       *)
(***************************************************************************)
EXTENDS Integers, FiniteSetsExt, FiniteSetTheorems, TLAPS

Pick(s) == CHOOSE x \in s : TRUE

\* The sums of f over the subsets of S, one summand after another.
Summing(f, s, sum) == IF s = {} THEN 0 ELSE f[Pick(s)] + sum[s \ {Pick(s)}]
Sums(f, S) == CHOOSE sum : sum = [s \in SUBSET S |-> Summing(f, s, sum)]

\* The sum of f over S.
Total(f, S) == Sums(f, S)[S]

LEMMA TotalIsSum ==
  ASSUME NEW S, NEW f
  PROVE  MapThenSumSet(LAMBDA x : f[x], S) = Total(f, S)
BY DEF MapThenSumSet, MapThenFoldSet, Total, Sums, Summing, Pick

LEMMA PickInSet ==
  ASSUME NEW s, s # {}
  PROVE  Pick(s) \in s
BY DEF Pick

LEMMA MinimalSubset ==
  ASSUME NEW S, IsFiniteSet(S), NEW F \in SUBSET SUBSET S, F # {}
  PROVE  \E s \in F : \A t \in F : t \subseteq s => t = s
<1>1. FiniteSubsetsOf(S) = SUBSET S
  BY FS_FiniteSubsetsOfFinite
<1>2. IsWellFoundedOn(StrictSubsetOrdering(S), SUBSET S)
  BY <1>1, FS_StrictSubsetOrderingWellFounded
<1>3. PICK s \in F : \A t \in F : <<t, s>> \notin StrictSubsetOrdering(S)
  BY <1>2, WFMin
<1> QED  BY <1>3 DEF StrictSubsetOrdering

\* A set of naturals has a least element: of the sets 0..n for its elements n one
\* is minimal under inclusion.
LEMMA LeastNatural ==
  ASSUME NEW S \in SUBSET Nat, S # {}
  PROVE  \E m \in S : \A k \in S : m <= k
<1> DEFINE F == {0..n : n \in S}
<1>1. PICK top \in S : TRUE
  OBVIOUS
<1>2. {0..n : n \in {k \in S : k <= top}} \in SUBSET SUBSET (0..top)
  <2>1. \A n \in S : n <= top => 0..n \subseteq 0..top
    BY <1>1
  <2> QED  BY <2>1
<1> DEFINE G == {0..n : n \in {k \in S : k <= top}}
<1>3. G # {} /\ IsFiniteSet(0..top)
  BY <1>1, FS_Interval
<1>4. PICK x \in G : \A y \in G : y \subseteq x => y = x
  <2> DEFINE I == 0..top
  <2>1. G \in SUBSET SUBSET I /\ G # {} /\ IsFiniteSet(I)
    BY <1>2, <1>3
  <2> HIDE DEF G, I
  <2> QED  BY <2>1, MinimalSubset
<1>5. PICK m \in S : x = 0..m /\ m <= top
  OBVIOUS
<1>6. ASSUME NEW k \in S, k < m PROVE FALSE
  <2>1. 0..k \in G /\ 0..k \subseteq 0..m /\ m \in 0..m /\ m \notin 0..k
    BY <1>1, <1>5, <1>6
  <2> QED  BY <1>4, <1>5, <2>1
<1> QED  BY <1>5, <1>6

\* The definition by recursion defines something.
LEMMA SumsExist ==
  ASSUME NEW S, IsFiniteSet(S), NEW f
  PROVE  \E sum : sum = [s \in SUBSET S |-> Summing(f, s, sum)]
<1> DEFINE Small(n) == {s \in SUBSET S : Cardinality(s) <= n}
           Defined(n) == \E sum : sum = [s \in Small(n) |-> Summing(f, s, sum)]
<1>1. \A s \in SUBSET S : IsFiniteSet(s) /\ Cardinality(s) \in Nat
  BY FS_Subset, FS_CardinalityType
<1>2. Defined(0)
  <2> DEFINE none == [s \in Small(0) |-> 0]
  <2>1. \A s \in Small(0) : s = {}
    BY <1>1, FS_EmptySet
  <2>2. none = [s \in Small(0) |-> Summing(f, s, none)]
    BY <2>1 DEF Summing
  <2> QED  BY <2>2
<1>3. ASSUME NEW n \in Nat, Defined(n) PROVE Defined(n + 1)
  <2>1. PICK g : g = [s \in Small(n) |-> Summing(f, s, g)]
    BY <1>3
  <2> DEFINE h == [s \in Small(n + 1) |-> Summing(f, s, g)]
  <2>2. Small(n) \subseteq Small(n + 1)
    BY <1>1
  <2>3. \A s \in Small(n) : h[s] = g[s]
    BY <2>1, <2>2
  <2>4. ASSUME NEW s \in Small(n + 1), s # {} PROVE s \ {Pick(s)} \in Small(n)
    <3>1. Cardinality(s \ {Pick(s)}) = Cardinality(s) - 1
      BY <1>1, <2>4, PickInSet, FS_RemoveElement
    <3> QED  BY <1>1, <3>1
  <2> HIDE DEF Small
  <2>5. \A s \in Small(n + 1) : Summing(f, s, g) = Summing(f, s, h)
    BY <2>3, <2>4 DEF Summing
  <2>6. h = [s \in Small(n + 1) |-> Summing(f, s, h)]
    BY <2>5
  <2> HIDE DEF h
  <2> QED  BY <2>6
<1> DEFINE Missing == {n \in Nat : ~Defined(n)}
<1> HIDE DEF Defined
<1>4. Missing = {}
  <2> SUFFICES ASSUME Missing # {} PROVE FALSE
    OBVIOUS
  <2>1. PICK m \in Missing : \A k \in Missing : m <= k
    <3>1. Missing \in SUBSET Nat
      OBVIOUS
    <3> HIDE DEF Missing
    <3> QED  BY <3>1, LeastNatural
  <2>2. m # 0 /\ m \in Nat /\ ~Defined(m)
    BY <1>2
  <2>3. m - 1 \in Nat /\ m - 1 \notin Missing
    BY <2>1, <2>2
  <2>4. Defined((m - 1) + 1)
    BY <1>3, <2>3
  <2> QED  BY <2>2, <2>4
<1>5. Small(Cardinality(S)) = SUBSET S /\ Cardinality(S) \in Nat
  BY FS_Subset, FS_CardinalityType
<1>6. Defined(Cardinality(S))
  BY <1>4, <1>5
<1> QED  BY <1>5, <1>6 DEF Defined

LEMMA SumsRecur ==
  ASSUME NEW S, IsFiniteSet(S), NEW f
  PROVE  Sums(f, S) = [s \in SUBSET S |-> Summing(f, s, Sums(f, S))]
BY SumsExist DEF Sums

LEMMA SumsStep ==
  ASSUME NEW S, IsFiniteSet(S), NEW f
  PROVE  /\ Sums(f, S)[{}] = 0
         /\ \A s \in SUBSET S : s # {} =>
              Sums(f, S)[s] = f[Pick(s)] + Sums(f, S)[s \ {Pick(s)}]
<1>1. Sums(f, S) = [s \in SUBSET S |-> Summing(f, s, Sums(f, S))]
  BY SumsRecur
<1> DEFINE sum == Sums(f, S)
<1>2. sum = [s \in SUBSET S |-> Summing(f, s, sum)]
  BY <1>1
<1> HIDE DEF sum
<1>3. \A s \in SUBSET S : sum[s] = Summing(f, s, sum)
  BY <1>2
<1>4. sum[{}] = 0 /\ \A s \in SUBSET S : s # {} => sum[s] = f[Pick(s)] + sum[s \ {Pick(s)}]
  BY <1>3 DEF Summing
<1> QED  BY <1>4 DEF sum

LEMMA SumsType ==
  ASSUME NEW S, IsFiniteSet(S), NEW f
  PROVE  /\ f \in [S -> Int] => \A s \in SUBSET S : Sums(f, S)[s] \in Int
         /\ f \in [S -> Nat] => \A s \in SUBSET S : Sums(f, S)[s] \in Nat
<1> DEFINE sum == Sums(f, S)
<1>1. sum[{}] = 0 /\ \A s \in SUBSET S : s # {} => sum[s] = f[Pick(s)] + sum[s \ {Pick(s)}]
  BY SumsStep
<1> HIDE DEF sum
<1>2. ASSUME NEW K, 0 \in K, \A x, y \in K : x + y \in K, f \in [S -> K]
      PROVE  \A s \in SUBSET S : sum[s] \in K
  <2> DEFINE F == {s \in SUBSET S : sum[s] \notin K}
  <2> SUFFICES ASSUME F # {} PROVE FALSE
    OBVIOUS
  <2>1. F \in SUBSET SUBSET S
    OBVIOUS
  <2>2. PICK s \in F : \A t \in F : t \subseteq s => t = s
    <3> HIDE DEF F
    <3> QED  BY <2>1, MinimalSubset
  <2>3. s # {} /\ s \in SUBSET S /\ sum[s] \notin K
    BY <1>1, <1>2
  <2>4. Pick(s) \in s
    BY <2>3, PickInSet
  <2>5. sum[s \ {Pick(s)}] \in K /\ f[Pick(s)] \in K
    BY <1>2, <2>2, <2>3, <2>4
  <2>6. sum[s] = f[Pick(s)] + sum[s \ {Pick(s)}]
    BY <1>1, <2>3
  <2> QED  BY <1>2, <2>3, <2>5, <2>6
<1>3. f \in [S -> Int] => \A s \in SUBSET S : sum[s] \in Int
  BY <1>2
<1>4. f \in [S -> Nat] => \A s \in SUBSET S : sum[s] \in Nat
  <2>1. 0 \in Nat /\ \A x, y \in Nat : x + y \in Nat
    OBVIOUS
  <2> QED  BY <1>2, <2>1
<1> QED  BY <1>3, <1>4 DEF sum

\* Any summand may be taken out first.
LEMMA SumsSplit ==
  ASSUME NEW S, IsFiniteSet(S), NEW f \in [S -> Int]
  PROVE  \A s \in SUBSET S : \A a \in s : Sums(f, S)[s] = Sums(f, S)[s \ {a}] + f[a]
<1> DEFINE sum == Sums(f, S)
<1>1. sum[{}] = 0 /\ \A s \in SUBSET S : s # {} => sum[s] = f[Pick(s)] + sum[s \ {Pick(s)}]
  BY SumsStep
<1>2. \A s \in SUBSET S : sum[s] \in Int
  BY SumsType
<1> HIDE DEF sum
<1> DEFINE F == {s \in SUBSET S : ~(\A a \in s : sum[s] = sum[s \ {a}] + f[a])}
<1>3. ASSUME F # {} PROVE FALSE
  <2>1. F \in SUBSET SUBSET S
    OBVIOUS
  <2>2. PICK s \in F : \A t \in F : t \subseteq s => t = s
    <3> HIDE DEF F
    <3> QED  BY <1>3, <2>1, MinimalSubset
  <2>3. PICK a \in s : sum[s] # sum[s \ {a}] + f[a]
    OBVIOUS
  <2> DEFINE x == Pick(s)
  <2>4. x \in s /\ s \in SUBSET S
    BY <2>3, PickInSet
  <2>5. sum[s] = f[x] + sum[s \ {x}]
    BY <1>1, <2>3
  <2> HIDE DEF x
  <2>6. f[x] \in Int /\ f[a] \in Int /\ sum[s \ {x}] \in Int
    BY <1>2, <2>4
  <2>7. x # a
    <3> SUFFICES ASSUME x = a PROVE FALSE
      OBVIOUS
    <3>1. sum[s] = f[a] + sum[s \ {a}] /\ sum[s \ {a}] \in Int
      BY <2>5, <2>6
    <3> QED  BY <2>3, <2>6, <3>1
  <2>8. s \ {x} \notin F /\ s \ {a} \notin F
    BY <2>2, <2>4
  <2> DEFINE y == s \ {x}
             z == s \ {a}
             both == (s \ {x}) \ {a}
  <2>9. y \in SUBSET S /\ z \in SUBSET S /\ both \in SUBSET S /\ a \in y /\ x \in z /\ z \ {x} = both
    BY <2>4, <2>7
  <2>10. sum[y] = sum[both] + f[a]
    BY <2>8, <2>9
  <2>11. sum[z] = sum[both] + f[x]
    BY <2>8, <2>9
  <2>12. sum[s] = f[x] + sum[y] /\ sum[s] # sum[z] + f[a]
    BY <2>3, <2>5
  <2>13. sum[both] \in Int
    BY <1>2, <2>9
  <2> HIDE DEF y, z, both
  <2> QED  BY <2>6, <2>10, <2>11, <2>12, <2>13
<1> QED  BY <1>3 DEF sum

\* A sum depends on its summands and on nothing else.
LEMMA SumsLocal ==
  ASSUME NEW T, IsFiniteSet(T), NEW S \in SUBSET T, NEW f, NEW g, \A x \in S : f[x] = g[x]
  PROVE  \A s \in SUBSET S : Sums(f, S)[s] = Sums(g, T)[s]
<1>1. IsFiniteSet(S)
  BY FS_Subset
<1> DEFINE p == Sums(f, S)
           q == Sums(g, T)
<1>2. p[{}] = 0 /\ \A s \in SUBSET S : s # {} => p[s] = f[Pick(s)] + p[s \ {Pick(s)}]
  BY <1>1, SumsStep
<1>3. q[{}] = 0 /\ \A s \in SUBSET S : s # {} => q[s] = g[Pick(s)] + q[s \ {Pick(s)}]
  BY SumsStep
<1> HIDE DEF p, q
<1> DEFINE F == {s \in SUBSET S : p[s] # q[s]}
<1>4. ASSUME F # {} PROVE FALSE
  <2>1. F \in SUBSET SUBSET S
    OBVIOUS
  <2>2. PICK s \in F : \A t \in F : t \subseteq s => t = s
    <3> HIDE DEF F
    <3> QED  BY <1>1, <1>4, <2>1, MinimalSubset
  <2>3. s # {} /\ s \in SUBSET S /\ p[s] # q[s]
    BY <1>2, <1>3
  <2>4. Pick(s) \in s
    BY <2>3, PickInSet
  <2>5. p[s \ {Pick(s)}] = q[s \ {Pick(s)}] /\ f[Pick(s)] = g[Pick(s)]
    BY <2>2, <2>3, <2>4
  <2> QED  BY <1>2, <1>3, <2>3, <2>5
<1> QED  BY <1>4 DEF p, q

-----------------------------------------------------------------------------
(* Sums over the whole of a set                                            *)

LEMMA TotalType ==
  ASSUME NEW S, IsFiniteSet(S), NEW f
  PROVE  /\ f \in [S -> Int] => Total(f, S) \in Int
         /\ f \in [S -> Nat] => Total(f, S) \in Nat
BY SumsType DEF Total

LEMMA TotalOfNone ==
  ASSUME NEW f
  PROVE  Total(f, {}) = 0
BY FS_EmptySet, SumsStep DEF Total

\* One summand less.
LEMMA TotalRemove ==
  ASSUME NEW S, IsFiniteSet(S), NEW a \in S, NEW f \in [S -> Int],
         NEW g, \A x \in S \ {a} : g[x] = f[x]
  PROVE  Total(f, S) = Total(g, S \ {a}) + f[a]
<1>1. S \in SUBSET S /\ S \ {a} \in SUBSET S
  OBVIOUS
<1>2. Sums(f, S)[S] = Sums(f, S)[S \ {a}] + f[a]
  BY <1>1, SumsSplit
<1>3. Sums(g, S \ {a})[S \ {a}] = Sums(f, S)[S \ {a}]
  BY <1>1, SumsLocal
<1> QED  BY <1>2, <1>3 DEF Total

LEMMA TotalSame ==
  ASSUME NEW S, IsFiniteSet(S), NEW f, NEW g, \A x \in S : f[x] = g[x]
  PROVE  Total(f, S) = Total(g, S)
BY SumsLocal DEF Total

\* One summand changes.
LEMMA TotalChange ==
  ASSUME NEW S, IsFiniteSet(S), NEW f \in [S -> Int], NEW g \in [S -> Int], NEW a \in S,
         \A x \in S \ {a} : g[x] = f[x]
  PROVE  Total(g, S) = (Total(f, S) - f[a]) + g[a]
<1>1. IsFiniteSet(S \ {a})
  BY FS_RemoveElement
<1>2. Total(f, S) = Total(f, S \ {a}) + f[a]
  BY TotalRemove
<1>3. Total(g, S) = Total(f, S \ {a}) + g[a]
  BY TotalRemove
<1>4. Total(f, S \ {a}) \in Int
  <2>1. [x \in S \ {a} |-> f[x]] \in [S \ {a} -> Int]
    OBVIOUS
  <2>2. Total([x \in S \ {a} |-> f[x]], S \ {a}) \in Int
    BY <1>1, <2>1, TotalType
  <2>3. Total([x \in S \ {a} |-> f[x]], S \ {a}) = Total(f, S \ {a})
    BY <1>1, TotalSame
  <2> QED  BY <2>2, <2>3
<1>5. f[a] \in Int /\ g[a] \in Int
  OBVIOUS
<1> QED  BY <1>2, <1>3, <1>4, <1>5

LEMMA TotalOfZeros ==
  ASSUME NEW S, IsFiniteSet(S), NEW f, \A x \in S : f[x] = 0
  PROVE  Total(f, S) = 0
<1> DEFINE sum == Sums(f, S)
<1>1. sum[{}] = 0 /\ \A s \in SUBSET S : s # {} => sum[s] = f[Pick(s)] + sum[s \ {Pick(s)}]
  BY SumsStep
<1> HIDE DEF sum
<1> DEFINE F == {s \in SUBSET S : sum[s] # 0}
<1>2. ASSUME F # {} PROVE FALSE
  <2>1. F \in SUBSET SUBSET S
    OBVIOUS
  <2>2. PICK s \in F : \A t \in F : t \subseteq s => t = s
    <3> HIDE DEF F
    <3> QED  BY <1>2, <2>1, MinimalSubset
  <2>3. s # {} /\ s \in SUBSET S /\ sum[s] # 0
    BY <1>1
  <2>4. Pick(s) \in s
    BY <2>3, PickInSet
  <2>5. sum[s \ {Pick(s)}] = 0 /\ f[Pick(s)] = 0
    BY <2>2, <2>3, <2>4
  <2> QED  BY <1>1, <2>3, <2>5
<1> QED  BY <1>2 DEF sum, Total

LEMMA OnceMore ==
  ASSUME NEW c \in Int, NEW k \in Int
  PROVE  c * k \in Int /\ c * (k + 1) = c * k + c
OBVIOUS

\* Every summand of a set C grows by c.
LEMMA TotalRaise ==
  ASSUME NEW S, IsFiniteSet(S), NEW f \in [S -> Int], NEW g \in [S -> Int], NEW C \in SUBSET S,
         NEW c \in Int, \A x \in S : g[x] = f[x] + (IF x \in C THEN c ELSE 0)
  PROVE  Total(g, S) = Total(f, S) + c * Cardinality(C)
<1> DEFINE p == Sums(f, S)
           q == Sums(g, S)
           raised(s) == Cardinality(s \cap C)
<1>1. /\ p[{}] = 0 /\ \A s \in SUBSET S : s # {} => p[s] = f[Pick(s)] + p[s \ {Pick(s)}]
      /\ q[{}] = 0 /\ \A s \in SUBSET S : s # {} => q[s] = g[Pick(s)] + q[s \ {Pick(s)}]
  BY SumsStep
<1>2. \A s \in SUBSET S : p[s] \in Int /\ q[s] \in Int
  BY SumsType
<1>3. \A s \in SUBSET S : IsFiniteSet(s \cap C) /\ raised(s) \in Nat
  <2>1. \A s \in SUBSET S : s \cap C \in SUBSET S
    OBVIOUS
  <2> QED  BY <2>1, FS_Subset, FS_CardinalityType
<1>4. raised({}) = 0
  <2>1. {} \cap C = {}
    OBVIOUS
  <2> QED  BY <2>1, FS_EmptySet
<1>5. ASSUME NEW s \in SUBSET S, NEW x \in s
      PROVE  raised(s) = raised(s \ {x}) + (IF x \in C THEN 1 ELSE 0)
  <2>1. CASE x \in C
    <3> DEFINE u == s \cap C
               v == (s \ {x}) \cap C
    <3>1. v = u \ {x} /\ x \in u
      BY <2>1
    <3>2. IsFiniteSet(u) /\ Cardinality(u) \in Nat
      BY <1>3
    <3> HIDE DEF u, v
    <3>3. Cardinality(u \ {x}) = Cardinality(u) - 1
      BY <3>1, <3>2, FS_RemoveElement
    <3>4. Cardinality(u) = Cardinality(v) + 1
      BY <3>1, <3>2, <3>3
    <3> QED  BY <2>1, <3>4 DEF u, v
  <2>2. CASE x \notin C
    <3>1. (s \ {x}) \cap C = s \cap C
      BY <2>2
    <3>2. raised(s) = raised(s \ {x}) /\ raised(s) \in Nat
      BY <1>3, <3>1
    <3> HIDE DEF raised
    <3> QED  BY <2>2, <3>2
  <2> QED  BY <2>1, <2>2
<1> HIDE DEF p, q, raised
<1> DEFINE F == {s \in SUBSET S : q[s] # p[s] + c * raised(s)}
<1>6. c * 0 = 0 /\ 0 + 0 = 0
  OBVIOUS
<1>7. ASSUME F # {} PROVE FALSE
  <2>1. F \in SUBSET SUBSET S
    OBVIOUS
  <2>2. PICK s \in F : \A t \in F : t \subseteq s => t = s
    <3> HIDE DEF F
    <3> QED  BY <1>7, <2>1, MinimalSubset
  <2>3. s # {} /\ s \in SUBSET S /\ q[s] # p[s] + c * raised(s)
    <3>1. q[{}] = p[{}] + c * raised({})
      BY <1>1, <1>4, <1>6
    <3> QED  BY <3>1
  <2>4. PICK x \in s : x = Pick(s)
    BY <2>3, PickInSet
  <2> DEFINE t == s \ {x}
  <2>5. t \in SUBSET S /\ t # s /\ t \subseteq s
    BY <2>3, <2>4
  <2>6. q[t] = p[t] + c * raised(t)
    BY <2>2, <2>5
  <2>7. p[s] = f[x] + p[t] /\ q[s] = g[x] + q[t]
    BY <1>1, <2>3, <2>4
  <2>8. raised(s) = raised(t) + (IF x \in C THEN 1 ELSE 0) /\ raised(t) \in Int
    <3>1. raised(s) = raised(s \ {x}) + (IF x \in C THEN 1 ELSE 0)
      BY <1>5, <2>3
    <3>2. raised(t) \in Nat
      BY <1>3, <2>5
    <3> QED  BY <3>1, <3>2
  <2>9. f[x] \in Int /\ g[x] = f[x] + (IF x \in C THEN c ELSE 0)
    BY <2>3
  <2>10. c * raised(s) = c * raised(t) + (IF x \in C THEN c ELSE 0) /\ c * raised(t) \in Int
    BY <2>8, OnceMore
  <2> DEFINE old == c * raised(t)
             new == c * raised(s)
  <2>11. /\ q[t] = p[t] + old /\ new = old + (IF x \in C THEN c ELSE 0) /\ old \in Int
         /\ q[s] # p[s] + new
    BY <2>3, <2>6, <2>10
  <2>12. p[t] \in Int
    BY <1>2, <2>5
  <2> HIDE DEF t, old, new
  <2> QED  BY <2>7, <2>9, <2>11, <2>12
<1>8. q[S] = p[S] + c * raised(S) /\ S \cap C = C
  BY <1>7
<1> QED  BY <1>8 DEF p, q, raised, Total

-----------------------------------------------------------------------------
(* The recursion determines the sum, however the summands are written      *)

LEMMA SumsUnique ==
  ASSUME NEW S, IsFiniteSet(S), NEW f, NEW sum,
         sum = [s \in SUBSET S |-> Summing(f, s, sum)]
  PROVE  sum[S] = Total(f, S)
<1> DEFINE q == Sums(f, S)
<1>1. q[{}] = 0 /\ \A s \in SUBSET S : s # {} => q[s] = f[Pick(s)] + q[s \ {Pick(s)}]
  BY SumsStep
<1> HIDE DEF q
<1>2. \A s \in SUBSET S : sum[s] = Summing(f, s, sum)
  OBVIOUS
<1>3. sum[{}] = 0 /\ \A s \in SUBSET S : s # {} => sum[s] = f[Pick(s)] + sum[s \ {Pick(s)}]
  BY <1>2 DEF Summing
<1> DEFINE F == {s \in SUBSET S : sum[s] # q[s]}
<1>4. ASSUME F # {} PROVE FALSE
  <2>1. F \in SUBSET SUBSET S
    OBVIOUS
  <2>2. PICK s \in F : \A t \in F : t \subseteq s => t = s
    <3> HIDE DEF F
    <3> QED  BY <1>4, <2>1, MinimalSubset
  <2>3. s # {} /\ s \in SUBSET S /\ sum[s] # q[s]
    BY <1>1, <1>3
  <2>4. Pick(s) \in s
    BY <2>3, PickInSet
  <2>5. sum[s \ {Pick(s)}] = q[s \ {Pick(s)}]
    BY <2>2, <2>3, <2>4
  <2> QED  BY <1>1, <1>3, <2>3, <2>5
<1>5. sum[S] = q[S]
  BY <1>4
<1> QED  BY <1>5 DEF q, Total
=============================================================================
