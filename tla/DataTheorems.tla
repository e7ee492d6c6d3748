---------------------------- MODULE DataTheorems ----------------------------
(***************************************************************************)
(* Facts about the data that several modules share.  Sums (UnitSum): a sum *)
(* is a natural number, it splits along a partition of the domain, and it  *)
(* follows a change at one point.  Numbers: products and quotients grow    *)
(* with what is multiplied or divided, and a quotient is bounded.          *)
(* Vectors: what a loop that keeps some elements of a Vec yields, and that *)
(* an index stays exact when the next ids are pushed onto it.              *)
(***************************************************************************)
EXTENDS UnitSum, Vectors, FiniteSetTheorems, FunctionTheorems,
        SequenceTheorems, WellFoundedInduction, TLAPS

(***************************************************************************)
(* The units of a function with a finite domain form a finite set, so that *)
(* its sum is a natural number.                                            *)
(***************************************************************************)
LEMMA TotalType ==
  ASSUME NEW D, IsFiniteSet(D), NEW f \in [D -> Nat]
  PROVE  /\ IsFiniteSet(Units(f))
         /\ Total(f) \in Nat
<1> DEFINE g == [i \in D |-> UnitsAt(f, i)]
           Parts == {UnitsAt(f, i) : i \in D}
<1>1. g \in Surjection(D, Parts)
  BY DEF Surjection
<1>2. IsFiniteSet(Parts)
  BY <1>1, FS_Surjection
<1>3. ASSUME NEW i \in D PROVE IsFiniteSet(UnitsAt(f, i))
  <2>1. IsFiniteSet({i}) BY FS_Singleton
  <2>2. IsFiniteSet(1 .. f[i]) BY FS_Interval
  <2> QED BY <2>1, <2>2, FS_Product DEF UnitsAt
<1>4. IsFiniteSet(UNION Parts)
  BY <1>2, <1>3, FS_UNION
<1>5. Units(f) = UNION Parts
  BY DEF Units
<1> QED
  BY <1>4, <1>5, FS_CardinalityType DEF Total

(***************************************************************************)
(* A sum over the union of two disjoint domains is the sum of the sums     *)
(* over each of them.                                                      *)
(***************************************************************************)
LEMMA TotalSplit ==
  ASSUME NEW D, IsFiniteSet(D), NEW E, IsFiniteSet(E), D \cap E = {},
         NEW f \in [D \cup E -> Nat],
         NEW d, d = [i \in D |-> f[i]], NEW e, e = [i \in E |-> f[i]]
  PROVE  /\ Total(f) = Total(d) + Total(e)
         /\ Total(d) \in Nat /\ Total(e) \in Nat
<1>1. /\ d \in [D -> Nat] /\ IsFiniteSet(Units(d)) /\ Total(d) \in Nat
      /\ e \in [E -> Nat] /\ IsFiniteSet(Units(e)) /\ Total(e) \in Nat
  BY TotalType
<1>2. Units(f) = Units(d) \cup Units(e)
  BY DEF Units, UnitsAt
<1>3. Units(d) \cap Units(e) = {}
  <2>1. \A u \in Units(d) : u[1] \in D BY DEF Units, UnitsAt
  <2>2. \A u \in Units(e) : u[1] \in E BY DEF Units, UnitsAt
  <2> QED BY <2>1, <2>2
<1>4. Cardinality(Units(d) \cap Units(e)) = 0
  BY <1>3, FS_EmptySet
<1>5. Cardinality(Units(f))
        = Cardinality(Units(d)) + Cardinality(Units(e))
            - Cardinality(Units(d) \cap Units(e))
  BY <1>1, <1>2, FS_Union
<1> QED BY <1>1, <1>4, <1>5 DEF Total

(***************************************************************************)
(* The sum of a function over a single point is its value there.           *)
(***************************************************************************)
LEMMA TotalSingleton ==
  ASSUME NEW k, NEW v \in Nat
  PROVE  Total([i \in {k} |-> v]) = v
<1> DEFINE f == [i \in {k} |-> v]
<1>1. Units(f) = {k} \X (1 .. v)
  BY DEF Units, UnitsAt
<1>2. IsFiniteSet({k}) /\ Cardinality({k}) = 1
  BY FS_Singleton
<1>3. IsFiniteSet(1 .. v) /\ Cardinality(1 .. v) = v
  BY FS_Interval
<1>4. Cardinality({k} \X (1 .. v)) = 1 * v
  BY <1>2, <1>3, FS_Product
<1>5. Total(f) = Cardinality({k} \X (1 .. v))
  BY <1>1 DEF Total
<1>6. 1 * v = v
  OBVIOUS
<1> QED BY <1>4, <1>5, <1>6

(***************************************************************************)
(* Defining a function at one more point adds the value there to its sum.  *)
(***************************************************************************)
LEMMA TotalExtend ==
  ASSUME NEW D, IsFiniteSet(D), NEW k, k \notin D,
         NEW f \in [D \cup {k} -> Nat]
  PROVE  Total(f) = Total([i \in D |-> f[i]]) + f[k]
<1>1. IsFiniteSet({k}) /\ D \cap {k} = {} /\ f[k] \in Nat
  BY FS_Singleton
<1>2. [i \in {k} |-> f[i]] = [i \in {k} |-> f[k]]
  OBVIOUS
<1>3. Total([i \in {k} |-> f[k]]) = f[k]
  BY <1>1, TotalSingleton
<1>4. Total(f) = Total([i \in D |-> f[i]]) + Total([i \in {k} |-> f[i]])
  BY <1>1, TotalSplit
<1> QED BY <1>2, <1>3, <1>4

(***************************************************************************)
(* Changing a function at one point changes its sum by the same amount,    *)
(* and no value exceeds the sum.                                           *)
(***************************************************************************)
LEMMA TotalUpdate ==
  ASSUME NEW D, IsFiniteSet(D), NEW f \in [D -> Nat], NEW k \in D, NEW v \in Nat
  PROVE  /\ Total([f EXCEPT ![k] = v]) = Total(f) - f[k] + v
         /\ f[k] <= Total(f)
<1> DEFINE R == D \ {k}
           g == [f EXCEPT ![k] = v]
           r == [i \in R |-> f[i]]
<1>1. /\ IsFiniteSet(R) /\ k \notin R /\ D = R \cup {k}
      /\ g \in [R \cup {k} -> Nat] /\ f \in [R \cup {k} -> Nat]
  BY FS_Difference
<1>2. r \in [R -> Nat] /\ r = [i \in R |-> g[i]] /\ g[k] = v
  OBVIOUS
<1>3. Total(r) \in Nat
  BY <1>1, <1>2, TotalType
<1> HIDE DEF R, g, r
<1>4. Total(f) = Total(r) + f[k]
  BY <1>1, TotalExtend DEF r
<1>5. Total(g) = Total(r) + v
  BY <1>1, <1>2, TotalExtend
<1>6. f[k] \in Nat OBVIOUS
<1> QED BY <1>3, <1>4, <1>5, <1>6 DEF g

-----------------------------------------------------------------------------
(***************************************************************************)
(* Division by a positive number keeps the order, is bounded by a bound of *)
(* the quotient, and is exact on a product.                                *)
(***************************************************************************)
LEMMA QuotientOrder ==
  ASSUME NEW m \in Nat, NEW n \in Nat, NEW d \in Nat \ {0}, m <= n
  PROVE  /\ m \div d \in Nat
         /\ m \div d <= n \div d
  OBVIOUS

LEMMA QuotientBound ==
  ASSUME NEW n \in Nat, NEW q \in Nat, NEW d \in Nat \ {0}
  PROVE  /\ n <= q * d => n \div d <= q
         /\ n < q * d => n \div d < q
         /\ (q * d) \div d = q
  OBVIOUS

LEMMA ProductOrder ==
  ASSUME NEW q \in Nat, NEW m \in Nat, NEW n \in Nat
  PROVE  /\ q * m \in Nat
         /\ m <= n => q * m <= q * n
         /\ (m < n /\ q > 0) => q * m < q * n
  OBVIOUS

-----------------------------------------------------------------------------
(***************************************************************************)
(* Induction without an operator as a parameter: a set of numbers with 0   *)
(* in it, and with each number below n its successor, has all up to n; the *)
(* least number it misses would contradict this.                           *)
(***************************************************************************)
LEMMA LeastNumber ==
  ASSUME NEW T, T \subseteq Nat, T # {}
  PROVE  \E m \in T : \A n \in T : m <= n
<1> DEFINE R == OpToRel(<, Nat)
<1>1. IsWellFoundedOn(R, Nat)
  BY NatLessThanWellFounded
<1>2. \A x, y \in Nat : <<y, x>> \in R <=> y < x
  BY DEF OpToRel
<1> HIDE DEF R
<1>3. PICK m \in T : \A n \in T : <<n, m>> \notin R
  BY <1>1, WFMin
<1>4. \A n \in T : ~(n < m)
  BY <1>2, <1>3
<1> QED BY <1>4

LEMMA UpToInduction ==
  ASSUME NEW n \in Nat, NEW T, 0 \in T,
         \A k \in 0 .. (n - 1) : k \in T => k + 1 \in T
  PROVE  \A k \in 0 .. n : k \in T
<1> DEFINE F == {k \in 0 .. n : k \notin T}
<1> SUFFICES ASSUME F # {} PROVE FALSE
  OBVIOUS
<1>1. PICK m \in F : \A k \in F : m <= k
  <2> HIDE DEF F
  <2>1. F \subseteq Nat BY DEF F
  <2> QED BY <2>1, LeastNumber
<1>2. m # 0
  OBVIOUS
<1>3. m - 1 \notin F
  BY <1>1, <1>2
<1> QED BY <1>2, <1>3

(***************************************************************************)
(* The recursion of Selected has a solution, and Selected is its value at  *)
(* the end.                                                                *)
(***************************************************************************)
Turn(list, chosen, f, k) ==
  IF k = 0 THEN <<>>
  ELSE IF k \in chosen THEN Append(f[k - 1], list[k])
  ELSE f[k - 1]

Solves(list, chosen, f, n) == f = [k \in 0 .. n |-> Turn(list, chosen, f, k)]

LEMMA SolutionExtends ==
  ASSUME NEW list, NEW chosen, NEW n \in Nat,
         NEW f, Solves(list, chosen, f, n)
  PROVE  \E g : Solves(list, chosen, g, n + 1)
<1> DEFINE g == [k \in 0 .. (n + 1) |->
                   IF k <= n THEN f[k] ELSE Turn(list, chosen, f, k)]
<1>1. \A k \in 0 .. n : g[k] = f[k] /\ f[k] = Turn(list, chosen, f, k)
  BY DEF Solves
<1>2. g[n + 1] = Turn(list, chosen, f, n + 1)
  OBVIOUS
<1>3. DOMAIN g = 0 .. (n + 1) /\ g = [k \in 0 .. (n + 1) |-> g[k]]
  OBVIOUS
<1> HIDE DEF g
<1>4. ASSUME NEW k \in 0 .. (n + 1)
      PROVE  g[k] = Turn(list, chosen, g, k)
  <2>1. g[k] = Turn(list, chosen, f, k)
    BY <1>1, <1>2
  <2>2. CASE k = 0
    BY <2>1, <2>2 DEF Turn
  <2>3. CASE k # 0
    <3>1. g[k - 1] = f[k - 1]
      BY <1>1, <2>3
    <3> QED BY <2>1, <3>1 DEF Turn
  <2> QED BY <2>2, <2>3
<1>5. [k \in 0 .. (n + 1) |-> g[k]]
        = [k \in 0 .. (n + 1) |-> Turn(list, chosen, g, k)]
  BY <1>4
<1>6. Solves(list, chosen, g, n + 1)
  BY <1>3, <1>5 DEF Solves
<1> QED BY <1>6

LEMMA SelectedSolution ==
  ASSUME NEW list, Len(list) \in Nat, NEW chosen
  PROVE  \E f : Solves(list, chosen, f, Len(list))
                  /\ Selected(list, chosen) = f[Len(list)]
<1> DEFINE n == Len(list)
           T == {k \in Nat : \E f : Solves(list, chosen, f, k)}
           found == CHOOSE f : Solves(list, chosen, f, n)
<1>1. 0 \in T
  <2>1. Solves(list, chosen, [k \in 0 .. 0 |-> <<>>], 0)
    BY DEF Solves, Turn
  <2> QED BY <2>1
<1>2. \A k \in Nat : k \in T => k + 1 \in T
  BY SolutionExtends
<1>3. Selected(list, chosen) = found[n]
  BY DEF Selected, Solves, Turn
<1>4. n \in Nat
  OBVIOUS
<1> HIDE DEF T, n
<1>5. n \in T
  <2>1. \A k \in 0 .. (n - 1) : k \in T => k + 1 \in T
    BY <1>2, <1>4
  <2>2. \A k \in 0 .. n : k \in T
    BY <1>1, <1>4, <2>1, UpToInduction
  <2> QED BY <1>4, <2>2
<1>6. \E f : Solves(list, chosen, f, n)
  BY <1>5 DEF T
<1>7. Solves(list, chosen, found, n)
  BY <1>6
<1> QED BY <1>3, <1>7 DEF n

(***************************************************************************)
(* Selected yields the elements at the chosen positions, each once and in  *)
(* the order of the list: pos tells where each of them was.                *)
(***************************************************************************)
Locates(pos, r, list, at) ==
  /\ pos \in [1 .. Len(r) -> at]
  /\ \A i \in 1 .. Len(r) : r[i] = list[pos[i]]
  /\ \A i, j \in 1 .. Len(r) : i < j => pos[i] < pos[j]
  /\ \A k \in at : \E i \in 1 .. Len(r) : pos[i] = k

LEMMA LocatesMore ==
  ASSUME NEW S, NEW list \in Seq(S), NEW r \in Seq(S),
         NEW at, NEW k \in 1 .. Len(list), at \subseteq 1 .. (k - 1),
         NEW pos, Locates(pos, r, list, at)
  PROVE  /\ Append(r, list[k]) \in Seq(S)
         /\ \E more : Locates(more, Append(r, list[k]), list, at \cup {k})
<1> DEFINE q == Append(r, list[k])
           more == [i \in 1 .. (Len(r) + 1) |-> IF i <= Len(r) THEN pos[i] ELSE k]
<1>1. Len(r) \in Nat /\ k \in Nat /\ list[k] \in S
  OBVIOUS
<1>2. /\ q \in Seq(S) /\ Len(q) = Len(r) + 1 /\ q[Len(r) + 1] = list[k]
      /\ \A i \in 1 .. Len(r) : q[i] = r[i]
  BY <1>1
<1>3. /\ \A i \in 1 .. Len(r) : more[i] = pos[i]
      /\ more[Len(r) + 1] = k /\ DOMAIN more = 1 .. (Len(r) + 1)
      /\ more = [i \in 1 .. (Len(r) + 1) |-> more[i]]
  BY <1>1
<1> HIDE DEF q, more
<1>4. \A i \in 1 .. Len(r) : pos[i] \in at /\ pos[i] \in Nat /\ pos[i] < k
  <2>1. \A x \in at : x \in Nat /\ x < k
    BY <1>1
  <2> QED BY <2>1 DEF Locates
<1>5. \A i \in 1 .. Len(q) : i \in 1 .. Len(r) \/ i = Len(r) + 1
  BY <1>1, <1>2
<1>6. more \in [1 .. Len(q) -> at \cup {k}]
  BY <1>2, <1>3, <1>4, <1>5
<1>7. \A i \in 1 .. Len(q) : q[i] = list[more[i]]
  BY <1>2, <1>3, <1>5 DEF Locates
<1>8. \A i, j \in 1 .. Len(q) : i < j => more[i] < more[j]
  <2> SUFFICES ASSUME NEW i \in 1 .. Len(q), NEW j \in 1 .. Len(q), i < j
               PROVE  more[i] < more[j]
    OBVIOUS
  <2>1. i \in 1 .. Len(r)
    BY <1>1, <1>2
  <2>2. CASE j \in 1 .. Len(r)
    BY <1>3, <2>1, <2>2 DEF Locates
  <2>3. CASE j = Len(r) + 1
    BY <1>3, <1>4, <2>1, <2>3
  <2> QED BY <1>5, <2>2, <2>3
<1>9. \A x \in at \cup {k} : \E i \in 1 .. Len(q) : more[i] = x
  <2>1. 1 .. Len(r) \subseteq 1 .. Len(q) /\ Len(r) + 1 \in 1 .. Len(q)
    BY <1>1, <1>2
  <2> QED BY <1>3, <2>1 DEF Locates
<1>10. Locates(more, q, list, at \cup {k})
  BY <1>6, <1>7, <1>8, <1>9 DEF Locates
<1> QED BY <1>2, <1>10 DEF q

UpTo(chosen, k) == {j \in chosen : j <= k}

GrowsAt(chosen, k) ==
  /\ UpTo(chosen, k) \subseteq 1 .. k
  /\ k + 1 \in chosen => UpTo(chosen, k + 1) = UpTo(chosen, k) \cup {k + 1}
  /\ k + 1 \notin chosen => UpTo(chosen, k + 1) = UpTo(chosen, k)

LEMMA UpToMore ==
  ASSUME NEW n \in Nat, NEW chosen, chosen \subseteq 1 .. n
  PROVE  /\ UpTo(chosen, 0) = {} /\ UpTo(chosen, n) = chosen
         /\ \A k \in 0 .. n : GrowsAt(chosen, k)
<1>1. \A j \in chosen : j \in Nat /\ 1 <= j /\ j <= n
  OBVIOUS
<1>2. UpTo(chosen, 0) = {} /\ UpTo(chosen, n) = chosen
  <2>1. \A j \in chosen : ~(j <= 0) /\ j <= n
    BY <1>1
  <2> QED BY <2>1, Zenon DEF UpTo
<1>3. ASSUME NEW k \in 0 .. n
      PROVE  GrowsAt(chosen, k)
  <2>1. UpTo(chosen, k) \subseteq 1 .. k
    <3>1. \A j \in chosen : j <= k => j \in 1 .. k
      BY <1>1
    <3> QED BY <3>1, Zenon DEF UpTo
  <2>2. \A j \in chosen : j <= k + 1 <=> j <= k \/ j = k + 1
    BY <1>1
  <2>3. /\ k + 1 \in chosen => UpTo(chosen, k + 1) = UpTo(chosen, k) \cup {k + 1}
        /\ k + 1 \notin chosen => UpTo(chosen, k + 1) = UpTo(chosen, k)
    BY <1>1, <2>2 DEF UpTo
  <2> QED BY <2>1, <2>3 DEF GrowsAt
<1> QED BY <1>2, <1>3

LEMMA SelectedLocated ==
  ASSUME NEW S, NEW list \in Seq(S), NEW chosen, chosen \subseteq 1 .. Len(list)
  PROVE  /\ Selected(list, chosen) \in Seq(S)
         /\ \E pos : Locates(pos, Selected(list, chosen), list, chosen)
<1> DEFINE n == Len(list)
           Done(r, k) == r \in Seq(S) /\ \E pos : Locates(pos, r, list, UpTo(chosen, k))
<1>1. n \in Nat /\ chosen \subseteq 1 .. n
  OBVIOUS
<1>2. PICK f : Solves(list, chosen, f, n) /\ Selected(list, chosen) = f[n]
  BY <1>1, SelectedSolution
<1>3. \A k \in 0 .. n : f[k] = Turn(list, chosen, f, k)
  BY <1>2 DEF Solves
<1>4. \A k \in 0 .. n : GrowsAt(chosen, k)
  BY <1>1, UpToMore
<1>5. Done(f[0], 0)
  <2>1. f[0] = <<>>
    BY <1>1, <1>3 DEF Turn
  <2>2. Locates(<<>>, <<>>, list, {})
    BY DEF Locates
  <2>3. <<>> \in Seq(S)
    OBVIOUS
  <2>4. UpTo(chosen, 0) = {}
    BY <1>1, UpToMore
  <2> QED BY <2>1, <2>2, <2>3, <2>4
<1>6. ASSUME NEW k \in 0 .. (n - 1), Done(f[k], k)
      PROVE  Done(f[k + 1], k + 1)
  <2>1. /\ k \in 0 .. n /\ k + 1 \in 1 .. n /\ k + 1 \in 0 .. n
        /\ k + 1 # 0 /\ (k + 1) - 1 = k
    BY <1>1
  <2>2. f[k + 1] = IF k + 1 \in chosen THEN Append(f[k], list[k + 1]) ELSE f[k]
    BY <1>3, <2>1 DEF Turn
  <2>3. /\ UpTo(chosen, k) \subseteq 1 .. k
        /\ k + 1 \in chosen =>
             UpTo(chosen, k + 1) = UpTo(chosen, k) \cup {k + 1}
        /\ k + 1 \notin chosen => UpTo(chosen, k + 1) = UpTo(chosen, k)
    BY <2>1, <1>4 DEF GrowsAt
  <2>4. CASE k + 1 \notin chosen
    <3>1. f[k + 1] = f[k] /\ UpTo(chosen, k + 1) = UpTo(chosen, k)
      BY <2>2, <2>3, <2>4
    <3> QED BY <1>6, <3>1
  <2>5. CASE k + 1 \in chosen
    <3>1. /\ f[k + 1] = Append(f[k], list[k + 1])
          /\ UpTo(chosen, k + 1) = UpTo(chosen, k) \cup {k + 1}
      BY <2>2, <2>3, <2>5
    <3>2. PICK pos : Locates(pos, f[k], list, UpTo(chosen, k))
      BY <1>6
    <3> DEFINE i == k + 1
    <3>3. /\ f[k] \in Seq(S) /\ i \in 1 .. Len(list)
          /\ UpTo(chosen, k) \subseteq 1 .. (i - 1)
      BY <1>6, <2>1, <2>3
    <3> HIDE DEF i
    <3>4. /\ Append(f[k], list[i]) \in Seq(S)
          /\ \E more : Locates(more, Append(f[k], list[i]), list,
                               UpTo(chosen, k) \cup {i})
      BY <3>2, <3>3, LocatesMore
    <3> QED BY <3>1, <3>4 DEF i
  <2> QED BY <2>4, <2>5
<1> DEFINE T == {k \in 0 .. n : Done(f[k], k)}
<1>7. n \in T
  <2>1. 0 \in T
    BY <1>1, <1>5
  <2>2. ASSUME NEW k \in 0 .. (n - 1), k \in T
        PROVE  k + 1 \in T
    <3>1. k + 1 \in 0 .. n
      BY <1>1
    <3>2. Done(f[k + 1], k + 1)
      BY <1>6, <2>2
    <3> QED BY <3>1, <3>2
  <2> HIDE DEF T, n
  <2>3. \A k \in 0 .. n : k \in T
    BY <1>1, <2>1, <2>2, UpToInduction
  <2> QED BY <1>1, <2>3
<1>8. UpTo(chosen, n) = chosen
  BY <1>1, UpToMore
<1>9. Done(f[n], n)
  BY <1>7
<1> QED BY <1>2, <1>8, <1>9

(***************************************************************************)
(* A list of some elements of U without x is a list of the others; if the  *)
(* list names nobody twice, it gets shorter by one at most, and it still   *)
(* names nobody twice.                                                     *)
(***************************************************************************)
Distinct(list) == \A j, k \in DOMAIN list : list[j] = list[k] => j = k

LEMMA WithoutType ==
  ASSUME NEW U, NEW list \in Seq(U), NEW x
  PROVE  /\ Without(list, x) \in Seq(U)
         /\ Elements(Without(list, x)) = Elements(list) \ {x}
         /\ Distinct(list) => Distinct(Without(list, x))
<1> DEFINE chosen == {k \in DOMAIN list : list[k] # x}
           r == Selected(list, chosen)
<1>1. DOMAIN list = 1 .. Len(list) /\ chosen \subseteq 1 .. Len(list)
  OBVIOUS
<1>2. r \in Seq(U) /\ \E pos : Locates(pos, r, list, chosen)
  BY <1>1, SelectedLocated
<1>3. PICK pos : Locates(pos, r, list, chosen)
  BY <1>2
<1>4. Without(list, x) = r
  BY DEF Without
<1> HIDE DEF r
<1>5. Len(r) \in Nat /\ DOMAIN r = 1 .. Len(r)
  BY <1>2
<1>6. Elements(r) = Elements(list) \ {x}
  <2>1. \A i \in DOMAIN r : pos[i] \in chosen /\ r[i] = list[pos[i]]
    BY <1>3, <1>5 DEF Locates
  <2>2. \A k \in chosen : \E i \in DOMAIN r : pos[i] = k
    BY <1>3, <1>5 DEF Locates
  <2>3. \A k \in DOMAIN list : k \in chosen <=> list[k] # x
    OBVIOUS
  <2>4. chosen \subseteq DOMAIN list
    OBVIOUS
  <2> HIDE DEF chosen
  <2>5. ASSUME NEW e \in Elements(r)
        PROVE  e \in Elements(list) \ {x}
    BY <2>1, <2>3, <2>4 DEF Elements
  <2>6. ASSUME NEW e \in Elements(list) \ {x}
        PROVE  e \in Elements(r)
    <3>1. PICK k \in DOMAIN list : e = list[k]
      BY DEF Elements
    <3>2. PICK i \in DOMAIN r : pos[i] = k
      BY <2>2, <2>3, <3>1
    <3> QED BY <2>1, <3>1, <3>2 DEF Elements
  <2> QED BY <2>5, <2>6
<1>7. ASSUME Distinct(list), NEW i \in DOMAIN r, NEW j \in DOMAIN r, r[i] = r[j]
      PROVE  i = j
  <2>1. pos[i] = pos[j]
    BY <1>1, <1>3, <1>5, <1>7 DEF Locates, Distinct
  <2>2. pos[i] \in Nat /\ pos[j] \in Nat /\ i \in Nat /\ j \in Nat
    BY <1>1, <1>3, <1>5 DEF Locates
  <2>3. ~(i < j) /\ ~(j < i)
    BY <1>3, <1>5, <2>1, <2>2 DEF Locates
  <2> QED BY <2>2, <2>3
<1> QED BY <1>2, <1>4, <1>6, <1>7 DEF Distinct

LEMMA DistinctLength ==
  ASSUME NEW U, NEW list \in Seq(U), Distinct(list)
  PROVE  /\ IsFiniteSet(Elements(list))
         /\ Cardinality(Elements(list)) = Len(list)
<1>1. Len(list) \in Nat /\ DOMAIN list = 1 .. Len(list)
  OBVIOUS
<1>2. list \in Bijection(1 .. Len(list), Elements(list))
  BY <1>1 DEF Bijection, Injection, Surjection, IsInjective, Distinct, Elements
<1> DEFINE n == Len(list)
           I == 1 .. n
<1>3. IsFiniteSet(I) /\ Cardinality(I) = n
  <2>1. n \in Nat
    BY <1>1
  <2> HIDE DEF n
  <2>2. 1 \in Int /\ n \in Int /\ (IF 1 > n THEN 0 ELSE n - 1 + 1) = n
    BY <2>1
  <2> QED BY <2>2, FS_Interval
<1>4. list \in Bijection(I, Elements(list))
  BY <1>2
<1> HIDE DEF I
<1> QED BY <1>3, <1>4, FS_Bijection DEF ExistsBijection, n

LEMMA WithoutLength ==
  ASSUME NEW U, NEW list \in Seq(U), Distinct(list), NEW x \in Elements(list)
  PROVE  Len(Without(list, x)) = Len(list) - 1
<1>1. /\ Without(list, x) \in Seq(U) /\ Distinct(Without(list, x))
      /\ Elements(Without(list, x)) = Elements(list) \ {x}
  BY WithoutType
<1>2. IsFiniteSet(Elements(list)) /\ Cardinality(Elements(list)) = Len(list)
  BY DistinctLength
<1>3. Cardinality(Elements(Without(list, x))) = Len(Without(list, x))
  BY <1>1, DistinctLength
<1>4. Cardinality(Elements(list) \ {x}) = Cardinality(Elements(list)) - 1
  BY <1>2, FS_RemoveElement
<1> QED BY <1>1, <1>2, <1>3, <1>4

(***************************************************************************)
(* What an appended element does to a vector.                              *)
(***************************************************************************)
LEMMA AppendElements ==
  ASSUME NEW U, NEW list \in Seq(U), NEW x \in U
  PROVE  /\ Append(list, x) \in Seq(U)
         /\ Len(Append(list, x)) = Len(list) + 1
         /\ Elements(Append(list, x)) = Elements(list) \cup {x}
         /\ (Distinct(list) /\ x \notin Elements(list))
              => Distinct(Append(list, x))
<1> DEFINE l == Append(list, x)
<1>1. /\ l \in Seq(U) /\ Len(list) \in Nat /\ Len(l) = Len(list) + 1
      /\ DOMAIN list = 1 .. Len(list) /\ DOMAIN l = 1 .. (Len(list) + 1)
      /\ \A k \in 1 .. Len(list) : l[k] = list[k]
      /\ l[Len(list) + 1] = x
  OBVIOUS
<1> HIDE DEF l
<1>2. DOMAIN l = (DOMAIN list) \cup {Len(list) + 1}
  BY <1>1
<1>3. Elements(l) = Elements(list) \cup {x}
  <2>1. \A k \in DOMAIN list : k \in DOMAIN l /\ l[k] = list[k]
    BY <1>1, <1>2
  <2>2. l[Len(list) + 1] = x /\ Len(list) + 1 \in DOMAIN l
    BY <1>1, <1>2
  <2> QED BY <1>2, <2>1, <2>2 DEF Elements
<1>4. (Distinct(list) /\ x \notin Elements(list)) => Distinct(l)
  BY <1>1, <1>2 DEF Distinct, Elements
<1> QED BY <1>1, <1>3, <1>4 DEF l

-----------------------------------------------------------------------------
(***************************************************************************)
(* An index stays exact when a greater id is pushed onto it, when a list   *)
(* of greater ids is appended, and when some of its elements are selected. *)
(***************************************************************************)
LEMMA EnumeratesJoined ==
  ASSUME NEW l \in Seq(Nat), NEW m \in Seq(Nat), NEW A, NEW B,
         Enumerates(l, A), Enumerates(m, B),
         \A a \in A, b \in B : a < b
  PROVE  /\ l \o m \in Seq(Nat)
         /\ Enumerates(l \o m, A \cup B)
<1> DEFINE r == l \o m
<1>1. /\ r \in Seq(Nat) /\ Len(l) \in Nat /\ Len(m) \in Nat
      /\ Len(r) = Len(l) + Len(m) /\ DOMAIN r = 1 .. Len(r)
      /\ DOMAIN l = 1 .. Len(l) /\ DOMAIN m = 1 .. Len(m)
      /\ \A k \in 1 .. Len(l) : r[k] = l[k]
      /\ \A k \in 1 .. Len(m) : r[Len(l) + k] = m[k]
  OBVIOUS
<1>2. /\ \A k \in DOMAIN l : l[k] \in A
      /\ \A k \in DOMAIN m : m[k] \in B
      /\ \A a \in A : \E k \in DOMAIN l : l[k] = a
      /\ \A b \in B : \E k \in DOMAIN m : m[k] = b
  BY DEF Enumerates, Elements
<1> HIDE DEF r
<1>3. ASSUME NEW k \in DOMAIN r
      PROVE  \/ k \in DOMAIN l /\ r[k] = l[k]
             \/ k - Len(l) \in DOMAIN m /\ r[k] = m[k - Len(l)] /\ k > Len(l)
  <2>1. CASE k <= Len(l)
    BY <1>1, <2>1
  <2>2. CASE k > Len(l)
    <3>1. k - Len(l) \in 1 .. Len(m) /\ Len(l) + (k - Len(l)) = k
      BY <1>1, <2>2
    <3>2. r[Len(l) + (k - Len(l))] = m[k - Len(l)]
      BY <1>1, <3>1
    <3> QED BY <1>1, <2>2, <3>1, <3>2
  <2> QED BY <1>1, <2>1, <2>2
<1>4. Elements(r) = A \cup B
  <2>1. \A k \in DOMAIN r : r[k] \in A \cup B
    BY <1>2, <1>3
  <2>2. \A k \in DOMAIN l : k \in DOMAIN r /\ r[k] = l[k]
    BY <1>1
  <2>3. \A k \in DOMAIN m : Len(l) + k \in DOMAIN r /\ r[Len(l) + k] = m[k]
    BY <1>1
  <2>4. \A x \in A \cup B : \E k \in DOMAIN r : r[k] = x
    BY <1>2, <2>2, <2>3
  <2> QED BY <2>1, <2>4 DEF Elements
<1>5. ASSUME NEW j \in DOMAIN r, NEW k \in DOMAIN r, j < k
      PROVE  r[j] < r[k]
  <2>1. j \in Nat /\ k \in Nat
    BY <1>1
  <2>2. CASE k \in DOMAIN l /\ r[k] = l[k]
    <3>1. j \in DOMAIN l /\ r[j] = l[j]
      BY <1>1, <1>5, <2>1, <2>2
    <3> QED BY <1>5, <2>2, <3>1 DEF Enumerates
  <2>3. CASE k - Len(l) \in DOMAIN m /\ r[k] = m[k - Len(l)] /\ k > Len(l)
    <3>1. CASE j \in DOMAIN l /\ r[j] = l[j]
      BY <1>2, <2>3, <3>1
    <3>2. CASE j - Len(l) \in DOMAIN m /\ r[j] = m[j - Len(l)] /\ j > Len(l)
      <4>1. j - Len(l) < k - Len(l)
        BY <1>1, <1>5, <2>1
      <4> QED BY <2>3, <3>2, <4>1 DEF Enumerates
    <3> QED BY <1>3, <3>1, <3>2
  <2> QED BY <1>3, <2>2, <2>3
<1> QED BY <1>1, <1>4, <1>5 DEF Enumerates, r

LEMMA EnumeratesPushed ==
  ASSUME NEW l \in Seq(Nat), NEW ids, NEW n \in Nat,
         Enumerates(l, ids), \A id \in ids : id < n
  PROVE  /\ Append(l, n) \in Seq(Nat)
         /\ Enumerates(Append(l, n), ids \cup {n})
<1> DEFINE m == <<n>>
           B == {n}
<1>1. m \in Seq(Nat) /\ Enumerates(m, B)
  BY DEF Enumerates, Elements
<1>2. Append(l, n) = l \o m /\ ids \cup {n} = ids \cup B
  OBVIOUS
<1>3. \A a \in ids, b \in B : a < b
  OBVIOUS
<1> HIDE DEF m, B
<1>4. l \o m \in Seq(Nat) /\ Enumerates(l \o m, ids \cup B)
  BY <1>1, <1>3, EnumeratesJoined
<1> QED BY <1>2, <1>4

LEMMA EnumeratesSelected ==
  ASSUME NEW l \in Seq(Nat), NEW ids, Enumerates(l, ids),
         NEW chosen, chosen \subseteq 1 .. Len(l)
  PROVE  /\ Selected(l, chosen) \in Seq(Nat)
         /\ Enumerates(Selected(l, chosen), {l[k] : k \in chosen})
<1> DEFINE r == Selected(l, chosen)
<1>1. r \in Seq(Nat) /\ \E pos : Locates(pos, r, l, chosen)
  BY SelectedLocated
<1>2. PICK pos : Locates(pos, r, l, chosen)
  BY <1>1
<1> HIDE DEF r
<1>3. DOMAIN r = 1 .. Len(r) /\ DOMAIN l = 1 .. Len(l) /\ Len(r) \in Nat
  BY <1>1
<1>4. /\ \A i \in DOMAIN r : pos[i] \in chosen /\ r[i] = l[pos[i]]
      /\ \A i, j \in DOMAIN r : i < j => pos[i] < pos[j]
      /\ \A k \in chosen : \E i \in DOMAIN r : pos[i] = k
  BY <1>2, <1>3 DEF Locates
<1>5. Elements(r) = {l[k] : k \in chosen}
  <2>1. ASSUME NEW x \in Elements(r)
        PROVE  x \in {l[k] : k \in chosen}
    BY <1>4 DEF Elements
  <2>2. ASSUME NEW k \in chosen
        PROVE  l[k] \in Elements(r)
    BY <1>4 DEF Elements
  <2> QED BY <2>1, <2>2
<1>6. \A i, j \in DOMAIN r : i < j => r[i] < r[j]
  <2>1. \A k \in chosen : k \in DOMAIN l
    BY <1>3
  <2> QED BY <1>4, <2>1 DEF Enumerates
<1> QED BY <1>1, <1>5, <1>6 DEF r, Enumerates
=============================================================================
