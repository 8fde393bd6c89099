--------------------------- MODULE RayMath_proofs ---------------------------
(* Facts about the rounding of WadRayMath that the pool relies on, and     *)
(* about the sums of its ledgers.                                          *)
EXTENDS RayMath, Functions, FiniteSetTheorems, WellFoundedInduction, TLAPS

(* Integer division by a positive divisor, as the inequalities that pin   *)
(* the quotient down; the form in which the proofs below use it.           *)
LEMMA QuotientBounds ==
  ASSUME NEW n \in Int, NEW d \in Nat \ {0}
  PROVE  /\ n \div d \in Int
         /\ d * (n \div d) <= n
         /\ n < d * (n \div d) + d
  OBVIOUS

(* The quotient is the only integer within those bounds.                   *)
LEMMA QuotientUnique ==
  ASSUME NEW n \in Int, NEW d \in Nat \ {0}, NEW q \in Int,
         d * q <= n, n < d * q + d
  PROVE  n \div d = q
  OBVIOUS

(* RAY is even: halfRAY (WadRayMath.sol:16) is exactly one half of it.     *)
LEMMA HalfRay == halfRAY \in Nat \ {0} /\ RAY = 2 * halfRAY
  BY RayAssumption DEF halfRAY

(* A product of naturals is a natural: stated once, since the solver is    *)
(* slow with products of unknowns.                                         *)
LEMMA ProductNat ==
  ASSUME NEW a \in Nat, NEW b \in Nat
  PROVE  a * b \in Nat
  OBVIOUS

(* rayMul and rayDiv of naturals are naturals.                             *)
LEMMA RayNat ==
  ASSUME NEW a \in Nat, NEW b \in Nat
  PROVE  rayMul(a, b) \in Nat /\ (b > 0 => rayDiv(a, b) \in Nat)
<1>1. rayMul(a, b) \in Nat
  <2> DEFINE p == a * b
  <2>1. p \in Nat
    BY ProductNat
  <2>2. (p + halfRAY) \div RAY \in Nat
    <3> HIDE DEF p
    <3> QED BY <2>1, HalfRay, RayAssumption
  <2> QED BY <2>2 DEF rayMul
<1>2. ASSUME b > 0 PROVE rayDiv(a, b) \in Nat
  <2> DEFINE p == a * RAY
  <2>1. p \in Nat
    BY ProductNat, RayAssumption
  <2>2. (p + (b \div 2)) \div b \in Nat
    <3> HIDE DEF p
    <3> QED BY <2>1, <1>2
  <2> QED BY <2>2 DEF rayDiv
<1> QED BY <1>1, <1>2

(* A scaled balance converted to an amount at an index of at least one ray *)
(* and back is the scaled balance again.  Hence burning the whole balance  *)
(* a token reports (AToken.balanceOf then AToken.burn, the same for the    *)
(* variable debt) burns exactly the holder's scaled balance: no revert on  *)
(* a scaled balance too small and no dust left.                            *)
THEOREM RoundTrip ==
  ASSUME NEW s \in Nat, NEW i \in Nat, i >= RAY
  PROVE  rayDiv(rayMul(s, i), i) = s
<1> DEFINE p == s * i
           b == rayMul(s, i)
<1>1. p \in Nat /\ b \in Nat /\ b * RAY \in Nat /\ p = i * s
  BY ProductNat, RayNat, RayAssumption
<1>2. RAY * b <= p + halfRAY /\ p + halfRAY < RAY * b + RAY
  <2>1. b = (p + halfRAY) \div RAY
    BY DEF rayMul
  <2> DEFINE n == p + halfRAY
  <2>2. n \in Int
    BY <1>1, HalfRay
  <2> HIDE DEF p, b, n
  <2>3. RAY * (n \div RAY) <= n /\ n < RAY * (n \div RAY) + RAY
    BY <2>2, RayAssumption, QuotientBounds
  <2> QED BY <2>1, <2>3 DEF n
<1>3. RAY * b = b * RAY
  BY <1>1, RayAssumption
<1>4. p <= b * RAY + (i \div 2)
  <2> DEFINE c == b * RAY
  <2> HIDE DEF p, b, c
  <2>1. c \in Nat
    BY <1>1 DEF c
  <2>2. p + halfRAY < c + RAY
    BY <1>2, <1>3 DEF c
  <2> QED BY <1>1, <2>1, <2>2, HalfRay DEF c
<1>5. b * RAY + (i \div 2) < p + i
  <2>1. CASE i = RAY
    <3>1. b = s
      <4> HIDE DEF b
      <4>1. RAY * s <= p + halfRAY /\ p + halfRAY < RAY * s + RAY
        <5>1. p = RAY * s
          BY <2>1, <1>1
        <5> HIDE DEF p
        <5> QED BY <1>1, <5>1, HalfRay
      <4>2. b = (p + halfRAY) \div RAY
        BY DEF b, rayMul
      <4> HIDE DEF p
      <4> QED BY <4>1, <4>2, <1>1, HalfRay, RayAssumption, QuotientUnique
    <3>2. b * RAY = p
      BY <3>1, <2>1
    <3> HIDE DEF p, b
    <3> QED BY <3>2, <2>1, <1>1, RayAssumption
  <2>2. CASE i > RAY
    <3> DEFINE c == b * RAY
    <3> HIDE DEF p, b, c
    <3>1. c \in Nat /\ c <= p + halfRAY
      BY <1>1, <1>2, <1>3 DEF c
    <3> QED BY <1>1, <3>1, <2>2, HalfRay DEF c
  <2> QED BY <2>1, <2>2, RayAssumption
<1>6. (b * RAY + (i \div 2)) \div i = s
  <2> DEFINE n == b * RAY + (i \div 2)
  <2>1. n \in Int /\ i * s <= n /\ n < i * s + i
    BY <1>1, <1>4, <1>5
  <2>2. i \in Nat \ {0}
    BY RayAssumption
  <2> HIDE DEF n
  <2>3. n \div i = s
    BY <2>1, <2>2, QuotientUnique
  <2> QED BY <2>3 DEF n
<1> QED BY <1>6 DEF rayDiv

(* A positive scaled balance is worth at least one unit at an index of at  *)
(* least one ray: a debt token never reports zero for a debt it records.   *)
LEMMA ScaledPositive ==
  ASSUME NEW s \in Nat, NEW i \in Nat, i >= RAY, s > 0
  PROVE  rayMul(s, i) > 0
<1>1. rayMul(s, i) # 0
  <2> SUFFICES ASSUME rayMul(s, i) = 0 PROVE FALSE
    OBVIOUS
  <2>1. rayDiv(0, i) = s
    BY RoundTrip
  <2>2. (0 * RAY + (i \div 2)) \div i = 0
    BY RayAssumption
  <2> QED BY <2>1, <2>2 DEF rayDiv
<1> QED BY <1>1, RayNat

(* percentMul of naturals is a natural, and percentDiv by a positive one.  *)
LEMMA PercentNat ==
  ASSUME NEW a \in Nat, NEW p \in Nat
  PROVE  percentMul(a, p) \in Nat /\ (p > 0 => percentDiv(a, p) \in Nat)
<1> DEFINE m == a * p
           n == a * PERCENTAGE_FACTOR
<1>1. m \in Nat /\ n \in Nat
  BY ProductNat, PercentageAssumption
<1>2. (m + (PERCENTAGE_FACTOR \div 2)) \div PERCENTAGE_FACTOR \in Nat
  <2> HIDE DEF m
  <2> QED BY <1>1, PercentageAssumption
<1>3. ASSUME p > 0 PROVE (n + (p \div 2)) \div p \in Nat
  <2> HIDE DEF n
  <2> QED BY <1>1, <1>3
<1> QED BY <1>2, <1>3 DEF percentMul, percentDiv

(* Integer division is monotone in the dividend.                           *)
LEMMA DivMonotone ==
  ASSUME NEW m \in Nat, NEW n \in Nat, NEW d \in Nat \ {0}, m <= n
  PROVE  m \div d <= n \div d
<1> DEFINE x == m \div d
           y == n \div d
<1>1. x \in Int /\ y \in Int /\ d * x <= m /\ n < d * y + d
  BY QuotientBounds
<1> HIDE DEF x, y
<1>2. d * x < d * (y + 1)
  BY <1>1
<1>3. x <= y
  BY <1>1, <1>2
<1> QED BY <1>3 DEF x, y

(* A product with a natural is monotone.                                   *)
LEMMA ProductMonotone ==
  ASSUME NEW a \in Nat, NEW b \in Nat, NEW c \in Nat, b <= c
  PROVE  a * b <= a * c /\ a * b \in Nat /\ a * c \in Nat
  OBVIOUS

(* rayMul is monotone in its second argument.                              *)
LEMMA RayMulMonotone ==
  ASSUME NEW a \in Nat, NEW b \in Nat, NEW c \in Nat, b <= c
  PROVE  rayMul(a, b) <= rayMul(a, c)
<1> DEFINE m == a * b
           n == a * c
<1>1. m \in Nat /\ n \in Nat /\ m <= n
  BY ProductMonotone
<1>2. (m + halfRAY) \div RAY <= (n + halfRAY) \div RAY
  <2> HIDE DEF m, n
  <2> QED BY <1>1, HalfRay, RayAssumption, DivMonotone
<1> QED BY <1>2 DEF rayMul

(* rayMul is monotone in both arguments.                                   *)
LEMMA MulMonotone ==
  ASSUME NEW a \in Nat, NEW b \in Nat, NEW i \in Nat, NEW j \in Nat, a <= b, i <= j
  PROVE  rayMul(a, i) \in Nat /\ rayMul(b, j) \in Nat /\ rayMul(a, i) <= rayMul(b, j)
<1>1. rayMul(a, i) = rayMul(i, a) /\ rayMul(b, i) = rayMul(i, b)
  <2>1. a * i = i * a /\ b * i = i * b
    OBVIOUS
  <2> QED BY <2>1 DEF rayMul
<1>2. rayMul(i, a) <= rayMul(i, b) /\ rayMul(b, i) <= rayMul(b, j)
  BY RayMulMonotone
<1>3. rayMul(a, i) \in Nat /\ rayMul(b, i) \in Nat /\ rayMul(b, j) \in Nat
  BY RayNat
<1> QED BY <1>1, <1>2, <1>3

(* Nothing is worth nothing at any index.                                  *)
LEMMA MulZero == ASSUME NEW i \in Nat PROVE rayMul(0, i) = 0
<1>1. 0 * i + halfRAY = halfRAY /\ halfRAY \in Nat /\ halfRAY < RAY
  BY HalfRay
<1>2. halfRAY \div RAY = 0
  BY <1>1, RayAssumption
<1> QED BY <1>1, <1>2 DEF rayMul

(* A division that rounds half up and stays within c.                      *)
LEMMA PercentDivCovers ==
  ASSUME NEW x \in Nat, NEW l \in Nat \ {0}, NEW c \in Nat, percentDiv(x, l) <= c
  PROVE  PERCENTAGE_FACTOR * x <= c * l + l
<1> DEFINE y == x * PERCENTAGE_FACTOR
           n == y + (l \div 2)
           q == n \div l
           z == PERCENTAGE_FACTOR * x
<1>1. y \in Nat /\ l \div 2 \in Nat /\ z = y
  BY ProductNat, PercentageAssumption
<1>2. q <= c
  BY DEF percentDiv
<1> HIDE DEF y, z
<1>3. q \in Int /\ n < l * q + l /\ l * q \in Int
  <2>1. n \in Int
    BY <1>1
  <2> HIDE DEF n
  <2> QED BY <2>1, QuotientBounds
<1>4. l * q <= c * l /\ c * l \in Nat
  <2> HIDE DEF n
  <2>1. q \in Nat
    <3>1. n \in Nat
      BY <1>1 DEF n
    <3> QED BY <3>1
  <2> HIDE DEF q
  <2>2. l * q <= l * c /\ l * c \in Nat /\ l * c = c * l
    BY <1>2, <2>1, ProductMonotone
  <2> QED BY <2>2
<1> DEFINE v == l * q
           w == c * l
<1>5. v <= w /\ v \in Int /\ w \in Nat /\ n < v + l /\ n = y + (l \div 2)
  BY <1>3, <1>4
<1> HIDE DEF n, v, w
<1>6. y <= w + l
  BY <1>1, <1>5
<1> QED BY <1>1, <1>6 DEF w, z

(* Multiplying by at least one ray does not decrease: interest and         *)
(* flash-loan premiums never lower what they are applied to.               *)
LEMMA RayMulGrows ==
  ASSUME NEW a \in Nat, NEW b \in Nat, b >= RAY
  PROVE  rayMul(a, b) >= a /\ rayMul(b, a) >= a
<1> DEFINE m == a * b
<1>1. m \in Nat /\ a * RAY \in Nat /\ a * RAY <= m
  BY ProductMonotone, RayAssumption
<1>2. b * a = m
  OBVIOUS
<1>3. (m + halfRAY) \div RAY >= a
  <2> DEFINE n == m + halfRAY
             q == n \div RAY
  <2>1. n \in Nat /\ n >= a * RAY
    <3> HIDE DEF m
    <3> QED BY <1>1, HalfRay, RayAssumption
  <2> HIDE DEF m, n
  <2>2. q \in Int /\ n < RAY * q + RAY
    BY <2>1, RayAssumption, QuotientBounds
  <2> HIDE DEF q
  <2>3. RAY * a < RAY * (q + 1)
    BY <2>1, <2>2, RayAssumption
  <2>4. a < q + 1
    BY <2>2, <2>3, RayAssumption
  <2> QED BY <2>2, <2>4 DEF q, n
<1> QED BY <1>2, <1>3 DEF rayMul

-----------------------------------------------------------------------------
(* Induction: the library's theorem on minimal elements of a set stands in  *)
(* for induction over the naturals, on the set of those with a property.    *)
Below == {ss \in Nat \X Nat : ss[1] < ss[2]}

LEMMA BelowWellFounded == IsWellFoundedOn(Below, Nat)
  BY NatLessThanWellFounded DEF OpToRel, Below

(* A set that contains zero and the successors of its members contains all  *)
(* naturals.                                                                *)
LEMMA SetInduction ==
  ASSUME NEW S, 0 \in S, \A n \in Nat : n \in S => n + 1 \in S
  PROVE  Nat \subseteq S
<1> SUFFICES ASSUME NEW x \in Nat, x \notin S PROVE FALSE
  OBVIOUS
<1> DEFINE T == Nat \ S
<1>1. PICK m \in T : \A k \in T : ~(<<k, m>> \in Below)
  <2>1. T \subseteq Nat /\ T # {}
    OBVIOUS
  <2> HIDE DEF T
  <2> QED BY <2>1, BelowWellFounded, WFMin
<1>2. m \in Nat /\ m # 0 /\ m - 1 \in Nat
  OBVIOUS
<1>3. <<m - 1, m>> \in Below
  BY <1>2 DEF Below
<1>4. m - 1 \in S
  BY <1>1, <1>2, <1>3
<1>5. (m - 1) + 1 = m
  BY <1>2
<1> QED BY <1>1, <1>2, <1>4, <1>5

-----------------------------------------------------------------------------
(* SumFunction, the total of a ledger over all accounts.                    *)

Pick(s) == CHOOSE x \in s : TRUE

(* The sums of f over the subsets of its domain, element by element.        *)
IsSums(g, f) ==
  g = [s \in SUBSET DOMAIN f |-> IF s = {} THEN 0 ELSE f[Pick(s)] + g[s \ {Pick(s)}]]

LEMMA SumDefined ==
  ASSUME NEW f
  PROVE SumFunction(f) = (CHOOSE g : IsSums(g, f))[DOMAIN f]
  BY DEF SumFunction, SumFunctionOnSet, FoldFunctionOnSet, MapThenFoldSet, Pick, IsSums

LEMMA PickSmaller ==
  ASSUME NEW D, IsFiniteSet(D), NEW n \in Nat, NEW s \in SUBSET D
  PROVE  /\ Cardinality(s) \in Nat /\ (s # {} => Pick(s) \in s)
         /\ s # {} /\ Cardinality(s) <= n + 1 =>
               s \ {Pick(s)} \in SUBSET D /\ Cardinality(s \ {Pick(s)}) <= n
         /\ s # {} => Cardinality(s) # 0
<1>1. IsFiniteSet(s) /\ Cardinality(s) \in Nat
  BY FS_Subset, FS_CardinalityType
<1>2. s # {} => Pick(s) \in s
  BY DEF Pick
<1>3. s # {} => Cardinality(s \ {Pick(s)}) = Cardinality(s) - 1 /\ Cardinality(s) # 0
  BY <1>1, <1>2, FS_RemoveElement, FS_EmptySet
<1> QED BY <1>1, <1>2, <1>3

(* Sums exist, of integers over a finite set.                               *)
LEMMA SumsExist ==
  ASSUME NEW D, IsFiniteSet(D), NEW f \in [D -> Int]
  PROVE  \E g \in [SUBSET D -> Int] : IsSums(g, f)
<1> DEFINE Upto(n) == {s \in SUBSET D : Cardinality(s) <= n}
           Ok(g, n) == /\ g \in [Upto(n) -> Int]
                       /\ \A s \in Upto(n) :
                            g[s] = IF s = {} THEN 0 ELSE f[Pick(s)] + g[s \ {Pick(s)}]
           S == {n \in Nat : \E g : Ok(g, n)}
<1>1. 0 \in S
  <2> DEFINE g == [s \in Upto(0) |-> 0]
  <2>1. \A s \in Upto(0) : s = {}
    <3> TAKE s \in Upto(0)
    <3>1. IsFiniteSet(s) /\ Cardinality(s) \in Nat /\ Cardinality(s) <= 0
      BY FS_Subset, FS_CardinalityType
    <3> QED BY <3>1, FS_EmptySet
  <2>2. Ok(g, 0)
    BY <2>1
  <2> QED BY <2>2
<1>2. ASSUME NEW n \in Nat, n \in S PROVE n + 1 \in S
  <2>1. PICK g : Ok(g, n)
    BY <1>2
  <2> DEFINE h == [s \in Upto(n + 1) |-> IF s = {} THEN 0 ELSE f[Pick(s)] + g[s \ {Pick(s)}]]
  <2>2. ASSUME NEW s \in Upto(n + 1), s # {}
        PROVE  s \ {Pick(s)} \in Upto(n) /\ f[Pick(s)] \in Int /\ g[s \ {Pick(s)}] \in Int
    <3>1. s \in SUBSET D /\ Cardinality(s) <= n + 1
      OBVIOUS
    <3>2. s \ {Pick(s)} \in Upto(n) /\ Pick(s) \in D
      BY <2>2, <3>1, PickSmaller
    <3> QED BY <2>1, <3>2
  <2>3. h \in [Upto(n + 1) -> Int]
    <3>1. \A s \in Upto(n + 1) :
             (IF s = {} THEN 0 ELSE f[Pick(s)] + g[s \ {Pick(s)}]) \in Int
      BY <2>2
    <3> QED BY <3>1
  <2>4. ASSUME NEW s \in Upto(n) PROVE h[s] = g[s]
    <3>1. s \in Upto(n + 1)
      <4>1. Cardinality(s) \in Nat /\ Cardinality(s) <= n
        BY PickSmaller
      <4> QED BY <4>1
    <3> QED BY <2>1, <3>1
  <2>5. Ok(h, n + 1)
    BY <2>2, <2>3, <2>4
  <2> HIDE DEF h, Ok
  <2>6. (\E g0 : Ok(g0, n + 1)) /\ n + 1 \in Nat
    BY <2>5
  <2> QED BY <2>6
<1>3. Nat \subseteq S
  <2> HIDE DEF S
  <2> QED BY <1>1, <1>2, SetInduction
<1>4. Cardinality(D) \in Nat /\ Upto(Cardinality(D)) = SUBSET D
  BY FS_CardinalityType, FS_Subset
<1>5. PICK g : Ok(g, Cardinality(D))
  BY <1>3, <1>4
<1>6. IsSums(g, f)
  BY <1>4, <1>5 DEF IsSums
<1> QED BY <1>4, <1>5, <1>6

Sums(f) == CHOOSE g : IsSums(g, f)

LEMMA SumsFacts ==
  ASSUME NEW D, IsFiniteSet(D), NEW f \in [D -> Int]
  PROVE  /\ SumFunction(f) = Sums(f)[D]
         /\ Sums(f)[{}] = 0
         /\ \A s \in SUBSET D : s # {} =>
               Sums(f)[s] = f[Pick(s)] + Sums(f)[s \ {Pick(s)}]
<1>1. IsSums(Sums(f), f)
  BY SumsExist DEF Sums
<1>2. \A s \in SUBSET D : Sums(f)[s] = IF s = {} THEN 0
                             ELSE f[Pick(s)] + Sums(f)[s \ {Pick(s)}]
  BY <1>1 DEF IsSums
<1>3. SumFunction(f) = Sums(f)[D]
  BY SumDefined DEF Sums
<1> QED BY <1>2, <1>3

(* A statement about the sums over all subsets, by induction over their size. *)
LEMMA SubsetInduction ==
  ASSUME NEW D, IsFiniteSet(D), NEW T, {} \in T,
         \A s \in SUBSET D : s # {} /\ s \ {Pick(s)} \in T => s \in T
  PROVE  SUBSET D \subseteq T
<1> DEFINE S == {n \in Nat : \A s \in SUBSET D : Cardinality(s) <= n => s \in T}
<1>1. 0 \in S
  <2>1. ASSUME NEW s \in SUBSET D, Cardinality(s) <= 0 PROVE s = {}
    <3>1. IsFiniteSet(s) /\ Cardinality(s) \in Nat
      BY FS_Subset, FS_CardinalityType
    <3> QED BY <2>1, <3>1, FS_EmptySet
  <2> QED BY <2>1
<1>2. ASSUME NEW n \in Nat, n \in S PROVE n + 1 \in S
  <2>1. ASSUME NEW s \in SUBSET D, Cardinality(s) <= n + 1 PROVE s \in T
    <3>1. s # {} => s \ {Pick(s)} \in SUBSET D /\ Cardinality(s \ {Pick(s)}) <= n
      BY <2>1, PickSmaller
    <3> QED BY <1>2, <3>1
  <2> QED BY <2>1
<1>3. Nat \subseteq S
  <2> HIDE DEF S
  <2> QED BY <1>1, <1>2, SetInduction
<1>4. ASSUME NEW s \in SUBSET D PROVE s \in T
  <2>1. Cardinality(s) \in Nat
    BY FS_Subset, FS_CardinalityType
  <2> QED BY <1>3, <2>1
<1> QED BY <1>4

(* A sum of integers is an integer, of naturals a natural.                  *)
LEMMA SumType ==
  ASSUME NEW D, IsFiniteSet(D)
  PROVE  /\ \A f \in [D -> Int] : SumFunction(f) \in Int
         /\ \A f \in [D -> Nat] : SumFunction(f) \in Nat
<1>1. ASSUME NEW R, R = Int \/ R = Nat, NEW f \in [D -> R] PROVE SumFunction(f) \in R
  <2> DEFINE T == {s \in SUBSET D : Sums(f)[s] \in R}
  <2>1. f \in [D -> Int]
    BY <1>1
  <2>2. {} \in T
    BY <1>1, <2>1, SumsFacts
  <2>3. ASSUME NEW s \in SUBSET D, s # {}, s \ {Pick(s)} \in T PROVE s \in T
    <3>1. Pick(s) \in s
      BY <2>3 DEF Pick
    <3>2. Sums(f)[s] = f[Pick(s)] + Sums(f)[s \ {Pick(s)}]
      <4> HIDE DEF T
      <4> QED BY <2>1, <2>3, SumsFacts
    <3> QED BY <1>1, <2>3, <3>1, <3>2
  <2>4. SUBSET D \subseteq T
    <3> HIDE DEF T
    <3> QED BY <2>2, <2>3, SubsetInduction
  <2> QED BY <2>1, <2>4, SumsFacts
<1> QED BY <1>1

(* Changing one entry changes the sum by as much.                           *)
LEMMA SumUpdate ==
  ASSUME NEW D, IsFiniteSet(D), NEW f \in [D -> Int], NEW g \in [D -> Int], NEW u \in D,
         \A x \in D \ {u} : g[x] = f[x]
  PROVE  SumFunction(g) = SumFunction(f) + g[u] - f[u]
<1> DEFINE T == {s \in SUBSET D : /\ Sums(f)[s] \in Int
                   /\ Sums(g)[s] = Sums(f)[s] + IF u \in s THEN g[u] - f[u] ELSE 0}
<1>1. {} \in T
  BY SumsFacts
<1>2. ASSUME NEW s \in SUBSET D, s # {}, s \ {Pick(s)} \in T PROVE s \in T
  <2> DEFINE x == Pick(s)
             t == s \ {x}
  <2>1. x \in s /\ x \in D
    BY <1>2 DEF Pick
  <2>2. /\ Sums(f)[s] = f[x] + Sums(f)[t]
        /\ Sums(g)[s] = g[x] + Sums(g)[t]
    BY <1>2, SumsFacts
  <2>3. /\ Sums(f)[t] \in Int
        /\ Sums(g)[t] = Sums(f)[t] + IF u \in t THEN g[u] - f[u] ELSE 0
    BY <1>2
  <2>4. u \in t <=> u \in s /\ u # x
    OBVIOUS
  <2>5. f[x] \in Int /\ g[x] \in Int /\ f[u] \in Int /\ g[u] \in Int
    BY <2>1
  <2>6. x # u => g[x] = f[x]
    BY <2>1
  <2> HIDE DEF x, t
  <2>7. /\ Sums(f)[s] \in Int
        /\ Sums(g)[s] = Sums(f)[s] + IF u \in s THEN g[u] - f[u] ELSE 0
    <3>1. CASE u = x
      BY <2>1, <2>2, <2>3, <2>4, <2>5, <3>1
    <3>2. CASE u # x
      BY <2>1, <2>2, <2>3, <2>4, <2>5, <2>6, <3>2
    <3> QED BY <3>1, <3>2
  <2> QED BY <2>7
<1>3. SUBSET D \subseteq T
  <2> HIDE DEF T
  <2> QED BY <1>1, <1>2, SubsetInduction
<1>4. D \in T
  BY <1>3
<1> QED BY <1>4, SumsFacts

(* A sum of zeros is zero.                                                  *)
LEMMA SumZero ==
  ASSUME NEW D, IsFiniteSet(D), NEW f, f = [x \in D |-> 0]
  PROVE  SumFunction(f) = 0
<1> DEFINE T == {s \in SUBSET D : Sums(f)[s] = 0}
<1>1. f \in [D -> Int]
  OBVIOUS
<1>2. {} \in T
  BY <1>1, SumsFacts
<1>3. ASSUME NEW s \in SUBSET D, s # {}, s \ {Pick(s)} \in T PROVE s \in T
  <2>1. Pick(s) \in D
    BY <1>3 DEF Pick
  <2>2. Sums(f)[s] = f[Pick(s)] + Sums(f)[s \ {Pick(s)}]
    <3> HIDE DEF T
    <3> QED BY <1>1, <1>3, SumsFacts
  <2>3. f[Pick(s)] = 0 /\ Sums(f)[s \ {Pick(s)}] = 0
    BY <1>3, <2>1
  <2> QED BY <2>2, <2>3
<1>4. SUBSET D \subseteq T
  <2> HIDE DEF T
  <2> QED BY <1>2, <1>3, SubsetInduction
<1> QED BY <1>1, <1>4, SumsFacts

(* Sums compare as their entries do, but for one entry that may be e less.  *)
LEMMA SumCompare ==
  ASSUME NEW D, IsFiniteSet(D), NEW f \in [D -> Int], NEW g \in [D -> Int],
         NEW u \in D, NEW e \in Int,
         \A x \in D \ {u} : f[x] <= g[x], f[u] - e <= g[u]
  PROVE  SumFunction(f) - e <= SumFunction(g)
<1> DEFINE T == {s \in SUBSET D : /\ Sums(f)[s] \in Int /\ Sums(g)[s] \in Int
                   /\ Sums(f)[s] - (IF u \in s THEN e ELSE 0) <= Sums(g)[s]}
<1>1. {} \in T
  BY SumsFacts
<1>2. ASSUME NEW s \in SUBSET D, s # {}, s \ {Pick(s)} \in T PROVE s \in T
  <2> DEFINE x == Pick(s)
             t == s \ {x}
  <2>1. x \in s /\ x \in D
    BY <1>2 DEF Pick
  <2>2. /\ Sums(f)[s] = f[x] + Sums(f)[t]
        /\ Sums(g)[s] = g[x] + Sums(g)[t]
    <3> HIDE DEF T
    <3> QED BY <1>2, SumsFacts
  <2>3. /\ Sums(f)[t] \in Int /\ Sums(g)[t] \in Int
        /\ Sums(f)[t] - (IF u \in t THEN e ELSE 0) <= Sums(g)[t]
    BY <1>2
  <2>4. u \in t <=> u \in s /\ u # x
    OBVIOUS
  <2>5. f[x] \in Int /\ g[x] \in Int
    BY <2>1
  <2>6. (x # u => f[x] <= g[x]) /\ (x = u => f[x] - e <= g[x])
    BY <2>1
  <2> HIDE DEF x, t
  <2>7. /\ Sums(f)[s] \in Int /\ Sums(g)[s] \in Int
        /\ Sums(f)[s] - (IF u \in s THEN e ELSE 0) <= Sums(g)[s]
    <3>1. CASE u = x
      BY <2>1, <2>2, <2>3, <2>4, <2>5, <2>6, <3>1
    <3>2. CASE u # x
      BY <2>1, <2>2, <2>3, <2>4, <2>5, <2>6, <3>2
    <3> QED BY <3>1, <3>2
  <2> QED BY <2>7
<1>3. SUBSET D \subseteq T
  <2> HIDE DEF T
  <2> QED BY <1>1, <1>2, SubsetInduction
<1>4. D \in T
  BY <1>3
<1> QED BY <1>4, SumsFacts

(* The sum of smaller entries is smaller.                                   *)
LEMMA SumMonotone ==
  ASSUME NEW D, IsFiniteSet(D), NEW f \in [D -> Nat], NEW g \in [D -> Nat],
         \A x \in D : f[x] <= g[x]
  PROVE  SumFunction(f) <= SumFunction(g)
<1>1. SumFunction(f) \in Nat
  BY SumType
<1>2. CASE D = {}
  <2>1. f = g
    BY <1>2
  <2> QED BY <1>1, <2>1
<1>3. CASE D # {}
  <2>1. PICK u \in D : TRUE
    BY <1>3
  <2>2. f \in [D -> Int] /\ g \in [D -> Int] /\ 0 \in Int /\ f[u] - 0 <= g[u]
    OBVIOUS
  <2>3. SumFunction(f) - 0 <= SumFunction(g)
    BY <2>2, SumCompare
  <2> QED BY <1>1, <2>3
<1> QED BY <1>2, <1>3

(* An entry of a sum of naturals is at most the sum.                        *)
LEMMA SumEntry ==
  ASSUME NEW D, IsFiniteSet(D), NEW f \in [D -> Nat], NEW x \in D
  PROVE  f[x] <= SumFunction(f)
<1> DEFINE z == [y \in D |-> 0]
<1>1. SumFunction(z) = 0
  <2> HIDE DEF z
  <2>1. z = [y \in D |-> 0]
    BY DEF z
  <2> QED BY <2>1, SumZero
<1>2. SumFunction(z) - (0 - f[x]) <= SumFunction(f)
  <2>1. /\ z \in [D -> Int] /\ f \in [D -> Int] /\ 0 - f[x] \in Int
        /\ \A y \in D \ {x} : z[y] <= f[y]
        /\ z[x] - (0 - f[x]) <= f[x]
    OBVIOUS
  <2> HIDE DEF z
  <2> QED BY <2>1, SumCompare
<1> HIDE DEF z
<1>3. f[x] \in Nat /\ SumFunction(f) \in Nat
  BY SumType
<1> QED BY <1>1, <1>2, <1>3

(* A factor common to the entries is a factor of the sum.                   *)
LEMMA SumScale ==
  ASSUME NEW D, IsFiniteSet(D), NEW f \in [D -> Int], NEW g \in [D -> Int],
         NEW c \in Int, \A x \in D : g[x] = c * f[x]
  PROVE  SumFunction(g) = c * SumFunction(f)
<1> DEFINE T == {s \in SUBSET D : /\ Sums(f)[s] \in Int
                                  /\ Sums(g)[s] = c * Sums(f)[s]}
<1>1. {} \in T
  BY SumsFacts
<1>2. ASSUME NEW s \in SUBSET D, s # {}, s \ {Pick(s)} \in T PROVE s \in T
  <2> DEFINE x == Pick(s)
             t == s \ {x}
  <2>1. x \in D
    BY <1>2 DEF Pick
  <2>2. /\ Sums(f)[s] = f[x] + Sums(f)[t]
        /\ Sums(g)[s] = g[x] + Sums(g)[t]
    <3> HIDE DEF T
    <3>1. Sums(f)[s] = f[x] + Sums(f)[t]
      BY <1>2, SumsFacts
    <3>2. Sums(g)[s] = g[x] + Sums(g)[t]
      BY <1>2, SumsFacts
    <3> QED BY <3>1, <3>2
  <2>3. Sums(f)[t] \in Int /\ Sums(g)[t] = c * Sums(f)[t]
    BY <1>2
  <2>4. f[x] \in Int /\ g[x] = c * f[x]
    BY <2>1
  <2>5. \A a, b \in Int : c * a + c * b = c * (a + b)
    OBVIOUS
  <2> HIDE DEF x, t
  <2>6. Sums(f)[s] \in Int /\ Sums(g)[s] = c * Sums(f)[s]
    BY <2>2, <2>3, <2>4, <2>5
  <2> QED BY <2>6
<1>3. SUBSET D \subseteq T
  <2> HIDE DEF T
  <2> QED BY <1>1, <1>2, SubsetInduction
<1>4. D \in T
  BY <1>3
<1> QED BY <1>4, SumsFacts
=============================================================================
