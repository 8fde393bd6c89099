------------------------- MODULE StableDebt_proofs -------------------------
(* Theorems about StableDebt for every set of borrowers, every unit, rate    *)
(* and amount: no value underflows, a call moves one debt by its amount, and *)
(* the total by what it moves the debts.                                     *)
EXTENDS StableDebt, RayMath_proofs

-----------------------------------------------------------------------------
(* Compounding.                                                              *)

(* A product grows with both factors.                                        *)
LEMMA ProductGrows ==
  ASSUME NEW a \in Nat, NEW b \in Nat, NEW c \in Nat, NEW d \in Nat, a <= c, b <= d
  PROVE  a * b \in Nat /\ c * d \in Nat /\ a * b <= c * d
<1>1. a * b \in Nat /\ a * d \in Nat /\ c * d \in Nat /\ a * b <= a * d
  BY ProductMonotone
<1>2. a * d <= c * d
  <2>1. d * a <= d * c
    BY ProductMonotone
  <2> QED BY <2>1
<1> QED BY <1>1, <1>2

(* The terms of the binomial after the first two, and that they grow.        *)
Pairs(e) == e * (e - 1)
Triples(e) == e * (e - 1) * (IF e > 2 THEN e - 2 ELSE 0)

LEMMA TermsGrow ==
  ASSUME NEW e \in Nat, e # 0
  PROVE  /\ Pairs(e) \in Nat /\ Pairs(e + 1) \in Nat /\ Pairs(e) <= Pairs(e + 1)
         /\ Triples(e) \in Nat /\ Triples(e + 1) \in Nat /\ Triples(e) <= Triples(e + 1)
<1> DEFINE m(x) == IF x > 2 THEN x - 2 ELSE 0
<1>1. e - 1 \in Nat /\ e + 1 \in Nat /\ e - 1 <= e /\ e <= e + 1 /\ (e + 1) - 1 = e
  OBVIOUS
<1>2. m(e) \in Nat /\ m(e + 1) \in Nat /\ m(e) <= m(e + 1)
  OBVIOUS
<1>3. Pairs(e) \in Nat /\ Pairs(e + 1) \in Nat /\ Pairs(e) <= Pairs(e + 1)
  BY <1>1, ProductGrows DEF Pairs
<1>4. Triples(e) = Pairs(e) * m(e) /\ Triples(e + 1) = Pairs(e + 1) * m(e + 1)
  BY DEF Triples, Pairs
<1> HIDE DEF m
<1> QED BY <1>2, <1>3, <1>4, ProductGrows

(* A quotient of a product grows with a factor.                              *)
LEMMA QuotientGrows ==
  ASSUME NEW a \in Nat, NEW b \in Nat, NEW p \in Nat, NEW d \in Nat \ {0}, a <= b
  PROVE  /\ (a * p) \div d \in Nat /\ (b * p) \div d \in Nat
         /\ (a * p) \div d <= (b * p) \div d
<1> DEFINE m == a * p
           n == b * p
<1>1. m \in Nat /\ n \in Nat /\ m <= n
  BY ProductGrows
<1> HIDE DEF m, n
<1>2. m \div d <= n \div d /\ m \div d \in Nat /\ n \div d \in Nat
  BY <1>1, DivMonotone, QuotientBounds
<1> QED BY <1>2 DEF m, n

(* Compound interest starts at one ray and never falls with time.            *)
LEMMA CompoundedGrows ==
  ASSUME NEW rate \in Nat, NEW e \in Nat
  PROVE  /\ calculateCompoundedInterest(rate, 0) = RAY
         /\ calculateCompoundedInterest(rate, e) \in Nat
         /\ calculateCompoundedInterest(rate, e) >= RAY
         /\ calculateCompoundedInterest(rate, e + 1)
               >= calculateCompoundedInterest(rate, e)
<1> DEFINE r == rate \div SECONDS_PER_YEAR
           b2 == rayMul(r, r)
           b3 == rayMul(b2, r)
           I(x) == RAY + r * x + (Pairs(x) * b2) \div 2 + (Triples(x) * b3) \div 6
           c(x) == calculateCompoundedInterest(rate, x)
<1>1. c(0) = RAY /\ RAY \in Nat
  BY RayAssumption DEF calculateCompoundedInterest
<1>2. r \in Nat
  BY StableAssumption, QuotientBounds
<1>3. b2 \in Nat /\ b3 \in Nat
  <2> HIDE DEF r
  <2> QED BY <1>2, RayNat
<1>4. ASSUME NEW x \in Nat, x # 0 PROVE c(x) = I(x)
  BY <1>4 DEF calculateCompoundedInterest, Pairs, Triples
<1>5. ASSUME NEW x \in Nat, x # 0 PROVE I(x) \in Nat /\ I(x) >= RAY /\ I(x) <= I(x + 1)
  <2> HIDE DEF r, b2, b3
  <2>1. r * x \in Nat /\ r * (x + 1) \in Nat /\ r * x <= r * (x + 1)
    BY <1>2, ProductMonotone
  <2>2. /\ Pairs(x) \in Nat /\ Pairs(x + 1) \in Nat /\ Pairs(x) <= Pairs(x + 1)
        /\ Triples(x) \in Nat /\ Triples(x + 1) \in Nat /\ Triples(x) <= Triples(x + 1)
    BY <1>5, TermsGrow
  <2>3. /\ (Pairs(x) * b2) \div 2 \in Nat /\ (Pairs(x + 1) * b2) \div 2 \in Nat
        /\ (Pairs(x) * b2) \div 2 <= (Pairs(x + 1) * b2) \div 2
    <3> DEFINE p == Pairs(x)
               q == Pairs(x + 1)
    <3> HIDE DEF p, q
    <3>1. /\ (p * b2) \div 2 \in Nat /\ (q * b2) \div 2 \in Nat
          /\ (p * b2) \div 2 <= (q * b2) \div 2
      <4>1. p \in Nat /\ q \in Nat /\ p <= q /\ 2 \in Nat \ {0}
        BY <2>2 DEF p, q
      <4> QED BY <1>3, <4>1, QuotientGrows
    <3> QED BY <3>1 DEF p, q
  <2>4. /\ (Triples(x) * b3) \div 6 \in Nat /\ (Triples(x + 1) * b3) \div 6 \in Nat
        /\ (Triples(x) * b3) \div 6 <= (Triples(x + 1) * b3) \div 6
    <3> DEFINE p == Triples(x)
               q == Triples(x + 1)
    <3> HIDE DEF p, q
    <3>1. /\ (p * b3) \div 6 \in Nat /\ (q * b3) \div 6 \in Nat
          /\ (p * b3) \div 6 <= (q * b3) \div 6
      <4>1. p \in Nat /\ q \in Nat /\ p <= q /\ 6 \in Nat \ {0}
        BY <2>2 DEF p, q
      <4> QED BY <1>3, <4>1, QuotientGrows
    <3> QED BY <3>1 DEF p, q
  <2> QED BY <1>1, <2>1, <2>3, <2>4
<1> HIDE DEF I, c
<1>6. c(e) \in Nat /\ c(e) >= RAY
  BY <1>1, <1>4, <1>5
<1>7. c(e + 1) >= c(e)
  <2>1. CASE e = 0
    <3>1. 1 \in Nat /\ 1 # 0 /\ e + 1 = 1
      BY <2>1
    <3>2. c(1) >= RAY /\ c(1) \in Nat
      BY <1>4, <1>5, <3>1
    <3> QED BY <1>1, <2>1, <3>1, <3>2
  <2>2. CASE e # 0
    BY <1>4, <1>5, <2>2
  <2> QED BY <2>1, <2>2
<1> QED BY <1>1, <1>6, <1>7 DEF c

(* An amount compounded over no time is itself.                              *)
LEMMA JustCompounded ==
  ASSUME NEW p \in Nat, NEW rate \in Nat
  PROVE  rayMul(p, calculateCompoundedInterest(rate, 0)) = p
<1> DEFINE n == p * RAY + halfRAY
<1>1. calculateCompoundedInterest(rate, 0) = RAY
  BY CompoundedGrows
<1>2. n \in Int /\ RAY * p <= n /\ n < RAY * p + RAY
  BY HalfRay, RayAssumption, ProductNat
<1> HIDE DEF n
<1>3. n \div RAY = p
  BY <1>2, RayAssumption, QuotientUnique
<1> QED BY <1>1, <1>3 DEF n, rayMul

(* An average of rates is a natural as long as there is a balance to spread  *)
(* it over.                                                                  *)
LEMMA WeightedNat ==
  ASSUME NEW old \in Nat, NEW balance \in Nat, NEW rate \in Nat, NEW amount \in Nat,
         balance + amount > 0
  PROVE  weightedRate(old, balance, rate, amount) \in Nat
<1>1. ASSUME NEW x \in Nat PROVE wadToRay(x) \in Nat /\ (x > 0 => wadToRay(x) > 0)
  BY StableAssumption, ProductNat DEF wadToRay
<1> DEFINE m == rayMul(old, wadToRay(balance))
           n == rayMul(rate, wadToRay(amount))
           d == wadToRay(balance + amount)
<1>2. m \in Nat /\ n \in Nat
  BY <1>1, RayNat
<1>3. d \in Nat /\ d > 0
  BY <1>1
<1> HIDE DEF m, n, d
<1>4. rayDiv(m + n, d) \in Nat
  <2>1. m + n \in Nat
    BY <1>2
  <2> QED BY <1>3, <2>1, RayNat
<1>5. weightedRate(old, balance, rate, amount) = rayDiv(m + n, d)
  BY DEF weightedRate, m, n, d
<1> QED BY <1>4, <1>5

-----------------------------------------------------------------------------
(* Balances.                                                                 *)

(* A debt is at least its principal.                                         *)
LEMMA BalanceFacts ==
  ASSUME TypeOK, NEW u \in Users
  PROVE  /\ principal[u] \in Nat /\ usersStableRate[u] \in Nat
         /\ balanceOf(u) \in Nat /\ balanceIncrease(u) \in Nat
         /\ principal[u] + balanceIncrease(u) = balanceOf(u)
<1>1. /\ principal[u] \in Nat /\ usersStableRate[u] \in Nat /\ now \in Nat
      /\ timestamps[u] \in Nat /\ timestamps[u] <= now
  BY DEF TypeOK
<1> DEFINE e == now - timestamps[u]
           i == calculateCompoundedInterest(usersStableRate[u], e)
<1>2. i \in Nat /\ i >= RAY
  <2>1. e \in Nat
    BY <1>1
  <2> HIDE DEF e
  <2> QED BY <1>1, <2>1, CompoundedGrows
<1> HIDE DEF i
<1>3. rayMul(principal[u], i) \in Nat /\ rayMul(principal[u], i) >= principal[u]
  BY <1>1, <1>2, RayNat, RayMulGrows
<1>4. balanceOf(u) = IF principal[u] = 0 THEN 0 ELSE rayMul(principal[u], i)
  BY DEF balanceOf, i
<1>5. balanceOf(u) \in Nat /\ balanceOf(u) >= principal[u]
  BY <1>1, <1>3, <1>4
<1> QED BY <1>1, <1>5 DEF balanceIncrease

LEMMA TotalNat ==
  ASSUME TypeOK
  PROVE  totalSupply \in Nat
<1>1. /\ supply \in Nat /\ avgStableRate \in Nat /\ now \in Nat
      /\ totalSupplyTimestamp \in Nat /\ totalSupplyTimestamp <= now
  BY DEF TypeOK
<1> DEFINE e == now - totalSupplyTimestamp
           i == calculateCompoundedInterest(avgStableRate, e)
<1>2. i \in Nat
  <2>1. e \in Nat
    BY <1>1
  <2> HIDE DEF e
  <2> QED BY <1>1, <2>1, CompoundedGrows
<1>3. rayMul(supply, i) \in Nat
  <2> HIDE DEF i
  <2> QED BY <1>1, <1>2, RayNat
<1> QED BY <1>3 DEF totalSupply

(* What burn leaves of the total: nothing, or the rest, at an average rate   *)
(* that did not underflow.                                                   *)
LEMMA BurnLeaves ==
  ASSUME TypeOK, NEW u \in Users, NEW amount \in Nat
  PROVE  LET left == supplyAfterBurn(u, amount)
         IN  /\ left.supply \in Nat /\ left.avg \in Nat
             /\ left.supply = 0 \/ left.supply = totalSupply - amount
<1> DEFINE left == totalSupply - amount
           m == rayMul(avgStableRate, wadToRay(totalSupply))
           n == rayMul(usersStableRate[u], wadToRay(amount))
           d == wadToRay(left)
<1>1. totalSupply \in Nat /\ avgStableRate \in Nat /\ usersStableRate[u] \in Nat
  BY TotalNat DEF TypeOK
<1>2. ASSUME NEW x \in Nat PROVE wadToRay(x) \in Nat /\ (x > 0 => wadToRay(x) > 0)
  BY StableAssumption, ProductNat DEF wadToRay
<1>3. m \in Nat /\ n \in Nat
  BY <1>1, <1>2, RayNat
<1>4. supplyAfterBurn(u, amount) =
        IF totalSupply <= amount \/ n >= m THEN [supply |-> 0, avg |-> 0]
        ELSE [supply |-> left, avg |-> rayDiv(m - n, d)]
  BY DEF supplyAfterBurn
<1>5. ASSUME ~(totalSupply <= amount), ~(n >= m)
      PROVE  left \in Nat /\ rayDiv(m - n, d) \in Nat
  <2>1. left \in Nat /\ left > 0
    BY <1>1, <1>5
  <2>2. d \in Nat /\ d > 0
    <3> HIDE DEF left
    <3> QED BY <1>2, <2>1
  <2>3. m - n \in Nat
    <3> HIDE DEF m, n
    <3> QED BY <1>3, <1>5
  <2> HIDE DEF m, n, d
  <2> QED BY <2>1, <2>2, <2>3, RayNat
<1> HIDE DEF m, n, d
<1> QED BY <1>4, <1>5

(* After a call that leaves a principal of p at the current block, the debt  *)
(* is p; likewise the total.                                                 *)
LEMMA BalanceNow ==
  ASSUME NEW u \in Users, principal'[u] \in Nat, usersStableRate'[u] \in Nat,
         now' \in Nat, principal'[u] # 0 => timestamps'[u] = now'
  PROVE  (balanceOf(u))' = principal'[u]
<1>1. CASE principal'[u] = 0
  BY <1>1 DEF balanceOf
<1>2. CASE principal'[u] # 0
  <2>1. now' - timestamps'[u] = 0
    BY <1>2
  <2> QED BY <1>2, <2>1, JustCompounded DEF balanceOf
<1> QED BY <1>1, <1>2

LEMMA TotalNow ==
  ASSUME supply' \in Nat, avgStableRate' \in Nat, now' \in Nat,
         totalSupplyTimestamp' = now'
  PROVE  totalSupply' = supply'
<1>1. \A t \in Nat : t - t = 0
  OBVIOUS
<1>2. now' - totalSupplyTimestamp' = 0
  BY <1>1
<1> QED BY <1>2, JustCompounded DEF totalSupply

-----------------------------------------------------------------------------
(* The calls.                                                                *)

(* What a call on the debt of u does that leaves it at p and the total at s. *)
Leaves(u, p, s) ==
  /\ principal' = [principal EXCEPT ![u] = p]
  /\ usersStableRate' \in [Users -> Nat]
  /\ \A v \in Users \ {u} : usersStableRate'[v] = usersStableRate[v]
                            /\ timestamps'[v] = timestamps[v]
  /\ timestamps' \in [Users -> 0..now]
  /\ p # 0 => timestamps'[u] = now
  /\ supply' = s /\ avgStableRate' \in Nat /\ totalSupplyTimestamp' = now
  /\ now' = now

(* mint adds the amount to the debt and to the total.                        *)
LEMMA MintLeaves ==
  ASSUME TypeOK, NEW u \in Users, NEW amount \in Nat, NEW rate \in Nat,
         Mint(u, amount, rate)
  PROVE  Leaves(u, balanceOf(u) + amount, totalSupply + amount)
<1>1. amount > 0 /\ now' = now /\ supply' = totalSupply + amount
      /\ totalSupplyTimestamp' = now /\ timestamps' = [timestamps EXCEPT ![u] = now]
      /\ usersStableRate' = [usersStableRate EXCEPT
            ![u] = weightedRate(usersStableRate[u], balanceOf(u), rate, amount)]
      /\ avgStableRate' = weightedRate(avgStableRate, totalSupply, rate, amount)
      /\ principal' = [principal EXCEPT ![u] = principal[u] + amount + balanceIncrease(u)]
  BY DEF Mint, MintRates
<1>2. /\ balanceOf(u) \in Nat /\ totalSupply \in Nat /\ usersStableRate[u] \in Nat
      /\ principal[u] \in Nat /\ balanceIncrease(u) \in Nat
      /\ principal[u] + balanceIncrease(u) = balanceOf(u)
  BY BalanceFacts, TotalNat
<1>3. principal[u] + amount + balanceIncrease(u) = balanceOf(u) + amount
  BY <1>2
<1>4. /\ weightedRate(usersStableRate[u], balanceOf(u), rate, amount) \in Nat
      /\ weightedRate(avgStableRate, totalSupply, rate, amount) \in Nat
  <2>1. balanceOf(u) + amount > 0 /\ totalSupply + amount > 0 /\ avgStableRate \in Nat
    BY <1>1, <1>2 DEF TypeOK
  <2> QED BY <1>2, <2>1, WeightedNat
<1>5. /\ usersStableRate \in [Users -> Nat] /\ timestamps \in [Users -> 0..now]
      /\ now \in 0..now
  BY DEF TypeOK
<1> QED BY <1>1, <1>3, <1>4, <1>5 DEF Leaves

(* burn takes the amount from the debt, and from the total if it is there.   *)
LEMMA BurnLeavesDebt ==
  ASSUME TypeOK, NEW u \in Users, NEW amount, Burn(u, amount)
  PROVE  /\ amount \in 1..balanceOf(u)
         /\ Leaves(u, balanceOf(u) - amount, supplyAfterBurn(u, amount).supply)
<1>1. /\ amount \in 1..balanceOf(u) /\ now' = now /\ totalSupplyTimestamp' = now
      /\ supply' = supplyAfterBurn(u, amount).supply
      /\ avgStableRate' = supplyAfterBurn(u, amount).avg
      /\ principal' = [principal EXCEPT ![u] = principal[u] + balanceIncrease(u) - amount]
  BY DEF Burn, BurnSupply
<1>2. /\ balanceOf(u) \in Nat /\ principal[u] \in Nat /\ balanceIncrease(u) \in Nat
      /\ principal[u] + balanceIncrease(u) = balanceOf(u) /\ amount \in Nat
  BY <1>1, BalanceFacts
<1>3. principal[u] + balanceIncrease(u) - amount = balanceOf(u) - amount
  BY <1>2
<1>4. supplyAfterBurn(u, amount).avg \in Nat
  BY <1>2, BurnLeaves
<1>5. /\ usersStableRate \in [Users -> Nat] /\ timestamps \in [Users -> 0..now]
      /\ now \in 0..now /\ 0 \in 0..now
  BY DEF TypeOK
<1>6. /\ usersStableRate' = IF amount = balanceOf(u)
                            THEN [usersStableRate EXCEPT ![u] = 0] ELSE usersStableRate
      /\ timestamps' = [timestamps EXCEPT ![u] = IF amount = balanceOf(u) THEN 0 ELSE now]
  BY DEF Burn
<1>7. balanceOf(u) - amount # 0 => amount # balanceOf(u)
  BY <1>2
<1> QED BY <1>1, <1>3, <1>4, <1>5, <1>6, <1>7 DEF Leaves

(* A rebalance leaves the debt as it is, and the total too, or only the debt *)
(* if the burn cleared it.                                                   *)
LEMMA RebalanceLeaves ==
  ASSUME TypeOK, NEW u \in Users, NEW rate \in Nat, Rebalance(u, rate)
  PROVE  Leaves(u, balanceOf(u), supplyAfterBurn(u, balanceOf(u)).supply + balanceOf(u))
<1> DEFINE debt == balanceOf(u)
           burnt == supplyAfterBurn(u, debt)
<1>1. /\ debt > 0 /\ now' = now /\ totalSupplyTimestamp' = now
      /\ principal' = [principal EXCEPT ![u] = debt]
      /\ usersStableRate' = [usersStableRate EXCEPT ![u] = weightedRate(0, 0, rate, debt)]
      /\ timestamps' = [timestamps EXCEPT ![u] = now]
      /\ supply' = burnt.supply + debt
      /\ avgStableRate' = weightedRate(burnt.avg, burnt.supply, rate, debt)
  BY DEF Rebalance
<1>2. debt \in Nat
  BY BalanceFacts
<1>3. burnt.supply \in Nat /\ burnt.avg \in Nat
  BY <1>2, BurnLeaves
<1> HIDE DEF debt, burnt
<1>4. /\ weightedRate(0, 0, rate, debt) \in Nat
      /\ weightedRate(burnt.avg, burnt.supply, rate, debt) \in Nat
  <2>1. 0 + debt > 0 /\ burnt.supply + debt > 0 /\ 0 \in Nat
    BY <1>1, <1>2, <1>3
  <2>2. weightedRate(0, 0, rate, debt) \in Nat
    BY <1>2, <2>1, WeightedNat
  <2> DEFINE a == burnt.avg
             s == burnt.supply
  <2> HIDE DEF a, s
  <2>3. weightedRate(a, s, rate, debt) \in Nat
    BY <1>2, <1>3, <2>1, WeightedNat DEF a, s
  <2> QED BY <2>2, <2>3 DEF a, s
<1>5. /\ usersStableRate \in [Users -> Nat] /\ timestamps \in [Users -> 0..now]
      /\ now \in 0..now
  BY DEF TypeOK
<1>6. Leaves(u, debt, burnt.supply + debt)
  BY <1>1, <1>4, <1>5 DEF Leaves
<1> QED BY <1>6 DEF debt, burnt

(* Such a call keeps the types.                                              *)
LEMMA LeavesTypes ==
  ASSUME TypeOK, NEW u \in Users, NEW p \in Nat, NEW s \in Nat, Leaves(u, p, s),
         calls' \in 0..MaxCalls
  PROVE  TypeOK'
<1>1. principal' \in [Users -> Nat]
  BY DEF TypeOK, Leaves
<1>2. now \in 0..now
  BY DEF TypeOK
<1> QED BY <1>1, <1>2 DEF TypeOK, Leaves

(* And it changes no debt but that of u.                                     *)
LEMMA LeavesDebts ==
  ASSUME TypeOK, NEW u \in Users, NEW p \in Nat, NEW s \in Nat, Leaves(u, p, s)
  PROVE  /\ (balanceOf(u))' = p
         /\ \A v \in Users \ {u} : (balanceOf(v))' = balanceOf(v)
         /\ totalSupply' = s
<1>1. principal'[u] = p /\ usersStableRate'[u] \in Nat /\ now' \in Nat /\ now' = now
      /\ (p # 0 => timestamps'[u] = now')
  BY DEF TypeOK, Leaves
<1>2. (balanceOf(u))' = p
  BY <1>1, BalanceNow
<1>3. ASSUME NEW v \in Users \ {u} PROVE (balanceOf(v))' = balanceOf(v)
  <2>1. /\ principal'[v] = principal[v] /\ usersStableRate'[v] = usersStableRate[v]
        /\ timestamps'[v] = timestamps[v]
    BY DEF TypeOK, Leaves
  <2> QED BY <1>1, <2>1 DEF balanceOf
<1>4. totalSupply' = s
  BY <1>1, TotalNow DEF Leaves
<1> QED BY <1>2, <1>3, <1>4

(* Every call is of this kind, with an amount by which the debt moves.       *)
LEMMA CallLeaves ==
  ASSUME TypeOK, NEW u \in Users, Call(u)
  PROVE  \E p \in Nat, s \in Nat :
           /\ Leaves(u, p, s)
           /\ \E amount \in Amounts \cup {balanceOf(u)} :
                p - balanceOf(u) \in {amount, 0 - amount, 0}
           /\ \/ s - totalSupply = p - balanceOf(u)
              \/ s = 0
              \/ s = p /\ timestamps'[u] = now
<1>1. balanceOf(u) \in Nat /\ totalSupply \in Nat
  BY BalanceFacts, TotalNat
<1>2. ASSUME NEW amount \in Amounts, NEW rate \in Rates, Mint(u, amount, rate)
      PROVE  /\ Leaves(u, balanceOf(u) + amount, totalSupply + amount)
             /\ amount \in Nat
  BY <1>2, MintLeaves, StableAssumption
<1>3. ASSUME NEW amount \in Amounts \cup {balanceOf(u)}, Burn(u, amount)
      PROVE  /\ Leaves(u, balanceOf(u) - amount, supplyAfterBurn(u, amount).supply)
             /\ amount \in Nat /\ balanceOf(u) - amount \in Nat
             /\ supplyAfterBurn(u, amount).supply \in Nat
             /\ \/ supplyAfterBurn(u, amount).supply = 0
                \/ supplyAfterBurn(u, amount).supply = totalSupply - amount
  <2>1. amount \in 1..balanceOf(u)
    BY <1>3, BurnLeavesDebt
  <2>2. amount \in Nat /\ balanceOf(u) - amount \in Nat
    BY <1>1, <2>1
  <2> QED BY <1>3, <2>2, BurnLeavesDebt, BurnLeaves
<1>4. ASSUME NEW rate \in Rates, Rebalance(u, rate)
      PROVE  /\ Leaves(u, balanceOf(u), supplyAfterBurn(u, balanceOf(u)).supply + balanceOf(u))
             /\ supplyAfterBurn(u, balanceOf(u)).supply \in Nat
             /\ timestamps'[u] = now
             /\ \/ supplyAfterBurn(u, balanceOf(u)).supply = 0
                \/ supplyAfterBurn(u, balanceOf(u)).supply = totalSupply - balanceOf(u)
  <2>1. timestamps'[u] = now
    BY <1>4 DEF Rebalance, TypeOK
  <2> QED BY <1>1, <1>4, <2>1, RebalanceLeaves, BurnLeaves, StableAssumption
<1> DEFINE Goal(p, s, amount) ==
             /\ Leaves(u, p, s)
             /\ p - balanceOf(u) \in {amount, 0 - amount, 0}
             /\ \/ s - totalSupply = p - balanceOf(u)
                \/ s = 0
                \/ s = p /\ timestamps'[u] = now
<1>5. \E p \in Nat, s \in Nat, amount \in Amounts \cup {balanceOf(u)} : Goal(p, s, amount)
  <2>1. CASE \E amount \in Amounts, rate \in Rates : Mint(u, amount, rate)
    <3>1. PICK amount \in Amounts, rate \in Rates : Mint(u, amount, rate)
      BY <2>1
    <3> DEFINE p == balanceOf(u) + amount
               s == totalSupply + amount
    <3>2. p \in Nat /\ s \in Nat /\ Goal(p, s, amount)
      BY <1>1, <1>2, <3>1
    <3> HIDE DEF Goal, p, s
    <3> QED BY <3>2
  <2>2. CASE \E amount \in Amounts \cup {balanceOf(u)} : Burn(u, amount)
    <3>1. PICK amount \in Amounts \cup {balanceOf(u)} : Burn(u, amount)
      BY <2>2
    <3> DEFINE p == balanceOf(u) - amount
               s == supplyAfterBurn(u, amount).supply
    <3>2. p \in Nat /\ s \in Nat /\ Goal(p, s, amount)
      BY <1>1, <1>3, <3>1
    <3> HIDE DEF Goal, p, s
    <3> QED BY <3>2
  <2>3. CASE \E rate \in Rates : Rebalance(u, rate)
    <3>1. PICK rate \in Rates : Rebalance(u, rate)
      BY <2>3
    <3> DEFINE p == balanceOf(u)
               s == supplyAfterBurn(u, balanceOf(u)).supply + balanceOf(u)
    <3>2. p \in Nat /\ s \in Nat /\ Goal(p, s, balanceOf(u))
      BY <1>1, <1>4, <3>1
    <3> HIDE DEF Goal, s
    <3> QED BY <3>2
  <2> QED BY <2>1, <2>2, <2>3 DEF Call
<1> QED BY <1>5
-----------------------------------------------------------------------------
(* The theorems.                                                             *)

(* StableDebtToken: what burn and mint subtract is there, for every set of   *)
(* borrowers, every rate and amount.                                         *)
THEOREM TypeCorrect == Spec => []TypeOK
<1>1. Init => TypeOK
  BY StableAssumption DEF Init, TypeOK
<1>2. TypeOK /\ [Next]_stableVars => TypeOK'
  <2> SUFFICES ASSUME TypeOK, [Next]_stableVars PROVE TypeOK'
    OBVIOUS
  <2>1. CASE Tick
    BY <2>1, StableAssumption DEF Tick, TypeOK, userVars, supplyVars
  <2>2. ASSUME calls < MaxCalls, calls' = calls + 1, NEW u \in Users, Call(u)
        PROVE  TypeOK'
    <3>1. PICK p \in Nat, s \in Nat : Leaves(u, p, s)
      BY <2>2, CallLeaves
    <3>2. calls' \in 0..MaxCalls
      BY <2>2, StableAssumption DEF TypeOK
    <3> QED BY <3>1, <3>2, LeavesTypes
  <2>3. CASE UNCHANGED stableVars
    BY <2>3 DEF TypeOK, stableVars, userVars, supplyVars
  <2> QED BY <2>1, <2>2, <2>3 DEF Next
<1> QED BY <1>1, <1>2, PTL DEF Spec

(* Time alone lowers no debt.                                                *)
LEMMA TickGrows ==
  ASSUME TypeOK, Tick, NEW u \in Users
  PROVE  (balanceOf(u))' >= balanceOf(u)
<1>1. /\ principal' = principal /\ usersStableRate' = usersStableRate
      /\ timestamps' = timestamps /\ now' = now + 1
  BY DEF Tick, userVars
<1>2. /\ principal[u] \in Nat /\ usersStableRate[u] \in Nat /\ now \in Nat
      /\ timestamps[u] \in Nat /\ timestamps[u] <= now
  BY DEF TypeOK
<1> DEFINE e == now - timestamps[u]
           i == calculateCompoundedInterest(usersStableRate[u], e)
           j == calculateCompoundedInterest(usersStableRate[u], e + 1)
<1>3. e \in Nat /\ e + 1 \in Nat /\ (now + 1) - timestamps[u] = e + 1
  BY <1>2
<1>4. i \in Nat /\ j \in Nat /\ i <= j
  <2> HIDE DEF e
  <2> QED BY <1>2, <1>3, CompoundedGrows
<1>5. /\ balanceOf(u) = IF principal[u] = 0 THEN 0 ELSE rayMul(principal[u], i)
      /\ (balanceOf(u))' = IF principal[u] = 0 THEN 0 ELSE rayMul(principal[u], j)
  BY <1>1, <1>3 DEF balanceOf
<1> HIDE DEF i, j
<1>6. /\ rayMul(principal[u], i) <= rayMul(principal[u], j)
      /\ rayMul(principal[u], i) \in Nat /\ rayMul(principal[u], j) \in Nat
  BY <1>2, <1>4, RayMulMonotone, RayNat
<1> QED BY <1>5, <1>6

(* StableDebtToken: mint and burn change one debt, by their amount, whatever *)
(* interest was outstanding; otherwise debts change with time and only grow. *)
THEOREM CallsMoveByAmount == Spec => DebtsMoveByAmount
<1> DEFINE moved(u, amount) ==
      \A v \in Users : (balanceOf(v))' - balanceOf(v)
                          \in IF v = u THEN {amount, 0 - amount, 0} ELSE {0}
<1>1. TypeOK /\ [Next]_stableVars =>
        [\/ \E u \in Users : \E amount \in Amounts \cup {balanceOf(u)} : moved(u, amount)
         \/ now' > now /\ \A v \in Users : (balanceOf(v))' >= balanceOf(v)]_stableVars
  <2> SUFFICES ASSUME TypeOK, Next
               PROVE  \/ \E u \in Users : \E amount \in Amounts \cup {balanceOf(u)} :
                           moved(u, amount)
                      \/ now' > now /\ \A v \in Users : (balanceOf(v))' >= balanceOf(v)
    OBVIOUS
  <2>1. CASE Tick
    <3>1. now' > now
      BY <2>1 DEF Tick, TypeOK
    <3> QED BY <2>1, <3>1, TickGrows
  <2>2. ASSUME NEW u \in Users, Call(u)
        PROVE  \E amount \in Amounts \cup {balanceOf(u)} : moved(u, amount)
    <3>1. PICK p \in Nat, s \in Nat :
            /\ Leaves(u, p, s)
            /\ \E amount \in Amounts \cup {balanceOf(u)} :
                 p - balanceOf(u) \in {amount, 0 - amount, 0}
      BY <2>2, CallLeaves
    <3>2. PICK amount \in Amounts \cup {balanceOf(u)} :
            p - balanceOf(u) \in {amount, 0 - amount, 0}
      BY <3>1
    <3>3. ASSUME NEW v \in Users, v # u PROVE (balanceOf(v))' - balanceOf(v) = 0
      <4>1. (balanceOf(v))' = balanceOf(v)
        BY <3>1, <3>3, LeavesDebts
      <4>2. balanceOf(v) \in Nat
        BY BalanceFacts
      <4> QED BY <4>1, <4>2
    <3>4. (balanceOf(u))' = p
      BY <3>1, LeavesDebts
    <3>5. moved(u, amount)
      BY <3>2, <3>3, <3>4
    <3> QED BY <3>5
  <2> QED BY <2>1, <2>2 DEF Next
<1> QED BY <1>1, TypeCorrect, PTL DEF Spec, DebtsMoveByAmount

(* StableDebtToken: mint and burn move the total by what they move the       *)
(* debts, unless burn finds the total short and clears it.                   *)
THEOREM CallsMoveTotal == Spec => TotalMovesWithDebts
<1> DEFINE together ==
      \/ totalSupply' - totalSupply = debts' - debts
      \/ supply' = 0
      \/ \E u \in Users : supply' = principal'[u] /\ timestamps'[u] = now
<1>1. TypeOK /\ [Next]_stableVars => [now' = now => together]_stableVars
  <2> SUFFICES ASSUME TypeOK, Next, now' = now PROVE together
    OBVIOUS
  <2>1. CASE Tick
    BY <2>1 DEF Tick, TypeOK
  <2>2. ASSUME NEW u \in Users, Call(u) PROVE together
    <3>1. PICK p \in Nat, s \in Nat :
            /\ Leaves(u, p, s)
            /\ \/ s - totalSupply = p - balanceOf(u)
               \/ s = 0
               \/ s = p /\ timestamps'[u] = now
      BY <2>2, CallLeaves
    <3>2. (balanceOf(u))' = p /\ totalSupply' = s
          /\ \A v \in Users \ {u} : (balanceOf(v))' = balanceOf(v)
      BY <3>1, LeavesDebts
    <3>3. supply' = s /\ principal'[u] = p
      BY <3>1 DEF Leaves, TypeOK
    <3> DEFINE f == [v \in Users |-> balanceOf(v)]
               g == [f EXCEPT ![u] = p]
    <3>4. f \in [Users -> Int] /\ \A v \in Users : f[v] = balanceOf(v)
      BY BalanceFacts
    <3>5. f' = g
      BY <3>2
    <3>6. SumFunction(g) - SumFunction(f) = p - balanceOf(u)
      <4> HIDE DEF f
      <4>1. /\ g \in [Users -> Int] /\ g[u] = p /\ f[u] = balanceOf(u)
            /\ \A v \in Users \ {u} : g[v] = f[v]
        BY <3>4
      <4> HIDE DEF g
      <4>2. SumFunction(g) = SumFunction(f) + g[u] - f[u]
        BY <3>4, <4>1, SumUpdate, StableAssumption
      <4>3. SumFunction(f) \in Int /\ balanceOf(u) \in Int
        BY <3>4, <4>1, SumType, StableAssumption
      <4> QED BY <4>1, <4>2, <4>3
    <3>7. debts = SumFunction(f) /\ debts' = SumFunction(g)
      BY <3>5 DEF debts
    <3> HIDE DEF f, g
    <3> QED BY <3>1, <3>2, <3>3, <3>6, <3>7
  <2> QED BY <2>1, <2>2 DEF Next
<1> QED BY <1>1, TypeCorrect, PTL DEF Spec, TotalMovesWithDebts

=============================================================================
