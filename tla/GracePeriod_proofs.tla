------------------------- MODULE GracePeriod_proofs -------------------------
(***************************************************************************)
(* The upgraded pool does nothing the original could not do, so what is    *)
(* proved of the pool survives the upgrade; and while the grace period     *)
(* lasts nothing leaves it.                                                *)
(***************************************************************************)
EXTENDS GracePeriod, LendingPool_proofs

-----------------------------------------------------------------------------
(* The upgraded pool implements the original.                              *)

LEMMA GraceUserStepIsUserStep ==
  ASSUME NEW u \in Users, GraceUserStep(u)
  PROVE  UserStep(u)
<1>1. PICK r \in Reserves :
        \/ \E amount \in Amounts : Deposit(u, r, amount)
        \/ \E amount \in Amounts \cup {UintMax}, mode \in Modes, self \in BOOLEAN :
             Repay(u, r, amount, mode, self)
        \/ \E use \in BOOLEAN : SetUserUseReserveAsCollateral(u, r, use)
  BY Zenon DEF GraceUserStep
<1>2. CASE \E amount \in Amounts : Deposit(u, r, amount)
  BY <1>2, Zenon DEF UserStep
<1>3. CASE \E amount \in Amounts \cup {UintMax}, mode \in Modes, self \in BOOLEAN :
             Repay(u, r, amount, mode, self)
  BY <1>3, Zenon DEF UserStep
<1>4. CASE \E use \in BOOLEAN : SetUserUseReserveAsCollateral(u, r, use)
  BY <1>4, Zenon DEF UserStep
<1> QED BY <1>1, <1>2, <1>3, <1>4, Zenon

LEMMA GraceStepIsPoolStep == [GraceNext]_graceVars => [Next]_vars
<1>1. ASSUME PoolStep PROVE Next
  BY <1>1, GraceUserStepIsUserStep, Zenon DEF PoolStep, Next
<1>2. ASSUME NEW impl \in Upgrades, SetLendingPoolImpl(impl)
      PROVE  UNCHANGED vars
  BY <1>2, Zenon DEF SetLendingPoolImpl
<1>3. ASSUME UNCHANGED graceVars PROVE UNCHANGED vars
  BY <1>3, Zenon DEF graceVars
<1> QED BY <1>1, <1>2, <1>3, Zenon DEF GraceNext

(* The upgrade is transparent: every behaviour of the upgraded pool is one *)
(* of LendingPool, setLendingPoolImpl being a stuttering step of it.       *)
THEOREM GraceImplementsPool == GraceSpec => Spec
<1>1. GraceInit => Init
  BY DEF GraceInit
<1> QED BY <1>1, GraceStepIsPoolStep, PTL DEF GraceSpec, Spec

(* Debts stay flagged across the upgrade and during the grace period.      *)
THEOREM GraceDebtsAreFlagged == GraceSpec => []DebtFlagged
  BY GraceImplementsPool, DebtsAreFlagged, PTL

(* No reserve comes to owe its suppliers more than it is owed and holds,   *)
(* across the upgrade and in the grace period.                             *)
THEOREM GraceReservesStayBacked == GraceSpec => BackingKept
  BY GraceImplementsPool, ReservesStayBacked, PTL

(* Nor does a call leave a healthy account with a debt it does not cover.  *)
THEOREM GraceMarginIsKept == GraceSpec => MarginKept
  BY GraceImplementsPool, MarginIsKept, PTL

-----------------------------------------------------------------------------
(* Revisions.                                                              *)

(* The proxy runs the implementation it initialized last                   *)
(* (VersionedInitializable.initializer).                                   *)
THEOREM GraceTypeCorrect == GraceSpec => []GraceTypeOK
<1> DEFINE Recorded == /\ implementation \in Implementations
                       /\ lastInitializedRevision = revision[implementation]
<1>1. GraceInit => Recorded
  BY DEF GraceInit, Implementations
<1>2. Recorded /\ [GraceNext]_graceVars => Recorded'
  <2> SUFFICES ASSUME Recorded, [GraceNext]_graceVars PROVE Recorded'
    OBVIOUS
  <2>1. ASSUME UNCHANGED <<implementation, lastInitializedRevision>> PROVE Recorded'
    BY <2>1
  <2>2. ASSUME NEW impl \in Upgrades, SetLendingPoolImpl(impl) PROVE Recorded'
    BY <2>2, UpgradesAssumption DEF SetLendingPoolImpl, Implementations
  <2> QED BY <2>1, <2>2, Zenon DEF GraceNext, graceVars
<1>3. TypeOK /\ Recorded => GraceTypeOK
  BY DEF GraceTypeOK
<1>4. GraceSpec => []TypeOK
  BY GraceImplementsPool, TypeCorrect, PTL
<1> HIDE DEF Recorded
<1> QED BY <1>1, <1>2, <1>3, <1>4, PTL DEF GraceSpec

-----------------------------------------------------------------------------
(* Nothing leaves.                                                         *)

(* What a step of the grace period keeps, apart from the passage of time.  *)
Kept ==
  \A r \in Reserves :
    /\ liquidity'[r] >= liquidity[r]
    /\ \A u \in Accounts :
         /\ aScaled'[r][u] >= aScaled[r][u]
         /\ vScaled'[r][u] <= vScaled[r][u]
         /\ stable'[r][u] <= stable[r][u] \/ EnvironmentStep

LEMMA SameKept ==
  ASSUME TypeOK, UNCHANGED <<liquidity, aScaled, vScaled>>,
         EnvironmentStep \/ UNCHANGED stable
  PROVE  Kept
<1>1. \A r \in Reserves : liquidity'[r] >= liquidity[r]
  BY DEF TypeOK
<1>2. \A r \in Reserves, u \in Accounts :
        aScaled'[r][u] >= aScaled[r][u] /\ vScaled'[r][u] <= vScaled[r][u]
  BY DEF TypeOK, Ledger
<1>3. CASE EnvironmentStep
  BY <1>1, <1>2, <1>3, Zenon DEF Kept
<1>4. CASE UNCHANGED stable
  <2>1. \A r \in Reserves, u \in Accounts : stable'[r][u] <= stable[r][u]
    BY <1>4 DEF TypeOK, Ledger
  <2> QED BY <1>1, <1>2, <2>1, Zenon DEF Kept
<1> QED BY <1>3, <1>4

LEMMA UpdatedGrows ==
  ASSUME TypeOK, NEW S, NEW q \in Reserves, NEW w \in Accounts
  PROVE  updatedScaled(S)[q][w] >= aScaled[q][w]
<1>1. treasuryScaled(q) \in Nat /\ aScaled[q] \in [Accounts -> Nat]
  BY TreasuryNat DEF TypeOK, Ledger
<1> QED BY <1>1 DEF updatedScaled, Accounts

LEMMA DepositKept ==
  ASSUME TypeOK, NEW u \in Users, NEW r \in Reserves, NEW amount \in Amounts,
         Deposit(u, r, amount)
  PROVE  Kept
<1> DEFINE scaled == rayDiv(amount, liquidityIndex[r])
<1>1. amount \in Nat /\ scaled \in Nat /\ u \in Accounts
  BY AmountsAssumption, ScaledNat DEF Accounts
<1>2. /\ aScaled' = [updatedScaled({r}) EXCEPT ![r][u] = @ + scaled]
      /\ liquidity' = [liquidity EXCEPT ![r] = @ + amount]
      /\ UNCHANGED <<vScaled, stable>>
  BY DEF Deposit, UpdateStateAndMove, Receive, debtVars
<1> HIDE DEF scaled
<1>3. \A q \in Reserves, w \in Accounts : aScaled'[q][w] >= aScaled[q][w]
  <2> SUFFICES ASSUME NEW q \in Reserves, NEW w \in Accounts
               PROVE  aScaled'[q][w] >= aScaled[q][w]
    OBVIOUS
  <2>1. /\ updatedScaled({r}) \in Ledger /\ aScaled[q][w] \in Nat
        /\ updatedScaled({r})[q][w] >= aScaled[q][w]
    BY UpdatedTypes, UpdatedGrows DEF TypeOK, Ledger
  <2> DEFINE updated == updatedScaled({r})
  <2> HIDE DEF updated
  <2>2. /\ updated \in [Reserves -> [Accounts -> Nat]] /\ updated[q][w] >= aScaled[q][w]
        /\ aScaled' = [updated EXCEPT ![r][u] = @ + scaled]
    BY <1>2, <2>1 DEF Ledger, updated
  <2>3. aScaled'[q][w] \in {updated[q][w], updated[q][w] + scaled}
    BY <1>1, <2>2
  <2> QED BY <1>1, <2>1, <2>2, <2>3
<1>4. \A q \in Reserves : liquidity'[q] >= liquidity[q]
  BY <1>1, <1>2 DEF TypeOK
<1>5. \A q \in Reserves, w \in Accounts :
        vScaled'[q][w] <= vScaled[q][w] /\ stable'[q][w] <= stable[q][w]
  BY <1>2 DEF TypeOK, Ledger
<1> QED BY <1>3, <1>4, <1>5, Zenon DEF Kept

LEMMA RepayKept ==
  ASSUME TypeOK, NEW u \in Users, NEW r \in Reserves,
         NEW amount \in Amounts \cup {UintMax}, NEW mode \in Modes, NEW self,
         Repay(u, r, amount, mode, self)
  PROVE  Kept
<1> DEFINE debt == IF mode = "stable" THEN stable[r][u] ELSE variableDebt(u, r)
           payback == IF amount < debt THEN amount ELSE debt
<1>1. payback \in Nat /\ u \in Accounts
  BY AmountsAssumption, BalancesNat DEF Accounts
<1>2. /\ aScaled' = updatedScaled({r}) /\ liquidity' = [liquidity EXCEPT ![r] = @ + payback]
      /\ \/ BurnStable(u, r, payback) /\ UNCHANGED vScaled
         \/ BurnVariable(u, r, payback) /\ UNCHANGED stable
  BY DEF Repay, UpdateState, Receive
<1> HIDE DEF payback
<1>3. \A q \in Reserves, w \in Accounts : aScaled'[q][w] >= aScaled[q][w]
  BY <1>2, UpdatedGrows
<1>4. \A q \in Reserves : liquidity'[q] >= liquidity[q]
  BY <1>1, <1>2 DEF TypeOK
<1>5. \A q \in Reserves, w \in Accounts :
        vScaled'[q][w] <= vScaled[q][w] /\ stable'[q][w] <= stable[q][w]
  <2>1. CASE BurnStable(u, r, payback) /\ UNCHANGED vScaled
    BY <1>1, <2>1 DEF BurnStable, TypeOK, Ledger
  <2>2. CASE BurnVariable(u, r, payback) /\ UNCHANGED stable
    <3>1. rayDiv(payback, variableBorrowIndex[r]) \in Nat
      BY <1>1, ScaledNat
    <3> QED BY <1>1, <2>2, <3>1 DEF BurnVariable, TypeOK, Ledger
  <2> QED BY <1>2, <2>1, <2>2
<1> QED BY <1>3, <1>4, <1>5, Zenon DEF Kept

LEMMA GraceStepKept ==
  ASSUME GraceTypeOK, InGracePeriod, [GraceNext]_graceVars
  PROVE  InGracePeriod' /\ Kept
<1>0. TypeOK
  BY DEF GraceTypeOK
<1>1. ASSUME NEW impl \in Upgrades, SetLendingPoolImpl(impl) PROVE FALSE
  <2>1. /\ revision[impl] > lastInitializedRevision /\ impl \in Implementations
        /\ lastInitializedRevision = revision["LendingPoolWithGracePeriod"]
    BY <1>1, UpgradesAssumption DEF SetLendingPoolImpl, GraceTypeOK, InGracePeriod, Implementations
  <2>2. revision["LendingPoolWithGracePeriod"] = 5 /\ revision[impl] \in {3, 4, 5}
    BY <2>1 DEF revision, Implementations
  <2> QED BY <2>1, <2>2
<1>2. ASSUME UNCHANGED graceVars PROVE InGracePeriod' /\ Kept
  BY <1>0, <1>2, SameKept
     DEF graceVars, vars, aTokenVars, debtVars, InGracePeriod
<1>3. ASSUME NEW u \in Users, GraceUserStep(u) PROVE Kept
  <2>1. PICK r \in Reserves :
          \/ \E amount \in Amounts : Deposit(u, r, amount)
          \/ \E amount \in Amounts \cup {UintMax}, mode \in Modes, self \in BOOLEAN :
               Repay(u, r, amount, mode, self)
          \/ \E use \in BOOLEAN : SetUserUseReserveAsCollateral(u, r, use)
    BY <1>3, Zenon DEF GraceUserStep
  <2>2. ASSUME NEW use \in BOOLEAN, SetUserUseReserveAsCollateral(u, r, use)
        PROVE  Kept
    BY <1>0, <2>2, SameKept DEF SetUserUseReserveAsCollateral, aTokenVars, debtVars
  <2> QED BY <1>0, <2>1, <2>2, DepositKept, RepayKept, Zenon
<1>4. ASSUME EnvironmentStep PROVE Kept
  <2>1. UNCHANGED <<liquidity, aScaled, vScaled>>
    BY <1>4 DEF EnvironmentStep, Accrue, SetPrice, SetFreeze, SetPause, aTokenVars, debtVars
  <2> QED BY <1>0, <1>4, <2>1, SameKept
<1>5. ASSUME PoolStep, UNCHANGED <<implementation, lastInitializedRevision>>
      PROVE  InGracePeriod' /\ Kept
  <2>1. InGracePeriod'
    BY <1>5 DEF InGracePeriod
  <2> QED BY <1>3, <1>4, <1>5, <2>1, Zenon DEF PoolStep
<1> QED BY <1>1, <1>2, <1>5, Zenon DEF GraceNext

(* Once the grace period has begun it stays, and neither cash nor deposits *)
(* leave it, nor does anyone's debt grow except by the passage of time.    *)
THEOREM NothingLeavesGrace == GraceSpec => NothingLeaves
<1>1. GraceTypeOK /\ [GraceNext]_graceVars =>
        [InGracePeriod =>
           /\ InGracePeriod'
           /\ \A r \in Reserves :
                /\ liquidity'[r] >= liquidity[r]
                /\ \A u \in Accounts :
                     /\ aScaled'[r][u] >= aScaled[r][u]
                     /\ vScaled'[r][u] <= vScaled[r][u]
                     /\ stable'[r][u] <= stable[r][u] \/ EnvironmentStep]_graceVars
  BY GraceStepKept, Zenon DEF Kept
<1> QED BY <1>1, GraceTypeCorrect, PTL DEF GraceSpec, NothingLeaves
=============================================================================
