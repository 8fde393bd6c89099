---------------------------- MODULE GracePeriod ----------------------------
(***************************************************************************)
(* The pool behind its upgradeable proxy, and the implementation MoolaFix  *)
(* leaves behind (LendingPoolWithGracePeriod.sol, revision 5): the storage *)
(* is the one of LendingPool, and every operation that carries the         *)
(* modifier disabledDuringGracePeriod reverts.                             *)
(***************************************************************************)
EXTENDS LendingPool

CONSTANT Upgrades   \* implementations the owner may install

Implementations == {"LendingPool", "LendingPoolWithUpdateLiquidityIndex",
                    "LendingPoolWithGracePeriod"}

\* LENDINGPOOL_REVISION of each implementation.
revision ==
  [impl \in Implementations |->
     CASE impl = "LendingPool" -> 3
       [] impl = "LendingPoolWithUpdateLiquidityIndex" -> 4
       [] impl = "LendingPoolWithGracePeriod" -> 5]

\* Revision 4 is installed and replaced within one transaction of MoolaFix; its
\* writeOff and updateLiquidtyIndexForLoss are modelled there.
ASSUME UpgradesAssumption ==
  Upgrades \subseteq {"LendingPool", "LendingPoolWithGracePeriod"}

VARIABLES
  implementation,           \* what the proxy of the pool delegates to
  lastInitializedRevision   \* VersionedInitializable

graceVars == <<vars, implementation, lastInitializedRevision>>

InGracePeriod == implementation = "LendingPoolWithGracePeriod"

-----------------------------------------------------------------------------
(* LendingPoolAddressesProvider.setLendingPoolImpl: upgradeToAndCall calls *)
(* initialize of the new implementation, which its initializer refuses     *)
(* unless the revision grows.  The ledger is not touched.                  *)

\* Fault: the initializer clears a slot of the storage it takes over.
SetLendingPoolImpl_Clears(impl) ==
  /\ loan = NoLoan
  /\ revision[impl] > lastInitializedRevision
  /\ implementation' = impl
  /\ lastInitializedRevision' = revision[impl]
  /\ borrowing' = [u \in Accounts |-> {}]
  /\ UNCHANGED <<aTokenVars, debtVars, indexVars, accrued, liquidity,
                 usingAsCollateral, envVars, loan>>

\* Fault: the initializer does not record the revision it has initialized.
SetLendingPoolImpl_Unrecorded(impl) ==
  /\ loan = NoLoan
  /\ revision[impl] > lastInitializedRevision
  /\ implementation' = impl
  /\ UNCHANGED <<vars, lastInitializedRevision>>

SetLendingPoolImpl(impl) ==
  /\ loan = NoLoan
  /\ revision[impl] > lastInitializedRevision
  /\ implementation' = impl
  /\ lastInitializedRevision' = revision[impl]
  /\ UNCHANGED vars

-----------------------------------------------------------------------------
(* The operations that lack the modifier.                                  *)

\* Fault: repay is refused, as deposit is, in a frozen reserve.
GraceUserStep_NotFrozen(u) ==
  \E r \in Reserves \ frozen :
    \/ \E amount \in Amounts : Deposit(u, r, amount)
    \/ \E amount \in Amounts \cup {UintMax}, mode \in Modes, self \in BOOLEAN :
         Repay(u, r, amount, mode, self)
    \/ \E use \in BOOLEAN : SetUserUseReserveAsCollateral(u, r, use)

\* Fault: the modifier is missing from finalizeTransfer too.
GraceUserStep_Transfers(u) ==
  \E r \in Reserves :
    \/ \E amount \in Amounts :
         \/ Deposit(u, r, amount)
         \/ \E to \in Users : Transfer(u, to, r, amount)
    \/ \E amount \in Amounts \cup {UintMax}, mode \in Modes, self \in BOOLEAN :
         Repay(u, r, amount, mode, self)
    \/ \E use \in BOOLEAN : SetUserUseReserveAsCollateral(u, r, use)

GraceUserStep(u) ==
  \E r \in Reserves :
    \/ \E amount \in Amounts : Deposit(u, r, amount)
    \/ \E amount \in Amounts \cup {UintMax}, mode \in Modes, self \in BOOLEAN :
         Repay(u, r, amount, mode, self)
    \/ \E use \in BOOLEAN : SetUserUseReserveAsCollateral(u, r, use)

PoolStep ==
  \/ ~InGracePeriod /\ Next
  \/ InGracePeriod /\ \E u \in Users : GraceUserStep(u)
  \/ InGracePeriod /\ EnvironmentStep

GraceInit ==
  /\ Init
  /\ implementation = "LendingPool"
  /\ lastInitializedRevision = revision["LendingPool"]

GraceNext ==
  \/ PoolStep /\ UNCHANGED <<implementation, lastInitializedRevision>>
  \/ \E impl \in Upgrades : SetLendingPoolImpl(impl)

GraceSpec == GraceInit /\ [][GraceNext]_graceVars
-----------------------------------------------------------------------------
(* Properties.                                                             *)

GraceTypeOK ==
  /\ TypeOK
  /\ implementation \in Implementations
  /\ lastInitializedRevision = revision[implementation]

(* Once the grace period has begun it stays, and while it lasts nothing    *)
(* leaves the pool or an account: the cash of a reserve and everyone's     *)
(* deposits never fall, and only time makes anyone owe more                *)
(* (LendingPoolWithGracePeriod.disabledDuringGracePeriod).                 *)
NothingLeaves ==
  [][InGracePeriod =>
       /\ InGracePeriod'
       /\ \A r \in Reserves :
            /\ liquidity'[r] >= liquidity[r]
            /\ \A u \in Accounts :
                 /\ aScaled'[r][u] >= aScaled[r][u]
                 /\ vScaled'[r][u] <= vScaled[r][u]
                 /\ stable'[r][u] <= stable[r][u] \/ EnvironmentStep]_graceVars

(* The grace period is for debtors to repay: whoever owes anything, in a   *)
(* frozen reserve or not and however unhealthy, can repay all of it, and   *)
(* that clears the debt, unless the pool is paused.                        *)
DebtRepayable ==
  InGracePeriod /\ ~paused =>
    \A u \in Users, r \in Reserves :
      /\ vScaled[r][u] > 0 /\ liquidity[r] + variableDebt(u, r) <= MaxLiquidity
           => ENABLED (GraceUserStep(u) /\ vScaled'[r][u] = 0)
      /\ stable[r][u] > 0 /\ liquidity[r] + stable[r][u] <= MaxLiquidity
           => ENABLED (GraceUserStep(u) /\ stable'[r][u] = 0)
=============================================================================
