--------------------------- MODULE MCLendingPool ---------------------------
(* Small instances of LendingPool: two users and two reserves.             *)
EXTENDS LendingPool, TLC

CONSTANTS alice, bob, celo, cusd, moo

Symmetry == Permutations(Users)

\* CELO backs loans of cUSD; cUSD itself cannot be collateral.
CeloOnly(x) == celo :> x @@ cusd :> 0
SteadyPrices == celo :> {20} @@ cusd :> {10}
HalfLtv == CeloOnly(5000)
TightThreshold == CeloOnly(5200)
TenPercentBonus == celo :> 11000 @@ cusd :> 11000
HalfToTreasury == celo :> 5000 @@ cusd :> 5000
SmallSupply == celo :> 20 @@ cusd :> 40

\* One reserve, cUSD, which is its own collateral.
CusdPrice == cusd :> {10}
CusdHalf == cusd :> 5000
CusdThreshold == cusd :> 5200
CusdBonus == cusd :> 11000
CusdSupply == cusd :> 60

\* Two collaterals with different thresholds, and a price for MOO at which
\* one unit of it is dust beside the rest, one that makes loans unhealthy.
MixedPrices == celo :> {50} @@ moo :> {1, 20, 40} @@ cusd :> {50}
MixedLtv == celo :> 50 @@ moo :> 20 @@ cusd :> 0
MixedThreshold == celo :> 50 @@ moo :> 20 @@ cusd :> 0
MixedBonus == celo :> 110 @@ moo :> 120 @@ cusd :> 110
MixedFactor == celo :> 0 @@ moo :> 0 @@ cusd :> 0
MixedSupply == celo :> 20 @@ moo :> 10 @@ cusd :> 20
=============================================================================
