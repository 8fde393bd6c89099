--------------------------- MODULE MCGracePeriod ---------------------------
(* Small instances of GracePeriod: two users, CELO backing loans of cUSD.  *)
EXTENDS GracePeriod, TLC

CONSTANTS alice, bob, celo, cusd

Symmetry == Permutations(Users)

CeloOnly(x) == celo :> x @@ cusd :> 0
SteadyPrices == celo :> {20} @@ cusd :> {10}
HalfLtv == CeloOnly(5000)
HighThreshold == CeloOnly(7500)
TenPercentBonus == celo :> 11000 @@ cusd :> 11000
NothingToTreasury == celo :> 0 @@ cusd :> 0
SmallSupply == celo :> 10 @@ cusd :> 10
=============================================================================
