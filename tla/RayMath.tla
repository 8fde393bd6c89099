------------------------------ MODULE RayMath ------------------------------
(***************************************************************************)
(* The fixed-point arithmetic of WadRayMath.sol and PercentageMath.sol:    *)
(* every operator rounds half up.  The units (1e27, 1e18 and 1e4 in the    *)
(* contracts) are parameters, so that a small instance rounds as visibly   *)
(* as a large one.  The `require`s of the source that refuse a product     *)
(* above 2^256-1 are not modelled: TLA+ integers are unbounded and the     *)
(* balances of the other modules are bounded far below that limit.         *)
(***************************************************************************)
EXTENDS Integers

CONSTANTS RAY,                \* WadRayMath.RAY, the unit of indexes and rates
          WAD,                \* WadRayMath.WAD, the unit of health factors
          PERCENTAGE_FACTOR   \* PercentageMath.PERCENTAGE_FACTOR, 100.00%

(* All three units are powers of ten in the source, hence even.            *)
ASSUME RayAssumption == RAY \in Nat \ {0} /\ RAY % 2 = 0
ASSUME WadAssumption == WAD \in Nat \ {0} /\ WAD % 2 = 0
ASSUME PercentageAssumption ==
         PERCENTAGE_FACTOR \in Nat \ {0} /\ PERCENTAGE_FACTOR % 2 = 0

halfRAY == RAY \div 2

\* Faults: they truncate instead of rounding half up.
rayMul_Truncated(a, b) == (a * b) \div RAY
rayDiv_Truncated(a, b) == (a * RAY) \div b

rayMul(a, b) == (a * b + halfRAY) \div RAY

\* The source reverts when b = 0; every caller guards or never meets it.
rayDiv(a, b) == (a * RAY + (b \div 2)) \div b

wadDiv(a, b) == (a * WAD + (b \div 2)) \div b

percentMul(value, percentage) ==
  (value * percentage + (PERCENTAGE_FACTOR \div 2)) \div PERCENTAGE_FACTOR

percentDiv(value, percentage) ==
  (value * PERCENTAGE_FACTOR + (percentage \div 2)) \div percentage
=============================================================================
