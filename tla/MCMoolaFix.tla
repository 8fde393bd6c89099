----------------------------- MODULE MCMoolaFix -----------------------------
(* Small post-exploit states for MoolaFix: CELO is drained beyond what the *)
(* recovery can repay, cUSD and MOO are not.                               *)
EXTENDS MoolaFix

CONSTANTS ally, trader, mooPool, supplier, debtor, celo, cusd, moo,
          Supplies, ExploiterDebts, Contributions, Indexes

CollectedReserves == <<celo, cusd>>
MemOfCelo == <<celo>>

CusdOnly(x) == celo :> 0 @@ cusd :> x @@ moo :> 0
SteadyPrices == celo :> {20} @@ cusd :> {10} @@ moo :> {1}
CusdLtv == CusdOnly(7500)
CusdThreshold == CusdOnly(8000)
TenPercentBonus == celo :> 11000 @@ cusd :> 11000 @@ moo :> 11000
NothingToTreasury == celo :> 0 @@ cusd :> 0 @@ moo :> 0
Unbounded == celo :> 1000 @@ cusd :> 1000 @@ moo :> 1000

Table(f) == [u \in Accounts |-> IF u \in DOMAIN f THEN f[u] ELSE 0]
None == Table(<<>>)

\* The state after the exploit, and the amounts the team read off it: the debts
\* as they are, the exploiter's in CELO with the unit populateMem adds to it.
State(s, e, w, i, v, mode) ==
  [aScaled |-> celo :> Table(OwnedWallet :> 10 @@ ally :> 10 @@ trader :> 20
                               @@ mooPool :> 10 @@ supplier :> s)
               @@ cusd :> Table(OwnedWallet :> 10 @@ supplier :> 45)
               @@ moo :> Table(exploiterAddress :> 30 @@ supplier :> 40),
   vScaled |-> celo :> Table(exploiterAddress :> e
                               @@ debtor :> IF mode = "variable" THEN 5 ELSE 0)
               @@ cusd :> Table(exploiterAddress :> 20 @@ testAccount :> 5)
               @@ moo :> Table(ally :> 15 @@ exploiterAddress :> 5 @@ testAccount :> 10),
   stable |-> celo :> Table(debtor :> IF mode = "stable" THEN 5 ELSE 0)
              @@ cusd :> Table(debtor :> 5) @@ moo :> None,
   liquidityIndex |-> celo :> i @@ cusd :> RAY @@ moo :> RAY,
   variableBorrowIndex |-> celo :> v @@ cusd :> v @@ moo :> RAY,
   wallet |-> celo :> w @@ cusd :> 80 @@ moo :> 80,
   badDebts |-> << [asset |-> celo, account |-> debtor, extra |-> 0],
                   [asset |-> celo, account |-> exploiterAddress, extra |-> 1],
                   [asset |-> cusd, account |-> debtor, extra |-> 0],
                   [asset |-> cusd, account |-> exploiterAddress, extra |-> 0],
                   [asset |-> moo, account |-> ally, extra |-> 0],
                   [asset |-> moo, account |-> exploiterAddress, extra |-> 0] >>,
   ally |-> ally,
   gains |-> <<ally, trader>>,
   pool |-> [account |-> mooPool, amount |-> rayMul(10, i)],
   toAdvantagers |-> 10, toPool |-> 10,
   firstRound |-> << [asset |-> celo, amount |-> w], [asset |-> cusd, amount |-> 15] >>]

\* Debts do not exceed deposits, the contribution suffices to withdraw what is
\* collected, and not to repay everything; the test loan rounds to itself.
Plausible(s) ==
  LET collected == rayMul(50, s.liquidityIndex[celo])
      debts == SumFunction(s.stable[celo])
                 + rayMul(SumFunction(s.vScaled[celo]), s.variableBorrowIndex[celo])
  IN /\ debts < rayMul(SumFunction(s.aScaled[celo]), s.liquidityIndex[celo])
     /\ s.wallet[celo] + CashOf(s, celo) >= collected + 4
     /\ s.wallet[celo] + collected + 5 < debts

SmallStates ==
  {s \in {State(supply, debt, contribution, i, v, mode) :
            supply \in Supplies, debt \in ExploiterDebts, contribution \in Contributions,
            i \in Indexes, v \in Indexes, mode \in Modes} : Plausible(s)}
=============================================================================
