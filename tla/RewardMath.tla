----------------------------- MODULE RewardMath -----------------------------
(***************************************************************************)
(* The arithmetic of a settlement: internal/model/duel.go, DuelParams.     *)
(* The code computes in float64, the operators in integers.  They agree    *)
(* for the commissions 1, 5, 10 and 20; for others a pool whose commission *)
(* is a whole number or a half of one may come out one point lower in the  *)
(* code, which leaves PercentValue >= CommissionReward as it is.           *)
(* Amounts are duck points; USDC amounts are millionths (see Micro).       *)
(***************************************************************************)
EXTENDS Integers

\* 1 USDC is 1_000_000 units on chain
Micro == 1000000

\* Pool of NewDuelParams: every counted player's stake.
Pool(price, playersCount) == playersCount * price

\* math.Round((Pool / 100) * Commission), half away from zero
PercentValue(pool, commission) == (pool * commission + 50) \div 100

\* math.Floor(percentValue / 2): the owner's half of the commission
CommissionReward(pool, commission) == (pool * commission) \div 200

\* math.Floor(finalPool / WinnersCount)
FinalReward(pool, commission, winnersCount) ==
    (pool - PercentValue(pool, commission)) \div winnersCount

\* forgets the commission
Mutant_FinalCryptoReward(pool, commission, winnersCount) == (pool * Micro) \div winnersCount

\* uint64((Pool*1e6 - Pool*Commission*1e6/100) / WinnersCount): 1e6/100 is exact
FinalCryptoReward(pool, commission, winnersCount) ==
    (pool * Micro - pool * commission * (Micro \div 100)) \div winnersCount

\* uint64(percentValue / 2), the room owner's half
CryptoCommissionReward(pool, commission) ==
    (pool * commission * (Micro \div 100)) \div 2

\* playersPool := duel.PlayersCount - uint64(playersToRefund), in uint64
PlayersPool(playersCount, toRefund, modulus) == (playersCount - toRefund) % modulus
=============================================================================
