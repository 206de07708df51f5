-------------------------- MODULE CommunityProofs --------------------------
(***************************************************************************)
(* What a user does besides playing.  That duels about a price are fair,   *)
(* for all prices, hours, delays and numbers of bettors, from the two      *)
(* facts PriceDuelsDeployment states of the configured constants.  That a  *)
(* task is paid as often as it was completed, a streak counts the days     *)
(* played in a row, and balance and level are what the rewards add up to,  *)
(* for all tasks, rewards, limits, tables of levels and numbers of days.   *)
(* That balances, referrals, friends and pictures of the accounts agree    *)
(* with each other, for any persons, amounts and requests side by side;    *)
(* that leaderboards of tournaments add up and rank who takes part; that   *)
(* transfers and swaps answer what became of them; and the types of the    *)
(* five components side by side.                                           *)
(***************************************************************************)
EXTENDS MCCommunity, ArithmeticProofs, FiniteSetTheorems, TLAPS

-----------------------------------------------------------------------------
(***************************************************************************)
(* Duels about a price.                                                    *)
(***************************************************************************)
USE PriceDuelsAssumption

-----------------------------------------------------------------------------
(* Arithmetic of hours and of targets *)

\* Quotient and remainder.
LEMMA DivMod ==
    ASSUME NEW a \in Nat, NEW b \in Nat \ {0}
    PROVE  /\ a \div b \in Int /\ a % b \in 0..(b - 1)
           /\ a = b * (a \div b) + (a % b)
  OBVIOUS

\* A tick either begins an hour, after the last tick of the one before, or is the next
\* tick of the same hour.
LEMMA NextTick ==
    ASSUME NEW c \in Nat
    PROVE  IF (c + 1) % HourTicks = 0 THEN c % HourTicks = HourTicks - 1
           ELSE (c + 1) % HourTicks = (c % HourTicks) + 1
<1> DEFINE h == HourTicks
           q == c \div h
           r == c % h
           n == (c + 1) \div h
           s == (c + 1) % h
<1>1. q \in Int /\ r \in 0..(h - 1) /\ c = h * q + r
  BY DivMod
<1>2. n \in Int /\ s \in 0..(h - 1) /\ c + 1 = h * n + s
  BY DivMod
<1>3. h \in Int /\ h > 0 /\ r \in Int /\ s \in Int
  BY <1>1, <1>2
<1> HIDE DEF h, q, r, n, s
<1>4. s = r + 1 + h * (q - n)
  BY <1>1, <1>2, <1>3
<1>5. CASE n = q
  BY <1>1, <1>2, <1>3, <1>4, <1>5 DEF h, r, s
<1>6. CASE n > q
  <2>1. h * (n - q) >= h
    BY <1>1, <1>2, <1>3, <1>6
  <2>2. h * (q - n) = -(h * (n - q))
    BY <1>1, <1>2, <1>3
  <2>3. s <= r + 1 - h
    BY <1>1, <1>2, <1>3, <1>4, <2>1, <2>2
  <2>4. s = 0 /\ r = h - 1
    BY <1>1, <1>2, <1>3, <2>3
  <2> QED
    BY <2>4 DEF h, r, s
<1>7. CASE n < q
  <2>1. h * (q - n) >= h
    BY <1>1, <1>2, <1>3, <1>7
  <2>2. s >= r + 1 + h
    BY <1>1, <1>2, <1>3, <1>4, <2>1
  <2> QED
    BY <1>1, <1>2, <1>3, <2>2
<1> QED
  BY <1>1, <1>2, <1>5, <1>6, <1>7

\* Rounding moves a price by half the grain at most.
LEMMA RoundingBound ==
    ASSUME NEW x \in Nat
    PROVE  /\ RoundToOnePercent(x) \in Int
           /\ 2 * RoundToOnePercent(x) <= 2 * x + Grain
           /\ 2 * RoundToOnePercent(x) > 2 * x - Grain
<1> DEFINE a == 2 * x + Grain
           b == 2 * Grain
           q == a \div b
           r == a % b
<1>1. a \in Nat /\ b \in Nat \ {0}
  OBVIOUS
<1>2. q \in Int /\ r \in 0..(b - 1) /\ a = b * q + r
  BY <1>1, DivMod
<1>3. RoundToOnePercent(x) = Grain * q
  BY DEF RoundToOnePercent
<1>4. 2 * (Grain * q) = b * q
  BY <1>2
<1> HIDE DEF q, r
<1>5. b * q <= a /\ b * q > a - b
  BY <1>1, <1>2
<1> QED
  BY <1>2, <1>3, <1>4, <1>5

\* A target lies beyond the price it is made of (newDuelInfoForAutoCreatedDuels,
\* RoundToOnePercent).
LEMMA TargetBeyond ==
    ASSUME NEW p \in Levels, p > CoinPriceDiff
    PROVE  Target(p, Up) > p /\ Target(p, Down) < p
<1>1. p \in Nat /\ p + CoinPriceDiff \in Nat /\ p - CoinPriceDiff \in Nat
  OBVIOUS
<1>2. Target(p, Up) = RoundToOnePercent(p + CoinPriceDiff)
  BY DEF Target
<1>3. Target(p, Down) = RoundToOnePercent(p - CoinPriceDiff)
  BY DEF Target, Up, Down
<1>4. 2 * RoundToOnePercent(p + CoinPriceDiff) > 2 * (p + CoinPriceDiff) - Grain
  BY <1>1, RoundingBound
<1>5. 2 * RoundToOnePercent(p - CoinPriceDiff) <= 2 * (p - CoinPriceDiff) + Grain
  BY <1>1, RoundingBound
<1>6. /\ RoundToOnePercent(p + CoinPriceDiff) \in Int
      /\ RoundToOnePercent(p - CoinPriceDiff) \in Int
  BY <1>1, RoundingBound
<1> QED
  BY <1>1, <1>2, <1>3, <1>4, <1>5, <1>6, PriceDuelsDeployment

-----------------------------------------------------------------------------
(* The invariant *)

PriceKinds == {"usdc", "duck"}
Seat == [answer : Int, at : Int]
HighLow == [high : Levels, low : Levels]

Live == [status : {"inProcess"}, target : Int, event : Int, deadline : Int, players : Int]
Closed == [status : {"resolved", "cancelled"}, target : Int, event : Int, deadline : Int,
           players : Int, answer : {0, 1}, winners : SUBSET Bettors,
           how : {"early", "late"}, touched : SUBSET Int]

PricesTyped ==
    /\ clock \in Nat /\ price \in Levels
    /\ forming \in HighLow /\ bar \in HighLow \cup {NoBar}
    /\ seen \in [Levels -> Int] /\ \A l \in Levels : seen[l] <= clock

DuelsTyped ==
    /\ auto \in [Slots -> {NoAuto} \cup Live \cup Closed]
    /\ bets \in [Slots -> [Bettors -> Seat]]
    /\ made \in [at : {"rest", "done"}] \cup [at : {"duck"}, price : Levels]

RunsTyped == run \in [PriceKinds -> {NoRun} \cup [at : {"read"}, bar : HighLow, since : Int]]

HourStart == clock - (clock % HourTicks)

\* The high and the low of an hour were the price during that hour.
HoursSeen ==
    /\ seen[forming.high] >= HourStart /\ seen[forming.low] >= HourStart
    /\ bar # NoBar =>
        /\ seen[bar.high] >= HourStart - HourTicks
        /\ seen[bar.low] >= HourStart - HourTicks

\* A run is at most MaxLag old, and the hour it read was at most two hours old then.
RunRecent ==
    \A k \in PriceKinds : run[k].at = "read" =>
        /\ run[k].since <= clock /\ clock <= run[k].since + MaxLag
        /\ seen[run[k].bar.high] > run[k].since - 2 * HourTicks
        /\ seen[run[k].bar.low] > run[k].since - 2 * HourTicks

\* What is not made yet has no seats; what is made counts them, the owner's included.
SeatsCounted(d) ==
    IF auto[d] = NoAuto THEN SeatsOf(d) = {}
    ELSE /\ IsFiniteSet(SeatsOf(d)) /\ auto[d].players = Cardinality(SeatsOf(d))
         /\ d[2] = "duck" => House \in SeatsOf(d)

MadeInTurn ==
    /\ made.at = "rest" => \A d \in Slots : auto[d] = NoAuto
    /\ made.at = "duck" => \A d \in Slots : d[2] = "duck" => auto[d] = NoAuto

FairWinners(d) ==
    auto[d].status = "resolved" =>
        \A u \in auto[d].winners :
            IF auto[d].how = "early" THEN \E t \in auto[d].touched : bets[d][u].at <= t
            ELSE bets[d][u].at <= auto[d].deadline

PricesInv ==
    /\ PricesTyped /\ DuelsTyped /\ RunsTyped /\ HoursSeen /\ RunRecent /\ MadeInTurn
    /\ \A d \in Slots : SeatsCounted(d) /\ FairWinners(d)

\* What the three kinds of state have to do with each other: steps that leave prices, the
\* runs or the duels alone keep the parts that are about them.
LEMMA PricesRest ==
    ASSUME PricesInv, UNCHANGED <<clock, price, forming, bar, seen>>
    PROVE  PricesTyped' /\ HoursSeen'
  BY DEF PricesInv, PricesTyped, HoursSeen, HourStart

LEMMA RunsRest ==
    ASSUME PricesInv, UNCHANGED <<clock, seen, run>>
    PROVE  RunsTyped' /\ RunRecent'
  BY DEF PricesInv, RunsTyped, RunRecent

LEMMA DuelsRest ==
    ASSUME PricesInv, UNCHANGED <<auto, bets, made>>
    PROVE  /\ DuelsTyped' /\ MadeInTurn'
           /\ \A d \in Slots : SeatsCounted(d)' /\ FairWinners(d)'
  BY DEF PricesInv, DuelsTyped, MadeInTurn, SeatsCounted, FairWinners, SeatsOf

LEMMA InitKeeps == PriceDuelsInit => PricesInv
<1> SUFFICES ASSUME PriceDuelsInit PROVE PricesInv
  OBVIOUS
<1> USE DEF PriceDuelsInit
<1>1. PricesTyped
  BY DEF PricesTyped, HighLow
<1>2. DuelsTyped
  BY DEF DuelsTyped, Seat, NoBet
<1>3. RunsTyped
  BY DEF RunsTyped, PriceKinds
<1>4. 0 % HourTicks = 0
  <2>1. 0 % HourTicks \in 0..(HourTicks - 1) /\ 0 = HourTicks * (0 \div HourTicks) + (0 % HourTicks)
    BY DivMod
  <2>2. 0 \div HourTicks \in Int
    BY DivMod
  <2> QED
    BY <2>1, <2>2
<1>5. HoursSeen
  BY <1>4 DEF HoursSeen, HourStart
<1>6. RunRecent
  BY DEF RunRecent, PriceKinds, NoRun
<1>7. MadeInTurn
  BY DEF MadeInTurn
<1>8. ASSUME NEW d \in Slots PROVE SeatsCounted(d) /\ FairWinners(d)
  BY DEF SeatsCounted, FairWinners, SeatsOf, NoAuto
<1> QED
  BY <1>1, <1>2, <1>3, <1>5, <1>6, <1>7, <1>8 DEF PricesInv

-----------------------------------------------------------------------------
(* The price moves *)

LEMMA PriceMovesKeeps ==
    ASSUME PricesInv, NEW p \in Levels, PriceMoves(p)
    PROVE  PricesInv'
<1>1. /\ clock' = clock + 1 /\ price' = p /\ clock \in Nat /\ p \in Nat
      /\ seen' = [seen EXCEPT ![p] = clock + 1] /\ seen \in [Levels -> Int]
      /\ \A l \in Levels : seen[l] <= clock
      /\ forming \in HighLow /\ bar \in HighLow \cup {NoBar}
  BY DEF PricesInv, PricesTyped, PriceMoves
<1>2. forming.high \in Levels /\ forming.low \in Levels
  BY <1>1 DEF HighLow
<1>3. seen' \in [Levels -> Int] /\ \A l \in Levels : seen[l] <= seen'[l] /\ seen'[l] <= clock'
  BY <1>1
<1>4. seen'[p] = clock'
  BY <1>1
<1>5. clock % HourTicks \in 0..(HourTicks - 1) /\ clock' % HourTicks \in 0..(HourTicks - 1)
  <2>1. clock' \in Nat
    BY <1>1
  <2>2. ASSUME NEW t \in Nat PROVE t % HourTicks \in 0..(HourTicks - 1)
    BY DivMod
  <2> QED
    BY <1>1, <2>1, <2>2
<1>6. IF clock' % HourTicks = 0 THEN clock % HourTicks = HourTicks - 1
      ELSE clock' % HourTicks = (clock % HourTicks) + 1
  BY <1>1, NextTick
<1>7. HourStart \in Int /\ HourStart' \in Int /\ HourStart' <= clock'
  BY <1>1, <1>5 DEF HourStart
<1>8. PricesTyped' /\ HoursSeen'
  <2>1. CASE clock' % HourTicks = 0
    <3>1. bar' = forming /\ forming' = [high |-> p, low |-> p]
      BY <1>1, <2>1 DEF PriceMoves
    <3>2. HourStart' - HourTicks = HourStart
      BY <1>1, <1>5, <1>6, <2>1 DEF HourStart
    <3>3. seen[forming.high] >= HourStart /\ seen[forming.low] >= HourStart
      BY DEF PricesInv, HoursSeen
    <3>4. seen'[forming.high] >= HourStart /\ seen'[forming.low] >= HourStart
      BY <1>1, <1>2, <1>3, <1>7, <3>3
    <3>5. PricesTyped'
      BY <1>1, <1>3, <3>1 DEF PricesTyped, HighLow
    <3> QED
      BY <1>4, <1>7, <3>1, <3>2, <3>4, <3>5 DEF HoursSeen
  <2>2. CASE clock' % HourTicks # 0
    <3>1. /\ bar' = bar
          /\ forming' = [high |-> IF p > forming.high THEN p ELSE forming.high,
                         low |-> IF p < forming.low THEN p ELSE forming.low]
      BY <1>1, <2>2 DEF PriceMoves
    <3>2. HourStart' = HourStart
      BY <1>1, <1>5, <1>6, <2>2 DEF HourStart
    <3>3. /\ seen[forming.high] >= HourStart /\ seen[forming.low] >= HourStart
          /\ bar # NoBar => /\ seen[bar.high] >= HourStart - HourTicks
                            /\ seen[bar.low] >= HourStart - HourTicks
      BY DEF PricesInv, HoursSeen
    <3>4. forming'.high \in {p, forming.high} /\ forming'.low \in {p, forming.low}
      BY <3>1
    <3>5. seen'[forming'.high] >= HourStart' /\ seen'[forming'.low] >= HourStart'
      BY <1>1, <1>2, <1>3, <1>4, <1>7, <3>2, <3>3, <3>4
    <3>6. ASSUME bar # NoBar
          PROVE  /\ seen'[bar.high] >= HourStart' - HourTicks
                 /\ seen'[bar.low] >= HourStart' - HourTicks
      <4>1. bar.high \in Levels /\ bar.low \in Levels
        BY <1>1, <3>6 DEF HighLow
      <4> QED
        BY <1>1, <1>3, <1>7, <3>2, <3>3, <3>6, <4>1
    <3>7. PricesTyped'
      BY <1>1, <1>2, <1>3, <3>1 DEF PricesTyped, HighLow
    <3> QED
      BY <3>1, <3>5, <3>6, <3>7 DEF HoursSeen, NoBar
  <2> QED
    BY <2>1, <2>2
<1>9. RunsTyped' /\ RunRecent'
  <2>1. run' = run /\ RunsTyped /\ RunRecent /\ DOMAIN run = PriceKinds
    BY DEF PriceMoves, PricesInv, RunsTyped
  <2>2. ASSUME NEW k \in PriceKinds, run[k].at = "read"
        PROVE  /\ run[k].since <= clock' /\ clock' <= run[k].since + MaxLag
               /\ seen'[run[k].bar.high] > run[k].since - 2 * HourTicks
               /\ seen'[run[k].bar.low] > run[k].since - 2 * HourTicks
    <3>1. run[k] \in [at : {"read"}, bar : HighLow, since : Int]
      BY <2>1, <2>2 DEF RunsTyped, NoRun
    <3>2. /\ run[k].bar.high \in Levels /\ run[k].bar.low \in Levels
          /\ run[k].since \in Int
      BY <3>1 DEF HighLow
    <3>3. clock < run[k].since + MaxLag
      BY <2>1, <2>2 DEF PriceMoves
    <3>4. /\ run[k].since <= clock
          /\ seen[run[k].bar.high] > run[k].since - 2 * HourTicks
          /\ seen[run[k].bar.low] > run[k].since - 2 * HourTicks
      BY <2>1, <2>2 DEF RunRecent
    <3> QED
      BY <1>1, <1>3, <3>2, <3>3, <3>4
  <2> QED
    BY <2>1, <2>2 DEF RunsTyped, RunRecent
<1>10. UNCHANGED <<auto, bets, made>>
  BY DEF PriceMoves
<1> QED
  BY <1>8, <1>9, <1>10, DuelsRest DEF PricesInv

-----------------------------------------------------------------------------
(* Duels are made and joined *)

\* A new duel's columns.
LEMMA NewAutoIsLive ==
    ASSUME NEW p \in Levels, NEW direction, clock \in Nat
    PROVE  /\ NewAuto(p, direction).status = "inProcess"
           /\ NewAuto(p, direction).players = 0
           /\ Target(p, direction) \in Int => NewAuto(p, direction) \in Live
  BY DEF NewAuto, Live

LEMMA TargetTyped ==
    ASSUME NEW p \in Levels, NEW direction
    PROVE  Target(p, direction) \in Int
<1>1. ASSUME NEW x \in Int PROVE RoundToOnePercent(x) \in Int
  BY <1>1 DEF RoundToOnePercent
<1>2. p + CoinPriceDiff \in Int /\ p - CoinPriceDiff \in Int
  OBVIOUS
<1> QED
  BY <1>1, <1>2 DEF Target

\* A duel is made once, and its seats come after.
LEMMA MadeOnce ==
    ASSUME NEW d \in Slots, NEW a \in Live \cup Closed
    PROVE  a # NoAuto
  BY DEF Live, Closed, NoAuto

LEMMA CreateDuelsBulkKeeps ==
    ASSUME PricesInv, CreateDuelsBulk
    PROVE  PricesInv'
<1>1. /\ UNCHANGED <<clock, price, forming, bar, bets, run, lookups, seen>>
      /\ auto' = [d \in Slots |-> IF d[2] = "usdc" THEN NewAuto(price, d[1]) ELSE auto[d]]
      /\ made' = [at |-> "duck", price |-> price]
      /\ made.at = "rest"
  BY DEF CreateDuelsBulk
<1>2. \A d \in Slots : auto[d] = NoAuto /\ SeatsCounted(d)
  BY <1>1 DEF PricesInv, MadeInTurn
<1>3. \A d \in Slots : NewAuto(price, d[1]) \in Live /\ NewAuto(price, d[1]).players = 0
  BY NewAutoIsLive, TargetTyped DEF PricesInv, PricesTyped
<1>4. DuelsTyped'
  BY <1>1, <1>3 DEF PricesInv, DuelsTyped, PricesTyped
<1>5. MadeInTurn'
  BY <1>1, <1>2 DEF MadeInTurn
<1>6. ASSUME NEW d \in Slots PROVE SeatsCounted(d)' /\ FairWinners(d)'
  <2>1. SeatsOf(d)' = {}
    BY <1>1, <1>2 DEF SeatsCounted, SeatsOf
  <2>2. CASE d[2] = "usdc"
    <3>1. auto'[d] = NewAuto(price, d[1])
      BY <1>1, <2>2
    <3>2. auto'[d] \in Live /\ auto'[d].players = 0 /\ auto'[d] # NoAuto
      BY <1>3, <3>1, MadeOnce
    <3>3. auto'[d].status # "resolved"
      BY <3>2 DEF Live
    <3> QED
      BY <2>1, <2>2, <3>2, <3>3, FS_EmptySet DEF SeatsCounted, FairWinners
  <2>3. CASE d[2] # "usdc"
    BY <1>1, <1>2, <2>1, <2>3 DEF SeatsCounted, FairWinners, NoAuto
  <2> QED
    BY <2>2, <2>3
<1>7. /\ PricesTyped' /\ HoursSeen' /\ RunsTyped' /\ RunRecent'
  BY <1>1, PricesRest, RunsRest
<1> QED
  BY <1>4, <1>5, <1>6, <1>7 DEF PricesInv

LEMMA CreateDuelsWithJoinKeeps ==
    ASSUME PricesInv, NEW answers \in [{Down, Up} -> {0, 1}], CreateDuelsWithJoin(answers)
    PROVE  PricesInv'
<1>1. /\ UNCHANGED <<clock, price, forming, bar, run, lookups, seen>>
      /\ auto' = [d \in Slots |-> IF d[2] = "duck"
            THEN [NewAuto(made.price, d[1]) EXCEPT !.players = 1] ELSE auto[d]]
      /\ bets' = [d \in Slots |-> IF d[2] = "duck"
            THEN [bets[d] EXCEPT ![House] = [answer |-> answers[d[1]], at |-> clock]]
            ELSE bets[d]]
      /\ made' = [at |-> "done"] /\ made.at = "duck"
  BY DEF CreateDuelsWithJoin, JoinDuelBulk
<1>2. /\ bets \in [Slots -> [Bettors -> Seat]] /\ clock \in Nat
      /\ made.price \in Levels
      /\ auto \in [Slots -> {NoAuto} \cup Live \cup Closed]
  BY <1>1 DEF PricesInv, DuelsTyped, PricesTyped
<1>3. ASSUME NEW d \in Slots, d[2] = "duck"
      PROVE  /\ auto'[d] \in Live /\ auto'[d].players = 1
             /\ bets'[d] \in [Bettors -> Seat] /\ SeatsOf(d)' = {House}
  <2>1. NewAuto(made.price, d[1]) \in Live
    BY <1>2, NewAutoIsLive, TargetTyped
  <2>2. auto'[d] = [NewAuto(made.price, d[1]) EXCEPT !.players = 1]
    BY <1>1, <1>3
  <2>3. auto'[d] \in Live /\ auto'[d].players = 1
    BY <2>1, <2>2 DEF Live
  <2>4. d[1] \in {Down, Up}
    BY DEF Slots
  <2>5. bets'[d] = [bets[d] EXCEPT ![House] = [answer |-> answers[d[1]], at |-> clock]]
    BY <1>1, <1>3
  <2>6. [answer |-> answers[d[1]], at |-> clock] \in Seat /\ answers[d[1]] \in {0, 1}
    BY <1>2, <2>4 DEF Seat
  <2>7. bets'[d] \in [Bettors -> Seat]
    BY <1>2, <2>5, <2>6
  <2>8. auto[d] = NoAuto
    BY <1>1, <1>3 DEF PricesInv, MadeInTurn
  <2>9. \A u \in Bettors : bets[d][u] = NoBet
    BY <2>8 DEF PricesInv, SeatsCounted, SeatsOf
  <2>10. [answer |-> answers[d[1]], at |-> clock] # NoBet
    BY <2>6 DEF NoBet
  <2>11. \A u \in Bettors : bets'[d][u] # NoBet <=> u = House
    BY <1>2, <2>5, <2>9, <2>10
  <2> QED
    BY <2>3, <2>7, <2>11 DEF SeatsOf
<1>4. ASSUME NEW d \in Slots, d[2] # "duck"
      PROVE  auto'[d] = auto[d] /\ bets'[d] = bets[d]
  BY <1>1, <1>4
<1>5. DuelsTyped'
  BY <1>1, <1>2, <1>3, <1>4 DEF DuelsTyped
<1>6. MadeInTurn'
  BY <1>1 DEF MadeInTurn
<1>7. ASSUME NEW d \in Slots PROVE SeatsCounted(d)' /\ FairWinners(d)'
  <2>1. CASE d[2] = "duck"
    <3>1. auto'[d] # NoAuto /\ auto'[d].status # "resolved"
      BY <1>3, <2>1, MadeOnce DEF Live
    <3>2. IsFiniteSet({House}) /\ Cardinality({House}) = 1
      BY FS_Singleton
    <3>3. SeatsOf(d)' = {House} /\ auto'[d].players = 1
      BY <1>3, <2>1
    <3>4. SeatsCounted(d)'
      BY <3>1, <3>2, <3>3 DEF SeatsCounted
    <3> QED
      BY <3>1, <3>4 DEF FairWinners
  <2>2. CASE d[2] # "duck"
    <3>1. auto'[d] = auto[d] /\ bets'[d] = bets[d]
      BY <1>4, <2>2
    <3>2. SeatsOf(d)' = SeatsOf(d)
      BY <3>1 DEF SeatsOf
    <3> QED
      BY <3>1, <3>2 DEF PricesInv, SeatsCounted, FairWinners
  <2> QED
    BY <2>1, <2>2
<1>8. /\ PricesTyped' /\ HoursSeen' /\ RunsTyped' /\ RunRecent'
  BY <1>1, PricesRest, RunsRest
<1> QED
  BY <1>5, <1>6, <1>7, <1>8 DEF PricesInv

LEMMA CreateDuelsFailsKeeps ==
    ASSUME PricesInv, CreateDuelsFails
    PROVE  PricesInv'
<1>1. /\ UNCHANGED <<clock, price, forming, bar, auto, bets, run, lookups, seen>>
      /\ made' = [at |-> "done"]
  BY DEF CreateDuelsFails
<1>2. DuelsTyped' /\ MadeInTurn'
  BY <1>1 DEF PricesInv, DuelsTyped, MadeInTurn
<1>3. ASSUME NEW d \in Slots PROVE SeatsCounted(d)' /\ FairWinners(d)'
  BY <1>1 DEF PricesInv, SeatsCounted, FairWinners, SeatsOf
<1>4. /\ PricesTyped' /\ HoursSeen' /\ RunsTyped' /\ RunRecent'
  BY <1>1, PricesRest, RunsRest
<1> QED
  BY <1>2, <1>3, <1>4 DEF PricesInv

LEMMA JoinPriceDuelKeeps ==
    ASSUME PricesInv, NEW d \in Slots, NEW u \in Bettors \ {House}, NEW answer \in {0, 1},
           JoinPriceDuel(d, u, answer)
    PROVE  PricesInv'
<1>1. /\ UNCHANGED <<clock, price, forming, bar, made, run, lookups, seen>>
      /\ auto[d].status = "inProcess" /\ bets[d][u] = NoBet
      /\ bets' = [bets EXCEPT ![d][u] = [answer |-> answer, at |-> clock]]
      /\ auto' = [auto EXCEPT ![d].players = @ + 1]
  BY DEF JoinPriceDuel
<1>2. /\ bets \in [Slots -> [Bettors -> Seat]] /\ clock \in Nat
      /\ auto \in [Slots -> {NoAuto} \cup Live \cup Closed]
  BY <1>1 DEF PricesInv, DuelsTyped, PricesTyped
<1>3. auto[d] \in Live
  BY <1>1, <1>2 DEF NoAuto, Closed
<1>4. auto'[d] = [auto[d] EXCEPT !.players = @ + 1]
  BY <1>1, <1>2
<1>5. auto'[d] \in Live /\ auto'[d].players = auto[d].players + 1 /\ auto[d].players \in Int
  BY <1>3, <1>4 DEF Live
<1>6. bets'[d] = [bets[d] EXCEPT ![u] = [answer |-> answer, at |-> clock]]
  BY <1>1, <1>2
<1>7. bets' \in [Slots -> [Bettors -> Seat]]
  BY <1>1, <1>2 DEF Seat
<1>8. \A e \in Slots \ {d} : auto'[e] = auto[e] /\ bets'[e] = bets[e]
  BY <1>1, <1>2
<1>9. DuelsTyped'
  BY <1>1, <1>2, <1>5, <1>7, <1>8 DEF PricesInv, DuelsTyped
<1>10. MadeInTurn'
  BY <1>1, <1>2, <1>3, <1>8, MadeOnce DEF PricesInv, MadeInTurn
<1>11. ASSUME NEW e \in Slots PROVE SeatsCounted(e)' /\ FairWinners(e)'
  <2>1. CASE e = d
    <3>1. SeatsOf(d)' = SeatsOf(d) \cup {u} /\ u \notin SeatsOf(d)
      <4>1. [answer |-> answer, at |-> clock] # NoBet
        BY DEF NoBet
      <4> QED
        BY <1>1, <1>2, <1>6, <4>1 DEF SeatsOf
    <3>2. /\ IsFiniteSet(SeatsOf(d)) /\ auto[d].players = Cardinality(SeatsOf(d))
          /\ d[2] = "duck" => House \in SeatsOf(d)
      BY <1>3, MadeOnce DEF PricesInv, SeatsCounted
    <3>3. /\ IsFiniteSet(SeatsOf(d) \cup {u})
          /\ Cardinality(SeatsOf(d) \cup {u}) = Cardinality(SeatsOf(d)) + 1
      BY <3>1, <3>2, FS_AddElement
    <3>4. auto'[d] # NoAuto /\ auto'[d].status # "resolved"
      BY <1>5, MadeOnce DEF Live
    <3>5. SeatsCounted(d)'
      BY <1>5, <3>1, <3>2, <3>3, <3>4 DEF SeatsCounted
    <3> QED
      BY <2>1, <3>4, <3>5 DEF FairWinners
  <2>2. CASE e # d
    <3>1. auto'[e] = auto[e] /\ bets'[e] = bets[e]
      BY <1>8, <2>2
    <3>2. SeatsOf(e)' = SeatsOf(e)
      BY <3>1 DEF SeatsOf
    <3> QED
      BY <3>1, <3>2 DEF PricesInv, SeatsCounted, FairWinners
  <2> QED
    BY <2>1, <2>2
<1>12. /\ PricesTyped' /\ HoursSeen' /\ RunsTyped' /\ RunRecent'
  BY <1>1, PricesRest, RunsRest
<1> QED
  BY <1>9, <1>10, <1>11, <1>12 DEF PricesInv

-----------------------------------------------------------------------------
(* The hour is read, duels are settled *)

LEMMA GetHighLowHourlyKeeps ==
    ASSUME PricesInv, NEW k \in PriceKinds, GetHighLowHourly(k)
    PROVE  PricesInv'
<1>1. /\ UNCHANGED <<clock, price, forming, bar, auto, bets, made, seen>>
      /\ run' = [run EXCEPT ![k] = [at |-> "read", bar |-> bar, since |-> clock]]
      /\ bar # NoBar
  BY DEF GetHighLowHourly
<1>2. /\ clock \in Nat /\ bar \in HighLow /\ seen \in [Levels -> Int]
      /\ run \in [PriceKinds -> {NoRun} \cup [at : {"read"}, bar : HighLow, since : Int]]
  BY <1>1 DEF PricesInv, PricesTyped, RunsTyped
<1>3. RunsTyped'
  BY <1>1, <1>2 DEF RunsTyped
<1>4. /\ seen[bar.high] > clock - 2 * HourTicks /\ seen[bar.low] > clock - 2 * HourTicks
  <2>1. seen[bar.high] >= HourStart - HourTicks /\ seen[bar.low] >= HourStart - HourTicks
    BY <1>1 DEF PricesInv, HoursSeen
  <2>2. clock % HourTicks \in 0..(HourTicks - 1)
    BY <1>2, DivMod
  <2>3. seen[bar.high] \in Int /\ seen[bar.low] \in Int
    BY <1>2 DEF HighLow
  <2> QED
    BY <1>2, <2>1, <2>2, <2>3 DEF HourStart
<1>5. RunRecent'
  <2>1. run'[k] = [at |-> "read", bar |-> bar, since |-> clock]
    BY <1>1, <1>2
  <2>2. \A j \in PriceKinds \ {k} : run'[j] = run[j]
    BY <1>1, <1>2
  <2>3. ASSUME NEW j \in PriceKinds, run'[j].at = "read"
        PROVE  /\ run'[j].since <= clock /\ clock <= run'[j].since + MaxLag
               /\ seen[run'[j].bar.high] > run'[j].since - 2 * HourTicks
               /\ seen[run'[j].bar.low] > run'[j].since - 2 * HourTicks
    <3>1. CASE j = k
      BY <1>2, <1>4, <2>1, <3>1
    <3>2. CASE j # k
      BY <2>2, <2>3, <3>2 DEF PricesInv, RunRecent
    <3> QED
      BY <3>1, <3>2
  <2> QED
    BY <1>1, <2>3 DEF RunRecent
<1> QED
  BY <1>1, <1>3, <1>5, PricesRest, DuelsRest DEF PricesInv

LEMMA RunEndsKeeps ==
    ASSUME PricesInv, NEW k \in PriceKinds, RunEnds(k)
    PROVE  PricesInv'
<1>1. /\ UNCHANGED <<clock, price, forming, bar, auto, bets, made, lookups, seen>>
      /\ run' = [run EXCEPT ![k] = NoRun]
  BY DEF RunEnds
<1>2. RunsTyped' /\ RunRecent'
  BY <1>1 DEF PricesInv, RunsTyped, RunRecent, NoRun
<1> QED
  BY <1>1, <1>2, PricesRest, DuelsRest DEF PricesInv

\* A settlement closes a duel of which it changes nothing else.
LEMMA SettledTyped ==
    ASSUME PricesInv, NEW d \in Slots, auto[d] \in Live, NEW answer \in {0, 1},
           NEW joinNotBefore \in Int, NEW how \in {"early", "late"}
    PROVE  /\ Settled(d, answer, joinNotBefore, how) \in Closed
           /\ Settled(d, answer, joinNotBefore, how).players = auto[d].players
           /\ Settled(d, answer, joinNotBefore, how).deadline = auto[d].deadline
           /\ Settled(d, answer, joinNotBefore, how).how = how
           /\ \A u \in Settled(d, answer, joinNotBefore, how).winners :
                u \in Bettors /\ bets[d][u].at <= joinNotBefore
           /\ \A l \in Levels : DetermineWinningBet(d, l) = 1 =>
                seen[l] \in Settled(d, answer, joinNotBefore, how).touched
<1> DEFINE s == Settled(d, answer, joinNotBefore, how)
           pool == {u \in SeatsOf(d) : bets[d][u].at <= joinNotBefore}
           right == {u \in pool : bets[d][u].answer = answer}
           there == {seen[l] : l \in {m \in Levels : DetermineWinningBet(d, m) = 1}}
<1>1. s = [status |-> IF right = {} \/ right = pool THEN "cancelled" ELSE "resolved",
           target |-> auto[d].target, event |-> auto[d].event, deadline |-> auto[d].deadline,
           players |-> auto[d].players, answer |-> answer, winners |-> right, how |-> how,
           touched |-> there]
  BY DEF Settled
<1>2. there \subseteq Int
  BY DEF PricesInv, PricesTyped
<1>3. right \subseteq Bettors /\ \A u \in right : bets[d][u].at <= joinNotBefore
  BY DEF SeatsOf
<1>4. \A l \in Levels : DetermineWinningBet(d, l) = 1 => seen[l] \in there
  OBVIOUS
<1> HIDE DEF s, right, there, pool
<1>5. s \in Closed
  BY <1>1, <1>2, <1>3 DEF Closed, Live
<1>6. /\ s.players = auto[d].players /\ s.deadline = auto[d].deadline /\ s.how = how
      /\ s.winners = right /\ s.touched = there
  BY <1>1
<1> QED
  BY <1>3, <1>4, <1>5, <1>6 DEF s

\* What remains to be shown of a settlement is that its winners are fair.
LEMMA SettlesFairly ==
    ASSUME PricesInv, NEW d \in Slots, auto[d] \in Live, NEW new \in Closed,
           new.players = auto[d].players, auto' = [auto EXCEPT ![d] = new],
           UNCHANGED <<clock, price, forming, bar, bets, made, run, lookups, seen>>,
           FairWinners(d)'
    PROVE  PricesInv'
<1>1. auto \in [Slots -> {NoAuto} \cup Live \cup Closed]
  BY DEF PricesInv, DuelsTyped
<1>2. auto'[d] = new /\ \A e \in Slots \ {d} : auto'[e] = auto[e]
  BY <1>1
<1>3. auto[d] # NoAuto /\ new # NoAuto
  BY MadeOnce
<1>4. DuelsTyped'
  BY <1>1 DEF PricesInv, DuelsTyped
<1>5. MadeInTurn'
  BY <1>2, <1>3 DEF PricesInv, MadeInTurn
<1>6. ASSUME NEW e \in Slots PROVE SeatsCounted(e)' /\ FairWinners(e)'
  <2>1. SeatsOf(e)' = SeatsOf(e)
    BY DEF SeatsOf
  <2>2. CASE e = d
    BY <1>2, <1>3, <2>1, <2>2 DEF PricesInv, SeatsCounted
  <2>3. CASE e # d
    BY <1>2, <2>1, <2>3 DEF PricesInv, SeatsCounted, FairWinners
  <2> QED
    BY <2>2, <2>3
<1>7. PricesTyped' /\ HoursSeen' /\ RunsTyped' /\ RunRecent'
  BY PricesRest, RunsRest
<1> QED
  BY <1>4, <1>5, <1>6, <1>7 DEF PricesInv

\* The price that made the run settle was seen after every seat that counts.
LEMMA ResolveBeforeEventDateKeeps ==
    ASSUME PricesInv, NEW d \in Slots, ResolveBeforeEventDate(d)
    PROVE  PricesInv'
<1> DEFINE k == d[2]
           limit == clock - ResolveJoinNotBefore
           s == Settled(d, 1, limit, "early")
<1>1. /\ run[k].at = "read" /\ auto[d].status = "inProcess"
      /\ ReachedPriceBeforeEventDate(d, run[k].bar)
      /\ auto' = [auto EXCEPT ![d] = s]
      /\ UNCHANGED <<clock, price, forming, bar, bets, made, run, lookups, seen>>
  BY DEF ResolveBeforeEventDate, Active, Open
<1>2. k \in PriceKinds /\ d[1] \in {Down, Up}
  BY DEF Slots, PriceKinds
<1>3. auto \in [Slots -> {NoAuto} \cup Live \cup Closed] /\ auto[d] \in Live
  BY <1>1 DEF PricesInv, DuelsTyped, NoAuto, Closed
<1>4. /\ clock \in Nat /\ run[k].since \in Int /\ seen \in [Levels -> Int]
      /\ run[k].bar.high \in Levels /\ run[k].bar.low \in Levels
  BY <1>1, <1>2 DEF PricesInv, PricesTyped, RunsTyped, NoRun, HighLow
<1>5. limit \in Int
  BY <1>4
<1>6. seen[run[k].bar.high] >= limit /\ seen[run[k].bar.low] >= limit
  <2>1. /\ clock <= run[k].since + MaxLag
        /\ seen[run[k].bar.high] > run[k].since - 2 * HourTicks
        /\ seen[run[k].bar.low] > run[k].since - 2 * HourTicks
    BY <1>1, <1>2 DEF PricesInv, RunRecent
  <2>2. seen[run[k].bar.high] \in Int /\ seen[run[k].bar.low] \in Int
    BY <1>4
  <2>3. limit <= run[k].since - 2 * HourTicks + 1
    BY <1>4, <2>1, PriceDuelsDeployment
  <2> HIDE DEF limit, k
  <2> QED
    BY <1>4, <1>5, <2>1, <2>2, <2>3
<1>7. PICK l \in Levels : DetermineWinningBet(d, l) = 1 /\ seen[l] >= limit
  BY <1>1, <1>2, <1>4, <1>6
  DEF ReachedPriceBeforeEventDate, DetermineWinningBet, Down, Up
<1>8. /\ s \in Closed /\ s.players = auto[d].players /\ s.how = "early"
      /\ \A u \in s.winners : u \in Bettors /\ bets[d][u].at <= limit
      /\ seen[l] \in s.touched
  BY <1>3, <1>5, <1>7, SettledTyped
<1>9. auto'[d] = s
  BY <1>1, <1>3
<1> HIDE DEF s, limit
<1>10. \A u \in s.winners : bets[d][u].at <= seen[l]
  <2>1. ASSUME NEW u \in s.winners PROVE bets[d][u].at <= seen[l]
    <3>1. bets[d][u] \in Seat /\ bets[d][u].at <= limit
      BY <1>8 DEF PricesInv, DuelsTyped
    <3>2. bets[d][u].at \in Int
      BY <3>1 DEF Seat
    <3>3. seen[l] \in Int /\ seen[l] >= limit
      BY <1>4, <1>7
    <3> QED
      BY <1>5, <3>1, <3>2, <3>3
  <2> QED
    BY <2>1
<1>11. FairWinners(d)'
  BY <1>1, <1>8, <1>9, <1>10 DEF FairWinners
<1> QED
  BY <1>1, <1>3, <1>8, <1>11, SettlesFairly

LEMMA ResolveOnEventDateKeeps ==
    ASSUME PricesInv, NEW d \in Slots, ResolveOnEventDate(d)
    PROVE  PricesInv'
<1> DEFINE answer == DetermineWinningBet(d, price)
           s == Settled(d, answer, auto[d].deadline, "late")
<1>1. /\ auto[d].status = "inProcess" /\ auto' = [auto EXCEPT ![d] = s]
      /\ UNCHANGED <<clock, price, forming, bar, bets, made, run, lookups, seen>>
  BY DEF ResolveOnEventDate, Ended, Open
<1>2. auto \in [Slots -> {NoAuto} \cup Live \cup Closed] /\ auto[d] \in Live
  BY <1>1 DEF PricesInv, DuelsTyped, NoAuto, Closed
<1>3. answer \in {0, 1} /\ auto[d].deadline \in Int
  BY <1>2 DEF DetermineWinningBet, Live
<1> HIDE DEF answer
<1>4. /\ s \in Closed /\ s.players = auto[d].players /\ s.how = "late"
      /\ s.deadline = auto[d].deadline
      /\ \A u \in s.winners : bets[d][u].at <= auto[d].deadline
  BY <1>2, <1>3, SettledTyped
<1>5. auto'[d] = s
  BY <1>1, <1>2
<1> HIDE DEF s
<1>6. FairWinners(d)'
  BY <1>1, <1>4, <1>5 DEF FairWinners
<1> QED
  BY <1>1, <1>2, <1>4, <1>6, SettlesFairly

LEMMA NextKeeps ==
    ASSUME PricesInv, PriceDuelsNext
    PROVE  PricesInv'
<1>1. ASSUME NEW p \in Levels, PriceMoves(p) PROVE PricesInv'
  BY <1>1, PriceMovesKeeps
<1>2. ASSUME NEW d \in Slots, ResolveBeforeEventDate(d) \/ ResolveOnEventDate(d) PROVE PricesInv'
  BY <1>2, ResolveBeforeEventDateKeeps, ResolveOnEventDateKeeps
<1>3. ASSUME NEW d \in Slots, NEW u \in Bettors \ {House}, NEW answer \in {0, 1},
             JoinPriceDuel(d, u, answer)
      PROVE  PricesInv'
  BY <1>3, JoinPriceDuelKeeps
<1>4. ASSUME NEW k \in DOMAIN run, GetHighLowHourly(k) \/ RunEnds(k) PROVE PricesInv'
  <2>1. k \in PriceKinds
    BY DEF PricesInv, RunsTyped
  <2> QED
    BY <1>4, <2>1, GetHighLowHourlyKeeps, RunEndsKeeps
<1> QED
  BY <1>1, <1>2, <1>3, <1>4, CreateDuelsBulkKeeps, CreateDuelsWithJoinKeeps,
     CreateDuelsFailsKeeps DEF PriceDuelsNext

LEMMA StutterKeeps ==
    ASSUME PricesInv, UNCHANGED priceDuelsVars
    PROVE  PricesInv'
  BY PricesRest, RunsRest, DuelsRest DEF PricesInv, priceDuelsVars

LEMMA IInvIsFair ==
    ASSUME PricesInv
    PROVE  PriceDuelsFair
<1>1. WinnersBetFirst
  BY DEF PricesInv, FairWinners, WinnersBetFirst
<1>2. StartsUndecided
  <2>1. \A p \in Levels : p > CoinPriceDiff => Target(p, Up) > p /\ Target(p, Down) < p
    BY TargetBeyond
  <2> QED
    BY <2>1 DEF PricesInv, SeatsCounted, StartsUndecided
<1> QED
  BY <1>1, <1>2 DEF PriceDuelsFair

\* Bets on a price are fair for any prices, length of an hour, difference to the target,
\* delay of a run and number of bettors: whoever wins had bet when the price got there or
\* before, and no duel is decided when it is made (resolve*BeforeEventDate,
\* ResolveJoinDateTime, newDuelInfoForAutoCreatedDuels).
THEOREM FairAtAnyPrice == PriceDuelsSpec => []PriceDuelsFair
<1>1. PriceDuelsInit => PricesInv
  BY InitKeeps
<1>2. PricesInv /\ [PriceDuelsNext]_priceDuelsVars => PricesInv'
  BY NextKeeps, StutterKeeps
<1>3. PricesInv => PriceDuelsFair
  BY IInvIsFair
<1> QED
  BY <1>1, <1>2, <1>3, PTL DEF PriceDuelsSpec

HIDE PriceDuelsAssumption

-----------------------------------------------------------------------------
(***************************************************************************)
(* Tasks and the daily streak.                                             *)
(***************************************************************************)
USE TasksAssumption, NumbersAssumption

Columns == {"balance", "level", "xp", "email", "lastStreak", "streak"}
RequestFields == {"pc", "job", "task", "multiplier", "seen", "row", "user"}

\* a row of users, as it is or as it was read: the streak began on a day of the calendar
UserSound(u) ==
    /\ DOMAIN u = Columns
    /\ u.balance \in Nat /\ u.email \in BOOLEAN
    /\ u.lastStreak \in {0} \cup 2..day
    /\ u.streak \in Nat \ {0}
    /\ u.streak = 1 \/ u.streak < u.lastStreak

RowSound(row) == row \in TaskRow /\ row.claimed <= row.count /\ (Exists(row) \/ row = NoRow)

RequestSound(r) ==
    /\ DOMAIN r = RequestFields
    /\ r.task \in Tasks /\ r.multiplier \in 0..WeeklyCycle
    /\ RowSound(r.row)
    /\ r.pc \in {"email", "streak"} => UserSound(r.user)
    /\ r.pc = "streak" => /\ r.user.lastStreak # 0 /\ r.multiplier # 0
                          /\ r.task = TaskCompletDailyStreak
    /\ r.pc = "complete" => r.task \notin {TaskSignUp, TaskCompletDailyStreak} /\ r.multiplier = 0
    /\ r.pc = "claim" => r.job = "claim"
    /\ r.pc \in {"level", "give"} => r.job \in {"claim", "reset"}

TablesSound ==
    /\ \A t \in Tasks : RowSound(done[t])
    /\ DOMAIN done = Tasks
    /\ rewards \in [Tasks -> [reward : Nat, xp : Nat]]
    /\ worth \in [Tasks -> Nat]

TasksInv ==
    /\ day \in 2..LastDay
    /\ UserSound(user)
    /\ TablesSound
    /\ resetDue \subseteq Resettable
    /\ played \subseteq 2..LastDay
    /\ overlaps \in 0..MaxOverlaps
    /\ DOMAIN req = Handlers
    /\ \A h \in Handlers : RequestSound(req[h])

-----------------------------------------------------------------------------
\* A user and a request that are sound today are so tomorrow.
LEMMA SoundTomorrow ==
    ASSUME day \in 2..LastDay, day' \in 2..LastDay, day <= day'
    PROVE  /\ \A u : UserSound(u) => UserSound(u)'
           /\ \A r : RequestSound(r) => RequestSound(r)'
<1>1. ASSUME NEW u, UserSound(u) PROVE UserSound(u)'
  BY <1>1 DEF UserSound
<1>2. ASSUME NEW r, RequestSound(r) PROVE RequestSound(r)'
  BY <1>1, <1>2 DEF RequestSound, RowSound, Exists
<1>3. QED BY <1>1, <1>2

\* The rows a task counter moves to.
LEMMA CountedSound ==
    ASSUME TablesSound, NEW r, RequestSound(r), Exists(r.row) = Exists(done[r.task])
    PROVE  /\ RowSound(Counted(r)) /\ Counted(r).multiplier \in Nat
           /\ Exists(Counted(r))
<1>1. RowSound(done[r.task]) /\ RowSound(r.row)
  BY DEF TablesSound, RequestSound
<1> DEFINE now == done[r.task]
           m == IF r.multiplier > 0 THEN r.multiplier
                ELSE IF Exists(r.row) THEN r.row.multiplier ELSE 1
<1>2. m \in 0..WeeklyCycle
  BY <1>1 DEF RequestSound, RowSound, TaskRow
<1>3. CASE Exists(r.row)
  <2>1. Counted(r) = [now EXCEPT !.completions = @ + 1, !.count = @ + 1, !.multiplier = m]
    BY <1>3 DEF Counted
  <2> HIDE DEF m, now
  <2>2. now \in TaskRow /\ now.claimed <= now.count /\ now.completions > 0
    BY <1>1, <1>3, Exists(now) = Exists(r.row) DEF RowSound, Exists, now
  <2>3. Counted(r) = [completions |-> now.completions + 1, count |-> now.count + 1,
                      claimed |-> now.claimed, multiplier |-> m]
    BY <2>1, <2>2 DEF TaskRow
  <2>4. QED BY <1>2, <2>2, <2>3 DEF RowSound, Exists, TaskRow
<1>4. CASE ~Exists(r.row)
  <2>1. Counted(r) = [completions |-> 1, count |-> 1, claimed |-> 0, multiplier |-> m]
    BY <1>4 DEF Counted
  <2> HIDE DEF m
  <2>2. QED BY <1>2, <2>1 DEF RowSound, Exists, TaskRow
<1>5. QED BY <1>3, <1>4

\* The generic update of a user writes a sound row.
LEMMA WrittenSound ==
    ASSUME UserSound(user), NEW u, UserSound(u)
    PROVE  /\ UserSound(WriteBack(u))
           /\ WriteBack(u).streak = u.streak
           /\ u.lastStreak # 0 => WriteBack(u).lastStreak = u.lastStreak
<1> DEFINE w == WriteBack(u)
<1>1. /\ DOMAIN w = Columns
      /\ w.balance = IF u.balance = 0 THEN user.balance ELSE u.balance
      /\ w.email = IF u.email = FALSE THEN user.email ELSE u.email
      /\ w.lastStreak = IF u.lastStreak = 0 THEN user.lastStreak ELSE u.lastStreak
      /\ w.streak = IF u.streak = 0 THEN user.streak ELSE u.streak
  BY DEF UserSound, WriteBack, Columns, NoUser
<1> HIDE DEF w
<1>2. UserSound(w)
  <2>1. w.balance \in Nat /\ w.email \in BOOLEAN
    BY <1>1 DEF UserSound
  <2>2. /\ w.lastStreak \in {0} \cup 2..day /\ w.streak \in Nat \ {0}
        /\ w.streak = 1 \/ w.streak < w.lastStreak
    BY <1>1 DEF UserSound
  <2>3. QED BY <1>1, <2>1, <2>2 DEF UserSound
<1>3. QED BY <1>1, <1>2 DEF UserSound, w

\* What a claim gives leaves the columns it does not write.
LEMMA GivenSound ==
    ASSUME TablesSound, UserSound(user), NEW r, RequestSound(r)
    PROVE  /\ BalanceReward(r) \in Nat /\ XPReward(r) \in Nat
           /\ UserSound(GiveReward(r))
           /\ GiveReward(r).lastStreak = user.lastStreak
           /\ GiveReward(r).streak = user.streak
           /\ UpdateCompletedTaskRewards(r) \in [Tasks -> [reward : Nat, xp : Nat]]
<1>1. /\ r.row.multiplier \in Nat /\ r.task \in Tasks
      /\ r.row.count - r.row.claimed \in Nat
  BY DEF RequestSound, RowSound, TaskRow
<1>2. RewardCount(r.row) \in Nat
  BY <1>1 DEF RewardCount
<1>3. \A a, b, c \in Nat : a * b * c \in Nat
  OBVIOUS
<1>4. Reward[r.task] \in Nat /\ XP[r.task] \in Nat
  BY <1>1
<1>5. BalanceReward(r) \in Nat /\ XPReward(r) \in Nat
  BY <1>1, <1>2, <1>3, <1>4 DEF BalanceReward, XPReward
<1> DEFINE g == GiveReward(r)
<1>6. /\ DOMAIN g = Columns
      /\ g.balance = user.balance + BalanceReward(r)
      /\ g.email = user.email /\ g.lastStreak = user.lastStreak /\ g.streak = user.streak
  BY DEF GiveReward, UserSound, Columns
<1> HIDE DEF g
<1>7. UserSound(g)
  BY <1>5, <1>6 DEF UserSound
<1>8. UpdateCompletedTaskRewards(r) \in [Tasks -> [reward : Nat, xp : Nat]]
  <2>1. CASE r.task = TaskSignUp
    BY <2>1 DEF UpdateCompletedTaskRewards, TablesSound
  <2>2. CASE r.task # TaskSignUp
    <3>1. PICK a \in Nat, b \in Nat : a = BalanceReward(r) /\ b = XPReward(r)
      BY <1>5
    <3>2. UpdateCompletedTaskRewards(r) =
            [rewards EXCEPT ![r.task].reward = @ + a, ![r.task].xp = @ + b]
      BY <2>2, <3>1 DEF UpdateCompletedTaskRewards
    <3>3. QED BY <1>1, <3>2 DEF TablesSound
  <2>3. QED BY <2>1, <2>2
<1>9. QED BY <1>5, <1>6, <1>7, <1>8 DEF g

-----------------------------------------------------------------------------
(* Every step keeps TasksInv *)

\* The step of one request, by what it leaves behind.
LEMMA RequestStep ==
    ASSUME TasksInv, NEW h \in Handlers, NEW r, Become(h, r), RequestSound(r),
           day' = day, UserSound(user'), TablesSound', resetDue' \subseteq Resettable,
           played' \subseteq 2..LastDay, overlaps' \in 0..MaxOverlaps
    PROVE  TasksInv'
<1>1. \A q : RequestSound(q)' <=> RequestSound(q)
  BY DEF RequestSound, UserSound, RowSound, Exists
<1>2. UserSound(user)'
  BY DEF UserSound
<1>3. DOMAIN req' = Handlers /\ \A g \in Handlers : req'[g] = IF g = h THEN r ELSE req[g]
  BY DEF TasksInv, Become
<1>4. \A g \in Handlers : RequestSound(req'[g])
  BY <1>3 DEF TasksInv
<1>5. \A g \in Handlers : RequestSound(req[g])'
  BY <1>1, <1>4, Zenon
<1>6. day' \in 2..LastDay
  BY DEF TasksInv
<1>7. QED BY <1>2, <1>3, <1>5, <1>6 DEF TasksInv

\* An idle request is sound, and the copies it may make.
LEMMA CopiesSound ==
    ASSUME TasksInv
    PROVE  /\ RowSound(NoRow)
           /\ RequestSound(Idle)
           /\ \A t \in Tasks : RowSound(done[t])
           /\ \A h \in Handlers : RequestSound(req[h])
<1>1. RowSound(NoRow)
  BY DEF RowSound, NoRow, TaskRow
<1>2. RequestSound(Idle)
  BY <1>1 DEF RequestSound, Idle, RequestFields
<1>3. QED BY <1>1, <1>2 DEF TasksInv, TablesSound

\* A request that only reads.
LEMMA ReadStep ==
    ASSUME TasksInv, NEW h \in Handlers, NEW r, Become(h, r), RequestSound(r),
           UNCHANGED <<day, user, done, rewards, worth, played>>,
           resetDue' \subseteq resetDue, Arrives(h) \/ overlaps' = overlaps
    PROVE  TasksInv'
<1>1. TablesSound'
  BY DEF TasksInv, TablesSound
<1>2. overlaps' \in 0..MaxOverlaps
  BY DEF TasksInv, Arrives
<1>3. QED BY <1>1, <1>2, RequestStep DEF TasksInv

\* What a reading step makes of its request.
LEMMA ReadsSound ==
    ASSUME TasksInv, NEW h \in Handlers
    PROVE  /\ \A t \in Tasks : Complete(h, t) => TasksInv'
           /\ \A t \in Tasks : ClaimReward(h, t) => TasksInv'
           /\ \A t \in Tasks : GetUnclaimedRewards(h, t) => TasksInv'
           /\ CompletedByUserID(h) => TasksInv'
           /\ GetLevelAndXP(h) => TasksInv'
           /\ Fails(h) => TasksInv'
<1>1. ASSUME NEW t \in Tasks, Complete(h, t) PROVE TasksInv'
  <2> DEFINE r == [Idle EXCEPT !.pc = "complete", !.job = "complete", !.task = t, !.row = done[t]]
  <2>1. RequestSound(r)
    BY <1>1, CopiesSound DEF RequestSound, Idle, RequestFields, Complete
  <2>2. Become(h, r) /\ UNCHANGED <<day, user, done, rewards, worth, played>>
        /\ resetDue' \subseteq resetDue /\ Arrives(h)
    BY <1>1 DEF Complete
  <2> HIDE DEF r
  <2>3. QED BY <2>1, <2>2, ReadStep
<1>2. ASSUME NEW t \in Tasks, ClaimReward(h, t) PROVE TasksInv'
  <2> DEFINE r == [Idle EXCEPT !.pc = "claim", !.job = "claim", !.task = t, !.seen = done[t].count]
  <2>1. RequestSound(r)
    BY <1>2, CopiesSound DEF RequestSound, Idle, RequestFields, ClaimReward
  <2>2. Become(h, r) /\ UNCHANGED <<day, user, done, rewards, worth, played>>
        /\ resetDue' \subseteq resetDue /\ Arrives(h)
    BY <1>2 DEF ClaimReward
  <2> HIDE DEF r
  <2>3. QED BY <2>1, <2>2, ReadStep
<1>3. ASSUME NEW t \in Tasks, GetUnclaimedRewards(h, t) PROVE TasksInv'
  <2> DEFINE r == [Idle EXCEPT !.pc = IF done[t].claimed < done[t].count THEN "level" ELSE "reset",
                              !.job = "reset", !.task = t, !.row = done[t]]
  <2>1. RequestSound(r)
    BY <1>3, CopiesSound DEF RequestSound, Idle, RequestFields
  <2>2. Become(h, r) /\ UNCHANGED <<day, user, done, rewards, worth, played>>
        /\ resetDue' \subseteq resetDue /\ Arrives(h)
    BY <1>3 DEF GetUnclaimedRewards
  <2> HIDE DEF r
  <2>3. QED BY <2>1, <2>2, ReadStep
<1>4. ASSUME CompletedByUserID(h) PROVE TasksInv'
  <2> DEFINE q == req[h]
             row == done[q.task]
             r == IF ~Exists(row) \/ q.seen = row.claimed THEN Idle
                  ELSE [q EXCEPT !.pc = "level", !.seen = 0, !.row = row]
  <2>1. RequestSound(q) /\ RowSound(row)
    BY CopiesSound DEF RequestSound
  <2>2. q.pc = "claim" /\ q.job = "claim"
    BY <1>4, <2>1 DEF CompletedByUserID, RequestSound
  <2>3. RequestSound(r)
    BY <2>1, <2>2, CopiesSound DEF RequestSound, RequestFields
  <2>4. Become(h, r) /\ UNCHANGED <<day, user, done, rewards, worth, played>>
        /\ resetDue' \subseteq resetDue /\ overlaps' = overlaps
    BY <1>4 DEF CompletedByUserID
  <2> HIDE DEF r
  <2>5. QED BY <2>3, <2>4, ReadStep
<1>5. ASSUME GetLevelAndXP(h) PROVE TasksInv'
  <2> DEFINE q == req[h]
             r == [q EXCEPT !.pc = "give",
                            !.user = [NoUser EXCEPT !.level = user.level, !.xp = user.xp]]
  <2>1. RequestSound(q) /\ q.pc = "level"
    BY <1>5, CopiesSound DEF GetLevelAndXP
  <2>2. RequestSound(r)
    BY <2>1 DEF RequestSound, RequestFields
  <2>3. Become(h, r) /\ UNCHANGED <<day, user, done, rewards, worth, played>>
        /\ resetDue' \subseteq resetDue /\ overlaps' = overlaps
    BY <1>5 DEF GetLevelAndXP
  <2> HIDE DEF r
  <2>4. QED BY <2>2, <2>3, ReadStep
<1>6. ASSUME Fails(h) PROVE TasksInv'
  BY <1>6, CopiesSound, ReadStep DEF Fails
<1>7. QED BY <1>1, <1>2, <1>3, <1>4, <1>5, <1>6

\* A row written, with what its completion is worth.
LEMMA RowWritten ==
    ASSUME TablesSound, NEW t \in Tasks, NEW row, RowSound(row),
           done' = [done EXCEPT ![t] = row], worth' \in {worth, Worth(t, row)},
           rewards' \in [Tasks -> [reward : Nat, xp : Nat]]
    PROVE  TablesSound'
<1>1. row.multiplier \in Nat
  BY DEF RowSound, TaskRow
<1>2. Worth(t, row) \in [Tasks -> Nat]
  BY <1>1 DEF Worth, TablesSound
<1>3. DOMAIN done' = Tasks /\ \A s \in Tasks : RowSound(done'[s])
  BY DEF TablesSound
<1>4. \A s \in Tasks : RowSound(done[s])'
  BY <1>3 DEF RowSound, Exists
<1>5. worth' \in [Tasks -> Nat]
  BY <1>2 DEF TablesSound
<1>6. QED BY <1>3, <1>4, <1>5 DEF TablesSound

\* A reward day is one of the week, and a streak that goes on is one day longer.
LEMMA StreakSound ==
    ASSUME TasksInv, ~HasClaimedRewardToday(user)
    PROVE  /\ DayStreak(user) \in Nat \ {0}
           /\ RewardDayByStreak(DayStreak(user)) \in 1..WeeklyCycle
           /\ UserSound([user EXCEPT !.lastStreak = day, !.streak = DayStreak(user)])
<1>1. day \in 2..LastDay /\ UserSound(user)
  BY DEF TasksInv
<1>2. DayStreak(user) \in Nat \ {0} /\ (DayStreak(user) = 1 \/ DayStreak(user) < day)
  BY <1>1 DEF DayStreak, UserSound, HasClaimedRewardToday
<1>3. PICK n \in Nat, w \in Nat \ {0} : n = DayStreak(user) /\ w = WeeklyCycle
  BY <1>2
<1>4. RewardDayByStreak(DayStreak(user)) \in 1..WeeklyCycle
  <2>1. n % w \in 0..(w - 1)
    OBVIOUS
  <2>2. RewardDayByStreak(n) = IF n % w = 0 THEN w ELSE n % w
    BY <1>3 DEF RewardDayByStreak
  <2>3. QED BY <1>3, <2>1, <2>2
<1> DEFINE u == [user EXCEPT !.lastStreak = day, !.streak = DayStreak(user)]
<1>5. /\ DOMAIN u = Columns /\ u.balance = user.balance /\ u.email = user.email
      /\ u.lastStreak = day /\ u.streak = DayStreak(user)
  BY <1>1 DEF UserSound, Columns
<1> HIDE DEF u
<1>6. UserSound(u)
  BY <1>1, <1>2, <1>5 DEF UserSound
<1>7. QED BY <1>2, <1>4, <1>6 DEF u

\* The steps that begin with a copy of the user.
LEMMA UserReadsSound ==
    ASSUME TasksInv, NEW h \in Handlers
    PROVE  /\ CompleteDailyStreakTask(h) => TasksInv'
           /\ CompleteSignInEmail(h) => TasksInv'
<1>1. ASSUME CompleteDailyStreakTask(h) PROVE TasksInv'
  <2> DEFINE u == [user EXCEPT !.lastStreak = day, !.streak = DayStreak(user)]
             m == RewardDayByStreak(DayStreak(user))
             r == [Idle EXCEPT !.pc = "streak", !.job = "streak",
                              !.task = TaskCompletDailyStreak, !.multiplier = m, !.user = u]
  <2>1. UserSound(u) /\ m \in 1..WeeklyCycle
    BY <1>1, StreakSound DEF CompleteDailyStreakTask
  <2>2. u.lastStreak = day /\ day # 0
    BY DEF TasksInv, UserSound, Columns
  <2>3. Become(h, r) /\ UNCHANGED <<day, user, done, rewards, worth, played>>
        /\ resetDue' \subseteq resetDue /\ Arrives(h)
    BY <1>1 DEF CompleteDailyStreakTask
  <2> HIDE DEF u, m
  <2>4. RequestSound(r)
    BY <2>1, <2>2, CopiesSound DEF RequestSound, Idle, RequestFields
  <2> HIDE DEF r
  <2>5. QED BY <2>3, <2>4, ReadStep
<1>2. ASSUME CompleteSignInEmail(h) PROVE TasksInv'
  <2> DEFINE u == [user EXCEPT !.email = TRUE]
             r == [Idle EXCEPT !.pc = "email", !.job = "email", !.user = u]
  <2>1. UserSound(u)
    BY DEF TasksInv, UserSound, Columns
  <2>2. Become(h, r) /\ UNCHANGED <<day, user, done, rewards, worth, played>>
        /\ resetDue' \subseteq resetDue /\ Arrives(h)
    BY <1>2 DEF CompleteSignInEmail
  <2> HIDE DEF u
  <2>3. RequestSound(r)
    BY <2>1, CopiesSound DEF RequestSound, Idle, RequestFields
  <2> HIDE DEF r
  <2>4. QED BY <2>2, <2>3, ReadStep
<1>3. QED BY <1>1, <1>2

\* The steps that write a completion.
LEMMA CompletionsSound ==
    ASSUME TasksInv, NEW h \in Handlers
    PROVE  /\ CompleteUpdate(h) => TasksInv'
           /\ StreakUpdate(h) => TasksInv'
           /\ AttachEmail(h) => TasksInv'
<1> DEFINE r == req[h]
           t == r.task
           q == [r EXCEPT !.row = done[t]]
           w == WriteBack(r.user)
<1>1. TablesSound /\ UserSound(user) /\ RequestSound(r) /\ t \in Tasks /\ RequestSound(Idle)
  BY CopiesSound DEF TasksInv, RequestSound
<1>2. RowSound(done[t]) /\ done[t] \in TaskRow
  BY <1>1 DEF TablesSound, RowSound
<1>3. ASSUME CompleteUpdate(h) PROVE TasksInv'
  <2>1. Exists(r.row) = Exists(done[r.task])
    BY <1>3 DEF CompleteUpdate
  <2>2. RowSound(Counted(r))
    BY <1>1, <2>1, CountedSound
  <2>3. TablesSound'
    <3>1. done' = [done EXCEPT ![t] = Counted(r)] /\ worth' = Worth(t, Counted(r))
          /\ rewards' = rewards
      BY <1>3 DEF CompleteUpdate
    <3>2. rewards \in [Tasks -> [reward : Nat, xp : Nat]]
      BY <1>1 DEF TablesSound
    <3>3. QED BY <1>1, <2>2, <3>1, <3>2, RowWritten
  <2>4. Become(h, Idle) /\ UNCHANGED <<day, user, resetDue, played, overlaps>>
    BY <1>3 DEF CompleteUpdate
  <2>5. QED BY <1>1, <2>3, <2>4, RequestStep DEF TasksInv
<1>4. ASSUME StreakUpdate(h) PROVE TasksInv'
  <2>1. r.pc = "streak" /\ UserSound(r.user) /\ r.user.lastStreak # 0
    BY <1>1, <1>4 DEF StreakUpdate, RequestSound
  <2>2. UserSound(user')
    <3>1. user' = w
      BY <1>4 DEF StreakUpdate
    <3>2. QED BY <1>1, <2>1, <3>1, WrittenSound
  <2>3. played' \subseteq 2..LastDay
    <3>1. played' \subseteq played \cup {r.user.lastStreak}
      BY <1>4 DEF StreakUpdate
    <3>2. r.user.lastStreak \in 2..LastDay
      BY <2>1 DEF UserSound, TasksInv
    <3>3. QED BY <3>1, <3>2 DEF TasksInv
  <2>4. RowSound(Counted(q))
    <3>1. q.row = done[t] /\ q.task = t /\ RequestSound(q)
      BY <1>1, <1>2, <2>1 DEF RequestSound, RequestFields
    <3> HIDE DEF q
    <3>2. QED BY <1>1, <3>1, CountedSound
  <2>5. TablesSound'
    <3>1. rewards' = rewards /\ rewards \in [Tasks -> [reward : Nat, xp : Nat]]
      BY <1>1, <1>4 DEF StreakUpdate, TablesSound
    <3>2. CASE MayComplete(t, done[t])
      <4>1. done' = [done EXCEPT ![t] = Counted(q)] /\ worth' = Worth(t, Counted(q))
        BY <1>4, <3>2 DEF StreakUpdate
      <4> HIDE DEF q
      <4>2. QED BY <1>1, <2>4, <3>1, <4>1, RowWritten
    <3>3. CASE ~MayComplete(t, done[t])
      BY <1>1, <1>4, <3>1, <3>3 DEF StreakUpdate, TablesSound
    <3>4. QED BY <3>2, <3>3
  <2>6. Become(h, Idle) /\ UNCHANGED <<day, resetDue, overlaps>>
    BY <1>4 DEF StreakUpdate
  <2>7. QED BY <1>1, <2>2, <2>3, <2>5, <2>6, RequestStep DEF TasksInv
<1>5. ASSUME AttachEmail(h) PROVE TasksInv'
  <2> DEFINE row == [NoRow EXCEPT !.completions = 1, !.count = 1, !.multiplier = 1]
  <2>1. UserSound(w)
    BY <1>1, <1>5, WrittenSound DEF AttachEmail, RequestSound
  <2>2. UserSound(user')
    <3>1. user' = [w EXCEPT !.balance = @ + Reward[TaskSignUp]]
      BY <1>5 DEF AttachEmail
    <3> HIDE DEF w
    <3>2. Reward[TaskSignUp] \in Nat
      OBVIOUS
    <3>3. QED BY <2>1, <3>1, <3>2 DEF UserSound, Columns
  <2>3. RowSound(row)
    <3>1. NoRow \in TaskRow /\ NoRow.claimed = 0 /\ 1 \in 0..WeeklyCycle
      BY DEF NoRow, TaskRow
    <3>2. row.completions = 1 /\ row.count = 1 /\ row.claimed = 0 /\ row \in TaskRow
      BY <3>1 DEF TaskRow
    <3> HIDE DEF row
    <3>3. QED BY <3>1, <3>2 DEF RowSound, TaskRow, Exists
  <2>4. TablesSound'
    <3>1. rewards' = rewards /\ rewards \in [Tasks -> [reward : Nat, xp : Nat]]
      BY <1>1, <1>5 DEF AttachEmail, TablesSound
    <3>2. done' = [done EXCEPT ![TaskSignUp] = row] /\ worth' = Worth(TaskSignUp, row)
      BY <1>5 DEF AttachEmail
    <3> HIDE DEF row
    <3>3. QED BY <1>1, <2>3, <3>1, <3>2, RowWritten
  <2>5. Become(h, Idle) /\ UNCHANGED <<day, resetDue, played, overlaps>>
    BY <1>5 DEF AttachEmail
  <2>6. QED BY <1>1, <2>2, <2>4, <2>5, RequestStep DEF TasksInv
<1>6. QED BY <1>3, <1>4, <1>5

\* A row marked as claimed, and one whose counters start anew.
LEMMA MarkedSound ==
    ASSUME NEW row, RowSound(row)
    PROVE  /\ RowSound([row EXCEPT !.claimed = row.count])
           /\ RowSound([row EXCEPT !.count = 0, !.claimed = 0])
<1> DEFINE p == [row EXCEPT !.claimed = row.count]
           q == [row EXCEPT !.count = 0, !.claimed = 0]
<1>1. row \in TaskRow /\ row.count \in Nat /\ 0 \in Nat
  BY DEF RowSound, TaskRow
<1>2. /\ q \in TaskRow /\ q.completions = row.completions /\ q.multiplier = row.multiplier
      /\ q.count = 0 /\ q.claimed = 0
  BY <1>1 DEF TaskRow
<1>3. /\ p \in TaskRow /\ p.completions = row.completions /\ p.multiplier = row.multiplier
      /\ p.count = row.count /\ p.claimed = row.count
  BY <1>1 DEF TaskRow
<1> HIDE DEF p, q
<1>4. row = NoRow => p = NoRow /\ q = NoRow
  BY <1>2, <1>3 DEF TaskRow, NoRow
<1>5. row.count \in Nat /\ p.claimed <= p.count /\ q.claimed <= q.count
  BY <1>1, <1>2, <1>3 DEF TaskRow
<1>6. RowSound(p) /\ RowSound(q)
  BY <1>2, <1>3, <1>4, <1>5 DEF RowSound, Exists
<1>7. QED BY <1>6 DEF p, q

\* The steps that pay.
LEMMA PaymentsSound ==
    ASSUME TasksInv, NEW h \in Handlers
    PROVE  /\ Claim(h) => TasksInv'
           /\ UpdateCompletedTaskLimits(h) => TasksInv'
<1> DEFINE r == req[h]
           t == r.task
<1>1. TablesSound /\ UserSound(user) /\ RequestSound(r) /\ t \in Tasks /\ RequestSound(Idle)
  BY CopiesSound DEF TasksInv, RequestSound
<1>2. RowSound(done[t]) /\ done[t] \in TaskRow
  BY <1>1 DEF TablesSound, RowSound
<1>3. /\ UserSound(GiveReward(r))
      /\ UpdateCompletedTaskRewards(r) \in [Tasks -> [reward : Nat, xp : Nat]]
  BY <1>1, GivenSound
<1>4. worth \in [Tasks -> Nat] /\ rewards \in [Tasks -> [reward : Nat, xp : Nat]]
      /\ DOMAIN done = Tasks
  BY <1>1 DEF TablesSound
<1>5. ASSUME Claim(h) PROVE TasksInv'
  <2> DEFINE row == [done[t] EXCEPT !.claimed = done[t].count]
  <2>1. RowSound(row)
    BY <1>2, MarkedSound
  <2>2. done' = [done EXCEPT ![t] = row]
    BY <1>4, <1>5 DEF Claim, UpdateRewardClaimed
  <2>3. user' = GiveReward(r) /\ rewards' = UpdateCompletedTaskRewards(r) /\ worth' = worth
    BY <1>5 DEF Claim
  <2> HIDE DEF row
  <2>4. TablesSound'
    BY <1>1, <1>3, <2>1, <2>2, <2>3, RowWritten
  <2>5. Become(h, Idle) /\ UNCHANGED <<day, resetDue, played, overlaps>>
    BY <1>5 DEF Claim
  <2>6. QED BY <1>1, <1>3, <2>3, <2>4, <2>5, RequestStep DEF TasksInv
<1>6. ASSUME UpdateCompletedTaskLimits(h) PROVE TasksInv'
  <2> DEFINE row == [done[t] EXCEPT !.count = 0, !.claimed = 0]
  <2>1. RowSound(row)
    BY <1>2, MarkedSound
  <2>2. done' = [done EXCEPT ![t] = row]
    BY <1>4, <1>6 DEF UpdateCompletedTaskLimits
  <2>3. /\ user' \in {user, GiveReward(r)}
        /\ rewards' \in {rewards, UpdateCompletedTaskRewards(r)} /\ worth' = worth
    BY <1>6 DEF UpdateCompletedTaskLimits
  <2> HIDE DEF row
  <2>4. TablesSound'
    BY <1>1, <1>3, <1>4, <2>1, <2>2, <2>3, RowWritten
  <2>5. Become(h, Idle) /\ UNCHANGED <<day, resetDue, played, overlaps>>
    BY <1>6 DEF UpdateCompletedTaskLimits
  <2>6. QED BY <1>1, <1>3, <2>3, <2>4, <2>5, RequestStep DEF TasksInv
<1>7. QED BY <1>5, <1>6

\* The invariant is inductive.
LEMMA TasksStep == TasksInv /\ [Next]_vars => TasksInv'
<1> SUFFICES ASSUME TasksInv, [Next]_vars PROVE TasksInv'
  OBVIOUS
<1>1. CASE Midnight
  <2>1. day' \in 2..LastDay /\ day <= day'
    BY <1>1 DEF Midnight, TasksInv
  <2>2. \A u : UserSound(u) => UserSound(u)'
    BY <2>1, SoundTomorrow DEF TasksInv
  <2>3. \A r : RequestSound(r) => RequestSound(r)'
    BY <2>1, SoundTomorrow DEF TasksInv
  <2>4. user' = user /\ req' = req /\ UNCHANGED <<done, rewards, worth, played, overlaps>>
        /\ resetDue' = Resettable
    BY <1>1 DEF Midnight
  <2>5. UserSound(user)'
    BY <2>2, <2>4 DEF TasksInv, UserSound
  <2>6. \A h \in Handlers : RequestSound(req[h])'
    BY <2>3, <2>4 DEF TasksInv, RequestSound, UserSound, RowSound, Exists
  <2>7. TablesSound'
    BY <2>4 DEF TasksInv, TablesSound
  <2>8. QED BY <2>1, <2>4, <2>5, <2>6, <2>7 DEF TasksInv
<1>2. CASE UNCHANGED vars
  BY <1>2 DEF vars, TasksInv, TablesSound, UserSound, RequestSound, RowSound, Exists
<1>3. ASSUME NEW h \in Handlers,
             \/ \E t \in Tasks : Complete(h, t) \/ ClaimReward(h, t) \/ GetUnclaimedRewards(h, t)
             \/ CompleteUpdate(h)
             \/ CompleteDailyStreakTask(h) \/ StreakUpdate(h)
             \/ CompleteSignInEmail(h) \/ AttachEmail(h)
             \/ CompletedByUserID(h) \/ GetLevelAndXP(h) \/ Claim(h)
             \/ UpdateCompletedTaskLimits(h)
             \/ Fails(h)
      PROVE  TasksInv'
  BY <1>3, ReadsSound, UserReadsSound, CompletionsSound, PaymentsSound
<1>4. QED BY <1>1, <1>2, <1>3 DEF Next

LEMMA TasksInit == Init => TasksInv
<1> SUFFICES ASSUME Init PROVE TasksInv
  OBVIOUS
<1>1. UserSound(user)
  BY DEF Init, UserSound, NoUser, Columns
<1>2. RowSound(NoRow)
  BY DEF RowSound, NoRow, TaskRow
<1>3. TablesSound
  BY <1>2 DEF Init, TablesSound, NoRewards
<1>4. RequestSound(Idle)
  BY <1>2 DEF RequestSound, Idle, RequestFields
<1>5. QED BY <1>1, <1>3, <1>4 DEF Init, TasksInv

\* The counters never cross, in the table and in every copy a claim computes with, however
\* requests interleave (claimReward, UpdateCompletedTaskLimits): the unsigned difference
\* that is paid is the number of unclaimed completions read.
THEOREM ClaimsStayWithinCompletions == Spec => []ClaimedWithinCompleted
<1>1. TasksInv => ClaimedWithinCompleted
  BY DEF TasksInv, TablesSound, RequestSound, RowSound, ClaimedWithinCompleted
<1>2. QED BY <1>1, TasksInit, TasksStep, PTL DEF Spec
-----------------------------------------------------------------------------
(***************************************************************************)
(* Requests that do not overlap: what the one in flight has read is so.    *)
(***************************************************************************)

\* at most one request is in flight
AloneInFlight ==
    \A g, h \in Handlers : req[g].pc # "idle" /\ req[h].pc # "idle" => g = h

\* Overlaps are never forgotten.
LEMMA OverlapsRemembered ==
    ASSUME TasksInv, [Next]_vars, overlaps' = 0
    PROVE  overlaps = 0
<1>1. CASE \E h \in Handlers : Arrives(h)
  BY <1>1 DEF Arrives, TasksInv
<1>2. CASE ~\E h \in Handlers : Arrives(h)
  <2>1. overlaps' = overlaps
    BY <1>2 DEF Next, vars, Midnight, Complete, ClaimReward, GetUnclaimedRewards, CompleteUpdate,
          CompleteDailyStreakTask, StreakUpdate, CompleteSignInEmail, AttachEmail,
          CompletedByUserID, GetLevelAndXP, Claim, UpdateCompletedTaskLimits, Fails
  <2>2. QED BY <2>1
<1>3. QED BY <1>1, <1>2

\* A request that arrives where none overlapped finds all idle; one that goes on finds
\* all others idle.
LEMMA NobodyElse ==
    ASSUME TasksInv, overlaps' = 0, AloneInFlight
    PROVE  /\ \A h \in Handlers : Arrives(h) => \A g \in Handlers : req[g].pc = "idle"
           /\ \A h \in Handlers : req[h].pc # "idle" =>
                 \A g \in Handlers \ {h} : req[g].pc = "idle"
<1>1. \A h \in Handlers : Arrives(h) => \A g \in Handlers : req[g].pc = "idle"
  BY DEF Arrives, TasksInv
<1>2. QED BY <1>1 DEF AloneInFlight

\* The handler that moves is then the only one that may be busy.
LEMMA AloneStays ==
    ASSUME TasksInv, NEW h \in Handlers, NEW r, Become(h, r),
           \A g \in Handlers \ {h} : req[g].pc = "idle"
    PROVE  /\ AloneInFlight'
           /\ req'[h] = r
           /\ \A g \in Handlers \ {h} : req'[g].pc = "idle"
<1>1. DOMAIN req' = Handlers /\ \A g \in Handlers : req'[g] = IF g = h THEN r ELSE req[g]
  BY DEF TasksInv, Become
<1>2. QED BY <1>1 DEF AloneInFlight

-----------------------------------------------------------------------------
(* Every completion is paid once *)

\* the daily task counts for one completion a day
DailyOnce == CompletionLimit[TaskCompletDailyStreak] = 1
\* the counters do not turn over
CountsFit == 1 < CountModulus /\ MaxCompletions < CountModulus

\* a task whose rewards are those of its claimed completions
TaskPaid(t) ==
    rewards[t].reward
        = Reward[t] * (worth[t] - done[t].multiplier * (done[t].count - done[t].claimed))

FewCounted(t) ==
    IF t = TaskCompletDailyStreak THEN done[t].count <= 1
    ELSE done[t].count <= done[t].completions /\ done[t].completions <= MaxCompletions

AllPaid == \A t \in Tasks \ {TaskSignUp} : TaskPaid(t) /\ FewCounted(t)

\* what a request knows of the row it is about
CopyStands(r) ==
    /\ r.pc \in {"complete", "level", "give", "reset"} => r.row = done[r.task]
    /\ r.pc = "complete" => done[r.task].completions < MaxCompletions
    /\ r.pc = "reset" => ~(done[r.task].claimed < done[r.task].count)

PaidInv ==
    overlaps = 0 => /\ AloneInFlight
                    /\ AllPaid
                    /\ \A h \in Handlers : CopyStands(req[h])

\* A new completion adds its multiplier to what is owed.
LEMMA OweOneMore ==
    ASSUME NEW w \in Int, NEW m \in Int, NEW c \in Int, NEW k \in Int
    PROVE  (w + m) - m * ((c + 1) - k) = w - m * (c - k)
<1>1. m * ((c + 1) - k) = m * (c - k) + m
  OBVIOUS
<1>2. m * (c - k) \in Int
  OBVIOUS
<1>3. QED BY <1>1, <1>2

\* A payment settles what is owed.
LEMMA PaidOff ==
    ASSUME NEW w \in Int, NEW m \in Int, NEW n \in Int, NEW p \in Int
    PROVE  p * (w - m * n) + m * p * n = p * w
<1>1. m * n \in Int /\ p * (m * n) = m * p * n
  OBVIOUS
<1>2. p * (w - m * n) = p * w - p * (m * n)
  BY <1>1
<1>3. p * w \in Int /\ m * p * n \in Int
  OBVIOUS
<1>4. QED BY <1>1, <1>2, <1>3

\* One row that was written, with the books of the others as they were.
LEMMA BooksMove ==
    ASSUME TasksInv, TablesSound', AllPaid, NEW t \in Tasks,
           \A s \in Tasks \ {t} : /\ done'[s] = done[s] /\ worth'[s] = worth[s]
                                  /\ rewards'[s] = rewards[s],
           t # TaskSignUp => TaskPaid(t)' /\ FewCounted(t)'
    PROVE  AllPaid'
<1>1. ASSUME NEW s \in Tasks \ {TaskSignUp}, s # t PROVE TaskPaid(s)' /\ FewCounted(s)'
  BY <1>1 DEF AllPaid, TaskPaid, FewCounted
<1>2. QED BY <1>1 DEF AllPaid

\* The step of the only request in flight, by what it leaves behind.
LEMMA PaidStep ==
    ASSUME TasksInv, PaidInv, overlaps = 0, NEW h \in Handlers, NEW r, Become(h, r),
           \A g \in Handlers \ {h} : req[g].pc = "idle",
           AllPaid', CopyStands(r)'
    PROVE  PaidInv'
<1>1. /\ AloneInFlight' /\ req'[h] = r
      /\ \A g \in Handlers \ {h} : req'[g].pc = "idle"
  BY AloneStays
<1>2. \A g \in Handlers \ {h} : CopyStands(req[g])'
  BY <1>1 DEF CopyStands
<1>3. CopyStands(req[h])'
  BY <1>1 DEF CopyStands
<1>4. QED BY <1>1, <1>2, <1>3 DEF PaidInv

\* The steps that read.
LEMMA ReadsPaid ==
    ASSUME TasksInv, PaidInv, [Next]_vars, overlaps' = 0, overlaps = 0, NEW h \in Handlers,
           \A g \in Handlers : req[g].pc = "idle"
    PROVE  /\ \A t \in Tasks : Complete(h, t) => PaidInv'
           /\ \A t \in Tasks : ClaimReward(h, t) => PaidInv'
           /\ \A t \in Tasks : GetUnclaimedRewards(h, t) => PaidInv'
           /\ CompleteDailyStreakTask(h) => PaidInv'
           /\ CompleteSignInEmail(h) => PaidInv'
<1> SUFFICES ASSUME \/ \E t \in Tasks : Complete(h, t) \/ ClaimReward(h, t) \/ GetUnclaimedRewards(h, t)
                    \/ CompleteDailyStreakTask(h) \/ CompleteSignInEmail(h)
             PROVE  PaidInv'
  BY Zenon
<1>1. UNCHANGED <<done, rewards, worth>>
  BY DEF Complete, ClaimReward, GetUnclaimedRewards, CompleteDailyStreakTask, CompleteSignInEmail
<1>2. AllPaid'
  BY <1>1 DEF PaidInv, AllPaid, TaskPaid, FewCounted
<1>3. \A r : Become(h, r) /\ CopyStands(r)' => PaidInv'
  BY <1>2, PaidStep
<1>4. ASSUME NEW t \in Tasks, Complete(h, t) PROVE PaidInv'
  <2>1. PICK r : r = [Idle EXCEPT !.pc = "complete", !.job = "complete", !.task = t, !.row = done[t]]
    OBVIOUS
  <2>2. r.pc = "complete" /\ r.task = t /\ r.row = done[t]
    BY <2>1 DEF Idle
  <2>3. Become(h, r) /\ done[t].completions < MaxCompletions
    BY <1>4, <2>1 DEF Complete
  <2>4. CopyStands(r)'
    BY <1>1, <2>2, <2>3 DEF CopyStands
  <2>5. QED BY <1>3, <2>3, <2>4
<1>5. ASSUME NEW t \in Tasks, ClaimReward(h, t) PROVE PaidInv'
  <2> DEFINE r == [Idle EXCEPT !.pc = "claim", !.job = "claim", !.task = t, !.seen = done[t].count]
  <2>1. r.pc = "claim"
    BY DEF Idle
  <2>2. Become(h, r)
    BY <1>5 DEF ClaimReward
  <2> HIDE DEF r
  <2>3. QED BY <1>3, <2>1, <2>2 DEF CopyStands
<1>6. ASSUME NEW t \in Tasks, GetUnclaimedRewards(h, t) PROVE PaidInv'
  <2>1. PICK r :
          r = [Idle EXCEPT !.pc = IF done[t].claimed < done[t].count THEN "level" ELSE "reset",
                           !.job = "reset", !.task = t, !.row = done[t]]
    OBVIOUS
  <2>2. /\ r.pc = IF done[t].claimed < done[t].count THEN "level" ELSE "reset"
        /\ r.task = t /\ r.row = done[t]
    BY <2>1 DEF Idle
  <2>3. Become(h, r)
    BY <1>6, <2>1 DEF GetUnclaimedRewards
  <2>4. CopyStands(r)'
    BY <1>1, <2>2 DEF CopyStands
  <2>5. QED BY <1>3, <2>3, <2>4
<1>7. ASSUME CompleteDailyStreakTask(h) PROVE PaidInv'
  <2> DEFINE u == [user EXCEPT !.lastStreak = day, !.streak = DayStreak(user)]
             m == RewardDayByStreak(DayStreak(user))
             r == [Idle EXCEPT !.pc = "streak", !.job = "streak",
                               !.task = TaskCompletDailyStreak, !.multiplier = m, !.user = u]
  <2>1. Become(h, r)
    BY <1>7 DEF CompleteDailyStreakTask
  <2> HIDE DEF u, m
  <2>2. r.pc = "streak"
    BY DEF Idle
  <2> HIDE DEF r
  <2>3. QED BY <1>3, <2>1, <2>2 DEF CopyStands
<1>8. ASSUME CompleteSignInEmail(h) PROVE PaidInv'
  <2> DEFINE u == [user EXCEPT !.email = TRUE]
             r == [Idle EXCEPT !.pc = "email", !.job = "email", !.user = u]
  <2>1. Become(h, r)
    BY <1>8 DEF CompleteSignInEmail
  <2> HIDE DEF u
  <2>2. r.pc = "email"
    BY DEF Idle
  <2> HIDE DEF r
  <2>3. QED BY <1>3, <2>1, <2>2 DEF CopyStands
<1>9. QED BY <1>4, <1>5, <1>6, <1>7, <1>8


\* The steps between reading and writing, and those that give up.
LEMMA BetweenPaid ==
    ASSUME TasksInv, PaidInv, overlaps = 0, NEW h \in Handlers,
           \A g \in Handlers \ {h} : req[g].pc = "idle"
    PROVE  CompletedByUserID(h) \/ GetLevelAndXP(h) \/ Fails(h) => PaidInv'
<1> SUFFICES ASSUME CompletedByUserID(h) \/ GetLevelAndXP(h) \/ Fails(h) PROVE PaidInv'
  OBVIOUS
<1>1. UNCHANGED <<done, rewards, worth>>
  BY DEF CompletedByUserID, GetLevelAndXP, Fails
<1>2. AllPaid'
  BY <1>1 DEF PaidInv, AllPaid, TaskPaid, FewCounted
<1>3. \A r : Become(h, r) /\ CopyStands(r)' => PaidInv'
  BY <1>2, PaidStep
<1>4. DOMAIN req[h] = RequestFields /\ CopyStands(req[h])
  BY CopiesSound DEF RequestSound, PaidInv
<1>5. CopyStands(Idle)'
  BY DEF CopyStands, Idle
<1>6. ASSUME Fails(h) PROVE PaidInv'
  BY <1>3, <1>5, <1>6 DEF Fails
<1>7. ASSUME CompletedByUserID(h) PROVE PaidInv'
  <2>1. CASE Become(h, Idle)
    BY <1>3, <1>5, <2>1
  <2>2. CASE ~Become(h, Idle)
    <3>1. PICK r : r = [req[h] EXCEPT !.pc = "level", !.seen = 0, !.row = done[req[h].task]]
      OBVIOUS
    <3>2. Become(h, r)
      BY <1>7, <2>2, <3>1 DEF CompletedByUserID
    <3>3. r.pc = "level" /\ r.row = done[r.task]
      BY <1>4, <3>1 DEF RequestFields
    <3>4. CopyStands(r)'
      BY <1>1, <3>3 DEF CopyStands
    <3>5. QED BY <1>3, <3>2, <3>4
  <2>3. QED BY <2>1, <2>2
<1>8. ASSUME GetLevelAndXP(h) PROVE PaidInv'
  <2>1. PICK u : u = [NoUser EXCEPT !.level = user.level, !.xp = user.xp]
    OBVIOUS
  <2>2. PICK r : r = [req[h] EXCEPT !.pc = "give", !.user = u]
    OBVIOUS
  <2>3. Become(h, r)
    BY <1>8, <2>1, <2>2 DEF GetLevelAndXP
  <2>4. r.pc = "give" /\ r.row = done[r.task]
    BY <1>4, <1>8, <2>2 DEF GetLevelAndXP, RequestFields, CopyStands
  <2>5. CopyStands(r)'
    BY <1>1, <2>4 DEF CopyStands
  <2>6. QED BY <1>3, <2>3, <2>5
<1>9. QED BY <1>6, <1>7, <1>8

\* A completion counted at a multiplier that does not change, or of a row with nothing
\* unclaimed, leaves what is owed right.
LEMMA CountedPaid ==
    ASSUME TasksInv, AllPaid, NEW r, RequestSound(r), NEW t \in Tasks \ {TaskSignUp},
           r.task = t, r.row = done[t], overlaps = 0,
           \/ r.multiplier = 0 /\ t # TaskCompletDailyStreak /\ done[t].completions < MaxCompletions
           \/ t = TaskCompletDailyStreak /\ done[t].count = 0,
           done' = [done EXCEPT ![t] = Counted(r)], worth' = Worth(t, Counted(r)),
           rewards' = rewards
    PROVE  TaskPaid(t)' /\ FewCounted(t)'
<1>1. TablesSound /\ RowSound(done[t])
  BY DEF TasksInv, TablesSound
<1>2. PICK n \in Nat, c \in Nat, k \in Nat, m \in Nat, w \in Nat, p \in Nat, s \in Nat :
        /\ n = done[t].completions /\ c = done[t].count /\ k = done[t].claimed
        /\ m = done[t].multiplier /\ w = worth[t] /\ p = Reward[t] /\ s = rewards[t].reward
  <2>1. /\ done[t].completions \in Nat /\ done[t].count \in Nat /\ done[t].claimed \in Nat
        /\ done[t].multiplier \in Nat /\ worth[t] \in Nat /\ Reward[t] \in Nat
        /\ rewards[t].reward \in Nat
    BY <1>1 DEF TablesSound, RowSound, TaskRow
  <2>2. QED BY <2>1
<1>3. RowSound(Counted(r)) /\ Counted(r).multiplier \in Nat
  BY <1>1, CountedSound DEF TasksInv
<1>4. PICK q \in Nat : q = Counted(r).multiplier
  BY <1>3
<1>5. /\ Counted(r).completions = n + 1 /\ Counted(r).count = c + 1
      /\ Counted(r).claimed = k
      /\ r.multiplier = 0 /\ n > 0 => q = m
  <2>1. CASE n > 0
    BY <1>1, <1>2, <1>4, <2>1 DEF Counted, Exists, RowSound, TaskRow
  <2>2. CASE n = 0
    <3>1. c = 0 /\ k = 0
      BY <1>1, <1>2, <2>2 DEF RowSound, Exists, NoRow
    <3>2. QED BY <1>2, <2>2, <3>1 DEF Counted, Exists
  <2>3. QED BY <2>1, <2>2
<1>6. done'[t] = Counted(r) /\ worth'[t] = w + q
  BY <1>1, <1>2, <1>4 DEF TablesSound, Worth
<1>7. s = p * (w - m * (c - k)) /\ FewCounted(t)
  BY <1>2 DEF AllPaid, TaskPaid
<1>8. q * (c - k) = m * (c - k)
  <2>1. CASE c - k = 0
    BY <2>1
  <2>2. CASE c - k # 0
    <3>1. n > 0
      BY <1>1, <1>2, <2>2 DEF RowSound, Exists, NoRow
    <3>2. r.multiplier = 0
      BY <1>1, <1>2, <2>2 DEF RowSound
    <3>3. QED BY <1>5, <3>1, <3>2
  <2>3. QED BY <2>1, <2>2
<1>9. (w + q) - q * ((c + 1) - k) = w - q * (c - k)
  BY OweOneMore
<1>10. s = p * ((w + q) - q * ((c + 1) - k))
  BY <1>7, <1>8, <1>9
<1>11. TaskPaid(t)'
  BY <1>2, <1>4, <1>5, <1>6, <1>10 DEF TaskPaid
<1>12. FewCounted(t)'
  BY <1>2, <1>5, <1>6, <1>7 DEF FewCounted
<1>13. QED BY <1>11, <1>12

\* A claim, or the reset, pays what is owed.
LEMMA ClaimPays ==
    ASSUME TasksInv, AllPaid, CountsFit, NEW r, NEW t \in Tasks \ {TaskSignUp},
           r.task = t, r.row = done[t],
           rewards' = UpdateCompletedTaskRewards(r), worth' = worth,
           done'[t].multiplier = done[t].multiplier,
           done'[t].completions = done[t].completions,
           done'[t].claimed = done'[t].count, done'[t].count \in {0, done[t].count}
    PROVE  TaskPaid(t)' /\ FewCounted(t)'
<1>1. TablesSound /\ RowSound(done[t])
  BY DEF TasksInv, TablesSound
<1>2. PICK c \in Nat, k \in Nat, m \in Nat, w \in Nat, p \in Nat, s \in Nat :
        /\ c = done[t].count /\ k = done[t].claimed
        /\ m = done[t].multiplier /\ w = worth[t] /\ p = Reward[t] /\ s = rewards[t].reward
  <2>1. /\ done[t].count \in Nat /\ done[t].claimed \in Nat
        /\ done[t].multiplier \in Nat /\ worth[t] \in Nat /\ Reward[t] \in Nat
        /\ rewards[t].reward \in Nat
    BY <1>1 DEF TablesSound, RowSound, TaskRow
  <2>2. QED BY <2>1
<1>3. k <= c /\ done[t].completions \in Nat
  BY <1>1, <1>2 DEF RowSound, TaskRow
<1>4. s = p * (w - m * (c - k)) /\ FewCounted(t)
  BY <1>2 DEF AllPaid, TaskPaid
<1>5. c < CountModulus
  BY <1>2, <1>3, <1>4 DEF FewCounted, CountsFit
<1>6. RewardCount(r.row) = c - k
  <2>1. \A x \in Nat, y \in Nat : x < y => x % y = x
    OBVIOUS
  <2>2. c - k \in Nat /\ c - k < CountModulus
    BY <1>3, <1>5
  <2>3. (c - k) % CountModulus = c - k
    BY <2>1, <2>2
  <2>4. QED BY <1>2, <2>3 DEF RewardCount
<1>7. BalanceReward(r) = m * p * (c - k)
  BY <1>2, <1>6 DEF BalanceReward
<1>8. rewards'[t].reward = s + m * p * (c - k)
  <2>1. PICK a, b : a = BalanceReward(r) /\ b = XPReward(r)
    OBVIOUS
  <2>2. rewards' = [rewards EXCEPT ![t].reward = @ + a, ![t].xp = @ + b]
    BY <2>1 DEF UpdateCompletedTaskRewards
  <2>3. rewards'[t].reward = s + a
    BY <1>1, <1>2, <2>2 DEF TablesSound
  <2>4. QED BY <1>7, <2>1, <2>3
<1>9. p * (w - m * (c - k)) + m * p * (c - k) = p * w
  BY <1>3, PaidOff
<1>10. rewards'[t].reward = p * w
  BY <1>4, <1>8, <1>9
<1>11. done'[t].count - done'[t].claimed = 0
  BY <1>2
<1>12. TaskPaid(t)'
  BY <1>2, <1>10, <1>11 DEF TaskPaid
<1>13. FewCounted(t)'
  BY <1>2, <1>3, <1>4 DEF FewCounted
<1>14. QED BY <1>12, <1>13

\* What a payment writes for the other tasks.
LEMMA OthersUnpaid ==
    ASSUME TablesSound, NEW r, NEW s \in Tasks, r.task # s \/ s = TaskSignUp
    PROVE  UpdateCompletedTaskRewards(r)[s] = rewards[s]
<1>1. PICK a, b : a = BalanceReward(r) /\ b = XPReward(r)
  OBVIOUS
<1>2. UpdateCompletedTaskRewards(r) =
        IF r.task = TaskSignUp THEN rewards
        ELSE [rewards EXCEPT ![r.task].reward = @ + a, ![r.task].xp = @ + b]
  BY <1>1 DEF UpdateCompletedTaskRewards
<1>3. QED BY <1>2 DEF TablesSound

\* The steps that write a completion.
LEMMA CompletionsPaid ==
    ASSUME TasksInv, TasksInv', PaidInv, DailyOnce, overlaps = 0, overlaps' = 0, NEW h \in Handlers,
           \A g \in Handlers \ {h} : req[g].pc = "idle"
    PROVE  CompleteUpdate(h) \/ StreakUpdate(h) \/ AttachEmail(h) => PaidInv'
<1>0. PICK r, t : r = req[h] /\ t = r.task
  OBVIOUS
<1> USE <1>0
<1>1. RequestSound(r) /\ t \in Tasks /\ CopyStands(r) /\ AllPaid /\ TablesSound /\ TablesSound'
  BY CopiesSound DEF PaidInv, TasksInv, RequestSound
<1>2. CopyStands(Idle)'
  BY DEF CopyStands, Idle
<1>3. ASSUME CompleteUpdate(h) PROVE PaidInv'
  <2>1. /\ r.row = done[t] /\ done[t].completions < MaxCompletions
        /\ t \notin {TaskSignUp, TaskCompletDailyStreak} /\ r.multiplier = 0
    BY <1>1, <1>3 DEF CompleteUpdate, CopyStands, RequestSound
  <2>2. /\ done' = [done EXCEPT ![t] = Counted(r)] /\ worth' = Worth(t, Counted(r))
        /\ rewards' = rewards /\ Become(h, Idle)
    BY <1>3 DEF CompleteUpdate
  <2>3. TaskPaid(t)' /\ FewCounted(t)'
    BY <1>1, <2>1, <2>2, CountedPaid
  <2>4. AllPaid'
    <3>1. \A s \in Tasks \ {t} : /\ done'[s] = done[s] /\ worth'[s] = worth[s]
                                 /\ rewards'[s] = rewards[s]
      BY <1>1, <2>2 DEF TablesSound, Worth
    <3>2. QED BY <1>1, <2>3, <3>1, BooksMove
  <2>5. QED BY <1>2, <2>2, <2>4, PaidStep
<1>4. ASSUME StreakUpdate(h) PROVE PaidInv'
  <2>1. t = TaskCompletDailyStreak /\ t # TaskSignUp /\ Become(h, Idle) /\ rewards' = rewards
    BY <1>1, <1>4 DEF StreakUpdate, RequestSound
  <2>2. CASE MayComplete(t, done[t])
    <3>1. PICK q : q = [r EXCEPT !.row = done[t]]
      OBVIOUS
    <3>2. /\ done' = [done EXCEPT ![t] = Counted(q)] /\ worth' = Worth(t, Counted(q))
      BY <1>4, <2>2, <3>1 DEF StreakUpdate
    <3>3. q.row = done[t] /\ q.task = t /\ RequestSound(q)
      BY <1>1, <1>4, <3>1 DEF StreakUpdate, RequestSound, RequestFields, TablesSound
    <3>4. done[t].count = 0
      BY <1>1, <2>1, <2>2 DEF MayComplete, DailyOnce, Exists, RowSound, NoRow, TablesSound, TaskRow
    <3>5. TaskPaid(t)' /\ FewCounted(t)'
      BY <1>1, <2>1, <3>2, <3>3, <3>4, CountedPaid
    <3>6. \A s \in Tasks \ {t} : /\ done'[s] = done[s] /\ worth'[s] = worth[s]
                                 /\ rewards'[s] = rewards[s]
      BY <1>1, <2>1, <3>2 DEF TablesSound, Worth
    <3>7. AllPaid'
      BY <1>1, <3>5, <3>6, BooksMove
    <3>8. QED BY <1>2, <2>1, <3>7, PaidStep
  <2>3. CASE ~MayComplete(t, done[t])
    <3>1. UNCHANGED <<done, worth, rewards>>
      BY <1>4, <2>3 DEF StreakUpdate
    <3>2. AllPaid'
      BY <1>1, <3>1 DEF AllPaid, TaskPaid, FewCounted
    <3>3. QED BY <1>2, <2>1, <3>2, PaidStep
  <2>4. QED BY <2>2, <2>3
<1>5. ASSUME AttachEmail(h) PROVE PaidInv'
  <2>1. PICK row : row = [NoRow EXCEPT !.completions = 1, !.count = 1, !.multiplier = 1]
    OBVIOUS
  <2>2. /\ done' = [done EXCEPT ![TaskSignUp] = row] /\ worth' = Worth(TaskSignUp, row)
        /\ rewards' = rewards /\ Become(h, Idle)
    BY <1>5, <2>1 DEF AttachEmail
  <2>3. \A s \in Tasks \ {TaskSignUp} : /\ done'[s] = done[s] /\ worth'[s] = worth[s]
                                        /\ rewards'[s] = rewards[s]
    BY <1>1, <2>2 DEF TablesSound, Worth
  <2>4. AllPaid'
    BY <1>1, <2>3, BooksMove
  <2>5. QED BY <1>2, <2>2, <2>4, PaidStep
<1>6. QED BY <1>3, <1>4, <1>5

\* The steps that pay.
LEMMA PaymentsPaid ==
    ASSUME TasksInv, TasksInv', PaidInv, CountsFit, overlaps = 0, NEW h \in Handlers,
           \A g \in Handlers \ {h} : req[g].pc = "idle"
    PROVE  Claim(h) \/ UpdateCompletedTaskLimits(h) => PaidInv'
<1>0. PICK r, t : r = req[h] /\ t = r.task
  OBVIOUS
<1> USE <1>0
<1>1. RequestSound(r) /\ t \in Tasks /\ CopyStands(r) /\ AllPaid /\ TablesSound /\ TablesSound'
      /\ done[t] \in TaskRow /\ RowSound(done[t])
  BY CopiesSound DEF PaidInv, TasksInv, RequestSound, TablesSound, RowSound
<1>2. CopyStands(Idle)'
  BY DEF CopyStands, Idle
<1>3. ASSUME Claim(h) PROVE PaidInv'
  <2>1. r.row = done[t]
    BY <1>1, <1>3 DEF Claim, CopyStands
  <2>2. /\ done' = [done EXCEPT ![t].claimed = done[t].count] /\ worth' = worth
        /\ rewards' = UpdateCompletedTaskRewards(r) /\ Become(h, Idle)
    BY <1>3 DEF Claim, UpdateRewardClaimed
  <2>3. /\ done'[t].multiplier = done[t].multiplier
        /\ done'[t].completions = done[t].completions
        /\ done'[t].claimed = done'[t].count /\ done'[t].count = done[t].count
    BY <1>1, <2>2 DEF TablesSound, TaskRow
  <2>4. \A s \in Tasks \ {t} : /\ done'[s] = done[s] /\ worth'[s] = worth[s]
                               /\ rewards'[s] = rewards[s]
    BY <1>1, <2>2, OthersUnpaid DEF TablesSound
  <2>5. t # TaskSignUp => TaskPaid(t)' /\ FewCounted(t)'
    BY <1>1, <2>1, <2>2, <2>3, ClaimPays
  <2>6. AllPaid'
    BY <1>1, <2>4, <2>5, BooksMove
  <2>7. QED BY <1>2, <2>2, <2>6, PaidStep
<1>4. ASSUME UpdateCompletedTaskLimits(h) PROVE PaidInv'
  <2>1. r.row = done[t]
    BY <1>1, <1>4 DEF UpdateCompletedTaskLimits, CopyStands
  <2>2. /\ done' = [done EXCEPT ![t].count = 0, ![t].claimed = 0] /\ worth' = worth
        /\ rewards' = IF r.pc = "give" THEN UpdateCompletedTaskRewards(r) ELSE rewards
        /\ Become(h, Idle)
    BY <1>4 DEF UpdateCompletedTaskLimits
  <2>3. /\ done'[t].multiplier = done[t].multiplier
        /\ done'[t].completions = done[t].completions
        /\ done'[t].claimed = 0 /\ done'[t].count = 0
    BY <1>1, <2>2 DEF TablesSound, TaskRow
  <2>4. \A s \in Tasks \ {t} : /\ done'[s] = done[s] /\ worth'[s] = worth[s]
                               /\ rewards'[s] = rewards[s]
    BY <1>1, <2>2, OthersUnpaid DEF TablesSound
  <2>5. ASSUME t # TaskSignUp PROVE TaskPaid(t)' /\ FewCounted(t)'
    <3>1. CASE r.pc = "give"
      BY <1>1, <2>1, <2>2, <2>3, <2>5, <3>1, ClaimPays
    <3>2. CASE r.pc # "give"
      <4>1. r.pc = "reset" /\ done[t].claimed = done[t].count
        BY <1>1, <1>4, <3>2 DEF UpdateCompletedTaskLimits, CopyStands, RowSound, TaskRow
      <4>2. PICK m \in Nat, w \in Nat, p \in Nat, c \in Nat :
              m = done[t].multiplier /\ w = worth[t] /\ p = Reward[t] /\ c = done[t].count
        <5>1. /\ done[t].multiplier \in Nat /\ worth[t] \in Nat /\ Reward[t] \in Nat
              /\ done[t].count \in Nat
          BY <1>1 DEF TablesSound, TaskRow
        <5>2. QED BY <5>1
      <4>3. rewards[t].reward = p * (w - m * (c - c)) /\ FewCounted(t)
        BY <1>1, <2>5, <4>1, <4>2 DEF AllPaid, TaskPaid
      <4>4. c - c = 0 /\ 0 - 0 = 0
        OBVIOUS
      <4>5. TaskPaid(t)'
        BY <2>2, <2>3, <3>2, <4>2, <4>3, <4>4 DEF TaskPaid
      <4>6. FewCounted(t)'
        BY <1>1, <2>3, <4>3 DEF FewCounted, TaskRow
      <4>7. QED BY <4>5, <4>6
    <3>3. QED BY <3>1, <3>2
  <2>6. AllPaid'
    BY <1>1, <2>4, <2>5, BooksMove
  <2>7. QED BY <1>2, <2>2, <2>6, PaidStep
<1>5. QED BY <1>3, <1>4

\* Together with TasksInv it is inductive.
LEMMA PaidInductive ==
    ASSUME DailyOnce, CountsFit
    PROVE  /\ Init => PaidInv
           /\ TasksInv /\ PaidInv /\ [Next]_vars => PaidInv'
<1>1. Init => PaidInv
  <2> SUFFICES ASSUME Init PROVE PaidInv
    OBVIOUS
  <2>1. AllPaid
    BY DEF Init, AllPaid, TaskPaid, FewCounted, NoRow, NoRewards
  <2>2. QED BY <2>1 DEF Init, PaidInv, AloneInFlight, CopyStands, Idle
<1>2. ASSUME TasksInv, PaidInv, [Next]_vars, overlaps' = 0 PROVE PaidInv'
  <2>1. TasksInv'
    BY <1>2, TasksStep
  <2>2. overlaps = 0 /\ AloneInFlight
    BY <1>2, OverlapsRemembered DEF PaidInv
  <2> /\ \A h \in Handlers : Arrives(h) => \A g \in Handlers : req[g].pc = "idle"
      /\ \A h \in Handlers : req[h].pc # "idle" =>
            \A g \in Handlers \ {h} : req[g].pc = "idle"
    BY <1>2, <2>2, NobodyElse
  <2>3. CASE Midnight \/ UNCHANGED vars
    <3>1. UNCHANGED <<done, worth, rewards, req, overlaps>>
      BY <2>3 DEF Midnight, vars
    <3>2. AllPaid'
      BY <1>2, <2>2, <3>1 DEF PaidInv, AllPaid, TaskPaid, FewCounted
    <3>3. QED BY <1>2, <2>2, <3>1, <3>2 DEF PaidInv, AloneInFlight, CopyStands
  <2>4. ASSUME NEW h \in Handlers,
               \/ \E t \in Tasks : Complete(h, t) \/ ClaimReward(h, t) \/ GetUnclaimedRewards(h, t)
               \/ CompleteDailyStreakTask(h) \/ CompleteSignInEmail(h)
        PROVE  PaidInv'
    <3>1. Arrives(h)
      BY <2>4 DEF Complete, ClaimReward, GetUnclaimedRewards, CompleteDailyStreakTask, CompleteSignInEmail
    <3>2. QED BY <1>2, <2>2, <2>4, <3>1, ReadsPaid
  <2>5. ASSUME NEW h \in Handlers,
               \/ CompleteUpdate(h) \/ StreakUpdate(h) \/ AttachEmail(h)
               \/ CompletedByUserID(h) \/ GetLevelAndXP(h) \/ Claim(h)
               \/ UpdateCompletedTaskLimits(h) \/ Fails(h)
        PROVE  PaidInv'
    <3>1. req[h].pc # "idle"
      BY <2>5 DEF CompleteUpdate, StreakUpdate, AttachEmail, CompletedByUserID, GetLevelAndXP,
            Claim, UpdateCompletedTaskLimits, Fails
    <3>2. QED BY <1>2, <2>1, <2>2, <2>5, <3>1, BetweenPaid, CompletionsPaid, PaymentsPaid
  <2>6. QED BY <1>2, <2>3, <2>4, <2>5 DEF Next
<1>3. ASSUME TasksInv, PaidInv, [Next]_vars PROVE PaidInv'
  BY <1>2, <1>3 DEF PaidInv
<1>4. QED BY <1>1, <1>3

\* As long as a user's requests do not overlap, every completion is paid once, at the
\* multiplier it was completed with (Complete, Claim, UpdateCompletedTaskLimits); the
\* multiplier of the day can be kept in the row because the daily task counts once a day.
THEOREM EveryCompletionPaidOnce ==
    ASSUME DailyOnce, CountsFit
    PROVE  Spec => []PaidOnce
<1>1. PaidInv => PaidOnce
  BY DEF PaidInv, AllPaid, TaskPaid, PaidOnce
<1>2. Init => TasksInv /\ PaidInv
  BY TasksInit, PaidInductive
<1>3. TasksInv /\ PaidInv /\ [Next]_vars => (TasksInv /\ PaidInv)'
  BY TasksStep, PaidInductive
<1>4. QED BY <1>1, <1>2, <1>3, PTL DEF Spec

-----------------------------------------------------------------------------
(* The streak is the days in a row *)

\* the streak of a user who joined a duel on these days
StreakOf(u, days) ==
    IF days = {} THEN u.lastStreak = 0
    ELSE /\ u.lastStreak \in days /\ \A d \in days : d <= u.lastStreak
         /\ \A d \in Int : u.lastStreak - u.streak < d /\ d <= u.lastStreak => d \in days
         /\ u.lastStreak - u.streak \notin days

\* what a request will write as the streak is what it makes of the streak there is
StreakStands(r) ==
    /\ r.pc = "email" => r.user.lastStreak = user.lastStreak /\ r.user.streak = user.streak
    /\ r.pc = "streak" =>
          /\ user.lastStreak < r.user.lastStreak
          /\ r.user.streak = IF user.lastStreak + 1 = r.user.lastStreak THEN user.streak + 1 ELSE 1

StreakInv ==
    overlaps = 0 => /\ AloneInFlight
                    /\ StreakOf(user, played)
                    /\ \A h \in Handlers : StreakStands(req[h])

\* A new day makes the run longer or begins another.
LEMMA StreakGoesOn ==
    ASSUME UserSound(user), played \subseteq 2..LastDay, StreakOf(user, played),
           NEW u, UserSound(u), u.lastStreak # 0, user.lastStreak < u.lastStreak,
           u.streak = IF user.lastStreak + 1 = u.lastStreak THEN user.streak + 1 ELSE 1
    PROVE  StreakOf(u, played \cup {u.lastStreak})
<1>1. PICK L \in Int, S \in Int, M \in Int, T \in Int :
         L = user.lastStreak /\ S = user.streak /\ M = u.lastStreak /\ T = u.streak
  BY DEF UserSound
<1>2. /\ 0 <= L /\ L < M /\ 2 <= M /\ 1 <= S
      /\ T = IF L + 1 = M THEN S + 1 ELSE 1
  BY <1>1 DEF UserSound
<1>3. \A d \in played : d \in Int /\ d <= L
  BY <1>1 DEF StreakOf
<1>4. played # {} => /\ L \in played
                     /\ \A d \in Int : L - S < d /\ d <= L => d \in played
                     /\ L - S \notin played
  BY <1>1 DEF StreakOf
<1>5. played = {} => L = 0
  BY <1>1 DEF StreakOf
<1> DEFINE days == played \cup {M}
<1>6. M \in days /\ \A d \in days : d <= M
  BY <1>2, <1>3
<1>7. CASE L + 1 = M
  <2>1. played # {} /\ T = S + 1 /\ M - T = L - S
    BY <1>2, <1>5, <1>7
  <2>2. \A d \in Int : M - T < d /\ d <= M => d \in days
    BY <1>4, <1>7, <2>1
  <2>3. M - T \notin days
    BY <1>2, <1>4, <2>1
  <2>4. QED BY <1>1, <1>6, <2>2, <2>3 DEF StreakOf
<1>8. CASE L + 1 # M
  <2>1. T = 1
    BY <1>2, <1>8
  <2>2. \A d \in Int : M - T < d /\ d <= M => d \in days
    BY <2>1
  <2>3. M - T \notin days
    BY <1>2, <1>3, <1>8, <2>1
  <2>4. QED BY <1>1, <1>6, <2>2, <2>3 DEF StreakOf
<1>9. QED BY <1>7, <1>8

\* The step of the only request in flight, by what it leaves behind.
LEMMA StreakStep ==
    ASSUME TasksInv, overlaps = 0, NEW h \in Handlers, NEW r, Become(h, r),
           \A g \in Handlers \ {h} : req[g].pc = "idle",
           StreakOf(user, played)', StreakStands(r)'
    PROVE  StreakInv'
<1>1. /\ AloneInFlight' /\ req'[h] = r
      /\ \A g \in Handlers \ {h} : req'[g].pc = "idle"
  BY AloneStays
<1>2. \A g \in Handlers \ {h} : StreakStands(req[g])'
  BY <1>1 DEF StreakStands
<1>3. StreakStands(req[h])'
  BY <1>1 DEF StreakStands
<1>4. QED BY <1>1, <1>2, <1>3 DEF StreakInv

\* A step that leaves last_completed_streak and daily_reward_streak alone, and ends with
\* a request that will not write them.
LEMMA StreakRests ==
    ASSUME TasksInv, StreakInv, overlaps = 0, NEW h \in Handlers, NEW r, Become(h, r),
           \A g \in Handlers \ {h} : req[g].pc = "idle", r.pc \notin {"email", "streak"},
           user'.lastStreak = user.lastStreak, user'.streak = user.streak, played' = played
    PROVE  StreakInv'
<1>1. StreakOf(user, played)'
  BY DEF StreakInv, StreakOf
<1>2. StreakStands(r)'
  BY DEF StreakStands
<1>3. QED BY <1>1, <1>2, StreakStep

\* The steps that begin to write them.
LEMMA StreakRead ==
    ASSUME TasksInv, StreakInv, overlaps = 0, NEW h \in Handlers,
           \A g \in Handlers : req[g].pc = "idle"
    PROVE  CompleteDailyStreakTask(h) \/ CompleteSignInEmail(h) => StreakInv'
<1>0. StreakOf(user, played) /\ DOMAIN user = Columns /\ UserSound(user) /\ day \in 2..LastDay
  BY DEF StreakInv, TasksInv, UserSound
<1>1. ASSUME CompleteDailyStreakTask(h) PROVE StreakInv'
  <2>1. PICK m, u : /\ m = RewardDayByStreak(DayStreak(user))
                    /\ u = [user EXCEPT !.lastStreak = day, !.streak = DayStreak(user)]
    OBVIOUS
  <2>2. PICK r : r = [Idle EXCEPT !.pc = "streak", !.job = "streak",
                          !.task = TaskCompletDailyStreak, !.multiplier = m, !.user = u]
    OBVIOUS
  <2>3. Become(h, r) /\ user' = user /\ played' = played /\ user.lastStreak # day
    BY <1>1, <2>1, <2>2 DEF CompleteDailyStreakTask, HasClaimedRewardToday
  <2>4. r.pc = "streak" /\ r.user = u
    BY <2>2 DEF Idle
  <2>5. u.lastStreak = day /\ u.streak = DayStreak(user)
    BY <1>0, <2>1 DEF Columns
  <2>6. /\ user.lastStreak < day
        /\ DayStreak(user) = IF user.lastStreak + 1 = day THEN user.streak + 1 ELSE 1
    BY <1>0, <2>3 DEF UserSound, DayStreak
  <2>7. StreakStands(r)'
    BY <2>3, <2>4, <2>5, <2>6 DEF StreakStands
  <2>8. StreakOf(user, played)'
    BY <1>0, <2>3 DEF StreakOf
  <2>9. QED BY <2>3, <2>7, <2>8, StreakStep
<1>2. ASSUME CompleteSignInEmail(h) PROVE StreakInv'
  <2>1. PICK u : u = [user EXCEPT !.email = TRUE]
    OBVIOUS
  <2>2. PICK r : r = [Idle EXCEPT !.pc = "email", !.job = "email", !.user = u]
    OBVIOUS
  <2>3. Become(h, r) /\ user' = user /\ played' = played
    BY <1>2, <2>1, <2>2 DEF CompleteSignInEmail
  <2>4. r.pc = "email" /\ r.user = u
    BY <2>2 DEF Idle
  <2>5. u.lastStreak = user.lastStreak /\ u.streak = user.streak
    BY <1>0, <2>1 DEF Columns
  <2>6. StreakStands(r)'
    BY <2>3, <2>4, <2>5 DEF StreakStands
  <2>7. StreakOf(user, played)'
    BY <1>0, <2>3 DEF StreakOf
  <2>8. QED BY <2>3, <2>6, <2>7, StreakStep
<1>3. QED BY <1>1, <1>2

\* The steps that write them.
LEMMA StreakWritten ==
    ASSUME TasksInv, StreakInv, overlaps = 0, NEW h \in Handlers,
           \A g \in Handlers \ {h} : req[g].pc = "idle"
    PROVE  StreakUpdate(h) \/ AttachEmail(h) => StreakInv'
<1>0. PICK r : r = req[h]
  OBVIOUS
<1>1. /\ StreakOf(user, played) /\ UserSound(user) /\ RequestSound(r) /\ StreakStands(r)
      /\ played \subseteq 2..LastDay
  BY <1>0 DEF StreakInv, TasksInv
<1>2. Idle.pc \notin {"email", "streak"}
  BY DEF Idle
<1>3. ASSUME StreakUpdate(h) PROVE StreakInv'
  <2>1. /\ r.pc = "streak" /\ user' = WriteBack(r.user)
        /\ played' = played \cup {r.user.lastStreak} /\ Become(h, Idle)
    BY <1>0, <1>3 DEF StreakUpdate
  <2>2. UserSound(r.user) /\ r.user.lastStreak # 0
    BY <1>1, <2>1 DEF RequestSound
  <2>3. user'.lastStreak = r.user.lastStreak /\ user'.streak = r.user.streak
    BY <1>1, <2>1, <2>2, WrittenSound
  <2>4. StreakOf(r.user, played \cup {r.user.lastStreak})
    BY <1>1, <2>1, <2>2, StreakGoesOn DEF StreakStands
  <2>5. StreakOf(user, played)'
    BY <2>1, <2>3, <2>4 DEF StreakOf
  <2>6. StreakStands(Idle)'
    BY <1>2 DEF StreakStands, Idle
  <2>7. QED BY <2>1, <2>5, <2>6, StreakStep
<1>4. ASSUME AttachEmail(h) PROVE StreakInv'
  <2>1. PICK w : w = WriteBack(r.user)
    OBVIOUS
  <2>2. /\ r.pc = "email" /\ user' = [w EXCEPT !.balance = @ + Reward[TaskSignUp]]
        /\ played' = played /\ Become(h, Idle)
    BY <1>0, <1>4, <2>1 DEF AttachEmail
  <2>3. UserSound(r.user) /\ r.user.lastStreak = user.lastStreak /\ r.user.streak = user.streak
    BY <1>1, <2>2 DEF RequestSound, StreakStands
  <2>4. w.streak = user.streak /\ UserSound(w)
    BY <1>1, <2>1, <2>3, WrittenSound
  <2>5. w.lastStreak = user.lastStreak
    BY <1>1, <2>1, <2>3 DEF WriteBack, UserSound, Columns, NoUser
  <2>6. user'.lastStreak = user.lastStreak /\ user'.streak = user.streak
    BY <2>2, <2>4, <2>5 DEF UserSound, Columns
  <2>7. QED BY <1>2, <2>2, <2>6, StreakRests
<1>5. QED BY <1>3, <1>4

\* Together with TasksInv it is inductive.
LEMMA StreakInductive ==
    /\ Init => StreakInv
    /\ TasksInv /\ StreakInv /\ [Next]_vars => StreakInv'
<1>1. Init => StreakInv
  BY DEF Init, StreakInv, AloneInFlight, StreakOf, StreakStands, Idle, NoUser
<1>2. ASSUME TasksInv, StreakInv, [Next]_vars, overlaps' = 0 PROVE StreakInv'
  <2>1. overlaps = 0 /\ AloneInFlight
    BY <1>2, OverlapsRemembered DEF StreakInv
  <2>2. /\ \A h \in Handlers : Arrives(h) => \A g \in Handlers : req[g].pc = "idle"
        /\ \A h \in Handlers : req[h].pc # "idle" =>
              \A g \in Handlers \ {h} : req[g].pc = "idle"
    BY <1>2, <2>1, NobodyElse
  <2>3. CASE Midnight \/ UNCHANGED vars
    BY <1>2, <2>1, <2>3 DEF Midnight, vars, StreakInv, AloneInFlight, StreakOf, StreakStands
  <2>4. ASSUME NEW h \in Handlers, CompleteDailyStreakTask(h) \/ CompleteSignInEmail(h)
        PROVE  StreakInv'
    <3>1. Arrives(h)
      BY <2>4 DEF CompleteDailyStreakTask, CompleteSignInEmail
    <3>2. QED BY <1>2, <2>1, <2>2, <2>4, <3>1, StreakRead
  <2>5. ASSUME NEW h \in Handlers, StreakUpdate(h) \/ AttachEmail(h) PROVE StreakInv'
    <3>1. req[h].pc # "idle"
      BY <2>5 DEF StreakUpdate, AttachEmail
    <3>2. QED BY <1>2, <2>1, <2>2, <2>5, <3>1, StreakWritten
  <2>6. ASSUME NEW h \in Handlers,
               \E t \in Tasks : Complete(h, t) \/ ClaimReward(h, t) \/ GetUnclaimedRewards(h, t)
        PROVE  StreakInv'
    <3>1. Arrives(h)
      BY <2>6 DEF Complete, ClaimReward, GetUnclaimedRewards
    <3>2. user' = user /\ played' = played
      BY <2>6 DEF Complete, ClaimReward, GetUnclaimedRewards
    <3>3. \E r : Become(h, r) /\ r.pc \notin {"email", "streak"}
      <4>1. ASSUME NEW t \in Tasks, Complete(h, t)
            PROVE  \E r : Become(h, r) /\ r.pc \notin {"email", "streak"}
        <5>1. PICK r : r = [Idle EXCEPT !.pc = "complete", !.job = "complete", !.task = t,
                                        !.row = done[t]]
          OBVIOUS
        <5>2. Become(h, r) /\ r.pc = "complete"
          BY <4>1, <5>1 DEF Complete, Idle
        <5>3. QED BY <5>2
      <4>2. ASSUME NEW t \in Tasks, ClaimReward(h, t)
            PROVE  \E r : Become(h, r) /\ r.pc \notin {"email", "streak"}
        <5>1. PICK r : r = [Idle EXCEPT !.pc = "claim", !.job = "claim", !.task = t,
                                        !.seen = done[t].count]
          OBVIOUS
        <5>2. Become(h, r) /\ r.pc = "claim"
          BY <4>2, <5>1 DEF ClaimReward, Idle
        <5>3. QED BY <5>2
      <4>3. ASSUME NEW t \in Tasks, GetUnclaimedRewards(h, t)
            PROVE  \E r : Become(h, r) /\ r.pc \notin {"email", "streak"}
        <5>1. PICK q : q = IF done[t].claimed < done[t].count THEN "level" ELSE "reset"
          OBVIOUS
        <5>2. PICK r : r = [Idle EXCEPT !.pc = q, !.job = "reset", !.task = t, !.row = done[t]]
          OBVIOUS
        <5>3. Become(h, r)
          BY <4>3, <5>1, <5>2 DEF GetUnclaimedRewards
        <5>4. r.pc = q
          BY <5>2 DEF Idle
        <5>5. QED BY <5>1, <5>3, <5>4
      <4>4. QED BY <2>6, <4>1, <4>2, <4>3
    <3>4. QED BY <1>2, <2>1, <2>2, <3>1, <3>2, <3>3, StreakRests
  <2>7. ASSUME NEW h \in Handlers,
               \/ CompleteUpdate(h) \/ CompletedByUserID(h) \/ GetLevelAndXP(h) \/ Claim(h)
               \/ UpdateCompletedTaskLimits(h) \/ Fails(h)
        PROVE  StreakInv'
    <3>1. req[h].pc # "idle" /\ played' = played
      BY <2>7 DEF CompleteUpdate, CompletedByUserID, GetLevelAndXP,
            Claim, UpdateCompletedTaskLimits, Fails
    <3>2. user' \in {user, GiveReward(req[h])}
      BY <2>7 DEF CompleteUpdate, CompletedByUserID, GetLevelAndXP,
            Claim, UpdateCompletedTaskLimits, Fails
    <3>3. /\ GiveReward(req[h]).lastStreak = user.lastStreak
          /\ GiveReward(req[h]).streak = user.streak
      BY <1>2, GivenSound DEF TasksInv
    <3>4. \E r : Become(h, r) /\ r.pc \notin {"email", "streak"}
      <4>1. DOMAIN req[h] = RequestFields /\ Idle.pc = "idle"
        BY <1>2 DEF TasksInv, RequestSound, Idle
      <4>2. CASE Become(h, Idle)
        BY <4>1, <4>2
      <4>3. CASE CompletedByUserID(h) /\ ~Become(h, Idle)
        <5>1. PICK r : r = [req[h] EXCEPT !.pc = "level", !.seen = 0, !.row = done[req[h].task]]
          OBVIOUS
        <5>2. Become(h, r) /\ r.pc = "level"
          BY <4>1, <4>3, <5>1 DEF CompletedByUserID, RequestFields
        <5>3. QED BY <5>2
      <4>4. CASE GetLevelAndXP(h)
        <5>1. PICK u : u = [NoUser EXCEPT !.level = user.level, !.xp = user.xp]
          OBVIOUS
        <5>2. PICK r : r = [req[h] EXCEPT !.pc = "give", !.user = u]
          OBVIOUS
        <5>3. Become(h, r) /\ r.pc = "give"
          BY <4>1, <4>4, <5>1, <5>2 DEF GetLevelAndXP, RequestFields
        <5>4. QED BY <5>3
      <4>5. QED
        BY <2>7, <4>2, <4>3, <4>4 DEF CompleteUpdate, Claim, UpdateCompletedTaskLimits, Fails
    <3>5. QED BY <1>2, <2>1, <2>2, <3>1, <3>2, <3>3, <3>4, StreakRests
  <2>8. QED BY <1>2, <2>3, <2>4, <2>5, <2>6, <2>7 DEF Next
<1>3. ASSUME TasksInv, StreakInv, [Next]_vars PROVE StreakInv'
  BY <1>2, <1>3 DEF StreakInv
<1>4. QED BY <1>1, <1>3

\* As long as a user's requests do not overlap, the streak is the number of days in a row,
\* up to the last, on which the user joined a duel (completeDailyStreakTask), however long
\* a request takes and whatever else writes the user's row.
THEOREM StreakCountsDaysInARow == Spec => []StreakIsARun
<1>1. TasksInv /\ StreakInv => StreakIsARun
  <2> SUFFICES ASSUME TasksInv, StreakInv, overlaps = 0, played # {}
               PROVE  /\ user.lastStreak = Max(played)
                      /\ (user.lastStreak - user.streak + 1)..user.lastStreak \subseteq played
                      /\ user.lastStreak - user.streak \notin played
    BY DEF StreakIsARun
  <2>1. PICK L \in Int, S \in Int : L = user.lastStreak /\ S = user.streak
    BY DEF TasksInv, UserSound
  <2>2. /\ L \in played /\ \A d \in played : d \in Int /\ d <= L
        /\ \A d \in Int : L - S < d /\ d <= L => d \in played
        /\ L - S \notin played
    <3>1. StreakOf(user, played) /\ played \subseteq 2..LastDay
      BY DEF StreakInv, TasksInv
    <3>2. \A d \in played : d \in Int
      BY <3>1
    <3>3. QED BY <2>1, <3>1, <3>2 DEF StreakOf
  <2>3. \A x \in played : (\A y \in played : x >= y) => x = L
    BY <2>2
  <2>4. Max(played) = L
    BY <2>2, <2>3 DEF Max
  <2>5. (L - S + 1)..L \subseteq played
    BY <2>2
  <2>6. QED BY <2>1, <2>2, <2>4, <2>5
<1>2. QED BY <1>1, TasksInit, TasksStep, StreakInductive, PTL DEF Spec

-----------------------------------------------------------------------------
(***************************************************************************)
(* Balance, level and XP are what the rewards add up to.                   *)
(***************************************************************************)

\* calculateLevelXP is a formula: it knows the XP of every level there could be
EveryLevelHasXP == \A l \in Nat \ {0} : LevelXP[l] \in Nat \ {0}

\* The levels a user has climbed are those of the way to one before and of the rest.
LEMMA LevelsAdd ==
    ASSUME EveryLevelHasXP, NEW l \in Nat
    PROVE  /\ LevelsXP(l, 0) = 0
           /\ \A n \in Nat : /\ LevelsXP(l, n) \in Int
                             /\ LevelsXP(l, n + 1) = LevelsXP(l, n) + LevelXP[(l + n) + 1]
                             /\ LevelsXP(0, l + n) = LevelsXP(0, l) + LevelsXP(l, n)
<1>1. LevelsXP(l, 0) = 0
  <2>1. (l + 1)..(l + 0) = {}
    OBVIOUS
  <2>2. QED BY <2>1, SumOfNothing DEF LevelsXP
<1>2. ASSUME NEW a \in Nat, NEW b \in Nat
      PROVE  IsFiniteSet((a + 1)..b) /\ IntOn(LevelXP, (a + 1)..b)
  <2>1. a + 1 \in Int /\ b \in Int
    OBVIOUS
  <2>2. IsFiniteSet((a + 1)..b)
    BY <2>1, FS_Interval
  <2>3. \A x \in (a + 1)..b : x \in Nat \ {0}
    OBVIOUS
  <2>4. QED BY <2>2, <2>3 DEF IntOn, EveryLevelHasXP
<1>3. ASSUME NEW n \in Nat
      PROVE  /\ LevelsXP(l, n) \in Int
             /\ LevelsXP(l, n + 1) = LevelsXP(l, n) + LevelXP[(l + n) + 1]
             /\ LevelsXP(0, l + n) = LevelsXP(0, l) + LevelsXP(l, n)
  <2>1. PICK S, T, x : S = (l + 1)..(l + n) /\ T = (0 + 1)..(0 + l) /\ x = (l + n) + 1
    OBVIOUS
  <2>2. IsFiniteSet(S) /\ IntOn(LevelXP, S)
    BY <1>2, <2>1, l + n \in Nat
  <2>3. IsFiniteSet(T) /\ IntOn(LevelXP, T)
    BY <1>2, <2>1, 0 + l = l
  <2>4. S \cup {x} = (l + 1)..(l + (n + 1)) /\ x \notin S /\ x \in Nat \ {0}
    <3>1. x = (l + n) + 1 /\ x \in Nat \ {0}
      BY <2>1
    <3>2. x \notin S
      BY <2>1, <3>1
    <3>3. \A i \in Int : i \in S \cup {x} <=> i \in (l + 1)..(l + (n + 1))
      BY <2>1, <3>1
    <3>4. S \cup {x} \subseteq Int /\ (l + 1)..(l + (n + 1)) \subseteq Int
      BY <2>1, <3>1
    <3>5. QED BY <3>1, <3>2, <3>3, <3>4
  <2>5. T \cup S = (0 + 1)..(0 + (l + n)) /\ T \cap S = {}
    BY <2>1
  <2>6. LevelXP[x] \in Int
    BY <2>4 DEF EveryLevelHasXP
  <2>7. SumFunctionOnSet(LevelXP, S) \in Int
    BY <2>2, SumInt
  <2>8. SumFunctionOnSet(LevelXP, S \cup {x}) = SumFunctionOnSet(LevelXP, S) + LevelXP[x]
    BY <2>2, <2>4, <2>6, SumWith
  <2>9. SumFunctionOnSet(LevelXP, T \cup S)
          = SumFunctionOnSet(LevelXP, T) + SumFunctionOnSet(LevelXP, S)
    BY <2>2, <2>3, <2>5, SumOfUnion
  <2>10. QED BY <2>1, <2>4, <2>5, <2>7, <2>8, <2>9 DEF LevelsXP
<1>4. QED BY <1>1, <1>3

\* Every level costs something.
LEMMA LevelsCost ==
    ASSUME EveryLevelHasXP, NEW l \in Nat
    PROVE  \A n \in Nat : n <= LevelsXP(l, n)
<1> DEFINE Bad == {n \in Nat : ~ (n <= LevelsXP(l, n))}
<1>1. SUFFICES ASSUME Bad # {} PROVE FALSE
  OBVIOUS
<1>2. PICK n \in Bad : \A m \in Bad : n <= m
  BY <1>1, Smallest
<1>3. n # 0
  BY LevelsAdd
<1>4. PICK m \in Nat : n = m + 1
  BY <1>3, n - 1 \in Nat
<1>5. m <= LevelsXP(l, m)
  BY <1>2, <1>4
<1>6. LevelsXP(l, n) = LevelsXP(l, m) + LevelXP[(l + m) + 1] /\ LevelsXP(l, m) \in Int
  BY <1>4, LevelsAdd
<1>7. LevelXP[(l + m) + 1] \in Nat \ {0}
  BY (l + m) + 1 \in Nat \ {0} DEF EveryLevelHasXP
<1>8. QED BY <1>4, <1>5, <1>6, <1>7

\* The loop of recalculateUserLevelAndXP ends, at the level the XP is enough for.
LEMMA ClimbsFarEnough ==
    ASSUME EveryLevelHasXP, NEW l \in Nat, NEW xp \in Nat
    PROVE  /\ Climbed(l, xp) \in 0..xp
           /\ LevelsXP(l, Climbed(l, xp)) <= xp
           /\ xp < LevelsXP(l, Climbed(l, xp) + 1)
<1> DEFINE Above == {m \in Nat : xp < LevelsXP(l, m)}
<1>1. xp + 1 \in Above
  <2>1. xp + 1 \in Nat /\ xp + 1 <= LevelsXP(l, xp + 1)
    BY LevelsCost
  <2>2. LevelsXP(l, xp + 1) \in Int
    BY <2>1, LevelsAdd
  <2>3. QED BY <2>1, <2>2
<1>2. PICK m \in Above : \A k \in Above : m <= k
  BY <1>1, Smallest
<1>3. m # 0
  BY LevelsAdd
<1>4. PICK n \in Nat : m = n + 1
  BY <1>3, m - 1 \in Nat
<1>5. LevelsXP(l, n) \in Int
  BY LevelsAdd
<1>6. LevelsXP(l, n) <= xp
  BY <1>2, <1>4, <1>5
<1>7. n <= xp
  BY <1>6, <1>5, LevelsCost
<1>8. \E c \in 0..xp : LevelsXP(l, c) <= xp /\ xp < LevelsXP(l, c + 1)
  BY <1>2, <1>4, <1>6, <1>7
<1>9. QED BY <1>8 DEF Climbed

\* Levels and what is left of the XP hold all XP there was before and what comes.
LEMMA LevelsKeepXP ==
    ASSUME EveryLevelHasXP, NEW l \in Nat, NEW xp \in Nat
    PROVE  LET n == Climbed(l, xp) IN
           /\ l + n \in Nat /\ xp - LevelsXP(l, n) \in Nat
           /\ LevelsXP(0, l + n) + (xp - LevelsXP(l, n)) = LevelsXP(0, l) + xp
           /\ xp - LevelsXP(l, n) < LevelXP[(l + n) + 1]
<1>1. PICK n \in 0..xp : n = Climbed(l, xp) /\ LevelsXP(l, n) <= xp /\ xp < LevelsXP(l, n + 1)
  BY ClimbsFarEnough
<1>2. /\ LevelsXP(l, n) \in Int
      /\ LevelsXP(l, n + 1) = LevelsXP(l, n) + LevelXP[(l + n) + 1]
      /\ LevelsXP(0, l + n) = LevelsXP(0, l) + LevelsXP(l, n)
  BY n \in Nat, LevelsAdd
<1>3. LevelsXP(0, l) \in Int /\ LevelXP[(l + n) + 1] \in Nat
  <2>1. LevelsXP(0, l) \in Int
    BY LevelsAdd
  <2>2. QED BY <2>1, <1>1, (l + n) + 1 \in Nat \ {0} DEF EveryLevelHasXP
<1>4. QED BY <1>1, <1>2, <1>3

\* what was paid of a column of the rewards
PaidReward == SumFunction([t \in Tasks |-> rewards[t].reward])
PaidXP == SumFunction([t \in Tasks |-> rewards[t].xp])

\* the row of a user who has not attached an email, next to the rewards
RewardsMatch ==
    /\ user.level \in Nat /\ user.xp \in Nat
    /\ ~Exists(done[TaskSignUp])
    /\ user.balance = InitialBalance + PaidReward
    /\ LevelsXP(0, user.level) + user.xp = PaidXP
    /\ user.xp < LevelXP[user.level + 1]

\* what a request knows of the user; nothing of the task that attaching an email completes
\* is there to be claimed
UserStands(r) ==
    /\ r.pc = "streak" => /\ r.user.balance = user.balance
                          /\ r.user.level = user.level /\ r.user.xp = user.xp
    /\ r.pc = "email" => r.user.email
    /\ r.pc = "give" => r.user.level = user.level /\ r.user.xp = user.xp
    /\ r.pc \in {"level", "give"} => r.task # TaskSignUp

LevelInv ==
    overlaps = 0 /\ ~user.email => /\ RewardsMatch
                                   /\ \A h \in Handlers : UserStands(req[h])

\* The sums when the rewards of one task grow.
LEMMA RewardsGrow ==
    ASSUME TablesSound, NEW t \in Tasks, NEW a \in Nat, NEW b \in Nat,
           rewards' = [rewards EXCEPT ![t].reward = @ + a, ![t].xp = @ + b]
    PROVE  /\ PaidReward \in Int /\ PaidReward' = PaidReward + a
           /\ PaidXP \in Int /\ PaidXP' = PaidXP + b
<1>1. PICK f, g, p, q :
         /\ f = [s \in Tasks |-> rewards[s].reward] /\ g = [s \in Tasks |-> rewards'[s].reward]
         /\ p = [s \in Tasks |-> rewards[s].xp] /\ q = [s \in Tasks |-> rewards'[s].xp]
  OBVIOUS
<1>2. \A s \in Tasks : rewards[s].reward \in Nat /\ rewards[s].xp \in Nat
  BY DEF TablesSound
<1>3. /\ \A s \in Tasks \ {t} : rewards'[s] = rewards[s]
      /\ rewards'[t].reward = rewards[t].reward + a /\ rewards'[t].xp = rewards[t].xp + b
  BY DEF TablesSound
<1>4. /\ \A s \in Tasks \ {t} : g[s] = f[s] /\ q[s] = p[s]
      /\ g[t] = f[t] + a /\ q[t] = p[t] + b
      /\ \A s \in Tasks : f[s] \in Nat /\ p[s] \in Nat
  <2>1. PICK v : v = rewards'
    OBVIOUS
  <2>2. /\ \A s \in Tasks : f[s] = rewards[s].reward /\ g[s] = v[s].reward
        /\ \A s \in Tasks : p[s] = rewards[s].xp /\ q[s] = v[s].xp
    BY <1>1, <2>1
  <2>3. /\ \A s \in Tasks \ {t} : v[s] = rewards[s]
        /\ v[t].reward = rewards[t].reward + a /\ v[t].xp = rewards[t].xp + b
    BY <1>3, <2>1
  <2>4. QED BY <1>2, <2>2, <2>3
<1>5. IntOn(f, Tasks) /\ IntOn(g, Tasks) /\ IntOn(p, Tasks) /\ IntOn(q, Tasks)
  <2>1. g[t] \in Int /\ q[t] \in Int
    BY <1>4
  <2>2. QED BY <1>4, <2>1 DEF IntOn
<1>6. /\ SumFunctionOnSet(g, Tasks) = SumFunctionOnSet(f, Tasks) + g[t] - f[t]
      /\ SumFunctionOnSet(q, Tasks) = SumFunctionOnSet(p, Tasks) + q[t] - p[t]
      /\ SumFunctionOnSet(f, Tasks) \in Int /\ SumFunctionOnSet(p, Tasks) \in Int
  BY <1>4, <1>5, SumOfChanged, SumInt
<1>7. DOMAIN f = Tasks /\ DOMAIN g = Tasks /\ DOMAIN p = Tasks /\ DOMAIN q = Tasks
  BY <1>1
<1>8. /\ PaidReward = SumFunctionOnSet(f, Tasks) /\ PaidReward' = SumFunctionOnSet(g, Tasks)
      /\ PaidXP = SumFunctionOnSet(p, Tasks) /\ PaidXP' = SumFunctionOnSet(q, Tasks)
  BY <1>1, <1>7 DEF PaidReward, PaidXP, SumFunction
<1>9. QED BY <1>4, <1>6, <1>8

\* What a claim gives keeps the row next to the rewards.
LEMMA GivesWhatItRecords ==
    ASSUME EveryLevelHasXP, TasksInv, RewardsMatch, NEW r, RequestSound(r), UserStands(r),
           r.pc = "give", user' = GiveReward(r), rewards' = UpdateCompletedTaskRewards(r),
           ~Exists(done'[TaskSignUp])
    PROVE  RewardsMatch'
<1>1. PICK a \in Nat, b \in Nat : a = BalanceReward(r) /\ b = XPReward(r)
  BY GivenSound DEF TasksInv
<1>2. r.task \in Tasks /\ r.task # TaskSignUp /\ TablesSound
  BY DEF RequestSound, UserStands, TasksInv
<1>3. rewards' = [rewards EXCEPT ![r.task].reward = @ + a, ![r.task].xp = @ + b]
  BY <1>1, <1>2 DEF UpdateCompletedTaskRewards
<1>4. /\ PaidReward \in Int /\ PaidReward' = PaidReward + a
      /\ PaidXP \in Int /\ PaidXP' = PaidXP + b
  BY <1>2, <1>3, RewardsGrow
<1>5. PICK l \in Nat, x \in Nat, xp \in Nat :
         l = user.level /\ x = user.xp /\ xp = x + b
  BY DEF RewardsMatch
<1>6. r.user.level = l /\ r.user.xp = x
  BY <1>5 DEF UserStands
<1>7. PICK n : n = Climbed(l, xp)
  OBVIOUS
<1>8. /\ l + n \in Nat /\ xp - LevelsXP(l, n) \in Nat
      /\ LevelsXP(0, l + n) + (xp - LevelsXP(l, n)) = LevelsXP(0, l) + xp
      /\ xp - LevelsXP(l, n) < LevelXP[(l + n) + 1]
  BY <1>7, LevelsKeepXP
<1>9. PICK y : y = xp - LevelsXP(l, n)
  OBVIOUS
<1>10. DOMAIN user = Columns /\ user.balance \in Nat
  BY DEF TasksInv, UserSound
<1>11. user' = [user EXCEPT !.balance = @ + a, !.level = l + n, !.xp = y]
  BY <1>1, <1>5, <1>6, <1>7, <1>9 DEF GiveReward
<1>12. user'.balance = user.balance + a /\ user'.level = l + n /\ user'.xp = y
  BY <1>10, <1>11 DEF Columns
<1>13. LevelsXP(0, l) \in Int
  BY LevelsAdd
<1>14. LevelsXP(0, l + n) + y = (LevelsXP(0, l) + x) + b
  BY <1>5, <1>8, <1>9, <1>13
<1>15. LevelsXP(0, user.level)' = LevelsXP(0, l + n)
  BY <1>12 DEF LevelsXP
<1>16. user'.balance = InitialBalance + PaidReward'
  BY <1>4, <1>12 DEF RewardsMatch
<1>17. LevelsXP(0, user.level)' + user'.xp = PaidXP'
  BY <1>4, <1>5, <1>12, <1>14, <1>15 DEF RewardsMatch
<1>18. /\ user'.level \in Nat /\ user'.xp \in Nat
       /\ user'.xp < LevelXP[user'.level + 1]
  BY <1>8, <1>9, <1>12
<1>19. ~Exists(done[TaskSignUp])'
  BY DEF Exists
<1>20. QED BY <1>16, <1>17, <1>18, <1>19 DEF RewardsMatch

\* The step of the only request in flight, by what it leaves behind.
LEMMA LevelStep ==
    ASSUME TasksInv, NEW h \in Handlers, NEW r, Become(h, r),
           \A g \in Handlers \ {h} : req[g].pc = "idle",
           RewardsMatch', UserStands(r)'
    PROVE  LevelInv'
<1>1. /\ req'[h] = r
      /\ \A g \in Handlers \ {h} : req'[g].pc = "idle"
  BY AloneStays
<1>2. \A g \in Handlers \ {h} : UserStands(req[g])'
  BY <1>1 DEF UserStands
<1>3. UserStands(req[h])'
  BY <1>1 DEF UserStands
<1>4. QED BY <1>1, <1>2, <1>3 DEF LevelInv

\* A step that leaves rewards and the user's balance, level and XP alone.
LEMMA LevelRests ==
    ASSUME RewardsMatch, rewards' = rewards, ~Exists(done'[TaskSignUp]),
           user'.balance = user.balance, user'.level = user.level, user'.xp = user.xp
    PROVE  RewardsMatch'
<1>1. PaidReward' = PaidReward /\ PaidXP' = PaidXP
  BY DEF PaidReward, PaidXP
<1>2. ~Exists(done[TaskSignUp])'
  BY DEF Exists
<1>3. QED BY <1>1, <1>2 DEF RewardsMatch, LevelsXP

\* The steps that read, by what the request holds after them.
LEMMA LevelsRead ==
    ASSUME TasksInv, LevelInv, overlaps = 0, ~user.email, NEW h \in Handlers,
           \A g \in Handlers \ {h} : req[g].pc = "idle"
    PROVE  /\ \A t \in Tasks : Complete(h, t) => LevelInv'
           /\ \A t \in Tasks : ClaimReward(h, t) => LevelInv'
           /\ \A t \in Tasks : GetUnclaimedRewards(h, t) => LevelInv'
           /\ CompletedByUserID(h) => LevelInv'
           /\ GetLevelAndXP(h) => LevelInv'
           /\ CompleteDailyStreakTask(h) => LevelInv'
           /\ CompleteSignInEmail(h) => LevelInv'
           /\ Fails(h) => LevelInv'
<1>1. /\ RewardsMatch /\ UserStands(req[h]) /\ DOMAIN req[h] = RequestFields
      /\ DOMAIN user = Columns /\ resetDue \subseteq Resettable
  BY DEF LevelInv, TasksInv, RequestSound, UserSound
<1>2. ASSUME UNCHANGED <<user, done, rewards>>, NEW r, Become(h, r), UserStands(r)
      PROVE  LevelInv'
  <2>1. RewardsMatch'
    BY <1>1, <1>2 DEF RewardsMatch, PaidReward, PaidXP, LevelsXP, Exists
  <2>2. UserStands(r)'
    BY <1>2 DEF UserStands
  <2>3. QED BY <1>2, <2>1, <2>2, LevelStep
<1>3. UserStands(Idle)
  BY DEF UserStands, Idle
<1>4. ASSUME NEW t \in Tasks, Complete(h, t) PROVE LevelInv'
  <2>1. PICK r : r = [Idle EXCEPT !.pc = "complete", !.job = "complete", !.task = t,
                                  !.row = done[t]]
    OBVIOUS
  <2>2. r.pc = "complete"
    BY <2>1 DEF Idle
  <2>3. UserStands(r)
    BY <2>2 DEF UserStands
  <2>4. Become(h, r) /\ UNCHANGED <<user, done, rewards>>
    BY <1>4, <2>1 DEF Complete
  <2>5. QED BY <1>2, <2>3, <2>4
<1>5. ASSUME NEW t \in Tasks, ClaimReward(h, t) PROVE LevelInv'
  <2>1. PICK r : r = [Idle EXCEPT !.pc = "claim", !.job = "claim", !.task = t,
                                  !.seen = done[t].count]
    OBVIOUS
  <2>2. r.pc = "claim"
    BY <2>1 DEF Idle
  <2>3. UserStands(r)
    BY <2>2 DEF UserStands
  <2>4. Become(h, r) /\ UNCHANGED <<user, done, rewards>>
    BY <1>5, <2>1 DEF ClaimReward
  <2>5. QED BY <1>2, <2>3, <2>4
<1>6. ASSUME NEW t \in Tasks, GetUnclaimedRewards(h, t) PROVE LevelInv'
  <2>1. PICK q : q = IF done[t].claimed < done[t].count THEN "level" ELSE "reset"
    OBVIOUS
  <2>2. PICK r : r = [Idle EXCEPT !.pc = q, !.job = "reset", !.task = t, !.row = done[t]]
    OBVIOUS
  <2>3. q \in {"level", "reset"} /\ r.pc = q /\ r.task = t
    BY <2>1, <2>2 DEF Idle
  <2>4. t # TaskSignUp
    BY <1>1, <1>6 DEF GetUnclaimedRewards
  <2>5. UserStands(r)
    BY <2>3, <2>4 DEF UserStands
  <2>6. Become(h, r) /\ UNCHANGED <<user, done, rewards>>
    BY <1>6, <2>1, <2>2 DEF GetUnclaimedRewards
  <2>7. QED BY <1>2, <2>5, <2>6
<1>7. ASSUME CompletedByUserID(h) PROVE LevelInv'
  <2>1. UNCHANGED <<user, done, rewards>>
    BY <1>7 DEF CompletedByUserID
  <2>2. CASE Become(h, Idle)
    BY <1>2, <1>3, <2>1, <2>2
  <2>3. CASE ~Become(h, Idle)
    <3>1. PICK r : r = [req[h] EXCEPT !.pc = "level", !.seen = 0, !.row = done[req[h].task]]
      OBVIOUS
    <3>2. Become(h, r) /\ Exists(done[req[h].task])
      BY <1>7, <2>3, <3>1 DEF CompletedByUserID
    <3>3. r.pc = "level" /\ r.task = req[h].task
      BY <1>1, <3>1 DEF RequestFields
    <3>4. UserStands(r)
      BY <1>1, <3>2, <3>3 DEF UserStands, RewardsMatch
    <3>5. QED BY <1>2, <2>1, <3>2, <3>4
  <2>4. QED BY <2>2, <2>3
<1>8. ASSUME GetLevelAndXP(h) PROVE LevelInv'
  <2>1. PICK u : u = [NoUser EXCEPT !.level = user.level, !.xp = user.xp]
    OBVIOUS
  <2>2. PICK r : r = [req[h] EXCEPT !.pc = "give", !.user = u]
    OBVIOUS
  <2>3. u.level = user.level /\ u.xp = user.xp
    BY <2>1 DEF NoUser
  <2>4. r.pc = "give" /\ r.task = req[h].task /\ r.user = u /\ req[h].pc = "level"
    BY <1>1, <1>8, <2>2 DEF RequestFields, GetLevelAndXP
  <2>5. UserStands(r)
    BY <1>1, <2>3, <2>4 DEF UserStands
  <2>6. Become(h, r) /\ UNCHANGED <<user, done, rewards>>
    BY <1>8, <2>1, <2>2 DEF GetLevelAndXP
  <2>7. QED BY <1>2, <2>5, <2>6
<1>9. ASSUME CompleteDailyStreakTask(h) PROVE LevelInv'
  <2>1. PICK m, u : /\ m = RewardDayByStreak(DayStreak(user))
                    /\ u = [user EXCEPT !.lastStreak = day, !.streak = DayStreak(user)]
    OBVIOUS
  <2>2. PICK r : r = [Idle EXCEPT !.pc = "streak", !.job = "streak",
                          !.task = TaskCompletDailyStreak, !.multiplier = m, !.user = u]
    OBVIOUS
  <2>3. u.balance = user.balance /\ u.level = user.level /\ u.xp = user.xp
    BY <1>1, <2>1 DEF Columns
  <2>4. r.pc = "streak" /\ r.user = u
    BY <2>2 DEF Idle
  <2>5. UserStands(r)
    BY <2>3, <2>4 DEF UserStands
  <2>6. Become(h, r) /\ UNCHANGED <<user, done, rewards>>
    BY <1>9, <2>1, <2>2 DEF CompleteDailyStreakTask
  <2>7. QED BY <1>2, <2>5, <2>6
<1>10. ASSUME CompleteSignInEmail(h) PROVE LevelInv'
  <2>1. PICK u : u = [user EXCEPT !.email = TRUE]
    OBVIOUS
  <2>2. PICK r : r = [Idle EXCEPT !.pc = "email", !.job = "email", !.user = u]
    OBVIOUS
  <2>3. u.email
    BY <1>1, <2>1, Zenon DEF Columns
  <2>4. r.pc = "email" /\ r.user = u
    BY <2>2 DEF Idle
  <2>5. UserStands(r)
    BY <2>3, <2>4, Zenon DEF UserStands
  <2>6. Become(h, r) /\ UNCHANGED <<user, done, rewards>>
    BY <1>10, <2>1, <2>2 DEF CompleteSignInEmail
  <2>7. QED BY <1>2, <2>5, <2>6
<1>11. ASSUME Fails(h) PROVE LevelInv'
  <2>1. Become(h, Idle) /\ UNCHANGED <<user, done, rewards>>
    BY <1>11 DEF Fails
  <2>2. QED BY <1>2, <1>3, <2>1
<1>12. QED BY <1>4, <1>5, <1>6, <1>7, <1>8, <1>9, <1>10, <1>11

\* The steps that write.
LEMMA LevelsWritten ==
    ASSUME EveryLevelHasXP, TasksInv, LevelInv, overlaps = 0, ~user.email,
           NEW h \in Handlers, \A g \in Handlers \ {h} : req[g].pc = "idle"
    PROVE  /\ CompleteUpdate(h) => LevelInv'
           /\ StreakUpdate(h) => LevelInv'
           /\ AttachEmail(h) => user'.email
           /\ Claim(h) => LevelInv'
           /\ UpdateCompletedTaskLimits(h) => LevelInv'
<1>1. PICK r : r = req[h]
  OBVIOUS
<1>2. /\ RewardsMatch /\ UserStands(r) /\ RequestSound(r) /\ TablesSound
      /\ UserSound(user) /\ DOMAIN user = Columns /\ r.task \in Tasks
      /\ DOMAIN done = Tasks /\ ~Exists(done[TaskSignUp])
  BY <1>1 DEF LevelInv, TasksInv, RequestSound, UserSound, RewardsMatch, TablesSound
<1>3. UserStands(Idle)'
  BY DEF UserStands, Idle
<1>4. ASSUME RewardsMatch', Become(h, Idle) PROVE LevelInv'
  BY <1>3, <1>4, LevelStep
<1>5. ASSUME NEW t \in Tasks, t # TaskSignUp, NEW row, done' = [done EXCEPT ![t] = row]
      PROVE  ~Exists(done'[TaskSignUp])
  <2>1. done'[TaskSignUp] = done[TaskSignUp]
    BY <1>2, <1>5
  <2>2. QED BY <1>2, <2>1
<1>6. ASSUME CompleteUpdate(h) PROVE LevelInv'
  <2>1. /\ r.pc = "complete" /\ done' = [done EXCEPT ![r.task] = Counted(r)]
        /\ user' = user /\ rewards' = rewards /\ Become(h, Idle)
    BY <1>1, <1>6 DEF CompleteUpdate
  <2>2. r.task # TaskSignUp
    BY <1>2, <2>1 DEF RequestSound
  <2>3. ~Exists(done'[TaskSignUp])
    BY <1>2, <1>5, <2>1, <2>2
  <2>4. RewardsMatch'
    BY <1>2, <2>1, <2>3, LevelRests
  <2>5. QED BY <1>4, <2>1, <2>4
<1>7. ASSUME StreakUpdate(h) PROVE LevelInv'
  <2>1. PICK q : q = [r EXCEPT !.row = done[r.task]]
    OBVIOUS
  <2>2. /\ r.pc = "streak" /\ user' = WriteBack(r.user) /\ rewards' = rewards
        /\ done' \in {done, [done EXCEPT ![r.task] = Counted(q)]} /\ Become(h, Idle)
    BY <1>1, <1>7, <2>1 DEF StreakUpdate
  <2>3. r.task # TaskSignUp
    BY <1>2, <2>2 DEF RequestSound
  <2>4. ~Exists(done'[TaskSignUp])
    BY <1>2, <1>5, <2>2, <2>3
  <2>5. user'.balance = user.balance /\ user'.level = user.level /\ user'.xp = user.xp
    BY <1>2, <2>2 DEF UserStands, WriteBack, Columns
  <2>6. RewardsMatch'
    BY <1>2, <2>2, <2>4, <2>5, LevelRests
  <2>7. QED BY <1>4, <2>2, <2>6
<1>8. ASSUME AttachEmail(h) PROVE user'.email
  <2>1. PICK w : w = WriteBack(r.user)
    OBVIOUS
  <2>2. r.pc = "email" /\ user' = [w EXCEPT !.balance = @ + Reward[TaskSignUp]]
    BY <1>1, <1>8, <2>1 DEF AttachEmail
  <2>3. r.user.email
    BY <1>2, <2>2 DEF UserStands
  <2>4. DOMAIN w = Columns /\ w.email = r.user.email
    <3>1. w.email = IF r.user.email = FALSE THEN user.email ELSE r.user.email
      BY <1>2, <2>1 DEF WriteBack, Columns, NoUser
    <3>2. r.user.email = TRUE
      BY <1>2, <2>2, <2>3 DEF RequestSound, UserSound
    <3>3. DOMAIN w = Columns
      BY <1>2, <2>1 DEF WriteBack
    <3>4. QED BY <3>1, <3>2, <3>3
  <2>5. user'.email = w.email
    BY <2>2, <2>4 DEF Columns
  <2>6. QED BY <2>3, <2>4, <2>5, Zenon
<1>9. ASSUME Claim(h) PROVE LevelInv'
  <2>1. PICK row : row = [done[r.task] EXCEPT !.claimed = done[r.task].count]
    OBVIOUS
  <2>2. /\ r.pc = "give" /\ user' = GiveReward(r) /\ rewards' = UpdateCompletedTaskRewards(r)
        /\ done' = UpdateRewardClaimed(r) /\ Become(h, Idle)
    BY <1>1, <1>9 DEF Claim
  <2>3. done' = [done EXCEPT ![r.task] = row]
    BY <1>2, <2>1, <2>2 DEF UpdateRewardClaimed
  <2>4. r.task # TaskSignUp
    BY <1>2, <2>2 DEF UserStands
  <2>5. ~Exists(done'[TaskSignUp])
    BY <1>2, <1>5, <2>3, <2>4
  <2>6. RewardsMatch'
    BY <1>2, <2>2, <2>5, GivesWhatItRecords
  <2>7. QED BY <1>4, <2>2, <2>6
<1>10. ASSUME UpdateCompletedTaskLimits(h) PROVE LevelInv'
  <2>1. PICK row : row = [done[r.task] EXCEPT !.count = 0, !.claimed = 0]
    OBVIOUS
  <2>2. done' = [done EXCEPT ![r.task] = row] /\ Become(h, Idle)
    BY <1>1, <1>2, <1>10, <2>1 DEF UpdateCompletedTaskLimits
  <2>3. row.completions = done[r.task].completions
    <3>1. done[r.task] \in TaskRow
      BY <1>2 DEF TablesSound, RowSound
    <3>2. QED BY <2>1, <3>1 DEF TaskRow
  <2>4. ~Exists(done'[TaskSignUp])
    BY <1>2, <2>2, <2>3 DEF Exists
  <2>5. CASE r.pc = "give"
    <3>1. user' = GiveReward(r) /\ rewards' = UpdateCompletedTaskRewards(r)
      BY <1>1, <1>10, <2>5 DEF UpdateCompletedTaskLimits
    <3>2. RewardsMatch'
      BY <1>2, <2>4, <2>5, <3>1, GivesWhatItRecords
    <3>3. QED BY <1>4, <2>2, <3>2
  <2>6. CASE r.pc # "give"
    <3>1. user' = user /\ rewards' = rewards
      BY <1>1, <1>10, <2>6 DEF UpdateCompletedTaskLimits
    <3>2. RewardsMatch'
      BY <1>2, <2>4, <3>1, LevelRests
    <3>3. QED BY <1>4, <2>2, <3>2
  <2>7. QED BY <2>5, <2>6
<1>11. QED BY <1>6, <1>7, <1>8, <1>9, <1>10

\* An email, once attached, stays.
LEMMA EmailStays ==
    ASSUME TasksInv, [Next]_vars, user.email
    PROVE  user'.email
<1>1. ASSUME NEW u, UserSound(u) PROVE WriteBack(u).email
  <2>1. WriteBack(u).email = IF u.email = FALSE THEN user.email ELSE u.email
    BY DEF TasksInv, UserSound, WriteBack, Columns, NoUser
  <2>2. u.email \in BOOLEAN
    BY <1>1 DEF UserSound
  <2>3. QED BY <2>1, <2>2
<1>2. \A r : GiveReward(r).email = user.email
  BY DEF GiveReward, TasksInv, UserSound, Columns
<1>3. CASE user' = user
  BY <1>3
<1>4. ASSUME NEW h \in Handlers, StreakUpdate(h) PROVE user'.email
  BY <1>1, <1>4 DEF StreakUpdate, TasksInv, RequestSound
<1>5. ASSUME NEW h \in Handlers, AttachEmail(h) PROVE user'.email
  <2>1. PICK w : w = WriteBack(req[h].user)
    OBVIOUS
  <2>2. user' = [w EXCEPT !.balance = @ + Reward[TaskSignUp]] /\ UserSound(req[h].user)
    BY <1>5, <2>1 DEF AttachEmail, TasksInv, RequestSound
  <2>3. w.email /\ DOMAIN w = Columns
    BY <1>1, <2>1, <2>2 DEF WriteBack, TasksInv, UserSound
  <2>4. user'.email = w.email
    BY <2>2, <2>3 DEF Columns
  <2>5. QED BY <2>3, <2>4, Zenon
<1>6. ASSUME NEW h \in Handlers, Claim(h) \/ UpdateCompletedTaskLimits(h) PROVE user'.email
  BY <1>2, <1>6 DEF Claim, UpdateCompletedTaskLimits
<1>7. ASSUME user' # user
      PROVE  \E h \in Handlers : \/ StreakUpdate(h) \/ AttachEmail(h)
                                 \/ Claim(h) \/ UpdateCompletedTaskLimits(h)
  BY <1>7 DEF Next, vars, Midnight, Complete, ClaimReward, GetUnclaimedRewards, CompleteUpdate,
        CompleteDailyStreakTask, CompleteSignInEmail, CompletedByUserID, GetLevelAndXP, Fails
<1>8. QED BY <1>3, <1>4, <1>5, <1>6, <1>7

\* With the other invariants it is inductive.
LEMMA LevelInductive ==
    ASSUME EveryLevelHasXP
    PROVE  /\ Init => LevelInv
           /\ TasksInv /\ StreakInv /\ LevelInv /\ [Next]_vars => LevelInv'
<1>1. ASSUME Init PROVE LevelInv
  <2>1. PICK f, g : f = [t \in Tasks |-> rewards[t].reward] /\ g = [t \in Tasks |-> rewards[t].xp]
    OBVIOUS
  <2>2. /\ \A t \in Tasks : f[t] = 0 /\ g[t] = 0
        /\ DOMAIN f = Tasks /\ DOMAIN g = Tasks
    BY <1>1, <2>1 DEF Init, NoRewards
  <2>3. /\ SumFunctionOnSet(f, Tasks) = Cardinality(Tasks) * 0
        /\ SumFunctionOnSet(g, Tasks) = Cardinality(Tasks) * 0
    BY <2>2, SumOfConstant
  <2>4. Cardinality(Tasks) \in Nat
    BY FS_CardinalityType
  <2>5. PaidReward = 0 /\ PaidXP = 0
    BY <2>1, <2>2, <2>3, <2>4 DEF PaidReward, PaidXP, SumFunction
  <2>6. user.balance = InitialBalance /\ user.level = 0 /\ user.xp = 0
    BY <1>1 DEF Init, NoUser
  <2>7. LevelsXP(0, 0) = 0 /\ 0 < LevelXP[1]
    <3>1. LevelsXP(0, 0) = 0
      BY LevelsAdd
    <3>2. LevelXP[1] \in Nat \ {0}
      BY DEF EveryLevelHasXP
    <3>3. QED BY <3>1, <3>2
  <2>8. ~Exists(done[TaskSignUp])
    BY <1>1 DEF Init, NoRow, Exists
  <2>9. RewardsMatch
    BY <2>5, <2>6, <2>7, <2>8 DEF RewardsMatch
  <2>10. \A h \in Handlers : UserStands(req[h])
    BY <1>1 DEF Init, UserStands, Idle
  <2>11. QED BY <2>9, <2>10 DEF LevelInv
<1>2. ASSUME TasksInv, StreakInv, LevelInv, [Next]_vars, overlaps' = 0, ~user'.email
      PROVE  LevelInv'
  <2>1. overlaps = 0 /\ AloneInFlight /\ ~user.email
    BY <1>2, OverlapsRemembered, EmailStays DEF StreakInv
  <2>2. /\ \A h \in Handlers : Arrives(h) => \A g \in Handlers : req[g].pc = "idle"
        /\ \A h \in Handlers : req[h].pc # "idle" =>
              \A g \in Handlers \ {h} : req[g].pc = "idle"
    BY <1>2, <2>1, NobodyElse
  <2>3. CASE Midnight \/ UNCHANGED vars
    <3>1. UNCHANGED <<user, done, rewards, req>>
      BY <2>3 DEF Midnight, vars
    <3>2. QED
      BY <1>2, <2>1, <3>1 DEF LevelInv, RewardsMatch, PaidReward, PaidXP, LevelsXP, Exists,
            UserStands
  <2>4. ASSUME NEW h \in Handlers,
               \/ \E t \in Tasks : Complete(h, t) \/ ClaimReward(h, t) \/ GetUnclaimedRewards(h, t)
               \/ CompleteDailyStreakTask(h) \/ CompleteSignInEmail(h)
        PROVE  LevelInv'
    <3>1. Arrives(h)
      BY <2>4 DEF Complete, ClaimReward, GetUnclaimedRewards, CompleteDailyStreakTask,
            CompleteSignInEmail
    <3>2. QED BY <1>2, <2>1, <2>2, <2>4, <3>1, LevelsRead
  <2>5. ASSUME NEW h \in Handlers,
               \/ CompleteUpdate(h) \/ StreakUpdate(h) \/ AttachEmail(h) \/ CompletedByUserID(h)
               \/ GetLevelAndXP(h) \/ Claim(h) \/ UpdateCompletedTaskLimits(h) \/ Fails(h)
        PROVE  LevelInv'
    <3>1. req[h].pc # "idle"
      BY <2>5 DEF CompleteUpdate, StreakUpdate, AttachEmail, CompletedByUserID, GetLevelAndXP,
            Claim, UpdateCompletedTaskLimits, Fails
    <3>2. QED BY <1>2, <2>1, <2>2, <2>5, <3>1, LevelsRead, LevelsWritten
  <2>6. QED BY <1>2, <2>3, <2>4, <2>5 DEF Next
<1>3. ASSUME TasksInv, StreakInv, LevelInv, [Next]_vars PROVE LevelInv'
  BY <1>2, <1>3 DEF LevelInv
<1>4. QED BY <1>1, <1>3

\* Claims and resets never compute with a counter behind what was claimed, whatever requests
\* interleave; and as long as they do not overlap, the balance, the level and the XP of a user
\* who attached no email are what completed_tasks_rewards adds up to, the level being all the
\* XP is enough for (claimReward, recalculateUserLevelAndXP, UpdateCompletedTaskLimits).
THEOREM LevelsMatchRewards ==
    ASSUME EveryLevelHasXP
    PROVE  Spec => []RewardsAddUp
<1>1. TasksInv => ClaimedWithinCompleted
  BY DEF TasksInv, TablesSound, RequestSound, RowSound, ClaimedWithinCompleted
<1>2. LevelInv => UserMatchesRewards
  BY DEF LevelInv, RewardsMatch, UserMatchesRewards, PaidReward, PaidXP
<1>3. TasksInv /\ LevelInv => RewardsAddUp
  BY <1>1, <1>2 DEF RewardsAddUp
<1>4. Init => TasksInv /\ StreakInv /\ LevelInv
  BY TasksInit, StreakInductive, LevelInductive
<1>5. TasksInv /\ StreakInv /\ LevelInv /\ [Next]_vars => (TasksInv /\ StreakInv /\ LevelInv)'
  BY TasksStep, StreakInductive, LevelInductive
<1>6. QED BY <1>3, <1>4, <1>5, PTL DEF Spec

-----------------------------------------------------------------------------
(***************************************************************************)
(* Accounts.  The invariant has four parts: the books (rows, balances and  *)
(* columns), what each request relies on, the friends, and the pictures.   *)
(* A step of the program changes at most two of them; each part has a      *)
(* lemma that says what leaves it alone.                                   *)
(***************************************************************************)
USE AccountsAssumption DEF NoName, DefaultIcon

\* What an account can be called before and after it is made.
Called == Names \cup Persons \cup {NoName}

\* The rows of the tables.
Row == [id : Nat, name : Called, balance : Nat, image : Nat, tokens : Nat, tutorial : BOOLEAN]
Referral == [referrer : Persons \cup {NoName}, dp : Nat, usdc : Nat, open : BOOLEAN]
Income == [count : Nat, dp : Nat, usdc : Nat]

\* What a request holds between two of its steps.
Asking == [at : {"referrer"}, p : Persons, token : Persons \cup Strangers]
Creating == [at : {"create"}, p : Persons, id : Nat, referrer : SUBSET Persons]
Transferring == [at : {"transfer"}, s : Persons, t : Persons, n : Int]
Paying == [at : {"usdc"}, q : Persons]
Befriending == [at : {"friend"}, p : Persons]
Copying == [at : {"remove", "save", "write"}, p : Persons, row : Row, saved : BOOLEAN]

Working == Asking \cup Creating \cup Transferring \cup Paying \cup Befriending \cup Copying

\* Every row has its columns, and no number in them is negative.
RowsTyped ==
    /\ accounts \in [Persons -> Row]
    /\ referrals \in [Persons -> Referral]
    /\ income \in [Persons -> Income]
    /\ transfers \in [Persons -> [Persons -> Nat]]
    /\ joined \in [Persons -> Nat] /\ friendTask \in [Persons -> Nat]

\* Requests, ids and files are of their types.
CallsTyped ==
    /\ call \in [Calls -> Working \cup {NoCall}]
    /\ ids \in Nat /\ keys \subseteq 1..ids
    /\ uploads \in Nat /\ pictures \subseteq 1..uploads

\* of a person without an account there is nothing
Blank(p) ==
    /\ accounts[p] = NoAccount
    /\ referrals[p] = NoReferral
    /\ income[p].count = 0
    /\ \A q \in Persons : transfers[p][q] = 0 /\ transfers[q][p] = 0
    /\ \A q \in Persons : referrals[q].referrer # p
    /\ joined[p] = 0

\* Nothing precedes an account.
Absent == \A p \in Persons : HasAccount(p) \/ Blank(p)

\* A row of user_referrals has a referrer, or is not there.
Referred == \A p \in Persons :
    referrals[p].referrer = NoName => referrals[p] = NoReferral

\* An account has a key, and a name nobody else has.
Named == \A p \in Persons : HasAccount(p) =>
    /\ accounts[p].id \in keys
    /\ accounts[p].name # NoName
    /\ \A q \in Persons \ {p} : accounts[q].name # accounts[p].name

\* What a request has read and still relies on.
CallSound(c) ==
    /\ c.at = "referrer" => FirstName(c.p) # {}
    /\ c.at = "create" =>
         /\ FirstName(c.p) # {} /\ c.id \in keys
         /\ \A q \in c.referrer : HasAccount(q) /\ c.referrer = {q}
    /\ c.at = "transfer" => HasAccount(c.s) /\ HasAccount(c.t)
    /\ c.at = "friend" => joined[c.p] > 0
    /\ c.at \in {"remove", "save", "write"} =>
         HasAccount(c.p) /\ c.row.id = accounts[c.p].id /\ c.row.name # NoName

CallsSound == \A r \in Calls : CallSound(call[r])

\* The first join of p has still to count for his referrer.
Befriends(r, p) == call[r].at = "friend" /\ call[r].p = p
Waiting(p) == joined[p] = 1 /\ \E r \in Calls : Befriends(r, p)

\* The friends the task has already seen.
Friends(q) == {p \in UserReferrals(q) : joined[p] > 0 /\ ~Waiting(p)}

\* A first join is counted by one request.
OneFirstJoin == \A p \in Persons : joined[p] = 1 =>
    \A r1, r2 \in Calls : Befriends(r1, p) /\ Befriends(r2, p) => r1 = r2

\* The task was completed for friends it has seen.
FriendsCounted == \A q \in Persons : friendTask[q] <= Cardinality(Friends(q))

\* Whether a request has a copy of a row that it will write back.
Copies(r) == call[r].at \in {"remove", "save", "write"}

\* A file is named by the rows, and the copies of the rows, of one person.
PicturesOwned ==
    /\ \A p \in Persons : accounts[p].image <= uploads
    /\ \A r \in Calls : Copies(r) => call[r].row.image <= uploads
    /\ \A p, q \in Persons : accounts[p].image = accounts[q].image
         => p = q \/ accounts[p].image = DefaultIcon
    /\ \A p \in Persons, r \in Calls : Copies(r) /\ call[r].row.image = accounts[p].image
         => p = call[r].p \/ accounts[p].image = DefaultIcon
    /\ \A r1, r2 \in Calls : Copies(r1) /\ Copies(r2) /\ call[r1].row.image = call[r2].row.image
         => call[r1].p = call[r2].p \/ call[r1].row.image = DefaultIcon

\* A picture just saved is on the disk and nobody knows it but the request that saved it.
Saved(r) == Copies(r) /\ call[r].saved
SavedFresh ==
    \A r \in Calls : Saved(r) =>
       /\ call[r].at = "write"
       /\ call[r].row.image \in pictures
       /\ \A p \in Persons : accounts[p].image # call[r].row.image
       /\ \A r1 \in Calls : Copies(r1) /\ r1 # r => call[r1].row.image # call[r].row.image

\* A request at a step holds what that step needs.
LEMMA CallKinds ==
  ASSUME NEW c \in Working \cup {NoCall}
  PROVE  /\ c.at = "referrer" => c \in Asking
         /\ c.at = "create" => c \in Creating
         /\ c.at = "transfer" => c \in Transferring
         /\ c.at = "usdc" => c \in Paying
         /\ c.at = "friend" => c \in Befriending
         /\ c.at \in {"remove", "save", "write"} => c \in Copying
         /\ c # NoCall => c \in Working
BY DEF Working, NoCall, Asking, Creating, Transferring, Paying, Befriending, Copying

\* The name an account starts with is a name.
LEMMA OneFirstName ==
  ASSUME NEW p \in Persons, FirstName(p) # {}
  PROVE  /\ (CHOOSE n \in FirstName(p) : TRUE) \in Called \ {NoName}
BY DEF FirstName, EmailName, TelegramName, Called

LEMMA TypesInit == AccountsInit => RowsTyped /\ CallsTyped
BY DEF AccountsInit, RowsTyped, CallsTyped, NoAccount, NoReferral, Row, Referral, Income, Called

LEMMA NewRow ==
  ASSUME NEW p \in Persons, NEW id \in Nat, NEW b \in BOOLEAN, FirstName(p) # {}
  PROVE  NewUser(p, id, b) \in Row
<1>1. PICK n : n = CHOOSE m \in FirstName(p) : TRUE
  OBVIOUS
<1>2. n \in Called
  BY <1>1, OneFirstName
<1> QED
 BY <1>1, <1>2 DEF NewUser, Row, DefaultWalletTokens

\* Rows with one column changed.
LEMMA ReferralWith ==
  ASSUME NEW row \in Referral
  PROVE  /\ \A n \in Nat : [row EXCEPT !.dp = n] \in Referral
         /\ \A n \in Nat : [row EXCEPT !.usdc = n] \in Referral
         /\ [row EXCEPT !.open = FALSE] \in Referral
BY DEF Referral

LEMMA IncomeWith ==
  ASSUME NEW i \in Income
  PROVE  /\ \A n \in Nat : [i EXCEPT !.dp = n] \in Income
         /\ \A n \in Nat : [i EXCEPT !.usdc = n] \in Income
         /\ \A n, m \in Nat : [i EXCEPT !.count = n, !.dp = m] \in Income
BY DEF Income

LEMMA RowFields ==
  /\ \A row \in Row : row.balance \in Nat /\ row.id \in Nat /\ row.name \in Called
         /\ row.image \in Nat
  /\ \A row \in Referral : row.dp \in Nat /\ row.usdc \in Nat
         /\ row.referrer \in Persons \cup {NoName} /\ row.open \in BOOLEAN
  /\ \A i \in Income : i.count \in Nat /\ i.dp \in Nat /\ i.usdc \in Nat
BY DEF Row, Referral, Income

LEMMA RowsWith ==
  ASSUME NEW row \in Row
  PROVE  /\ \A n \in Called : [row EXCEPT !.name = n] \in Row
         /\ \A n \in Nat : [row EXCEPT !.balance = n] \in Row
         /\ \A n \in Nat : [row EXCEPT !.image = n] \in Row
         /\ \A copy \in Row : OmitZero(row, copy) \in Row
BY DEF Row, OmitZero

\* The transaction of a new user leaves typed rows.
LEMMA TypesCreate ==
  ASSUME RowsTyped, CallsTyped, CallsSound, NEW r \in Calls, CreateUser(r)
  PROVE  RowsTyped'
<1>1. PICK c \in Creating : c = call[r]
  BY CallKinds DEF CreateUser, Continues, CallsTyped
<1>2. c.p \in Persons /\ c.id \in Nat /\ c.referrer \in SUBSET Persons /\ FirstName(c.p) # {}
          /\ c.at = "create"
  BY <1>1 DEF Creating, CallsSound, CallSound
<1>3. PICK new \in Row : new = NewUser(c.p, c.id, c.referrer # {})
  BY <1>2, NewRow
<1>4. accounts' = [q \in Persons |->
         IF q = c.p THEN new
         ELSE IF q \in c.referrer THEN [accounts[q] EXCEPT !.balance = @ + InvitationReward]
         ELSE accounts[q]]
  BY <1>1, <1>3 DEF CreateUser
<1>5. accounts' \in [Persons -> Row]
  <2>1. ASSUME NEW q \in Persons PROVE [accounts[q] EXCEPT !.balance = @ + InvitationReward] \in Row
    <3>1. PICK row \in Row : row = accounts[q]
      BY DEF RowsTyped
    <3>2. row.balance + InvitationReward \in Nat
      BY DEF Row
    <3>3. [row EXCEPT !.balance = row.balance + InvitationReward] \in Row
      BY <3>2, RowsWith
    <3> QED BY <3>1, <3>3
  <2> QED BY <1>4, <2>1 DEF RowsTyped
<1>6. referrals' \in [Persons -> Referral] /\ income' \in [Persons -> Income]
  <2>1. CASE c.referrer = {}
    BY <2>1, <1>1 DEF CreateUser, RowsTyped
  <2>2. CASE c.referrer # {}
    <3>1. PICK q \in c.referrer : CreateReferral(c.p, q)
      BY <2>2, <1>1 DEF CreateUser
    <3>2. NewUserReferral(q) \in Referral
      BY <3>1, <1>2 DEF NewUserReferral, Referral
    <3>3. PICK i \in Income : i = income[q]
      BY <3>1, <1>2 DEF RowsTyped
    <3>4. [i EXCEPT !.count = @ + 1, !.dp = @ + InvitationReward] \in Income
      <4>1. i.count + 1 \in Nat /\ i.dp + InvitationReward \in Nat
        BY RowFields
      <4> QED
        BY <4>1, IncomeWith
    <3>5. income' = [income EXCEPT ![q] = [i EXCEPT !.count = @ + 1, !.dp = @ + InvitationReward]]
      BY <3>1, <3>3 DEF CreateReferral
    <3>6. q \in Persons /\ c.p \in Persons
      BY <1>2, <3>1
    <3>7. referrals' = [referrals EXCEPT ![c.p] = NewUserReferral(q)]
      BY <3>1 DEF CreateReferral
    <3>8. referrals' \in [Persons -> Referral]
      BY <3>2, <3>6, <3>7 DEF RowsTyped
    <3>9. income' \in [Persons -> Income]
      BY <3>4, <3>5, <3>6 DEF RowsTyped
    <3> QED
      BY <3>8, <3>9
  <2> QED BY <2>1, <2>2
<1> QED
  BY <1>5, <1>6 DEF RowsTyped, CreateUser

\* So does a transfer: both balances are checked before it commits.
LEMMA TypesTransfer ==
  ASSUME RowsTyped, CallsTyped, NEW r \in Calls, TransferCommit(r)
  PROVE  RowsTyped'
<1>1. PICK c \in Transferring : c = call[r]
  BY CallKinds DEF TransferCommit, Continues, CallsTyped
<1>2. PICK s \in Persons, t \in Persons, n \in Int : s = c.s /\ t = c.t /\ n = c.n
  BY DEF Transferring
<1>3. PICK D : D = AlterBalance(accounts, s, -n)
  OBVIOUS
<1>4. PICK C : C = AlterBalance(D, t, n)
  OBVIOUS
<1>5. accounts' = C /\ D[s].balance >= 0 /\ C[t].balance >= 0 /\ n > 0
      /\ transfers' = [transfers EXCEPT ![s][t] = @ + n]
  BY <1>1, <1>2, <1>3, <1>4 DEF TransferCommit, HistoryRow
<1>6. D \in [Persons -> Row]
  <2>1. accounts[s].balance + (-n) >= 0
    BY <1>3, <1>5 DEF AlterBalance, RowsTyped, Row
  <2>2. accounts[s].balance + (-n) \in Nat
    BY <2>1, RowFields DEF RowsTyped
  <2>3. [accounts[s] EXCEPT !.balance = accounts[s].balance + (-n)] \in Row
    BY <2>2, RowsWith DEF RowsTyped
  <2> QED BY <1>3, <2>3 DEF AlterBalance, RowsTyped
<1>7. C \in [Persons -> Row]
  <2>1. D[t].balance + n >= 0
    BY <1>4, <1>5, <1>6 DEF AlterBalance, Row
  <2>2. D[t].balance + n \in Nat
    BY <2>1, <1>6, RowFields
  <2>3. [D[t] EXCEPT !.balance = D[t].balance + n] \in Row
    BY <1>6, <2>2, RowsWith
  <2> QED BY <1>4, <1>6, <2>3 DEF AlterBalance
<1>8. transfers' \in [Persons -> [Persons -> Nat]]
  BY <1>5 DEF RowsTyped
<1> QED
  BY <1>5, <1>7, <1>8 DEF TransferCommit, RowsTyped

\* So do the columns of a referrer.
LEMMA TypesIncome ==
  ASSUME RowsTyped, CallsTyped, Referred
  PROVE  /\ \A p \in Persons : UpdateReferrerDPIncome(p) => RowsTyped'
         /\ \A p \in Persons : CommissionEnds(p) => RowsTyped'
         /\ \A r \in Calls : UpdateReferrerUSDCIncome(r) => RowsTyped'
<1>1. ASSUME NEW p \in Persons, UpdateReferrerDPIncome(p) PROVE RowsTyped'
  <2>1. PICK q \in Persons : q = referrals[p].referrer
    BY <1>1 DEF UpdateReferrerDPIncome, RowsTyped, Referred, Referral, NoReferral
  <2>2. referrals' \in [Persons -> Referral]
    <3>1. referrals[p].dp + 1 \in Nat
      BY RowFields DEF RowsTyped
    <3>2. [referrals[p] EXCEPT !.dp = referrals[p].dp + 1] \in Referral
      BY <3>1, ReferralWith DEF RowsTyped
    <3> QED BY <1>1, <3>2 DEF UpdateReferrerDPIncome, RowsTyped
  <2>3. income' \in [Persons -> Income]
    <3>1. income[q].dp + 1 \in Nat
      BY RowFields DEF RowsTyped
    <3>2. [income[q] EXCEPT !.dp = income[q].dp + 1] \in Income
      BY <3>1, IncomeWith DEF RowsTyped
    <3>3. income' = [income EXCEPT ![q].dp = income[q].dp + 1]
      BY <1>1, <2>1 DEF UpdateReferrerDPIncome
    <3> QED BY <3>2, <3>3 DEF RowsTyped
  <2> QED BY <1>1, <2>2, <2>3 DEF UpdateReferrerDPIncome, RowsTyped
<1>2. ASSUME NEW p \in Persons, CommissionEnds(p) PROVE RowsTyped'
  <2>1. [referrals[p] EXCEPT !.open = FALSE] \in Referral
    BY ReferralWith DEF RowsTyped
  <2> QED BY <1>2, <2>1 DEF CommissionEnds, RowsTyped
<1>4. ASSUME NEW r \in Calls, UpdateReferrerUSDCIncome(r) PROVE RowsTyped'
  <2>1. PICK q \in Persons : q = call[r].q
    BY <1>4, CallKinds DEF UpdateReferrerUSDCIncome, CallsTyped, Continues, Paying
  <2>2. referrals' \in [Persons -> Referral]
    <3>1. ASSUME NEW p \in Persons PROVE [referrals[p] EXCEPT !.usdc = @ + 1] \in Referral
      <4>1. referrals[p].usdc + 1 \in Nat
        BY RowFields DEF RowsTyped
      <4> QED BY <4>1, ReferralWith DEF RowsTyped
    <3> QED BY <1>4, <3>1 DEF UpdateReferrerUSDCIncome, RowsTyped
  <2>3. income' \in [Persons -> Income]
    <3>1. income[q].usdc + 1 \in Nat
      BY RowFields DEF RowsTyped
    <3>2. [income[q] EXCEPT !.usdc = income[q].usdc + 1] \in Income
      BY <3>1, IncomeWith DEF RowsTyped
    <3>3. income' = [income EXCEPT ![q].usdc = income[q].usdc + 1]
      BY <1>4, <2>1 DEF UpdateReferrerUSDCIncome
    <3> QED BY <3>2, <3>3 DEF RowsTyped
  <2> QED BY <1>4, <2>2, <2>3 DEF UpdateReferrerUSDCIncome, RowsTyped
<1> QED BY <1>1, <1>2, <1>4

-----------------------------------------------------------------------------
(* What an action leaves alone *)

\* counts, points and USDC, apart from the task of friends
StatsAddUp ==
    \A q \in Persons :
        /\ income[q].count = Cardinality(UserReferrals(q))
        /\ income[q].dp = SumFunctionOnSet([p \in Persons |-> referrals[p].dp], UserReferrals(q))
        /\ \A p \in UserReferrals(q) : referrals[p].usdc <= income[q].usdc

Books == RowsTyped /\ Absent /\ Referred /\ Named /\ PointsMatchHistory /\ StatsAddUp
CallsHold == CallsTyped /\ CallsSound
FriendsHold == OneFirstJoin /\ FriendsCounted
PicturesHold == PicturesOwned /\ SavedFresh /\ PicturesShown

\* The books depend on the rows, and on the keys only as they grow.
LEMMA BooksRest ==
  ASSUME Books, UNCHANGED <<accounts, referrals, income, transfers, joined, friendTask, rewound>>,
         keys \subseteq keys'
  PROVE  Books'
<1>1. RowsTyped' /\ Referred'
  BY DEF Books, RowsTyped, Referred
<1>3. StatsAddUp'
  BY DEF Books, StatsAddUp, UserReferrals
<1>4. PointsMatchHistory'
  BY DEF Books, PointsMatchHistory, DuckPointsTransferHistory, Granted
<1>2. Absent' /\ Named'
  BY DEF Books, Absent, Named, HasAccount, Blank
<1> QED
  BY <1>1, <1>2, <1>3, <1>4 DEF Books

\* No first join begins in the step.
FriendCallsFewer == \A s \in Calls : call'[s].at = "friend" => call'[s] = call[s]

LEMMA FriendsFinite ==
  ASSUME NEW q, IsFiniteSet(Persons)
  PROVE  IsFiniteSet(UserReferrals(q)) /\ IsFiniteSet(Friends(q))
<1>1. Friends(q) \subseteq Persons /\ UserReferrals(q) \subseteq Persons
  BY DEF Friends, UserReferrals
<1> QED
  BY <1>1, FS_Subset

\* A step that begins no join and changes no referrer loses no friend.
LEMMA FriendsRest ==
  ASSUME FriendsHold, RowsTyped, UNCHANGED <<joined, friendTask>>, FriendCallsFewer,
         \A p \in Persons : referrals[p].referrer \in Persons =>
             referrals'[p].referrer = referrals[p].referrer
  PROVE  FriendsHold'
<1>1. OneFirstJoin'
  BY DEF OneFirstJoin, Befriends, FriendsHold, FriendCallsFewer
<1>2. ASSUME NEW q \in Persons PROVE friendTask'[q] <= Cardinality(Friends(q)')
  <2>1. Friends(q) \subseteq Friends(q)'
    <3>1. ASSUME NEW p \in Friends(q) PROVE p \in Friends(q)'
      <4>1. p \in Persons /\ p \in UserReferrals(q)'
        BY DEF Friends, UserReferrals
      <4>2. ~Waiting(p)'
        BY DEF Friends, Waiting, Befriends, FriendCallsFewer
      <4> QED
        BY <4>1, <4>2 DEF Friends
    <3> QED BY <3>1
  <2>2. IsFiniteSet(Friends(q)')
    <3>1. Friends(q)' \subseteq Persons
      BY DEF Friends, UserReferrals
    <3> QED BY <3>1, FS_Subset
  <2>3. Cardinality(Friends(q)) <= Cardinality(Friends(q)') /\ IsFiniteSet(Friends(q))
    BY <2>1, <2>2, FS_Subset
  <2>4. Cardinality(Friends(q)) \in Nat /\ Cardinality(Friends(q)') \in Nat
    BY <2>2, <2>3, FS_CardinalityType
  <2>5. friendTask[q] \in Nat /\ friendTask[q] <= Cardinality(Friends(q))
    BY DEF RowsTyped, FriendsHold, FriendsCounted
  <2> QED
    BY <2>3, <2>4, <2>5
<1> QED
  BY <1>1, <1>2 DEF FriendsHold, FriendsCounted

\* No copy is made, moved or written back in the step.
CopiesRest ==
  \A s \in Calls :
    \/ call'[s] = call[s]
    \/ /\ call[s].at \notin {"remove", "save", "write"}
       /\ call'[s].at \notin {"remove", "save", "write"}

\* Then the pictures stay as they are.
LEMMA PicturesRest ==
  ASSUME PicturesHold, UNCHANGED <<pictures, uploads, spoiled>>, CopiesRest,
         \A p \in Persons : accounts'[p].image = accounts[p].image
  PROVE  PicturesHold'
<1>0. \A s \in Calls : (Copies(s) <=> Copies(s)') /\ (Copies(s) => call'[s] = call[s])
  BY DEF Copies, CopiesRest
<1>1. PicturesOwned'
  BY <1>0 DEF PicturesHold, PicturesOwned
<1>2. SavedFresh'
  BY <1>0 DEF PicturesHold, SavedFresh, Saved
<1>3. PicturesShown'
  BY <1>0 DEF PicturesHold, PicturesShown, Copies
<1> QED
  BY <1>1, <1>2, <1>3 DEF PicturesHold

\* What a request relies on lasts: keys, joins and accounts.
Lasts ==
    /\ keys \subseteq keys'
    /\ \A p \in Persons : joined[p] > 0 => joined'[p] > 0
    /\ \A p \in Persons : HasAccount(p) => accounts'[p].id = accounts[p].id

\* Request r goes on to c.
Turns(r, c) ==
    /\ call' = [call EXCEPT ![r] = c]
    /\ c \in Working \cup {NoCall}
    /\ CallSound(c)'

\* So what is sound stays sound.
LEMMA SoundLasts ==
  ASSUME NEW c \in Working \cup {NoCall}, Lasts, CallSound(c)
  PROVE  CallSound(c)'
<1>1. c.at \in {"remove", "save", "write"} => c.p \in Persons
  BY CallKinds DEF Copying
<1>2. c.at = "friend" => c.p \in Persons
  BY CallKinds DEF Befriending
<1>3. c.at = "transfer" => c.s \in Persons /\ c.t \in Persons
  BY CallKinds DEF Transferring
<1>4. c.at = "create" => c.p \in Persons /\ c.referrer \subseteq Persons
  BY CallKinds DEF Creating
<1> QED
  BY <1>1, <1>2, <1>3, <1>4 DEF CallSound, Lasts, HasAccount

UploadsTyped == uploads \in Nat /\ pictures \subseteq 1..uploads /\ ids \in Nat
    /\ keys \subseteq 1..ids

\* One request goes on, the others wait.
LEMMA CallsTurn ==
  ASSUME CallsHold, UploadsTyped', Lasts,
         UNCHANGED call \/ \E r \in Calls, c \in Working \cup {NoCall} : Turns(r, c)
  PROVE  CallsHold'
<1>1. CASE UNCHANGED call
  <2>1. \A s \in Calls : CallSound(call[s])'
    BY <1>1, SoundLasts DEF CallsHold, CallsTyped, CallsSound
  <2>2. CallsTyped'
    BY <1>1 DEF CallsHold, CallsTyped, UploadsTyped
  <2> QED BY <2>1, <2>2, <1>1 DEF CallsHold, CallsSound
<1>2. ASSUME NEW r \in Calls, NEW c \in Working \cup {NoCall}, Turns(r, c) PROVE CallsHold'
  <2>1. ASSUME NEW s \in Calls PROVE CallSound(call[s])'
    <3>1. CASE s = r
      BY <1>2, <3>1 DEF CallsHold, CallsTyped, Turns
    <3>2. CASE s # r
      <4>1. call'[s] = call[s] /\ call[s] \in Working \cup {NoCall} /\ CallSound(call[s])
        BY <1>2, <3>2 DEF CallsHold, CallsTyped, CallsSound, Turns
      <4>2. PICK d \in Working \cup {NoCall} : d = call[s]
        BY <4>1
      <4>3. CallSound(d)'
        BY <4>1, <4>2, SoundLasts
      <4> QED BY <4>1, <4>2, <4>3
    <3> QED BY <3>1, <3>2
  <2>2. CallsTyped'
    BY <1>2 DEF CallsHold, CallsTyped, UploadsTyped, Turns
  <2> QED BY <2>1, <2>2 DEF CallsHold, CallsSound
<1> QED BY <1>1, <1>2

\* The inductive invariant.
AccountsInv == Books /\ CallsHold /\ FriendsHold /\ PicturesHold

RowsRest == UNCHANGED <<accounts, referrals, income, transfers, joined, friendTask, rewound>>

\* A turn, request by request.
LEMMA TurnAtCalls ==
  ASSUME CallsHold, NEW r \in Calls, NEW c, Turns(r, c)
  PROVE  /\ \A s \in Calls : call'[s] = IF s = r THEN c ELSE call[s]
         /\ c \in Working \cup {NoCall}
         /\ (c.at # "friend" => FriendCallsFewer)
         /\ c.at \notin {"remove", "save", "write"}
              => (call[r].at \notin {"remove", "save", "write"} => CopiesRest)
<1>1. \A s \in Calls : call'[s] = IF s = r THEN c ELSE call[s]
  BY DEF CallsHold, CallsTyped, Turns
<1>2. c.at # "friend" => FriendCallsFewer
  BY <1>1 DEF FriendCallsFewer
<1>3. c.at \notin {"remove", "save", "write"}
        => (call[r].at \notin {"remove", "save", "write"} => CopiesRest)
  BY <1>1 DEF CopiesRest
<1> QED
  BY <1>1, <1>2, <1>3 DEF Turns

\* A request goes on and no row changes.
LEMMA RowsRestTurn ==
  ASSUME AccountsInv, NEW r \in Calls, NEW c, Turns(r, c), RowsRest, keys \subseteq keys',
         UploadsTyped',
         c.at # "friend"
  PROVE  Books' /\ CallsHold' /\ FriendsHold'
<1>1. Books'
  BY BooksRest DEF AccountsInv, RowsRest
<1>2. CallsHold'
  <2>1. Lasts
    BY DEF Lasts, RowsRest
  <2> QED BY <2>1, CallsTurn, TurnAtCalls DEF AccountsInv
<1>3. FriendsHold'
  BY FriendsRest, TurnAtCalls DEF AccountsInv, Books, RowsRest
<1> QED
  BY <1>1, <1>2, <1>3

\* Nor does a picture.
LEMMA QuietTurn ==
  ASSUME AccountsInv, NEW r \in Calls, NEW c, Turns(r, c), RowsRest, keys \subseteq keys',
         UploadsTyped',
         c.at # "friend", c.at \notin {"remove", "save", "write"},
         call[r].at \notin {"remove", "save", "write"},
         UNCHANGED <<pictures, uploads, spoiled>>
  PROVE  AccountsInv'
<1>1. Books' /\ CallsHold' /\ FriendsHold'
  BY RowsRestTurn
<1>2. PicturesHold'
  BY PicturesRest, TurnAtCalls DEF AccountsInv, RowsRest
<1> QED
  BY <1>1, <1>2 DEF AccountsInv

LEMMA UploadsRest ==
  ASSUME CallsHold, UNCHANGED <<uploads, pictures, ids, keys>>
  PROVE  UploadsTyped' /\ keys \subseteq keys'
BY DEF CallsHold, CallsTyped, UploadsTyped

\* Signing in finds nobody, and asks for an account.
LEMMA KeepsSignIn ==
  ASSUME AccountsInv, NEW r \in Calls, NEW p \in Persons, NEW token \in Persons \cup Strangers,
         SignIn(r, p, token)
  PROVE  AccountsInv'
<1>1. PICK c : c = [at |-> "referrer", p |-> p, token |-> token]
  OBVIOUS
<1>2. c \in Working /\ c.at = "referrer" /\ c.p = p
  BY <1>1 DEF Working, Asking
<1>3. call[r] = NoCall /\ Turns(r, c)
  BY <1>1, <1>2 DEF SignIn, Begins, Turns, CallSound
<1> QED
  BY <1>2, <1>3, QuietTurn, UploadsRest DEF SignIn, RowsRest, AccountsInv, NoCall

\* A transfer is asked for between accounts.
LEMMA KeepsTransfer ==
  ASSUME AccountsInv, NEW r \in Calls, NEW s \in Persons, NEW t \in Persons, NEW n \in Amounts,
         TransferDuckPoints(r, s, t, n)
  PROVE  AccountsInv'
<1>1. PICK c : c = [at |-> "transfer", s |-> s, t |-> t, n |-> n]
  OBVIOUS
<1>2. c \in Working /\ c.at = "transfer" /\ c.s = s /\ c.t = t
  BY <1>1 DEF Working, Transferring
<1>3. call[r] = NoCall /\ Turns(r, c)
  BY <1>1, <1>2 DEF TransferDuckPoints, Begins, Turns, CallSound, HasAccount
<1> QED
  BY <1>2, <1>3, QuietTurn, UploadsRest DEF TransferDuckPoints, RowsRest, AccountsInv, NoCall

\* a referral that is open has a referrer, and both have accounts
LEMMA OpenReferral ==
  ASSUME Books, NEW p \in Persons, referrals[p].open
  PROVE  /\ referrals[p].referrer \in Persons
         /\ HasAccount(p) /\ HasAccount(referrals[p].referrer)
<1>1. referrals[p] # NoReferral
  BY DEF NoReferral
<1>2. referrals[p].referrer \in Persons
  BY <1>1, RowFields DEF Books, RowsTyped, Referred
<1>3. HasAccount(p)
  BY <1>1 DEF Books, Absent, Blank
<1>4. HasAccount(referrals[p].referrer)
  BY <1>2 DEF Books, Absent, Blank
<1> QED BY <1>2, <1>3, <1>4

\* The referrer of a crypto duel is looked up.
LEMMA KeepsReferrerWallet ==
  ASSUME AccountsInv, NEW r \in Calls, NEW p \in Persons, ReferrerWallet(r, p)
  PROVE  AccountsInv'
<1>1. PICK c : c = [at |-> "usdc", q |-> referrals[p].referrer]
  OBVIOUS
<1>2. c \in Working /\ c.at = "usdc"
  <2>1. referrals[p].referrer \in Persons
    BY OpenReferral DEF ReferrerWallet, AccountsInv
  <2> QED BY <1>1, <2>1 DEF Working, Paying
<1>3. call[r] = NoCall /\ Turns(r, c)
  BY <1>1, <1>2 DEF ReferrerWallet, Begins, Turns, CallSound
<1> QED
  BY <1>2, <1>3, QuietTurn, UploadsRest DEF ReferrerWallet, RowsRest, AccountsInv, NoCall

\* The id is new and has a key; the referrer, if any, has an account.
LEMMA KeepsWritePrivateKey ==
  ASSUME AccountsInv, NEW r \in Calls, WritePrivateKey(r)
  PROVE  AccountsInv'
<1>1. PICK b \in Asking : b = call[r]
  BY CallKinds DEF WritePrivateKey, Continues, AccountsInv, CallsHold, CallsTyped
<1>2. b.at = "referrer" /\ b.p \in Persons /\ FirstName(b.p) # {}
  BY <1>1 DEF AccountsInv, CallsHold, CallsSound, CallSound, Asking
<1>3. PICK c : c = [at |-> "create", p |-> b.p, id |-> ids + 1,
                    referrer |-> FindByReferralToken(b.token)]
  OBVIOUS
<1>4. ids \in Nat /\ ids + 1 \in Nat /\ keys \subseteq 1..ids /\ uploads \in Nat
          /\ pictures \subseteq 1..uploads
  BY DEF AccountsInv, CallsHold, CallsTyped
<1>5. c \in Working /\ c.at = "create" /\ c.p = b.p /\ c.id = ids + 1
          /\ c.referrer = FindByReferralToken(b.token)
  BY <1>2, <1>3, <1>4 DEF Working, Creating, FindByReferralToken
<1>6. keys' = keys \cup {ids + 1} /\ ids' = ids + 1 /\ RowsRest
          /\ UNCHANGED <<pictures, uploads, spoiled>>
  BY DEF WritePrivateKey, StoredKeys, RowsRest
<1>7. CallSound(c)'
  <2>1. \A q \in c.referrer : HasAccount(q) /\ c.referrer = {q}
    BY <1>5 DEF FindByReferralToken
  <2>2. \A q \in c.referrer : HasAccount(q)' /\ c.referrer = {q}
    BY <1>6, <2>1 DEF RowsRest, HasAccount
  <2>3. c.id \in keys'
    BY <1>5, <1>6
  <2> QED
    BY <1>2, <1>5, <2>2, <2>3 DEF CallSound
<1>8. Turns(r, c)
  BY <1>1, <1>3, <1>5, <1>7 DEF WritePrivateKey, Continues, Turns
<1>9. UploadsTyped'
  <2>1. PICK i \in Nat : i = ids
    BY <1>4
  <2>2. 1..i \subseteq 1..(i + 1) /\ i + 1 \in 1..(i + 1)
    OBVIOUS
  <2>3. keys' \subseteq 1..ids' /\ ids' \in Nat
    BY <1>4, <1>6, <2>1, <2>2
  <2> QED
    BY <1>4, <1>6, <2>3 DEF UploadsTyped
<1> QED
  BY <1>1, <1>2, <1>5, <1>6, <1>8, <1>9, QuietTurn

\* A row that is copied: its picture is that of its person, and was saved before.
LEMMA ReadPictures ==
  ASSUME AccountsInv, NEW r \in Calls, NEW p \in Persons, NEW c, Turns(r, c), call[r] = NoCall,
         Copies(r)', c.p = p, c.row = accounts[p], c.saved = FALSE,
         UNCHANGED <<accounts, pictures, uploads, spoiled>>
  PROVE  PicturesHold'
<1>0. \A s \in Calls : call'[s] = IF s = r THEN c ELSE call[s]
  BY TurnAtCalls DEF AccountsInv
<1>1. ~Copies(r) /\ ~Saved(r)' /\ \A s \in Calls \ {r} : call'[s] = call[s]
          /\ (Copies(s)' <=> Copies(s)) /\ (Saved(s)' <=> Saved(s))
  BY <1>0 DEF Copies, NoCall, Saved
<1>2. PicturesOwned'
  <2>1. \A s \in Calls : Copies(s)' => call'[s].row.image <= uploads
    BY <1>0, <1>1 DEF AccountsInv, PicturesHold, PicturesOwned
  <2>2. ASSUME NEW q \in Persons, NEW s \in Calls, Copies(s)',
               call'[s].row.image = accounts[q].image
        PROVE  q = call'[s].p \/ accounts[q].image = 0
    BY <1>0, <1>1, <2>2 DEF AccountsInv, PicturesHold, PicturesOwned
  <2>3. ASSUME NEW s1 \in Calls, NEW s2 \in Calls, Copies(s1)', Copies(s2)',
               call'[s1].row.image = call'[s2].row.image
        PROVE  call'[s1].p = call'[s2].p \/ call'[s1].row.image = 0
    <3>1. CASE s1 = r /\ s2 = r
      BY <3>1
    <3>2. CASE s1 = r /\ s2 # r
      BY <1>0, <1>1, <2>3, <3>2 DEF AccountsInv, PicturesHold, PicturesOwned
    <3>3. CASE s1 # r /\ s2 = r
      BY <1>0, <1>1, <2>3, <3>3 DEF AccountsInv, PicturesHold, PicturesOwned
    <3>4. CASE s1 # r /\ s2 # r
      BY <1>1, <2>3, <3>4 DEF AccountsInv, PicturesHold, PicturesOwned
    <3> QED BY <3>1, <3>2, <3>3, <3>4
  <2> QED
    BY <2>1, <2>2, <2>3 DEF AccountsInv, PicturesHold, PicturesOwned
<1>3. SavedFresh'
  <2>1. ASSUME NEW s \in Calls, Saved(s)'
        PROVE  /\ call'[s].at = "write" /\ call'[s].row.image \in pictures
               /\ \A q \in Persons : accounts[q].image # call'[s].row.image
               /\ \A s1 \in Calls : Copies(s1)' /\ s1 # s =>
                      call'[s1].row.image # call'[s].row.image
    <3>1. s # r /\ call'[s] = call[s] /\ Saved(s)
      BY <1>1, <2>1
    <3>2. /\ call[s].at = "write" /\ call[s].row.image \in pictures
          /\ \A q \in Persons : accounts[q].image # call[s].row.image
          /\ \A s1 \in Calls : Copies(s1) /\ s1 # s => call[s1].row.image # call[s].row.image
      BY <3>1 DEF AccountsInv, PicturesHold, SavedFresh
    <3> QED BY <1>0, <1>1, <3>1, <3>2
  <2> QED BY <2>1 DEF SavedFresh
<1>4. PicturesShown'
  <2>1. ASSUME NEW q \in Persons \ spoiled, accounts[q].image \notin pictures \cup {0}
        PROVE  \E s \in Calls : call'[s].at \in {"save", "write"} /\ call'[s].p = q
    <3>1. PICK s \in Calls : call[s].at \in {"save", "write"} /\ call[s].p = q
      BY <2>1 DEF AccountsInv, PicturesHold, PicturesShown
    <3>2. s # r
      BY <3>1 DEF NoCall
    <3> QED BY <1>1, <3>1, <3>2
  <2> QED BY <2>1 DEF PicturesShown
<1> QED
  BY <1>2, <1>3, <1>4 DEF PicturesHold

\* The row is read to be written back.
LEMMA KeepsRead ==
  ASSUME AccountsInv, NEW r \in Calls, NEW p \in Persons,
         UpdateProfilePicture(r, p) \/ ReadWholeUser(r, p)
  PROVE  AccountsInv'
<1>1. PICK a \in {"remove", "save", "write"} :
         Begins(r, [at |-> a, p |-> p, row |-> accounts[p], saved |-> FALSE])
  BY DEF UpdateProfilePicture, ReadWholeUser
<1>2. PICK c : c = [at |-> a, p |-> p, row |-> accounts[p], saved |-> FALSE]
  OBVIOUS
<1>3. accounts[p] \in Row
  BY DEF AccountsInv, Books, RowsTyped
<1>4. c \in Working /\ c.at = a /\ c.p = p /\ c.row = accounts[p] /\ c.saved = FALSE
  BY <1>2, <1>3 DEF Working, Copying
<1>5. HasAccount(p) /\ RowsRest /\ UNCHANGED <<keys, ids, pictures, uploads, spoiled>>
  BY DEF UpdateProfilePicture, ReadWholeUser, RowsRest
<1>6. CallSound(c)'
  <2>1. accounts[p].name # NoName
    BY <1>5 DEF AccountsInv, Books, Named
  <2> QED
    BY <1>4, <1>5, <2>1 DEF CallSound, HasAccount, RowsRest
<1>7. call[r] = NoCall /\ Turns(r, c)
  BY <1>1, <1>2, <1>4, <1>6 DEF Begins, Turns
<1>8. Copies(r)'
  BY <1>4, <1>7, TurnAtCalls DEF AccountsInv, Copies
<1>9. PicturesHold'
  BY <1>4, <1>5, <1>7, <1>8, ReadPictures DEF RowsRest
<1>10. Books' /\ CallsHold' /\ FriendsHold'
  BY <1>4, <1>5, <1>7, RowsRestTurn, UploadsRest DEF AccountsInv
<1> QED
  BY <1>9, <1>10 DEF AccountsInv

\* The picture removed is of the person whose upload is under way.
LEMMA KeepsRemoveUserFile ==
  ASSUME AccountsInv, NEW r \in Calls, RemoveUserFile(r)
  PROVE  AccountsInv'
<1>1. PICK b \in Copying : b = call[r]
  BY CallKinds DEF RemoveUserFile, Continues, AccountsInv, CallsHold, CallsTyped
<1>2. b.at = "remove" /\ b.p \in Persons /\ b.row \in Row /\ CallSound(b)
          /\ b.row.image \in pictures
  BY <1>1 DEF RemoveUserFile, Continues, AccountsInv, CallsHold, CallsSound, Copying
<1>3. PICK c : c = [b EXCEPT !.at = "save"]
  OBVIOUS
<1>4. c \in Working /\ c.at = "save" /\ c.p = b.p /\ c.row = b.row /\ c.saved = b.saved
  BY <1>3 DEF Working, Copying
<1>5. RowsRest /\ UNCHANGED <<keys, ids, uploads, spoiled>> /\ pictures' = pictures \ {b.row.image}
  BY <1>1 DEF RemoveUserFile, RowsRest
<1>6. Turns(r, c)
  BY <1>1, <1>2, <1>3, <1>4, <1>5 DEF RemoveUserFile, Continues, Turns, CallSound, RowsRest,
     HasAccount
<1>7. Books' /\ CallsHold' /\ FriendsHold'
  <2>1. UploadsTyped' /\ keys \subseteq keys'
    BY <1>5 DEF AccountsInv, CallsHold, CallsTyped, UploadsTyped
  <2> QED BY <1>4, <1>5, <1>6, <2>1, RowsRestTurn
<1>8. \A s \in Calls : call'[s] = IF s = r THEN c ELSE call[s]
  BY <1>6, TurnAtCalls DEF AccountsInv
<1>9. \A s \in Calls : /\ Copies(s)' <=> Copies(s)
                       /\ Copies(s) => call'[s].p = call[s].p /\ call'[s].row = call[s].row
                              /\ call'[s].saved = call[s].saved
  BY <1>1, <1>2, <1>4, <1>8 DEF Copies
<1>10. PicturesOwned'
  BY <1>5, <1>9 DEF AccountsInv, PicturesHold, PicturesOwned, RowsRest
<1>11. SavedFresh'
  <2>1. ASSUME NEW s \in Calls, Saved(s)'
        PROVE  /\ call'[s].at = "write" /\ call'[s].row.image \in pictures'
               /\ \A q \in Persons : accounts'[q].image # call'[s].row.image
               /\ \A s1 \in Calls : Copies(s1)' /\ s1 # s =>
                      call'[s1].row.image # call'[s].row.image
    <3>1. Saved(s)
      BY <1>9, <2>1 DEF Saved
    <3>2. /\ call[s].at = "write" /\ call[s].row.image \in pictures
          /\ \A q \in Persons : accounts[q].image # call[s].row.image
          /\ \A s1 \in Calls : Copies(s1) /\ s1 # s => call[s1].row.image # call[s].row.image
      BY <3>1 DEF AccountsInv, PicturesHold, SavedFresh
    <3>3. s # r /\ call'[s] = call[s] /\ Copies(r)
      BY <1>1, <1>2, <1>8, <3>2 DEF Copies
    <3>4. b.row.image # call[s].row.image
      BY <1>1, <3>2, <3>3
    <3> QED BY <1>5, <1>9, <3>2, <3>3, <3>4 DEF RowsRest
  <2> QED BY <2>1 DEF SavedFresh
<1>12. PicturesShown'
  <2>1. ASSUME NEW q \in Persons \ spoiled, accounts[q].image \notin pictures' \cup {0}
        PROVE  \E s \in Calls : call'[s].at \in {"save", "write"} /\ call'[s].p = q
    <3>1. CASE accounts[q].image \in pictures
      <4>1. accounts[q].image = b.row.image
        BY <1>5, <2>1, <3>1
      <4>2. q = b.p
        BY <1>1, <1>2, <2>1, <4>1 DEF AccountsInv, PicturesHold, PicturesOwned, Copies
      <4> QED BY <1>4, <1>8, <4>2
    <3>2. CASE accounts[q].image \notin pictures
      <4>1. PICK s \in Calls : call[s].at \in {"save", "write"} /\ call[s].p = q
        BY <2>1, <3>2 DEF AccountsInv, PicturesHold, PicturesShown
      <4>2. s # r
        BY <1>1, <1>2, <4>1
      <4> QED BY <1>8, <4>1, <4>2
    <3> QED BY <3>1, <3>2
  <2> QED BY <1>5, <2>1 DEF PicturesShown, RowsRest
<1> QED
  BY <1>7, <1>10, <1>11, <1>12 DEF AccountsInv, PicturesHold

\* The picture saved is new.
LEMMA KeepsSavePicture ==
  ASSUME AccountsInv, NEW r \in Calls, SaveUserProfilePicture(r)
  PROVE  AccountsInv'
<1>1. PICK b \in Copying : b = call[r]
  BY CallKinds DEF SaveUserProfilePicture, Continues, AccountsInv, CallsHold, CallsTyped
<1>2. b.at = "save" /\ b.p \in Persons /\ b.row \in Row /\ CallSound(b)
  BY <1>1 DEF SaveUserProfilePicture, Continues, AccountsInv, CallsHold, CallsSound, Copying
<1>3. PICK u \in Nat : u = uploads + 1 /\ uploads \in Nat /\ pictures \subseteq 1..uploads
  BY DEF AccountsInv, CallsHold, CallsTyped
<1>4. PICK row \in Row : row = [b.row EXCEPT !.image = u] /\ row.image = u
          /\ row.id = b.row.id /\ row.name = b.row.name
  <2>1. [b.row EXCEPT !.image = u] \in Row
    BY <1>2, RowsWith
  <2>2. PICK row : row = [b.row EXCEPT !.image = u]
    OBVIOUS
  <2>3. row \in Row
    BY <2>1, <2>2
  <2>4. row.image = u /\ row.id = b.row.id /\ row.name = b.row.name
    BY <1>2, <2>2 DEF Row
  <2> QED BY <2>2, <2>3, <2>4
<1>5. PICK c : c = [b EXCEPT !.at = "write", !.row = row, !.saved = TRUE]
  OBVIOUS
<1>6. c \in Working /\ c.at = "write" /\ c.p = b.p /\ c.row = row /\ c.saved = TRUE
  BY <1>5 DEF Working, Copying
<1>7. RowsRest /\ UNCHANGED <<keys, ids, spoiled>> /\ pictures' = pictures \cup {u} /\ uploads' = u
  BY <1>3 DEF SaveUserProfilePicture, RowsRest
<1>8. call' = [call EXCEPT ![r] = c]
  <2>1. c = [b EXCEPT !.at = "write", !.row.image = uploads + 1, !.saved = TRUE]
    BY <1>3, <1>4, <1>5
  <2> QED BY <1>1, <2>1 DEF SaveUserProfilePicture, Continues
<1>9. Turns(r, c)
  BY <1>2, <1>4, <1>6, <1>7, <1>8 DEF Turns, CallSound, RowsRest, HasAccount
<1>10. Books' /\ CallsHold' /\ FriendsHold'
  <2>1. UploadsTyped' /\ keys \subseteq keys'
    <3>1. PICK v \in Nat : v = uploads
      BY <1>3
    <3>2. 1..v \subseteq 1..(v + 1) /\ v + 1 \in 1..(v + 1)
      OBVIOUS
    <3>3. pictures' \subseteq 1..uploads' /\ uploads' \in Nat
      BY <1>3, <1>7, <3>1, <3>2
    <3> QED
      BY <1>7, <3>3 DEF AccountsInv, CallsHold, CallsTyped, UploadsTyped
  <2> QED BY <1>6, <1>7, <1>9, <2>1, RowsRestTurn
<1>11. \A s \in Calls : call'[s] = IF s = r THEN c ELSE call[s]
  BY <1>9, TurnAtCalls DEF AccountsInv
<1>12. \A s \in Calls : /\ Copies(s)' <=> Copies(s)
                        /\ Copies(s) => call'[s].p = call[s].p
  BY <1>1, <1>2, <1>6, <1>11 DEF Copies
<1>13. /\ \A q \in Persons : accounts[q].image \in Nat /\ accounts[q].image < u
       /\ \A s \in Calls : Copies(s) => call[s].row.image \in Nat /\ call[s].row.image < u
  <2>1. \A s \in Calls : Copies(s) => call[s].row \in Row
    BY CallKinds DEF AccountsInv, CallsHold, CallsTyped, Copies, Copying
  <2> QED
    BY <1>3, <2>1, RowFields DEF AccountsInv, PicturesHold, PicturesOwned, Books, RowsTyped
<1>17. /\ call'[r].row.image = u /\ call'[r].at = "write" /\ call'[r].saved = TRUE
       /\ \A s \in Calls \ {r} : call'[s] = call[s] /\ (Copies(s)' <=> Copies(s))
       /\ \A s \in Calls \ {r} : Copies(s)' => call'[s].row.image < u /\ call'[s].row.image \in Nat
  <2>1. call'[r] = c
    BY <1>11
  <2>2. call'[r].row.image = u /\ call'[r].at = "write" /\ call'[r].saved = TRUE
    BY <1>4, <1>6, <2>1
  <2> QED
    BY <1>11, <1>12, <1>13, <2>2
<1>14. PicturesOwned'
  <2>1. ASSUME NEW s \in Calls, Copies(s)' PROVE call'[s].row.image <= uploads'
    BY <1>7, <1>17, <2>1
  <2>2. ASSUME NEW q \in Persons, NEW s \in Calls, Copies(s)',
               call'[s].row.image = accounts[q].image
        PROVE  q = call'[s].p \/ accounts[q].image = 0
    <3>1. s # r
      BY <1>13, <1>17, <2>2
    <3> QED BY <1>11, <1>12, <2>2, <3>1 DEF AccountsInv, PicturesHold, PicturesOwned
  <2>3. ASSUME NEW s1 \in Calls, NEW s2 \in Calls, Copies(s1)', Copies(s2)',
               call'[s1].row.image = call'[s2].row.image
        PROVE  call'[s1].p = call'[s2].p \/ call'[s1].row.image = 0
    <3>1. CASE s1 = s2
      BY <3>1
    <3>2. CASE s1 # s2
      <4>1. s1 # r /\ s2 # r
        BY <1>17, <2>3, <3>2
      <4> QED BY <1>11, <1>12, <2>3, <4>1 DEF AccountsInv, PicturesHold, PicturesOwned
    <3> QED BY <3>1, <3>2
  <2>4. \A q \in Persons : accounts[q].image <= u
    BY <1>13
  <2> QED
    BY <1>7, <2>1, <2>2, <2>3, <2>4 DEF AccountsInv, PicturesHold, PicturesOwned, RowsRest
<1>15. SavedFresh'
  <2>1. ASSUME NEW s \in Calls, Saved(s)'
        PROVE  /\ call'[s].at = "write" /\ call'[s].row.image \in pictures'
               /\ \A q \in Persons : accounts'[q].image # call'[s].row.image
               /\ \A s1 \in Calls : Copies(s1)' /\ s1 # s =>
                      call'[s1].row.image # call'[s].row.image
    <3>1. CASE s = r
      BY <1>7, <1>13, <1>17, <3>1 DEF RowsRest
    <3>2. CASE s # r
      <4>1. Saved(s) /\ call'[s] = call[s] /\ Copies(s)
        BY <1>11, <1>12, <2>1, <3>2 DEF Saved
      <4>2. /\ call[s].at = "write" /\ call[s].row.image \in pictures
            /\ \A q \in Persons : accounts[q].image # call[s].row.image
            /\ \A s1 \in Calls : Copies(s1) /\ s1 # s => call[s1].row.image # call[s].row.image
        BY <4>1 DEF AccountsInv, PicturesHold, SavedFresh
      <4>3. call[s].row.image # u
        BY <1>13, <4>1
      <4> QED BY <1>7, <1>17, <3>2, <4>1, <4>2, <4>3 DEF RowsRest
    <3> QED BY <3>1, <3>2
  <2> QED BY <2>1 DEF SavedFresh
<1>16. PicturesShown'
  <2>1. ASSUME NEW q \in Persons \ spoiled, accounts[q].image \notin pictures' \cup {0}
        PROVE  \E s \in Calls : call'[s].at \in {"save", "write"} /\ call'[s].p = q
    <3>1. PICK s \in Calls : call[s].at \in {"save", "write"} /\ call[s].p = q
      BY <1>7, <2>1 DEF AccountsInv, PicturesHold, PicturesShown
    <3> QED BY <1>1, <1>6, <1>11, <3>1
  <2> QED BY <1>7, <2>1 DEF PicturesShown, RowsRest
<1> QED
  BY <1>10, <1>14, <1>15, <1>16 DEF AccountsInv, PicturesHold

\* A request that is over relies on nothing.
LEMMA NoCallSound == NoCall \in Working \cup {NoCall} /\ CallSound(NoCall)' /\ NoCall.at = "free"
BY DEF CallSound, NoCall

\* A request that fails after it has removed a picture has spoiled it.
LEMMA KeepsCallFails ==
  ASSUME AccountsInv, NEW r \in Calls, CallFails(r)
  PROVE  AccountsInv'
<1>1. Turns(r, NoCall) /\ RowsRest /\ UNCHANGED <<keys, ids, pictures, uploads>>
  BY NoCallSound DEF CallFails, Turns, RowsRest
<1>2. Books' /\ CallsHold' /\ FriendsHold'
  BY <1>1, NoCallSound, RowsRestTurn, UploadsRest DEF AccountsInv
<1>3. \A s \in Calls : call'[s] = IF s = r THEN NoCall ELSE call[s]
  BY <1>1, TurnAtCalls DEF AccountsInv
<1>4. \A s \in Calls : Copies(s)' => Copies(s) /\ call'[s] = call[s] /\ s # r
  BY <1>3, NoCallSound DEF Copies
<1>5. PicturesOwned'
  BY <1>1, <1>4 DEF AccountsInv, PicturesHold, PicturesOwned, RowsRest
<1>6. SavedFresh'
  BY <1>1, <1>4 DEF AccountsInv, PicturesHold, SavedFresh, Saved, RowsRest
<1>7. PicturesShown'
  <2>1. ASSUME NEW q \in Persons \ spoiled', accounts[q].image \notin pictures \cup {0}
        PROVE  \E s \in Calls : call'[s].at \in {"save", "write"} /\ call'[s].p = q
    <3>1. q \notin spoiled
      BY <2>1 DEF CallFails
    <3>2. PICK s \in Calls : call[s].at \in {"save", "write"} /\ call[s].p = q
      BY <2>1, <3>1 DEF AccountsInv, PicturesHold, PicturesShown
    <3>3. s # r
      <4>1. SUFFICES ASSUME s = r PROVE FALSE
        OBVIOUS
      <4>2. Removed(r)
        BY <2>1, <3>2, <4>1 DEF Removed
      <4> QED BY <2>1, <3>2, <4>1, <4>2 DEF CallFails
    <3> QED BY <1>3, <3>2, <3>3
  <2> QED BY <1>1, <2>1 DEF PicturesShown, RowsRest
<1> QED
  BY <1>2, <1>5, <1>6, <1>7 DEF AccountsInv, PicturesHold

\* a row that is written back, or renamed
LEMMA BooksOneRow ==
  ASSUME Books, NEW p \in Persons, HasAccount(p), NEW row \in Row,
         row.id = accounts[p].id, row.name # NoName, NameFree(p, row.name),
         accounts' = [accounts EXCEPT ![p] = row],
         UNCHANGED <<keys, referrals, income, transfers, joined, friendTask>>,
         rewound \subseteq rewound', row.balance = accounts[p].balance \/ p \in rewound'
  PROVE  Books'
<1>0. \A q \in Persons : accounts'[q] = IF q = p THEN row ELSE accounts[q]
  BY DEF Books, RowsTyped
<1>1. RowsTyped' /\ Referred'
  BY DEF Books, RowsTyped, Referred
<1>2. Absent'
  BY <1>0 DEF Books, Absent, HasAccount, Blank
<1>3. Named'
  BY <1>0 DEF Books, Named, HasAccount, NameFree
<1>4. StatsAddUp'
  BY DEF Books, StatsAddUp, UserReferrals
<1>5. PointsMatchHistory'
  <2>1. \A q \in Persons : DuckPointsTransferHistory(q)' = DuckPointsTransferHistory(q)
            /\ Granted(q)' = Granted(q)
    BY DEF DuckPointsTransferHistory, Granted
  <2>2. \A q \in Persons \ rewound' : q \notin rewound /\ accounts'[q].balance = accounts[q].balance
    BY <1>0
  <2> QED BY <2>1, <2>2 DEF Books, PointsMatchHistory
<1> QED
  BY <1>1, <1>2, <1>3, <1>4, <1>5 DEF Books

\* A name changes if it is free.
LEMMA KeepsChangeUsername ==
  ASSUME AccountsInv, NEW p \in Persons, NEW n \in Names, ChangeUsername(p, n)
  PROVE  AccountsInv'
<1>1. PICK row : row = [accounts[p] EXCEPT !.name = n]
  OBVIOUS
<1>2. accounts[p] \in Row
  BY DEF AccountsInv, Books, RowsTyped
<1>3. row \in Row
  BY <1>1, <1>2, RowsWith DEF Called
<1>4. row.name = n /\ row.id = accounts[p].id /\ row.image = accounts[p].image
          /\ row.balance = accounts[p].balance
  BY <1>1, <1>2 DEF Row
<1>5. /\ HasAccount(p) /\ NameFree(p, n) /\ accounts' = [accounts EXCEPT ![p] = row]
      /\ UNCHANGED <<keys, referrals, income, transfers, joined, friendTask, rewound, call,
             ids, pictures, uploads, spoiled>>
  BY <1>1 DEF ChangeUsername, AtOnce
<1>6. Books'
  BY <1>3, <1>4, <1>5, BooksOneRow DEF AccountsInv
<1>7. \A q \in Persons : accounts'[q] = IF q = p THEN row ELSE accounts[q]
  BY <1>5 DEF AccountsInv, Books, RowsTyped
<1>8. CallsHold'
  <2>1. Lasts
    BY <1>4, <1>5, <1>7 DEF Lasts
  <2> QED BY <1>5, <2>1, CallsTurn, UploadsRest DEF AccountsInv
<1>9. FriendsHold'
  BY <1>5, FriendsRest DEF AccountsInv, Books, FriendCallsFewer
<1>10. PicturesHold'
  BY <1>4, <1>5, <1>7, PicturesRest DEF AccountsInv, CopiesRest
<1> QED
  BY <1>6, <1>8, <1>9, <1>10 DEF AccountsInv

\* The row goes back, with the balance it had unless the person is rewound.
LEMMA KeepsWriteUser ==
  ASSUME AccountsInv, NEW r \in Calls, WriteUser(r)
  PROVE  AccountsInv'
<1>1. PICK b \in Copying : b = call[r]
  BY CallKinds DEF WriteUser, Continues, AccountsInv, CallsHold, CallsTyped
<1>2. b.at = "write" /\ b.p \in Persons /\ b.row \in Row /\ CallSound(b) /\ b.saved \in BOOLEAN
  BY <1>1 DEF WriteUser, Continues, AccountsInv, CallsHold, CallsSound, Copying
<1>3. PICK p \in Persons : p = b.p
  BY <1>2
<1>4. accounts[p] \in Row
  BY DEF AccountsInv, Books, RowsTyped
<1>5. PICK row : row = OmitZero(accounts[p], b.row)
  OBVIOUS
<1>6. row \in Row
  BY <1>2, <1>4, <1>5, RowsWith
<1>7. row.id = accounts[p].id /\ row.name = b.row.name /\ row.image = b.row.image
  BY <1>4, <1>5 DEF OmitZero, Row
<1>8. /\ HasAccount(p) /\ row.name # NoName /\ NameFree(p, row.name)
      /\ accounts' = [accounts EXCEPT ![p] = row]
      /\ rewound' = IF row.balance # accounts[p].balance THEN rewound \cup {p} ELSE rewound
      /\ spoiled' = IF b.saved \/ row.image \in pictures \cup {0} THEN spoiled ELSE spoiled \cup {p}
      /\ UNCHANGED <<keys, ids, referrals, income, transfers, pictures, uploads, joined,
             friendTask>>
  BY <1>1, <1>2, <1>3, <1>5, <1>7 DEF WriteUser, CallSound
<1>9. Turns(r, NoCall)
  BY NoCallSound DEF WriteUser, Continues, Turns
<1>10. Books'
  BY <1>6, <1>7, <1>8, BooksOneRow DEF AccountsInv
<1>11. \A q \in Persons : accounts'[q] = IF q = p THEN row ELSE accounts[q]
  BY <1>8 DEF AccountsInv, Books, RowsTyped
<1>12. CallsHold'
  <2>1. Lasts
    BY <1>7, <1>8, <1>11 DEF Lasts
  <2> QED BY <1>8, <1>9, <2>1, CallsTurn, NoCallSound, UploadsRest DEF AccountsInv
<1>13. FriendsHold'
  BY <1>8, <1>9, FriendsRest, TurnAtCalls, NoCallSound DEF AccountsInv, Books
<1>14. \A s \in Calls : call'[s] = IF s = r THEN NoCall ELSE call[s]
  BY <1>9, TurnAtCalls DEF AccountsInv
<1>15. \A s \in Calls : Copies(s)' => Copies(s) /\ call'[s] = call[s] /\ s # r
  BY <1>14, NoCallSound DEF Copies
<1>16. Copies(r) /\ call[r].p = p /\ call[r].row.image = row.image
  BY <1>1, <1>2, <1>3, <1>7 DEF Copies
<1>17. PicturesOwned'
  <2>1. \A q \in Persons : accounts'[q].image <= uploads
    BY <1>11, <1>16 DEF AccountsInv, PicturesHold, PicturesOwned
  <2>2. \A q1, q2 \in Persons : accounts'[q1].image = accounts'[q2].image =>
            q1 = q2 \/ accounts'[q1].image = 0
    BY <1>11, <1>16 DEF AccountsInv, PicturesHold, PicturesOwned
  <2>3. ASSUME NEW q \in Persons, NEW s \in Calls, Copies(s)',
               call'[s].row.image = accounts'[q].image
        PROVE  q = call'[s].p \/ accounts'[q].image = 0
    <3>1. CASE q = p
      BY <1>11, <1>15, <1>16, <2>3, <3>1 DEF AccountsInv, PicturesHold, PicturesOwned
    <3>2. CASE q # p
      BY <1>11, <1>15, <2>3, <3>2 DEF AccountsInv, PicturesHold, PicturesOwned
    <3> QED BY <3>1, <3>2
  <2> QED
    BY <1>8, <1>15, <2>1, <2>2, <2>3 DEF AccountsInv, PicturesHold, PicturesOwned
<1>18. SavedFresh'
  <2>1. ASSUME NEW s \in Calls, Saved(s)'
        PROVE  /\ call'[s].at = "write" /\ call'[s].row.image \in pictures'
               /\ \A q \in Persons : accounts'[q].image # call'[s].row.image
               /\ \A s1 \in Calls : Copies(s1)' /\ s1 # s =>
                      call'[s1].row.image # call'[s].row.image
    <3>1. Saved(s) /\ call'[s] = call[s] /\ s # r
      BY <1>15, <2>1 DEF Saved
    <3>2. /\ call[s].at = "write" /\ call[s].row.image \in pictures
          /\ \A q \in Persons : accounts[q].image # call[s].row.image
          /\ \A s1 \in Calls : Copies(s1) /\ s1 # s => call[s1].row.image # call[s].row.image
      BY <3>1 DEF AccountsInv, PicturesHold, SavedFresh
    <3> QED BY <1>8, <1>11, <1>15, <1>16, <3>1, <3>2
  <2> QED BY <2>1 DEF SavedFresh
<1>19. PicturesShown'
  <2>1. ASSUME NEW q \in Persons \ spoiled', accounts'[q].image \notin pictures' \cup {0}
        PROVE  \E s \in Calls : call'[s].at \in {"save", "write"} /\ call'[s].p = q
    <3>1. CASE q = p
      <4>1. b.saved
        BY <1>8, <1>11, <2>1, <3>1
      <4>2. call[r].row.image \in pictures
        BY <1>1, <1>16, <4>1 DEF AccountsInv, PicturesHold, SavedFresh, Saved
      <4> QED BY <1>8, <1>11, <1>16, <2>1, <3>1, <4>2
    <3>2. CASE q # p
      <4>1. q \notin spoiled /\ accounts'[q] = accounts[q]
        BY <1>8, <1>11, <2>1, <3>2
      <4>2. PICK s \in Calls : call[s].at \in {"save", "write"} /\ call[s].p = q
        BY <1>8, <2>1, <4>1 DEF AccountsInv, PicturesHold, PicturesShown
      <4>3. s # r
        BY <1>16, <3>2, <4>2
      <4> QED BY <1>14, <4>2, <4>3
    <3> QED BY <3>1, <3>2
  <2> QED BY <2>1 DEF PicturesShown
<1> QED
  BY <1>10, <1>12, <1>13, <1>17, <1>18, <1>19 DEF AccountsInv, PicturesHold

LEMMA NoNameIsNobody == NoName \notin Persons
OBVIOUS

\* A join is a first one if there was none before.
LEMMA KeepsJoinsDuel ==
  ASSUME AccountsInv, NEW r \in Calls, NEW p \in Persons, JoinsDuel(r, p)
  PROVE  AccountsInv'
<1>1. PICK c : c = [at |-> "friend", p |-> p]
  OBVIOUS
<1>2. c \in Working /\ c.at = "friend" /\ c.p = p
  BY <1>1 DEF Working, Befriending
<1>3. /\ HasAccount(p) /\ joined' = [joined EXCEPT ![p] = @ + 1]
      /\ UNCHANGED <<accounts, keys, ids, referrals, income, transfers, pictures, uploads,
                     friendTask, rewound, spoiled>>
  BY DEF JoinsDuel
<1>4. joined \in [Persons -> Nat]
  BY DEF AccountsInv, Books, RowsTyped
<1>5. \A q \in Persons : joined'[q] = IF q = p THEN joined[q] + 1 ELSE joined[q]
  BY <1>3, <1>4
<1>6. joined' \in [Persons -> Nat] /\ joined'[p] > 0
  BY <1>3, <1>4
<1>7. call[r] = NoCall /\ Turns(r, c)
  BY <1>1, <1>2, <1>6 DEF JoinsDuel, Begins, Turns, CallSound
<1>8. \A s \in Calls : call'[s] = IF s = r THEN c ELSE call[s]
  BY <1>7, TurnAtCalls DEF AccountsInv
<1>9. Books'
  <2>1. RowsTyped' /\ Referred'
    BY <1>3, <1>6 DEF AccountsInv, Books, RowsTyped, Referred
  <2>2. Absent' /\ Named'
    BY <1>3, <1>5 DEF AccountsInv, Books, Absent, Named, HasAccount, Blank
  <2>3. StatsAddUp'
    BY <1>3 DEF AccountsInv, Books, StatsAddUp, UserReferrals
  <2>4. PointsMatchHistory'
    BY <1>3 DEF AccountsInv, Books, PointsMatchHistory, DuckPointsTransferHistory, Granted
  <2> QED BY <2>1, <2>2, <2>3, <2>4 DEF Books
<1>10. CallsHold'
  <2>1. Lasts
    BY <1>3, <1>4, <1>5 DEF Lasts
  <2> QED BY <1>3, <1>7, <2>1, CallsTurn, TurnAtCalls, UploadsRest DEF AccountsInv
<1>11. PicturesHold'
  BY <1>2, <1>3, <1>7, PicturesRest, TurnAtCalls DEF AccountsInv, NoCall
<1>12. OneFirstJoin'
  <2>1. ASSUME NEW q \in Persons, joined'[q] = 1, NEW s1 \in Calls, NEW s2 \in Calls,
               Befriends(s1, q)', Befriends(s2, q)'
        PROVE  s1 = s2
    <3>1. CASE q = p
      <4>1. joined[p] = 0
        BY <1>4, <1>5, <2>1, <3>1
      <4>2. \A s \in Calls : ~Befriends(s, p)
        BY <4>1 DEF AccountsInv, CallsHold, CallsSound, CallSound, Befriends
      <4>3. \A s \in Calls : Befriends(s, p)' => s = r
        BY <1>8, <4>2 DEF Befriends
      <4> QED BY <2>1, <3>1, <4>3
    <3>2. CASE q # p
      <4>1. joined[q] = 1
        BY <1>5, <2>1, <3>2
      <4>2. Befriends(s1, q) /\ Befriends(s2, q)
        BY <1>2, <1>8, <2>1, <3>2 DEF Befriends
      <4> QED BY <4>1, <4>2 DEF AccountsInv, FriendsHold, OneFirstJoin
    <3> QED BY <3>1, <3>2
  <2> QED BY <2>1 DEF OneFirstJoin
<1>13. FriendsCounted'
  <2>1. ASSUME NEW q \in Persons PROVE friendTask[q] <= Cardinality(Friends(q)')
    <3>1. Friends(q) \subseteq Friends(q)'
      <4>1. ASSUME NEW o \in Friends(q) PROVE o \in Friends(q)'
        <5>1. o \in Persons /\ o \in UserReferrals(q)' /\ joined[o] > 0 /\ ~Waiting(o)
          BY <1>3 DEF Friends, UserReferrals
        <5>2. joined'[o] > 0
          BY <1>4, <1>5, <5>1
        <5>3. ~Waiting(o)'
          <6>1. CASE o = p
            BY <1>4, <1>5, <5>1, <6>1 DEF Waiting
          <6>2. CASE o # p
            BY <1>2, <1>5, <1>8, <5>1, <6>2 DEF Waiting, Befriends
          <6> QED BY <6>1, <6>2
        <5> QED BY <5>1, <5>2, <5>3 DEF Friends
      <4> QED BY <4>1
    <3>2. IsFiniteSet(Friends(q)')
      <4>1. Friends(q)' \subseteq Persons
        BY DEF Friends, UserReferrals
      <4> QED BY <4>1, FS_Subset
    <3>3. Cardinality(Friends(q)) <= Cardinality(Friends(q)') /\ IsFiniteSet(Friends(q))
      BY <3>1, <3>2, FS_Subset
    <3>4. Cardinality(Friends(q)) \in Nat /\ Cardinality(Friends(q)') \in Nat
      BY <3>2, <3>3, FS_CardinalityType
    <3>5. friendTask[q] \in Nat /\ friendTask[q] <= Cardinality(Friends(q))
      BY DEF AccountsInv, Books, RowsTyped, FriendsHold, FriendsCounted
    <3> QED BY <3>3, <3>4, <3>5
  <2> QED BY <1>3, <2>1 DEF FriendsCounted
<1> QED
  BY <1>9, <1>10, <1>11, <1>12, <1>13 DEF AccountsInv, FriendsHold

\* A first join counts once: the request that counts it is the only one.
LEMMA KeepsReferAFriend ==
  ASSUME AccountsInv, NEW r \in Calls, CompleteReferAFriendTask(r)
  PROVE  AccountsInv'
<1>1. PICK b \in Befriending : b = call[r]
  BY CallKinds DEF CompleteReferAFriendTask, Continues, AccountsInv, CallsHold, CallsTyped
<1>2. PICK p \in Persons : p = b.p
  BY DEF Befriending
<1>3. b.at = "friend" /\ joined[p] > 0 /\ joined[p] \in Nat /\ Befriends(r, p)
  BY <1>1, <1>2 DEF AccountsInv, CallsHold, CallsSound, CallSound, Befriending, Books,
     RowsTyped, Befriends
<1>4. PICK q : q = referrals[p].referrer
  OBVIOUS
<1>5. q \in Persons \cup {NoName}
  BY <1>4, RowFields DEF AccountsInv, Books, RowsTyped
<1>6. /\ IF joined[p] > 1 \/ q = NoName THEN UNCHANGED friendTask
         ELSE friendTask' = [friendTask EXCEPT ![q] = @ + 1]
      /\ UNCHANGED <<accounts, keys, ids, referrals, income, transfers, pictures, uploads, joined,
                     rewound, spoiled>>
  BY <1>1, <1>2, <1>4 DEF CompleteReferAFriendTask, HasUserJoinedMoreThanOneDuel, GetReferrerID
<1>7. Turns(r, NoCall)
  BY NoCallSound DEF CompleteReferAFriendTask, Continues, Turns
<1>8. \A s \in Calls : call'[s] = IF s = r THEN NoCall ELSE call[s]
  BY <1>7, TurnAtCalls DEF AccountsInv
<1>9. Books'
  <2>1. RowsTyped' /\ Referred'
    <3>1. friendTask' \in [Persons -> Nat]
      BY <1>6 DEF AccountsInv, Books, RowsTyped
    <3> QED BY <1>6, <3>1 DEF AccountsInv, Books, RowsTyped, Referred
  <2>2. Absent' /\ Named'
    BY <1>6 DEF AccountsInv, Books, Absent, Named, HasAccount, Blank
  <2>3. StatsAddUp'
    BY <1>6 DEF AccountsInv, Books, StatsAddUp, UserReferrals
  <2>4. PointsMatchHistory'
    BY <1>6 DEF AccountsInv, Books, PointsMatchHistory, DuckPointsTransferHistory, Granted
  <2> QED BY <2>1, <2>2, <2>3, <2>4 DEF Books
<1>10. CallsHold'
  <2>1. Lasts
    BY <1>6 DEF Lasts
  <2> QED BY <1>6, <1>7, <2>1, CallsTurn, NoCallSound, UploadsRest DEF AccountsInv
<1>11. PicturesHold'
  <2>1. CopiesRest
    BY <1>1, <1>3, <1>7, TurnAtCalls, NoCallSound DEF AccountsInv
  <2> QED BY <1>6, <2>1, PicturesRest DEF AccountsInv
<1>12. FriendCallsFewer
  BY <1>7, TurnAtCalls, NoCallSound DEF AccountsInv
<1>13. CASE joined[p] > 1 \/ q = NoName
  <2>1. UNCHANGED <<joined, friendTask, referrals>>
    BY <1>6, <1>13
  <2>2. FriendsHold'
    BY <1>12, <2>1, FriendsRest DEF AccountsInv, Books
  <2> QED BY <1>9, <1>10, <1>11, <2>2 DEF AccountsInv
<1>14. CASE ~(joined[p] > 1 \/ q = NoName)
  <2>1. joined[p] = 1 /\ q \in Persons /\ friendTask' = [friendTask EXCEPT ![q] = @ + 1]
    BY <1>3, <1>5, <1>6, <1>14
  <2>2. \A s \in Calls : Befriends(s, p) => s = r
    BY <1>3, <2>1 DEF AccountsInv, FriendsHold, OneFirstJoin
  <2>3. \A s \in Calls, o \in Persons : Befriends(s, o)' <=> Befriends(s, o) /\ s # r
    BY <1>8, NoCallSound DEF Befriends
  <2>4. OneFirstJoin'
    BY <1>6, <2>3 DEF AccountsInv, FriendsHold, OneFirstJoin
  <2>5. Waiting(p) /\ ~Waiting(p)' /\ \A o \in Persons : Waiting(o)' => Waiting(o)
    BY <1>3, <1>6, <2>1, <2>2, <2>3 DEF Waiting
  <2>6. ASSUME NEW o \in Persons PROVE friendTask'[o] <= Cardinality(Friends(o)')
    <3>1. Friends(o) \subseteq Friends(o)'
      BY <1>6, <2>5 DEF Friends, UserReferrals
    <3>2. IsFiniteSet(Friends(o)')
      <4>1. Friends(o)' \subseteq Persons
        BY DEF Friends, UserReferrals
      <4> QED BY <4>1, FS_Subset
    <3>3. Cardinality(Friends(o)) <= Cardinality(Friends(o)') /\ IsFiniteSet(Friends(o))
      BY <3>1, <3>2, FS_Subset
    <3>4. Cardinality(Friends(o)) \in Nat /\ Cardinality(Friends(o)') \in Nat
      BY <3>2, <3>3, FS_CardinalityType
    <3>5. friendTask \in [Persons -> Nat] /\ friendTask[o] <= Cardinality(Friends(o))
      BY DEF AccountsInv, Books, RowsTyped, FriendsHold, FriendsCounted
    <3>6. CASE o = q
      <4>1. p \in Friends(o)' /\ p \notin Friends(o)
        BY <1>3, <1>4, <1>6, <2>5, <3>6 DEF Friends, UserReferrals
      <4>2. Friends(o) \cup {p} \subseteq Friends(o)'
        BY <3>1, <4>1
      <4>3. Cardinality(Friends(o) \cup {p}) = Cardinality(Friends(o)) + 1
        BY <3>3, <4>1, FS_AddElement
      <4>4. Cardinality(Friends(o) \cup {p}) <= Cardinality(Friends(o)')
        BY <3>2, <4>2, FS_Subset
      <4>5. friendTask'[o] = friendTask[o] + 1
        BY <2>1, <3>5, <3>6
      <4> QED BY <3>4, <3>5, <4>3, <4>4, <4>5
    <3>7. CASE o # q
      <4>1. friendTask'[o] = friendTask[o]
        BY <2>1, <3>5, <3>7
      <4> QED BY <3>3, <3>4, <3>5, <4>1
    <3> QED BY <3>6, <3>7
  <2>7. FriendsHold'
    BY <2>4, <2>6 DEF FriendsHold, FriendsCounted
  <2> QED BY <1>9, <1>10, <1>11, <2>7 DEF AccountsInv
<1> QED
  BY <1>13, <1>14

\* The duck points of the referrals of q.
Points(q) == SumFunctionOnSet([p \in Persons |-> referrals[p].dp], UserReferrals(q))

LEMMA ReferralsOf ==
  ASSUME RowsTyped, NEW q \in Persons
  PROVE  /\ IsFiniteSet(UserReferrals(q)) /\ UserReferrals(q) \subseteq Persons
         /\ \A p \in Persons : [x \in Persons |-> referrals[x].dp][p] = referrals[p].dp
                /\ referrals[p].dp \in Nat
         /\ IntOn([x \in Persons |-> referrals[x].dp], UserReferrals(q))
         /\ IntOn([x \in Persons |-> referrals[x].dp], Persons)
<1>1. IsFiniteSet(UserReferrals(q)) /\ UserReferrals(q) \subseteq Persons
  BY FriendsFinite DEF UserReferrals
<1>2. \A p \in Persons : referrals[p].dp \in Nat
  BY RowFields DEF RowsTyped
<1> QED
  BY <1>1, <1>2 DEF IntOn

\* what a step that changes no balance and no picture leaves alone
LEMMA IncomeTurn ==
  ASSUME AccountsInv,
         UNCHANGED <<accounts, keys, ids, transfers, pictures, uploads, joined, friendTask,
             rewound, spoiled>>,
         \A p \in Persons : /\ referrals'[p].referrer = referrals[p].referrer
                            /\ referrals[p] = NoReferral <=> referrals'[p] = NoReferral,
         \A q \in Persons : income'[q].count = income[q].count,
         RowsTyped', StatsAddUp',
         UNCHANGED call \/ \E r \in Calls : Turns(r, NoCall)
             /\ call[r].at \notin {"remove", "save", "write"}
  PROVE  AccountsInv'
<1>1. Books'
  <2>1. Referred'
    BY DEF AccountsInv, Books, Referred
  <2>2. Absent' /\ Named'
    BY DEF AccountsInv, Books, Absent, Named, HasAccount, Blank
  <2>3. PointsMatchHistory'
    <3>1. ASSUME NEW p \in Persons \ rewound'
          PROVE  accounts'[p].balance = Granted(p)'
                     + DuckPointsTransferHistory(p)'.received - DuckPointsTransferHistory(p)'.sent
      <4>1. Granted(p)' = Granted(p)
        BY DEF Granted
      <4>2. DuckPointsTransferHistory(p)' = DuckPointsTransferHistory(p)
        BY DEF DuckPointsTransferHistory
      <4> QED BY <4>1, <4>2 DEF AccountsInv, Books, PointsMatchHistory
    <3> QED BY <3>1 DEF PointsMatchHistory
  <2> QED BY <2>1, <2>2, <2>3 DEF Books
<1>2. CallsHold'
  <2>1. Lasts
    BY DEF Lasts
  <2> QED BY <2>1, CallsTurn, NoCallSound, UploadsRest DEF AccountsInv
<1>3. FriendCallsFewer /\ CopiesRest
  <2>1. CASE UNCHANGED call
    BY <2>1 DEF FriendCallsFewer, CopiesRest
  <2>2. CASE \E r \in Calls : Turns(r, NoCall) /\ call[r].at \notin {"remove", "save", "write"}
    BY <2>2, TurnAtCalls, NoCallSound DEF AccountsInv
  <2> QED BY <2>1, <2>2
<1>4. FriendsHold'
  BY <1>3, FriendsRest DEF AccountsInv, Books
<1>5. PicturesHold'
  BY <1>3, PicturesRest DEF AccountsInv
<1> QED
  BY <1>1, <1>2, <1>4, <1>5 DEF AccountsInv

\* The row of the referral and the column of its referrer get the same.
LEMMA KeepsDPIncome ==
  ASSUME AccountsInv, NEW p \in Persons, UpdateReferrerDPIncome(p)
  PROVE  AccountsInv'
<1>1. PICK q \in Persons : q = referrals[p].referrer
  BY OpenReferral DEF UpdateReferrerDPIncome, AccountsInv
<1>2. RowsTyped /\ RowsTyped'
  BY TypesIncome DEF AccountsInv, Books, CallsHold
<1>3. /\ referrals[p].open
      /\ referrals' = [referrals EXCEPT ![p].dp = @ + 1]
      /\ income' = [income EXCEPT ![q].dp = @ + 1]
      /\ UNCHANGED <<accounts, keys, ids, transfers, pictures, uploads, joined, friendTask,
             rewound, spoiled, call>>
  BY <1>1 DEF UpdateReferrerDPIncome, AtOnce
<1>4. \A o \in Persons : /\ referrals'[o].referrer = referrals[o].referrer
                         /\ referrals'[o].usdc = referrals[o].usdc
                         /\ referrals'[o].open = referrals[o].open
                         /\ referrals'[o].dp =
                              IF o = p THEN referrals[o].dp + 1 ELSE referrals[o].dp
                         /\ o # p => referrals'[o] = referrals[o]
  BY <1>2, <1>3 DEF RowsTyped, Referral
<1>5. \A o \in Persons : /\ income'[o].count = income[o].count /\ income'[o].usdc = income[o].usdc
                         /\ income'[o].dp = IF o = q THEN income[o].dp + 1 ELSE income[o].dp
  BY <1>2, <1>3 DEF RowsTyped, Income
<1>6. \A o \in Persons : referrals[o] = NoReferral <=> referrals'[o] = NoReferral
  BY <1>3, <1>4 DEF NoReferral
<1>7. \A o \in Persons : UserReferrals(o)' = UserReferrals(o)
  BY <1>4 DEF UserReferrals
<1>8. StatsAddUp'
  <2>1. ASSUME NEW o \in Persons PROVE income'[o].dp = Points(o)'
    <3>1. PICK f : f = [x \in Persons |-> referrals[x].dp]
      OBVIOUS
    <3>2. PICK g : g = [x \in Persons |-> referrals'[x].dp]
      OBVIOUS
    <3>3. PICK S : S = UserReferrals(o)
      OBVIOUS
    <3>4. IsFiniteSet(S) /\ S \subseteq Persons /\ IntOn(f, S)
      BY <1>2, <3>1, <3>3, ReferralsOf
    <3>5. \A x \in Persons : f[x] = referrals[x].dp /\ g[x] = IF x = p THEN f[x] + 1 ELSE f[x]
      BY <1>4, <3>1, <3>2
    <3>6. IntOn(g, S)
      BY <1>4, <3>4, <3>5 DEF IntOn
    <3>7. income[o].dp = SumFunctionOnSet(f, S) /\ Points(o)' = SumFunctionOnSet(g, S)
      BY <1>7, <3>1, <3>2, <3>3 DEF AccountsInv, Books, StatsAddUp, Points
    <3>8. CASE o = q
      <4>1. p \in S
        BY <1>1, <3>3, <3>8 DEF UserReferrals
      <4>2. SumFunctionOnSet(g, S) = SumFunctionOnSet(f, S) + g[p] - f[p]
        BY <3>4, <3>5, <3>6, <4>1, SumOfChanged
      <4>3. g[p] = f[p] + 1 /\ f[p] \in Int /\ SumFunctionOnSet(f, S) \in Int
        BY <3>4, <3>5, <4>1, SumInt DEF IntOn
      <4> QED BY <1>5, <3>7, <3>8, <4>2, <4>3
    <3>9. CASE o # q
      <4>1. p \notin S
        BY <1>1, <3>3, <3>9 DEF UserReferrals
      <4>2. SumFunctionOnSet(f, S) = SumFunctionOnSet(g, S)
        BY <3>4, <3>5, <4>1, SumOfEqual
      <4> QED BY <1>5, <3>7, <3>9, <4>2
    <3> QED BY <3>8, <3>9
  <2>2. ASSUME NEW o \in Persons
        PROVE  /\ income'[o].count = Cardinality(UserReferrals(o)')
               /\ \A x \in UserReferrals(o)' : referrals'[x].usdc <= income'[o].usdc
    <3>1. UserReferrals(o) \subseteq Persons
      BY DEF UserReferrals
    <3>2. /\ income[o].count = Cardinality(UserReferrals(o))
          /\ \A x \in UserReferrals(o) : referrals[x].usdc <= income[o].usdc
      BY DEF AccountsInv, Books, StatsAddUp
    <3>3. income'[o].count = Cardinality(UserReferrals(o)')
      BY <1>5, <1>7, <3>2
    <3>4. ASSUME NEW x \in UserReferrals(o)' PROVE referrals'[x].usdc <= income'[o].usdc
      BY <1>4, <1>5, <1>7, <3>1, <3>2
    <3> QED BY <3>3, <3>4
  <2> QED BY <2>1, <2>2 DEF StatsAddUp, Points
<1> QED
  BY <1>2, <1>3, <1>4, <1>5, <1>6, <1>8, IncomeTurn

\* a step after which the duck points and the numbers are as before
LEMMA StatsRest ==
  ASSUME Books, RowsTyped',
         \A o \in Persons : referrals'[o].referrer = referrals[o].referrer
             /\ referrals'[o].dp = referrals[o].dp,
         \A o \in Persons : income'[o].count = income[o].count /\ income'[o].dp = income[o].dp,
         \A o \in Persons : \A x \in UserReferrals(o) : referrals'[x].usdc <= income'[o].usdc
  PROVE  StatsAddUp'
<1>1. \A o \in Persons : UserReferrals(o)' = UserReferrals(o)
  BY DEF UserReferrals
<1>2. ASSUME NEW o \in Persons PROVE Points(o)' = Points(o)
  <2>1. [x \in Persons |-> referrals[x].dp] = [x \in Persons |-> referrals'[x].dp]
    OBVIOUS
  <2> QED BY <1>1, <2>1 DEF Points
<1>3. ASSUME NEW o \in Persons
      PROVE  /\ income'[o].count = Cardinality(UserReferrals(o)')
             /\ income'[o].dp = Points(o)'
             /\ \A x \in UserReferrals(o)' : referrals'[x].usdc <= income'[o].usdc
  BY <1>1, <1>2 DEF Books, StatsAddUp, Points
<1> QED
  BY <1>3 DEF StatsAddUp, Points

\* Six months have passed: the row keeps what it has.
LEMMA KeepsCommissionEnds ==
  ASSUME AccountsInv, NEW p \in Persons, CommissionEnds(p)
  PROVE  AccountsInv'
<1>1. referrals[p].referrer \in Persons
  BY OpenReferral DEF CommissionEnds, AccountsInv
<1>2. RowsTyped /\ RowsTyped'
  BY TypesIncome DEF AccountsInv, Books, CallsHold
<1>3. /\ referrals' = [referrals EXCEPT ![p].open = FALSE]
      /\ UNCHANGED <<accounts, keys, ids, income, transfers, pictures, uploads, joined,
             friendTask, rewound, spoiled, call>>
  BY DEF CommissionEnds, AtOnce
<1>4. \A o \in Persons : /\ referrals'[o].referrer = referrals[o].referrer
                         /\ referrals'[o].usdc = referrals[o].usdc
                         /\ referrals'[o].dp = referrals[o].dp
                         /\ o # p => referrals'[o] = referrals[o]
  BY <1>2, <1>3 DEF RowsTyped, Referral
<1>5. \A o \in Persons : referrals[o] = NoReferral <=> referrals'[o] = NoReferral
  BY <1>1, <1>4, NoNameIsNobody DEF NoReferral
<1>6. \A o \in Persons : \A x \in UserReferrals(o) : referrals'[x].usdc <= income'[o].usdc
  BY <1>3, <1>4 DEF AccountsInv, Books, StatsAddUp, UserReferrals
<1>7. StatsAddUp'
  BY <1>2, <1>3, <1>4, <1>6, StatsRest DEF AccountsInv
<1> QED
  BY <1>2, <1>3, <1>4, <1>5, <1>7, IncomeTurn

\* The column of the referrer gets no less than any row of his.
LEMMA KeepsUSDCIncome ==
  ASSUME AccountsInv, NEW r \in Calls, UpdateReferrerUSDCIncome(r)
  PROVE  AccountsInv'
<1>1. PICK b \in Paying : b = call[r] /\ call[r].at = "usdc"
  BY CallKinds DEF UpdateReferrerUSDCIncome, Continues, AccountsInv, CallsHold, CallsTyped
<1>2. PICK q \in Persons : q = b.q
  BY DEF Paying
<1>3. RowsTyped /\ RowsTyped'
  BY TypesIncome DEF AccountsInv, Books, CallsHold
<1>4. /\ income' = [income EXCEPT ![q].usdc = @ + 1]
      /\ referrals' = [p \in Persons |->
           IF referrals[p].referrer = q /\ referrals[p].open
           THEN [referrals[p] EXCEPT !.usdc = @ + 1]
           ELSE referrals[p]]
      /\ UNCHANGED <<accounts, keys, ids, transfers, pictures, uploads, joined, friendTask,
             rewound, spoiled>>
  BY <1>1, <1>2 DEF UpdateReferrerUSDCIncome
<1>5. Turns(r, NoCall)
  BY NoCallSound DEF UpdateReferrerUSDCIncome, Continues, Turns
<1>6. \A o \in Persons : referrals'[o] = IF referrals[o].referrer = q /\ referrals[o].open
           THEN [referrals[o] EXCEPT !.usdc = @ + 1] ELSE referrals[o]
  BY <1>4
<1>7. ASSUME NEW o \in Persons
      PROVE  /\ referrals'[o].referrer = referrals[o].referrer
             /\ referrals'[o].dp = referrals[o].dp
             /\ referrals'[o].usdc <= referrals[o].usdc + 1
             /\ referrals[o].referrer # q => referrals'[o].usdc = referrals[o].usdc
             /\ referrals'[o].usdc \in Nat /\ referrals[o].usdc \in Nat
             /\ referrals[o] = NoReferral <=> referrals'[o] = NoReferral
  <2>1. PICK row \in Referral : row = referrals[o]
    BY <1>3 DEF RowsTyped
  <2>2. CASE row.referrer = q /\ row.open
    <3>1. PICK new : new = [row EXCEPT !.usdc = @ + 1]
      OBVIOUS
    <3>2. new.referrer = row.referrer /\ new.dp = row.dp /\ new.usdc = row.usdc + 1
              /\ row.usdc \in Nat
      BY <3>1 DEF Referral
    <3>3. row # NoReferral /\ new # NoReferral
      BY <2>2, <3>2, NoNameIsNobody DEF NoReferral
    <3>4. referrals'[o] = new /\ referrals[o] = row
      BY <1>6, <2>1, <2>2, <3>1
    <3> QED BY <2>2, <3>2, <3>3, <3>4
  <2>3. CASE ~(row.referrer = q /\ row.open)
    <3>1. referrals'[o] = row /\ referrals[o] = row /\ row.usdc \in Nat
      BY <1>6, <2>1, <2>3, RowFields
    <3> QED BY <3>1
  <2> QED BY <2>2, <2>3
<1>8. \A o \in Persons : /\ income'[o].count = income[o].count /\ income'[o].dp = income[o].dp
                         /\ income'[o].usdc = IF o = q THEN income[o].usdc + 1 ELSE income[o].usdc
                         /\ income[o].usdc \in Nat
  BY <1>3, <1>4 DEF RowsTyped, Income
<1>9. \A o \in Persons : \A x \in UserReferrals(o) : referrals'[x].usdc <= income'[o].usdc
  <2>1. ASSUME NEW o \in Persons, NEW x \in UserReferrals(o)
        PROVE referrals'[x].usdc <= income'[o].usdc
    <3>1. x \in Persons /\ referrals[x].referrer = o /\ referrals[x].usdc <= income[o].usdc
      BY DEF UserReferrals, AccountsInv, Books, StatsAddUp
    <3> QED BY <1>7, <1>8, <3>1
  <2> QED BY <2>1
<1>10. StatsAddUp'
  BY <1>3, <1>7, <1>8, <1>9, StatsRest DEF AccountsInv
<1>11. \A o \in Persons : /\ referrals'[o].referrer = referrals[o].referrer
                          /\ referrals[o] = NoReferral <=> referrals'[o] = NoReferral
  BY <1>7
<1> QED
  BY <1>1, <1>3, <1>4, <1>5, <1>8, <1>10, <1>11, IncomeTurn

LEMMA HistoryType ==
  ASSUME RowsTyped, NEW p \in Persons
  PROVE  /\ DuckPointsTransferHistory(p).received \in Int
                /\ DuckPointsTransferHistory(p).sent \in Int
         /\ Granted(p) \in Int
         /\ IntOn([s \in Persons |-> transfers[s][p]], Persons) /\ IntOn(transfers[p], Persons)
<1>1. IntOn([s \in Persons |-> transfers[s][p]], Persons) /\ IntOn(transfers[p], Persons)
  BY DEF RowsTyped, IntOn
<1>2. SumFunctionOnSet([s \in Persons |-> transfers[s][p]], Persons) \in Int
          /\ SumFunctionOnSet(transfers[p], Persons) \in Int
  BY <1>1, SumInt
<1>3. Granted(p) \in Int
  <2>1. PICK k \in Nat : k = income[p].count + (IF referrals[p] = NoReferral THEN 0 ELSE 1)
    BY RowFields DEF RowsTyped
  <2>2. InvitationReward * k \in Int
    OBVIOUS
  <2> QED BY <2>1, <2>2 DEF Granted
<1> QED
  BY <1>1, <1>2, <1>3 DEF DuckPointsTransferHistory

\* what the history says after a transfer
LEMMA HistoryAfter ==
  ASSUME RowsTyped, RowsTyped', NEW s \in Persons, NEW t \in Persons, NEW n \in Int,
         transfers' = [transfers EXCEPT ![s][t] = @ + n], NEW p \in Persons
  PROVE  /\ DuckPointsTransferHistory(p)'.received = DuckPointsTransferHistory(p).received
                + (IF p = t THEN n ELSE 0)
         /\ DuckPointsTransferHistory(p)'.sent = DuckPointsTransferHistory(p).sent
                + (IF p = s THEN n ELSE 0)
<1>0. \A x, y \in Persons :
        /\ transfers'[x][y] =
             IF x = s /\ y = t THEN transfers[x][y] + n ELSE transfers[x][y]
        /\ transfers[x][y] \in Nat /\ transfers'[x][y] \in Nat
  BY DEF RowsTyped
<1>1. PICK f : f = [x \in Persons |-> transfers[x][p]]
  OBVIOUS
<1>2. PICK g : g = [x \in Persons |-> transfers'[x][p]]
  OBVIOUS
<1>3. IntOn(f, Persons) /\ IntOn(g, Persons)
  BY <1>0, <1>1, <1>2 DEF IntOn
<1>4. SumFunctionOnSet(g, Persons) = SumFunctionOnSet(f, Persons) + (IF p = t THEN n ELSE 0)
  <2>1. CASE p = t
    <3>1. \A x \in Persons \ {s} : g[x] = f[x]
      BY <1>0, <1>1, <1>2
    <3>2. SumFunctionOnSet(g, Persons) = SumFunctionOnSet(f, Persons) + g[s] - f[s]
      BY <1>3, <3>1, SumOfChanged
    <3>3. g[s] = f[s] + n /\ f[s] \in Int /\ SumFunctionOnSet(f, Persons) \in Int
      BY <1>0, <1>1, <1>2, <1>3, <2>1, SumInt
    <3> QED BY <2>1, <3>2, <3>3
  <2>2. CASE p # t
    <3>1. \A x \in Persons : f[x] = g[x]
      BY <1>0, <1>1, <1>2, <2>2
    <3>2. SumFunctionOnSet(f, Persons) = SumFunctionOnSet(g, Persons)
              /\ SumFunctionOnSet(f, Persons) \in Int
      BY <1>3, <3>1, SumOfEqual, SumInt
    <3> QED BY <2>2, <3>2
  <2> QED BY <2>1, <2>2
<1>5. IntOn(transfers[p], Persons) /\ IntOn(transfers'[p], Persons)
  BY <1>0 DEF IntOn
<1>6. SumFunctionOnSet(transfers'[p], Persons)
        = SumFunctionOnSet(transfers[p], Persons) + (IF p = s THEN n ELSE 0)
  <2>1. CASE p = s
    <3>1. \A x \in Persons \ {t} : transfers'[p][x] = transfers[p][x]
      BY <1>0
    <3>2. SumFunctionOnSet(transfers'[p], Persons)
            = SumFunctionOnSet(transfers[p], Persons) + transfers'[p][t] - transfers[p][t]
      <4>1. PICK u : u = transfers[p]
        OBVIOUS
      <4>2. PICK v : v = transfers'[p]
        OBVIOUS
      <4>3. IntOn(u, Persons) /\ IntOn(v, Persons) /\ \A x \in Persons \ {t} : v[x] = u[x]
        BY <1>5, <3>1, <4>1, <4>2
      <4>4. SumFunctionOnSet(v, Persons) = SumFunctionOnSet(u, Persons) + v[t] - u[t]
        BY <4>3, SumOfChanged
      <4> QED BY <4>1, <4>2, <4>4
    <3>3. transfers'[p][t] = transfers[p][t] + n /\ transfers[p][t] \in Int
              /\ SumFunctionOnSet(transfers[p], Persons) \in Int
      BY <1>0, <1>5, <2>1, SumInt
    <3> QED BY <2>1, <3>2, <3>3
  <2>2. CASE p # s
    <3>1. transfers'[p] = transfers[p]
      BY <2>2 DEF RowsTyped
    <3>2. SumFunctionOnSet(transfers[p], Persons) \in Int
      BY <1>5, SumInt
    <3> QED BY <2>2, <3>1, <3>2
  <2> QED BY <2>1, <2>2
<1> QED
  BY <1>1, <1>2, <1>4, <1>6 DEF DuckPointsTransferHistory

\* A transfer moves between two balances what it writes into the history.
LEMMA KeepsTransferCommit ==
  ASSUME AccountsInv, NEW r \in Calls, TransferCommit(r)
  PROVE  AccountsInv'
<1>1. PICK b \in Transferring : b = call[r] /\ call[r].at = "transfer"
  BY CallKinds DEF TransferCommit, Continues, AccountsInv, CallsHold, CallsTyped
<1>2. PICK s \in Persons, t \in Persons, n \in Int : s = b.s /\ t = b.t /\ n = b.n
  BY DEF Transferring
<1>3. HasAccount(s) /\ HasAccount(t)
  BY <1>1, <1>2 DEF AccountsInv, CallsHold, CallsSound, CallSound
<1>4. RowsTyped /\ RowsTyped'
  BY TypesTransfer DEF AccountsInv, Books, CallsHold
<1>5. /\ accounts' = AlterBalance(AlterBalance(accounts, s, -n), t, n)
      /\ transfers' = [transfers EXCEPT ![s][t] = @ + n]
      /\ UNCHANGED <<keys, ids, referrals, income, pictures, uploads, joined, friendTask,
             rewound, spoiled>>
  BY <1>1, <1>2 DEF TransferCommit
<1>6. Turns(r, NoCall)
  BY NoCallSound DEF TransferCommit, Continues, Turns
<1>7. PICK D : D = AlterBalance(accounts, s, -n)
  OBVIOUS
<1>8. accounts' = AlterBalance(D, t, n)
  BY <1>5, <1>7
<1>9. ASSUME NEW o \in Persons
      PROVE  /\ accounts'[o].id = accounts[o].id /\ accounts'[o].name = accounts[o].name
             /\ accounts'[o].image = accounts[o].image
             /\ o # s /\ o # t => accounts'[o] = accounts[o]
             /\ accounts'[o].balance = accounts[o].balance - (IF o = s THEN n ELSE 0)
                    + (IF o = t THEN n ELSE 0)
  <2>1. PICK row \in Row : row = accounts[o]
    BY <1>4 DEF RowsTyped
  <2>2. D[o] = IF o = s THEN [row EXCEPT !.balance = row.balance + (-n)] ELSE row
    BY <1>4, <1>7, <2>1 DEF AlterBalance, RowsTyped
  <2>3. DOMAIN D = Persons
    BY <1>4, <1>7 DEF AlterBalance, RowsTyped
  <2>4. accounts'[o] = IF o = t THEN [D[o] EXCEPT !.balance = D[o].balance + n] ELSE D[o]
    BY <1>8, <2>3 DEF AlterBalance
  <2>5. PICK m : m = D[o]
    OBVIOUS
  <2>6. /\ m.id = row.id /\ m.name = row.name /\ m.image = row.image
        /\ m.balance = row.balance - (IF o = s THEN n ELSE 0)
        /\ o # s => m = row
        /\ row.balance \in Int
        /\ \E k \in Int : m = [row EXCEPT !.balance = k]
    <3>1. CASE o = s
      <4>1. row.balance \in Int
        BY RowFields
      <4>2. PICK k \in Int : k = row.balance + (-n)
        BY <4>1
      <4>3. m = [row EXCEPT !.balance = k]
        BY <2>2, <2>5, <3>1, <4>2
      <4>4. m.id = row.id /\ m.name = row.name /\ m.image = row.image /\ m.balance = k
        BY <4>3 DEF Row
      <4> QED BY <3>1, <4>1, <4>2, <4>3, <4>4
    <3>2. CASE o # s
      <4>1. m = row /\ row.balance \in Int
        BY <2>2, <2>5, <3>2, RowFields
      <4>2. row = [row EXCEPT !.balance = row.balance]
        BY DEF Row
      <4> QED BY <3>2, <4>1, <4>2
    <3> QED BY <3>1, <3>2
  <2>7. CASE o = t
    <3>1. PICK k \in Int : m = [row EXCEPT !.balance = k]
      BY <2>6
    <3>2. accounts'[o] = [m EXCEPT !.balance = m.balance + n]
      BY <2>4, <2>5, <2>7
    <3>3. PICK new : new = [m EXCEPT !.balance = m.balance + n]
      OBVIOUS
    <3>4. new.id = row.id /\ new.name = row.name /\ new.image = row.image
              /\ new.balance = m.balance + n
      BY <2>6, <3>1, <3>3 DEF Row
    <3> QED BY <2>1, <2>6, <2>7, <3>2, <3>3, <3>4
  <2>8. CASE o # t
    <3>1. accounts'[o] = m
      BY <2>4, <2>5, <2>8
    <3> QED BY <2>1, <2>6, <2>8, <3>1
  <2> QED BY <2>7, <2>8
<1>10. Books'
  <2>1. Referred'
    BY <1>5 DEF AccountsInv, Books, Referred
  <2>2. Absent'
    <3>1. ASSUME NEW p \in Persons, ~HasAccount(p)' PROVE Blank(p)'
      <4>1. ~HasAccount(p) /\ p # s /\ p # t
        BY <1>3, <1>9, <3>1 DEF HasAccount
      <4>2. Blank(p) /\ accounts'[p] = accounts[p]
        BY <1>9, <4>1 DEF AccountsInv, Books, Absent
      <4>3. \A q \in Persons : transfers'[p][q] = transfers[p][q]
                /\ transfers'[q][p] = transfers[q][p]
        BY <1>4, <1>5, <4>1 DEF RowsTyped
      <4> QED BY <1>5, <4>2, <4>3 DEF Blank
    <3> QED BY <3>1 DEF Absent
  <2>3. Named'
    BY <1>5, <1>9 DEF AccountsInv, Books, Named, HasAccount
  <2>4. StatsAddUp'
    BY <1>5 DEF AccountsInv, Books, StatsAddUp, UserReferrals
  <2>5. PointsMatchHistory'
    <3>1. ASSUME NEW p \in Persons \ rewound'
          PROVE  accounts'[p].balance = Granted(p)'
                     + DuckPointsTransferHistory(p)'.received - DuckPointsTransferHistory(p)'.sent
      <4>1. Granted(p)' = Granted(p)
        BY <1>5 DEF Granted
      <4>2. accounts[p].balance = Granted(p)
                + DuckPointsTransferHistory(p).received - DuckPointsTransferHistory(p).sent
        BY <1>5, <3>1 DEF AccountsInv, Books, PointsMatchHistory
      <4>3. /\ DuckPointsTransferHistory(p)'.received = DuckPointsTransferHistory(p).received
                   + (IF p = t THEN n ELSE 0)
            /\ DuckPointsTransferHistory(p)'.sent = DuckPointsTransferHistory(p).sent
                   + (IF p = s THEN n ELSE 0)
        BY <1>4, <1>5, HistoryAfter
      <4>4. DuckPointsTransferHistory(p).received \in Int
                /\ DuckPointsTransferHistory(p).sent \in Int /\ Granted(p) \in Int
        BY <1>4, HistoryType
      <4>5. accounts'[p].balance = accounts[p].balance - (IF p = s THEN n ELSE 0)
                + (IF p = t THEN n ELSE 0)
        BY <1>9
      <4> QED BY <4>1, <4>2, <4>3, <4>4, <4>5
    <3> QED BY <3>1 DEF PointsMatchHistory
  <2> QED BY <1>4, <2>1, <2>2, <2>3, <2>4, <2>5 DEF Books
<1>11. CallsHold'
  <2>1. Lasts
    BY <1>5, <1>9 DEF Lasts
  <2> QED BY <1>5, <1>6, <2>1, CallsTurn, NoCallSound, UploadsRest DEF AccountsInv
<1>12. FriendCallsFewer /\ CopiesRest
  BY <1>1, <1>6, TurnAtCalls, NoCallSound DEF AccountsInv
<1>13. FriendsHold'
  BY <1>5, <1>12, FriendsRest DEF AccountsInv, Books
<1>14. PicturesHold'
  BY <1>5, <1>9, <1>12, PicturesRest DEF AccountsInv
<1> QED
  BY <1>10, <1>11, <1>13, <1>14 DEF AccountsInv

\* the columns of the referrer and the row of the referral
LEMMA ReferralRows ==
  ASSUME RowsTyped, RowsTyped', NEW p \in Persons, NEW q \in Persons, CreateReferral(p, q)
  PROVE  /\ referrals'[p].referrer = q /\ referrals'[p].dp = InvitationReward
                /\ referrals'[p].usdc = 0
         /\ referrals'[p] # NoReferral
         /\ \A o \in Persons \ {p} : referrals'[o] = referrals[o]
         /\ \A o \in Persons \ {q} : income'[o] = income[o]
         /\ income'[q].count = income[q].count + 1
                /\ income'[q].dp = income[q].dp + InvitationReward
         /\ income'[q].usdc = income[q].usdc
<1>1. referrals'[p] = NewUserReferral(q) /\ \A o \in Persons \ {p} : referrals'[o] = referrals[o]
  BY DEF CreateReferral, RowsTyped
<1>2. PICK row : row = NewUserReferral(q)
  OBVIOUS
<1>3. row.referrer = q /\ row.dp = InvitationReward /\ row.usdc = 0 /\ row # NoReferral
  BY <1>2, NoNameIsNobody DEF NewUserReferral, NoReferral
<1>4. PICK i \in Income : i = income[q]
  BY DEF RowsTyped
<1>5. PICK n \in Nat : n = i.count + 1
  BY RowFields
<1>6. PICK m \in Nat : m = i.dp + InvitationReward
  BY RowFields
<1>7. income' = [income EXCEPT ![q] = [i EXCEPT !.count = n, !.dp = m]]
  BY <1>4, <1>5, <1>6 DEF CreateReferral
<1>8. PICK j : j = [i EXCEPT !.count = n, !.dp = m]
  OBVIOUS
<1>9. j.count = n /\ j.dp = m /\ j.usdc = i.usdc
  BY <1>8 DEF Income
<1>10. income'[q] = j /\ \A o \in Persons \ {q} : income'[o] = income[o]
  BY <1>7, <1>8 DEF RowsTyped
<1> QED
  BY <1>1, <1>2, <1>3, <1>4, <1>5, <1>6, <1>9, <1>10

\* A referral more in the list of the referrer and in his columns.
LEMMA StatsWithReferral ==
  ASSUME Books, RowsTyped', NEW p \in Persons, NEW q \in Persons, CreateReferral(p, q),
         referrals[p].referrer = NoName
  PROVE  StatsAddUp'
<1>0. RowsTyped
  BY DEF Books
<1>1. /\ referrals'[p].referrer = q /\ referrals'[p].dp = InvitationReward /\ referrals'[p].usdc = 0
      /\ \A o \in Persons \ {p} : referrals'[o] = referrals[o]
      /\ \A o \in Persons \ {q} : income'[o] = income[o]
      /\ income'[q].count = income[q].count + 1 /\ income'[q].dp = income[q].dp + InvitationReward
      /\ income'[q].usdc = income[q].usdc
  BY <1>0, ReferralRows
<1>2. /\ UserReferrals(q)' = UserReferrals(q) \cup {p}
      /\ \A o \in Persons \ {q} : UserReferrals(o)' = UserReferrals(o)
      /\ \A o \in Persons : p \notin UserReferrals(o)
  BY <1>1, NoNameIsNobody DEF UserReferrals
<1>3. PICK f : f = [x \in Persons |-> referrals[x].dp]
  OBVIOUS
<1>4. PICK g : g = [x \in Persons |-> referrals'[x].dp]
  OBVIOUS
<1>5. \A o \in Persons : \A x \in UserReferrals(o) : x \in Persons /\ x # p /\ g[x] = f[x]
  BY <1>1, <1>2, <1>3, <1>4 DEF UserReferrals
<1>6. ASSUME NEW o \in Persons
      PROVE  /\ SumFunctionOnSet(f, UserReferrals(o)) = income[o].dp
             /\ SumFunctionOnSet(g, UserReferrals(o)) = income[o].dp
             /\ income[o].dp \in Int /\ IsFiniteSet(UserReferrals(o)) /\ IntOn(g, UserReferrals(o))
  <2>1. SumFunctionOnSet(f, UserReferrals(o)) = income[o].dp
    BY <1>3 DEF Books, StatsAddUp
  <2>2. IsFiniteSet(UserReferrals(o)) /\ IntOn(f, UserReferrals(o))
    BY <1>0, <1>3, ReferralsOf
  <2>3. IntOn(g, UserReferrals(o))
    BY <1>5, <2>2 DEF IntOn
  <2>4. SumFunctionOnSet(f, UserReferrals(o)) = SumFunctionOnSet(g, UserReferrals(o))
    BY <1>5, <2>2, SumOfEqual
  <2>5. income[o].dp \in Int
    BY <1>0, RowFields DEF RowsTyped
  <2> QED BY <2>1, <2>2, <2>3, <2>4, <2>5
<1>7. ASSUME NEW o \in Persons
      PROVE  /\ income'[o].count = Cardinality(UserReferrals(o)')
             /\ income'[o].dp = SumFunctionOnSet(g, UserReferrals(o)')
             /\ \A x \in UserReferrals(o)' : referrals'[x].usdc <= income'[o].usdc
  <2>1. \A x \in UserReferrals(o) : referrals'[x].usdc <= income'[o].usdc
    BY <1>1, <1>5 DEF Books, StatsAddUp
  <2>2. income[o].count = Cardinality(UserReferrals(o)) /\ income[o].usdc \in Nat
    BY <1>0, RowFields DEF Books, StatsAddUp, RowsTyped
  <2>3. CASE o = q
    <3>1. Cardinality(UserReferrals(o) \cup {p}) = Cardinality(UserReferrals(o)) + 1
      BY <1>2, <1>6, FS_AddElement
    <3>2. g[p] = InvitationReward /\ g[p] \in Int
      BY <1>1, <1>4
    <3>3. SumFunctionOnSet(g, UserReferrals(o) \cup {p})
            = SumFunctionOnSet(g, UserReferrals(o)) + g[p]
      BY <1>2, <1>6, <3>2, SumWith
    <3>4. \A x \in UserReferrals(o) \cup {p} : referrals'[x].usdc <= income'[o].usdc
      BY <1>1, <2>1, <2>2, <2>3
    <3> QED BY <1>1, <1>2, <1>6, <2>2, <2>3, <3>1, <3>2, <3>3, <3>4
  <2>4. CASE o # q
    BY <1>1, <1>2, <1>6, <2>1, <2>2, <2>4
  <2> QED BY <2>3, <2>4
<1> QED
  BY <1>4, <1>7 DEF StatsAddUp

\* A new account has what was granted for its invitation, and so has its referrer.
LEMMA KeepsCreateUser ==
  ASSUME AccountsInv, NEW r \in Calls, CreateUser(r)
  PROVE  AccountsInv'
<1>1. PICK c \in Creating : c = call[r]
  BY CallKinds DEF CreateUser, Continues, AccountsInv, CallsHold, CallsTyped
<1>2. PICK p \in Persons : p = c.p
  BY DEF Creating
<1>3. PICK R \in SUBSET Persons : R = c.referrer
  BY DEF Creating
<1>4. /\ call[r].at = "create" /\ FirstName(p) # {} /\ c.id \in keys /\ c.id \in Nat
      /\ \A q \in R : HasAccount(q) /\ R = {q}
  BY <1>1, <1>2, <1>3 DEF CreateUser, Continues, AccountsInv, CallsHold, CallsSound,
     CallSound, Creating
<1>5. PICK new : new = NewUser(p, c.id, R # {})
  OBVIOUS
<1>6. new \in Row
  BY <1>4, <1>5, NewRow
<1>7. /\ new.id = c.id /\ new.name # NoName /\ new.image = 0
      /\ new.balance = IF R # {} THEN InvitationReward ELSE 0
  <2>1. PICK n : n = CHOOSE m \in FirstName(p) : TRUE
    OBVIOUS
  <2>2. n # NoName
    BY <1>4, <2>1, OneFirstName
  <2> QED BY <1>5, <2>1, <2>2 DEF NewUser
<1>8. c.id # 0
  <2>1. keys \subseteq 1..ids /\ ids \in Nat
    BY DEF AccountsInv, CallsHold, CallsTyped
  <2> QED BY <1>4, <2>1
<1>9. /\ ~HasAccount(p) /\ NameFree(p, new.name)
      /\ accounts' = [q \in Persons |->
           IF q = p THEN new
           ELSE IF q \in R THEN [accounts[q] EXCEPT !.balance = @ + InvitationReward]
           ELSE accounts[q]]
      /\ IF R = {} THEN UNCHANGED <<referrals, income>>
         ELSE \E q \in R : CreateReferral(p, q)
      /\ UNCHANGED <<keys, ids, transfers, pictures, uploads, joined, friendTask, rewound, spoiled>>
  BY <1>1, <1>2, <1>3, <1>5 DEF CreateUser
<1>10. Turns(r, NoCall)
  BY NoCallSound DEF CreateUser, Continues, Turns
<1>11. RowsTyped /\ RowsTyped'
  BY TypesCreate DEF AccountsInv, Books, CallsHold
<1>12. Blank(p)
  BY <1>9 DEF AccountsInv, Books, Absent
<1>13. p \notin R
  BY <1>4, <1>9
<1>14. ASSUME NEW o \in Persons, o # p
       PROVE  /\ accounts'[o].id = accounts[o].id /\ accounts'[o].name = accounts[o].name
              /\ accounts'[o].image = accounts[o].image
              /\ o \notin R => accounts'[o] = accounts[o]
              /\ accounts'[o].balance = accounts[o].balance
                     + (IF o \in R THEN InvitationReward ELSE 0)
  <2>1. PICK row \in Row : row = accounts[o]
    BY <1>11 DEF RowsTyped
  <2>2. row.balance \in Nat
    BY RowFields
  <2>3. CASE o \in R
    <3>1. PICK k \in Nat : k = row.balance + InvitationReward
      BY <2>2
    <3>2. accounts'[o] = [row EXCEPT !.balance = k]
      BY <1>9, <1>14, <2>1, <2>3, <3>1
    <3>3. PICK m : m = [row EXCEPT !.balance = k]
      OBVIOUS
    <3>4. m.id = row.id /\ m.name = row.name /\ m.image = row.image /\ m.balance = k
      BY <3>3 DEF Row
    <3> QED BY <2>1, <2>3, <3>1, <3>2, <3>3, <3>4
  <2>4. CASE o \notin R
    <3>1. accounts'[o] = row
      BY <1>9, <1>14, <2>1, <2>4
    <3> QED BY <2>1, <2>2, <2>4, <3>1
  <2> QED BY <2>3, <2>4
<1>15. accounts'[p] = new
  BY <1>9
<1>16. accounts[p].image = 0 /\ accounts[p].balance = 0 /\ accounts[p].name = NoName
           /\ referrals[p] = NoReferral
       /\ referrals[p].referrer = NoName /\ income[p].count = 0
  BY <1>12 DEF Blank, NoAccount, NoReferral
<1>17. ASSUME NEW q \in R
       PROVE  R = {q} /\ q # p /\ q \in Persons /\ CreateReferral(p, q)
  BY <1>4, <1>9, <1>13
<1>18. Books'
  <2>1. Referred'
    <3>1. CASE R = {}
      BY <1>9, <3>1 DEF AccountsInv, Books, Referred
    <3>2. CASE R # {}
      <4>1. PICK q \in R : TRUE
        BY <3>2
      <4>2. CreateReferral(p, q) /\ q \in Persons
        BY <1>17
      <4>3. referrals'[p].referrer = q /\ \A o \in Persons \ {p} : referrals'[o] = referrals[o]
        BY <1>11, <4>2, ReferralRows
      <4> QED BY <4>2, <4>3, NoNameIsNobody DEF AccountsInv, Books, Referred
    <3> QED BY <3>1, <3>2
  <2>2. Absent'
    <3>1. ASSUME NEW o \in Persons, ~HasAccount(o)' PROVE Blank(o)'
      <4>1. o # p
        BY <1>7, <1>8, <1>15, <3>1 DEF HasAccount
      <4>2. ~HasAccount(o)
        BY <1>14, <3>1, <4>1 DEF HasAccount
      <4>3. o \notin R /\ Blank(o)
        BY <1>4, <4>2 DEF AccountsInv, Books, Absent
      <4>4. accounts'[o] = accounts[o]
        BY <1>14, <4>1, <4>3
      <4>5. CASE R = {}
        BY <1>9, <4>3, <4>4, <4>5 DEF Blank
      <4>6. CASE R # {}
        <5>1. PICK q \in R : TRUE
          BY <4>6
        <5>2. CreateReferral(p, q) /\ q \in Persons /\ q # o
          BY <1>17, <4>3
        <5>3. /\ referrals'[p].referrer = q /\ \A x \in Persons \ {p} : referrals'[x] = referrals[x]
              /\ \A x \in Persons \ {q} : income'[x] = income[x]
          BY <1>11, <5>2, ReferralRows
        <5> QED BY <1>9, <4>1, <4>3, <4>4, <5>2, <5>3 DEF Blank
      <4> QED BY <4>5, <4>6
    <3> QED BY <3>1 DEF Absent
  <2>3. Named'
    <3>1. ASSUME NEW o \in Persons, HasAccount(o)'
          PROVE  /\ accounts'[o].id \in keys /\ accounts'[o].name # NoName
                 /\ \A x \in Persons \ {o} : accounts'[x].name # accounts'[o].name
      <4>1. CASE o = p
        BY <1>4, <1>7, <1>9, <1>14, <1>15, <4>1 DEF NameFree
      <4>2. CASE o # p
        <5>1. HasAccount(o)
          BY <1>14, <3>1, <4>2 DEF HasAccount
        <5>2. /\ accounts[o].id \in keys /\ accounts[o].name # NoName
              /\ \A x \in Persons \ {o} : accounts[x].name # accounts[o].name
          BY <5>1 DEF AccountsInv, Books, Named
        <5>3. \A x \in Persons \ {o} : accounts'[x].name # accounts'[o].name
          BY <1>9, <1>14, <1>15, <4>2, <5>2 DEF NameFree
        <5> QED BY <1>14, <4>2, <5>2, <5>3
      <4> QED BY <4>1, <4>2
    <3> QED BY <1>9, <3>1 DEF Named
  <2>4. StatsAddUp'
    <3>1. CASE R = {}
      <4>1. UNCHANGED <<referrals, income>>
        BY <1>9, <3>1
      <4> QED BY <4>1 DEF AccountsInv, Books, StatsAddUp, UserReferrals
    <3>2. CASE R # {}
      BY <1>11, <1>16, <1>17, <3>2, StatsWithReferral DEF AccountsInv
    <3> QED BY <3>1, <3>2
  <2>5. PointsMatchHistory'
    <3>1. ASSUME NEW o \in Persons \ rewound'
          PROVE  accounts'[o].balance = Granted(o)'
                     + DuckPointsTransferHistory(o)'.received - DuckPointsTransferHistory(o)'.sent
      <4>1. DuckPointsTransferHistory(o)' = DuckPointsTransferHistory(o)
        BY <1>9 DEF DuckPointsTransferHistory
      <4>2. accounts[o].balance = Granted(o)
                + DuckPointsTransferHistory(o).received - DuckPointsTransferHistory(o).sent
        BY <1>9, <3>1 DEF AccountsInv, Books, PointsMatchHistory
      <4>3. DuckPointsTransferHistory(o).received \in Int
                /\ DuckPointsTransferHistory(o).sent \in Int /\ Granted(o) \in Int
        BY <1>11, HistoryType
      <4>4. accounts'[o].balance - accounts[o].balance = Granted(o)' - Granted(o)
                /\ accounts'[o].balance \in Int /\ accounts[o].balance \in Int
            /\ Granted(o)' \in Int
        <5>1. accounts'[o].balance \in Int /\ accounts[o].balance \in Int
          BY <1>11, RowFields DEF RowsTyped
        <5>2. CASE R = {}
          <6>1. Granted(o)' = Granted(o)
            BY <1>9, <5>2 DEF Granted
          <6>2. accounts'[o].balance = accounts[o].balance
            BY <1>7, <1>14, <1>15, <1>16, <5>1, <5>2
          <6> QED BY <4>3, <5>1, <6>1, <6>2
        <5>3. CASE R # {}
          <6>1. PICK q \in R : TRUE
            BY <5>3
          <6>2. CreateReferral(p, q) /\ q \in Persons /\ q # p /\ R = {q}
            BY <1>17
          <6>3. /\ referrals'[p] # NoReferral
                       /\ \A x \in Persons \ {p} : referrals'[x] = referrals[x]
                /\ \A x \in Persons \ {q} : income'[x] = income[x]
                /\ income'[q].count = income[q].count + 1
            BY <1>11, <6>2, ReferralRows
          <6>4. PICK k \in Nat : k = income[o].count
            BY <1>11, RowFields DEF RowsTyped
          <6>5. CASE o = p
            <7>1. Granted(o) = InvitationReward * 0 /\ Granted(o)' = InvitationReward * 1
              BY <1>16, <6>2, <6>3, <6>5 DEF Granted
            <7>2. accounts'[o].balance = InvitationReward /\ accounts[o].balance = 0
              BY <1>7, <1>15, <1>16, <5>3, <6>5
            <7> QED BY <7>1, <7>2
          <6>6. CASE o = q
            <7>1. referrals'[o] = referrals[o] /\ income'[o].count = k + 1
              BY <6>2, <6>3, <6>4, <6>6
            <7>2. PICK e \in {0, 1} : e = IF referrals[o] = NoReferral THEN 0 ELSE 1
              OBVIOUS
            <7>3. Granted(o) = InvitationReward * (k + e)
                      /\ Granted(o)' = InvitationReward * (k + 1 + e)
              BY <6>4, <7>1, <7>2 DEF Granted
            <7>4. InvitationReward * (k + 1 + e) = InvitationReward * (k + e) + InvitationReward
              OBVIOUS
            <7>5. accounts'[o].balance = accounts[o].balance + InvitationReward
              BY <1>14, <6>2, <6>6
            <7>6. InvitationReward * (k + 1 + e) \in Int /\ InvitationReward * (k + e) \in Int
              OBVIOUS
            <7>7. PICK a \in Int : a = InvitationReward * (k + e) /\ Granted(o) = a
              BY <7>3, <7>6
            <7>8. PICK b \in Int : b = InvitationReward * (k + 1 + e) /\ Granted(o)' = b
              BY <7>3, <7>6
            <7>9. b = a + InvitationReward
              BY <7>4, <7>7, <7>8
            <7>10. Granted(o)' - Granted(o) = InvitationReward /\ Granted(o)' \in Int
              BY <7>7, <7>8, <7>9
            <7> QED BY <5>1, <7>5, <7>10
          <6>7. CASE o # p /\ o # q
            <7>1. Granted(o)' = Granted(o)
              BY <6>3, <6>7 DEF Granted
            <7>2. accounts'[o].balance = accounts[o].balance
              BY <1>14, <5>1, <6>2, <6>7
            <7> QED BY <4>3, <5>1, <7>1, <7>2
          <6> QED BY <6>5, <6>6, <6>7
        <5> QED BY <5>2, <5>3
      <4>5. PICK u \in Int, v \in Int : u = Granted(o) /\ v = Granted(o)'
        BY <4>3, <4>4
      <4>6. PICK h : h = DuckPointsTransferHistory(o)
        OBVIOUS
      <4>7. /\ accounts'[o].balance - accounts[o].balance = v - u
            /\ accounts[o].balance = u + h.received - h.sent
            /\ h.received \in Int /\ h.sent \in Int
        BY <4>2, <4>3, <4>4, <4>5, <4>6
      <4>8. accounts'[o].balance = v + h.received - h.sent
        BY <4>4, <4>7
      <4> QED BY <4>1, <4>5, <4>6, <4>8
    <3> QED BY <3>1 DEF PointsMatchHistory
  <2> QED BY <1>11, <2>1, <2>2, <2>3, <2>4, <2>5 DEF Books
<1>19. CallsHold'
  <2>1. Lasts
    BY <1>9, <1>14 DEF Lasts, HasAccount
  <2> QED BY <1>9, <1>10, <2>1, CallsTurn, NoCallSound, UploadsRest DEF AccountsInv
<1>20. FriendCallsFewer /\ CopiesRest
  BY <1>4, <1>10, TurnAtCalls, NoCallSound DEF AccountsInv
<1>21. FriendsHold'
  <2>1. ASSUME NEW o \in Persons, referrals[o].referrer \in Persons
        PROVE  referrals'[o].referrer = referrals[o].referrer
    <3>1. o # p
      BY <1>16, <2>1, NoNameIsNobody
    <3>2. CASE R = {}
      BY <1>9, <3>2
    <3>3. CASE R # {}
      BY <1>11, <1>17, <3>1, <3>3, ReferralRows
    <3> QED BY <3>2, <3>3
  <2> QED BY <1>9, <1>11, <1>20, <2>1, FriendsRest DEF AccountsInv
<1>22. PicturesHold'
  <2>1. \A o \in Persons : accounts'[o].image = accounts[o].image
    BY <1>7, <1>14, <1>15, <1>16
  <2> QED BY <1>9, <1>20, <2>1, PicturesRest DEF AccountsInv
<1> QED
  BY <1>18, <1>19, <1>21, <1>22 DEF AccountsInv

\* The invariant is inductive.
LEMMA InvInit == AccountsInit => AccountsInv
<1> SUFFICES ASSUME AccountsInit PROVE AccountsInv
  OBVIOUS
<1>1. RowsTyped /\ CallsTyped
  BY TypesInit
<1>2. \A p \in Persons : accounts[p] = NoAccount /\ referrals[p] = NoReferral
        /\ income[p].count = 0 /\ income[p].dp = 0 /\ income[p].usdc = 0 /\ joined[p] = 0
               /\ friendTask[p] = 0
        /\ \A q \in Persons : transfers[p][q] = 0
  BY DEF AccountsInit
<1>3. \A r \in Calls : call[r] = NoCall /\ call[r].at = "free"
  BY DEF AccountsInit, NoCall
<1>4. NoAccount.id = 0 /\ NoAccount.image = 0 /\ NoAccount.balance = 0
          /\ NoReferral.referrer = NoName
  BY DEF NoAccount, NoReferral
<1>5. \A q \in Persons : UserReferrals(q) = {}
  BY <1>2, <1>4, NoNameIsNobody DEF UserReferrals
<1>6. Absent /\ Referred /\ Named
  BY <1>2, <1>4, NoNameIsNobody DEF Absent, Referred, Named, HasAccount, Blank
<1>7. StatsAddUp
  BY <1>2, <1>5, FS_EmptySet, SumOfNothing DEF StatsAddUp
<1>8. PointsMatchHistory
  <2>1. ASSUME NEW p \in Persons
        PROVE  accounts[p].balance = Granted(p)
                   + DuckPointsTransferHistory(p).received - DuckPointsTransferHistory(p).sent
    <3>1. PICK k \in Nat : k = Cardinality(Persons)
      BY FS_CardinalityType
    <3>2. PICK f : f = [s \in Persons |-> transfers[s][p]]
      OBVIOUS
    <3>3. PICK g : g = transfers[p]
      OBVIOUS
    <3>4. (\A x \in Persons : f[x] = 0) /\ (\A x \in Persons : g[x] = 0)
      BY <1>2, <3>2, <3>3
    <3>5. SumFunctionOnSet(f, Persons) = k * 0 /\ SumFunctionOnSet(g, Persons) = k * 0
      BY <3>1, <3>4, SumOfConstant
    <3>6. k * 0 = 0
      OBVIOUS
    <3>7. DuckPointsTransferHistory(p).received = 0 /\ DuckPointsTransferHistory(p).sent = 0
      BY <3>2, <3>3, <3>5, <3>6 DEF DuckPointsTransferHistory
    <3>8. Granted(p) = InvitationReward * 0
      BY <1>2 DEF Granted
    <3>9. Granted(p) = 0
      BY <3>8
    <3> QED BY <1>2, <1>4, <3>7, <3>9
  <2> QED BY <2>1 DEF PointsMatchHistory
<1>9. CallsSound
  BY <1>3 DEF CallsSound, CallSound
<1>10. FriendsHold
  <2>1. \A q \in Persons : Friends(q) = {}
    BY <1>5 DEF Friends
  <2>2. OneFirstJoin
    BY <1>2 DEF OneFirstJoin
  <2>3. Cardinality({}) = 0
    BY FS_EmptySet
  <2>4. FriendsCounted
    <3>1. ASSUME NEW q \in Persons PROVE friendTask[q] <= Cardinality(Friends(q))
      <4>1. Cardinality(Friends(q)) = 0
        BY <2>1, <2>3, Zenon
      <4>2. friendTask[q] = 0
        BY <1>2
      <4> QED BY <4>1, <4>2
    <3> QED BY <3>1 DEF FriendsCounted
  <2> QED BY <2>2, <2>4 DEF FriendsHold
<1>11. PicturesHold
  <2>1. uploads = 0
    BY DEF AccountsInit
  <2> QED BY <1>2, <1>3, <1>4, <2>1 DEF PicturesHold, PicturesOwned, SavedFresh, Saved,
             Copies, PicturesShown
<1> QED
  BY <1>1, <1>6, <1>7, <1>8, <1>9, <1>10, <1>11 DEF AccountsInv, Books, CallsHold

LEMMA InvStutter ==
  ASSUME AccountsInv, UNCHANGED accountsVars
  PROVE  AccountsInv'
<1>1. Books'
  BY BooksRest DEF AccountsInv, accountsVars
<1>2. CallsHold'
  <2>1. Lasts
    BY DEF Lasts, accountsVars
  <2> QED BY <2>1, CallsTurn, UploadsRest DEF AccountsInv, accountsVars
<1>3. FriendsHold'
  BY FriendsRest DEF AccountsInv, accountsVars, Books, FriendCallsFewer
<1>4. PicturesHold'
  BY PicturesRest DEF AccountsInv, accountsVars, CopiesRest
<1> QED
  BY <1>1, <1>2, <1>3, <1>4 DEF AccountsInv

\* What it says of every state.
LEMMA InvHolds == AccountsInv => AccountsHold /\ AccountsTypeOK
<1> SUFFICES ASSUME AccountsInv PROVE AccountsHold /\ AccountsTypeOK
  OBVIOUS
<1>1. RowsTyped /\ CallsTyped
  BY DEF AccountsInv, Books, CallsHold
<1>2. ASSUME NEW q \in Persons
      PROVE friendTask[q] <= Cardinality({p \in UserReferrals(q) : joined[p] > 0})
  <2>1. PICK S : S = {p \in UserReferrals(q) : joined[p] > 0}
    OBVIOUS
  <2>2. IsFiniteSet(S)
    <3>1. S \subseteq Persons
      BY <2>1 DEF UserReferrals
    <3> QED BY <3>1, FS_Subset
  <2>3. Friends(q) \subseteq S
    BY <2>1 DEF Friends
  <2>4. Cardinality(Friends(q)) <= Cardinality(S) /\ IsFiniteSet(Friends(q))
    BY <2>2, <2>3, FS_Subset
  <2>5. Cardinality(Friends(q)) \in Nat /\ Cardinality(S) \in Nat
    BY <2>2, <2>4, FS_CardinalityType
  <2>6. friendTask[q] \in Nat /\ friendTask[q] <= Cardinality(Friends(q))
    BY <1>1 DEF RowsTyped, AccountsInv, FriendsHold, FriendsCounted
  <2> QED BY <2>1, <2>4, <2>5, <2>6
<1>3. ReferralsAddUp
  BY <1>2 DEF ReferralsAddUp, ReferralStats, AccountsInv, Books, StatsAddUp
<1>4. AccountsTypeOK
  <2>1. ASSUME NEW p \in Persons
        PROVE  accounts[p].balance \in Nat /\ accounts[p].name \in Names \cup Persons \cup {NoName}
    BY <1>1, RowFields DEF RowsTyped, Called
  <2>2. ASSUME NEW p \in Persons
        PROVE  /\ HasAccount(p) => accounts[p].id \in keys
               /\ \A q \in Persons \ {p} : accounts[p].name = accounts[q].name => ~HasAccount(p)
    BY DEF AccountsInv, Books, Named
  <2> QED BY <1>1, <2>1, <2>2 DEF AccountsTypeOK, CallsTyped
<1> QED
  BY <1>3, <1>4 DEF AccountsHold, AccountsInv, Books, PicturesHold

LEMMA InvNext ==
  ASSUME AccountsInv, [AccountsNext]_accountsVars
  PROVE  AccountsInv'
<1>1. CASE UNCHANGED accountsVars
  BY <1>1, InvStutter
<1>2. ASSUME NEW p \in Persons, NEW r \in Calls,
             \/ \E token \in Persons \cup Strangers : SignIn(r, p, token)
             \/ \E t \in Persons, n \in Amounts : TransferDuckPoints(r, p, t, n)
             \/ ReferrerWallet(r, p)
             \/ JoinsDuel(r, p)
             \/ UpdateProfilePicture(r, p)
             \/ ReadWholeUser(r, p)
      PROVE  AccountsInv'
  BY <1>2, KeepsSignIn, KeepsTransfer, KeepsReferrerWallet, KeepsJoinsDuel, KeepsRead
<1>3. ASSUME NEW r \in Calls,
             \/ WritePrivateKey(r) \/ CreateUser(r)
             \/ TransferCommit(r)
             \/ UpdateReferrerUSDCIncome(r)
             \/ CompleteReferAFriendTask(r)
             \/ RemoveUserFile(r) \/ SaveUserProfilePicture(r)
             \/ WriteUser(r)
             \/ CallFails(r)
      PROVE  AccountsInv'
  BY <1>3, KeepsWritePrivateKey, KeepsCreateUser, KeepsTransferCommit, KeepsUSDCIncome,
     KeepsReferAFriend,
     KeepsRemoveUserFile, KeepsSavePicture, KeepsWriteUser, KeepsCallFails
<1>4. ASSUME NEW p \in Persons,
             \/ UpdateReferrerDPIncome(p)
             \/ CommissionEnds(p)
             \/ \E n \in Names : ChangeUsername(p, n)
      PROVE  AccountsInv'
  BY <1>4, KeepsDPIncome, KeepsCommissionEnds, KeepsChangeUsername
<1> QED
  BY <1>1, <1>2, <1>3, <1>4 DEF AccountsNext

\* Balances are what was granted, received and sent; a referrer's columns are what his
\* referrals add up to, and the friends that counted for him have joined a duel; and an
\* account shows a picture that is there: for any persons, names, amounts and rewards,
\* however many requests run side by side (createUser, TransferDuckPoints, the queries of
\* referral.go, UpdateProfilePicture, completeReferAFriendTask).
THEOREM AccountsAgree == AccountsSpec => []AccountsHold
<1>1. AccountsInit => AccountsInv
  BY InvInit
<1>2. AccountsInv /\ [AccountsNext]_accountsVars => AccountsInv'
  BY InvNext
<1>3. AccountsInv => AccountsHold
  BY InvHolds
<1> QED
  BY <1>1, <1>2, <1>3, PTL DEF AccountsSpec

\* No balance is negative, whatever the amounts; an account has a key in Vault, and its
\* name is its own (createUser, ChangeUsername).
THEOREM NamesAndKeysAgree == AccountsSpec => []AccountsTypeOK
<1>1. AccountsInit => AccountsInv
  BY InvInit
<1>2. AccountsInv /\ [AccountsNext]_accountsVars => AccountsInv'
  BY InvNext
<1>3. AccountsInv => AccountsTypeOK
  BY InvHolds
<1> QED
  BY <1>1, <1>2, <1>3, PTL DEF AccountsSpec

-----------------------------------------------------------------------------
(***************************************************************************)
(* Tournaments.  The invariant says that records, participants and rewards *)
(* are each made by one statement that keeps them in step; a request at    *)
(* any of its steps holds a duel, a tournament and users there are.        *)
(***************************************************************************)
HIDE AccountsAssumption DEF NoName, DefaultIcon

Record == [total : Nat, victories : Nat, spent : Nat, earned : Nat, pnl : Int]
Playing == [at : {"join"}, u : Contestants, d : Contests, t : Tournaments \cup {NoTournament}]
Settling == [at : {"resolve"}, d : Contests, t : Tournaments \cup {NoTournament},
             winners : (SUBSET Contestants) \ {{}}]

\* Columns and what requests hold keep to their domains.
BoardTyped ==
    /\ board \in [Places -> Record]
    /\ entered \in [Places -> Nat] /\ unseated \in [Places -> Nat]
    /\ taken \in [Contests -> [Contestants -> Nat]]
    /\ contest \in [Contests -> [tournament : Tournaments \cup {NoTournament}, open : BOOLEAN]]
    /\ participants \in [Tournaments -> SUBSET Contestants]
    /\ playersCount \in [Tournaments -> Nat]
    /\ prizes \in [Tournaments -> RewardLists \cup {<< >>}]
    /\ job \in [Organisers -> {NoJob} \cup Playing \cup Settling]

\* Stored rewards were checked.
PrizesValid == \A t \in Created : Valid(prizes[t])

\* A record is made by a duel, and a participant has one.
RecordsPlayed == \A p \in Places : board[p] # NoPlace => board[p].total > 0
ParticipantsPlayed ==
    \A t \in Tournaments : \A u \in participants[t] : \E k \in Kinds : board[<<t, u, k>>].total > 0

ParticipantsCounted == \A t \in Tournaments : playersCount[t] = Cardinality(participants[t])

TournamentInv ==
    /\ BoardTyped /\ PrizesValid /\ RecordsPlayed /\ ParticipantsPlayed
    /\ ParticipantsCounted /\ BoardAddsUp

-----------------------------------------------------------------------------
(* Ranks and rewards *)

\* What rewards are, and what their check says of neighbours.
LEMMA RewardFields ==
  ASSUME NEW rs \in RewardLists
  PROVE  /\ Len(rs) \in Nat /\ DOMAIN rs = 1..Len(rs)
         /\ \A j \in DOMAIN rs : j \in Nat /\ rs[j].from \in Nat /\ rs[j].to \in Nat
<1>1. rs \in Seq([from : Nat, to : Nat])
  BY TournamentAssumption
<1>2. Len(rs) \in Nat /\ DOMAIN rs = 1..Len(rs)
  BY <1>1
<1>3. ASSUME NEW j \in 1..Len(rs) PROVE j \in Nat /\ rs[j].from \in Nat /\ rs[j].to \in Nat
  <2>1. PICK range : range = [from : Nat, to : Nat]
    OBVIOUS
  <2>2. rs \in Seq(range)
    BY <1>1, <2>1
  <2>3. rs[j] \in range
    BY <1>2, <2>2
  <2> QED BY <1>2, <2>1, <2>3
<1> QED BY <1>2, <1>3

\* A range of checked rewards begins where the one before it ends.
LEMMA Neighbours ==
  ASSUME NEW rs \in RewardLists, Valid(rs), NEW j \in DOMAIN rs, j # 1
  PROVE  /\ j - 1 \in DOMAIN rs /\ rs[j].from = rs[j - 1].to + 1
         /\ rs[j - 1].from <= rs[j - 1].to
<1>1. Len(rs) \in Nat /\ DOMAIN rs = 1..Len(rs)
  BY RewardFields
<1>2. j > 1 /\ j - 1 \in DOMAIN rs
  BY <1>1
<1> QED BY <1>2 DEF Valid

\* The ranges of checked rewards follow each other, whichever two are compared.
LEMMA RangesInOrder ==
  ASSUME NEW rs \in RewardLists, Valid(rs),
         NEW i \in DOMAIN rs
  PROVE  \A j \in DOMAIN rs : i < j => rs[i].to < rs[j].from
<1>1. DOMAIN rs = 1..Len(rs) /\ Len(rs) \in Nat
  BY RewardFields
<1>2. \A j \in DOMAIN rs : rs[j].from \in Nat /\ rs[j].to \in Nat
  BY RewardFields
<1> DEFINE Bad == {j \in DOMAIN rs : i < j /\ ~ (rs[i].to < rs[j].from)}
<1>3. SUFFICES ASSUME Bad # {} PROVE FALSE
  OBVIOUS
<1>4. PICK j \in Bad : \A m \in Bad : j <= m
  <2>1. Bad \in SUBSET Nat
    BY <1>1
  <2> HIDE DEF Bad
  <2> QED BY <1>3, <2>1, Smallest
<1>5. /\ j \in 1..Len(rs) /\ i \in 1..Len(rs) /\ i < j
      /\ ~ (rs[i].to < rs[j].from)
  BY <1>1, <1>4
<1>6. rs[j].from = rs[j - 1].to + 1 /\ rs[j - 1].from <= rs[j - 1].to /\ j - 1 \in DOMAIN rs
  <2>1. j \in DOMAIN rs /\ j # 1
    BY <1>1, <1>5
  <2> HIDE DEF Bad
  <2> QED BY <2>1, Neighbours
<1>7. i # j - 1
  BY <1>2, <1>5, <1>6
<1>8. rs[i].to < rs[j - 1].from
  <2>1. j - 1 \notin Bad
    BY <1>4, <1>5, <1>6
  <2> QED BY <1>1, <1>5, <1>6, <1>7, <2>1
<1> QED
  BY <1>2, <1>5, <1>6, <1>8

\* A rank is in one range at most.
LEMMA OneReward ==
  ASSUME NEW rs \in RewardLists, Valid(rs), NEW rank \in Int
  PROVE  \A i, j \in DOMAIN rs :
            rank \in rs[i].from..rs[i].to /\ rank \in rs[j].from..rs[j].to => i = j
<1>1. \A i \in DOMAIN rs : i \in Nat /\ rs[i].from \in Nat /\ rs[i].to \in Nat
  BY RewardFields
<1>2. \A i, j \in DOMAIN rs : i < j => rs[i].to < rs[j].from
  BY RangesInOrder
<1>3. ASSUME NEW i \in DOMAIN rs, NEW j \in DOMAIN rs, i < j,
             rank \in rs[i].from..rs[i].to, rank \in rs[j].from..rs[j].to
      PROVE  FALSE
  BY <1>1, <1>2, <1>3
<1> QED
  <2>1. \A i, j \in DOMAIN rs : i = j \/ i < j \/ j < i
    BY <1>1
  <2> QED BY <1>3, <2>1

\* Between the first range and the last no rank is left out.
LEMMA NoGap ==
  ASSUME NEW rs \in RewardLists, Valid(rs), NEW rank \in Int,
         \A i \in DOMAIN rs : rank \notin rs[i].from..rs[i].to,
         rs[1].from <= rank
  PROVE  \A i \in DOMAIN rs : rs[i].to < rank
<1>1. DOMAIN rs = 1..Len(rs) /\ Len(rs) \in Nat
  BY RewardFields
<1>2. \A i \in DOMAIN rs : rs[i].from \in Nat /\ rs[i].to \in Nat
  BY RewardFields
<1> DEFINE Bad == {i \in DOMAIN rs : ~ (rs[i].to < rank)}
<1>3. SUFFICES ASSUME Bad # {} PROVE FALSE
  OBVIOUS
<1>4. PICK i \in Bad : \A m \in Bad : i <= m
  <2>1. Bad \in SUBSET Nat
    BY <1>1
  <2> HIDE DEF Bad
  <2> QED BY <1>3, <2>1, Smallest
<1>5. i \in 1..Len(rs) /\ ~ (rs[i].to < rank)
  BY <1>1, <1>4
<1>6. rank < rs[i].from
  BY <1>1, <1>2, <1>5
<1>7. i # 1
  BY <1>1, <1>2, <1>5, <1>6
<1>8. rs[i].from = rs[i - 1].to + 1 /\ i - 1 \in DOMAIN rs
  BY <1>1, <1>5, <1>7, Neighbours
<1>9. rs[i - 1].to < rank
  <2>1. i - 1 \notin Bad
    BY <1>4, <1>5, <1>8
  <2> QED BY <1>8, <2>1
<1> QED
  BY <1>2, <1>5, <1>6, <1>8, <1>9

-----------------------------------------------------------------------------
(* The leaderboard *)

\* The fields of a record.
LEMMA RecordFields ==
  ASSUME NEW row \in Record
  PROVE  /\ row.total \in Nat /\ row.victories \in Nat /\ row.spent \in Nat
         /\ row.earned \in Nat /\ row.pnl \in Int
BY DEF Record

\* A record that says nothing.
LEMMA NoPlaceFields ==
  /\ NoPlace \in Record /\ NoPlace.total = 0 /\ NoPlace.earned = 0 /\ NoPlace.spent = 0
  /\ NoPlace.pnl = 0
BY DEF NoPlace, Record

\* The statement that spends: one record goes up by a duel and its price.
LEMMA SpentRecord ==
  ASSUME BoardTyped, NEW t \in Tournaments, NEW u \in Contestants, NEW k \in Kinds,
         NEW p, p = <<t, u, k>>, board' = AlterLeaderboardSpent(u, t, k)
  PROVE  /\ p \in Places /\ board' \in [Places -> Record]
         /\ board'[p].total = board[p].total + 1
         /\ board'[p].spent = board[p].spent + DuelPrice
         /\ board'[p].pnl = board[p].pnl - DuelPrice
         /\ board'[p].earned = board[p].earned
         /\ \A q \in Places \ {p} : board'[q] = board[q]
<1>1. p \in Places /\ board \in [Places -> Record] /\ DuelPrice \in Nat
  BY TournamentAssumption DEF BoardTyped, Places
<1>2. PICK row \in Record : row = board[p]
  BY <1>1
<1>3. /\ \E n \in Nat : n = row.total + 1
      /\ \E m \in Nat : m = row.spent + DuelPrice
      /\ \E x \in Int : x = row.pnl - DuelPrice
  BY <1>1, RecordFields
<1>4. PICK n \in Nat, m \in Nat, x \in Int :
         n = row.total + 1 /\ m = row.spent + DuelPrice /\ x = row.pnl - DuelPrice
  BY <1>3
<1>6. PICK new : new = [row EXCEPT !.total = n, !.spent = m, !.pnl = x]
  OBVIOUS
<1>7. new \in Record /\ new.total = n /\ new.spent = m /\ new.pnl = x /\ new.earned = row.earned
  BY <1>6 DEF Record
<1>5. board' = [board EXCEPT ![p] = new]
  <2>1. /\ DefaultTournamentLeaderboardRecord.total = 1
        /\ DefaultTournamentLeaderboardRecord.spent = DuelPrice
    BY DEF DefaultTournamentLeaderboardRecord, NoPlace
  <2> QED BY <1>2, <1>4, <1>6, <2>1 DEF AlterLeaderboardSpent
<1> QED
  BY <1>1, <1>2, <1>4, <1>5, <1>7

\* The statement that earns: records of winners, if they have one, and no others.
LEMMA EarnedRecord ==
  ASSUME BoardTyped, NEW t, NEW k, NEW W, NEW amount \in Nat,
         board' = AlterLeaderboardEarned(t, k, W, amount)
  PROVE  /\ board' \in [Places -> Record]
         /\ \A p \in Places :
              \/ board'[p] = board[p]
              \/ /\ board[p] # NoPlace
                 /\ board'[p].total = board[p].total /\ board'[p].spent = board[p].spent
                 /\ board'[p].earned = board[p].earned + amount
                 /\ board'[p].pnl = board[p].pnl + amount
<1>1. board \in [Places -> Record]
  BY DEF BoardTyped
<1>2. ASSUME NEW p \in Places
      PROVE  /\ board'[p] \in Record
             /\ \/ board'[p] = board[p]
                \/ /\ board[p] # NoPlace
                   /\ board'[p].total = board[p].total /\ board'[p].spent = board[p].spent
                   /\ board'[p].earned = board[p].earned + amount
                   /\ board'[p].pnl = board[p].pnl + amount
  <2>1. PICK row \in Record : row = board[p]
    BY <1>1
  <2>2. /\ \E n \in Nat : n = row.victories + 1
        /\ \E m \in Nat : m = row.earned + amount
        /\ \E x \in Int : x = row.pnl + amount
    BY RecordFields
  <2>3. PICK n \in Nat, m \in Nat, x \in Int :
           n = row.victories + 1 /\ m = row.earned + amount /\ x = row.pnl + amount
    BY <2>2
  <2>4. PICK new : new = [row EXCEPT !.victories = n, !.earned = m, !.pnl = x]
    OBVIOUS
  <2>5. /\ new \in Record /\ new.total = row.total /\ new.spent = row.spent
        /\ new.earned = m /\ new.pnl = x
    BY <2>4 DEF Record
  <2>6. board'[p] = row \/ (board'[p] = new /\ board[p] # NoPlace)
    BY <2>1, <2>3, <2>4 DEF AlterLeaderboardEarned
  <2> QED BY <2>1, <2>3, <2>5, <2>6
<1>3. board' = [p \in Places |-> board'[p]]
  BY DEF AlterLeaderboardEarned
<1> QED
  BY <1>2, <1>3

-----------------------------------------------------------------------------
(* The invariant *)

\* Nothing is created and nobody plays.
LEMMA TournamentStarts == TournamentInit => TournamentInv
<1> SUFFICES ASSUME TournamentInit PROVE TournamentInv
  OBVIOUS
<1>1. BoardTyped
  BY NoPlaceFields DEF TournamentInit, BoardTyped
<1>2. PrizesValid /\ RecordsPlayed /\ ParticipantsPlayed
  BY DEF TournamentInit, PrizesValid, Created, RecordsPlayed, ParticipantsPlayed
<1>3. ParticipantsCounted
  BY FS_EmptySet DEF TournamentInit, ParticipantsCounted
<1>4. BoardAddsUp
  BY TournamentAssumption, NoPlaceFields DEF TournamentInit, BoardAddsUp
<1> QED
  BY <1>1, <1>2, <1>3, <1>4 DEF TournamentInv

\* What leaves participants, records and rewards alone leaves the promises alone.
LEMMA TournamentRest ==
  ASSUME TournamentInv, BoardTyped',
         UNCHANGED <<prizes, participants, playersCount, board, entered, unseated>>
  PROVE  TournamentInv'
<1>1. PrizesValid' /\ RecordsPlayed' /\ ParticipantsPlayed' /\ ParticipantsCounted' /\ BoardAddsUp'
  BY DEF TournamentInv, PrizesValid, Created, RecordsPlayed, ParticipantsPlayed,
         ParticipantsCounted, BoardAddsUp
<1> QED
  BY <1>1 DEF TournamentInv

\* A request reads a duel and begins, or gives up.
LEMMA JobsTyped ==
  ASSUME BoardTyped, NEW o \in Organisers, NEW next \in {NoJob} \cup Playing \cup Settling,
         job' = [job EXCEPT ![o] = next],
         UNCHANGED <<prizes, participants, playersCount, board, entered, unseated, contest, taken>>
  PROVE  BoardTyped'
BY DEF BoardTyped

\* What a request holds at each step.
LEMMA JobKinds ==
  ASSUME BoardTyped, NEW o \in Organisers
  PROVE  /\ job[o].at = "join" => job[o] \in Playing
         /\ job[o].at = "resolve" => job[o] \in Settling
<1>1. PICK c \in {NoJob} \cup Playing \cup Settling : c = job[o]
  BY DEF BoardTyped
<1>2. /\ NoJob.at = "free"
      /\ \A x \in Playing : x.at = "join"
      /\ \A x \in Settling : x.at = "resolve"
  BY DEF NoJob, Playing, Settling
<1> QED BY <1>1, <1>2

\* Seats are taken by users.
LEMMA SeatedAreContestants == \A d \in Contests : Seated(d) \subseteq Contestants
BY DEF Seated

\* A settlement shares out a number of points.
LEMMA ShareIsNumber ==
  ASSUME BoardTyped, NEW d \in Contests, NEW W \in (SUBSET Contestants) \ {{}}
  PROVE  (DuelPrice * Seats(d)) \div Cardinality(W) \in Nat
<1>1. taken[d] \in [Contestants -> Nat] /\ IsFiniteSet(Contestants) /\ DuelPrice \in Nat
  BY TournamentAssumption DEF BoardTyped
<1>2. PICK zero : zero = [u \in Contestants |-> 0]
  OBVIOUS
<1>3. IntOn(taken[d], Contestants) /\ IntOn(zero, Contestants)
  BY <1>1, <1>2 DEF IntOn
<1>4. SumFunctionOnSet(zero, Contestants) = Cardinality(Contestants) * 0
  BY <1>1, <1>2, SumOfConstant
<1>5. SumFunctionOnSet(zero, Contestants) = 0
  BY <1>1, <1>4, FS_CardinalityType
<1>6. SumFunctionOnSet(zero, Contestants) <= SumFunctionOnSet(taken[d], Contestants)
  <2>1. \A u \in Contestants : zero[u] <= taken[d][u]
    BY <1>1, <1>2
  <2> QED BY <1>1, <1>3, <2>1, SumMonotonic
<1>7. Seats(d) \in Nat
  <2>1. SumFunctionOnSet(taken[d], Contestants) \in Int
    BY <1>1, <1>3, SumInt
  <2> QED BY <1>5, <1>6, <2>1 DEF Seats
<1>8. Cardinality(W) \in Nat \ {0}
  <2>1. IsFiniteSet(W)
    BY <1>1, FS_Subset
  <2> QED BY <2>1, FS_CardinalityType, FS_EmptySet
<1>9. PICK x \in Nat : x = DuelPrice * Seats(d)
  BY <1>1, <1>7, Product
<1> QED
  BY <1>8, <1>9, DivBound

-----------------------------------------------------------------------------
(* The steps *)

\* A tournament is stored with rewards that were checked.
LEMMA CreatesTournament ==
  ASSUME TournamentInv, NEW t \in Tournaments, NEW rs \in RewardLists, CreateTournament(t, rs)
  PROVE  TournamentInv'
<1>1. /\ Valid(rs) /\ prizes' = [prizes EXCEPT ![t] = rs]
      /\ UNCHANGED <<contest, taken, participants, playersCount, board, entered, unseated, job>>
  BY DEF CreateTournament
<1>2. BoardTyped'
  BY <1>1 DEF TournamentInv, BoardTyped
<1>3. PrizesValid'
  BY <1>1 DEF TournamentInv, BoardTyped, PrizesValid, Created
<1>4. RecordsPlayed' /\ ParticipantsPlayed' /\ ParticipantsCounted' /\ BoardAddsUp'
  BY <1>1 DEF TournamentInv, RecordsPlayed, ParticipantsPlayed, ParticipantsCounted, BoardAddsUp
<1> QED
  BY <1>2, <1>3, <1>4 DEF TournamentInv

\* Steps of moderators and of requests that only read.
LEMMA ReadsContest ==
  ASSUME TournamentInv, NEW o \in Organisers, NEW d \in Contests,
         \/ \E u \in Contestants : JoinContest(o, u, d)
         \/ \E W \in SUBSET Seated(d) : ResolveContest(o, d, W)
  PROVE  TournamentInv'
<1>1. contest[d].tournament \in Tournaments \cup {NoTournament}
  BY DEF TournamentInv, BoardTyped
<1>2. \E next \in {NoJob} \cup Playing \cup Settling : job' = [job EXCEPT ![o] = next]
  <2>1. CASE \E u \in Contestants : JoinContest(o, u, d)
    <3>1. PICK u \in Contestants : JoinContest(o, u, d)
      BY <2>1
    <3>2. [at |-> "join", u |-> u, d |-> d, t |-> contest[d].tournament] \in Playing
      BY <1>1 DEF Playing
    <3> QED BY <3>1, <3>2 DEF JoinContest, Opens
  <2>2. CASE \E W \in SUBSET Seated(d) : ResolveContest(o, d, W)
    <3>1. PICK W \in SUBSET Seated(d) : ResolveContest(o, d, W)
      BY <2>2
    <3>2. [at |-> "resolve", d |-> d, t |-> contest[d].tournament, winners |-> W] \in Settling
      BY <1>1, <3>1, SeatedAreContestants DEF Settling, ResolveContest
    <3> QED BY <3>1, <3>2 DEF ResolveContest, Opens
  <2> QED BY <2>1, <2>2
<1>3. UNCHANGED <<prizes, participants, playersCount, board, entered, unseated, contest, taken>>
  BY DEF JoinContest, ResolveContest
<1>4. BoardTyped'
  BY <1>2, <1>3, JobsTyped DEF TournamentInv
<1> QED
  BY <1>3, <1>4, TournamentRest

\* What moderators do to a duel, and offers.
LEMMA ChangesContest ==
  ASSUME TournamentInv, NEW d \in Contests,
         \/ \E t \in Tournaments \cup {NoTournament} : SetTournamentID(d, t)
         \/ CancelContest(d)
         \/ OfferTournament
  PROVE  TournamentInv'
<1>1. UNCHANGED <<prizes, participants, playersCount, board, entered, unseated, taken, job>>
  BY DEF SetTournamentID, CancelContest, OfferTournament
<1>2. contest' \in [Contests -> [tournament : Tournaments \cup {NoTournament}, open : BOOLEAN]]
  <2>1. PICK row \in [tournament : Tournaments \cup {NoTournament}, open : BOOLEAN] :
           row = contest[d]
    BY DEF TournamentInv, BoardTyped
  <2>2. contest \in [Contests -> [tournament : Tournaments \cup {NoTournament}, open : BOOLEAN]]
    BY DEF TournamentInv, BoardTyped
  <2>3. ASSUME NEW t \in Tournaments \cup {NoTournament}, SetTournamentID(d, t)
        PROVE  contest' = [contest EXCEPT ![d] = [row EXCEPT !.tournament = t]]
    BY <2>1, <2>3 DEF SetTournamentID
  <2>4. ASSUME CancelContest(d)
        PROVE  contest' = [contest EXCEPT ![d] = [row EXCEPT !.open = FALSE]]
    BY <2>1, <2>4 DEF CancelContest
  <2>5. OfferTournament => contest' = contest
    BY DEF OfferTournament
  <2>6. /\ \A t \in Tournaments \cup {NoTournament} :
              [row EXCEPT !.tournament = t]
                \in [tournament : Tournaments \cup {NoTournament}, open : BOOLEAN]
        /\ [row EXCEPT !.open = FALSE]
                \in [tournament : Tournaments \cup {NoTournament}, open : BOOLEAN]
    OBVIOUS
  <2>7. contest' = contest \/
        \E new \in [tournament : Tournaments \cup {NoTournament}, open : BOOLEAN] :
           contest' = [contest EXCEPT ![d] = new]
    BY <2>3, <2>4, <2>5, <2>6, Zenon
  <2> QED BY <2>2, <2>7
<1>3. BoardTyped'
  BY <1>1, <1>2 DEF TournamentInv, BoardTyped
<1> QED
  BY <1>1, <1>3, TournamentRest

\* What a commit of a join or its failed leaderboard write does to the records.
LEMMA SpendsOnce ==
  ASSUME TournamentInv, NEW t \in Tournaments, NEW u \in Contestants, NEW k \in Kinds,
         board' = AlterLeaderboardSpent(u, t, k),
         \/ /\ entered' = [entered EXCEPT ![<<t, u, k>>] = @ + 1]
            /\ unseated' = unseated
         \/ /\ unseated' = [unseated EXCEPT ![<<t, u, k>>] = @ + 1]
            /\ entered' = entered
  PROVE  /\ BoardAddsUp' /\ RecordsPlayed'
         /\ entered' \in [Places -> Nat] /\ unseated' \in [Places -> Nat]
         /\ board' \in [Places -> Record]
         /\ \A q \in Places : board[q].total > 0 => board'[q].total > 0
         /\ board'[<<t, u, k>>].total > 0
<1>1. PICK p : p = <<t, u, k>>
  OBVIOUS
<1>2. /\ p \in Places /\ board' \in [Places -> Record]
      /\ board'[p].total = board[p].total + 1
      /\ board'[p].spent = board[p].spent + DuelPrice
      /\ board'[p].pnl = board[p].pnl - DuelPrice
      /\ board'[p].earned = board[p].earned
      /\ \A q \in Places \ {p} : board'[q] = board[q]
  BY <1>1, SpentRecord DEF TournamentInv
<1>3. /\ entered \in [Places -> Nat] /\ unseated \in [Places -> Nat]
      /\ DuelPrice \in Nat
  BY TournamentAssumption DEF TournamentInv, BoardTyped
<1>4. \A q \in Places : board[q] \in Record
  BY DEF TournamentInv, BoardTyped
<1>5. board[p].total \in Nat /\ board[p].spent \in Nat /\ board[p].earned \in Nat
      /\ board[p].pnl \in Int
  BY <1>2, <1>4, RecordFields
<1>6. /\ entered' \in [Places -> Nat] /\ unseated' \in [Places -> Nat]
      /\ entered'[p] + unseated'[p] = entered[p] + unseated[p] + 1
      /\ \A q \in Places \ {p} : entered'[q] = entered[q] /\ unseated'[q] = unseated[q]
  <2>1. CASE entered' = [entered EXCEPT ![p] = @ + 1] /\ unseated' = unseated
    BY <1>2, <1>3, <2>1
  <2>2. CASE unseated' = [unseated EXCEPT ![p] = @ + 1] /\ entered' = entered
    BY <1>2, <1>3, <2>2
  <2> QED BY <1>1, <2>1, <2>2
<1>7. /\ board[p].pnl = board[p].earned - board[p].spent
      /\ board[p].spent = DuelPrice * (entered[p] + unseated[p])
  BY <1>2 DEF TournamentInv, BoardAddsUp
<1>8. board'[p].spent = DuelPrice * (entered'[p] + unseated'[p])
  <2>1. PICK n \in Nat : n = entered[p] + unseated[p]
    BY <1>2, <1>3
  <2>2. DuelPrice * (n + 1) = DuelPrice * n + DuelPrice
    BY <1>3
  <2> QED BY <1>2, <1>6, <1>7, <2>1, <2>2
<1>9. BoardAddsUp'
  <2>1. ASSUME NEW q \in Places
        PROVE  /\ board'[q].pnl = board'[q].earned - board'[q].spent
               /\ board'[q].spent = DuelPrice * (entered'[q] + unseated'[q])
               /\ board'[q].earned > 0 => board'[q].total > 0
    <3>1. CASE q = p
      BY <1>2, <1>3, <1>5, <1>7, <1>8, <3>1
    <3>2. CASE q # p
      BY <1>2, <1>6, <3>2 DEF TournamentInv, BoardAddsUp
    <3> QED BY <3>1, <3>2
  <2> QED BY <2>1 DEF BoardAddsUp
<1>10. RecordsPlayed' /\ \A q \in Places : board[q].total > 0 => board'[q].total > 0
  BY <1>2, <1>5 DEF TournamentInv, RecordsPlayed
<1> QED
  BY <1>1, <1>2, <1>5, <1>6, <1>9, <1>10

\* The seat, the participant and the record in one transaction.
LEMMA JoinsTournament ==
  ASSUME TournamentInv, NEW o \in Organisers, JoinCommit(o)
  PROVE  TournamentInv'
<1>1. PICK j \in Playing : j = job[o]
  BY JobKinds DEF JoinCommit, Closes, TournamentInv
<1>2. /\ j.u \in Contestants /\ j.d \in Contests /\ j.t \in Tournaments \cup {NoTournament}
  BY DEF Playing
<1>3. /\ job' = [job EXCEPT ![o] = NoJob]
      /\ taken' = [taken EXCEPT ![j.d][j.u] = @ + 1]
      /\ UNCHANGED <<prizes, contest, unseated>>
  BY <1>1 DEF JoinCommit, Closes
<1>4. /\ taken' \in [Contests -> [Contestants -> Nat]]
      /\ job' \in [Organisers -> {NoJob} \cup Playing \cup Settling]
  <2>1. taken \in [Contests -> [Contestants -> Nat]]
        /\ job \in [Organisers -> {NoJob} \cup Playing \cup Settling]
    BY DEF TournamentInv, BoardTyped
  <2>2. PICK row \in [Contestants -> Nat] : row = taken[j.d]
    BY <1>2, <2>1
  <2>3. taken' = [taken EXCEPT ![j.d] = [row EXCEPT ![j.u] = row[j.u] + 1]]
    BY <1>3, <2>2
  <2>4. [row EXCEPT ![j.u] = row[j.u] + 1] \in [Contestants -> Nat]
    BY <1>2
  <2> QED BY <1>3, <2>1, <2>3, <2>4
<1>5. CASE j.t = NoTournament
  <2>1. UNCHANGED <<participants, playersCount, board, entered>>
    BY <1>1, <1>5 DEF JoinCommit
  <2>2. BoardTyped'
    BY <1>3, <1>4, <2>1 DEF TournamentInv, BoardTyped
  <2> QED BY <1>3, <2>1, <2>2, TournamentRest
<1>6. CASE j.t # NoTournament
  <2>1. PICK t \in Tournaments : t = j.t
    BY <1>2, <1>6
  <2>2. PICK k \in Kinds : k = KindOf(j.d)
    BY DEF KindOf, Kinds
  <2>3. /\ participants' = [participants EXCEPT ![t] = @ \cup {j.u}]
        /\ playersCount' = [playersCount EXCEPT ![t] =
                              IF j.u \in participants[t] THEN @ ELSE @ + 1]
        /\ board' = AlterLeaderboardSpent(j.u, t, k)
        /\ entered' = [entered EXCEPT ![<<t, j.u, k>>] = @ + 1]
        /\ unseated' = unseated
    BY <1>1, <1>3, <1>6, <2>1, <2>2 DEF JoinCommit, IncrementPlayersCount
  <2>4. /\ BoardAddsUp' /\ RecordsPlayed'
        /\ entered' \in [Places -> Nat] /\ unseated' \in [Places -> Nat]
        /\ board' \in [Places -> Record]
        /\ \A q \in Places : board[q].total > 0 => board'[q].total > 0
        /\ board'[<<t, j.u, k>>].total > 0
    BY <1>2, <2>3, SpendsOnce
  <2>5. /\ participants \in [Tournaments -> SUBSET Contestants]
        /\ playersCount \in [Tournaments -> Nat]
    BY DEF TournamentInv, BoardTyped
  <2>6. BoardTyped'
    <3>1. /\ participants' \in [Tournaments -> SUBSET Contestants]
          /\ playersCount' \in [Tournaments -> Nat]
      BY <1>2, <2>3, <2>5
    <3> QED BY <1>3, <1>4, <2>4, <3>1 DEF TournamentInv, BoardTyped
  <2>7. PrizesValid'
    BY <1>3 DEF TournamentInv, PrizesValid, Created
  <2>8. ParticipantsPlayed'
    <3>1. ASSUME NEW s \in Tournaments, NEW u \in participants'[s]
          PROVE  \E x \in Kinds : board'[<<s, u, x>>].total > 0
      <4>1. CASE u \in participants[s]
        <5>1. PICK x \in Kinds : board[<<s, u, x>>].total > 0
          BY <4>1 DEF TournamentInv, ParticipantsPlayed
        <5>2. <<s, u, x>> \in Places
          BY <2>5, <4>1 DEF Places
        <5> QED BY <2>4, <5>1, <5>2
      <4>2. CASE u \notin participants[s]
        <5>1. s = t /\ u = j.u
          BY <2>3, <2>5, <3>1, <4>2
        <5> QED BY <2>4, <5>1
      <4> QED BY <4>1, <4>2
    <3> QED BY <3>1 DEF ParticipantsPlayed
  <2>9. ParticipantsCounted'
    <3>1. ASSUME NEW s \in Tournaments PROVE playersCount'[s] = Cardinality(participants'[s])
      <4>1. IsFiniteSet(participants[s])
        BY <2>5, TournamentAssumption, FS_Subset
      <4>2. playersCount[s] = Cardinality(participants[s])
        BY DEF TournamentInv, ParticipantsCounted
      <4>3. CASE s = t /\ j.u \notin participants[t]
        <5>1. Cardinality(participants[s] \cup {j.u}) = Cardinality(participants[s]) + 1
          BY <4>1, <4>3, FS_AddElement
        <5> QED BY <2>3, <2>5, <4>2, <4>3, <5>1
      <4>4. CASE ~ (s = t /\ j.u \notin participants[t])
        <5>1. participants'[s] = participants[s] /\ playersCount'[s] = playersCount[s]
          BY <2>3, <2>5, <4>4
        <5> QED BY <4>2, <5>1
      <4> QED BY <4>3, <4>4
    <3> QED BY <3>1 DEF ParticipantsCounted
  <2> QED BY <2>4, <2>6, <2>7, <2>8, <2>9 DEF TournamentInv
<1> QED
  BY <1>5, <1>6

\* A record of a participant stays one, whatever else is spent or earned.
LEMMA ParticipantsStay ==
  ASSUME TournamentInv, UNCHANGED <<participants, playersCount, prizes>>,
         \A q \in Places : board[q].total > 0 => board'[q].total > 0
  PROVE  PrizesValid' /\ ParticipantsPlayed' /\ ParticipantsCounted'
<1>1. PrizesValid' /\ ParticipantsCounted'
  BY DEF TournamentInv, PrizesValid, Created, ParticipantsCounted
<1>2. ASSUME NEW s \in Tournaments, NEW u \in participants[s]
      PROVE  \E x \in Kinds : board'[<<s, u, x>>].total > 0
  <2>1. PICK x \in Kinds : board[<<s, u, x>>].total > 0
    BY DEF TournamentInv, ParticipantsPlayed
  <2>2. <<s, u, x>> \in Places
    BY DEF Places, TournamentInv, BoardTyped
  <2> QED BY <2>1, <2>2
<1> QED
  BY <1>1, <1>2 DEF ParticipantsPlayed

\* The leaderboard was written, and the join is undone.
LEMMA CryptoJoinFailsKeeps ==
  ASSUME TournamentInv, NEW o \in Organisers, CryptoJoinFails(o)
  PROVE  TournamentInv'
<1>1. PICK j \in Playing : j = job[o]
  BY JobKinds DEF CryptoJoinFails, Closes, TournamentInv
<1>2. PICK t \in Tournaments : t = j.t
  BY <1>1 DEF CryptoJoinFails, Created
<1>3. PICK k \in Kinds : k = "usdc"
  BY DEF Kinds
<1>4. /\ j.u \in Contestants /\ job' = [job EXCEPT ![o] = NoJob]
      /\ board' = AlterLeaderboardSpent(j.u, t, k)
      /\ unseated' = [unseated EXCEPT ![<<t, j.u, k>>] = @ + 1]
      /\ UNCHANGED <<prizes, contest, taken, participants, playersCount, entered>>
  BY <1>1, <1>2, <1>3 DEF CryptoJoinFails, Closes, Playing
<1>5. /\ BoardAddsUp' /\ RecordsPlayed'
      /\ entered' \in [Places -> Nat] /\ unseated' \in [Places -> Nat]
      /\ board' \in [Places -> Record]
      /\ \A q \in Places : board[q].total > 0 => board'[q].total > 0
  BY <1>4, SpendsOnce
<1>6. BoardTyped'
  BY <1>4, <1>5 DEF TournamentInv, BoardTyped
<1> QED
  BY <1>4, <1>5, <1>6, ParticipantsStay DEF TournamentInv

\* Winners earn, and the duel is closed with the tournament that was read.
LEMMA SettlesContest ==
  ASSUME TournamentInv, NEW o \in Organisers, ResolveCommit(o)
  PROVE  TournamentInv'
<1>1. PICK j \in Settling : j = job[o]
  BY JobKinds DEF ResolveCommit, Closes, TournamentInv
<1>2. /\ j.d \in Contests /\ j.t \in Tournaments \cup {NoTournament}
      /\ j.winners \in (SUBSET Contestants) \ {{}}
  BY DEF Settling
<1>3. PICK amount \in Nat : amount = (DuelPrice * Seats(j.d)) \div Cardinality(j.winners)
  BY <1>2, ShareIsNumber DEF TournamentInv
<1>4. /\ job' = [job EXCEPT ![o] = NoJob]
      /\ board' = AlterLeaderboardEarned(j.t, KindOf(j.d), j.winners, amount)
      /\ UNCHANGED <<prizes, taken, participants, playersCount, entered, unseated>>
  BY <1>1, <1>3 DEF ResolveCommit, Closes
<1>5. contest' \in [Contests -> [tournament : Tournaments \cup {NoTournament}, open : BOOLEAN]]
  BY <1>1, <1>2 DEF ResolveCommit, TournamentInv, BoardTyped
<1>6. /\ board' \in [Places -> Record]
      /\ \A p \in Places :
           \/ board'[p] = board[p]
           \/ /\ board[p] # NoPlace
              /\ board'[p].total = board[p].total /\ board'[p].spent = board[p].spent
              /\ board'[p].earned = board[p].earned + amount
              /\ board'[p].pnl = board[p].pnl + amount
  BY <1>4, EarnedRecord DEF TournamentInv
<1>7. BoardTyped'
  BY <1>4, <1>5, <1>6 DEF TournamentInv, BoardTyped
<1>8. \A p \in Places : board[p] \in Record
  BY DEF TournamentInv, BoardTyped
<1>9. RecordsPlayed' /\ \A q \in Places : board[q].total > 0 => board'[q].total > 0
  BY <1>6 DEF TournamentInv, RecordsPlayed
<1>10. BoardAddsUp'
  <2>1. ASSUME NEW p \in Places
        PROVE  /\ board'[p].pnl = board'[p].earned - board'[p].spent
               /\ board'[p].spent = DuelPrice * (entered'[p] + unseated'[p])
               /\ board'[p].earned > 0 => board'[p].total > 0
    <3>1. /\ board[p].pnl = board[p].earned - board[p].spent
          /\ board[p].spent = DuelPrice * (entered[p] + unseated[p])
          /\ board[p].earned > 0 => board[p].total > 0
          /\ board[p] # NoPlace => board[p].total > 0
      BY DEF TournamentInv, BoardAddsUp, RecordsPlayed
    <3>2. board[p].pnl \in Int /\ board[p].earned \in Nat /\ board[p].spent \in Nat
      BY <1>8, RecordFields
    <3>3. CASE board'[p] = board[p]
      BY <1>4, <3>1, <3>3
    <3>4. CASE board'[p] # board[p]
      <4>1. /\ board[p] # NoPlace
            /\ board'[p].total = board[p].total /\ board'[p].spent = board[p].spent
            /\ board'[p].earned = board[p].earned + amount
            /\ board'[p].pnl = board[p].pnl + amount
        BY <1>6, <3>4
      <4>2. board'[p].pnl = board'[p].earned - board'[p].spent
        BY <3>1, <3>2, <4>1
      <4>3. board'[p].spent = DuelPrice * (entered'[p] + unseated'[p])
        BY <1>4, <3>1, <4>1
      <4> QED BY <3>1, <4>1, <4>2, <4>3
    <3> QED BY <3>3, <3>4
  <2> QED BY <2>1 DEF BoardAddsUp
<1> QED
  BY <1>4, <1>6, <1>7, <1>9, <1>10, ParticipantsStay DEF TournamentInv

\* Every step keeps the invariant.
LEMMA TournamentStep ==
  TournamentInv /\ [TournamentNext]_tournamentVars => TournamentInv'
<1> SUFFICES ASSUME TournamentInv, [TournamentNext]_tournamentVars PROVE TournamentInv'
  OBVIOUS
<1>1. ASSUME NEW t \in Tournaments, NEW rs \in RewardLists, CreateTournament(t, rs)
      PROVE  TournamentInv'
  BY <1>1, CreatesTournament
<1>2. ASSUME NEW d \in Contests, NEW t \in Tournaments \cup {NoTournament}, SetTournamentID(d, t)
      PROVE  TournamentInv'
  BY <1>2, ChangesContest
<1>3. ASSUME NEW o \in Organisers, NEW d \in Contests,
             \/ \E u \in Contestants : JoinContest(o, u, d)
             \/ \E W \in SUBSET Seated(d) : ResolveContest(o, d, W)
      PROVE  TournamentInv'
  BY <1>3, ReadsContest
<1>4. ASSUME NEW o \in Organisers, JoinCommit(o) PROVE TournamentInv'
  BY <1>4, JoinsTournament
<1>5. ASSUME NEW o \in Organisers, CryptoJoinFails(o) PROVE TournamentInv'
  BY <1>5, CryptoJoinFailsKeeps
<1>6. ASSUME NEW o \in Organisers, ResolveCommit(o) PROVE TournamentInv'
  BY <1>6, SettlesContest
<1>7. ASSUME NEW o \in Organisers, JobFails(o) PROVE TournamentInv'
  <2>1. UNCHANGED <<prizes, participants, playersCount, board, entered, unseated, contest, taken>>
        /\ job' = [job EXCEPT ![o] = NoJob]
    BY <1>7 DEF JobFails
  <2>2. BoardTyped'
    BY <2>1, JobsTyped DEF TournamentInv
  <2> QED BY <2>1, <2>2, TournamentRest
<1>8. ASSUME NEW d \in Contests, CancelContest(d) PROVE TournamentInv'
  BY <1>8, ChangesContest
<1>9. CASE OfferTournament \/ UNCHANGED tournamentVars
  <2>1. UNCHANGED <<prizes, participants, playersCount, board, entered, unseated, contest, taken,
                    job>>
    BY <1>9 DEF OfferTournament, tournamentVars
  <2>2. BoardTyped'
    BY <2>1 DEF TournamentInv, BoardTyped
  <2> QED BY <2>1, <2>2, TournamentRest
<1> QED
  BY <1>1, <1>2, <1>3, <1>4, <1>5, <1>6, <1>7, <1>8, <1>9 DEF TournamentNext

-----------------------------------------------------------------------------
(* What the invariant says *)

\* There are finitely many records.
LEMMA PlacesFinite == IsFiniteSet(Places)
<1>1. IsFiniteSet(Kinds)
  <2>1. Kinds = ({} \cup {"dp"}) \cup {"usdc"}
    BY DEF Kinds
  <2> QED BY <2>1, FS_EmptySet, FS_AddElement
<1>2. IsFiniteSet(Contestants \X Kinds) /\ IsFiniteSet(Tournaments \X (Contestants \X Kinds))
  BY <1>1, TournamentAssumption, FS_Product
<1> DEFINE S == Tournaments \X (Contestants \X Kinds)
           f == [x \in S |-> <<x[1], x[2][1], x[2][2]>>]
<1>3. f \in Surjection(S, Places)
  <2>1. \A x \in S : f[x] \in Places
    BY DEF Places
  <2>2. ASSUME NEW p \in Places PROVE \E x \in S : f[x] = p
    <3>1. PICK t \in Tournaments, u \in Contestants, k \in Kinds : p = <<t, u, k>>
      BY DEF Places
    <3>2. <<t, <<u, k>>>> \in S /\ f[<<t, <<u, k>>>>] = p
      BY <3>1
    <3> QED BY <3>2
  <2> QED BY <2>1, <2>2 DEF Surjection
<1> QED
  BY <1>2, <1>3, FS_Surjection

\* A rank is a number.
LEMMA RankIsNumber ==
  ASSUME NEW t, NEW u, NEW k, NEW rank \in TournamentRank(t, u, k)
  PROVE  rank \in Int
<1> DEFINE mine == board[<<t, u, k>>].pnl
           R == {p \in Places : p[1] = t /\ board[p] # NoPlace}
           above == {p \in R : board[p].pnl > mine}
           level == {p \in R : board[p].pnl = mine}
<1>1. IsFiniteSet(above) /\ IsFiniteSet(level)
  <2>1. above \subseteq Places /\ level \subseteq Places
    OBVIOUS
  <2> HIDE DEF above, level
  <2> QED BY <2>1, PlacesFinite, FS_Subset
<1>2. rank \in (Cardinality(above) + 1)..(Cardinality(above) + Cardinality(level))
  BY DEF TournamentRank
<1> HIDE DEF above, level
<1> QED
  BY <1>1, <1>2, FS_CardinalityType

\* The invariant says that participants are ranked.
LEMMA ParticipantsAreRanked == TournamentInv => ParticipantsRanked
<1> SUFFICES ASSUME TournamentInv, NEW t \in Tournaments
             PROVE  /\ playersCount[t] = Cardinality(participants[t])
                    /\ \A u \in participants[t] : \E p \in UserTournaments(u) : p[1] = t
                    /\ \A p \in Places : p[1] = t =>
                        \A rank \in TournamentRank(t, p[2], p[3]) :
                            /\ Cardinality(RewardsOf(t, rank)) <= 1
                            /\ RewardsOf(t, rank) = {} =>
                                \A i \in DOMAIN prizes[t] :
                                    (prizes[t][1].from <= rank => prizes[t][i].to < rank)
  BY DEF ParticipantsRanked
<1>1. playersCount[t] = Cardinality(participants[t])
  BY DEF TournamentInv, ParticipantsCounted
<1>2. ASSUME NEW u \in participants[t] PROVE \E p \in UserTournaments(u) : p[1] = t
  <2>1. PICK k \in Kinds : board[<<t, u, k>>].total > 0
    BY DEF TournamentInv, ParticipantsPlayed
  <2>2. u \in Contestants
    BY DEF TournamentInv, BoardTyped
  <2>3. PICK p \in Places : p = <<t, u, k>>
    BY <2>2 DEF Places
  <2>4. board[p] # NoPlace
    BY <2>1, <2>3, NoPlaceFields
  <2>5. p[1] = t /\ p[2] = u
    BY <2>3
  <2> QED BY <2>4, <2>5 DEF UserTournaments
<1>3. prizes[t] = << >> \/ (prizes[t] \in RewardLists /\ Valid(prizes[t]))
  BY DEF TournamentInv, BoardTyped, PrizesValid, Created
<1>4. ASSUME NEW rank \in Int
      PROVE  /\ Cardinality(RewardsOf(t, rank)) <= 1
             /\ RewardsOf(t, rank) = {} =>
                  \A i \in DOMAIN prizes[t] :
                     (prizes[t][1].from <= rank => prizes[t][i].to < rank)
  <2>1. \A i, j \in RewardsOf(t, rank) : i = j
    BY <1>3, OneReward DEF RewardsOf
  <2>2. Cardinality(RewardsOf(t, rank)) <= 1
    <3>1. CASE RewardsOf(t, rank) = {}
      BY <3>1, FS_EmptySet
    <3>2. CASE RewardsOf(t, rank) # {}
      <4>1. PICK i : RewardsOf(t, rank) = {i}
        BY <2>1, <3>2
      <4>2. Cardinality({i}) = 1
        BY FS_Singleton
      <4> QED BY <4>1, <4>2
    <3> QED BY <3>1, <3>2
  <2>3. ASSUME RewardsOf(t, rank) = {}, NEW i \in DOMAIN prizes[t], prizes[t][1].from <= rank
        PROVE  prizes[t][i].to < rank
    <3>1. PICK rs : rs = prizes[t]
      OBVIOUS
    <3>2. rs \in RewardLists /\ Valid(rs)
      BY <1>3, <2>3, <3>1
    <3>3. \A j \in DOMAIN rs : rank \notin rs[j].from..rs[j].to
      BY <2>3, <3>1 DEF RewardsOf
    <3> QED BY <2>3, <3>1, <3>2, <3>3, NoGap
  <2> QED BY <2>2, <2>3
<1> QED
  BY <1>1, <1>2, <1>4, RankIsNumber

\* Profit and loss is earned less spent, a record has spent the price of every seat taken, and
\* nobody earns who never entered; players_count counts the participants, each finds his
\* tournament, and a rank wins one reward at most with no rank left out between the first and
\* the last: for any tournaments, users, duels, lists of rewards and requests side by side
\* (IncrementPlayersCount, AlterLeaderboardSpent, AlterLeaderboardEarned, Valid).
THEOREM LeaderboardAddsUp == TournamentSpec => []TournamentAddsUp
<1>1. TournamentInit => TournamentInv
  BY TournamentStarts
<1>2. TournamentInv /\ [TournamentNext]_tournamentVars => TournamentInv'
  BY TournamentStep
<1>3. TournamentInv => TournamentAddsUp
  BY ParticipantsAreRanked DEF TournamentInv, TournamentAddsUp
<1> QED
  BY <1>1, <1>2, <1>3, PTL DEF TournamentSpec

-----------------------------------------------------------------------------
(***************************************************************************)
(* Wallets.  The invariant counts what a request has put out at each of    *)
(* its steps, and says of every code that is built, or on its way, that it *)
(* is fit: token accounts are opened and never closed, so that what was    *)
(* fit when it was built is when it lands.                                 *)
(***************************************************************************)
Code == [Instructions -> Nat]
Ask == [at : {"checked", "built", "tracking", "told", "refused"}, try : Attempts,
        lostAnswers : Nat, user : Owners, to : Addresses \cup {"pool"}, from : Money,
        amount : Nat, code : Code]
WireRow == [net : {"unsent", "flying", "landed", "failed", "expired"}, code : Code]

WalletsTyped ==
    /\ asks = [q \in Asks |-> asks[q]]
    /\ \A q \in Asks : asks[q] = NewAsk \/ asks[q] \in Ask
    /\ wires \in [Asks \X Attempts -> WireRow]

\* A code is fit to be sent: one price, one limit, and the recipient's account will be there.
FitToSend(q, code) ==
    /\ \A b \in Budget : code[b] = 1
    /\ q \in TransferAsks => code["open"] = 1 \/ <<asks[q].to, "usdc">> \in opened

CodesFit ==
    /\ \A q \in Asks : asks[q].at = "built" => FitToSend(q, asks[q].code)
    /\ \A q \in Asks : \A n \in Attempts :
         wires[<<q, n>>].net # "unsent" =>
            asks[q].at # "new" /\ FitToSend(q, wires[<<q, n>>].code)

\* What has been sent: nothing beyond the attempt at hand, which is sent at its end.
Reckoned(q, a, sent) ==
    /\ sent \subseteq 1..a.try
    /\ a.at \in {"new", "checked", "built"} =>
          a.try \notin sent /\ Cardinality(sent) = a.lostAnswers
    /\ a.at \in {"tracking", "told"} =>
          a.try \in sent /\ Cardinality(sent) = a.lostAnswers + 1
    /\ a.at = "refused" => Cardinality(sent) \in {a.lostAnswers, a.lostAnswers + 1}
    /\ q \in SwapAsks => a.at # "tracking"
    /\ q \in SwapAsks /\ a.at = "refused" => Cardinality(sent) = a.lostAnswers
    /\ q \in TransferAsks => a.try = 1

SentSoFar == \A q \in Asks : Reckoned(q, asks[q], WiresOf(q))

TransfersLanded ==
    \A q \in TransferAsks : asks[q].at = "told" => wires[<<q, 1>>].net = "landed"

WalletsInv == WalletsTyped /\ CodesFit /\ SentSoFar /\ TransfersLanded

-----------------------------------------------------------------------------
(* Codes *)

LEMMA OnceType == ASSUME NEW some PROVE Once(some) \in Code
BY DEF Once, Code

\* A budget is set once, whatever was in the code before.
LEMMA BudgetOnce ==
  ASSUME NEW code, \A b \in Budget : code[b] = 0
  PROVE  \A b \in Budget : WithBudget(code)[b] = 1
BY DEF WithBudget, Once, Instructions

LEMMA SwapCodeFits ==
  ASSUME NEW quoted \in QuotedCodes
  PROVE  SwapCode(quoted) \in Code /\ \A b \in Budget : SwapCode(quoted)[b] = 1
<1>1. quoted \in Code
  BY OnceType DEF QuotedCodes
<1>2. PICK rest : rest = RemoveComputeBudgetInstructionsFromTx(quoted)
  OBVIOUS
<1>3. rest \in Code /\ \A b \in Budget : rest[b] = 0
  BY <1>1, <1>2 DEF RemoveComputeBudgetInstructionsFromTx, Code, Instructions
<1>4. WithBudget(rest) \in Code
  BY <1>3 DEF WithBudget, Once, Code
<1> QED BY <1>2, <1>3, <1>4, BudgetOnce DEF SwapCode

LEMMA TransferCodeFits ==
  ASSUME NEW init \in BOOLEAN
  PROVE  /\ TransferCode(init) \in Code
         /\ \A b \in Budget : TransferCode(init)[b] = 1
         /\ init => TransferCode(init)["open"] = 1
<1>1. PICK some : some = Budget \cup {"transfer"} \cup (IF init THEN {"open"} ELSE {})
  OBVIOUS
<1>2. Budget \subseteq some /\ (init => "open" \in some)
  BY <1>1
<1>3. TransferCode(init) = Once(some)
  BY <1>1 DEF TransferCode
<1>4. \A b \in Budget : Once(some)[b] = 1
  BY <1>2 DEF Once, Instructions
<1>5. init => Once(some)["open"] = 1
  BY <1>2 DEF Once, Instructions
<1> QED BY <1>3, <1>4, <1>5, OnceType

\* The transactions of a room, whatever their number, bring no budget.
LEMMA NoBudget ==
  ASSUME NEW n \in Nat, NEW txs, DOMAIN txs = 1..n,
         \A i \in 1..n : \A b \in Budget : txs[i][b] = 0
  PROVE  \A b \in Budget : RoomCode(txs)[b] = 1
<1>1. ASSUME NEW b \in Budget PROVE GetTxInstructions(txs)[b] = 0
  <2>1. PICK f : f = [i \in 1..n |-> txs[i][b]]
    OBVIOUS
  <2>2. IsFiniteSet(1..n) /\ Cardinality(1..n) \in Nat
    BY FS_Interval, FS_CardinalityType
  <2>3. \A i \in 1..n : f[i] = 0
    BY <2>1
  <2>4. SumFunctionOnSet(f, 1..n) = Cardinality(1..n) * 0
    BY <2>2, <2>3, SumOfConstant
  <2>5. SumFunctionOnSet(f, 1..n) = 0
    BY <2>2, <2>4
  <2>6. GetTxInstructions(txs)[b] = SumFunction(f)
    BY <2>1 DEF GetTxInstructions, Instructions
  <2>7. SumFunction(f) = SumFunctionOnSet(f, 1..n)
    BY <2>1 DEF SumFunction
  <2> QED BY <2>5, <2>6, <2>7
<1> QED BY <1>1, BudgetOnce DEF RoomCode

LEMMA RoomCodesFit == \A code \in RoomCodes : \A b \in Budget : code[b] = 1
<1> SUFFICES ASSUME NEW code \in RoomCodes PROVE \A b \in Budget : code[b] = 1
  OBVIOUS
<1>6. PICK some \in RoomTxs : code = RoomCode([n \in DOMAIN some |-> Once(some[n])])
  BY DEF RoomCodes
<1>1. PICK m \in Nat : DOMAIN some = 1..m
  <2>1. DOMAIN some = 1..1 \/ DOMAIN some = 1..2
    <3>1. CASE some = << {"init"} >>
      BY <3>1
    <3>2. CASE some = << {"join"} >>
      BY <3>2
    <3>3. CASE some = << {"close"} >>
      BY <3>3
    <3>4. CASE some = << {"init"}, {"join"} >>
      BY <3>4
    <3>5. CASE some = << {"reallocate"}, {"join"} >>
      BY <3>5
    <3> QED BY <3>1, <3>2, <3>3, <3>4, <3>5 DEF RoomTxs
  <2> QED BY <2>1
<1>2. \A n \in DOMAIN some : some[n] \cap Budget = {}
  <2>1. CASE some = << {"init"} >>
    BY <2>1 DEF Budget
  <2>2. CASE some = << {"join"} >>
    BY <2>2 DEF Budget
  <2>3. CASE some = << {"close"} >>
    BY <2>3 DEF Budget
  <2>4. CASE some = << {"init"}, {"join"} >>
    BY <2>4 DEF Budget
  <2>5. CASE some = << {"reallocate"}, {"join"} >>
    BY <2>5 DEF Budget
  <2> QED BY <2>1, <2>2, <2>3, <2>4, <2>5 DEF RoomTxs
<1>3. PICK txs : txs = [n \in DOMAIN some |-> Once(some[n])]
  OBVIOUS
<1>4. \A n \in 1..m : \A b \in Budget : txs[n][b] = 0
  BY <1>1, <1>2, <1>3 DEF Once, Instructions
<1>5. DOMAIN txs = 1..m
  BY <1>1, <1>3
<1>7. \A b \in Budget : RoomCode(txs)[b] = 1
  BY <1>4, <1>5, NoBudget
<1>8. code = RoomCode(txs)
  BY <1>3, <1>6
<1> QED BY <1>7, <1>8

-----------------------------------------------------------------------------
(* Requests *)

LEMMA WalletsStart == WalletsInit => WalletsInv
<1> SUFFICES ASSUME WalletsInit PROVE WalletsInv
  OBVIOUS
<1>1. /\ \A q \in Asks : asks[q] = NewAsk /\ asks[q].at = "new" /\ asks[q].try = 1
      /\ \A q \in Asks : asks[q].lostAnswers = 0
      /\ \A w \in Asks \X Attempts : wires[w] = NoWire /\ wires[w].net = "unsent"
  BY DEF WalletsInit, NewAsk, NoWire
<1>2. NoWire \in WireRow
  BY OnceType DEF NoWire, WireRow
<1>3. WalletsTyped
  BY <1>1, <1>2 DEF WalletsTyped, WalletsInit
<1>4. CodesFit
  BY <1>1 DEF CodesFit
<1>5. SentSoFar
  <2>1. ASSUME NEW q \in Asks PROVE Reckoned(q, asks[q], WiresOf(q))
    <3>1. WiresOf(q) = {}
      BY <1>1 DEF WiresOf
    <3>2. Cardinality({}) = 0
      BY FS_EmptySet
    <3> QED BY <1>1, <3>1, <3>2 DEF Reckoned
  <2> QED BY <2>1 DEF SentSoFar
<1>6. TransfersLanded
  BY <1>1 DEF TransfersLanded, Asks
<1> QED BY <1>3, <1>4, <1>5, <1>6 DEF WalletsInv

\* What a request that is no longer new carries.
LEMMA AskFields ==
  ASSUME WalletsInv, NEW q \in Asks
  PROVE  /\ asks[q].at # "new" => asks[q] \in Ask
         /\ asks[q].at = "new" => asks[q] = NewAsk
         /\ asks[q].try \in Attempts /\ asks[q].lostAnswers \in Nat
         /\ WiresOf(q) \subseteq Attempts /\ IsFiniteSet(WiresOf(q))
         /\ Cardinality(WiresOf(q)) \in Nat
<1>1. NewAsk.at = "new" /\ NewAsk.try = 1 /\ NewAsk.lostAnswers = 0
  BY DEF NewAsk
<1>2. \A a \in Ask : a.at # "new" /\ a.try \in Attempts /\ a.lostAnswers \in Nat
  BY DEF Ask
<1>3. 1 \in Attempts /\ SwapMaxRetryCount \in Nat
  BY WalletsAssumption DEF Attempts
<1>4. WiresOf(q) \subseteq Attempts
  BY DEF WiresOf
<1>5. IsFiniteSet(Attempts)
  BY <1>3, FS_Interval DEF Attempts
<1>6. IsFiniteSet(WiresOf(q)) /\ Cardinality(WiresOf(q)) \in Nat
  BY <1>4, <1>5, FS_Subset, FS_CardinalityType
<1> QED BY <1>1, <1>2, <1>3, <1>4, <1>6 DEF WalletsInv, WalletsTyped

\* A step of one request, which may put its wire out.
LEMMA AskMoves ==
  ASSUME WalletsInv, NEW q \in Asks, NEW a \in Ask, asks' = [asks EXCEPT ![q] = a],
         asks[q].at = "new" \/ a.to = asks[q].to,
         opened \subseteq opened', wires' \in [Asks \X Attempts -> WireRow],
         \A p \in Asks \ {q} : \A n \in Attempts : wires'[<<p, n>>] = wires[<<p, n>>],
         \A n \in Attempts : wires'[<<q, n>>].net # "unsent" /\ wires[<<q, n>>].net = "unsent" =>
            FitToSend(q, wires[<<q, n>>].code)',
         \A n \in Attempts : wires[<<q, n>>].net # "unsent" => wires'[<<q, n>>] = wires[<<q, n>>],
         a.at = "built" => FitToSend(q, a.code)',
         Reckoned(q, a, WiresOf(q)'),
         q \in TransferAsks /\ a.at = "told" => wires'[<<q, 1>>].net = "landed"
  PROVE  WalletsInv'
<1>1. /\ asks'[q] = a /\ (\A p \in Asks \ {q} : asks'[p] = asks[p])
      /\ asks' = [p \in Asks |-> asks'[p]]
  BY DEF WalletsInv, WalletsTyped
<1>2. WalletsTyped'
  BY <1>1 DEF WalletsInv, WalletsTyped
<1>3. ASSUME NEW p \in Asks, NEW code, asks[p].at # "new", FitToSend(p, code)
      PROVE  FitToSend(p, code)'
  BY <1>1, <1>3 DEF FitToSend
<1>4. a.at # "new"
  BY DEF Ask
<1>5. CodesFit'
  <2>1. ASSUME NEW p \in Asks, asks'[p].at = "built" PROVE FitToSend(p, asks[p].code)'
    <3>1. PICK code : code = asks'[p].code
      OBVIOUS
    <3>2. FitToSend(p, code)'
      <4>1. CASE p = q
        BY <1>1, <2>1, <3>1, <4>1
      <4>2. CASE p # q
        <5>1. asks[p] = asks'[p]
          BY <1>1, <4>2
        <5>2. FitToSend(p, code)
          BY <2>1, <3>1, <5>1 DEF WalletsInv, CodesFit
        <5> QED BY <1>3, <2>1, <5>1, <5>2
      <4> QED BY <4>1, <4>2
    <3>3. (asks[p].code)' = code
      BY <3>1
    <3> QED BY <3>2, <3>3 DEF FitToSend
  <2>2. ASSUME NEW p \in Asks, NEW n \in Attempts, wires'[<<p, n>>].net # "unsent"
        PROVE  asks'[p].at # "new" /\ FitToSend(p, wires[<<p, n>>].code)'
    <3>1. PICK code : code = wires'[<<p, n>>].code
      OBVIOUS
    <3>2. asks'[p].at # "new" /\ FitToSend(p, code)'
      <4>1. CASE wires[<<p, n>>].net = "unsent"
        <5>1. p = q
          BY <2>2, <4>1
        <5>2. FitToSend(p, wires[<<p, n>>].code)'
          BY <2>2, <4>1, <5>1
        <5>3. (wires[<<p, n>>].code)' = code
          BY <3>1
        <5>4. FitToSend(p, code)'
          BY <5>2, <5>3 DEF FitToSend
        <5> QED BY <1>1, <1>4, <5>1, <5>4
      <4>2. CASE wires[<<p, n>>].net # "unsent"
        <5>1. wires'[<<p, n>>] = wires[<<p, n>>]
          BY <4>2
        <5>2. asks[p].at # "new" /\ FitToSend(p, code)
          BY <3>1, <4>2, <5>1 DEF WalletsInv, CodesFit
        <5>3. FitToSend(p, code)'
          BY <1>3, <5>2
        <5> QED BY <1>1, <1>4, <5>2, <5>3
      <4> QED BY <4>1, <4>2
    <3>3. (wires[<<p, n>>].code)' = code
      BY <3>1
    <3> QED BY <3>2, <3>3 DEF FitToSend
  <2> QED BY <2>1, <2>2 DEF CodesFit
<1>6. SentSoFar'
  <2>1. ASSUME NEW p \in Asks PROVE Reckoned(p, asks'[p], WiresOf(p)')
    <3>1. CASE p = q
      BY <1>1, <3>1
    <3>2. CASE p # q
      <4>1. asks'[p] = asks[p] /\ WiresOf(p)' = WiresOf(p)
        BY <1>1, <3>2 DEF WiresOf
      <4> QED BY <4>1 DEF WalletsInv, SentSoFar
    <3> QED BY <3>1, <3>2
  <2> QED BY <2>1 DEF SentSoFar, Reckoned
<1>7. TransfersLanded'
  <2>1. 1 \in Attempts
    BY WalletsAssumption DEF Attempts
  <2> QED BY <1>1, <2>1 DEF WalletsInv, TransfersLanded, Asks
<1> QED BY <1>2, <1>5, <1>6, <1>7 DEF WalletsInv

LEMMA Requested ==
  ASSUME WalletsInv, NEW q \in Asks, NEW u \in Owners, NEW to \in Addresses \cup {"pool"},
         NEW from \in Money, NEW amount \in AskedSums, Asked(q, u, to, from, amount),
         UNCHANGED <<opened, wires>>
  PROVE  WalletsInv'
<1>1. PICK a : a = [at |-> "checked", try |-> 1, lostAnswers |-> 0, user |-> u, to |-> to,
                    from |-> from, amount |-> amount, code |-> Once({})]
  OBVIOUS
<1>2. a \in Ask /\ a.at = "checked" /\ a.try = 1 /\ a.lostAnswers = 0
  <2>1. 1 \in Attempts /\ amount \in Nat
    BY WalletsAssumption DEF Attempts
  <2> QED BY <1>1, <2>1, OnceType DEF Ask
<1>3. asks[q].at = "new" /\ asks' = [asks EXCEPT ![q] = a]
  BY <1>1 DEF Asked
<1>4. asks[q].try = 1 /\ asks[q].lostAnswers = 0
  BY <1>3, AskFields DEF NewAsk
<1>5. Reckoned(q, a, WiresOf(q)')
  <2>1. Reckoned(q, asks[q], WiresOf(q)) /\ WiresOf(q)' = WiresOf(q)
    BY DEF WalletsInv, SentSoFar, WiresOf
  <2> QED BY <1>2, <1>3, <1>4, <2>1 DEF Reckoned
<1>6. wires' \in [Asks \X Attempts -> WireRow] /\ a.at # "built" /\ a.at # "told"
  BY <1>2 DEF WalletsInv, WalletsTyped
<1> QED BY <1>2, <1>3, <1>5, <1>6, AskMoves

\* The code is built; it is fit to be sent.
LEMMA CodeBuilt ==
  ASSUME WalletsInv, NEW q \in Asks, NEW code \in Code, asks[q].at = "checked",
         FitToSend(q, code), Built(q, code), UNCHANGED <<opened, wires>>
  PROVE  WalletsInv'
<1>1. PICK c \in Ask : c = asks[q] /\ c.at = "checked"
  BY AskFields
<1>2. PICK a : a = [c EXCEPT !.at = "built", !.code = code]
  OBVIOUS
<1>3. /\ a \in Ask /\ a.at = "built" /\ a.code = code /\ a.to = c.to
      /\ a.try = c.try /\ a.lostAnswers = c.lostAnswers
  BY <1>2 DEF Ask
<1>4. asks' = [asks EXCEPT ![q] = a]
  BY <1>1, <1>2 DEF Built
<1>5. asks'[q] = a
  BY <1>4 DEF WalletsInv, WalletsTyped
<1>6. FitToSend(q, a.code)'
  BY <1>1, <1>3, <1>5 DEF FitToSend
<1>7. Reckoned(q, a, WiresOf(q)')
  <2>1. Reckoned(q, asks[q], WiresOf(q)) /\ WiresOf(q)' = WiresOf(q)
    BY DEF WalletsInv, SentSoFar, WiresOf
  <2> QED BY <1>1, <1>3, <2>1 DEF Reckoned
<1>8. wires' \in [Asks \X Attempts -> WireRow]
  BY DEF WalletsInv, WalletsTyped
<1> QED BY <1>1, <1>3, <1>4, <1>6, <1>7, <1>8, AskMoves

LEMMA TransferBuilt ==
  ASSUME WalletsInv, NEW q \in TransferAsks, ProceedTransfer(q)
  PROVE  WalletsInv'
<1>1. PICK init \in RecipientInfo(asks[q].to) : Built(q, TransferCode(init))
  BY DEF ProceedTransfer
<1>2. init \in BOOLEAN /\ (~init => <<asks[q].to, "usdc">> \in opened)
  BY DEF RecipientInfo
<1>3. FitToSend(q, TransferCode(init)) /\ TransferCode(init) \in Code
  BY <1>2, TransferCodeFits DEF FitToSend
<1>4. asks[q].at = "checked" /\ UNCHANGED <<opened, wires>> /\ q \in Asks
  BY DEF ProceedTransfer, Asks
<1> QED BY <1>1, <1>3, <1>4, CodeBuilt

LEMMA SwapIsBuilt ==
  ASSUME WalletsInv, NEW q \in SwapAsks, SwapBuilt(q)
  PROVE  WalletsInv'
<1>1. PICK quoted \in QuotedCodes : Built(q, SwapCode(quoted))
  BY DEF SwapBuilt
<1>2. q \notin TransferAsks /\ q \in Asks
  BY WalletsAssumption DEF Asks
<1>3. FitToSend(q, SwapCode(quoted)) /\ SwapCode(quoted) \in Code
  BY <1>2, SwapCodeFits DEF FitToSend
<1>4. asks[q].at = "checked" /\ UNCHANGED <<opened, wires>>
  BY DEF SwapBuilt
<1> QED BY <1>1, <1>2, <1>3, <1>4, CodeBuilt

\* A request that goes no further, or to its next attempt, without sending.
LEMMA AskDropped ==
  ASSUME WalletsInv, NEW q \in Asks, NEW c \in Ask, c = asks[q], NEW a \in Ask,
         asks' = [asks EXCEPT ![q] = a], UNCHANGED <<opened, wires>>,
         a.to = c.to, a.at \notin {"built", "told"}, Reckoned(q, a, WiresOf(q))
  PROVE  WalletsInv'
<1>1. WiresOf(q)' = WiresOf(q)
  BY DEF WiresOf
<1>2. wires' \in [Asks \X Attempts -> WireRow]
  BY DEF WalletsInv, WalletsTyped
<1> QED BY <1>1, <1>2, AskMoves

LEMMA NextAttemptType ==
  ASSUME NEW c \in Ask
  PROVE  /\ NextAttempt(c) \in Ask /\ NextAttempt(c).to = c.to
         /\ NextAttempt(c).lostAnswers = c.lostAnswers
         /\ \/ NextAttempt(c).at = "checked" /\ NextAttempt(c).try = c.try + 1
            \/ NextAttempt(c).at = "refused" /\ NextAttempt(c).try = c.try
<1>1. SwapMaxRetryCount \in Nat
  BY WalletsAssumption
<1>2. CASE c.try < SwapMaxRetryCount
  <2>1. c.try + 1 \in Attempts
    BY <1>1, <1>2 DEF Ask, Attempts
  <2> QED BY <1>2, <2>1 DEF NextAttempt, Ask
<1>3. CASE ~(c.try < SwapMaxRetryCount)
  BY <1>3 DEF NextAttempt, Ask
<1> QED BY <1>2, <1>3

LEMMA AttemptFails ==
  ASSUME WalletsInv, NEW q \in SwapAsks, SwapAttemptFails(q)
  PROVE  WalletsInv'
<1>1. q \in Asks /\ q \notin TransferAsks
  BY WalletsAssumption DEF Asks
<1>2. PICK c \in Ask : c = asks[q] /\ c.at \in {"checked", "built"}
  BY <1>1, AskFields DEF SwapAttemptFails
<1>3. PICK a \in Ask : a = NextAttempt(c)
  BY NextAttemptType
<1>4. asks' = [asks EXCEPT ![q] = a] /\ UNCHANGED <<opened, wires>>
  BY <1>2, <1>3 DEF SwapAttemptFails
<1>5. a.to = c.to /\ a.lostAnswers = c.lostAnswers
      /\ ((a.at = "checked" /\ a.try = c.try + 1) \/ (a.at = "refused" /\ a.try = c.try))
  BY <1>3, NextAttemptType
<1>6. Reckoned(q, a, WiresOf(q))
  <2>1. Reckoned(q, c, WiresOf(q)) /\ c.try \in Nat
    BY <1>1, <1>2, WalletsAssumption DEF WalletsInv, SentSoFar, Ask, Attempts
  <2>2. c.try \notin WiresOf(q) /\ WiresOf(q) \subseteq 1..c.try
        /\ Cardinality(WiresOf(q)) = c.lostAnswers
    BY <1>2, <2>1 DEF Reckoned
  <2>3. WiresOf(q) \subseteq 1..a.try
    BY <1>5, <2>1, <2>2
  <2>4. a.at = "checked" => a.try \notin WiresOf(q)
    BY <1>5, <2>1, <2>2
  <2> QED BY <1>1, <1>5, <2>2, <2>3, <2>4 DEF Reckoned
<1> QED BY <1>1, <1>2, <1>4, <1>5, <1>6, AskDropped

LEMMA TransferGivenUp ==
  ASSUME WalletsInv, NEW q \in TransferAsks, TransferFails(q)
  PROVE  WalletsInv'
<1>1. q \in Asks /\ q \notin SwapAsks
  BY WalletsAssumption DEF Asks
<1>2. PICK c \in Ask : c = asks[q] /\ c.at \in {"checked", "built", "tracking"}
  BY <1>1, AskFields DEF TransferFails
<1>3. PICK a : a = [c EXCEPT !.at = "refused"]
  OBVIOUS
<1>4. /\ a \in Ask /\ a.at = "refused" /\ a.to = c.to /\ a.try = c.try
      /\ a.lostAnswers = c.lostAnswers
  BY <1>3 DEF Ask
<1>5. asks' = [asks EXCEPT ![q] = a] /\ UNCHANGED <<opened, wires>>
  BY <1>2, <1>3 DEF TransferFails
<1>6. Reckoned(q, a, WiresOf(q))
  <2>1. Reckoned(q, c, WiresOf(q))
    BY <1>1, <1>2 DEF WalletsInv, SentSoFar
  <2> QED BY <1>1, <1>2, <1>4, <2>1 DEF Reckoned
<1> QED BY <1>1, <1>2, <1>4, <1>5, <1>6, AskDropped

LEMMA TrackerTells ==
  ASSUME WalletsInv, NEW q \in TransferAsks, SendTxWithTracker(q)
  PROVE  WalletsInv'
<1>1. q \in Asks /\ q \notin SwapAsks
  BY WalletsAssumption DEF Asks
<1>2. PICK c \in Ask : c = asks[q] /\ c.at = "tracking"
  BY <1>1, AskFields DEF SendTxWithTracker, Goes
<1>3. PICK a : a = [c EXCEPT !.at = "told"]
  OBVIOUS
<1>4. /\ a \in Ask /\ a.at = "told" /\ a.to = c.to /\ a.try = c.try
      /\ a.lostAnswers = c.lostAnswers
  BY <1>3 DEF Ask
<1>5. asks' = [asks EXCEPT ![q] = a] /\ UNCHANGED <<opened, wires>>
  BY <1>2, <1>3 DEF SendTxWithTracker, Goes
<1>6. Reckoned(q, c, WiresOf(q)) /\ WiresOf(q)' = WiresOf(q)
  BY <1>1, <1>2, <1>5 DEF WalletsInv, SentSoFar, WiresOf
<1>7. Reckoned(q, a, WiresOf(q)')
  BY <1>1, <1>2, <1>4, <1>6 DEF Reckoned
<1>8. c.try = 1
  BY <1>6 DEF Reckoned
<1>9. wires'[<<q, 1>>].net = "landed"
  BY <1>2, <1>5, <1>8 DEF SendTxWithTracker, Wire
<1>10. wires' \in [Asks \X Attempts -> WireRow]
  BY <1>5 DEF WalletsInv, WalletsTyped
<1> QED BY <1>1, <1>2, <1>4, <1>5, <1>7, <1>9, <1>10, AskMoves

\* The transaction built is put out; the request goes on as it may.
LEMMA PutOut ==
  ASSUME WalletsInv, NEW q \in Asks, NEW c \in Ask, c = asks[q], c.at = "built", Taken(q),
         NEW a \in Ask, asks' = [asks EXCEPT ![q] = a], opened' = opened, a.to = c.to,
         a.at # "built", q \in TransferAsks => a.at # "told",
         \A sent : sent \subseteq 1..c.try /\ c.try \in sent
                   /\ Cardinality(sent) = c.lostAnswers + 1 => Reckoned(q, a, sent)
  PROVE  WalletsInv'
<1>1. PICK n \in Attempts : n = c.try
  BY DEF Ask
<1>2. PICK row : row = [net |-> "flying", code |-> c.code]
  OBVIOUS
<1>3. row \in WireRow /\ row.net # "unsent" /\ row.code = c.code
  BY <1>2 DEF WireRow, Ask
<1>4. wires' = [wires EXCEPT ![<<q, n>>] = row]
  BY <1>1, <1>2 DEF Taken, Wire
<1>5. /\ wires \in [Asks \X Attempts -> WireRow] /\ wires' \in [Asks \X Attempts -> WireRow]
      /\ wires'[<<q, n>>] = row
      /\ \A p \in Asks : \A i \in Attempts :
            p # q \/ i # n => wires'[<<p, i>>] = wires[<<p, i>>]
  BY <1>3, <1>4 DEF WalletsInv, WalletsTyped
<1>6. Reckoned(q, c, WiresOf(q))
  BY DEF WalletsInv, SentSoFar
<1>7. n \notin WiresOf(q) /\ WiresOf(q) \subseteq 1..n /\ Cardinality(WiresOf(q)) = c.lostAnswers
  BY <1>1, <1>6 DEF Reckoned
<1>8. WiresOf(q)' = WiresOf(q) \cup {n}
  BY <1>3, <1>5 DEF WiresOf
<1>9. Reckoned(q, a, WiresOf(q)')
  <2>1. IsFiniteSet(WiresOf(q)) /\ n \in 1..n
    BY AskFields, WalletsAssumption DEF Attempts
  <2>2. Cardinality(WiresOf(q) \cup {n}) = c.lostAnswers + 1
    <3>1. PICK sent : sent = WiresOf(q)
      OBVIOUS
    <3>2. IsFiniteSet(sent) /\ n \notin sent /\ Cardinality(sent) = c.lostAnswers
      BY <1>7, <2>1, <3>1
    <3>3. Cardinality(sent \cup {n}) = Cardinality(sent) + 1
      BY <3>2, FS_AddElement
    <3> QED BY <3>1, <3>2, <3>3
  <2> QED BY <1>1, <1>7, <1>8, <2>1, <2>2
<1>10. \A i \in Attempts : wires[<<q, i>>].net # "unsent" => wires'[<<q, i>>] = wires[<<q, i>>]
  BY <1>5, <1>7 DEF WiresOf
<1>11. asks'[q] = a
  BY DEF WalletsInv, WalletsTyped
<1>12. ASSUME NEW i \in Attempts, wires'[<<q, i>>].net # "unsent", wires[<<q, i>>].net = "unsent"
       PROVE  FitToSend(q, wires[<<q, i>>].code)'
  <2>1. i = n
    BY <1>5, <1>12
  <2>2. FitToSend(q, c.code)
    BY DEF WalletsInv, CodesFit
  <2>3. FitToSend(q, c.code)'
    BY <1>11, <2>2 DEF FitToSend
  <2>4. (wires[<<q, i>>].code)' = c.code
    BY <1>3, <1>5, <2>1
  <2> QED BY <2>3, <2>4 DEF FitToSend
<1> QED BY <1>5, <1>9, <1>10, <1>12, AskMoves

LEMMA Sent ==
  ASSUME WalletsInv, NEW q \in Asks, SendTransaction(q)
  PROVE  WalletsInv'
<1>1. PICK c \in Ask : c = asks[q] /\ c.at = "built"
  BY AskFields DEF SendTransaction, Goes
<1>2. PICK at \in {"tracking", "told"} : at = IF q \in TransferAsks THEN "tracking" ELSE "told"
  OBVIOUS
<1>3. PICK a : a = [c EXCEPT !.at = at]
  OBVIOUS
<1>4. a \in Ask /\ a.at = at /\ a.to = c.to /\ a.try = c.try /\ a.lostAnswers = c.lostAnswers
  BY <1>3 DEF Ask
<1>5. asks' = [asks EXCEPT ![q] = a] /\ Taken(q) /\ opened' = opened
  BY <1>1, <1>2, <1>3 DEF SendTransaction, Goes
<1>6. (q \in TransferAsks => at = "tracking") /\ (q \in SwapAsks => at = "told")
  BY <1>2, WalletsAssumption
<1>7. q \in TransferAsks => c.try = 1
  BY <1>1 DEF WalletsInv, SentSoFar, Reckoned
<1>8. ASSUME NEW sent, sent \subseteq 1..c.try, c.try \in sent,
             Cardinality(sent) = c.lostAnswers + 1
      PROVE  Reckoned(q, a, sent)
  BY <1>4, <1>6, <1>7, <1>8 DEF Reckoned
<1> QED BY <1>1, <1>4, <1>5, <1>6, <1>8, PutOut

LEMMA AnswerLost ==
  ASSUME WalletsInv, NEW q \in Asks, SendAnswerLost(q)
  PROVE  WalletsInv'
<1>1. PICK c \in Ask : c = asks[q] /\ c.at = "built"
  BY AskFields DEF SendAnswerLost
<1>2. PICK n \in Nat : n = c.lostAnswers + 1
  BY DEF Ask
<1>3. PICK b : b = [c EXCEPT !.lostAnswers = n]
  OBVIOUS
<1>4. b \in Ask /\ b.at = "built" /\ b.to = c.to /\ b.try = c.try /\ b.lostAnswers = n
  BY <1>1, <1>3 DEF Ask
<1>5. b = [asks[q] EXCEPT !.lostAnswers = @ + 1]
  BY <1>1, <1>2, <1>3
<1>6. c.try \in Nat
  BY WalletsAssumption DEF Ask, Attempts
<1>7. CASE q \in TransferAsks
  <2>1. PICK a : a = [b EXCEPT !.at = "refused"]
    OBVIOUS
  <2>2. a \in Ask /\ a.at = "refused" /\ a.to = c.to /\ a.try = c.try /\ a.lostAnswers = n
    BY <1>4, <2>1 DEF Ask
  <2>3. asks' = [asks EXCEPT ![q] = a] /\ Taken(q) /\ opened' = opened
    BY <1>5, <1>7, <2>1 DEF SendAnswerLost
  <2>4. q \notin SwapAsks /\ c.try = 1
    BY <1>1, <1>7, WalletsAssumption DEF WalletsInv, SentSoFar, Reckoned
  <2>5. ASSUME NEW sent, sent \subseteq 1..c.try, c.try \in sent,
               Cardinality(sent) = c.lostAnswers + 1
        PROVE  Reckoned(q, a, sent)
    BY <1>2, <2>2, <2>4, <2>5 DEF Reckoned
  <2> QED BY <1>1, <2>2, <2>3, <2>5, PutOut
<1>8. CASE q \notin TransferAsks
  <2>1. PICK a \in Ask : a = NextAttempt(b)
    BY <1>4, NextAttemptType
  <2>2. a.to = c.to /\ a.lostAnswers = n
        /\ ((a.at = "checked" /\ a.try = c.try + 1) \/ (a.at = "refused" /\ a.try = c.try))
    BY <1>4, <2>1, NextAttemptType
  <2>3. asks' = [asks EXCEPT ![q] = a] /\ Taken(q) /\ opened' = opened
    BY <1>5, <1>8, <2>1 DEF SendAnswerLost
  <2>4. ASSUME NEW sent, sent \subseteq 1..c.try, c.try \in sent,
               Cardinality(sent) = c.lostAnswers + 1
        PROVE  Reckoned(q, a, sent)
    <3>1. sent \subseteq 1..a.try
      BY <1>6, <2>2, <2>4
    <3>2. a.at = "checked" => a.try \notin sent
      BY <1>6, <2>2, <2>4
    <3> QED BY <1>2, <1>8, <2>2, <2>4, <3>1, <3>2 DEF Reckoned
  <2> QED BY <1>1, <1>8, <2>2, <2>3, <2>4, PutOut
<1> QED BY <1>7, <1>8

\* The chain takes a transaction or drops it; nothing else changes for a request.
LEMMA ChainMoves ==
  ASSUME WalletsInv, NEW w \in Asks \X Attempts, NEW net \in {"landed", "failed", "expired"},
         wires[w].net = "flying", wires' = [wires EXCEPT ![w].net = net],
         asks' = asks, opened \subseteq opened'
  PROVE  WalletsInv'
<1>1. PICK old \in WireRow : old = wires[w]
  BY DEF WalletsInv, WalletsTyped
<1>2. PICK new : new = [old EXCEPT !.net = net]
  OBVIOUS
<1>3. new \in WireRow /\ new.net = net /\ new.code = old.code
  BY <1>2 DEF WireRow
<1>4. wires' = [wires EXCEPT ![w] = new]
  BY <1>1, <1>2
<1>5. wires \in [Asks \X Attempts -> WireRow] /\ wires' \in [Asks \X Attempts -> WireRow]
      /\ wires'[w] = new /\ \A v \in (Asks \X Attempts) \ {w} : wires'[v] = wires[v]
  BY <1>3, <1>4 DEF WalletsInv, WalletsTyped
<1>6. \A v \in Asks \X Attempts :
         /\ wires'[v].code = wires[v].code
         /\ wires'[v].net # "unsent" <=> wires[v].net # "unsent"
         /\ wires[v].net = "landed" => wires'[v].net = "landed"
  BY <1>1, <1>3, <1>5
<1>7. WalletsTyped'
  BY <1>5 DEF WalletsInv, WalletsTyped
<1>8. \A q, code : FitToSend(q, code) => FitToSend(q, code)'
  BY DEF FitToSend
<1>9. CodesFit'
  <2>1. ASSUME NEW q \in Asks, asks'[q].at = "built" PROVE FitToSend(q, asks[q].code)'
    <3>1. FitToSend(q, asks[q].code)
      BY <2>1 DEF WalletsInv, CodesFit
    <3> QED BY <3>1 DEF FitToSend
  <2>2. ASSUME NEW q \in Asks, NEW n \in Attempts, wires'[<<q, n>>].net # "unsent"
        PROVE  asks'[q].at # "new" /\ FitToSend(q, wires[<<q, n>>].code)'
    <3>1. PICK code : code = wires[<<q, n>>].code
      OBVIOUS
    <3>2. asks[q].at # "new" /\ FitToSend(q, code)
      BY <1>6, <2>2, <3>1 DEF WalletsInv, CodesFit
    <3>3. (wires[<<q, n>>].code)' = code
      BY <1>6, <3>1
    <3> QED BY <1>8, <3>2, <3>3 DEF FitToSend
  <2> QED BY <2>1, <2>2 DEF CodesFit
<1>10. SentSoFar'
  <2>1. ASSUME NEW q \in Asks PROVE WiresOf(q)' = WiresOf(q)
    BY <1>6 DEF WiresOf
  <2> QED BY <2>1 DEF WalletsInv, SentSoFar, Reckoned
<1>11. TransfersLanded'
  <2>1. 1 \in Attempts
    BY WalletsAssumption DEF Attempts
  <2> QED BY <1>6, <2>1 DEF WalletsInv, TransfersLanded, Asks
<1> QED BY <1>7, <1>9, <1>10, <1>11 DEF WalletsInv

LEMMA WalletsRest == WalletsInv /\ UNCHANGED walletsVars => WalletsInv'
<1> SUFFICES ASSUME WalletsInv, UNCHANGED walletsVars PROVE WalletsInv'
  OBVIOUS
<1>1. asks' = asks /\ wires' = wires /\ opened' = opened
  BY DEF walletsVars
<1>2. WalletsTyped' /\ TransfersLanded'
  BY <1>1 DEF WalletsInv, WalletsTyped, TransfersLanded
<1>3. CodesFit'
  BY <1>1 DEF WalletsInv, CodesFit, FitToSend
<1>4. SentSoFar'
  BY <1>1 DEF WalletsInv, SentSoFar, Reckoned, WiresOf
<1> QED BY <1>2, <1>3, <1>4 DEF WalletsInv

LEMMA WalletsStep ==
  ASSUME WalletsInv, [WalletsNext]_walletsVars
  PROVE  WalletsInv'
<1>1. ASSUME NEW q \in TransferAsks, NEW u \in Owners, NEW to \in Addresses,
             NEW amount \in AskedSums, Transfer(q, u, to, amount)
      PROVE  WalletsInv'
  <2>1. q \in Asks /\ "usdc" \in Money /\ to \in Addresses \cup {"pool"}
    BY DEF Asks, Money
  <2>2. Asked(q, u, to, "usdc", amount) /\ UNCHANGED <<opened, wires>>
    BY <1>1 DEF Transfer
  <2> QED BY <2>1, <2>2, Requested
<1>2. ASSUME NEW q \in TransferAsks, ProceedTransfer(q) PROVE WalletsInv'
  BY <1>2, TransferBuilt
<1>3. ASSUME NEW q \in TransferAsks, SendTxWithTracker(q) PROVE WalletsInv'
  BY <1>3, TrackerTells
<1>4. ASSUME NEW q \in TransferAsks, TransferFails(q) PROVE WalletsInv'
  BY <1>4, TransferGivenUp
<1>5. ASSUME NEW q \in SwapAsks, NEW u \in Owners, NEW m \in Money, NEW amount \in AskedSums,
             Swap(q, u, m, amount)
      PROVE  WalletsInv'
  <2>1. q \in Asks /\ "pool" \in Addresses \cup {"pool"}
    BY DEF Asks
  <2>2. Asked(q, u, "pool", m, amount) /\ UNCHANGED <<opened, wires>>
    BY <1>5 DEF Swap
  <2> QED BY <2>1, <2>2, Requested
<1>6. ASSUME NEW q \in SwapAsks, SwapBuilt(q) PROVE WalletsInv'
  BY <1>6, SwapIsBuilt
<1>7. ASSUME NEW q \in SwapAsks, SwapAttemptFails(q) PROVE WalletsInv'
  BY <1>7, AttemptFails
<1>8. ASSUME NEW q \in Asks, SendTransaction(q) PROVE WalletsInv'
  BY <1>8, Sent
<1>9. ASSUME NEW q \in Asks, SendAnswerLost(q) PROVE WalletsInv'
  BY <1>9, AnswerLost
<1>10. ASSUME NEW w \in Asks \X Attempts, Reverts(w) PROVE WalletsInv'
  BY <1>10, ChainMoves DEF Reverts
<1>11. ASSUME NEW w \in Asks \X Attempts, Expires(w) PROVE WalletsInv'
  BY <1>11, ChainMoves DEF Expires
<1>12. ASSUME NEW w \in Asks \X Attempts, NEW m \in Money, Lands(w, m) PROVE WalletsInv'
  <2>1. /\ wires[w].net = "flying" /\ wires' = [wires EXCEPT ![w].net = "landed"]
        /\ asks' = asks /\ opened \subseteq opened'
    BY <1>12 DEF Lands
  <2> QED BY <2>1, ChainMoves
<1>13. CASE UNCHANGED walletsVars
  BY <1>13, WalletsRest
<1> QED
  BY <1>1, <1>2, <1>3, <1>4, <1>5, <1>6, <1>7, <1>8, <1>9, <1>10, <1>11, <1>12, <1>13
     DEF WalletsNext

LEMMA WalletsAnswer == WalletsInv => WalletsTell
<1> SUFFICES ASSUME WalletsInv PROVE WalletsTell
  OBVIOUS
<1>1. AnswersTrue
  <2> SUFFICES ASSUME NEW q \in Asks, NEW sent, sent = WiresOf(q)
               PROVE  /\ asks[q].at = "told" =>
                           /\ wires[Wire(q)].net # "unsent"
                           /\ q \in TransferAsks => wires[Wire(q)].net = "landed"
                      /\ Cardinality(sent) <= asks[q].lostAnswers
                           + (IF asks[q].at \in {"told", "tracking", "refused"} THEN 1 ELSE 0)
                      /\ q \in SwapAsks /\ asks[q].at # "told" =>
                           Cardinality(sent) = asks[q].lostAnswers
                      /\ q \in TransferAsks => Cardinality(sent) <= 1
    BY DEF AnswersTrue
  <2>1. Reckoned(q, asks[q], sent)
    BY DEF WalletsInv, SentSoFar
  <2>2. /\ asks[q].try \in Attempts /\ asks[q].lostAnswers \in Nat
        /\ IsFiniteSet(sent) /\ Cardinality(sent) \in Nat
    BY AskFields
  <2>3. asks[q].at \in {"new", "checked", "built", "tracking", "told", "refused"}
    BY AskFields DEF Ask
  <2>4. asks[q].at = "told" => wires[Wire(q)].net # "unsent"
    BY <2>1 DEF Reckoned, WiresOf, Wire
  <2>5. q \in TransferAsks /\ asks[q].at = "told" => wires[Wire(q)].net = "landed"
    BY <2>1 DEF WalletsInv, TransfersLanded, Reckoned, Wire
  <2>6. Cardinality(sent) <= asks[q].lostAnswers + 1
    BY <2>1, <2>2, <2>3 DEF Reckoned
  <2>7. asks[q].at \notin {"told", "tracking", "refused"} =>
           Cardinality(sent) = asks[q].lostAnswers
    BY <2>1, <2>3 DEF Reckoned
  <2>8. q \in SwapAsks /\ asks[q].at # "told" => Cardinality(sent) = asks[q].lostAnswers
    BY <2>1, <2>3 DEF Reckoned
  <2>9. q \in TransferAsks => Cardinality(sent) <= 1
    <3>1. SUFFICES ASSUME q \in TransferAsks PROVE Cardinality(sent) <= 1
      OBVIOUS
    <3>2. sent \in SUBSET {1}
      BY <2>1, <3>1 DEF Reckoned
    <3>3. IsFiniteSet({1}) /\ Cardinality({1}) = 1
      BY FS_Singleton
    <3> QED BY <3>2, <3>3, FS_Subset
  <2>10. Cardinality(sent) <= asks[q].lostAnswers
           + (IF asks[q].at \in {"told", "tracking", "refused"} THEN 1 ELSE 0)
    <3>1. PICK more \in {0, 1} :
             more = IF asks[q].at \in {"told", "tracking", "refused"} THEN 1 ELSE 0
      OBVIOUS
    <3>2. more = 0 => Cardinality(sent) = asks[q].lostAnswers
      BY <2>7, <3>1
    <3>3. Cardinality(sent) <= asks[q].lostAnswers + more
      BY <2>2, <2>6, <3>2
    <3> QED BY <3>1, <3>3
  <2> QED BY <2>4, <2>5, <2>8, <2>9, <2>10
<1>2. WiresWellFormed
  <2>1. ASSUME NEW w \in Asks \X Attempts, wires[w].net # "unsent"
        PROVE  \A b \in Budget : wires[w].code[b] = 1
    <3>1. PICK q \in Asks, n \in Attempts : w = <<q, n>>
      OBVIOUS
    <3> QED BY <2>1, <3>1 DEF WalletsInv, CodesFit, FitToSend
  <2>2. ASSUME NEW q \in TransferAsks, NEW n \in WiresOf(q)
        PROVE  wires[<<q, n>>].code["open"] = 1 \/ <<asks[q].to, "usdc">> \in opened
    <3>1. q \in Asks /\ n \in Attempts /\ wires[<<q, n>>].net # "unsent"
      BY DEF Asks, WiresOf
    <3> QED BY <3>1 DEF WalletsInv, CodesFit, FitToSend
  <2> QED BY <2>1, <2>2, RoomCodesFit DEF WiresWellFormed
<1> QED BY <1>1, <1>2 DEF WalletsTell

\* A signature that is answered is of a transaction that moved the money, or for a swap was
\* taken; no second one is put out unless the answer to the first was lost; and whatever is
\* put out has one price, one limit and an account to arrive at (sendTxWithTracker, Swap,
\* proceedTransfer, RemoveComputeBudgetInstructionsFromTx, GetTxInstructions).
THEOREM WalletsTellTheTruth == WalletsSpec => []WalletsTell
<1>1. WalletsSpec => []WalletsInv
  BY WalletsStart, WalletsStep, PTL DEF WalletsSpec
<1> QED
  BY <1>1, WalletsAnswer, PTL
-----------------------------------------------------------------------------
(***************************************************************************)
(* Types of tasks, in the table and in the copies requests hold.           *)
(***************************************************************************)
UserRead == [balance : Nat, level : Nat, xp : Nat, email : BOOLEAN, lastStreak : Nat, streak : Nat]

TasksTyped ==
    /\ user \in UserRead /\ done \in [Tasks -> TaskRow]
    /\ \A h \in Handlers : req[h].user \in UserRead

LEMMA RowRead ==
    ASSUME day \in Nat, NEW u, u = [c \in Columns |-> u[c]], UserSound(u),
           u.level \in Nat, u.xp \in Nat
    PROVE  u \in UserRead
<1>1. /\ u.balance \in Nat /\ u.email \in BOOLEAN /\ u.streak \in Nat
      /\ u.lastStreak \in Nat
  BY DEF UserSound
<1>2. u = [c \in {"balance", "level", "xp", "email", "lastStreak", "streak"} |-> u[c]]
  BY DEF Columns
<1>3. QED BY <1>1, <1>2 DEF UserRead

\* The step of a request, by what it leaves behind.
LEMMA TypedStep ==
    ASSUME TasksInv, TasksInv', TasksTyped, NEW h \in Handlers, NEW r, Become(h, r),
           r.user \in UserRead, user' \in UserRead,
           done' = done \/ \E t \in Tasks : \E row : done' = [done EXCEPT ![t] = row]
    PROVE  TasksTyped'
<1>1. done' \in [Tasks -> TaskRow]
  <2>1. CASE done' = done
    BY <2>1 DEF TasksTyped
  <2>2. CASE \E t \in Tasks : \E row : done' = [done EXCEPT ![t] = row]
    <3>1. PICK t \in Tasks : \E row : done' = [done EXCEPT ![t] = row]
      BY <2>2
    <3>5. PICK row : done' = [done EXCEPT ![t] = row]
      BY <3>1
    <3>2. done'[t] \in TaskRow
      BY DEF TasksInv, TablesSound, RowSound
    <3>3. done'[t] = row
      BY <3>5 DEF TasksTyped
    <3> QED BY <3>5, <3>2, <3>3 DEF TasksTyped
  <2> QED BY <2>1, <2>2
<1>2. \A g \in Handlers : req'[g] = IF g = h THEN r ELSE req[g]
  BY DEF TasksInv, Become
<1>3. \A g \in Handlers : req'[g].user \in UserRead
  BY <1>2 DEF TasksTyped
<1>4. QED BY <1>1, <1>3 DEF TasksTyped

LEMMA NobodyRead == NoUser \in UserRead /\ Idle.user = NoUser
BY DEF NoUser, UserRead, Idle

\* Reading leaves the row alone.
LEMMA ReadsTyped ==
    ASSUME TasksInv, TasksInv', TasksTyped, NEW h \in Handlers,
           \/ \E t \in Tasks : Complete(h, t) \/ ClaimReward(h, t) \/ GetUnclaimedRewards(h, t)
           \/ CompletedByUserID(h) \/ GetLevelAndXP(h) \/ Fails(h)
    PROVE  TasksTyped'
<1>1. user' = user /\ done' = done
  BY DEF Complete, ClaimReward, GetUnclaimedRewards, CompletedByUserID, GetLevelAndXP, Fails
<1>2. PICK u : u = user /\ u \in UserRead
  BY DEF TasksTyped
<1>3. DOMAIN req[h] = RequestFields /\ req[h].user \in UserRead
  BY DEF TasksInv, RequestSound, TasksTyped
<1>4. PICK r : Become(h, r) /\ r.user \in UserRead
  <2>1. ASSUME NEW t \in Tasks, Complete(h, t) \/ ClaimReward(h, t) \/ GetUnclaimedRewards(h, t)
        PROVE  \E r : Become(h, r) /\ r.user \in UserRead
    <3>1. PICK pc, work, row, n, r :
             /\ Become(h, r)
             /\ \/ r = [Idle EXCEPT !.pc = pc, !.job = work, !.task = t, !.row = row]
                \/ r = [Idle EXCEPT !.pc = pc, !.job = work, !.task = t, !.seen = n]
      BY <2>1 DEF Complete, ClaimReward, GetUnclaimedRewards
    <3>2. r.user = NoUser
      BY <3>1 DEF Idle
    <3>3. QED BY <3>1, <3>2, NobodyRead
  <2>2. CASE CompletedByUserID(h)
    <3>1. PICK row, r : /\ Become(h, r)
                        /\ \/ r = Idle
                           \/ r = [req[h] EXCEPT !.pc = "level", !.seen = 0, !.row = row]
      BY <2>2 DEF CompletedByUserID
    <3>2. r = Idle \/ r.user = req[h].user
      BY <1>3, <3>1 DEF RequestFields
    <3>3. QED BY <1>3, <3>1, <3>2, NobodyRead
  <2>3. CASE GetLevelAndXP(h)
    <3>1. PICK v : v = [NoUser EXCEPT !.level = u.level, !.xp = u.xp]
      OBVIOUS
    <3>2. v = [balance |-> 0, level |-> u.level, xp |-> u.xp, email |-> FALSE,
               lastStreak |-> 0, streak |-> 0]
      BY <3>1 DEF NoUser
    <3>3. v \in UserRead
      BY <1>2, <3>2 DEF UserRead
    <3>4. PICK r : Become(h, r) /\ r = [req[h] EXCEPT !.pc = "give", !.user = v]
      BY <1>2, <2>3, <3>1 DEF GetLevelAndXP
    <3>5. r.user = v
      BY <1>3, <3>4 DEF RequestFields
    <3>6. QED BY <3>3, <3>4, <3>5
  <2>4. CASE Fails(h)
    BY <2>4, NobodyRead DEF Fails
  <2>5. QED BY <2>1, <2>2, <2>3, <2>4
<1>5. QED BY <1>1, <1>2, <1>4, TypedStep

\* A copy of the row with another streak or an email.
LEMMA CopiesTyped ==
    ASSUME TasksInv, TasksInv', TasksTyped, NEW h \in Handlers,
           CompleteDailyStreakTask(h) \/ CompleteSignInEmail(h)
    PROVE  TasksTyped'
<1>1. user' = user /\ done' = done
  BY DEF CompleteDailyStreakTask, CompleteSignInEmail
<1>2. PICK u : u = user /\ u \in UserRead
  BY DEF TasksTyped
<1>3. PICK r : Become(h, r) /\ r.user \in UserRead
  <2>1. CASE CompleteDailyStreakTask(h)
    <3>1. day \in Nat /\ DayStreak(u) \in Nat
      BY <1>2 DEF TasksInv, UserRead, DayStreak
    <3>2. PICK v : v = [u EXCEPT !.lastStreak = day, !.streak = DayStreak(u)]
      OBVIOUS
    <3>3. v \in UserRead
      BY <1>2, <3>1, <3>2 DEF UserRead
    <3>4. PICK m, r : /\ Become(h, r)
                      /\ r = [Idle EXCEPT !.pc = "streak", !.job = "streak",
                                          !.task = TaskCompletDailyStreak,
                                          !.multiplier = m, !.user = v]
      BY <1>2, <2>1, <3>2 DEF CompleteDailyStreakTask
    <3>5. r.user = v
      BY <3>4 DEF Idle
    <3>6. QED BY <3>3, <3>4, <3>5
  <2>2. CASE CompleteSignInEmail(h)
    <3>1. PICK v : v = [u EXCEPT !.email = TRUE]
      OBVIOUS
    <3>2. v \in UserRead
      BY <1>2, <3>1, TRUE \in BOOLEAN DEF UserRead
    <3>3. PICK r : Become(h, r) /\ r = [Idle EXCEPT !.pc = "email", !.job = "email", !.user = v]
      BY <1>2, <2>2, <3>1 DEF CompleteSignInEmail
    <3>4. r.user = v
      BY <3>3 DEF Idle
    <3>5. QED BY <3>2, <3>3, <3>4
  <2>3. QED BY <2>1, <2>2
<1>4. QED BY <1>1, <1>2, <1>3, TypedStep

\* A completion, and a row written back with it.
LEMMA CompletionsTyped ==
    ASSUME TasksInv, TasksInv', TasksTyped, NEW h \in Handlers,
           CompleteUpdate(h) \/ StreakUpdate(h) \/ AttachEmail(h)
    PROVE  TasksTyped'
<1>1. PICK u \in UserRead, v \in UserRead : u = user /\ v = req[h].user
  BY DEF TasksTyped
<1>2. Become(h, Idle)
  BY DEF CompleteUpdate, StreakUpdate, AttachEmail
<1>3. done' = done \/ \E t \in Tasks : \E row : done' = [done EXCEPT ![t] = row]
  <2>1. req[h].task \in Tasks /\ TaskSignUp \in Tasks
    BY DEF TasksInv, RequestSound
  <2>2. CompleteUpdate(h) =>
          \E row : done' = [done EXCEPT ![req[h].task] = row]
    BY Zenon DEF CompleteUpdate
  <2>3. StreakUpdate(h) =>
          done' = done \/ \E row : done' = [done EXCEPT ![req[h].task] = row]
    BY Zenon DEF StreakUpdate
  <2>4. AttachEmail(h) => \E row : done' = [done EXCEPT ![TaskSignUp] = row]
    BY Zenon DEF AttachEmail
  <2>5. QED BY <2>1, <2>2, <2>3, <2>4
<1>4. PICK w : w = WriteBack(v)
  OBVIOUS
<1>5. w \in UserRead
  <2>1. w = [c \in {"balance", "level", "xp", "email", "lastStreak", "streak"} |->
                IF v[c] = NoUser[c] THEN u[c] ELSE v[c]]
    BY <1>1, <1>4 DEF WriteBack, UserRead
  <2>2. /\ w.balance \in {u.balance, v.balance} /\ w.level \in {u.level, v.level}
        /\ w.xp \in {u.xp, v.xp} /\ w.email \in {u.email, v.email}
        /\ w.lastStreak \in {u.lastStreak, v.lastStreak} /\ w.streak \in {u.streak, v.streak}
    BY <2>1
  <2>3. /\ w.balance \in Nat /\ w.level \in Nat /\ w.xp \in Nat /\ w.email \in BOOLEAN
        /\ w.lastStreak \in Nat /\ w.streak \in Nat
    BY <2>2 DEF UserRead
  <2>4. w = [c \in {"balance", "level", "xp", "email", "lastStreak", "streak"} |-> w[c]]
    BY <2>1
  <2>5. QED BY <2>3, <2>4 DEF UserRead
<1>6. user' \in UserRead
  <2>1. CASE CompleteUpdate(h)
    BY <1>1, <2>1 DEF CompleteUpdate
  <2>2. CASE StreakUpdate(h)
    BY <1>1, <1>4, <1>5, <2>2 DEF StreakUpdate
  <2>3. CASE AttachEmail(h)
    <3>1. PICK n \in Nat : n = w.balance + Reward[TaskSignUp]
      BY <1>5 DEF UserRead
    <3>2. user' = [w EXCEPT !.balance = n]
      BY <1>1, <1>4, <2>3, <3>1 DEF AttachEmail
    <3>3. QED BY <1>5, <3>2 DEF UserRead
  <2>4. QED BY <2>1, <2>2, <2>3
<1>7. QED BY <1>2, <1>3, <1>6, NobodyRead, TypedStep

\* A claim climbs to a level the XP read is enough for.
LEMMA PaymentsTyped ==
    ASSUME EveryLevelHasXP, TasksInv, TasksInv', TasksTyped, NEW h \in Handlers,
           Claim(h) \/ UpdateCompletedTaskLimits(h)
    PROVE  TasksTyped'
<1>1. PICK u \in UserRead, v \in UserRead, r \in {req[h]} : u = user /\ r = req[h] /\ v = r.user
  BY DEF TasksTyped
<1>2. Become(h, Idle)
  BY DEF Claim, UpdateCompletedTaskLimits
<1>3. done' = done \/ \E t \in Tasks : \E row : done' = [done EXCEPT ![t] = row]
  <2>1. r.task \in Tasks /\ DOMAIN done = Tasks
    BY <1>1 DEF TasksInv, RequestSound, TablesSound
  <2>2. PICK row : \/ row = [done[r.task] EXCEPT !.claimed = done[r.task].count] /\ Claim(h)
                   \/ row = [done[r.task] EXCEPT !.count = 0, !.claimed = 0]
                        /\ UpdateCompletedTaskLimits(h)
    OBVIOUS
  <2>3. done' = [done EXCEPT ![r.task] = row]
    BY <1>1, <2>1, <2>2 DEF Claim, UpdateRewardClaimed, UpdateCompletedTaskLimits
  <2>4. QED BY <2>1, <2>3
<1>4. user' = user \/ user' = GiveReward(r)
  BY <1>1 DEF Claim, UpdateCompletedTaskLimits
<1>5. GiveReward(r) \in UserRead
  <2>1. PICK a \in Nat, b \in Nat : a = BalanceReward(r) /\ b = XPReward(r)
    BY <1>1, GivenSound DEF TasksInv
  <2>2. PICK l \in Nat, xp \in Nat : l = v.level /\ xp = v.xp + b
    BY DEF UserRead
  <2>3. PICK n, y : n = Climbed(l, xp) /\ y = xp - LevelsXP(l, n)
    OBVIOUS
  <2>4. l + n \in Nat /\ y \in Nat
    BY <2>3, LevelsKeepXP
  <2>5. PICK m \in Nat, e \in Nat : m = l + n /\ e = u.balance + a
    BY <2>4 DEF UserRead
  <2>6. GiveReward(r) = [u EXCEPT !.balance = e, !.level = m, !.xp = y]
    BY <1>1, <2>1, <2>2, <2>3, <2>5 DEF GiveReward
  <2>7. QED BY <2>4, <2>5, <2>6 DEF UserRead
<1>6. QED BY <1>1, <1>2, <1>3, <1>4, <1>5, NobodyRead, TypedStep

LEMMA TasksStayTyped ==
    ASSUME EveryLevelHasXP
    PROVE  TasksInv /\ TasksTyped /\ [Next]_vars => TasksTyped'
<1> SUFFICES ASSUME TasksInv, TasksTyped, [Next]_vars PROVE TasksTyped'
  OBVIOUS
<1>1. TasksInv'
  BY TasksStep
<1>2. CASE Midnight \/ UNCHANGED vars
  BY <1>2 DEF TasksTyped, Midnight, vars
<1>3. ASSUME NEW h \in Handlers,
             \/ \E t \in Tasks : Complete(h, t) \/ ClaimReward(h, t) \/ GetUnclaimedRewards(h, t)
             \/ CompletedByUserID(h) \/ GetLevelAndXP(h) \/ Fails(h)
      PROVE  TasksTyped'
  BY <1>1, <1>3, ReadsTyped
<1>4. ASSUME NEW h \in Handlers, CompleteDailyStreakTask(h) \/ CompleteSignInEmail(h)
      PROVE  TasksTyped'
  BY <1>1, <1>4, CopiesTyped
<1>5. ASSUME NEW h \in Handlers, CompleteUpdate(h) \/ StreakUpdate(h) \/ AttachEmail(h)
      PROVE  TasksTyped'
  BY <1>1, <1>5, CompletionsTyped
<1>6. ASSUME NEW h \in Handlers, Claim(h) \/ UpdateCompletedTaskLimits(h) PROVE TasksTyped'
  BY <1>1, <1>6, PaymentsTyped
<1>7. QED BY <1>2, <1>3, <1>4, <1>5, <1>6, Zenon DEF Next

LEMMA TasksStartTyped == Init => TasksTyped
<1> SUFFICES ASSUME Init PROVE TasksTyped
  OBVIOUS
<1>1. PICK b \in Nat : b = InitialBalance
  OBVIOUS
<1>2. user = [balance |-> b, level |-> 0, xp |-> 0, email |-> FALSE, lastStreak |-> 0, streak |-> 1]
  BY <1>1 DEF Init, NoUser
<1>3. user \in UserRead
  BY <1>2 DEF UserRead
<1>4. NoRow \in TaskRow
  BY DEF NoRow, TaskRow
<1>5. done \in [Tasks -> TaskRow] /\ \A h \in Handlers : req[h].user \in UserRead
  BY <1>4, NobodyRead DEF Init
<1>6. QED BY <1>3, <1>5 DEF TasksTyped

\* A streak is no longer than the calendar.
LEMMA TypedTasks == TasksInv /\ TasksTyped => TypeOK
<1> SUFFICES ASSUME TasksInv, TasksTyped PROVE TypeOK
  OBVIOUS
<1>1. PICK u \in UserRead : u = user
  BY DEF TasksTyped
<1>2. u.lastStreak \in 0..LastDay /\ u.streak \in 1..LastDay
  <2>1. /\ day \in 2..LastDay /\ u.lastStreak \in {0} \cup 2..day /\ u.streak \in Nat \ {0}
        /\ u.streak = 1 \/ u.streak < u.lastStreak
    BY <1>1 DEF TasksInv, UserSound
  <2>2. QED BY <2>1
<1>3. u \in UserRow
  BY <1>2 DEF UserRead, UserRow
<1>4. QED BY <1>1, <1>3 DEF TasksInv, TasksTyped, TablesSound, TypeOK
-----------------------------------------------------------------------------
(***************************************************************************)
(* The five components side by side.                                       *)
(***************************************************************************)
HeldTyped == held \in [Holders -> [Money -> Nat]]

\* A balance is set.
LEMMA HoldingSet ==
  ASSUME NEW f \in [Holders -> [Money -> Nat]], NEW h \in Holders, NEW m \in Money, NEW n \in Nat
  PROVE  [f EXCEPT ![h][m] = n] \in [Holders -> [Money -> Nat]]
<1>1. PICK g : g = [f[h] EXCEPT ![m] = n]
  OBVIOUS
<1>2. g \in [Money -> Nat]
  BY <1>1
<1>3. [f EXCEPT ![h][m] = n] = [f EXCEPT ![h] = g]
  BY <1>1
<1> QED BY <1>2, <1>3

LEMMA HeldNumber ==
  ASSUME NEW f \in [Holders -> [Money -> Nat]], NEW h \in Holders, NEW m \in Money
  PROVE  f[h][m] \in Nat
OBVIOUS

\* What lands moves what was there.
LEMMA HeldStaysTyped == WalletsInv /\ HeldTyped /\ [WalletsNext]_walletsVars => HeldTyped'
<1> SUFFICES ASSUME WalletsInv, HeldTyped, [WalletsNext]_walletsVars PROVE HeldTyped'
  OBVIOUS
<1>1. ASSUME NEW w \in Asks \X Attempts, NEW mint \in Money, Lands(w, mint) PROVE HeldTyped'
  <2>1. PICK q \in Asks, k \in Attempts : w = <<q, k>> /\ w[1] = q
    OBVIOUS
  <2>2. PICK a \in Ask : a = asks[q]
    <3>1. asks[q].at # "new"
      BY <1>1, <2>1 DEF Lands, WalletsInv, CodesFit
    <3> QED BY <3>1 DEF WalletsInv, WalletsTyped, NewAsk
  <2>3. /\ a.user \in Holders /\ a.to \in Holders /\ a.from \in Money /\ a.amount \in Nat
    BY DEF Ask, Holders, Addresses
  <2>4. PICK f \in [Holders -> [Money -> Nat]] : f = held
    BY DEF HeldTyped
  <2>5. f[a.user][a.from] \in Nat /\ f[a.user][a.from] >= a.amount
    BY <1>1, <2>1, <2>2, <2>3, <2>4, HeldNumber DEF Lands, Runs
  <2>6. PICK left \in Nat : left = f[a.user][a.from] - a.amount
    BY <2>3, <2>5
  <2>7. PICK paid \in [Holders -> [Money -> Nat]] : paid = [f EXCEPT ![a.user][a.from] = left]
    BY <2>3, HoldingSet
  <2>8. paid = [held EXCEPT ![a.user][a.from] = @ - a.amount]
    BY <2>4, <2>6, <2>7
  <2>9. PICK n \in Nat : n = paid[a.to][a.from] + a.amount
    BY <2>3, HeldNumber
  <2>10. PICK got \in [Holders -> [Money -> Nat]] : got = [paid EXCEPT ![a.to][a.from] = n]
    BY <2>3, HoldingSet
  <2>11. PICK m \in Nat : m = got[a.user][mint] + 1
    BY <2>3, HeldNumber
  <2>12. [got EXCEPT ![a.user][mint] = m] \in [Holders -> [Money -> Nat]]
    BY <2>3, HoldingSet
  <2>13. held' = got \/ held' = [got EXCEPT ![a.user][mint] = m]
    BY <1>1, <2>1, <2>2, <2>8, <2>9, <2>10, <2>11 DEF Lands
  <2> QED BY <2>12, <2>13 DEF HeldTyped
<1>2. CASE ~ \E w \in Asks \X Attempts : \E m \in Money : Lands(w, m)
  <2>1. held' = held
    BY <1>2 DEF WalletsNext, walletsVars, Transfer, ProceedTransfer, SendTxWithTracker, TransferFails,
                Swap, SwapBuilt, SwapAttemptFails, SendTransaction, SendAnswerLost, Reverts, Expires
  <2> QED BY <2>1 DEF HeldTyped
<1> QED BY <1>1, <1>2

LEMMA TypedWallets == WalletsInv /\ HeldTyped => WalletsTypeOK
<1> SUFFICES ASSUME WalletsInv, HeldTyped PROVE WalletsTypeOK
  OBVIOUS
<1>1. \A h \in Holders : \A m \in Money : held[h][m] \in Nat
  BY DEF HeldTyped
<1>2. \A q \in Asks : asks[q].at \in {"new", "checked", "built", "tracking", "told", "refused"}
  BY DEF WalletsInv, WalletsTyped, NewAsk, Ask
<1>3. \A w \in Asks \X Attempts :
        wires[w].net \in {"unsent", "flying", "landed", "failed", "expired"}
  BY DEF WalletsInv, WalletsTyped, WireRow
<1> QED BY <1>1, <1>2, <1>3 DEF WalletsTypeOK

\* The clock of the prices stops at its bound.
ClockBound == clock \in 0..Horizon

LEMMA ClockStaysBound == ClockBound /\ [PriceDuelsNext]_priceDuelsVars => ClockBound'
<1> SUFFICES ASSUME ClockBound, [PriceDuelsNext]_priceDuelsVars PROVE ClockBound'
  OBVIOUS
<1>1. ASSUME NEW p, PriceMoves(p) PROVE ClockBound'
  <2>1. clock < Horizon /\ clock' = clock + 1
    BY <1>1 DEF PriceMoves
  <2> QED BY <2>1, PriceDuelsAssumption DEF ClockBound
<1>2. CASE ~ \E p \in Levels \cap {price - 1, price, price + 1} : PriceMoves(p)
  <2>1. clock' = clock
    BY <1>2 DEF PriceDuelsNext, priceDuelsVars, CreateDuelsBulk, CreateDuelsWithJoin,
                CreateDuelsFails, ResolveBeforeEventDate, ResolveOnEventDate, JoinPriceDuel,
                GetHighLowHourly, RunEnds
  <2> QED BY <2>1 DEF ClockBound
<1> QED BY <1>1, <1>2

LEMMA TypedPrices == PricesInv /\ ClockBound => PriceDuelsTypeOK
<1> SUFFICES ASSUME PricesInv, ClockBound PROVE PriceDuelsTypeOK
  OBVIOUS
<1>1. \A d \in Slots : auto[d].status \in {"none", "inProcess", "resolved", "cancelled"}
  BY DEF PricesInv, DuelsTyped, NoAuto, Live, Closed
<1> QED BY <1>1 DEF PricesInv, PricesTyped, ClockBound, PriceDuelsTypeOK

LEMMA TypedTournament == TournamentInv => TournamentTypeOK
<1> SUFFICES ASSUME TournamentInv PROVE TournamentTypeOK
  OBVIOUS
<1>1. \A t \in Tournaments : playersCount[t] \in Nat /\ participants[t] \subseteq Contestants
  BY DEF TournamentInv, BoardTyped
<1>2. \A p \in Places :
        board[p].total \in Nat /\ board[p].spent \in Nat /\ board[p].earned \in Nat
  BY DEF TournamentInv, BoardTyped, Record
<1>3. \A d \in Contests : contest[d].tournament \in Tournaments \cup {NoTournament}
  BY DEF TournamentInv, BoardTyped
<1> QED BY <1>1, <1>2, <1>3 DEF TournamentTypeOK

\* Every component keeps its types while the others rest, the balances on the chain and the
\* rows that are written back from copies among them; levels need that every level has XP
\* (calculateLevelXP).
THEOREM CommunityTypesKept ==
    ASSUME EveryLevelHasXP
    PROVE  CommunitySpec => []CommunityTypeOK
<1> DEFINE TypedInv == /\ TasksInv /\ TasksTyped /\ AccountsInv /\ TournamentInv
                       /\ WalletsInv /\ HeldTyped /\ PricesInv /\ ClockBound
<1>1. CommunityInit => TypedInv
  <2> SUFFICES ASSUME CommunityInit PROVE TypedInv
    OBVIOUS
  <2>1. Init /\ AccountsInit /\ TournamentInit /\ WalletsInit /\ PriceDuelsInit
    BY DEF CommunityInit
  <2>2. HeldTyped
    <3>1. Endowment \in Nat /\ 0 \in Nat
      BY WalletsAssumption
    <3> QED BY <2>1, <3>1 DEF WalletsInit, HeldTyped
  <2>3. ClockBound
    BY <2>1, PriceDuelsAssumption DEF PriceDuelsInit, ClockBound
  <2>4. TasksInv /\ TasksTyped
    BY <2>1, TasksInit, TasksStartTyped
  <2>5. AccountsInv /\ TournamentInv /\ WalletsInv /\ PricesInv
    BY <2>1, InvInit, TournamentStarts, WalletsStart, InitKeeps
  <2> QED BY <2>2, <2>3, <2>4, <2>5
<1>2. TypedInv /\ [CommunityNext]_communityVars => TypedInv'
  <2> SUFFICES ASSUME TypedInv, [CommunityNext]_communityVars PROVE TypedInv'
    OBVIOUS
  <2>1. /\ [Next]_vars /\ [AccountsNext]_accountsVars /\ [TournamentNext]_tournamentVars
        /\ [WalletsNext]_walletsVars /\ [PriceDuelsNext]_priceDuelsVars
    BY DEF CommunityNext, communityVars
  <2>2. (TasksInv /\ TasksTyped)'
    BY <2>1, TasksStep, TasksStayTyped
  <2>3. (AccountsInv /\ TournamentInv)'
    BY <2>1, InvNext, TournamentStep
  <2>4. (WalletsInv /\ HeldTyped)'
    BY <2>1, WalletsStep, HeldStaysTyped
  <2>5. PricesInv' /\ ClockBound'
    BY <2>1, NextKeeps, StutterKeeps, ClockStaysBound
  <2> QED BY <2>2, <2>3, <2>4, <2>5
<1>3. TypedInv => CommunityTypeOK
  BY TypedTasks, InvHolds, TypedTournament, TypedWallets, TypedPrices DEF CommunityTypeOK
<1> QED
  BY <1>1, <1>2, <1>3, PTL DEF CommunitySpec
=============================================================================
