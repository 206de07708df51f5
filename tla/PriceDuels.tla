----------------------------- MODULE PriceDuels -----------------------------
(***************************************************************************)
(* Duels about the price of a coin: created by cron around the price of    *)
(* the moment, settled by cron early, when the price got to the target, or *)
(* by the price after the event date. internal/cron/duel_cron.go,          *)
(* service/duel_auto_creation.go, the price lookups of coin_service.go and *)
(* CryptoDuelInfo of model/duel.go.                                        *)
(*                                                                         *)
(* Early settlement looks at the high and the low of the last full hour,   *)
(* so it learns late that the price got there; whoever joined less than    *)
(* ResolveJoinNotBefore ago is refunded instead of paid.  How the money    *)
(* moves is DuckDuel's and CryptoDuel's.                                   *)
(***************************************************************************)
EXTENDS Integers, FiniteSets

CONSTANTS
    Levels,               \* prices
    Grain,                \* what rounding to two leading digits leaves of them
    CoinPriceDiff,        \* from the price to a target
    HourTicks,            \* length of an hour
    EventAfter,           \* from creation to the event date
    ResolveJoinNotBefore,
    MaxLag,               \* how long a run of cron may take
    Bettors, House,       \* users, the owner of these duels among them
    MaxBets, MaxSettled,  \* bounds: seats besides the owner's, settlements,
    MaxLookups, CreateBy, \* lookups of the hour, the clock at creation
    Horizon               \* and ever

ASSUME PriceDuelsAssumption ==
    /\ Levels \subseteq Nat \ {0} /\ Grain \in Nat \ {0} /\ CoinPriceDiff \in Nat
    /\ HourTicks \in Nat \ {0} /\ EventAfter \in Nat /\ EventAfter > 2 * HourTicks
    /\ MaxLag \in Nat /\ MaxBets \in Nat /\ MaxSettled \in Nat /\ MaxLookups \in Nat
    /\ ResolveJoinNotBefore \in Nat /\ CreateBy \in Nat /\ Horizon \in Nat
    /\ House \in Bettors

\* Deployment values, which the properties rest on: the difference outweighs the rounding,
\* and the time before which a seat counts covers what the price lookup cannot see.
ASSUME PriceDuelsDeployment ==
    /\ 2 * CoinPriceDiff > Grain
    /\ ResolveJoinNotBefore >= 2 * HourTicks - 1 + MaxLag

VARIABLES
    clock, price,
    forming, \* high and low of this hour so far
    bar,     \* of the last full hour
    auto,    \* the duels, by direction and payment
    bets,    \* their seats: answer and time
    made,    \* how far the creating run got, and the price it read
    run,     \* each early settlement: the hour it read, and when
    lookups, \* so far
    seen     \* history: when each price was last that of the coin

priceDuelsVars == <<clock, price, forming, bar, auto, bets, made, run, lookups, seen>>

Down == 0
Up == 1
Slots == {Down, Up} \X {"usdc", "duck"}
NoBet == [answer |-> -1, at |-> 0]
NoAuto == [status |-> "none"]
NoBar == [high |-> 0, low |-> 0]
NoRun == [bar |-> NoBar, since |-> 0, at |-> "rest"]

PriceDuelsInit ==
    /\ clock = 0 /\ price \in Levels
    /\ forming = [high |-> price, low |-> price] /\ bar = NoBar
    /\ auto = [d \in Slots |-> NoAuto]
    /\ bets = [d \in Slots |-> [u \in Bettors |-> NoBet]]
    /\ made = [at |-> "rest"]
    /\ run = [k \in {"usdc", "duck"} |-> NoRun] /\ lookups = 0
    /\ seen = [l \in Levels |-> IF l = price THEN 0 ELSE -1]

\* a run ends before it has taken MaxLag
PriceMoves(p) ==
    /\ clock < Horizon
    /\ \A k \in DOMAIN run : run[k].at = "rest" \/ clock < run[k].since + MaxLag
    /\ clock' = clock + 1 /\ price' = p
    /\ IF (clock + 1) % HourTicks = 0
       THEN bar' = forming /\ forming' = [high |-> p, low |-> p]
       ELSE /\ UNCHANGED bar
            /\ forming' = [high |-> IF p > forming.high THEN p ELSE forming.high,
                           low |-> IF p < forming.low THEN p ELSE forming.low]
    /\ seen' = [seen EXCEPT ![p] = clock + 1]
    /\ UNCHANGED <<auto, bets, made, run, lookups>>

-----------------------------------------------------------------------------
(* Creation *)

RoundToOnePercent(x) == Grain * ((2 * x + Grain) \div (2 * Grain))

Mutant_Target(p, direction) == RoundToOnePercent(p)

\* the price and the difference, on the side of the direction, rounded
Target(p, direction) ==
    RoundToOnePercent(IF direction = Up THEN p + CoinPriceDiff ELSE p - CoinPriceDiff)

NewAuto(p, direction) ==
    [status |-> "inProcess", target |-> Target(p, direction), event |-> clock + EventAfter,
     deadline |-> clock + EventAfter - 2 * HourTicks, players |-> 0]

\* no coin without a price; every duel in USDC at once
CreateDuelsBulk ==
    /\ made.at = "rest" /\ clock <= CreateBy
    /\ auto' = [d \in Slots |-> IF d[2] = "usdc" THEN NewAuto(price, d[1]) ELSE auto[d]]
    /\ made' = [at |-> "duck", price |-> price]
    /\ UNCHANGED <<clock, price, forming, bar, bets, run, lookups, seen>>

Mutant_JoinDuelBulk(answers) ==
    /\ auto' = [d \in Slots |-> IF d[2] = "duck" THEN NewAuto(made.price, d[1]) ELSE auto[d]]
    /\ bets' = [d \in Slots |-> IF d[2] = "duck"
        THEN [bets[d] EXCEPT ![House] = [answer |-> answers[d[1]], at |-> clock]] ELSE bets[d]]

\* the owner's seat in every one of them, by a coin's flip
JoinDuelBulk(answers) ==
    /\ auto' = [d \in Slots |-> IF d[2] = "duck"
        THEN [NewAuto(made.price, d[1]) EXCEPT !.players = 1] ELSE auto[d]]
    /\ bets' = [d \in Slots |-> IF d[2] = "duck"
        THEN [bets[d] EXCEPT ![House] = [answer |-> answers[d[1]], at |-> clock]] ELSE bets[d]]

\* then every duel in duck points with its seat, in a transaction of its own
CreateDuelsWithJoin(answers) ==
    /\ made.at = "duck"
    /\ JoinDuelBulk(answers)
    /\ made' = [at |-> "done"]
    /\ UNCHANGED <<clock, price, forming, bar, run, lookups, seen>>

\* and when it fails those in USDC stay
CreateDuelsFails ==
    /\ made.at = "duck"
    /\ made' = [at |-> "done"]
    /\ UNCHANGED <<clock, price, forming, bar, auto, bets, run, lookups, seen>>

Placed == {s \in Slots \X (Bettors \ {House}) : bets[s[1]][s[2]] # NoBet}

JoinPriceDuel(d, u, answer) ==
    /\ Cardinality(Placed) < MaxBets
    /\ auto[d].status = "inProcess" /\ ~(auto[d].deadline < clock)
    /\ bets[d][u] = NoBet
    /\ bets' = [bets EXCEPT ![d][u] = [answer |-> answer, at |-> clock]]
    /\ auto' = [auto EXCEPT ![d].players = @ + 1]
    /\ UNCHANGED <<clock, price, forming, bar, made, run, lookups, seen>>

-----------------------------------------------------------------------------
(* Settlement *)

DetermineWinningBet(d, p) ==
    IF d[1] = Down THEN (IF p <= auto[d].target THEN 1 ELSE 0)
    ELSE (IF p >= auto[d].target THEN 1 ELSE 0)

ReachedPriceBeforeEventDate(d, hl) ==
    IF d[1] = Down THEN auto[d].target >= hl.low ELSE auto[d].target <= hl.high

SeatsOf(d) == {u \in Bettors : bets[d][u] # NoBet}

\* paid if some are right and some wrong among those in time, else cancelled
Settled(d, answer, joinNotBefore, how) ==
    LET pool == {u \in SeatsOf(d) : bets[d][u].at <= joinNotBefore}
        right == {u \in pool : bets[d][u].answer = answer}
        there == {seen[l] : l \in {m \in Levels : DetermineWinningBet(d, m) = 1}}
    IN [status |-> IF right = {} \/ right = pool THEN "cancelled" ELSE "resolved",
        target |-> auto[d].target, event |-> auto[d].event, deadline |-> auto[d].deadline,
        players |-> auto[d].players, answer |-> answer, winners |-> right, how |-> how,
        touched |-> there]

Open(d) ==
    /\ auto[d].status = "inProcess"
    /\ Cardinality({e \in Slots : auto[e].status \in {"resolved", "cancelled"}}) < MaxSettled
Active(d) == Open(d) /\ auto[d].event > clock
Ended(d) == Open(d) /\ auto[d].event < clock

\* the hour is looked up once for all the duels of the run
GetHighLowHourly(k) ==
    /\ run[k].at = "rest" /\ bar # NoBar
    /\ \E d \in Slots : d[2] = k /\ Active(d)
    /\ run' = [run EXCEPT ![k] = [at |-> "read", bar |-> bar, since |-> clock]]
    /\ lookups < MaxLookups /\ lookups' = lookups + 1
    /\ UNCHANGED <<clock, price, forming, bar, auto, bets, made, seen>>

Mutant_ResolveBeforeEventDate(d) ==
    /\ run[d[2]].at = "read"
    /\ Active(d) /\ ReachedPriceBeforeEventDate(d, run[d[2]].bar)
    /\ auto' = [auto EXCEPT ![d] = Settled(d, 1, auto[d].deadline, "early")]
    /\ UNCHANGED <<clock, price, forming, bar, bets, made, run, lookups, seen>>

\* a seat counts that is older than ResolveJoinNotBefore when its duel's turn comes
ResolveBeforeEventDate(d) ==
    /\ run[d[2]].at = "read"
    /\ Active(d) /\ ReachedPriceBeforeEventDate(d, run[d[2]].bar)
    /\ auto' = [auto EXCEPT ![d] = Settled(d, 1, clock - ResolveJoinNotBefore, "early")]
    /\ UNCHANGED <<clock, price, forming, bar, bets, made, run, lookups, seen>>

\* through the selection, or stopped by an error
RunEnds(k) ==
    /\ run[k].at = "read"
    /\ run' = [run EXCEPT ![k] = NoRun]
    /\ UNCHANGED <<clock, price, forming, bar, auto, bets, made, lookups, seen>>

\* the price of the moment, looked up for each duel
ResolveOnEventDate(d) ==
    /\ Ended(d)
    /\ auto' = [auto EXCEPT ![d] =
         Settled(d, DetermineWinningBet(d, price), auto[d].deadline, "late")]
    /\ UNCHANGED <<clock, price, forming, bar, bets, made, run, lookups, seen>>

-----------------------------------------------------------------------------
PriceDuelsNext ==
    \/ \E p \in Levels \cap {price - 1, price, price + 1} : PriceMoves(p)
    \/ CreateDuelsBulk
    \/ \E answers \in [{Down, Up} -> {0, 1}] : CreateDuelsWithJoin(answers)
    \/ CreateDuelsFails
    \/ \E d \in Slots :
        \/ ResolveBeforeEventDate(d) \/ ResolveOnEventDate(d)
        \/ \E u \in Bettors \ {House}, answer \in {0, 1} : JoinPriceDuel(d, u, answer)
    \/ \E k \in DOMAIN run : GetHighLowHourly(k) \/ RunEnds(k)

PriceDuelsSpec == PriceDuelsInit /\ [][PriceDuelsNext]_priceDuelsVars

-----------------------------------------------------------------------------
(* Properties *)

PriceDuelsTypeOK ==
    /\ price \in Levels /\ clock \in 0..Horizon
    /\ \A d \in Slots : auto[d].status \in {"none", "inProcess", "resolved", "cancelled"}

\* Who wins a duel settled early had bet when the price got to the target or before,
\* though the hour looked at may be two hours back and the run may be slow, and who wins
\* one settled by its event date had bet by the deadline (resolve*BeforeEventDate).
WinnersBetFirst ==
    \A d \in Slots : auto[d].status = "resolved" =>
        \A u \in auto[d].winners :
            IF auto[d].how = "early" THEN \E t \in auto[d].touched : bets[d][u].at <= t
            ELSE bets[d][u].at <= auto[d].deadline

\* A duel starts undecided: rounding leaves its target beyond the price it was made of, so
\* the answer is no at that price (newDuelInfoForAutoCreatedDuels, RoundToOnePercent); and
\* its count of players is that of its seats, the owner's among them in duck points.
StartsUndecided ==
    /\ \A p \in Levels : p > CoinPriceDiff => Target(p, Up) > p /\ Target(p, Down) < p
    /\ \A d \in Slots : auto[d] # NoAuto =>
        /\ auto[d].players = Cardinality(SeatsOf(d))
        /\ d[2] = "duck" => House \in SeatsOf(d)

\* A bet on a price is fair: nobody wins who could know the answer, and the question is
\* open when the duel is made (ResolveJoinDateTime, newDuelInfoForAutoCreatedDuels).
PriceDuelsFair == WinnersBetFirst /\ StartsUndecided
=============================================================================
