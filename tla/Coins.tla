------------------------------- MODULE Coins -------------------------------
(***************************************************************************)
(* What the service keeps of the outside markets: the coins of             *)
(* CoinMarketCap, the tokens of Jupiter and the priority fees of the node. *)
(* internal/service/coin_service.go, priority_tracker.go and their crons.  *)
(*                                                                         *)
(* Cron starts every run in a goroutine of its own, so a slow run of the   *)
(* priority tracker is overtaken by the next; its two values are stored    *)
(* one after the other and read by whoever builds a transaction.           *)
(***************************************************************************)
EXTENDS Integers, Sequences, FiniteSets, SequencesExt

CONSTANTS
    CoinIDs, TokenMints,
    Ranks,       \* what the row of a coin or token says; 0 is an absent field
    Fees,        \* what the node may estimate, 0 among it
    FallbackMicroLamports,
    Updaters,    \* runs of the priority cron that may overlap
    MaxAnswers   \* bound: answers taken from outside

ASSUME CoinsAssumption ==
    /\ Ranks \subseteq Nat /\ Fees \subseteq Nat /\ MaxAnswers \in Nat
    /\ FallbackMicroLamports \in Nat \ {0}

VARIABLES
    coins,        \* coins: id to row
    solanaTokens, \* solana_tokens: mint to row
    mediumPriority, highPriority,
    updater,      \* what each run of the tracker still has to store
    answers,      \* answers so far
    estimates,    \* history: medium and high of every answer, the fallback first
    crossed       \* history: two runs of the tracker have overlapped

coinsVars == <<coins, solanaTokens, mediumPriority, highPriority, updater, answers, estimates, crossed>>

Fallback == [medium |-> FallbackMicroLamports, high |-> FallbackMicroLamports]
NothingToStore == [at |-> "rest"]

CoinsInit ==
    /\ coins = << >> /\ solanaTokens = << >>
    /\ mediumPriority = FallbackMicroLamports /\ highPriority = FallbackMicroLamports
    /\ updater = [r \in Updaters |-> NothingToStore]
    /\ answers = 0 /\ estimates = {Fallback} /\ crossed = FALSE

Answered == answers < MaxAnswers /\ answers' = answers + 1

-----------------------------------------------------------------------------
(* Coins and tokens *)

Listings(ids) == {<<[id |-> i, rank |-> r]>> : i \in ids, r \in Ranks}
                 \cup {<<[id |-> i, rank |-> r], [id |-> j, rank |-> s]>> : i, j \in ids, r, s \in Ranks}

\* a row for the id, or all of its row
PutRow(rows, c) == [i \in DOMAIN rows \cup {c.id} |-> IF i = c.id THEN c.rank ELSE rows[i]]

\* a new row, or the fields that are not zero
PutCoin(rows, c) == IF c.id \in DOMAIN rows /\ c.rank = 0 THEN rows ELSE PutRow(rows, c)

\* every coin listed, in one transaction; an answer without data, an error among them,
\* changes nothing and counts as a success
UpdateAllCoins(listing) ==
    /\ Answered
    /\ coins' = FoldLeft(PutCoin, coins, listing)
    /\ UNCHANGED <<solanaTokens, mediumPriority, highPriority, updater, estimates, crossed>>

\* one statement for all of them, which fails when it is empty or names a mint twice
RefreshSolanaTokens(tokens) ==
    /\ Answered
    /\ tokens # << >> /\ \A i, j \in DOMAIN tokens : tokens[i].id = tokens[j].id => i = j
    /\ solanaTokens' = FoldLeft(PutRow, solanaTokens, tokens)
    /\ UNCHANGED <<coins, mediumPriority, highPriority, updater, estimates, crossed>>

GetCoinsByCMCIDs(ids) == ids \cap DOMAIN coins
FindSolanaTokenByMint(mint) == IF mint \in DOMAIN solanaTokens THEN {solanaTokens[mint]} ELSE {}

-----------------------------------------------------------------------------
(* Priority fees *)

Mutant_ValidFees(cu) == cu.high # 0

\* an answer without either is an error, and the values stay
ValidFees(cu) == cu.high # 0 /\ cu.medium # 0

\* the node has answered
UpdatePriority(r, cu) ==
    /\ Answered
    /\ updater[r].at = "rest"
    /\ ValidFees(cu)
    /\ updater' = [updater EXCEPT ![r] = [at |-> "medium", cu |-> cu]]
    /\ estimates' = estimates \cup {cu}
    /\ crossed' = (crossed \/ \E o \in Updaters \ {r} : updater[o].at # "rest")
    /\ UNCHANGED <<coins, solanaTokens, mediumPriority, highPriority>>

StoreMedium(r) ==
    /\ updater[r].at = "medium"
    /\ mediumPriority' = updater[r].cu.medium
    /\ updater' = [updater EXCEPT ![r].at = "high"]
    /\ UNCHANGED <<coins, solanaTokens, highPriority, answers, estimates, crossed>>

StoreHigh(r) ==
    /\ updater[r].at = "high"
    /\ highPriority' = updater[r].cu.high
    /\ updater' = [updater EXCEPT ![r] = NothingToStore]
    /\ UNCHANGED <<coins, solanaTokens, mediumPriority, answers, estimates, crossed>>

CoinsNext ==
    \/ \E listing \in Listings(CoinIDs) : UpdateAllCoins(listing)
    \/ \E listing \in Listings(TokenMints) : RefreshSolanaTokens(listing)
    \/ \E r \in Updaters :
        \/ \E cu \in [medium : Fees, high : Fees] : UpdatePriority(r, cu)
        \/ StoreMedium(r) \/ StoreHigh(r)

CoinsSpec == CoinsInit /\ [][CoinsNext]_coinsVars

-----------------------------------------------------------------------------
(* Properties *)

CoinsTypeOK ==
    /\ DOMAIN coins \subseteq CoinIDs /\ DOMAIN solanaTokens \subseteq TokenMints
    /\ \A r \in Updaters : updater[r].at \in {"rest", "medium", "high"}

\* What a transaction pays with is never zero and was the node's estimate, or the fallback;
\* when no run is storing, both values are of one estimate unless two runs ever overlapped
\* (two atomics, stored one after the other by UpdatePriority).
PriorityFromNode ==
    /\ mediumPriority > 0 /\ highPriority > 0
    /\ \E e \in estimates : e.medium = mediumPriority
    /\ \E e \in estimates : e.high = highPriority
    /\ ~crossed /\ (\A r \in Updaters : updater[r].at # "high") =>
        [medium |-> mediumPriority, high |-> highPriority] \in estimates
=============================================================================
