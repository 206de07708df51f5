----------------------------- MODULE MCCommunity -----------------------------
(***************************************************************************)
(* What a user does besides playing, for TLC: tasks and streaks, accounts  *)
(* and points, tournaments, the wallet; and the bets on prices that cron   *)
(* makes.  A behaviour is one component's, the others rest: what they      *)
(* share with each other is in each as a free choice.                      *)
(***************************************************************************)
EXTENDS TaskRewards, Accounts, Tournament, Wallets, PriceDuels, TLC

CONSTANTS
    signUp, streak, join,  \* signing up, the streak, joining a duel
    p1, p2, p3, n1, n2     \* persons and names

\* the streak is worth one completion a day, joining a duel two
MCReward == (signUp :> 5) @@ (streak :> 3) @@ (join :> 2)
MCXP == (signUp :> 1) @@ (streak :> 2) @@ (join :> 1)
MCCompletionLimit == (signUp :> 1) @@ (streak :> 1) @@ (join :> 2)
MCLevelXP == [l \in 1..40 |-> l]

\* two come with addresses and a name each, one with Telegram and no valid name
MCWanted == (p1 :> n1) @@ (p2 :> NoName) @@ (p3 :> n2)
MCAmounts == {-1, 0, 1}

\* one range of ranks, two in order, two that overlap, two with a gap
Ranged(a, b) == [from |-> a, to |-> b]
MCRewardLists ==
    {<<Ranged(1, 1)>>, <<Ranged(1, 1), Ranged(2, 3)>>,
     <<Ranged(1, 2), Ranged(2, 3)>>, <<Ranged(1, 1), Ranged(3, 3)>>}

VARIABLE focus

communityVars == <<focus, vars, accountsVars, tournamentVars, walletsVars, priceDuelsVars>>

CommunityInit ==
    /\ focus \in {"tasks", "accounts", "tournaments", "wallets", "prices"}
    /\ Init /\ AccountsInit /\ TournamentInit /\ WalletsInit /\ PriceDuelsInit
    /\ focus # "prices" => \A l \in Levels : price <= l

CommunityNext ==
    \/ /\ focus = "tasks" /\ Next
       /\ UNCHANGED <<focus, accountsVars, tournamentVars, walletsVars, priceDuelsVars>>
    \/ /\ focus = "accounts" /\ AccountsNext
       /\ UNCHANGED <<focus, vars, tournamentVars, walletsVars, priceDuelsVars>>
    \/ /\ focus = "tournaments" /\ TournamentNext
       /\ UNCHANGED <<focus, vars, accountsVars, walletsVars, priceDuelsVars>>
    \/ /\ focus = "wallets" /\ WalletsNext
       /\ UNCHANGED <<focus, vars, accountsVars, tournamentVars, priceDuelsVars>>
    \/ /\ focus = "prices" /\ PriceDuelsNext
       /\ UNCHANGED <<focus, vars, accountsVars, tournamentVars, walletsVars>>

CommunitySpec == CommunityInit /\ [][CommunityNext]_communityVars

\* Every component keeps its types.
CommunityTypeOK ==
    TypeOK /\ AccountsTypeOK /\ TournamentTypeOK /\ WalletsTypeOK /\ PriceDuelsTypeOK

\* two requests of a component differ in name only; one permutation swaps them in each,
\* since all components but one are where they began
Twins == {Handlers, Calls, Organisers, TransferAsks}
MCSymmetry ==
    {p \in Permutations(UNION Twins) :
       \/ \A x \in UNION Twins : p[x] = x
       \/ \A pair \in Twins : \A x \in pair : p[x] \in pair \ {x}}
=============================================================================
