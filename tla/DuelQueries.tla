---------------------------- MODULE DuelQueries ----------------------------
(***************************************************************************)
(* What users and moderators are shown of the rows DuckDuel keeps: the     *)
(* lists of duels, the counters, the leaderboard and the moderators' pay.  *)
(* The queries of internal/storage/repository/duel.go and the view         *)
(* "leaderboard" of migrations/1_init.up.sql compute for themselves what   *)
(* the settlement stored elsewhere; the properties hold one against the    *)
(* other.  The view is materialized: a cron entry of its own fills it once *)
(* an hour, between two of them it is as old as the last.                  *)
(***************************************************************************)
EXTENDS DuckDuel, SequencesExt

VARIABLES
    leaderboard,   \* the rows of the materialized view
    shown          \* the duels that were resolved when it was filled; a history variable

queryVars == <<vars, leaderboard, shown>>

NotAsked == 2   \* p.answer or p.final_status of a duel the user has no seat in

SeatsOf(d, u) == {i \in Rows(d) : players[d][i].user = u}

Existing == {d \in Duels : duels[d].status # NoStatus}

-----------------------------------------------------------------------------
(* The lists *)

\* left join (SELECT duel_id, COUNT( * ) ... WHERE answer = 1 GROUP BY duel_id)
YesCount(d) == Cardinality({i \in Rows(d) : players[d][i].answer = 1})

Joined(d, i) ==
    [duel |-> d, joined |-> TRUE, answer |-> players[d][i].answer,
     playerStatus |-> players[d][i].finalStatus,
     yes |-> YesCount(d), no |-> duels[d].playersCount - YesCount(d)]

NotJoined(d) ==
    [duel |-> d, joined |-> FALSE, answer |-> NotAsked, playerStatus |-> NotAsked,
     yes |-> YesCount(d), no |-> duels[d].playersCount - YesCount(d)]

\* left join players p on p.duel_id = duels.id AND p.user_id = ?
DuelShow(d, u) ==
    IF SeatsOf(d, u) = {} THEN {NotJoined(d)} ELSE {Joined(d, i) : i \in SeatsOf(d, u)}

GetAllDuels(u) == UNION {DuelShow(d, u) : d \in Existing}

GetAllDuelsWhereParticipate(u) == UNION {{Joined(d, i) : i \in SeatsOf(d, u)} : d \in Existing}

GetDuelShowByID(u, d) == {s \in GetAllDuels(u) : s.duel = d}

GetHistoryByUserID(u) ==
    {s \in GetAllDuels(u) : s.joined /\ duels[s.duel].status \in Terminal}

GetUserDuels(u) == {s \in GetAllDuels(u) : duels[s.duel].owner = u}

\* GROUP BY topic: the duels on crypto coins and the others
Topics == BOOLEAN

GetTopicCounters == [t \in Topics |-> Cardinality({d \in Existing : duels[d].crypto = t})]

GetIndividualTopicCounters(u) ==
    [t \in Topics |-> Cardinality({d \in Existing : duels[d].crypto = t /\ SeatsOf(d, u) = {}})]

\* what DuelService hands out, each list from one query
Lists(u) ==
    [unauthorized |-> GetAllDuels(Null), all |-> GetAllDuels(u), count |-> Cardinality(Existing),
     participant |-> GetAllDuelsWhereParticipate(u), history |-> GetHistoryByUserID(u),
     mine |-> GetUserDuels(u), byTopic |-> GetTopicCounters,
     individual |-> GetIndividualTopicCounters(u)]

\* one duel with its players; who may see a duel in review
MaySee(u, d, admin) == admin \/ duels[d].status >= AutoCancelled \/ duels[d].owner = u

GetAllPlayersByDuelID(d) == {players[d][i].user : i \in Rows(d)}

GetDuelByID(u, d, admin) ==
    IF MaySee(u, d, admin) THEN [duel |-> GetDuelShowByID(u, d), players |-> GetAllPlayersByDuelID(d)]
    ELSE [duel |-> {}, players |-> {}]

-----------------------------------------------------------------------------
(* The leaderboard: a materialized view over the seats of resolved duels *)

ResolvedDuels == {d \in Duels : duels[d].status = Resolved}

\* played_duels, taken from the duels D
Played(u, D) == UNION {{<<d, i>> : i \in SeatsOf(d, u)} : d \in D}

\* the whole commission
Mutant_CommissionEarned(d, u) ==
    IF duels[d].owner = u THEN (duels[d].playersCount * DuelPrice * Commission) \div 100 ELSE 0

\* INTEGER columns: both divisions round down
CommissionEarned(d, u) ==
    IF duels[d].owner = u
      THEN ((duels[d].playersCount * DuelPrice * Commission) \div 100) \div 2 ELSE 0

Victories(u, D) == {s \in Played(u, D) : players[s[1]][s[2]].finalStatus = PlayerResolved}

Spent(u, D) == DuelPrice * Cardinality(Played(u, D))

Earned(u, D) == SumFunction([s \in Played(u, D) |-> players[s[1]][s[2]].winAmount])

Pnl(u, D) ==
    Earned(u, D) + SumFunction([s \in Played(u, D) |-> CommissionEarned(s[1], u)]) - Spent(u, D)

Leader(u, D) ==
    [user |-> u, totalDuels |-> Cardinality(Played(u, D)),
     victories |-> Cardinality(Victories(u, D)), spent |-> Spent(u, D),
     earned |-> Earned(u, D), pnl |-> Pnl(u, D)]

\* the query the view is made of; HAVING COUNT(pd.duel_id) > 0
Board(D) == {Leader(u, D) : u \in {v \in Users : Played(v, D) # {}}}

\* shows the duels that still play, too
Mutant_RefreshLeaderboard ==
    /\ leaderboard' = Board(Existing) /\ shown' = ResolvedDuels
    /\ UNCHANGED vars

\* updateLeaderboard: REFRESH MATERIALIZED VIEW runs the query on the rows of now;
\* a refresh that fails is logged and leaves the view as it was
RefreshLeaderboard ==
    /\ leaderboard' = Board(ResolvedDuels) /\ shown' = ResolvedDuels
    /\ UNCHANGED vars

\* the view is made in an empty database
QueriesInit == Init /\ leaderboard = {} /\ shown = {}

QueriesNext ==
    \/ Next /\ UNCHANGED <<leaderboard, shown>>
    \/ RefreshLeaderboard

QueriesSpec == QueriesInit /\ [][QueriesNext]_queryVars

Ranked(rows) == \A i, j \in DOMAIN rows : i < j => rows[i].pnl >= rows[j].pnl

\* ROW_NUMBER() OVER (ORDER BY SUM(pnl) DESC): the order of equal sums is the
\* database's own; it is taken to be the same for every page of the same rows
Leaders == CHOOSE rows \in SetToSeqs(leaderboard) : Ranked(rows)

\* Offset((PageNum - 1) * PageSize), Limit(PageSize)
ApplyPagination(rows, size, num) ==
    IF size > 0 /\ num > 0 THEN SubSeq(rows, (num - 1) * size + 1,
                                       IF num * size > Len(rows) THEN Len(rows) ELSE num * size)
    ELSE rows

GetTotalLeaderboard(size, num) ==
    [leaders |-> ApplyPagination(Leaders, size, num), count |-> Len(Leaders)]

\* the page is cut inside the ranking: a user on another page is "not found"
FindUserRank(u, size, num) ==
    {r \in DOMAIN Leaders : /\ Leaders[r].user = u
                            /\ Leaders[r] \in ToSet(ApplyPagination(Leaders, size, num))}

-----------------------------------------------------------------------------
(* What a moderator is paid for, in tenths of the code's unit *)

NoPay == [action |-> "refused", pay |-> 0]

NewModeratorStatsCreate(old, new) ==
    CASE old = InReview /\ new = AdminCancelled -> [action |-> "moderation", pay |-> 2]
      [] old = InProcess /\ new \in {Refund, Resolved} -> [action |-> "closing", pay |-> 3]
      [] OTHER -> NoPay

-----------------------------------------------------------------------------
(* Properties *)

\* The lists agree with the seats and with each other: yes and no add up to what
\* the seats answered, every duel is listed once, the topics a user has still to
\* play are the ones he is not listed in, his history is what he played and is
\* over (the queries of duel.go join and count for themselves).
ListsAgree ==
    \A u \in Users :
       LET lists == Lists(u) IN
       /\ Cardinality(lists.all) = lists.count
       /\ \A s \in lists.all :
             /\ s.no = Cardinality({i \in Rows(s.duel) : players[s.duel][i].answer = 0})
             /\ s.joined <=> s \in lists.participant
             /\ s \in lists.history => s \in lists.participant
       /\ \A t \in Topics :
             lists.byTopic[t] - lists.individual[t] =
                Cardinality({s \in lists.participant : duels[s.duel].crypto = t})

\* No seat of u in the duels D was refunded, free or consoled, and the duels he owns
\* there he played himself: what the view leaves out.
Plain(u, D) ==
    /\ u \notin Premium
    /\ \A s \in Played(u, D) : /\ players[s[1]][s[2]].charged
                               /\ players[s[1]][s[2]].finalStatus # PlayerRefunded
    /\ \A d \in D : duels[d].owner = u =>
          duels[d].refundedPlayersCount = 0 /\ SeatsOf(d, u) # {}

\* However old the view, what it says stays true of the duels it was filled from: it
\* has a line for everybody who played one, and pnl is what they brought the user less
\* what he staked; nothing that is done after a refresh changes what was settled
\* before it.  The pages are cut from one ranking: joined they are the whole of it, and
\* everybody is found on exactly one.
BoardTellsGains ==
    /\ \A row \in leaderboard : Plain(row.user, shown) =>
          row.pnl = SumFunction([d \in shown |-> Credits(d, row.user) - Stakes(d, row.user)])
    /\ \A u \in Users : Played(u, shown) # {} <=> \E row \in leaderboard : row.user = u
    /\ \A size \in 1..Cardinality(Users) :
          LET pages == (Len(Leaders) + size - 1) \div size IN
          /\ Leaders = FlattenSeq([n \in 1..pages |-> GetTotalLeaderboard(size, n).leaders])
          /\ \A u \in Users : Played(u, shown) # {} =>
                Cardinality({n \in 1..pages : FindUserRank(u, size, n) # {}}) = 1

\* A moderator whose request passed the checks of the duel is never refused his
\* pay by the second list of allowed closings (NewModeratorStatsCreate).
ClosesArePaid ==
    \A h \in Handlers : req[h].job = "admin" =>
       NewModeratorStatsCreate(req[h].snap.status,
          IF req[h].target = NoStatus THEN Resolved ELSE req[h].target) # NoPay

\* What the lists, the leaderboards and the moderator's pay tell of a duel is what its
\* requests did to its rows (repository/duel.go, the view leaderboard, NewModeratorStatsCreate).
QueriesAgree == ListsAgree /\ BoardTellsGains /\ ClosesArePaid
=============================================================================
