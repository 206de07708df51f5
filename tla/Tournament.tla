----------------------------- MODULE Tournament -----------------------------
(***************************************************************************)
(* Tournaments: participants, leaderboards and the ranks that win rewards. *)
(* internal/service/tournament_service.go, repository/tournament.go and    *)
(* what the duel services write to them with a seat and a settlement.      *)
(*                                                                         *)
(* A request reads its duel, the tournament with it, before the            *)
(* transaction that writes seat, participant and leaderboard.              *)
(* UpdateRewards is no action: it asks for a column tournaments does not   *)
(* have, and ends there.                                                   *)
(***************************************************************************)
EXTENDS Integers, Sequences, FiniteSets, Functions

CONSTANTS
    Tournaments, Contestants,
    Contests,        \* duels
    CryptoContests,  \* those paid in USDC
    DuelPrice,       \* in units of either currency
    NoTournament,
    RewardLists,     \* rewards asked for: sequences of ranges of ranks
    Organisers,      \* requests that may be in flight at once
    MaxEntries       \* bound: requests in all

ASSUME TournamentAssumption ==
    /\ CryptoContests \subseteq Contests
    /\ NoTournament \notin Tournaments
    /\ DuelPrice \in Nat \ {0} /\ MaxEntries \in Nat
    /\ RewardLists \subseteq Seq([from : Nat, to : Nat])
    /\ IsFiniteSet(Tournaments) /\ IsFiniteSet(Contestants)

VARIABLES
    prizes,       \* tournament_rewards, by tournament created
    contest,      \* duels: their tournament, and whether they still play
    taken,        \* players: the seats each user has in each duel
    participants, \* tournament_participants
    playersCount, \* tournaments.players_count
    board,        \* tournament_leaderboards, by tournament, user and payment type
    offers,       \* tournament_offers
    job,          \* what each request is doing and has read
    entries,      \* requests so far
    entered,      \* history: seats committed in duels of the tournament, by place on the board
    unseated      \* history: entries the leaderboard counts though their seat was undone

tournamentVars == <<prizes, contest, taken, participants, playersCount, board, offers,
                    job, entries, entered, unseated>>

Kinds == {"dp", "usdc"}
KindOf(d) == IF d \in CryptoContests THEN "usdc" ELSE "dp"
Places == Tournaments \X Contestants \X Kinds
NoPlace == [total |-> 0, victories |-> 0, spent |-> 0, earned |-> 0, pnl |-> 0]
NoJob == [at |-> "free"]
Created == {t \in Tournaments : prizes[t] # << >>}

TournamentInit ==
    /\ prizes = [t \in Tournaments |-> << >>]
    /\ contest = [d \in Contests |-> [tournament |-> NoTournament, open |-> TRUE]]
    /\ taken = [d \in Contests |-> [u \in Contestants |-> 0]]
    /\ participants = [t \in Tournaments |-> {}]
    /\ playersCount = [t \in Tournaments |-> 0]
    /\ board = [p \in Places |-> NoPlace]
    /\ offers = 0
    /\ job = [o \in Organisers |-> NoJob] /\ entries = 0
    /\ entered = [p \in Places |-> 0] /\ unseated = [p \in Places |-> 0]

Seated(d) == {u \in Contestants : taken[d][u] > 0}
Seats(d) == SumFunctionOnSet(taken[d], Contestants)

Admitted == entries < MaxEntries /\ entries' = entries + 1
Opens(o, next) == Admitted /\ job[o] = NoJob /\ job' = [job EXCEPT ![o] = next]
Closes(o, at) == job[o].at = at /\ job' = [job EXCEPT ![o] = NoJob] /\ UNCHANGED entries

-----------------------------------------------------------------------------
(* Tournaments *)

Mutant_Valid(rs) ==
    /\ rs # << >>
    /\ \A i \in DOMAIN rs :
        /\ rs[i].from <= rs[i].to
        /\ i > 1 => rs[i].from > rs[i - 1].from

\* ranges in order, none empty, each beginning where the one before ends
Valid(rs) ==
    /\ rs # << >>
    /\ \A i \in DOMAIN rs :
        /\ rs[i].from <= rs[i].to
        /\ i > 1 => /\ rs[i].from > rs[i - 1].from
                    /\ rs[i].from > rs[i - 1].to
                    /\ rs[i].from = rs[i - 1].to + 1

\* the tournament and its rewards in one transaction
CreateTournament(t, rs) ==
    /\ Admitted /\ UNCHANGED job
    /\ t \notin Created
    /\ Valid(rs)
    /\ prizes' = [prizes EXCEPT ![t] = rs]
    /\ UNCHANGED <<contest, taken, participants, playersCount, board, offers, entered, unseated>>

\* stored; that the moderators are told is not waited for
OfferTournament ==
    /\ Admitted /\ UNCHANGED job
    /\ offers' = offers + 1
    /\ UNCHANGED <<prizes, contest, taken, participants, playersCount, board, entered, unseated>>

\* a moderator, at any time and for any id
SetTournamentID(d, t) ==
    /\ Admitted /\ UNCHANGED job
    /\ contest' = [contest EXCEPT ![d].tournament = t]
    /\ UNCHANGED <<prizes, taken, participants, playersCount, board, offers, entered, unseated>>

-----------------------------------------------------------------------------
(* A seat *)

\* the join has read the duel
JoinContest(o, u, d) ==
    /\ contest[d].open /\ taken[d][u] = 0
    /\ Opens(o, [at |-> "join", u |-> u, d |-> d, t |-> contest[d].tournament])
    /\ UNCHANGED <<prizes, contest, taken, participants, playersCount, board, offers,
                   entered, unseated>>

\* counts whoever the insert added
Mutant_IncrementPlayersCount(u, t) ==
    /\ participants' = [participants EXCEPT ![t] = @ \cup {u}]
    /\ playersCount' = [playersCount EXCEPT ![t] = @ + 1]

IncrementPlayersCount(u, t) ==
    /\ participants' = [participants EXCEPT ![t] = @ \cup {u}]
    /\ playersCount' = [playersCount EXCEPT ![t] = IF u \in participants[t] THEN @ ELSE @ + 1]

DefaultTournamentLeaderboardRecord ==
    [NoPlace EXCEPT !.total = 1, !.spent = DuelPrice, !.pnl = -DuelPrice]

\* the record of a first duel replaces what was there
Mutant_AlterLeaderboardSpent(u, t, k) ==
    LET new == DefaultTournamentLeaderboardRecord
        old == board[<<t, u, k>>]
    IN [board EXCEPT ![<<t, u, k>>] =
        [old EXCEPT !.total = @ + new.total, !.spent = new.spent, !.pnl = @ - new.spent]]

\* a new record, or its figures on top of the one in conflict with it
AlterLeaderboardSpent(u, t, k) ==
    LET new == DefaultTournamentLeaderboardRecord
        old == board[<<t, u, k>>]
    IN [board EXCEPT ![<<t, u, k>>] =
        [old EXCEPT !.total = @ + new.total, !.spent = @ + new.spent, !.pnl = @ - new.spent]]

\* the seat, the participant and the leaderboard in one transaction
JoinCommit(o) ==
    LET u == job[o].u  d == job[o].d  t == job[o].t
    IN
    /\ Closes(o, "join")
    /\ taken' = [taken EXCEPT ![d][u] = @ + 1]
    /\ IF t = NoTournament THEN UNCHANGED <<participants, playersCount, board, entered>>
       ELSE /\ t \in Created
            /\ IncrementPlayersCount(u, t)
            /\ board' = AlterLeaderboardSpent(u, t, KindOf(d))
            /\ entered' = [entered EXCEPT ![<<t, u, KindOf(d)>>] = @ + 1]
    /\ UNCHANGED <<prizes, contest, offers, unseated>>

\* JoinCryptoDuel writes the leaderboard outside its transaction, which then fails
CryptoJoinFails(o) ==
    LET u == job[o].u  d == job[o].d  t == job[o].t
    IN
    /\ Closes(o, "join")
    /\ KindOf(d) = "usdc" /\ t \in Created
    /\ board' = AlterLeaderboardSpent(u, t, "usdc")
    /\ unseated' = [unseated EXCEPT ![<<t, u, "usdc">>] = @ + 1]
    /\ UNCHANGED <<prizes, contest, taken, participants, playersCount, offers, entered>>

-----------------------------------------------------------------------------
(* The end of a duel *)

\* a settlement has read the duel and its winners
ResolveContest(o, d, W) ==
    /\ contest[d].open /\ W # {}
    /\ Opens(o, [at |-> "resolve", d |-> d, t |-> contest[d].tournament, winners |-> W])
    /\ UNCHANGED <<prizes, contest, taken, participants, playersCount, board, offers,
                   entered, unseated>>

Mutant_AlterLeaderboardEarned(t, k, W, amount) ==
    [p \in Places |->
        IF p[1] = t /\ p[2] \in W /\ p[3] = k
        THEN [board[p] EXCEPT !.victories = @ + 1, !.earned = @ + amount, !.pnl = @ + amount]
        ELSE board[p]]

\* the winners who have a record of this tournament and payment type
AlterLeaderboardEarned(t, k, W, amount) ==
    [p \in Places |->
        IF p[1] = t /\ p[2] \in W /\ p[3] = k /\ board[p] # NoPlace
        THEN [board[p] EXCEPT !.victories = @ + 1, !.earned = @ + amount, !.pnl = @ + amount]
        ELSE board[p]]

\* the row goes back with the tournament that was read, if it had one
ResolveCommit(o) ==
    LET d == job[o].d  t == job[o].t  W == job[o].winners
    IN
    /\ Closes(o, "resolve")
    /\ board' = AlterLeaderboardEarned(t, KindOf(d), W,
                    (DuelPrice * Seats(d)) \div Cardinality(W))
    /\ contest' = [contest EXCEPT ![d] =
         [tournament |-> IF t = NoTournament THEN @.tournament ELSE t, open |-> FALSE]]
    /\ UNCHANGED <<prizes, taken, participants, playersCount, offers, entered, unseated>>

\* refunded seats stay on the leaderboard
CancelContest(d) ==
    /\ Admitted /\ UNCHANGED job
    /\ contest[d].open
    /\ contest' = [contest EXCEPT ![d].open = FALSE]
    /\ UNCHANGED <<prizes, taken, participants, playersCount, board, offers, entered, unseated>>

\* any statement may fail, and the transaction is undone
JobFails(o) ==
    /\ job[o] # NoJob
    /\ job' = [job EXCEPT ![o] = NoJob]
    /\ UNCHANGED <<prizes, contest, taken, participants, playersCount, board, offers, entries,
                   entered, unseated>>

TournamentNext ==
    \/ \E t \in Tournaments : \E rs \in RewardLists : CreateTournament(t, rs)
    \/ \E d \in Contests : \E t \in Tournaments \cup {NoTournament} : SetTournamentID(d, t)
    \/ \E o \in Organisers, d \in Contests :
        \/ \E u \in Contestants : JoinContest(o, u, d)
        \/ \E W \in SUBSET Seated(d) : ResolveContest(o, d, W)
    \/ \E o \in Organisers :
        \/ JoinCommit(o) \/ CryptoJoinFails(o) \/ ResolveCommit(o) \/ JobFails(o)
    \/ \E d \in Contests : CancelContest(d)
    \/ OfferTournament

TournamentSpec == TournamentInit /\ [][TournamentNext]_tournamentVars

-----------------------------------------------------------------------------
(* Queries *)

\* the inner joins: a participant with each of his records
UserTournaments(u) ==
    {p \in Places : p[2] = u /\ u \in participants[p[1]] /\ board[p] # NoPlace}

\* rank by profit and loss, equal ones in any order: the ranks the query may give a record
TournamentRank(t, u, k) ==
    LET mine == board[<<t, u, k>>].pnl
        R == {p \in Places : p[1] = t /\ board[p] # NoPlace}
        above == {p \in R : board[p].pnl > mine}
        level == {p \in R : board[p].pnl = mine}
    IN (Cardinality(above) + 1)..(Cardinality(above) + Cardinality(level))

RewardsOf(t, rank) == {i \in DOMAIN prizes[t] : rank \in prizes[t][i].from..prizes[t][i].to}

-----------------------------------------------------------------------------
(* Properties *)

TournamentTypeOK ==
    /\ \A t \in Tournaments : playersCount[t] \in Nat /\ participants[t] \subseteq Contestants
    /\ \A p \in Places : board[p].total \in Nat /\ board[p].spent \in Nat /\ board[p].earned \in Nat
    /\ \A d \in Contests : contest[d].tournament \in Tournaments \cup {NoTournament}

\* A record's figures: profit and loss is earned less spent, and it has spent the price of
\* every seat its user took in duels of the tournament at the time, those among them that
\* a failed crypto join undid; nobody earns who never entered (AlterLeaderboardSpent and
\* AlterLeaderboardEarned, called from joins and settlements that read the duel earlier).
BoardAddsUp ==
    \A p \in Places :
        /\ board[p].pnl = board[p].earned - board[p].spent
        /\ board[p].spent = DuelPrice * (entered[p] + unseated[p])
        /\ board[p].earned > 0 => board[p].total > 0

\* players_count counts the participants, each of whom finds the tournament in the list of
\* his own with a record, and whose rank wins at most one reward, the ranks of rewards
\* being without a gap (IncrementPlayersCount, UserTournaments, TournamentRewards.Valid).
ParticipantsRanked ==
    \A t \in Tournaments :
        /\ playersCount[t] = Cardinality(participants[t])
        /\ \A u \in participants[t] : \E p \in UserTournaments(u) : p[1] = t
        /\ \A p \in Places : p[1] = t =>
            \A rank \in TournamentRank(t, p[2], p[3]) :
                /\ Cardinality(RewardsOf(t, rank)) <= 1
                /\ RewardsOf(t, rank) = {} =>
                    \A i \in DOMAIN prizes[t] :
                        (prizes[t][1].from <= rank => prizes[t][i].to < rank)

\* The leaderboard of a tournament adds up and ranks who takes part (the statements that
\* duel transactions run on tournament_participants and tournament_leaderboards).
TournamentAddsUp == BoardAddsUp /\ ParticipantsRanked
=============================================================================
