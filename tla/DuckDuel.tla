------------------------------ MODULE DuckDuel ------------------------------
(***************************************************************************)
(* Duck-point duels: creation, joining, moderation, settlement, refunds.   *)
(* internal/service/duel_service.go with the queries of                    *)
(* internal/storage/repository and the cron entries that drive it.         *)
(*                                                                         *)
(* The state is the rows the code keeps in Postgres (duels, players, the   *)
(* balance column of users) and, for every request or cron run in flight,  *)
(* what it has read and not yet used.  A database transaction is one step, *)
(* every read outside a transaction is a step of its own, and a write made *)
(* on another connection (SetStatusToAll) commits by itself.               *)
(***************************************************************************)
EXTENDS Sequences, FiniteSets, Functions, RewardMath, DuelModel

CONSTANTS
    Duels,                \* ids a duel may get
    Handlers,             \* requests and cron runs that may be in flight at once
    House,                \* owner of the duels the cron creates
    Premium,              \* users with is_premium
    InitialBalance,       \* every user's balance at the start
    DuelPrice,            \* duel_price of every duel
    Commission,           \* commission of every duel, percent
    WinAmountLimit,       \* first amount players.win_amount cannot hold
    CountModulus,         \* 2^64 in the code: players counts are uint64
    Schedules,            \* deadline and event date a request may carry
    ResolveJoinNotBefore, \* window of the before-event cron
    ReviewDays,           \* age at which a duel in review is cancelled
    StreakDone,           \* users whose streak of today is already recorded
    Requests,             \* kinds of requests and cron runs that arrive
    Horizon,              \* bound: the clock stops here
    Faults                \* TRUE: connections break and processes die

ASSUME UsersAssumption ==
    /\ House \in Users
    /\ Premium \subseteq Users
    /\ StreakDone \subseteq Users
    /\ Null \notin Users \cup Duels
ASSUME AmountsAssumption ==
    /\ InitialBalance \in Nat
    /\ DuelPrice \in Nat \ {0}
    /\ Commission \in 0..100
    /\ WinAmountLimit \in Nat
    /\ CountModulus \in Nat \ {0}
ASSUME TimeAssumption ==
    /\ Schedules \subseteq [deadline : Nat \ {0}, eventDate : Nat \ {0}]
    /\ ResolveJoinNotBefore \in Nat
    /\ ReviewDays \in Nat
    /\ Horizon \in Nat \ {0}
ASSUME FaultsAssumption == Faults \in BOOLEAN

PremiumPlayersConsolationReward == 100

VARIABLES
    now,          \* the clock, in ticks; 0 is the zero time
    duels,        \* the row of every duel id
    players,      \* the rows of players, per duel, in insertion order
    balance,      \* users.balance
    streakDone,   \* users whose last_completed_streak is today
    req           \* what each handler is doing and what it has read

vars == <<now, duels, players, balance, streakDone, req>>

\* charged: whether the seat was paid for; a history variable
PlayerRow == [user : Users, answer : Answers, createdAt : Nat,
              finalStatus : {PlayerActive, PlayerResolved, PlayerRefunded},
              winAmount : Nat, charged : BOOLEAN]

Idle == [pc |-> "idle", job |-> "none", user |-> Null, duel |-> Null,
         snap |-> NoDuel, answer |-> 0, since |-> 0, cutoff |-> 0,
         target |-> NoStatus, winners |-> {}, refunds |-> 0, seated |-> {},
         balance |-> 0, batch |-> {}]

-----------------------------------------------------------------------------
(* Queries and updates of internal/storage/repository *)

Rows(d) == DOMAIN players[d]

UsersOf(d, rows) == {players[d][i].user : i \in rows}

UserAlreadyParticipant(u, d) == u \in UsersOf(d, Rows(d))

\* forgets created_at <= ?
Mutant_GetDuelWinners(d, answer, cutoff) ==
    {i \in Rows(d) : players[d][i].answer = answer}

GetDuelWinners(d, answer, cutoff) ==
    {i \in Rows(d) : players[d][i].answer = answer /\ players[d][i].createdAt <= cutoff}

\* the rows PartialDuelRefund and MarkPlayersAsRefunded touch: no status filter
LateRows(d, cutoff) == {i \in Rows(d) : players[d][i].createdAt > cutoff}

CountDuelPlayersToRefund(d, cutoff) ==
    Cardinality({i \in LateRows(d, cutoff) : players[d][i].finalStatus = PlayerActive})

\* UPDATE users ... FROM players: a user is updated once however many rows match
Credit(purse, who, amount) ==
    [u \in Users |-> IF u \in who THEN purse[u] + amount ELSE purse[u]]

UpdateDuelWinnersBalance(purse, d, answer, amount, cutoff) ==
    LET consoled == UsersOf(d, GetDuelWinners(d, 1 - answer, cutoff)) \cap Premium
    IN  Credit(Credit(purse, UsersOf(d, GetDuelWinners(d, answer, cutoff)), amount),
               consoled, PremiumPlayersConsolationReward)

\* forgets created_at > ?
Mutant_PartialDuelRefund(purse, d, cutoff) == Credit(purse, UsersOf(d, Rows(d)), DuelPrice)

PartialDuelRefund(purse, d, cutoff) ==
    Credit(purse, UsersOf(d, LateRows(d, cutoff)), DuelPrice)

\* players.win_amount is a DECIMAL(15, 9)
Mutant_WinAmountFits(amount) == TRUE
WinAmountFits(amount) == amount < WinAmountLimit

\* counts the owner's seat before it is taken
Mutant_DuelByCreateReq(owner, crypto, s) ==
    [NoDuel EXCEPT !.status = IF crypto THEN InProcess ELSE InReview,
                   !.crypto = crypto, !.owner = owner, !.createdAt = now,
                   !.playersCount = 1,
                   !.deadline = s.deadline, !.eventDate = s.eventDate]

DuelByCreateReq(owner, crypto, s) ==
    [NoDuel EXCEPT !.status = IF crypto THEN InProcess ELSE InReview,
                   !.crypto = crypto, !.owner = owner, !.createdAt = now,
                   !.deadline = s.deadline, !.eventDate = s.eventDate]

DuelByCreateReqAdmin(owner, crypto, s) ==
    [DuelByCreateReq(owner, crypto, s) EXCEPT !.status = InProcess]

\* DuelRepository.JoinDuel: the row that is seated, the copy the request read
Mutant_SeatTaken(row, read) == [row EXCEPT !.status = read.status]
SeatTaken(row, read) == [row EXCEPT !.playersCount = @ + 1, !.status = read.status]

Seat(u, answer, at, charged) ==
    [user |-> u, answer |-> answer, createdAt |-> at,
     finalStatus |-> PlayerActive, winAmount |-> 0, charged |-> charged]

-----------------------------------------------------------------------------
Init ==
    /\ now = 1
    /\ duels = [d \in Duels |-> NoDuel]
    /\ players = [d \in Duels |-> <<>>]
    /\ balance = [u \in Users |-> InitialBalance]
    /\ streakDone = StreakDone
    /\ req = [h \in Handlers |-> Idle]

Arrives(h, kind) == kind \in Requests /\ req[h].pc = "idle"

\* CHECK (balance >= 0), and LessThan before it
Mutant_CanPay(u) == TRUE
CanPay(u) == balance[u] >= DuelPrice

Become(h, r) == req' = [req EXCEPT ![h] = r]

\* the rest of the list a cron run works through, or the end of the request
Finish(h) ==
    Become(h, IF req[h].batch = {} THEN Idle
              ELSE [Idle EXCEPT !.pc = "next", !.job = req[h].job, !.batch = req[h].batch])

\* an error returned from a duel: AutoCancelDuels logs it and goes on, the
\* resolving crons return and drop the rest of their list
Fail(h) == IF req[h].job = "autoCancel" THEN Finish(h) ELSE Become(h, Idle)

Tick ==
    /\ now < Horizon
    /\ now' = now + 1
    /\ UNCHANGED <<duels, players, balance, streakDone, req>>

-----------------------------------------------------------------------------
(* Creating a duel: the row, the owner's seat and the charge in one transaction *)

OpenDuel(d, row, seat, charge) ==
    /\ duels[d].status = NoStatus
    /\ duels' = [duels EXCEPT ![d] = SeatTaken(row, row)]
    /\ players' = [players EXCEPT ![d] = Append(@, seat)]
    /\ balance' = [balance EXCEPT ![seat.user] = @ - charge]

CreateNewDuel(h, u, d, crypto, s, answer) ==
    /\ Arrives(h, "create")
    /\ CanPay(u)
    /\ OpenDuel(d, DuelByCreateReq(u, crypto, s), Seat(u, answer, now, TRUE), DuelPrice)
    /\ Become(h, [Idle EXCEPT !.pc = "streak", !.user = u])
    /\ UNCHANGED <<now, streakDone>>

CreateNewDuelAdmin(h, u, d, crypto, s, answer) ==
    /\ Arrives(h, "createAdmin")
    /\ CanPay(u)
    /\ OpenDuel(d, DuelByCreateReqAdmin(u, crypto, s), Seat(u, answer, now, TRUE), DuelPrice)
    /\ UNCHANGED <<now, streakDone, req>>

\* the cron's duels seat their owner, with a coin flip and without a charge
CreateDuelsWithJoin(h, d, s, answer) ==
    /\ Arrives(h, "createCron")
    /\ OpenDuel(d, DuelByCreateReqAdmin(House, TRUE, s), Seat(House, answer, now, FALSE), 0)
    /\ UNCHANGED <<now, streakDone, req>>

-----------------------------------------------------------------------------
(* Joining: reads and checks first, the transaction later *)

\* forgets the status
Mutant_IsAbleToJoinDuel(d, u) ==
    /\ duels[d].status # NoStatus
    /\ ~(duels[d].deadline < now)
    /\ ~UserAlreadyParticipant(u, d)

IsAbleToJoinDuel(d, u) ==
    /\ duels[d].status # NoStatus
    /\ ~(duels[d].deadline < now)
    /\ \/ duels[d].status = InProcess
       \/ duels[d].status = InReview /\ duels[d].owner = u
    /\ ~UserAlreadyParticipant(u, d)

JoinDuel(h, u, d, answer) ==
    /\ Arrives(h, "join")
    /\ IsAbleToJoinDuel(d, u)
    /\ CanPay(u)
    /\ Become(h, [Idle EXCEPT !.pc = "join", !.user = u, !.duel = d,
                              !.snap = duels[d], !.answer = answer, !.since = now])
    /\ UNCHANGED <<now, duels, players, balance, streakDone>>

\* created_at is taken between the check and the commit, the status written
\* back is the one the check read
JoinCommit(h) ==
    LET r == req[h] IN
    /\ r.pc = "join"
    /\ CanPay(r.user)
    /\ \E at \in r.since..now :
          players' = [players EXCEPT ![r.duel] = Append(@, Seat(r.user, r.answer, at, TRUE))]
    /\ duels' = [duels EXCEPT ![r.duel] = SeatTaken(@, r.snap)]
    /\ balance' = [balance EXCEPT ![r.user] = @ - DuelPrice]
    /\ Become(h, [Idle EXCEPT !.pc = "streak", !.user = r.user])
    /\ UNCHANGED <<now, streakDone>>

\* CHECK (balance >= 0) fails and the transaction rolls back
JoinRejected(h) ==
    /\ req[h].pc = "join"
    /\ ~CanPay(req[h].user)
    /\ Become(h, Idle)
    /\ UNCHANGED <<now, duels, players, balance, streakDone>>

\* the streak task reads the whole user ...
CompleteDailyStreakTask(h) ==
    LET u == req[h].user IN
    /\ req[h].pc = "streak"
    /\ Become(h, IF u \in streakDone THEN Idle
                 ELSE [Idle EXCEPT !.pc = "streakUpdate", !.user = u,
                                   !.balance = balance[u]])
    /\ UNCHANGED <<now, duels, players, balance, streakDone>>

\* ... and writes all of its non-zero columns back, the balance among them
StreakUpdate(h) ==
    LET r == req[h] IN
    /\ r.pc = "streakUpdate"
    /\ balance' = [balance EXCEPT ![r.user] = NonZero(r.balance, @)]
    /\ streakDone' = streakDone \cup {r.user}
    /\ Become(h, Idle)
    /\ UNCHANGED <<now, duels, players>>

-----------------------------------------------------------------------------
(* Moderation *)

\* approves what is closed
Mutant_ApproveDuel(h, d) ==
    /\ Arrives(h, "approve")
    /\ duels[d].status # NoStatus
    /\ Become(h, [Idle EXCEPT !.pc = "approve", !.duel = d, !.snap = duels[d]])
    /\ UNCHANGED <<now, duels, players, balance, streakDone>>

ApproveDuel(h, d) ==
    /\ Arrives(h, "approve")
    /\ duels[d].status = InReview
    /\ Become(h, [Idle EXCEPT !.pc = "approve", !.duel = d, !.snap = duels[d]])
    /\ UNCHANGED <<now, duels, players, balance, streakDone>>

ApproveUpdate(h) ==
    LET r == req[h] IN
    /\ r.pc = "approve"
    /\ duels' = [duels EXCEPT ![r.duel] = Update(@, [r.snap EXCEPT !.status = InProcess])]
    /\ Become(h, Idle)
    /\ UNCHANGED <<now, players, balance, streakDone>>

\* a model that carries only the id and the new dates
EditDuel(h, d, s) ==
    /\ Arrives(h, "edit")
    /\ duels[d].status # NoStatus
    /\ duels' = [duels EXCEPT ![d] = Update(@, [NoDuel EXCEPT !.deadline = s.deadline,
                                                              !.eventDate = s.eventDate])]
    /\ UNCHANGED <<now, players, balance, streakDone, req>>

ResolveDuckPointDuelByAdmin(h, d, answer) ==
    /\ Arrives(h, "resolve")
    /\ duels[d].status = InProcess
    /\ Become(h, [Idle EXCEPT !.pc = "winners", !.job = "admin", !.duel = d,
                              !.snap = duels[d], !.answer = answer,
                              !.cutoff = duels[d].deadline])
    /\ UNCHANGED <<now, duels, players, balance, streakDone>>

ValidateDuelCancel(d, target) ==
    \/ target = AdminCancelled /\ duels[d].status = InReview
    \/ target = Refund /\ duels[d].status = InProcess

CancelDuckPointDuelByAdmin(h, d, target) ==
    /\ Arrives(h, "cancel")
    /\ ValidateDuelCancel(d, target)
    /\ Become(h, [Idle EXCEPT !.pc = "cancel", !.job = "admin", !.duel = d,
                              !.snap = duels[d], !.target = target])
    /\ UNCHANGED <<now, duels, players, balance, streakDone>>

-----------------------------------------------------------------------------
(* Cron runs: a list of duels is read once, then worked through *)

\* picks the duels whose event is still to come
Mutant_Ended(d) ==
    duels[d].status = InProcess /\ duels[d].crypto /\ duels[d].eventDate > now

Ended(d) ==
    duels[d].status = InProcess /\ duels[d].crypto /\ duels[d].eventDate < now

Active(d) ==
    duels[d].status = InProcess /\ duels[d].crypto /\ duels[d].eventDate > now

\* wants both conditions
Mutant_OldInReview(d) ==
    /\ duels[d].status = InReview
    /\ duels[d].createdAt < now - ReviewDays /\ duels[d].eventDate < now

OldInReview(d) ==
    /\ duels[d].status = InReview
    /\ duels[d].createdAt < now - ReviewDays \/ duels[d].eventDate < now

Listed(h, job, which) ==
    /\ which # {}
    /\ Become(h, [Idle EXCEPT !.pc = "next", !.job = job,
                              !.batch = {[duel |-> d, snap |-> duels[d]] : d \in which}])
    /\ UNCHANGED <<now, duels, players, balance, streakDone>>

ResolveDuckPointOnEventDate(h) ==
    Arrives(h, "onEvent") /\ Listed(h, "onEvent", {d \in Duels : Ended(d)})

ResolveDuckPointBeforeEventDate(h) ==
    Arrives(h, "beforeEvent") /\ Listed(h, "beforeEvent", {d \in Duels : Active(d)})

AutoCancelDuels(h) ==
    Arrives(h, "autoCancel") /\ Listed(h, "autoCancel", {d \in Duels : OldInReview(d)})

\* the coin's price decides the answer
NextOnEventDate(h, e, answer) ==
    /\ req[h].pc = "next" /\ req[h].job = "onEvent"
    /\ e \in req[h].batch
    /\ Become(h, [Idle EXCEPT !.pc = "winners", !.job = "onEvent", !.duel = e.duel,
                              !.snap = e.snap, !.answer = answer,
                              !.cutoff = e.snap.deadline, !.batch = req[h].batch \ {e}])
    /\ UNCHANGED <<now, duels, players, balance, streakDone>>

\* the price was reached: the answer is yes, later seats are refunded
NextBeforeEventDate(h, e) ==
    /\ req[h].pc = "next" /\ req[h].job = "beforeEvent"
    /\ e \in req[h].batch
    /\ Become(h, [Idle EXCEPT !.pc = "winners", !.job = "beforeEvent", !.duel = e.duel,
                              !.snap = e.snap, !.answer = 1,
                              !.cutoff = now - ResolveJoinNotBefore,
                              !.batch = req[h].batch \ {e}])
    /\ UNCHANGED <<now, duels, players, balance, streakDone>>

\* the price was not reached
SkipBeforeEventDate(h, e) ==
    /\ req[h].pc = "next" /\ req[h].job = "beforeEvent"
    /\ e \in req[h].batch
    /\ Become(h, IF req[h].batch = {e} THEN Idle
                 ELSE [req[h] EXCEPT !.batch = @ \ {e}])
    /\ UNCHANGED <<now, duels, players, balance, streakDone>>

NextAutoCancel(h, e) ==
    /\ req[h].pc = "next" /\ req[h].job = "autoCancel"
    /\ e \in req[h].batch
    /\ Become(h, [Idle EXCEPT !.pc = "cancel", !.job = "autoCancel", !.duel = e.duel,
                              !.snap = e.snap, !.target = AutoCancelled,
                              !.batch = req[h].batch \ {e}])
    /\ UNCHANGED <<now, duels, players, balance, streakDone>>

-----------------------------------------------------------------------------
(* resolveDuckPointDuel *)

ReadWinners(h) ==
    LET r == req[h] IN
    /\ r.pc = "winners"
    /\ Become(h, [r EXCEPT !.pc = "refunds",
                           !.winners = GetDuelWinners(r.duel, r.answer, r.cutoff)])
    /\ UNCHANGED <<now, duels, players, balance, streakDone>>

\* the pool comes from the count the request read first
PoolOf(r, refunds) == PlayersPool(r.snap.playersCount, refunds, CountModulus)

Degenerate(r, refunds) ==
    LET w == Cardinality(r.winners) IN PoolOf(r, refunds) \in {0, w} \/ w = 0

ReadRefunds(h) ==
    LET r == req[h]
        n == CountDuelPlayersToRefund(r.duel, r.cutoff)
    IN  /\ r.pc = "refunds"
        /\ Become(h, IF Degenerate(r, n)
                       THEN [r EXCEPT !.pc = "cancel", !.target = Refund, !.winners = {}]
                       ELSE [r EXCEPT !.pc = "settle", !.refunds = n])
        /\ UNCHANGED <<now, duels, players, balance, streakDone>>

WinAmount(r) ==
    FinalReward(Pool(DuelPrice, PoolOf(r, r.refunds)), Commission, Cardinality(r.winners))

OwnerReward(r) == CommissionReward(Pool(DuelPrice, PoolOf(r, r.refunds)), Commission)

\* the settlement transaction
Settle(h) ==
    LET r     == req[h]
        won   == UpdateDuelWinnersBalance(balance, r.duel, r.answer, WinAmount(r), r.cutoff)
        owned == Credit(won, {r.snap.owner}, OwnerReward(r))
        rows  == UpdateDuelWinners(players[r.duel], r.winners, WinAmount(r))
    IN  /\ r.pc = "settle"
        /\ WinAmountFits(WinAmount(r))
        /\ balance' = IF r.refunds > 0 THEN PartialDuelRefund(owned, r.duel, r.cutoff) ELSE owned
        /\ players' = [players EXCEPT ![r.duel] =
                         IF r.refunds > 0
                           THEN SetStatus(rows, LateRows(r.duel, r.cutoff), PlayerRefunded)
                           ELSE rows]
        /\ duels' = [duels EXCEPT ![r.duel] =
                       Update(@, [r.snap EXCEPT !.status = Resolved,
                                                !.finalResult = r.answer,
                                                !.refundedPlayersCount = r.refunds,
                                                !.winnersCount = Cardinality(r.winners)])]
        /\ Finish(h)
        /\ UNCHANGED <<now, streakDone>>

\* win_amount overflows its column: the transaction rolls back
SettleOverflow(h) ==
    /\ req[h].pc = "settle"
    /\ ~WinAmountFits(WinAmount(req[h]))
    /\ Fail(h)
    /\ UNCHANGED <<now, duels, players, balance, streakDone>>

-----------------------------------------------------------------------------
(* cancelDuel *)

\* RefundOnDuelCancel picks its users; SetStatusToAll runs outside the
\* transaction and is committed whatever happens to it
CancelRefunds(h) ==
    LET r == req[h] IN
    /\ r.pc = "cancel"
    /\ players' = [players EXCEPT ![r.duel] = SetStatus(@, DOMAIN @, PlayerRefunded)]
    /\ Become(h, [r EXCEPT !.pc = "cancelCommit", !.seated = UsersOf(r.duel, Rows(r.duel))])
    /\ UNCHANGED <<now, duels, balance, streakDone>>

CancelCommit(h) ==
    LET r == req[h] IN
    /\ r.pc = "cancelCommit"
    /\ balance' = Credit(balance, r.seated, DuelPrice)
    /\ duels' = [duels EXCEPT ![r.duel] = Update(@, [r.snap EXCEPT !.status = r.target])]
    /\ Finish(h)
    /\ UNCHANGED <<now, players, streakDone>>

\* the transaction does not commit; the statuses written outside it stay
CancelFails(h) ==
    /\ Faults
    /\ req[h].pc = "cancelCommit"
    /\ Fail(h)
    /\ UNCHANGED <<now, duels, players, balance, streakDone>>

\* a request dies between two steps: an error from the database or from the
\* price service, a closed connection, a restart of the process
Abort(h) ==
    /\ Faults
    /\ req[h].pc # "idle"
    /\ Become(h, Idle)
    /\ UNCHANGED <<now, duels, players, balance, streakDone>>

-----------------------------------------------------------------------------
Continue(h) ==
    \/ JoinCommit(h) \/ JoinRejected(h)
    \/ CompleteDailyStreakTask(h) \/ StreakUpdate(h)
    \/ ApproveUpdate(h)
    \/ \E e \in req[h].batch :
          \/ \E answer \in Answers : NextOnEventDate(h, e, answer)
          \/ NextBeforeEventDate(h, e)
          \/ SkipBeforeEventDate(h, e)
          \/ NextAutoCancel(h, e)
    \/ ReadWinners(h) \/ ReadRefunds(h)
    \/ Settle(h) \/ SettleOverflow(h)
    \/ CancelRefunds(h) \/ CancelCommit(h)

\* what a user, a moderator or the cron may ask for
UserRequest(h) ==
    \E u \in Users, d \in Duels, answer \in Answers :
       \/ \E crypto \in BOOLEAN, s \in Schedules :
             \/ CreateNewDuel(h, u, d, crypto, s, answer)
             \/ CreateNewDuelAdmin(h, u, d, crypto, s, answer)
       \/ JoinDuel(h, u, d, answer)

ModeratorRequest(h) ==
    \E d \in Duels :
       \/ ApproveDuel(h, d)
       \/ \E s \in Schedules : EditDuel(h, d, s)
       \/ \E answer \in Answers : ResolveDuckPointDuelByAdmin(h, d, answer)
       \/ \E target \in Statuses : CancelDuckPointDuelByAdmin(h, d, target)

CronRun(h) ==
    \/ \E d \in Duels, s \in Schedules, answer \in Answers :
          CreateDuelsWithJoin(h, d, s, answer)
    \/ ResolveDuckPointOnEventDate(h)
    \/ ResolveDuckPointBeforeEventDate(h)
    \/ AutoCancelDuels(h)

Next ==
    \/ Tick
    \/ \E h \in Handlers :
          UserRequest(h) \/ ModeratorRequest(h) \/ CronRun(h)
            \/ Continue(h) \/ CancelFails(h) \/ Abort(h)

Spec == Init /\ [][Next]_vars

\* A request that runs is scheduled until it ends.  The cron entries fire for
\* ever, each in a goroutine of its own: the handler slots they share with the
\* requests here must not keep them out for ever, hence SF.
FairSpec ==
    /\ Spec
    /\ WF_vars(Tick)
    /\ \A h \in Handlers : WF_vars(Continue(h))
    /\ \E h \in Handlers : /\ SF_vars(ResolveDuckPointOnEventDate(h))
                           /\ SF_vars(AutoCancelDuels(h))

-----------------------------------------------------------------------------
(* Properties *)

Batch == [duel : Duels, snap : DuelRow]

Request == [pc : {"idle", "join", "streak", "streakUpdate", "approve", "next",
                  "winners", "refunds", "settle", "cancel", "cancelCommit"},
            job : {"none", "admin", "onEvent", "beforeEvent", "autoCancel"},
            user : Users \cup {Null}, duel : Duels \cup {Null}, snap : DuelRow,
            answer : Answers, since : Nat, cutoff : Int, target : Statuses,
            winners : SUBSET Nat, refunds : Nat, seated : SUBSET Users,
            balance : Nat, batch : SUBSET Batch]

\* Every row and every request keeps to its columns; CHECK (balance >= 0) is one.
TypeOK ==
    /\ now \in 1..Horizon
    /\ duels \in [Duels -> DuelRow]
    /\ players \in [Duels -> Seq(PlayerRow)]
    /\ balance \in [Users -> Nat]
    /\ streakDone \subseteq Users
    /\ req \in [Handlers -> Request]

Exists(d) == duels[d].status # NoStatus

RowsWith(d, status) == {i \in Rows(d) : players[d][i].finalStatus = status}

\* players_count, the number the pool is computed from, never runs ahead of the
\* rows of players whatever stale copies of the duel are written back
\* (JoinDuel increments it, every Generic.Update overwrites it).
CountNeverExceedsRows == \A d \in Duels : duels[d].playersCount <= Len(players[d])

\* A duel that is not touched by anyone counts exactly its rows.
CountMatchesRows == \A d \in Duels : duels[d].playersCount = Len(players[d])

\* "user is already participating in this duel": isAbleToJoinDuel lets a user
\* into a duel once.
OneSeatPerUser ==
    \A d \in Duels : \A i, j \in Rows(d) :
       players[d][i].user = players[d][j].user => i = j

\* No seat ever wins more than the stakes of the whole duel: a pool that wrapped
\* around zero (more refunds than the stale count) must never be paid out.
NoWindfall ==
    \A d \in Duels : \A i \in Rows(d) :
       players[d][i].winAmount <= Pool(DuelPrice, Len(players[d]))

\* What a resolved duel stored adds up: winners and refunds are counted as they
\* were marked, winners answered right, losers wrong, there are some of each, and
\* winners and owner share no more than the stakes that took part.
ResolvedAccounts ==
    \A d \in Duels : duels[d].status = Resolved =>
       LET won  == RowsWith(d, PlayerResolved)
           lost == RowsWith(d, PlayerActive)
           pool == Pool(DuelPrice, duels[d].playersCount - duels[d].refundedPlayersCount)
       IN  /\ duels[d].winnersCount = Cardinality(won)
           /\ duels[d].refundedPlayersCount = Cardinality(RowsWith(d, PlayerRefunded))
           /\ won # {} /\ lost # {}
           /\ \A i \in won : players[d][i].answer = duels[d].finalResult
           /\ \A i \in lost : players[d][i].answer # duels[d].finalResult
           /\ SumFunction([i \in won |-> players[d][i].winAmount])
                + CommissionReward(pool, Commission) <= pool

\* What one duel has paid back to a user so far, read off its row and its seats.
Credits(d, u) ==
    LET mine  == {i \in Rows(d) : players[d][i].user = u}
        taken == duels[d].playersCount - duels[d].refundedPlayersCount
        Paid(i) == LET p == players[d][i] IN
                   IF duels[d].status \in Cancelled \/ p.finalStatus = PlayerRefunded THEN DuelPrice
                   ELSE IF p.finalStatus = PlayerResolved THEN p.winAmount
                   ELSE IF u \in Premium THEN PremiumPlayersConsolationReward ELSE 0
    IN  IF duels[d].status \notin Terminal THEN 0
        ELSE SumFunction([i \in mine |-> Paid(i)])
               + (IF duels[d].status = Resolved /\ duels[d].owner = u
                    THEN CommissionReward(Pool(DuelPrice, taken), Commission) ELSE 0)

Stakes(d, u) ==
    DuelPrice * Cardinality({i \in Rows(d) : players[d][i].user = u /\ players[d][i].charged})

\* Every point is accounted for: a user's balance is what it started with, less
\* the seats it paid, plus what the rows of settled and cancelled duels say it got
\* back - each refund, win, consolation and commission exactly once.
BooksBalance ==
    \A u \in Users :
       balance[u] = InitialBalance + SumFunction([d \in Duels |-> Credits(d, u) - Stakes(d, u)])

\* A settled or cancelled duel is final: no later request reopens it, changes
\* its outcome or touches its seats.
SettledFinal ==
    [][\A d \in Duels : duels[d].status \in Terminal =>
          /\ duels'[d].status = duels[d].status
          /\ duels'[d].finalResult = duels[d].finalResult
          /\ players'[d] = players[d]]_vars

\* "resolve is not possible from current status": a settlement pays only a duel
\* that is in process.
SettlesOnlyInProcess ==
    [][\A h \in Handlers : Settle(h) => duels[req[h].duel].status = InProcess]_vars

\* A duel leaves a terminal status only through the stale status of a join, of an
\* approval or of another closing request: one that read it before it was closed.
ReopenedOnlyByStaleRead ==
    [][\A d \in Duels :
          duels[d].status \in Terminal /\ duels'[d].status # duels[d].status =>
             \E h \in Handlers : /\ req[h].duel = d
                                 /\ req[h].snap.status \in {InReview, InProcess}
                                 /\ req'[h] # req[h]]_vars

Overdue(d) == duels[d].status = InProcess /\ duels[d].crypto /\ duels[d].eventDate < now

\* The on-event cron works its way to every crypto-topic duel whose event date
\* has passed, whatever order the list comes in (ResolveDuckPointOnEventDate).
EndedDuelsSettle == \A d \in Duels : Overdue(d) ~> ~Overdue(d)

Unreviewed(d) == duels[d].status = InReview /\ duels[d].eventDate < now

\* A duel nobody approved does not hold its owner's stake once its event is over
\* (AutoCancelDuels).
OldReviewsCancelled == \A d \in Duels : Unreviewed(d) ~> ~Unreviewed(d)
=============================================================================
