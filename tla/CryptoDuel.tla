----------------------------- MODULE CryptoDuel -----------------------------
(***************************************************************************)
(* Crypto duels: a duel whose stakes lie in a room on the Solana chain.    *)
(* internal/service/crypto_duel_service.go and wallet_contract.go.         *)
(*                                                                         *)
(* One duel.  Every request first moves money on chain and then writes its *)
(* rows, in separate steps, and either may fail: a transaction the caller  *)
(* saw failing may have landed, one it saw accepted may not (sendTransaction *)
(* does not wait), a database write may be refused, a request may die.     *)
(* Each such event uses up one of MaxFaults.                               *)
(*                                                                         *)
(* The room's program and the chain are not in this repository: a room is  *)
(* modelled from the calls made to it (init, join, reallocate, close).     *)
(***************************************************************************)
EXTENDS Sequences, FiniteSets, Functions, RewardMath, DuelModel

CONSTANTS
    Admin,                 \* the wallet that pays winners and refunds
    Admins,                \* users with the role admin
    ReferrerOf,            \* referrer of each user, Null without one
    Handlers,              \* requests and cron runs that may be in flight at once
    InitialUSDC,           \* every user's wallet at the start, in millionths
    AdminFloat,            \* the admin wallet at the start
    DuelPrice,             \* duel_price, whole USDC
    Commission,            \* commission, percent
    CountModulus,          \* 2^64 in the code: players counts are uint64
    SeatsPerAllocation,    \* 10 in the code: seats one allocation of a room holds
    TransfersPerTransaction, \* TransferInstructionsPerTransaction, 32 in the code
    Schedules,             \* deadline and event date a request may carry
    ResolveJoinNotBefore,  \* window of the before-event cron
    ReviewDays,            \* age at which a duel in review is cancelled
    Requests,              \* kinds of requests and cron runs that arrive
    Creators,              \* bound: the users who open duels of their own
    Horizon,               \* bound: the clock stops here
    MaxFaults              \* bound: failures and crashes in a behaviour

ASSUME WalletsAssumption ==
    /\ Admin \notin Users /\ Null \notin Users /\ Null # Admin
    /\ IsFiniteSet(Users) /\ Admins \subseteq Users /\ Creators \subseteq Users
    /\ ReferrerOf \in [Users -> Users \cup {Null}]
    /\ InitialUSDC \in Nat /\ AdminFloat \in Nat
ASSUME PriceAssumption ==
    /\ DuelPrice \in Nat \ {0}
    /\ Commission \in 0..100
    /\ CountModulus \in Nat \ {0}
ASSUME BatchAssumption ==
    SeatsPerAllocation \in Nat \ {0} /\ TransfersPerTransaction \in Nat \ {0}
ASSUME ClockAssumption ==
    /\ Schedules \subseteq [deadline : Nat \ {0}, eventDate : Nat \ {0}]
    /\ ResolveJoinNotBefore \in Nat /\ ReviewDays \in Nat
    /\ Horizon \in Nat \ {0} /\ MaxFaults \in Nat

VARIABLES
    now,         \* the clock, in ticks
    duel,        \* the row of the duel
    players,     \* its rows of players, in insertion order
    usdc,        \* wallets on chain, in millionths of a USDC
    room,        \* the room on chain
    req,         \* what each handler is doing and what it has read
    faultsLeft   \* how many failures are still to come

db == <<duel, players>>
chain == <<usdc, room>>
vars == <<now, duel, players, usdc, room, req, faultsLeft>>

Stake == DuelPrice * Micro

\* sent: transfers the service submitted for this seat; waived: the duel was let play
\* while no stake was in.  Both are history variables.
PlayerRow == [user : Users, answer : Answers, createdAt : Nat,
              finalStatus : {PlayerActive, PlayerResolved, PlayerRefunded},
              winAmount : Nat, sent : Nat, waived : BOOLEAN]

\* entries: how often each user's stake went in
NoRoom == [state |-> "none", seats |-> 0, entries |-> [u \in Users |-> 0]]

Idle == [pc |-> "idle", job |-> "none", user |-> Null, snap |-> NoDuel,
         answer |-> 0, since |-> 0, cutoff |-> 0, target |-> NoStatus,
         winners |-> {}, list |-> {}, due |-> {}, amount |-> 0, next |-> "idle"]

-----------------------------------------------------------------------------
(* Queries of internal/storage/repository *)

Rows == DOMAIN players

UserAlreadyParticipant(u) == \E i \in Rows : players[i].user = u

GetDuelWinners(answer, cutoff) ==
    {i \in Rows : players[i].answer = answer /\ players[i].createdAt <= cutoff}

GetDuelPlayersToRefund(cutoff) ==
    {i \in Rows : players[i].finalStatus = PlayerActive /\ players[i].createdAt > cutoff}

\* forgets final_status = ?
Mutant_GetCryptoDuelWinners(answer) == {i \in Rows : players[i].answer = answer}

GetCryptoDuelWinners(answer) ==
    {i \in Rows : players[i].finalStatus = PlayerActive /\ players[i].answer = answer}

Seat(u, answer, at) ==
    [user |-> u, answer |-> answer, createdAt |-> at,
     finalStatus |-> PlayerActive, winAmount |-> 0, sent |-> 0, waived |-> FALSE]

\* DuelRepository.JoinDuel: the row that is seated, the copy the request read
SeatTaken(row, read) == [row EXCEPT !.playersCount = @ + 1, !.status = read.status]

\* counts the owner's seat before it is taken
Mutant_DuelByCreateReq(owner, crypto, s) ==
    [NoDuel EXCEPT !.status = IF crypto THEN InProcess ELSE InReview,
                   !.crypto = crypto, !.owner = owner, !.createdAt = now,
                   !.playersCount = 1,
                   !.deadline = s.deadline, !.eventDate = s.eventDate]

DuelByCreateReq(owner, crypto, s) ==
    [NoDuel EXCEPT !.status = IF crypto THEN InProcess ELSE InReview,
                   !.crypto = crypto, !.owner = owner, !.createdAt = now,
                   !.deadline = s.deadline, !.eventDate = s.eventDate]

-----------------------------------------------------------------------------
Init ==
    /\ now = 1
    /\ duel = NoDuel
    /\ players = <<>>
    /\ usdc = [w \in Users \cup {Admin} |-> IF w = Admin THEN AdminFloat ELSE InitialUSDC]
    /\ room = NoRoom
    /\ req = [h \in Handlers |-> Idle]
    /\ faultsLeft = MaxFaults

Arrives(h, kind) == kind \in Requests /\ req[h].pc = "idle"

Become(h, r) == req' = [req EXCEPT ![h] = r]

Go(h, r, pc) == Become(h, [r EXCEPT !.pc = pc])

Tick ==
    /\ now < Horizon
    /\ now' = now + 1
    /\ UNCHANGED <<db, chain, req, faultsLeft>>

\* What a caller is told of a transaction and what the chain makes of it.
Done == [told |-> TRUE, landed |-> TRUE]
Nothing == [told |-> FALSE, landed |-> FALSE]
Unseen == [told |-> FALSE, landed |-> TRUE]    \* the answer was lost or came too late
Dropped == [told |-> TRUE, landed |-> FALSE]   \* accepted, then not in any block

\* sendTransaction believes the node that took the transaction; sendTxWithTracker
\* believes a confirmation and gives up after TxConfirmationTimeout
Untracked == {Nothing, Unseen, Dropped}
\* does not wait for the confirmation
Mutant_Tracked == Untracked
Tracked == {Nothing, Unseen}

Attempt(o, failures, possible) ==
    \/ o = (IF possible THEN Done ELSE Nothing) /\ UNCHANGED faultsLeft
    \/ /\ o \in failures /\ (o.landed => possible)
       /\ faultsLeft > 0 /\ faultsLeft' = faultsLeft - 1

Outcomes == {Done, Nothing, Unseen, Dropped}

\* a write the database refuses, a read that fails, a process that dies
Abort(h) ==
    /\ faultsLeft > 0 /\ faultsLeft' = faultsLeft - 1
    /\ req[h].pc # "idle"
    /\ Become(h, Idle)
    /\ UNCHANGED <<now, db, chain>>

-----------------------------------------------------------------------------
(* Requests that open a duel or take a seat: charge on chain, then record *)

\* the room number is drawn per request: only one request creates this duel
FreshDuel ==
    /\ duel = NoDuel /\ room = NoRoom
    /\ \A h \in Handlers : req[h].job # "create"

\* no seat and no room: the first player to join makes the room
CreateNewCryptoDuelAdmin(h, u, crypto, s) ==
    /\ Arrives(h, "createAdmin")
    /\ FreshDuel
    /\ duel' = [DuelByCreateReq(u, crypto, s) EXCEPT !.status = InProcess]
    /\ UNCHANGED <<now, players, chain, req, faultsLeft>>

\* a duel that is to be reviewed is not charged for
CreateInReview(h, u, s, answer) ==
    LET row == DuelByCreateReq(u, FALSE, s) IN
    /\ Arrives(h, "create")
    /\ FreshDuel
    /\ duel' = SeatTaken(row, row)
    /\ players' = <<Seat(u, answer, now)>>
    /\ UNCHANGED <<now, chain, req, faultsLeft>>

CreateNewCryptoDuel(h, u, s, answer) ==
    /\ Arrives(h, "create")
    /\ FreshDuel
    /\ Become(h, [Idle EXCEPT !.pc = "charge", !.job = "create", !.user = u,
                              !.snap = DuelByCreateReq(u, TRUE, s), !.answer = answer,
                              !.since = now])
    /\ UNCHANGED <<now, db, chain, faultsLeft>>

IsAbleToJoinDuel(u) ==
    /\ duel.status # NoStatus
    /\ ~(duel.deadline < now)
    /\ \/ duel.status = InProcess
       \/ duel.status = InReview /\ duel.owner = u
    /\ ~UserAlreadyParticipant(u)

JoinCryptoDuel(h, u, answer) ==
    /\ Arrives(h, "join")
    /\ IsAbleToJoinDuel(u)
    /\ Become(h, [Idle EXCEPT !.pc = "charge", !.job = "join", !.user = u,
                              !.snap = duel, !.answer = answer, !.since = now])
    /\ UNCHANGED <<now, db, chain, faultsLeft>>

\* the owner, who took a seat when the duel went into review, is charged now
ApproveCryptoDuel(h) ==
    /\ Arrives(h, "approve")
    /\ duel.status = InReview
    /\ \E i \in Rows :
          /\ players[i].user = duel.owner
          /\ Become(h, [Idle EXCEPT !.pc = "charge", !.job = "approve", !.user = duel.owner,
                                    !.snap = duel, !.answer = players[i].answer,
                                    !.since = now])
    /\ UNCHANGED <<now, db, chain, faultsLeft>>

\* the route for duck duels, /admin/duel/approve, takes a crypto duel as well: it does
\* not look at the payment type, charges nobody and makes no room
ApproveDuel(h) ==
    /\ Arrives(h, "approveDuel")
    /\ duel.status = InReview
    /\ Become(h, [Idle EXCEPT !.pc = "publish", !.job = "approveDuel", !.snap = duel])
    /\ UNCHANGED <<now, db, chain, faultsLeft>>

Waive(rows) == [i \in DOMAIN rows |-> [rows[i] EXCEPT !.waived = TRUE]]

PublishUncharged(h) ==
    LET r == req[h] IN
    /\ r.pc = "publish"
    /\ duel' = Update(duel, [r.snap EXCEPT !.status = InProcess])
    /\ players' = IF room.state = "none" THEN Waive(players) ELSE players
    /\ Become(h, Idle)
    /\ UNCHANGED <<now, chain, faultsLeft>>

Entries == SumFunction(room.entries)

\* never makes room
Mutant_Reallocates(count) == FALSE
Reallocates(count) ==
    count \div SeatsPerAllocation + 1 # (count - 1) \div SeatsPerAllocation + 1

\* makes one whenever there is none, also for the second player of a duel
Mutant_MakesRoom(r) == room.state = "none"

\* which instructions a request sends, from the count it read
MakesRoom(r) == r.job # "join" \/ r.snap.playersCount = 0

SeatsAfter(r) ==
    IF MakesRoom(r) THEN SeatsPerAllocation
    ELSE room.seats + (IF Reallocates(r.snap.playersCount) THEN SeatsPerAllocation ELSE 0)

\* the chain refuses to make a room twice, to enter a full or closed one, and to
\* move what is not there
Mutant_CanEnter(r) == Entries < SeatsAfter(r)
CanEnter(r) ==
    /\ usdc[r.user] >= Stake
    /\ IF MakesRoom(r) THEN room.state = "none" ELSE room.state = "open"
    /\ Entries < SeatsAfter(r)

\* InitAndJoinSolanaRoom, JoinSolanaRoom
Charge(h) ==
    LET r == req[h] IN
    /\ r.pc = "charge"
    /\ \E o \in Outcomes :
          /\ Attempt(o, Tracked, CanEnter(r))
          /\ IF o.landed
               THEN /\ usdc' = [usdc EXCEPT ![r.user] = @ - Stake]
                    /\ room' = [state |-> "open", seats |-> SeatsAfter(r),
                                entries |-> [room.entries EXCEPT ![r.user] = @ + 1]]
               ELSE UNCHANGED chain
          /\ IF o.told THEN Go(h, r, "record") ELSE Become(h, Idle)
    /\ UNCHANGED <<now, db>>

\* the seat of a new duel or of a join; the duel's approval
Record(h) ==
    LET r == req[h] IN
    /\ r.pc = "record"
    /\ IF r.job = "approve"
         THEN duel' = Update(duel, [r.snap EXCEPT !.status = InProcess]) /\ UNCHANGED players
         ELSE /\ duel' = SeatTaken(IF r.job = "create" THEN r.snap ELSE duel, r.snap)
              /\ \E at \in r.since..now : players' = Append(players, Seat(r.user, r.answer, at))
    /\ Become(h, Idle)
    /\ UNCHANGED <<now, chain, faultsLeft>>

EditDuel(h, s) ==
    /\ Arrives(h, "edit")
    /\ duel.status # NoStatus
    /\ duel' = Update(duel, [NoDuel EXCEPT !.deadline = s.deadline, !.eventDate = s.eventDate])
    /\ UNCHANGED <<now, players, chain, req, faultsLeft>>

-----------------------------------------------------------------------------
(* Requests that close it *)

Resolve(h, answer, cutoff) ==
    /\ Become(h, [Idle EXCEPT !.pc = "winners", !.job = "resolve", !.snap = duel,
                              !.answer = answer, !.cutoff = cutoff])
    /\ UNCHANGED <<now, db, chain, faultsLeft>>

ResolveCryptoDuelByAdmin(h, answer) ==
    /\ Arrives(h, "resolve")
    /\ duel.status = InProcess
    /\ Resolve(h, answer, duel.deadline)

Overdue == duel.status = InProcess /\ duel.crypto /\ duel.eventDate < now

\* picks the duels whose event is still to come
Mutant_ResolveCryptoOnEventDate(h) ==
    /\ Arrives(h, "onEvent")
    /\ duel.status = InProcess /\ duel.crypto /\ duel.eventDate > now
    /\ \E answer \in Answers : Resolve(h, answer, duel.deadline)

\* the coin's price decides the answer
ResolveCryptoOnEventDate(h) ==
    /\ Arrives(h, "onEvent")
    /\ Overdue
    /\ \E answer \in Answers : Resolve(h, answer, duel.deadline)

\* the price was reached: the answer is yes, later seats are refunded
ResolveCryptoBeforeEventDate(h) ==
    /\ Arrives(h, "beforeEvent")
    /\ duel.status = InProcess /\ duel.crypto /\ duel.eventDate > now
    /\ Resolve(h, 1, now - ResolveJoinNotBefore)

\* thinks that the first player was not charged
Mutant_HasChargedDuelPriceFromUser(count, old, new) == old = InProcess /\ new = Refund /\ count > 1
HasChargedDuelPriceFromUser(count, old, new) ==
    old = InProcess /\ new = Refund /\ count > 0

\* cancelCryptoDuel from its first line on
Cancelling(r, target) ==
    [r EXCEPT !.target = target,
              !.pc = IF HasChargedDuelPriceFromUser(r.snap.playersCount, r.snap.status, target)
                       THEN "everybody" ELSE "cancelUpdate"]

\* refunds a duel in any status
Mutant_ValidateDuelCancel(target) ==
    \/ target = AdminCancelled /\ duel.status = InReview
    \/ target = Refund /\ duel.status # NoStatus

ValidateDuelCancel(target) ==
    \/ target = AdminCancelled /\ duel.status = InReview
    \/ target = Refund /\ duel.status = InProcess

CancelCryptoDuelByAdmin(h, target) ==
    /\ Arrives(h, "cancel")
    /\ ValidateDuelCancel(target)
    /\ Become(h, Cancelling([Idle EXCEPT !.job = "cancel", !.snap = duel], target))
    /\ UNCHANGED <<now, db, chain, faultsLeft>>

AutoCancelDuels(h) ==
    /\ Arrives(h, "autoCancel")
    /\ duel.status = InReview
    /\ duel.createdAt < now - ReviewDays \/ duel.eventDate < now
    /\ Become(h, Cancelling([Idle EXCEPT !.job = "autoCancel", !.snap = duel], AutoCancelled))
    /\ UNCHANGED <<now, db, chain, faultsLeft>>

-----------------------------------------------------------------------------
(* RewardDuelWinners, TransferUSDCBulk: transfers from the admin wallet, *)
(* TransfersPerTransaction of them at a time                             *)

FirstRows(rows, n) ==
    CHOOSE some \in SUBSET rows :
       /\ Cardinality(some) = IF Cardinality(rows) < n THEN Cardinality(rows) ELSE n
       /\ \A i \in some, j \in rows \ some : i < j

\* who is still to be paid; when nobody is, the request goes on
ToPay(r, due) == [r EXCEPT !.pc = IF due = {} THEN r.next ELSE "pay", !.due = due]

Owed(rows, u, amount) == amount * Cardinality({i \in rows : players[i].user = u})

Pay(h) ==
    LET r     == req[h]
        chunk == FirstRows(r.due, TransfersPerTransaction)
        total == r.amount * Cardinality(chunk)
    IN  /\ r.pc = "pay"
        /\ \E o \in Outcomes :
              /\ Attempt(o, Untracked, usdc[Admin] >= total)
              /\ usdc' = IF o.landed
                           THEN [w \in DOMAIN usdc |-> IF w = Admin THEN usdc[w] - total
                                                       ELSE usdc[w] + Owed(chunk, w, r.amount)]
                           ELSE usdc
              /\ players' = [i \in Rows |->
                                IF i \in chunk /\ o # Nothing
                                  THEN [players[i] EXCEPT !.sent = @ + 1] ELSE players[i]]
              /\ Become(h, IF o.told THEN ToPay(r, r.due \ chunk) ELSE Idle)
        /\ UNCHANGED <<now, duel, room>>

\* RewardDuelOwnerWithCommission: nothing is sent when the amount is zero
Transfer(h, to, amount, pc, next) ==
    /\ req[h].pc = pc
    /\ IF to = Null \/ amount = 0
         THEN Go(h, req[h], next) /\ UNCHANGED <<chain, faultsLeft>>
         ELSE \E o \in Outcomes :
                 /\ Attempt(o, Untracked, usdc[Admin] >= amount)
                 /\ usdc' = IF o.landed
                              THEN [usdc EXCEPT ![Admin] = @ - amount, ![to] = @ + amount]
                              ELSE usdc
                 /\ IF o.told THEN Go(h, req[h], next) ELSE Become(h, Idle)
                 /\ UNCHANGED room
    /\ UNCHANGED <<now, db>>

\* CloseSolanaRoom: the stakes go to the admin wallet; an error is only logged
Close(h, next) ==
    /\ req[h].pc = "close"
    /\ \E o \in Outcomes :
          /\ Attempt(o, Tracked, room.state = "open")
          /\ IF o.landed
               THEN /\ usdc' = [usdc EXCEPT ![Admin] = @ + Stake * Entries]
                    /\ room' = [room EXCEPT !.state = "closed"]
               ELSE UNCHANGED chain
    /\ Go(h, req[h], next)
    /\ UNCHANGED <<now, db>>

-----------------------------------------------------------------------------
(* resolveCryptoDuel *)

ReadWinners(h) ==
    LET r == req[h] IN
    /\ r.pc = "winners"
    /\ Become(h, [r EXCEPT !.pc = "refunds", !.winners = GetDuelWinners(r.answer, r.cutoff)])
    /\ UNCHANGED <<now, db, chain, faultsLeft>>

ReadRefunds(h) ==
    LET r    == req[h]
        late == Cardinality(GetDuelPlayersToRefund(r.cutoff))
        pool == PlayersPool(r.snap.playersCount, late, CountModulus)
    IN  /\ r.pc = "refunds"
        /\ Become(h, IF r.winners = {} \/ pool \in {0, Cardinality(r.winners)}
                       THEN Cancelling(r, Refund)
                       ELSE [r EXCEPT !.pc = IF late > 0 THEN "late" ELSE "unpaid"])
        /\ UNCHANGED <<now, db, chain, faultsLeft>>

\* pay every row of the list, then go on
Paying(r, list, amount, next) ==
    ToPay([r EXCEPT !.list = list, !.amount = amount, !.next = next], list)

\* partialCryptoRefund: pay back the seats taken too late ...
ReadPlayersToRefund(h) ==
    LET r == req[h] IN
    /\ r.pc = "late"
    /\ Become(h, Paying(r, GetDuelPlayersToRefund(r.cutoff), Stake, "recordRefund"))
    /\ UNCHANGED <<now, db, chain, faultsLeft>>

\* forgets the statuses
Mutant_RecordRefund(h) ==
    LET r     == req[h]
        model == [r.snap EXCEPT !.refundedPlayersCount = @ + Cardinality(r.list)]
    IN  /\ r.pc = "recordRefund"
        /\ duel' = Update(duel, model)
        /\ Become(h, [r EXCEPT !.pc = "unpaid", !.snap = model])
        /\ UNCHANGED <<now, players, chain, faultsLeft>>

\* ... and record it before anybody else is paid
RecordRefund(h) ==
    LET r     == req[h]
        model == [r.snap EXCEPT !.refundedPlayersCount = @ + Cardinality(r.list)]
    IN  /\ r.pc = "recordRefund"
        /\ players' = SetStatus(players, r.list, PlayerRefunded)
        /\ duel' = Update(duel, model)
        /\ Become(h, [r EXCEPT !.pc = "unpaid", !.snap = model])
        /\ UNCHANGED <<now, chain, faultsLeft>>

PoolOf(r) ==
    Pool(DuelPrice, PlayersPool(r.snap.playersCount, r.snap.refundedPlayersCount, CountModulus))

OwnerReward(r) == CryptoCommissionReward(PoolOf(r), Commission)

\* the winners are counted with one query and paid from another
ReadUnpaidWinners(h) ==
    LET r      == req[h]
        unpaid == GetCryptoDuelWinners(r.answer)
    IN  /\ r.pc = "unpaid"
        /\ Become(h, IF unpaid = {} THEN Idle
                     ELSE Paying(r, unpaid,
                                 FinalCryptoReward(PoolOf(r), Commission, Cardinality(r.winners)),
                                 "ownerReward"))
        /\ UNCHANGED <<now, db, chain, faultsLeft>>

PayOwner(h) ==
    LET owner == req[h].snap.owner IN
    Transfer(h, IF owner \in Admins THEN Null ELSE owner, OwnerReward(req[h]),
             "ownerReward", "referrerReward")

PayReferrer(h) ==
    Transfer(h, ReferrerOf[req[h].snap.owner], OwnerReward(req[h]) \div 2,
             "referrerReward", "close")

CloseResolved(h) == req[h].target = NoStatus /\ Close(h, "settle")

Settle(h) ==
    LET r == req[h] IN
    /\ r.pc = "settle"
    /\ players' = UpdateDuelWinners(players, r.winners, r.amount)
    /\ duel' = Update(duel, [r.snap EXCEPT !.status = Resolved,
                                           !.finalResult = r.answer,
                                           !.winnersCount = Cardinality(r.winners)])
    /\ Become(h, Idle)
    /\ UNCHANGED <<now, chain, faultsLeft>>

-----------------------------------------------------------------------------
(* cancelCryptoDuel *)

\* everybody is paid back, whatever became of the seat
ReadEverybody(h) ==
    LET r == req[h] IN
    /\ r.pc = "everybody"
    /\ Become(h, Paying(r, Rows, Stake, "close"))
    /\ UNCHANGED <<now, db, chain, faultsLeft>>

CloseCancelled(h) == req[h].target # NoStatus /\ Close(h, "cancelUpdate")

\* two writes, each on a connection of its own
CancelUpdate(h) ==
    LET r == req[h] IN
    /\ r.pc = "cancelUpdate"
    /\ duel' = Update(duel, [r.snap EXCEPT !.status = r.target])
    /\ Go(h, r, "cancelSeats")
    /\ UNCHANGED <<now, players, chain, faultsLeft>>

CancelSeats(h) ==
    /\ req[h].pc = "cancelSeats"
    /\ players' = SetStatus(players, Rows, PlayerRefunded)
    /\ Become(h, Idle)
    /\ UNCHANGED <<now, duel, chain, faultsLeft>>

-----------------------------------------------------------------------------
Continue(h) ==
    \/ Charge(h) \/ Record(h) \/ PublishUncharged(h)
    \/ ReadWinners(h) \/ ReadRefunds(h)
    \/ ReadPlayersToRefund(h) \/ RecordRefund(h) \/ ReadUnpaidWinners(h)
    \/ Pay(h) \/ PayOwner(h) \/ PayReferrer(h) \/ CloseResolved(h) \/ Settle(h)
    \/ ReadEverybody(h) \/ CloseCancelled(h) \/ CancelUpdate(h) \/ CancelSeats(h)

\* what users, moderators and the cron ask for
UserRequest(h) ==
    \E answer \in Answers :
       \/ \E u \in Creators, s \in Schedules :
             CreateNewCryptoDuel(h, u, s, answer) \/ CreateInReview(h, u, s, answer)
       \/ \E u \in Users : JoinCryptoDuel(h, u, answer)

ModeratorRequest(h) ==
    \/ \E u \in Admins, crypto \in BOOLEAN, s \in Schedules :
          CreateNewCryptoDuelAdmin(h, u, crypto, s)
    \/ ApproveCryptoDuel(h) \/ ApproveDuel(h)
    \/ \E s \in Schedules : EditDuel(h, s)
    \/ \E answer \in Answers : ResolveCryptoDuelByAdmin(h, answer)
    \/ \E target \in Statuses : CancelCryptoDuelByAdmin(h, target)

CronRun(h) ==
    \/ ResolveCryptoOnEventDate(h)
    \/ ResolveCryptoBeforeEventDate(h)
    \/ AutoCancelDuels(h)

Next ==
    \/ Tick
    \/ \E h \in Handlers :
          UserRequest(h) \/ ModeratorRequest(h) \/ CronRun(h) \/ Continue(h) \/ Abort(h)

Spec == Init /\ [][Next]_vars

\* As in DuckDuel: a request that runs is scheduled until it ends, and the cron
\* entries get their turn.  Faults are not fair.
FairSpec ==
    /\ Spec
    /\ WF_vars(Tick)
    /\ \A h \in Handlers : WF_vars(Continue(h))
    /\ \E h \in Handlers : SF_vars(ResolveCryptoOnEventDate(h))

-----------------------------------------------------------------------------
(* Properties *)

Request == [pc : {"idle", "charge", "record", "winners", "refunds", "late", "pay",
                  "recordRefund", "unpaid", "ownerReward", "referrerReward", "close", "publish",
                  "settle", "everybody", "cancelUpdate", "cancelSeats"},
            job : {"none", "create", "join", "approve", "approveDuel", "resolve", "cancel",
                   "autoCancel"},
            user : Users \cup {Null}, snap : DuelRow, answer : Answers, since : Nat,
            cutoff : Int, target : Statuses, winners : SUBSET Nat, list : SUBSET Nat,
            due : SUBSET Nat, amount : Nat,
            next : {"idle", "recordRefund", "ownerReward", "close"}]

\* Rows keep to their columns, wallets never go below zero, a room holds what was
\* put in.
TypeOK ==
    /\ now \in 1..Horizon
    /\ duel \in DuelRow
    /\ players \in Seq(PlayerRow)
    /\ usdc \in [Users \cup {Admin} -> Nat]
    /\ room \in [state : {"none", "open", "closed"}, seats : Nat, entries : [Users -> Nat]]
    /\ req \in [Handlers -> Request]
    /\ faultsLeft \in 0..MaxFaults

Faults == MaxFaults - faultsLeft
Quiet == \A h \in Handlers : req[h].pc = "idle"
SeatsOf(u) == {i \in Rows : players[i].user = u}

\* seats let play before any stake was in: /admin/duel/approve took a crypto duel
WaivedSeats == {i \in Rows : players[i].waived /\ room.state = "none"}

\* Nobody sits for free but the owner of a duel approved on the route for duck duels:
\* a user has no more seats in a duel that plays or has played than stakes on chain
\* and waived seats, whatever fails and however requests interleave (the charge comes
\* before the row is written, ApproveCryptoDuel's before the status).
NoFreeSeat ==
    duel.status \in {InProcess, Resolved, Refund} =>
       \A u \in Users : Cardinality(SeatsOf(u) \ WaivedSeats) <= room.entries[u]

\* players_count, which the pool is computed from, never counts stakes that are
\* not in the room, however stale the copy a request writes back; one more at most in
\* a duel whose stake was waived.
CountWithinDeposits ==
    duel.status \in {InProcess, Resolved, Refund} =>
       duel.playersCount <= Entries + Cardinality(WaivedSeats)

\* A waived stake stays the only one of its duel: no room was made for it, so nobody
\* can sit down beside the owner, however requests interleave.
WaivedSitsAlone ==
    WaivedSeats # {} => Rows = {1} /\ players[1].user = duel.owner /\ Entries = 0

\* A seat is paid again only because something failed: a run that is repeated
\* after a failure sends each seat at most one more transfer.
OncePerAttempt == \A i \in Rows : players[i].sent <= 1 + Faults

\* What the rows say was paid was handed to the chain: a seat recorded as won or
\* refunded has been sent something, unless the duel never left review.
RecordedAfterSent ==
    duel.status \notin {AutoCancelled, AdminCancelled} =>
       \A i \in Rows : players[i].finalStatus # PlayerActive => players[i].sent > 0

\* While a duel plays on after a failed settlement, it counts as refunded exactly
\* the seats marked so: the next run divides the pool by the right number.
RefundsCounted ==
    duel.status = InProcess =>
       duel.refundedPlayersCount
         = Cardinality({i \in Rows : players[i].finalStatus = PlayerRefunded})

\* What a closed duel's rows say user u was paid.
Credits(u) ==
    LET Credit(i) == CASE players[i].finalStatus = PlayerRefunded -> Stake
                       [] OTHER -> players[i].winAmount
        pool      == Pool(DuelPrice, duel.playersCount - duel.refundedPlayersCount)
        reward    == CryptoCommissionReward(pool, Commission)
    IN  CASE duel.status = Refund -> Stake * Cardinality(SeatsOf(u))
          [] duel.status = Resolved ->
                SumFunction([i \in SeatsOf(u) |-> Credit(i)])
                  + (IF u = duel.owner /\ u \notin Admins THEN reward ELSE 0)
                  + (IF u = ReferrerOf[duel.owner] THEN reward \div 2 ELSE 0)
          [] OTHER -> 0

\* Until something fails, wallets and rows agree whenever no request is running:
\* each user has paid for the seats it holds, the waived ones aside, and got what the
\* closed duel says.
WalletsBalance ==
    Faults = 0 /\ Quiet =>
       \A u \in Users :
          /\ room.entries[u] = (IF duel.status \in {InReview, AutoCancelled, AdminCancelled}
                                  THEN 0 ELSE Cardinality(SeatsOf(u) \ WaivedSeats))
          /\ usdc[u] = InitialUSDC - Stake * room.entries[u] + Credits(u)

\* Until something fails, a closed duel has cost the admin wallet nothing: the
\* stakes cover winners, refunds, the owner's half and the referrer's quarter of
\* the commission.  A waived stake is paid back as if it had been charged, out of
\* the admin wallet: that much the house loses.
HouseSolvent ==
    Faults = 0 /\ Quiet /\ duel.status \in Terminal =>
       usdc[Admin] + Stake * Cardinality(WaivedSeats) >= AdminFloat

\* Until something fails, the next player finds a place in the room: the service
\* allocates from the count it keeps, the room fills with the stakes.  Only a duel
\* whose stake was waived has no room at all (WaivedSitsAlone: nobody can join it).
RoomHasPlace ==
    Faults = 0 /\ Quiet /\ duel.status = InProcess /\ duel.playersCount > 0
    /\ WaivedSeats = {} =>
       Entries < room.seats \/ Reallocates(duel.playersCount)

\* A closed duel stays closed and its outcome stays as it is, whatever failed
\* on the way there, as long as requests do not overlap.
ClosedFinal ==
    [][duel.status \in Terminal =>
          duel'.status = duel.status /\ duel'.finalResult = duel.finalResult]_vars

\* "If duel is in review, and it should be cancelled, we don't have to return any
\* money, since we didn't charge anything from user": a duel cancelled in review
\* holds no stake.
CancelledReviewsWereFree ==
    duel.status \in {AutoCancelled, AdminCancelled} => Entries = 0

\* A duel whose event is over is settled in the end, though runs of the cron fail
\* now and then.
EndedDuelSettles == Overdue ~> ~Overdue

\* What is recorded of a payout was sent, and refunds are counted once (SetStatusToAll,
\* UpdateDuelWinners after wallet_contract's transfers).
PayoutsRecorded == RecordedAfterSent /\ RefundsCounted

\* Nobody's USDC is made or lost, and no settlement overdraws the house.
MoneyAccounted == WalletsBalance /\ HouseSolvent

\* Seats and stakes agree in a duel that plays.
SeatsArePaid == NoFreeSeat /\ CountWithinDeposits /\ WaivedSitsAlone
=============================================================================
