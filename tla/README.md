# Duel Duck: TLA+ specifications

Duel Duck lets users bet on yes/no questions ("duels"). A duel has an owner, a price per
seat, a deadline after which no seat counts, an event date, and a commission the owner
shares in. There are two kinds: *duck-point* duels, whose stakes are a column of the user's
row in Postgres, and *crypto* duels, whose stakes lie in a room of a Solana program. HTTP
requests of users and moderators and a set of cron jobs work on the same rows, each in a
goroutine of its own, with no lock between them except what a database transaction gives.

This directory models that: what the requests read and write and in which order, what
fails, and what has to hold in between. `PROJECT.json` maps every definition to the lines
it stands for and lists the hazards at theirs; this file explains the models, the checks
and the proofs.

## 1. Inventory

Paths are under `src/internal` unless they start with `pkg`.

| Component | State | Operations | What is hard | What makes it correct |
|---|---|---|---|---|
| **Duck-point duels** `service/duel_service.go`, `duel_service_helper.go`, `duel_auto_creation.go`, `repository/duel.go`, `player.go`, `user.go`, `cron/duel_cron.go` | rows of `duels`, `players`, `users.balance` | create (user, moderator, cron), join, approve, edit, resolve (moderator, cron before and on the event date), cancel (moderator, cron) | a duel is read, checked, and written back whole in a later transaction; crons work through a list read once; `SetStatusToAll` commits outside its transaction; uint64 subtraction | points are neither made nor lost, each seat is paid for and paid back once, a closed duel is final, an overdue one gets closed |
| **Duel queries, leaderboard** `repository/duel.go`, `moderator_stats.go`, the materialized view `leaderboard` | the view; the rest is computed from the rows above | lists, counters, history, pages of the leaderboard, its hourly refresh, a moderator's pay | every query joins and counts for itself; the view is up to an hour old, or older | they say the same as the rows and as each other, the view as the rows of the duels settled when it was filled |
| **Reward arithmetic** `model/duel.go` | none | pool, commission, win amount in points and USDC | roundings at different places | payouts within the pool |
| **Price duels** `cron/duel_cron.go`, `service/duel_auto_creation.go`, `coin_service.go` | duels about the price of a coin | cron creates them around the price, settles them early by the last full hour's high and low, or by the price at the event date | the hour looked at is old when it is used | nobody wins who bet knowing the answer |
| **Crypto duels, rooms** `service/crypto_duel_service.go`, `wallet_contract.go` | the same rows, wallets and a room on chain | the same, each with transactions on chain before its database write | chain and database disagree after any failure; payouts in chunks; retries by the next cron run | no seat without a stake, payouts repeated only after a failure, wallets and rows agree |
| **Transaction tracker** `pkg/sigtracker` | pending list, map of verdicts, one mutex | subscribe, poll, confirmation loop | list copied, mutex released, list overwritten; map written without the mutex | a verdict is final, every subscriber gets an answer |
| **Wallet transfers, swaps** `service/wallet_transfer.go`, `wallet_contract.go`, `client/jupiter` | Solana wallets | transfer USDC, swap | the chain executes later or never; an answer may be lost; swaps retry | what the caller is told is true; what is signed is well formed |
| **Wallet tokens** `service/wallet_service.go` | `wallet_tokens` | add, update, remove | edits by user and mint | one row per mint |
| **Tasks, rewards, streaks** `service/task_service.go`, `repository/tasks.go`, `cron/task_cron.go` | completion and claim counters per user and task, XP, streak | complete, claim, reset at midnight | counters read outside the transaction that pays | a completion is paid once |
| **Tournaments** `service/tournament_service.go`, `repository/tournament.go` | participants, leaderboards, offers, rewards | create, assign duels, what joins and settlements write | the duel is read before the transaction that writes | totals match the seats, ranks win what they should |
| **Users, referrals, profiles** `service/user_service.go`, `helper.go`, `file_service.go`, `repository/referral.go`, `TransferDuckPoints` | user rows, keys, referrals, transfers of points, pictures on disk | sign-up, rename, picture, referral income, transfer | whole-row updates, checks before transactions, disk and database | balances match the history |
| **Sessions, sign-in codes** `service/jwt_service.go`, `auth_service.go`, `storage/cache/*.go` | Redis keys | sign in, refresh, Telegram link, mail code | read-then-write on Redis | a bounded number of sessions, a held token stays good, a token and a link are used up |
| **Rate limiter** `pkg/middleware/limiter`, `handler/middleware/limit.go` | counters per key, with expiry | one request, one sweep | time is read three times per request, the sweeper lets go of its lock | never more than the limit, no one kept out for ever |
| **Coins, fees** `service/coin_service.go`, `priority_tracker.go` | rows of coins and tokens, two atomics | refresh | overlapping cron runs | fees are the node's |
| **HTTP handlers** `handler/v1`, `handler/middleware` | roles, tokens, mail codes | every route with its layers and handler | claims are as old as the token; routes and handlers are two lists | services are called for those entitled |
| **Questions and answers** `service/faq_service.go`, `repository/faq.go`, `telegram/faq_bot.go` | questions, answers, marks, a channel to the bot | ask, mark, answer, reject, list | goroutines nothing waits for, a bounded channel, replies side by side | counts agree, every question is announced |
| **Duel catalogue, other bots, external clients, private keys** | single rows, none, none, Vault | create and rename; text; encoding; store | - | see section 8 |

Interactions. A duel's creation, join, settlement and cancellation write the duel, its
players, user balances, leaderboards, referral income and task counters in one transaction.
Crypto duels call the wallet service, which builds a transaction, sends it, and either
believes the node at once (`sendTransaction`, payouts) or waits for the tracker
(`sendTxWithTracker`, charges and room closing). The tracker's confirmation loop and its
callers share a list and a map. The cron package calls the same service methods as the HTTP
handlers. The components meet in the rows of one user and one duel; where a module needs
what another one writes, it takes it as a free choice, and section 3 says where.

## 2. Plan

Done, in this order, the most important first: the core (`RewardMath`, `DuelModel`,
`DuckDuel`, what it promises in `DuelEscrow`, its queries in `DuelQueries`); the same with
money on chain (`CryptoDuel`, `SigTracker`, `Wallets`); what a user does besides playing
(`TaskRewards`, `Accounts`, `Tournament`, `PriceDuels`); who gets in (`Sessions`,
`RateLimiter`, `Api`); what runs beside it (`Faq`, `WalletTokens`, `Coins`); the proofs.

What is left:

- *Models.* `CryptoDuel` with two duels, so that a room shares the admin's float with
  another; the composition of a duel with `Tournament` and `TaskRewards` in one instance,
  which today is a free choice of the order in which they meet.

## 3. Modules

| Module | Models | Checked in | Proofs |
|---|---|---|---|
| `RewardMath` | `model.DuelParams` as integer arithmetic | the duel runs | `ArithmeticProofs` |
| `DuelModel` | rows of `duels`, statuses, the generic update that skips zero columns; extended by the two duels | the duel runs | |
| `DuckDuel` | duck-point duels | `duck_*` | `DuckDuelProofs`, `DuckDuelSerialProofs` |
| `DuelEscrow` | what a duel promises its players, in four actions | `duck_serial` | `DuckDuelSerialProofs` |
| `DuckDuelEscrow` | the refinement mapping from `DuckDuel` to `DuelEscrow` | `duck_serial` | `DuckDuelSerialProofs` |
| `DuelQueries` | the lists, counters and moderator's pay, over the rows of `DuckDuel`; the view `leaderboard` and its refresh | `duck_serial` | `DuckDuelSerialProofs` |
| `CryptoDuel` | crypto duels, wallets, room | `crypto_*` | `CryptoDuelProofs`, `CryptoDuelSerialProofs` |
| `PriceDuels` | duels about a price, made and settled by cron | `community` | `CommunityProofs` |
| `SigTracker` | the transaction tracker | `background`, `sig_lost` | `BackgroundProofs` |
| `Wallets` | transfers and swaps, what they sign, the chain | `community` | `CommunityProofs` |
| `WalletTokens` | the tokens a wallet shows | `background` | `BackgroundProofs` |
| `TaskRewards` | tasks, claims, the streak, the reset, of one user | `community` | `CommunityProofs` |
| `Accounts` | sign-up, referrals, transfers of points, names, pictures | `community` | `CommunityProofs` |
| `Tournament` | tournaments, participants, leaderboards, ranks | `community` | `CommunityProofs` |
| `Sessions` | sessions and the Telegram bot's link, of one user | `access` | `AccessProofs` |
| `RateLimiter` | the limiter, its store and its sweeper | `access` | `AccessProofs` |
| `ApiRoutes`, `Api` | every route and handler; a request on its way through the layers | `access` | `AccessProofs` |
| `Faq` | questions, answers, marks, the bot | `background` | `BackgroundProofs` |
| `Coins` | coins, tokens, priority fees | `background` | `BackgroundProofs` |
| `MCDuckDuel`, `MCDuckRace`, `MCCryptoDuel` | instances of the duels | | |
| `MCDuckQueries` | `MCDuckDuel` with its queries and its escrow | `duck_serial` | |
| `MCBackground`, `MCAccess`, `MCCommunity` | suites: several components in one run | | |

*Suites.* `MCBackground`, `MCAccess` and `MCCommunity` each EXTEND several components that
share no state. The variable `focus` chooses one at the start; the others rest in their
initial states. A run of a suite explores each component's whole state space, side by
side and not their product, and one behaviour never mixes two. Where requests differ only
in name, the symmetry set swaps the pairs of all components at once: all but one are where
they began, so each swap is sound.

*Grain, in every module.* A call to Redis, the chain, Vault, the disk or Telegram is a
step. A database transaction is one step where it reads nothing that another may change in
between; where it does, its reads are steps of their own (Postgres runs at READ COMMITTED)
and its writes, which lock their rows until the commit, are one. What a request has read
and not yet used is in a record per request (`req`, `call`, `job`, `desk`, `visit`).

*History variables.* Several promises hold only while requests do not overlap, and the
overlap is what breaks them in the code. A variable notes it: `overlapped` (`Sessions`),
`overlaps` (`TaskRewards`), `raced` (`Faq`), `crossed` (`Coins`), `rewound` and `spoiled`
(`Accounts`), `unseated` (`Tournament`), `lostAnswers` (`Wallets`). They are as narrow as
the code allows: `raced` names the persons and questions, `rewound` the persons whose
balance a stale row did overwrite. Section 5 says what happens in the cases they exclude.

### DuckDuel

State: `duels` (the columns the code branches on), `players` (rows in insertion order),
`balance`, `streakDone`, a clock `now`, and `req`. A handler slot stands for a goroutine:
an HTTP request or a cron run.

Every read outside a transaction is a step of its own wherever the code keeps what it read:
`JoinDuel` (checks) then `JoinCommit` (transaction); `ApproveDuel` then `ApproveUpdate`;
`ResolveDuckPointDuelByAdmin` or a cron's `NextOnEventDate` / `NextBeforeEventDate`, then
`ReadWinners`, `ReadRefunds`, `Settle`; `CancelRefunds` (the statuses, which
`SetStatusToAll` writes on another connection) then `CancelCommit`. `CreateNewDuel` and its
variants read nothing that another request could change, except the balance the transaction
checks again. `created_at` of a joined seat is any tick between check and commit.

Cron runs read their list once (`ResolveDuckPointOnEventDate`, ...) and take its duels in
any order: the query has no ORDER BY. The price service is a free choice of the answer.
`Update` writes every non-zero column of the copy it is given, so stale copies overwrite
newer counts and statuses, as in the code.

Faults (`Faults = TRUE`): `Abort` ends a request between two steps, `CancelFails` lets
the cancellation's transaction fail after its statuses were written.

Left out: titles and images; what the same transactions write to leaderboards, referrers,
moderators' statistics and tasks is in the modules of those (they read nothing back into a
duel). All duels have one price and one commission (constants). A transaction sees its own
writes; anomalies of READ COMMITTED inside a duel's transactions are not modelled.

### DuelQueries

State: `leaderboard`, the rows of the materialized view, and `shown`, a history variable: the
duels that were resolved when it was filled. `RefreshLeaderboard` is the hourly cron entry
`updateLeaderboard`: it runs the view's query on the rows of now, in one statement. It may
come at any time, or never, and one that fails leaves the view as it was, so that the view is
of any age. The other steps are `DuckDuel`'s, beside which the view stands still
(`QueriesNext`).

All else is operators over rows: the queries of `repository/duel.go`, the counters by topic,
what a moderator is paid for closing a duel, and, over the view's rows, the pages of the
leaderboard and a user's rank. Filters by name and the order of lists are left out; the order
of users with equal sums, which the database chooses, is taken to be the same for every page
of the same rows (`Leaders`). The rows of a user for each topic and kind of payment, which
every page adds up, are one row here. The same cron refreshes two views of tournaments, which
nothing reads; they are left out.

What the view says is held against the duels it was filled from (`BoardTellsGains`), not
against the balances of now: after a refresh, a settled duel must not change. The
leaderboard differs from the balances in three ways more, which `Plain` leaves out: it
counts a refunded seat as spent, knows nothing of a premium user's consolation, and gives an
owner his commission only if he has a seat, refunds not subtracted.

### DuelEscrow

Four actions on a duel's phase, seats and purses: open, join, pay, give back. Nothing of
counts, copies, crons or commissions. `Pay` says: everybody seated won, lost or got the
price back; there are winners and losers; winners other than the owner gain the same; nobody
else but the owner gains anything; and the gains do not exceed the stakes that played.

### CryptoDuel

One duel, one room. Each request is the chain calls and database writes of the code in
their order: `Charge` then `Record`; `ReadWinners`, `ReadRefunds`, (`ReadPlayersToRefund`,
`Pay`, `RecordRefund`), `ReadUnpaidWinners`, `Pay`, `PayOwner`, `PayReferrer`,
`CloseResolved`, `Settle`; `ReadEverybody`, `Pay`, `CloseCancelled`, `CancelUpdate`,
`CancelSeats`. `Pay` repeats in chunks of `TransfersPerTransaction`.

`Attempt` is one transaction on chain: what the caller is *told* and whether it *landed*.
When nothing fails it is done, or refused and known to be. A fault (each uses one of
`MaxFaults`) makes it fail, land unseen (answer lost, or confirmed after the timeout; it
is modelled as landing at once), or - only for payouts, which nobody confirms - be accepted
and dropped. That a transaction sent with the tracker is never told and not landed is what
`SigTracker` checks as part of `VerdictsHold`. `Abort` is a failed write or read, or a dead
process, between any two steps.

There are two ways to approve. `ApproveCryptoDuel` (PUT /admin/duel/crypto/approve) charges
the owner and makes the room before it writes the status. `ApproveDuel`, then
`PublishUncharged`, is the route of the duck-point duels, PUT /admin/duel/approve, whose
service method never looks at the payment type: it writes the status and nothing else. The
crypto duel then plays with an owner who was not charged (`waived`, a history variable of his
seat) and without a room. Nobody can join it, because a join does not make a room for a duel
that counts a player; an `ApproveCryptoDuel` that was on its way may still charge the owner
and make it. Otherwise the only seat ends in a refund, and the admin wallet pays back a stake
that nobody had paid.

The Solana program is not in this repository. From the calls: making a room fails when
there is one; joining needs an open room with a seat left; a reallocation adds seats;
closing sends the stakes to the admin wallet. The admin's float pays winners before the
room is closed.

Left out: the list the cron works through (that a failure drops the rest of the list is in
`DuckDuel`), the daily streak and task counters, network fees, the win amount's DECIMAL
(kept in millionths). `joinSolanaRoom` compares the balance, in millionths, with the price in
whole USDC, so that the check lets almost any balance through; the charge itself refuses.

### PriceDuels

A coin whose price moves a level or none per tick; the hour that forms and the last full
one (`bar`); the four duels one creating run makes, up and down, in USDC and in points;
their seats. `CreateDuelsBulk` makes those in USDC, `CreateDuelsWithJoin` those in points
with the house's seat, in a transaction of its own that may fail alone
(`CreateDuelsFails`). `GetHighLowHourly` reads the hour once per run, then
`ResolveBeforeEventDate` decides its duels one by one, while the clock moves up to `MaxLag`.
`ResolveOnEventDate` looks the price up for each. `Settled` marks who wins; how the money
moves is `DuckDuel`'s and `CryptoDuel`'s.

`PriceDuelsDeployment` states the two things the environment has to provide:
RESOLVE_JOIN_NOT_BEFORE covers two hours and a slow run, and the difference between price
and target outweighs the rounding. `RoundToOnePercent` keeps two leading digits, which near
a leading 10 is an error of up to five percent: `Grain` is what it leaves.

### SigTracker

`pending`, `verdict`, `locked` are the struct's fields; `loop` is where
`confirmSignatures` is; `caller[s]` where the sender of `s` is. `Ask` takes the mutex and
copies the list; `Answer`, `ShortAnswer` and `RequestFails` are the three ways on; `Judge`
handles one signature without the mutex; `Store` overwrites the list.
`ConcurrentMapAccess` is the Go runtime ending the process when the unprotected write meets
a reader or a delete; the next process starts with nothing. `onChain` includes, confirms,
or forks away transactions at any time. The timeout may fire whenever the sender is in its
`select`. Signatures are unique.

### Wallets

Owners with keys, addresses of nobody, token accounts that exist or not. A transaction is
how often it has each instruction (`code`; their order is left out) and what became of it:
flying, landed, failed, expired.
`Transfer`, `RecipientInfo` (is the recipient's account open?), `ProceedTransfer`,
`SendTransaction` or `SendAnswerLost`, `SendTxWithTracker`: a transfer waits for the
tracker. `Swap`, `SwapBuilt`, `SwapAttemptFails`: a swap does not, and starts over with a
new quote after any error, an answer lost on its way back among them. `Lands` runs the
instructions all or none. The transactions of rooms are checked for their shape as well
(`RoomCodes`). The history of transactions and `ShowWallet` only read and are left out.

### WalletTokens, Coins

The rows of `wallet_tokens`; duck points are listed at sign-up under a name that is no
mint. `Coins`: refreshes that keep a row whose new fields are zero, lookups, and
`UpdatePriority`, whose two values are stored one after the other by runs that may overtake
each other.

### TaskRewards

State: the user's row, the user's row of `completed_tasks` for each task (`done`), what
`completed_tasks_rewards` adds up to (`rewards`), today, the tasks the cron has still to
reset, and `req`. Each read is a step of its own, also inside a transaction; the writes are
one step. So `ClaimReward` (the task with its count), `CompletedByUserID` (the row),
`GetLevelAndXP`, `Claim`; `CompleteDailyStreakTask`, `StreakUpdate`; `GetUnclaimedRewards`,
`GetLevelAndXP`, `UpdateCompletedTaskLimits`. `Fails` ends a request at any step without a
write. `WriteBack` is the generic `Update`: every column of the copy that is not zero. Days
start at 2, so that the zero time, 0, is not yesterday.

`worth` and `played` say what a user has earned; they are kept until a request first finds
another in flight (`overlaps`). Left out: the list of tasks with its texts and deadlines;
rewards are whole numbers.

### Accounts

Persons with one way to sign in and a name that comes with it. `SignIn` finds no account
and goes on to `WritePrivateKey` (Vault) and `CreateUser` (the row, its tokens, the
referral, the referrer's reward), so that a failed account leaves its key behind, and a name
already taken keeps a person from signing up (the local part of an address is the name).
`TransferDuckPoints` compares, `TransferCommit` changes both balances in place under the
column's constraint. `JoinsDuel` followed by `UpdateReferrerUSDCIncome` or
`CompleteReferAFriendTask` is what a friend's duel does for the referrer.
`UpdateProfilePicture`, `RemoveUserFile`, `SaveUserProfilePicture`, `WriteUser` are the four
steps of a picture, the last with the row as the first read it. The sign-up with a wallet,
which no route reaches, is left out.

### Tournament

A request reads its duel, the tournament with it (`JoinContest`, `ResolveContest`), before
the transaction (`JoinCommit`, `ResolveCommit`) that writes seat, participant and
leaderboard; a crypto join writes the leaderboard on another connection
(`CryptoJoinFails`). `Valid` is the check of the ranks of rewards. `SetTournamentID`
assigns a duel at any time. `UpdateRewards` is no action: its check asks for a column
`tournament_id` of `tournaments`, which the schema does not have, and fails. The offer of a
tournament is stored before its notification, whose failure answers 500.

### Sessions

State: the hash of the user's sessions, the value under the Telegram id, the tokens made so
far, a clock, and `req`. Each call to Redis is a step: `CountSessions` (HLEN),
`ListSessions` (HKEYS), `EvictSessions` (HDEL), `SaveSession` (HSET, and the answer);
`RefreshSession` (HGET), `DeleteUserSession` (HDEL) before those; `GetCodeTelegramID`
(GET), `CountAndAccept` or `CountAndRefuse` (SET), `DeleteCodeByTelegramID` (DEL).

A session's field is the millisecond of its id, a version 7 UUID, as the code takes it, so
that two sessions of one millisecond share a field; a tick of the clock is a millisecond or
longer. A field expires with its token. The link's counter is compared as a uint8. An
answer that gets lost is a client that never uses its token. Codes sent by mail are in
`Api`.

### RateLimiter

The store's map with its expiry, the sweeper that lists under a read lock and deletes under
a write lock, looking again, and `Hit`, which reads the time for the store, the window and
the store again, while the clock moves. Sizes are constants: the code has one request per
second and route. The branch for Skip is left out: it looks for a status that is set only
after the limiter has looked.

### ApiRoutes, Api

`ApiRoutes` is every route of `RegisterRoutes` with the layers before it, and every handler:
does it bind something, does it take claims, does it check a mail code, which service
methods does it call in which order. `Api` walks one request through that: layers, binding,
code, claims, calls, each with its way to fail, while roles change, tokens and codes expire.
A token's claims are copied at sign-in (`NewTokenClaimsByUser`) and can be older than the
row. What a service does is its own module's.

### Faq

Questions, answers, marks, anonymous visitors; requests and updates of the bot side by side
(`desk`). `AddFAQQuestion` leaves a goroutine behind (`sending`) that waits for the channel
(`GoesToChannel`); the bot takes from it and tells the moderators (`SendFAQToModerators`);
`FaqRestarts` loses what is in memory. A reply looks for an answer
(`GetFAQAnswerByFAQQuestionID`), then adds or changes one. Answers and marks are sets of
rows; `serial` numbers them, as the key of an answer does, and is never used twice. Texts and
pictures are left out
(pictures are stored and never removed).

## 4. Runs

| Run | Bounds | Question |
|---|---|---|
| `duck_serial` | 3 users (one premium, the house), 1 duel, 1 handler, clock to 4, two schedules, the view refreshed at any time | Requests one after the other: `BooksBalance` (points are neither made nor lost), `ResolvedAccounts` (a settled duel's rows add up), `SettledFinal`, `QueriesAgree`, and the refinement `KeepsEscrow` |
| `duck_cron` | 2 users, 2 duels, 1 handler, clock to 3 | `EndedDuelsSettle`, `OldReviewsCancelled`: the crons get through their lists, though moderators resolve duels meanwhile |
| `duck_concurrent` | 3 users, 1 duel, 2 handlers, faults, symmetry | What survives stale copies: `TypeOK`, `CountNeverExceedsRows`, `NoWindfall`, `ReopenedOnlyByStaleRead` |
| `duck_double_join` | 2 handlers, only create and join | **violated** `OneSeatPerUser`: one user gets two seats |
| `duck_double_settle` | 2 handlers, two resolutions | **violated** `SettlesOnlyInProcess`: a duel is settled after it was settled |
| `crypto_serial` | 3 users, 1 handler, 1 fault, clock to 4 | `OncePerAttempt`, `PayoutsRecorded` (what is recorded was sent, what was refunded is counted), `MoneyAccounted` (wallets balance, the house stays solvent but for a stake it waived), `RoomHasPlace` (unless approved without a room), `ClosedFinal`, `EndedDuelSettles` |
| `crypto_race` | 2 users, 2 handlers, 1 fault, clock stopped, symmetry | `TypeOK`, `SeatsArePaid` (no seat without a stake but an owner's whose stake was waived, who then sits alone; no count above the deposits) |
| `crypto_charged_review` | 1 fault | **violated** `CancelledReviewsWereFree`: a duel cancelled in review had been charged |
| `background` | tracker: 2 signatures; FAQ: 1 user, 1 visitor, 1 moderator, 2 desks, 2 questions, channel of 1, 3 calls, 1 restart; tokens: 2 mints, 4 edits; coins: 2 coins, 3 answers, 2 overlapping updaters | `BackgroundTypeOK`; `VerdictsHold`, `EveryCallerReturns`; `FaqCountsAgree`, `EveryQuestionAnnounced`; `DuckPointsStayRemoved`; `PriorityFromNode` |
| `sig_lost` | 2 signatures, every answer of the length asked for (`FullAnswersSpec`) | **violated** `UnconfirmedKept`: a signature subscribed while the loop judges is overwritten |
| `access` | sessions: 2 handlers, limit 2, 4 tokens that live 3 ticks, clock to 4, 1 code read 3 times and good for 1, counter modulo 2; limiter: 1 key, 2 in 2 seconds, 4 hits a window, 7 seconds; api: every route, 2 users; symmetry | `AccessTypeOK`; `SessionsKept` whatever requests do, `UsedOnce` while they do not overlap; `LimiterKeeps`, `RecentLimit`; `EntitledCalls` |
| `community` | tasks: 3 tasks, 2 handlers, 1 overlap, 3 days, a week of 2; accounts: 3 persons, 2 names, 2 calls at once, 5 in all; tournaments: 1 tournament, 2 users, a duel of each kind, 2 requests at once, 5 in all; wallets: 1 owner and 1 foreign address, 2 transfers, 1 swap of 2 attempts; prices: levels 2 and 3, an hour of 2 ticks, event after 5, clock to 6, one bet, one lookup, one settlement; symmetry | `CommunityTypeOK`; `RewardsAddUp` whatever requests do, `PaidOnce`, `StreakIsARun` while they do not overlap; `AccountsHold`; `TournamentAddsUp`; `WalletsTell`; `PriceDuelsFair` |

Every property of a passing run has at least one mutant in `PROJECT.json`: a plausible bug
in a mapped definition with which TLC finds the property violated under the same
configuration. Properties that join several promises have one for each.

Deadlock checking is off everywhere: the clock stops at its bound, and a system in which
nobody asks for anything rests.

### Why the bounds are enough

Three users are the owner, another winner and another loser (or latecomer); with the same
answers they cover the degenerate settlements (nobody right, everybody right, everybody
late). One duel suffices where duels share nothing but balances; `duck_cron` has the two a
list needs. The clock reaches one tick past the last event date, so that seats are in time,
at the deadline, and late, and both crons find the duel. Two handlers are enough for a lost
update; each of the violations needs only two. The balance in the race admits one seat per
user, and so a transaction the CHECK constraint rolls back. `CountModulus` stands for 2^64:
a wrapped count exceeds `WinAmountLimit` by far in both. For rooms, ten seats per allocation
and 32 transfers per transaction become two and two, so that the third player needs another
allocation and the third payout another transaction. One fault at every point suffices for
each promise that speaks of one. `crypto_race` stops the clock: its properties do not depend
on time.

In `background`, two signatures are the one in the loop's hands and the one subscribed
meanwhile; a channel of one is full with the first of two questions; three answers let two
runs of the fee tracker cross in either order. In `access`, a limit of two separates the
youngest session from the one that must go, four tokens are two requests over a full hash, a
counter modulo two turns within three reads, and seven seconds are three windows and the
sweep of the first. The api component has every route and two users, one of whom the other's
token could be mistaken for. In `community`, two completions are a row made and a row
counted up, three days are a streak kept, wrapped at the week's end and broken, one overlap
lets two requests race at every pair of steps; three persons are a referrer, his friend and
one whose name is taken; five requests are two sign-ups, a duel and two that race; two
levels of price are on and off a target, six ticks three hours. The promises of the duels, of
sessions, the limiter, the tracker, the fees and price duels are also proved for all sizes
(section 6).

### Fairness

`DuckDuel` and `CryptoDuel`: the clock (`WF`); a request that runs (`WF` of `Continue`):
goroutines are scheduled and the database answers or the request fails; the cron entries
(`SF`), because robfig/cron starts each entry in a goroutine of its own and never waits for
a request, while here they share handler slots with requests that might always be first.
Users and moderators are not fair, faults are not fair and in `CryptoDuel` bounded: with
failures for ever nothing is ever settled.

`SigTracker` (`TrackerFairness`): the status request has a context timeout (`WF` of its
three outcomes); a goroutine waiting for a mutex gets it (`SF`, per sender: Go's mutex does
not starve); a fired timer stays ready and `select` picks among ready cases at random (`SF`
of `Timeout`); the loop runs on. The chain owes nothing. `Faq` (`FaqFairness`): the
goroutine that waits for the channel and the bot that takes from it are scheduled (`WF`).
The Telegram client has no timeout: that its calls return is an assumption here.

The others promise no progress and assume no fairness. In `background`, where one component
moves and the others rest in their initial states, a resting one has no action that fairness
would ask for.

## 5. What the runs show

*Duels.* Run one at a time, the requests keep the books exactly and implement the escrow,
and the lists and counters tell of it what happened, the leaderboard what had happened when
it was last filled: between two refreshes it lags behind the balances. Interleaved they do not
(the two violated duck runs); what does survive is that a count written back from a stale
copy is never too high, so that the pool never exceeds the stakes, that no wrapped-around
pool is paid out (the width of `win_amount` rolls it back), and that a closed duel is
reopened only by a request that read it before it was closed. For crypto duels one failure
costs at most one extra payout per seat, and the stake always comes before the seat - but a
stake may be left without one, and an approval that charged unseen is not returned. The other way
round, a crypto duel approved on the route for duck-point duels plays without a stake: its
owner sits alone, and closing it costs the house one stake. The loop
over ended duels stops at its first error; the run has no duel that fails for ever. A
settlement before the event date may look at an hour that began before its duel was made.
When the points part of an automatic creation fails, the USDC duels stay.

*Tasks.* Paid once while a user's requests come one at a time. When they overlap, two claims
pay the same completions, a completion between a claim's read and its write or during the
reset is never paid, and of two rewards at once the XP of one is lost; only that the
counters never cross survives. Three things go wrong without any overlap and are left out of
the properties: the reward for attaching an email can be claimed again, a streak completed
after midnight and before the reset is at its limit and counts for nothing, and a reset that
fails waits for the next midnight.

*Accounts.* Transfers keep balances and their history together, because the column's
constraint and the update in place do what the check before them does not. A picture or a
streak that writes its whole row back may undo a balance (`rewound`); a picture removed by a
request that then fails is gone (`spoiled`). Two first duels of a friend at once count for
the referrer's task not at all.

*Tournaments.* Records add up and ranks are covered. A crypto join that fails after its
leaderboard write leaves a stake spent without a seat.

*Wallets.* An answered transfer moved the money. A swap is not tracked: its answer says that
a node took it, and after a lost answer it may be made twice. Duck points taken off a
wallet's list cannot be put back.

*Access.* Sessions exceed their limit by one for each request that runs beside another, and
no more; a session nobody has tried to refresh is lost only to younger ones (or to one of
the same millisecond). Two refreshes of one token at once may both succeed, and so may two
readers of one link. Moderators' calls are made only for a user who had the role while the
request was on its way; other uses of the role in a token (the single view of a duel) may be
as old as the token. The limiter never lets more than its maximum through in a window; over
any `Expiration` seconds this holds of windows of one second, which the code uses, and of
two, and for four in three seconds it does not, because the weight of the last window
assumes its hits were spread. Refused requests count as hits: at one per second, who retries every second stays out. A mail code that could
not be sent stays valid; any error of a sign-in with mail is answered 404.

*Questions.* Answered exactly if there is an answer. Two replies at once give a question two
answers, and the list shows it twice; the total then disagrees with the list. A stop of the
process loses what was not yet announced.

*Fees.* Never zero and always the node's or the fallback; of two estimates when two runs of
the tracker crossed.

## 6. Proofs

Proved for all values of the constants, from the ASSUMEs of the modules and what a theorem
says it assumes.

### Arithmetic (`ArithmeticProofs`)

`PayoutWithinPool`: winners and owner share at most the pool. The commission is rounded, the
owner's half and the winners' shares are cut down; the argument is that half a percentage is
at most that percentage rounded, and that what is left is divided with the remainder
dropped. `CryptoPayoutWithinPool`: with the referrer's quarter, in USDC.

`SumOfChanged` and the lemmas around it (`SumWith`, `SumOfEqual`, `SumOfSum`, `SumOnPart`,
...) say what `SumFunctionOnSet` of the community modules does when one term changes, one
element joins, or all are equal. The fold is defined by a CHOOSE over recursive functions;
that it is a sum is proved by induction over the subsets of a finite set, from
`FS_StrictSubsetOrderingWellFounded`, where the set of good subsets takes the place of a
predicate. The books of both kinds of duels are reckoned with these.

### Duck-point duels, any requests at once (`DuckDuelProofs`)

- `TypeCorrect` (`TypeOK`) and `CountBound` (`CountNeverExceedsRows`): balances, counts and
  wins stay natural numbers, requests refer to rows that exist, and `players_count` never
  exceeds the number of rows, for any number of concurrent requests, stale copies and
  faults. Neither is inductive: an approval writes back the count it read, a settlement
  divides by the winners it read. `IInv` adds `RequestOK` of every request: the copies it
  holds count no more seats than the table has (true when read, and rows are only added), a
  settling request has winners (so that the win amount is a number), and the user and duel
  it is about exist. `StepKeepsIInv` reduces each action to: what it writes is well typed,
  rows are only added, counts stay below rows, and the handler's next request is fit.
- `ReopenedByStaleReads` (`ReopenedOnlyByStaleRead`, an action property): uses that `IInv`
  and `SnapsOpen`, which says that the copies a request will write back, and those in a
  cron's list, are of duels in review or in process. So whatever reopens a duel wrote back
  a copy read while the duel was open.
- `NothingOutOfThinAir` (`NoWindfall`): no seat wins more than the stakes of its whole duel.
  The pool is computed in uint64 from counts that may be stale, and may wrap around zero;
  a wrapped one is so large that `win_amount` rolls the settlement back, provided that no
  duel has as many seats as it takes to come down again (`FewRows`, in every state).

### Duck-point duels, one request at a time (`DuckDuelSerialProofs`)

These assume `OneAtATime`, which is the run `duck_serial`: one handler, no faults; and
`FewUsers`, that uint64 can count the users. The two violated duck runs show that the first
cannot be dropped.

- `SerialInv` says that what a request read is still so when it uses it (`RequestCurrent`)
  and that a duel counts its rows, seats nobody twice and has decided nothing until it
  closes (`DuelCurrent`). `SeatedOnce` (`OneSeatPerUser`) and `SettledFromInProcess`
  (`SettlesOnlyInProcess`) follow: the two properties that fail in `duck_double_join` and
  `duck_double_settle` hold when requests follow each other.
- `BooksStayBalanced` (`BooksBalance`): every step is described by its *shape* - a seat is
  added, seats are marked, winners are credited - and each shape changes the two sums of
  the books, over duels and over users, by the same amount. `ResolvedDuelsAddUp`
  (`ResolvedAccounts`) and `ClosedDuelsAreFinal` (`SettledFinal`) take the same cases.
- `SerialDuelsKeepEscrow` (`KeepsEscrow`): the refinement. The initial states map to initial
  states (`InitEscrow`); each shape maps to the escrow's open, join, pay or give back, or to
  a stutter. The hard one is `Pay`: that the settlement's rows, amounts and balances are
  gains the escrow admits rests on `PayoutWithinPool` and on the winners being those read.
- `QueriesTellWhatHappened` (`QueriesAgree`): what the queries compute from the rows is what
  the requests did. To `SerialInv` it adds `NothingUnwon`: a seat that has not won has no
  `win_amount`, and neither has any seat of a duel that is not resolved. The lists: a line
  is one duel (`OneLine`), so lines by topic, by status and by participant count duels
  (`LinesCounted`, `TopicsCounted`). The leaderboard: a user has at most one seat in a
  duel, so that the sum over the seats he played is a sum over the resolved duels
  (`SumOfSeats`), and in each of them what the view adds up is what the settlement paid
  (`GainOfDuel`, with `HalfOfPercent` for the two ways to halve a commission). The view keeps
  what it was filled with while duels go on: `ViewInv` says that it is still what the query
  would make of the duels it was filled from, which are resolved still, because a step
  leaves the rows of a closed duel alone (`SettledStays`, `SameBoard`, `ViewStep`). The pages: a
  ranking by `pnl` exists because finite sets have a least element in any such order
  (`RankingExists`) and has every user once (`RankingIsWhole`); pages of any size joined are
  the ranking (`PagesMakeTheWhole`), and a user's rank is found on one page
  (`FoundOnOnePage`). `ModeratorsArePaid` is the part about moderators' pay, which holds
  with any number of requests and faults: a moderator's request in flight has passed the
  checks that `NewModeratorStatsCreate` repeats (`Chargeable`).

### Crypto duels, any requests at once (`CryptoDuelProofs`)

- `CryptoTypeCorrect` (`TypeOK`) and `EverySeatIsPaid` (`SeatsArePaid`): with faults and any
  number of handlers. That a stake comes before its seat is not inductive. `CryptoInv` adds:
  once there is a room, a user's seats *and* the requests that have charged him and not yet
  recorded are no more than the stakes he put in (`Paid`, `StakesIn`); before there is one,
  nobody is about to record, and if there are seats it is the one of an owner in review,
  with every request in flight an approval that has not charged or a cancellation that
  gives nothing back (`ReviewFit`), or it is the one of an owner whose stake was
  waived, with no request that has charged, and none that would make a room but an approval
  (`WaivedFit`; `BareFit` is the two).

### Crypto duels, one request at a time (`CryptoDuelSerialProofs`)

`OneAtATime` is one handler, with any number of faults.

- `RunInv`: what the request read is what there is (`SnapNow`), whom it pays are the rows its
  queries would still return (`PlanNow`), and whom it has paid has been sent something
  (`SentNow`). `PayoutsAreRecorded` (`PayoutsRecorded`) and `ClosedCryptoDuelsAreFinal`
  (`ClosedFinal`, an action property) follow from it, whatever fails.
- `OneTransferPerAttempt` (`OncePerAttempt`): also assumes `Funded` in every state, that the
  admin wallet covers the transfer at hand (a refused transfer ends a run that then starts
  over, without a fault of the chain). `SentBy` counts: a seat has been sent no more than
  there were faults, and one more only if the request that runs sent it; a seat taken after
  one that was refunded is one behind, because the run that refunded skipped it. That last
  clause is what makes a settlement after a partial refund come out even.
- `RoomForTheNextPlayer` (`RoomHasPlace`): `PlaceNow` ties the room to the rows until
  something fails: the stakes are `players_count` and the one a request has charged and not
  recorded, and the seats are as many groups of `SeatsPerAllocation` as these stakes fill.
  One more stake opens one more group exactly when `joinDuel` finds that it does
  (`NextAllocation`). A duel whose stake was waived has no room and is left out.
- `EveryCentIsAccounted` (`MoneyAccounted`): assumes `Funded` and `FewPlayers` (uint64 counts
  the seats). `BooksInv` says of *every* state without a fault, also in the middle of a
  payout, what each wallet holds (`AccountsNow`): what it started with, less a stake for
  each seat and each seat about to be recorded, plus what the seats were sent (`SentTo`:
  the stake to those paid back, by the row or by the request on its way; the amount won to
  those of the winners no longer due), plus the owner's and the referrer's bonus once that
  step is done; the house holds the rest. A chunk of transfers moves the same amount on both
  sides (`GivenMore`, `ChunkSent`), a step that reads or writes rows moves none (`Steady`).
  Settled, the house gave away what `CryptoPayoutWithinPool` bounds by the stakes it got
  from the room; a duel whose stake was waived is only ever refunded, and costs that stake.
  `Funded` and `FewPlayers` hold in every state of the run `crypto_serial`, so that there
  they exclude nothing.

### The other components

- `BackgroundProofs!VerdictsAlwaysHold` (`VerdictsHold`): `LoopShape` (what the loop has
  asked, got and keeps are parts of one list), `AnswerStands` and `VerdictStands` (an
  answer "confirmed without error" remains true of the chain), and `Places`: a signature is
  subscribed once, into the list, and moves from there to the loop and from there to the map
  or back; only while the loop asks are its copy and the list the same.
- `BackgroundProofs!FeesFromNode` (`PriorityFromNode`): what a run has still to store is of
  one estimate (`FromNode`), and while no two runs have crossed at most one is storing
  (`OneEstimate`).
- `BackgroundProofs!EverybodyCountedOnce` (`FaqCountsAgree`): a request looks, and writes in
  a later statement; no key refuses a second visitor, mark or answer. `FaqInv` says that who
  looked and found nothing (`Unmet`, `Unmarked`, `Unanswered`) still finds nothing unless
  another request on the same person, or reply to the same question, was under way
  (`OneDesk`), and that there is at most one row so far (`OneRow`, `OneVoice`,
  `OneAnswer`). Marks carry a visitor's row, so that one voice rests on one row. That the
  list has as many rows as its total is a bijection between questions and rows
  (`ListedOnce`).
- `BackgroundProofs!DuckPointsNeverReturn` (`DuckPointsStayRemoved`, an action property):
  `TokensInv` says that a list has one row per mint. An edit keeps a row's mint, and what is
  added is a mint, which duck points are not.
- `AccessProofs!LimiterTypes` and `LimitKept` (`LimiterKeeps`): `EntryFresh` (a
  window ends at most one expiration after its key was last hit, and its entry is dropped at
  most one later), `EntryCounts` (an entry is kept until its window has ended, and has
  counted every request the window let through), `QuietIsAdmitted`. The sweep may hold any
  list, however old: it looks again.
- `AccessProofs!RecentLimitKept` (`RecentLimit`) is about any seconds in a row, not those of
  one window, and assumes `ShortWindows`: windows of one second, as in the code, or of two,
  as in the run; of three it is false. `EntryRecent` adds that the second before the open
  window let no more through than its entry remembers as hits of the window before, and
  that an entry is forgotten only when its window and one more are over; then a hit in the
  first second of a window is weighed with all of them (`FullWeight`).
- `AccessProofs!SessionsAlwaysKept` (`SessionsKept`), for any limit, time to live and
  number of requests. The bound on sessions is not inductive: requests about to save and
  requests about to evict are in flight. `Room` says it of all of them at once: for *every*
  set `A` of evicting requests, the sessions none of `A` will delete, the requests about to
  save and `A` itself are within the limit and the number of requests. It rests on
  `Survivors`: of any hash, eviction leaves one less than the limit. That a held token
  stays needs `Doomed` (whoever is listed to go has outlived its turn or shares its field,
  and will have for good), `OwnToken` (what a request makes is not yet among the sessions,
  and no other's) and `Alone` (until requests overlap, the one that runs made the youngest).
- `AccessProofs!UsedUpByTheirUse` (`UsedOnce`): while requests do not overlap, who goes on
  finds all others idle (`OneInFlight`), and `RefreshInv` says that a token once exchanged
  is out of the sessions, and that a request makes a token nobody holds in exchange for
  one not exchanged before, which it has taken out of the sessions first; so a refresh that
  fails half way can be tried again, or not, and never counts twice. `LinkInv` says of the
  link and of every copy read of it that its counter is not ahead of the reads and that
  what it opened is within its turns (`Opened`); a copy that is written back over a newer
  link, or after its expiry, still satisfies that. `OpenedNext` and `OpenedWithin` are the
  arithmetic of a counter that turns.
- `AccessProofs!OnlyWhoIsEntitled` (`EntitledCalls`): for any users, tokens and changes of
  roles, on every route. `TableGuarded` says of one table of routes that a handler that takes
  claims has the sign-in check ahead of it (or the one for visitors, among the questions),
  and one that calls a moderator's service the check of the role; it is proved row by row,
  eleven tables. `ApiInv` follows a request through its table: a layer passed has left what
  it must (`LayersBehind`: the role was in the row, so it was there during the request),
  and no layer ahead of a handler that runs was skipped (`AllBehind`).
- `CommunityProofs!FairAtAnyPrice` (`PriceDuelsFair`): the high and low of an hour were
  prices in that hour (`HoursSeen`); a run is at most `MaxLag` old, and its hour at most two
  (`RunRecent`); so a seat older than RESOLVE_JOIN_NOT_BEFORE was taken no later than the
  price got there. Rounding moves a target by at most half a grain, so no duel is decided
  when it is made.
- `CommunityProofs!ClaimsStayWithinCompletions` (`ClaimedWithinCompleted`, a part of
  `RewardsAddUp`): whatever interleaves. `TasksInv` says what a request at each of its steps
  may hold: a row that was sound when it was read, a user whose streak began on a day of the
  calendar. A generic update leaves a column alone where the copy has zero, so that what it
  writes is a mixture of two rows; that `claimed` is within `count` in every mixture is
  because both are written together or `count` alone grows.
- `CommunityProofs!EveryCompletionPaidOnce` (`PaidOnce`): adds, while requests do not
  overlap, that what the one in flight has read is so (`CopyStands`), and that a row whose
  multiplier is overwritten has nothing unpaid (`AllPaid`). The last is true only if the
  streak counts one completion a day (`DailyOnce`), which the table of tasks has to say: with
  a limit of two TLC finds an unclaimed day paid at the next day's multiplier. `CountsFit`
  says that counters do not wrap around zero.
- `CommunityProofs!StreakCountsDaysInARow` (`StreakIsARun`): `StreakStands` says that what a
  request is about to write is what it makes of the streak there is, also when midnight
  passes between its read and its write.
- `CommunityProofs!LevelsMatchRewards` (`RewardsAddUp`): assumes that every level has an XP
  above zero (`EveryLevelHasXP`; `calculateLevelXP` is a formula and knows all levels). Then
  n levels cost at least n (`LevelsCost`), so the loop of `recalculateUserLevelAndXP` ends
  (`ClimbsFarEnough`), and what it leaves is what there was and what came (`LevelsKeepXP`).
  `LevelInv` adds that the level, XP and balance a request has read are still the user's
  (`UserStands`), and that the task of attaching an email, whose claim would be recorded
  nowhere, has no row to claim until then.
- `CommunityProofs!AccountsAgree` (`AccountsHold`) and `NamesAndKeysAgree`
  (`AccountsTypeOK`): for any persons, names, amounts and number of requests side by side.
  The invariant `AccountsInv` has four parts, each with a lemma that says which steps leave
  it alone. `Books`: whoever has no account has no row, no referral and no balance
  (`Absent`), a referral without a referrer is none (`Referred`), an account has its key
  and a name of its own (`Named`), a balance is what the history says, and a referrer's columns are
  the sums over his referrals (`StatsAddUp`, by `SumOfChanged` and, for a new referral,
  `SumWith`). `CallsHold`: a request that creates an account has its key in Vault and a
  referrer who exists; one that writes a row back read it of an account with the same id.
  `FriendsHold`: the task was completed for no more friends than have joined, not counting
  one whose first join is still on its way to his referrer - without that exception the
  claim fails between `JoinsDuel` and `CompleteReferAFriendTask`. `PicturesHold`: a picture
  in a row, or in a copy a request still writes back, is one person's, and one just saved
  is in no row yet, so that removing the old picture never takes another person's.
- `CommunityProofs!LeaderboardAddsUp` (`TournamentAddsUp`): for any tournaments, users,
  duels, lists of rewards and requests side by side. `BoardAddsUp` is nearly inductive;
  `TournamentInv` adds what the queries need: a record that is not empty counts a duel
  (`RecordsPlayed`), every participant has one (`ParticipantsPlayed`: both are written by
  the transaction of a seat, and what a failed crypto join leaves is a record too many,
  never one too few), and stored rewards were checked (`PrizesValid`). `Valid` compares
  neighbours only; `RangesInOrder` and `NoGap` carry that over to any two ranges, by the
  smallest counterexample, which is how "at most one reward" and "no rank left out" follow.
- `CommunityProofs!WalletsTellTheTruth` (`WalletsTell`): for any owners, mints, amounts,
  requests and attempts. `SentSoFar` counts what a request has put out at each of its steps
  (`Reckoned`): before it sends, as many transactions as answers were lost; once it waits or
  has answered, one more. A transfer is answered only by the tracker (`TransfersLanded`).
  `CodesFit` says that a code is fit to be sent (`FitToSend`) from when it is built until it
  lands: a recipient's token account that was open stays open. That a room's transaction has
  one price and one limit is a sum over the transactions it is joined from, of any number
  (`NoBudget`, by `SumOfConstant`).

- The types of the suites, each over the behaviours of its suite: `AccessTypesKept`
  (`AccessTypeOK`), `CommunityTypesKept` (`CommunityTypeOK`) and `BackgroundTypesKept`
  (`BackgroundTypeOK`). The invariants above hold most of them; what they lacked is small
  but not obvious. A link counts no more reads than there were, because a request that has
  read it and not yet written it back is one read short (`SessionsTyped`). The rows of users
  that requests hold are typed as the row is, and levels stay numbers because the loop that
  raises them ends, for which every level has an XP above zero (`TasksTyped`,
  `EveryLevelHasXP`). What a question waits for is the channel or a moderator, never both,
  because a new one has a number none in the channel has (`ChannelInv`). Only coins and
  tokens that were listed have a row: `RowsInOrder` says what folding a listing of one or
  two comes to, since a listing in the model has no more (`MarketInv`).

### Assumptions, and what is only model-checked

Assumed of the constants: prices are positive, commission at most 100 percent, moduli
positive, schedules hold positive times, `Null` is no user and no duel; limits and
expirations are positive; there are finitely many persons, tournaments and contestants, and
ranks are natural numbers; a request for a transfer is none for a swap;
no user is nobody; `PriceDuelsDeployment`. The code does not check the commission; a
moderator who reviews the duel does, and the amounts of a duel with more than 100 percent
are not modelled.

Every invariant and action property a passing run checks is stated by a theorem. Only
model-checked are the liveness properties, which are out of the prover's reach
(`EndedDuelsSettle`, `OldReviewsCancelled`, `EndedDuelSettles`, `EveryCallerReturns`,
`EveryQuestionAnnounced`).

Floating point. `DuelParams` computes in float64. For commissions of 1, 5, 10 and 20
percent the integer operators give the same results; for 15, 25, 30, 50 and others a pool
whose commission falls on a whole or half point may round one point lower in the code,
because pool/100 is not exact. The bound holds for those results too: the owner's half is
still at most the commission the winners are charged.

## 7. Findings

1. *Two seats for one user* (`duck_double_join`): `isAbleToJoinDuel` looks before the
   transaction, and nothing in the table or the transaction looks again.
2. *Two settlements of one duel* (`duck_double_settle`): the status is checked on a copy;
   `internal/cron/duel_cron.go` registers the before-event settlement twice (lines 66 and
   71), so that two runs start together.
3. *Charged and cancelled in review* (`crypto_charged_review`): an approval charges first
   and writes the status later; after a failure in between, a cancellation relies on "we
   didn't charge anything".
4. *Lost signature* (`sig_lost`): the confirmation loop overwrites the list it emptied, and
   with it a signature subscribed in between. The run leaves out answers of another length
   than asked for (`ShortAnswer`), which lose the whole list in another way: the code drops
   it before it compares the lengths (`pkg/sigtracker/sigtracker.go`, lines 75 to 80).

Two more disagreements have no run of their own. The link of the Telegram bot "can be used
only twice" (`service/auth_service.go:96`), but its counter is written back from a copy and
compared as a uint8: uses side by side count once, and a link that is not deleted opens
again after 256 reads. `UsedOnce` bounds the uses of a turn of the counter. And PUT
/admin/duel/approve takes crypto duels, as `CryptoDuel` shows (`ApproveDuel`).

## 8. Not modelled

- *Duel catalogue* (entities and subtopics): every operation on entities fails on the schema
  in the repository, because `model.DuelEntity` has a column `entity_type_id`
  (`internal/model/duel_entitiy.go:30`) and `migrations/1_init.up.sql:145` makes it
  `entity_type`. What is left is the write of one subtopic in one statement, whose new name
  the foreign key cascades to the duels.
- *Welcome, statistics and tournament bots*: text in, text out, and figures read once a day.
- *Private keys*: that a key is stored before its account, and stays when the account fails,
  is in `Accounts`; encryption by Vault has no state here.
- *External clients*: what Jupiter contributes to a swap is in `Wallets`; the rest encodes
  requests and decodes answers.
- *Generated API documentation* is not code of the system. `WalletCacheStorage` is used by
  nothing.
- A *duck-point* duel approved on the route for crypto duels, PUT
  /admin/duel/crypto/approve, which does not look at the payment type either: its owner, who
  has paid in points, is charged in USDC as well, and the room that is made for him is closed
  by nobody. `ApproveCryptoDuel` is modelled for crypto duels only. Every other request
  checks the kind of its duel.
- Arithmetic of the view `leaderboard` in INTEGER, which would overflow for sums beyond
  2^31.
