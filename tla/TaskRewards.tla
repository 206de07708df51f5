----------------------------- MODULE TaskRewards -----------------------------
(***************************************************************************)
(* Tasks of one user: completions, claims, the daily streak and the reset  *)
(* at midnight.  internal/service/task_service.go, the queries of          *)
(* internal/storage/repository/tasks.go, internal/model/daily_reward.go.   *)
(*                                                                         *)
(* Postgres runs these transactions at READ COMMITTED: each statement sees *)
(* what is committed when it starts.  Reads are therefore steps of their   *)
(* own even inside a transaction, and its writes, which hold their rows    *)
(* locked until the commit, are one step.  Users share no row here, so one *)
(* user is modelled.                                                       *)
(***************************************************************************)
EXTENDS Integers, FiniteSets, FiniteSetsExt, Functions

CONSTANTS
    Tasks,           \* rows of tasks
    TaskSignUp,      \* completed by attaching an email, paid at once
    TaskCompletDailyStreak, \* completed with the first duel of a day
    Resettable,      \* tasks whose counters the cron resets at midnight
    Reward, XP, CompletionLimit, \* columns of tasks, by task
    LevelXP,         \* calculateLevelXP, by level
    WeeklyCycle,     \* DailyRewardWeeklyCycle, 7 in the code
    CountModulus,    \* 2^32 in the code: the counters are uint32
    InitialBalance,
    Handlers,        \* requests and cron runs that may be in flight at once
    MaxCompletions,  \* bound: completions of a task, the streak's aside
    MaxOverlaps,     \* bound: requests that find another one in flight
    LastDay          \* bound: the calendar stops here

ASSUME TasksAssumption ==
    /\ IsFiniteSet(Tasks)
    /\ TaskSignUp \in Tasks /\ TaskCompletDailyStreak \in Tasks
    /\ TaskSignUp # TaskCompletDailyStreak
    /\ Resettable \subseteq Tasks \ {TaskSignUp}
    /\ Reward \in [Tasks -> Nat] /\ XP \in [Tasks -> Nat]
    /\ CompletionLimit \in [Tasks -> Nat]
ASSUME NumbersAssumption ==
    /\ \A l \in DOMAIN LevelXP : LevelXP[l] \in Nat \ {0}
    /\ WeeklyCycle \in Nat \ {0} /\ CountModulus \in Nat \ {0}
    /\ InitialBalance \in Nat /\ MaxCompletions \in Nat /\ MaxOverlaps \in Nat /\ LastDay \in Nat \ {0, 1}

VARIABLES
    day,         \* today
    user,        \* the columns of the user's row
    done,        \* rows of completed_tasks, by task
    rewards,     \* rows of completed_tasks_rewards, by task
    resetDue,    \* tasks the cron has still to reset today
    req,         \* what each handler is doing and what it has read
    overlaps,    \* history: requests that have found another one in flight
    worth,       \* history until then: a task's multipliers, summed over its completions
    played       \* history until then: the days of the streak's completions

vars == <<day, user, done, rewards, resetDue, req, worth, played, overlaps>>

\* completions: overall_count; a row that does not exist has none
NoRow == [completions |-> 0, count |-> 0, claimed |-> 0, multiplier |-> 0]
NoRewards == [reward |-> 0, xp |-> 0]

\* lastStreak: day of last_completed_streak, 0 for the zero time, long before the
\* days of the model, which start at 2
NoUser == [balance |-> 0, level |-> 0, xp |-> 0, email |-> FALSE, lastStreak |-> 0, streak |-> 0]

Idle == [pc |-> "idle", job |-> "none", task |-> TaskSignUp, multiplier |-> 0,
         seen |-> 0, row |-> NoRow, user |-> NoUser]

Init ==
    /\ day = 2
    /\ user = [NoUser EXCEPT !.balance = InitialBalance, !.streak = 1]
    /\ done = [t \in Tasks |-> NoRow]
    /\ rewards = [t \in Tasks |-> NoRewards]
    /\ resetDue = {}
    /\ req = [h \in Handlers |-> Idle]
    /\ worth = [t \in Tasks |-> 0]
    /\ played = {}
    /\ overlaps = 0

Exists(row) == row.completions > 0

Arrives(h) ==
    /\ req[h].pc = "idle"
    /\ IF \A g \in Handlers : req[g].pc = "idle"
         THEN overlaps' = overlaps
         ELSE overlaps < MaxOverlaps /\ overlaps' = overlaps + 1

Become(h, r) == req' = [req EXCEPT ![h] = r]

\* a transaction rolls back: an error, a refused row, a dead process
Fails(h) ==
    /\ req[h].pc # "idle"
    /\ Become(h, Idle)
    /\ UNCHANGED <<day, user, done, rewards, resetDue, worth, played, overlaps>>

Midnight ==
    /\ day < LastDay
    /\ day' = day + 1
    /\ resetDue' = Resettable
    /\ UNCHANGED <<user, done, rewards, req, worth, played, overlaps>>

-----------------------------------------------------------------------------
(* TaskService.Complete, in the transaction of its caller *)

\* a new row, a task without limit, or a row below it
MayComplete(t, row) ==
    ~Exists(row) \/ CompletionLimit[t] = 0 \/ row.count < CompletionLimit[t]

\* completeJoinDuelTask, completeWinDuelTask, completeCreateDuelTask, ...
Complete(h, t) ==
    /\ Arrives(h)
    /\ t \notin {TaskSignUp, TaskCompletDailyStreak}
    /\ done[t].completions < MaxCompletions
    /\ MayComplete(t, done[t])
    /\ Become(h, [Idle EXCEPT !.pc = "complete", !.job = "complete", !.task = t,
                              !.row = done[t]])
    /\ UNCHANGED <<day, user, done, rewards, resetDue, worth, played>>

\* counters are incremented where they are, the multiplier comes from the row read;
\* a row inserted in between makes the insert fail
Counted(r) ==
    LET now == done[r.task]
        m   == IF r.multiplier > 0 THEN r.multiplier
               ELSE IF Exists(r.row) THEN r.row.multiplier ELSE 1
    IN  IF Exists(r.row)
          THEN [now EXCEPT !.completions = @ + 1, !.count = @ + 1, !.multiplier = m]
          ELSE [completions |-> 1, count |-> 1, claimed |-> 0, multiplier |-> m]

Worth(t, row) ==
    IF overlaps > 0 THEN worth ELSE [worth EXCEPT ![t] = @ + row.multiplier]

CompleteUpdate(h) ==
    LET r == req[h] IN
    /\ r.pc = "complete"
    /\ Exists(r.row) = Exists(done[r.task])
    /\ done' = [done EXCEPT ![r.task] = Counted(r)]
    /\ worth' = Worth(r.task, Counted(r))
    /\ Become(h, Idle)
    /\ UNCHANGED <<day, user, rewards, resetDue, played, overlaps>>

-----------------------------------------------------------------------------
(* The daily streak *)

HasClaimedRewardToday(u) == u.lastStreak = day

\* a missed day does not matter
Mutant_DayStreak(u) == u.streak + 1
DayStreak(u) == IF u.lastStreak >= day - 1 THEN u.streak + 1 ELSE 1

\* the streak itself
Mutant_RewardDayByStreak(n) == n
RewardDayByStreak(n) == IF n % WeeklyCycle = 0 THEN WeeklyCycle ELSE n % WeeklyCycle

\* Generic.Update of a user: every column that is not zero, read when it was read
WriteBack(read) ==
    [c \in DOMAIN user |-> IF read[c] = NoUser[c] THEN user[c] ELSE read[c]]

CompleteDailyStreakTask(h) ==
    /\ Arrives(h)
    /\ ~HasClaimedRewardToday(user)
    /\ Become(h, [Idle EXCEPT !.pc = "streak", !.job = "streak",
                              !.task = TaskCompletDailyStreak,
                              !.multiplier = RewardDayByStreak(DayStreak(user)),
                              !.user = [user EXCEPT !.lastStreak = day,
                                                    !.streak = DayStreak(user)]])
    /\ UNCHANGED <<day, user, done, rewards, resetDue, worth, played>>

\* the user is written, then the task completed unless it is at its limit
StreakUpdate(h) ==
    LET r == req[h]
        t == r.task
        q == [r EXCEPT !.row = done[t]]
    IN  /\ r.pc = "streak"
        /\ user' = WriteBack(r.user)
        /\ played' = IF overlaps > 0 THEN played ELSE played \cup {r.user.lastStreak}
        /\ IF MayComplete(t, done[t])
             THEN /\ done' = [done EXCEPT ![t] = Counted(q)]
                  /\ worth' = Worth(t, Counted(q))
             ELSE UNCHANGED <<done, worth>>
        /\ Become(h, Idle)
        /\ UNCHANGED <<day, rewards, resetDue, overlaps>>

-----------------------------------------------------------------------------
(* CompleteSignInEmail: attaching an email completes a task and pays at once *)

CompleteSignInEmail(h) ==
    /\ Arrives(h)
    /\ ~user.email
    /\ Become(h, [Idle EXCEPT !.pc = "email", !.job = "email",
                              !.user = [user EXCEPT !.email = TRUE]])
    /\ UNCHANGED <<day, user, done, rewards, resetDue, worth, played>>

\* the primary key lets the row in once; reward_claimed of the row stays 0
AttachEmail(h) ==
    LET written == WriteBack(req[h].user)
        row     == [NoRow EXCEPT !.completions = 1, !.count = 1, !.multiplier = 1]
    IN  /\ req[h].pc = "email"
        /\ ~Exists(done[TaskSignUp])
        /\ user' = [written EXCEPT !.balance = @ + Reward[TaskSignUp]]
        /\ done' = [done EXCEPT ![TaskSignUp] = row]
        /\ worth' = Worth(TaskSignUp, row)
        /\ Become(h, Idle)
        /\ UNCHANGED <<day, rewards, resetDue, played, overlaps>>

-----------------------------------------------------------------------------
(* claimReward, for a claim and for the reset *)

\* XP from one level to n levels above it
LevelsXP(level, n) == SumFunctionOnSet(LevelXP, (level + 1)..(level + n))

\* climbs one level at most
Mutant_Climbed(level, xp) ==
    CHOOSE n \in 0..1 : xp >= LevelsXP(level, n) /\ (n = 1 \/ xp < LevelsXP(level, n + 1))
\* the levels recalculateUserLevelAndXP climbs with so much XP
Climbed(level, xp) ==
    CHOOSE n \in 0..xp : LevelsXP(level, n) <= xp /\ xp < LevelsXP(level, n + 1)

RewardCount(row) == (row.count - row.claimed) % CountModulus

BalanceReward(r) == r.row.multiplier * Reward[r.task] * RewardCount(r.row)
XPReward(r) == r.row.multiplier * XP[r.task] * RewardCount(r.row)

\* the level is computed from what was read, the balance is incremented where it is
GiveReward(r) ==
    LET xp == r.user.xp + XPReward(r)
        n  == Climbed(r.user.level, xp)
    IN  [user EXCEPT !.balance = @ + BalanceReward(r),
                     !.level = r.user.level + n,
                     !.xp = xp - LevelsXP(r.user.level, n)]

\* a task completed by attaching an email has no row in completed_tasks_rewards
UpdateCompletedTaskRewards(r) ==
    IF r.task = TaskSignUp THEN rewards
    ELSE [rewards EXCEPT ![r.task].reward = @ + BalanceReward(r), ![r.task].xp = @ + XPReward(r)]

\* the level, read in the transaction
GetLevelAndXP(h) ==
    /\ req[h].pc = "level"
    /\ Become(h, [req[h] EXCEPT !.pc = "give", !.user = [NoUser EXCEPT !.level = user.level, !.xp = user.xp]])
    /\ UNCHANGED <<day, user, done, rewards, resetDue, worth, played, overlaps>>

\* the task with its count ...
ClaimReward(h, t) ==
    /\ Arrives(h)
    /\ Become(h, [Idle EXCEPT !.pc = "claim", !.job = "claim", !.task = t,
                              !.seen = done[t].count])
    /\ UNCHANGED <<day, user, done, rewards, resetDue, worth, played>>

\* ... then its row, both before the transaction that compares them
CompletedByUserID(h) ==
    LET r == req[h]
        row == done[r.task]
    IN  /\ r.pc = "claim"
        /\ Become(h, IF ~Exists(row) \/ r.seen = row.claimed THEN Idle
                     ELSE [r EXCEPT !.pc = "level", !.seen = 0, !.row = row])
        /\ UNCHANGED <<day, user, done, rewards, resetDue, worth, played, overlaps>>

\* takes the counter it read
Mutant_UpdateRewardClaimed(r) == [done EXCEPT ![r.task].claimed = r.row.count]
\* forgets to take the counter
MutantAgain_UpdateRewardClaimed(r) == done
\* reward_claimed = completion_count, as it is now
UpdateRewardClaimed(r) == [done EXCEPT ![r.task].claimed = done[r.task].count]

Claim(h) ==
    LET r == req[h] IN
    /\ r.pc = "give" /\ r.job = "claim"
    /\ user' = GiveReward(r)
    /\ rewards' = UpdateCompletedTaskRewards(r)
    /\ done' = UpdateRewardClaimed(r)
    /\ Become(h, Idle)
    /\ UNCHANGED <<day, resetDue, worth, played, overlaps>>

-----------------------------------------------------------------------------
(* UpdateCompletedTaskLimits: pay what is unclaimed, start the counters anew *)

GetUnclaimedRewards(h, t) ==
    /\ Arrives(h)
    /\ t \in resetDue
    /\ resetDue' = resetDue \ {t}
    /\ Become(h, [Idle EXCEPT !.pc = IF done[t].claimed < done[t].count THEN "level" ELSE "reset",
                              !.job = "reset", !.task = t, !.row = done[t]])
    /\ UNCHANGED <<day, user, done, rewards, worth, played>>

UpdateCompletedTaskLimits(h) ==
    LET r == req[h] IN
    /\ r.job = "reset" /\ r.pc \in {"give", "reset"}
    /\ user' = IF r.pc = "give" THEN GiveReward(r) ELSE user
    /\ rewards' = IF r.pc = "give" THEN UpdateCompletedTaskRewards(r) ELSE rewards
    /\ done' = [done EXCEPT ![r.task].count = 0, ![r.task].claimed = 0]
    /\ Become(h, Idle)
    /\ UNCHANGED <<day, resetDue, worth, played, overlaps>>

-----------------------------------------------------------------------------
Next ==
    \/ Midnight
    \/ \E h \in Handlers :
          \/ \E t \in Tasks : Complete(h, t) \/ ClaimReward(h, t) \/ GetUnclaimedRewards(h, t)
          \/ CompleteUpdate(h)
          \/ CompleteDailyStreakTask(h) \/ StreakUpdate(h)
          \/ CompleteSignInEmail(h) \/ AttachEmail(h)
          \/ CompletedByUserID(h) \/ GetLevelAndXP(h) \/ Claim(h)
          \/ UpdateCompletedTaskLimits(h)
          \/ Fails(h)

Spec == Init /\ [][Next]_vars

-----------------------------------------------------------------------------
(* Properties *)

UserRow == [balance : Nat, level : Nat, xp : Nat, email : BOOLEAN,
            lastStreak : 0..LastDay, streak : 1..LastDay]
TaskRow == [completions : Nat, count : Nat, claimed : Nat, multiplier : 0..WeeklyCycle]

\* Columns keep their domains; a multiplier is a day of the week's cycle, a streak
\* no longer than the calendar.
TypeOK ==
    /\ day \in 2..LastDay
    /\ user \in UserRow
    /\ done \in [Tasks -> TaskRow]
    /\ rewards \in [Tasks -> [reward : Nat, xp : Nat]]
    /\ resetDue \subseteq Resettable
    /\ worth \in [Tasks -> Nat]
    /\ played \subseteq 2..LastDay
    /\ overlaps \in 0..MaxOverlaps

\* However requests interleave, reward_claimed stays within completion_count, in the
\* table and in every copy a claim computes with: their difference, a uint32, is
\* never four billion completions.
ClaimedWithinCompleted ==
    /\ \A t \in Tasks : done[t].claimed <= done[t].count
    /\ \A h \in Handlers : req[h].row.claimed <= req[h].row.count

\* As long as requests do not overlap, every completion is paid once, by a claim or
\* by the reset, at the multiplier it was completed with, and what is not yet paid
\* is what the counters say is unclaimed.
PaidOnce ==
    overlaps = 0 =>
       \A t \in Tasks \ {TaskSignUp} :
          rewards[t].reward
            = Reward[t] * (worth[t] - done[t].multiplier * (done[t].count - done[t].claimed))

\* As long as requests do not overlap and no email was attached, the balance, the
\* level and the XP are what the table of rewards adds up to.
UserMatchesRewards ==
    overlaps = 0 /\ ~user.email =>
       /\ user.balance = InitialBalance + SumFunction([t \in Tasks |-> rewards[t].reward])
       /\ LevelsXP(0, user.level) + user.xp = SumFunction([t \in Tasks |-> rewards[t].xp])
       /\ user.xp < LevelXP[user.level + 1]

\* As long as requests do not overlap, the streak is the number of days in a row, up
\* to the last one, on which the user joined a duel, however long a request takes.
StreakIsARun ==
    overlaps = 0 /\ played # {} =>
       /\ user.lastStreak = Max(played)
       /\ (user.lastStreak - user.streak + 1)..user.lastStreak \subseteq played
       /\ user.lastStreak - user.streak \notin played

\* What claims and resets pay adds up, and is never computed from a counter that is
\* behind what was claimed (claimReward, UpdateCompletedTaskLimits).
RewardsAddUp == ClaimedWithinCompleted /\ UserMatchesRewards
=============================================================================
