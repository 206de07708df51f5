----------------------------- MODULE DuelModel -----------------------------
(***************************************************************************)
(* The rows of duels and players that both kinds of duel share, with the   *)
(* updates the repositories make on them: internal/model/duel.go,          *)
(* internal/model/player.go and internal/storage/repository.               *)
(***************************************************************************)
EXTENDS Integers

CONSTANTS
    Users,   \* rows of users
    Null     \* uuid.Nil

\* duels.status, numbered as in the code (GetOldDuelsInReview compares them)
NoStatus == 0
InReview == 1
AutoCancelled == 2
AdminCancelled == 3
InProcess == 4
Resolved == 5
Refund == 6
Statuses == NoStatus..Refund
Cancelled == {AutoCancelled, AdminCancelled, Refund}
Terminal == Cancelled \cup {Resolved}

\* players.final_status
PlayerActive == 0
PlayerResolved == 1
PlayerRefunded == 2

Answers == {0, 1}
NoResult == 2   \* final_result is NULL

DuelRow == [status : Statuses, crypto : BOOLEAN, owner : Users \cup {Null},
            playersCount : Nat, winnersCount : Nat, refundedPlayersCount : Nat,
            finalResult : Answers \cup {NoResult},
            deadline : Nat, eventDate : Nat, createdAt : Nat]

NoDuel == [status |-> NoStatus, crypto |-> FALSE, owner |-> Null,
           playersCount |-> 0, winnersCount |-> 0, refundedPlayersCount |-> 0,
           finalResult |-> NoResult, deadline |-> 0, eventDate |-> 0, createdAt |-> 0]

UpdateDuelWinners(rows, winners, amount) ==
    [i \in DOMAIN rows |->
        IF i \in winners
          THEN [rows[i] EXCEPT !.finalStatus = PlayerResolved, !.winAmount = amount]
          ELSE rows[i]]

SetStatus(rows, which, status) ==
    [i \in DOMAIN rows |->
        IF i \in which THEN [rows[i] EXCEPT !.finalStatus = status] ELSE rows[i]]

\* Generic.Update: every column of the model that is not zero, read when it may
NonZero(new, old) == IF new # 0 THEN new ELSE old

Update(row, model) ==
    [row EXCEPT !.status = NonZero(model.status, @),
                !.playersCount = NonZero(model.playersCount, @),
                !.winnersCount = NonZero(model.winnersCount, @),
                !.refundedPlayersCount = NonZero(model.refundedPlayersCount, @),
                !.finalResult = IF model.finalResult # NoResult THEN model.finalResult ELSE @,
                !.deadline = NonZero(model.deadline, @),
                !.eventDate = NonZero(model.eventDate, @)]
=============================================================================
