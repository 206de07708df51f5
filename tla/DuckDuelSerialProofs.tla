------------------------ MODULE DuckDuelSerialProofs ------------------------
(***************************************************************************)
(* Requests one at a time: DuckDuel keeps its books, implements DuelEscrow *)
(* and answers its queries with what happened, for any users, duels,       *)
(* prices, commissions and schedules.                                      *)
(***************************************************************************)
EXTENDS DuckDuelProofs, DuckDuelEscrow, DuelQueries

\* what the run duck_serial has: one handler, nothing fails
OneAtATime == Faults = FALSE /\ \A g, h \in Handlers : g = h

\* ... and so many users that uint64 can count them
FewUsers == IsFiniteSet(Users) /\ IsFiniteSet(Duels) /\ Cardinality(Users) < CountModulus

-----------------------------------------------------------------------------
(* The inductive invariant *)

\* What a request has read is still so when it uses it.
RequestCurrent(r) ==
    /\ r.pc \in {"join", "approve", "winners", "refunds", "settle", "cancel", "cancelCommit"}
         => /\ r.snap = duels[r.duel]
            /\ r.snap.status \in Live
            /\ \A e \in r.batch : e.duel # r.duel
    /\ r.pc = "idle" => r.batch = {}
    /\ r.pc = "join" => r.user \notin UsersOf(r.duel, Rows(r.duel))
    /\ r.pc = "approve" => r.snap.status = InReview
    /\ r.pc \in {"winners", "refunds", "settle"} => r.snap.status = InProcess
    /\ r.pc \in {"refunds", "settle"} => r.winners = GetDuelWinners(r.duel, r.answer, r.cutoff)
    /\ r.pc = "settle" => /\ r.refunds = CountDuelPlayersToRefund(r.duel, r.cutoff)
                          /\ ~Degenerate(r, r.refunds)
    /\ r.pc \in {"cancel", "cancelCommit"} => r.target \in Cancelled
    /\ r.pc = "cancelCommit" => r.seated = UsersOf(r.duel, Rows(r.duel))
    /\ r.pc = "streakUpdate" => r.balance = balance[r.user]
    /\ \A e \in r.batch :
          /\ e.snap = duels[e.duel]
          /\ e.snap.status = IF r.job = "autoCancel" THEN InReview ELSE InProcess

Cancelling(d) == \E h \in Handlers : req[h].pc = "cancelCommit" /\ req[h].duel = d

OneSeat(d) == \A i, j \in Rows(d) : players[d][i].user = players[d][j].user => i = j

\* A duel counts its rows, seats a user once, and has decided nothing until it closes.
DuelCurrent(d) ==
    /\ duels[d].playersCount = Len(players[d])
    /\ OneSeat(d)
    /\ duels[d].status = NoStatus => players[d] = <<>>
    /\ duels[d].status \notin Terminal =>
          /\ duels[d].refundedPlayersCount = 0
          /\ duels[d].winnersCount = 0
          /\ duels[d].finalResult = NoResult
          /\ ~Cancelling(d) => \A i \in Rows(d) : players[d][i].finalStatus = PlayerActive

SerialInv ==
    /\ IInv
    /\ \A h \in Handlers : RequestCurrent(req[h])
    /\ \A d \in Duels : DuelCurrent(d)

-----------------------------------------------------------------------------
(* What a step may do to the rows *)

SameDuel(d) == duels'[d] = duels[d] /\ players'[d] = players[d]

OthersSame(d) == \A e \in Duels \ {d} : SameDuel(e) /\ ~Cancelling(e)

SameCounts(d) ==
    /\ duels'[d].owner = duels[d].owner
    /\ duels'[d].playersCount = duels[d].playersCount
    /\ duels'[d].winnersCount = duels[d].winnersCount
    /\ duels'[d].refundedPlayersCount = duels[d].refundedPlayersCount
    /\ duels'[d].finalResult = duels[d].finalResult

\* reads, new dates, an approval, a streak
Quiet ==
    /\ balance' = balance /\ players' = players
    /\ \A d \in Duels :
          /\ SameCounts(d)
          /\ \/ duels'[d].status = duels[d].status
             \/ duels[d].status = InReview /\ duels'[d].status = InProcess
          /\ Cancelling(d) => Cancelling(d)'

\* a seat is taken, in a new duel or in one that is live
SeatAdded(d, seat) ==
    /\ OthersSame(d)
    /\ seat \in PlayerRow /\ seat.finalStatus = PlayerActive /\ seat.winAmount = 0
    /\ seat.user \notin UsersOf(d, Rows(d))
    /\ players'[d] = Append(players[d], seat)
    /\ balance' = [balance EXCEPT ![seat.user] = @ - (IF seat.charged THEN DuelPrice ELSE 0)]
    /\ \/ duels[d].status = NoStatus /\ duels'[d].owner = seat.user
       \/ duels[d].status \in Live /\ duels'[d].owner = duels[d].owner /\ seat.charged
    /\ duels'[d].status \in Live
    /\ duels'[d].playersCount = duels[d].playersCount + 1
    /\ duels'[d].winnersCount = 0
    /\ duels'[d].refundedPlayersCount = 0
    /\ duels'[d].finalResult = NoResult
    /\ ~Cancelling(d)

WinnersOf(d, answer, cutoff) == GetDuelWinners(d, answer, cutoff)
LosersOf(d, answer, cutoff) == GetDuelWinners(d, 1 - answer, cutoff)

PlayedPool(d, answer, cutoff) ==
    Pool(DuelPrice, Cardinality(WinnersOf(d, answer, cutoff))
                      + Cardinality(LosersOf(d, answer, cutoff)))

AmountOf(d, answer, cutoff) ==
    FinalReward(PlayedPool(d, answer, cutoff), Commission, Cardinality(WinnersOf(d, answer, cutoff)))

OwnerPart(d, answer, cutoff) == CommissionReward(PlayedPool(d, answer, cutoff), Commission)

PaidTo(d, answer, cutoff, u) ==
      (IF u \in UsersOf(d, WinnersOf(d, answer, cutoff)) THEN AmountOf(d, answer, cutoff) ELSE 0)
    + (IF u \in UsersOf(d, LosersOf(d, answer, cutoff)) \cap Premium
         THEN PremiumPlayersConsolationReward ELSE 0)
    + (IF u = duels[d].owner THEN OwnerPart(d, answer, cutoff) ELSE 0)
    + (IF u \in UsersOf(d, LateRows(d, cutoff)) THEN DuelPrice ELSE 0)

\* the duel is settled: winners, losers and latecomers are everybody
Settled(d, answer, cutoff) ==
    /\ OthersSame(d)
    /\ answer \in Answers /\ cutoff \in Int
    /\ duels[d].status = InProcess
    /\ WinnersOf(d, answer, cutoff) # {} /\ LosersOf(d, answer, cutoff) # {}
    /\ players'[d] = [i \in Rows(d) |->
          IF i \in WinnersOf(d, answer, cutoff)
            THEN [players[d][i] EXCEPT !.finalStatus = PlayerResolved,
                                       !.winAmount = AmountOf(d, answer, cutoff)]
          ELSE IF i \in LateRows(d, cutoff)
            THEN [players[d][i] EXCEPT !.finalStatus = PlayerRefunded]
          ELSE players[d][i]]
    /\ balance' = [u \in Users |-> balance[u] + PaidTo(d, answer, cutoff, u)]
    /\ duels'[d].status = Resolved
    /\ duels'[d].finalResult = answer
    /\ duels'[d].owner = duels[d].owner
    /\ duels'[d].playersCount = duels[d].playersCount
    /\ duels'[d].winnersCount = Cardinality(WinnersOf(d, answer, cutoff))
    /\ duels'[d].refundedPlayersCount = Cardinality(LateRows(d, cutoff))
    /\ ~Cancelling(d)

\* the statuses a cancellation writes ahead of itself
Marked(d) ==
    /\ OthersSame(d)
    /\ duels' = duels /\ balance' = balance
    /\ duels[d].status \in Live
    /\ players'[d] = SetStatus(players[d], DOMAIN players[d], PlayerRefunded)
    /\ Cancelling(d)'

\* the stakes go back
Returned(d) ==
    /\ OthersSame(d)
    /\ players' = players
    /\ duels[d].status \in Live
    /\ SameCounts(d)
    /\ duels'[d].status \in Cancelled
    /\ balance' = Credit(balance, UsersOf(d, Rows(d)), DuelPrice)

Shape ==
    \/ Quiet
    \/ \E d \in Duels :
          \/ \E seat \in PlayerRow : SeatAdded(d, seat)
          \/ \E answer \in Answers, cutoff \in Int : Settled(d, answer, cutoff)
          \/ Marked(d)
          \/ Returned(d)

-----------------------------------------------------------------------------
(* Rows *)

\* the rows of a duel are numbered from one
LEMMA RowsOf ==
  ASSUME TypeOK, NEW d \in Duels
  PROVE  /\ Len(players[d]) \in Nat
         /\ Rows(d) = 1..Len(players[d])
         /\ players[d] \in Seq(PlayerRow)
         /\ \A i \in Rows(d) : players[d][i] \in PlayerRow
<1>1. players[d] \in Seq(PlayerRow)
  BY DEF TypeOK
<1> QED
  BY <1>1, LenProperties DEF Rows

\* the statuses of a duel are different numbers
LEMMA StatusesDiffer ==
  /\ NoStatus \notin Live /\ NoStatus \notin Terminal /\ NoStatus \notin Cancelled
  /\ InProcess # NoStatus /\ InReview # NoStatus
  /\ InReview \notin Terminal /\ InProcess \notin Terminal /\ InReview # InProcess
  /\ Resolved \in Terminal /\ Resolved \notin Live /\ Resolved \notin Cancelled
  /\ Cancelled \subseteq Terminal
  /\ \A s \in Live : s \notin Terminal
  /\ Terminal = Cancelled \cup {Resolved}
  /\ Statuses = {NoStatus} \cup Live \cup Terminal
  /\ Resolved # NoStatus /\ Live \subseteq Statuses /\ Terminal \subseteq Statuses
BY SMT DEF NoStatus, InReview, InProcess, Resolved, Refund, AutoCancelled, AdminCancelled,
       Live, Terminal, Cancelled, Statuses

LEMMA PlayerStatusesDiffer ==
  PlayerActive # PlayerResolved /\ PlayerActive # PlayerRefunded /\ PlayerResolved # PlayerRefunded
BY DEF PlayerActive, PlayerResolved, PlayerRefunded

\* a seat that is added comes last
LEMMA AppendRow ==
  ASSUME NEW rows \in Seq(PlayerRow), NEW seat \in PlayerRow
  PROVE  /\ Append(rows, seat) \in Seq(PlayerRow)
         /\ Len(Append(rows, seat)) = Len(rows) + 1
         /\ DOMAIN Append(rows, seat) = (DOMAIN rows) \cup {Len(rows) + 1}
         /\ \A i \in DOMAIN rows : Append(rows, seat)[i] = rows[i]
         /\ Append(rows, seat)[Len(rows) + 1] = seat
         /\ Len(rows) + 1 \notin DOMAIN rows
<1>1. Len(rows) \in Nat /\ DOMAIN rows = 1..Len(rows)
  BY LenProperties
<1>2. /\ Append(rows, seat) \in Seq(PlayerRow)
      /\ Len(Append(rows, seat)) = Len(rows) + 1
      /\ \A i \in 1..Len(rows) : Append(rows, seat)[i] = rows[i]
      /\ Append(rows, seat)[Len(rows) + 1] = seat
  BY AppendProperties
<1>3. DOMAIN Append(rows, seat) = 1..(Len(rows) + 1)
  BY <1>2, LenProperties
<1> QED
  BY <1>1, <1>2, <1>3

-----------------------------------------------------------------------------
(* Every step has one of the shapes, and each keeps the duels current *)

LEMMA QuietKeepsDuels ==
  ASSUME SerialInv, Quiet, NEW d \in Duels
  PROVE  DuelCurrent(d)'
<1>1. DuelCurrent(d) /\ TypeOK
  BY DEF SerialInv, IInv
<1>2. players'[d] = players[d] /\ SameCounts(d)
      /\ (\/ duels'[d].status = duels[d].status
          \/ duels[d].status = InReview /\ duels'[d].status = InProcess)
      /\ (Cancelling(d) => Cancelling(d)')
  BY DEF Quiet
<1>3. OneSeat(d)'
  BY <1>1, <1>2 DEF DuelCurrent, OneSeat, Rows
<1>4. duels'[d].status = NoStatus => duels[d].status = NoStatus
  BY <1>2, StatusesDiffer DEF Live
<1>5. duels'[d].status \notin Terminal => duels[d].status \notin Terminal
  BY <1>2, StatusesDiffer
<1> HIDE DEF Cancelling
<1> QED
  BY <1>1, <1>2, <1>3, <1>4, <1>5 DEF DuelCurrent, SameCounts, Rows

LEMMA SameDuelCurrent ==
  ASSUME SerialInv, NEW d \in Duels, SameDuel(d), Cancelling(d) => Cancelling(d)'
  PROVE  DuelCurrent(d)'
<1>1. DuelCurrent(d)
  BY DEF SerialInv
<1> HIDE DEF Cancelling
<1> QED
  BY <1>1 DEF DuelCurrent, SameDuel, OneSeat, Rows

LEMMA SeatAddedKeepsDuels ==
  ASSUME SerialInv, NEW d \in Duels, NEW seat \in PlayerRow, SeatAdded(d, seat), NEW e \in Duels
  PROVE  DuelCurrent(e)'
<1>1. CASE e # d
  BY <1>1, SameDuelCurrent DEF SeatAdded, OthersSame
<1>2. CASE e = d
  <2>1. /\ DuelCurrent(d) /\ TypeOK
        /\ players'[d] = Append(players[d], seat) /\ players[d] \in Seq(PlayerRow)
    BY RowsOf DEF SerialInv, IInv, SeatAdded
  <2> DEFINE n == Len(players[d])
  <2>2. /\ DOMAIN players'[d] = (DOMAIN players[d]) \cup {n + 1}
        /\ Len(players'[d]) = n + 1
        /\ \A i \in DOMAIN players[d] : players'[d][i] = players[d][i]
        /\ players'[d][n + 1] = seat
    BY <2>1, AppendRow
  <2>3. OneSeat(d)'
    <3>1. SUFFICES ASSUME NEW i \in DOMAIN players'[d], NEW j \in DOMAIN players'[d],
                          players'[d][i].user = players'[d][j].user
                   PROVE  i = j
      BY DEF OneSeat, Rows
    <3>2. \A k \in DOMAIN players[d] : players[d][k].user # seat.user
      BY DEF SeatAdded, UsersOf, Rows
    <3>3. CASE i \in DOMAIN players[d] /\ j \in DOMAIN players[d]
      BY <2>1, <2>2, <3>1, <3>3 DEF DuelCurrent, OneSeat, Rows
    <3>4. CASE i = n + 1 \/ j = n + 1
      BY <2>2, <3>1, <3>2, <3>4
    <3> QED
      BY <2>2, <3>3, <3>4
  <2>4. /\ duels'[d].status \in Live /\ duels'[d].status # NoStatus
        /\ duels'[d].playersCount = n + 1
        /\ duels'[d].winnersCount = 0 /\ duels'[d].refundedPlayersCount = 0
        /\ duels'[d].finalResult = NoResult
    BY <2>1, StatusesDiffer DEF SeatAdded, DuelCurrent
  <2>5. \A i \in DOMAIN players'[d] : players'[d][i].finalStatus = PlayerActive
    <3>1. \A i \in DOMAIN players[d] : players[d][i].finalStatus = PlayerActive
      <4>1. CASE duels[d].status = NoStatus
        BY <2>1, <4>1 DEF DuelCurrent
      <4>2. CASE duels[d].status \in Live
        BY <2>1, <4>2, StatusesDiffer DEF DuelCurrent, SeatAdded, Rows
      <4> QED
        BY <4>1, <4>2 DEF SeatAdded
    <3> QED
      BY <2>2, <3>1 DEF SeatAdded
  <2> QED
    BY <1>2, <2>2, <2>3, <2>4, <2>5 DEF DuelCurrent, Rows
<1> QED
  BY <1>1, <1>2

\* two sequences with the same rows numbered are equally long
LEMMA SameLength ==
  ASSUME NEW a \in Seq(PlayerRow), NEW b \in Seq(PlayerRow), DOMAIN a = DOMAIN b
  PROVE  Len(a) = Len(b)
<1>1. Len(a) \in Nat /\ Len(b) \in Nat /\ DOMAIN a = 1..Len(a) /\ DOMAIN b = 1..Len(b)
  BY LenProperties
<1>2. 1..Len(a) = 1..Len(b)
  BY <1>1
<1>3. ASSUME NEW m \in Nat, NEW n \in Nat, 1..m = 1..n
      PROVE  m = n
  BY <1>3, SMT
<1> QED
  BY <1>1, <1>2, <1>3

LEMMA SettledKeepsDuels ==
  ASSUME SerialInv, TypeOK', NEW d \in Duels, NEW answer \in Answers, NEW cutoff \in Int,
         Settled(d, answer, cutoff), NEW e \in Duels
  PROVE  DuelCurrent(e)'
<1>1. CASE e # d
  BY <1>1, SameDuelCurrent DEF Settled, OthersSame
<1>2. CASE e = d
  <2>1. DuelCurrent(d) /\ \A i \in Rows(d) : players[d][i] \in PlayerRow
    BY RowsOf DEF SerialInv, IInv
  <2>2. /\ DOMAIN players'[d] = Rows(d)
        /\ \A i \in Rows(d) : players'[d][i].user = players[d][i].user
    <3> DEFINE row(i) == IF i \in WinnersOf(d, answer, cutoff)
                           THEN [players[d][i] EXCEPT !.finalStatus = PlayerResolved,
                                                      !.winAmount = AmountOf(d, answer, cutoff)]
                         ELSE IF i \in LateRows(d, cutoff)
                           THEN [players[d][i] EXCEPT !.finalStatus = PlayerRefunded]
                         ELSE players[d][i]
    <3>1. players'[d] = [i \in Rows(d) |-> row(i)]
      BY Zenon DEF Settled
    <3>2. ASSUME NEW i \in Rows(d)
          PROVE  row(i).user = players[d][i].user
      BY <2>1 DEF PlayerRow
    <3> HIDE DEF row
    <3> QED
      BY <3>1, <3>2
  <2>3. OneSeat(d)'
    BY <2>1, <2>2 DEF DuelCurrent, OneSeat, Rows
  <2>4. Len(players'[d]) = Len(players[d])
    <3>1. players[d] \in Seq(PlayerRow) /\ players'[d] \in Seq(PlayerRow)
      BY DEF TypeOK, SerialInv, IInv
    <3> QED
      BY <2>2, <3>1, SameLength DEF Rows
  <2>5. duels'[d].status \in Terminal /\ duels'[d].status # NoStatus
        /\ duels'[d].playersCount = duels[d].playersCount
    BY StatusesDiffer DEF Settled
  <2>6. (duels[d].playersCount = Len(players[d]))
    BY <2>1 DEF DuelCurrent
  <2> QED
    BY <1>2, <2>3, <2>4, <2>5, <2>6 DEF DuelCurrent
<1> QED
  BY <1>1, <1>2

LEMMA MarkedKeepsDuels ==
  ASSUME SerialInv, TypeOK', NEW d \in Duels, Marked(d), NEW e \in Duels
  PROVE  DuelCurrent(e)'
<1>1. CASE e # d
  BY <1>1, SameDuelCurrent DEF Marked, OthersSame
<1>2. CASE e = d
  <2>1. DuelCurrent(d) /\ \A i \in Rows(d) : players[d][i] \in PlayerRow
    BY RowsOf DEF SerialInv, IInv
  <2>2. /\ DOMAIN players'[d] = Rows(d)
        /\ \A i \in Rows(d) : players'[d][i].user = players[d][i].user
    BY <2>1 DEF Marked, PlayerRow, SetStatus, Rows
  <2>3. OneSeat(d)'
    BY <2>1, <2>2 DEF DuelCurrent, OneSeat, Rows
  <2>4. Len(players'[d]) = Len(players[d])
    <3>1. players[d] \in Seq(PlayerRow) /\ players'[d] \in Seq(PlayerRow)
      BY DEF TypeOK, SerialInv, IInv
    <3> QED
      BY <2>2, <3>1, SameLength DEF Rows
  <2>5. duels'[d] = duels[d] /\ duels[d].status # NoStatus /\ Cancelling(d)'
        /\ duels[d].status \notin Terminal
    BY StatusesDiffer DEF Marked
  <2> HIDE DEF Cancelling
  <2>6. (duels[d].playersCount = Len(players[d]))
    BY <2>1 DEF DuelCurrent
  <2> QED
    BY <1>2, <2>1, <2>3, <2>4, <2>5, <2>6 DEF DuelCurrent
<1> QED
  BY <1>1, <1>2

LEMMA ReturnedKeepsDuels ==
  ASSUME SerialInv, NEW d \in Duels, Returned(d), NEW e \in Duels
  PROVE  DuelCurrent(e)'
<1>1. CASE e # d
  BY <1>1, SameDuelCurrent DEF Returned, OthersSame
<1>2. CASE e = d
  <2>1. DuelCurrent(d)
    BY DEF SerialInv
  <2>2. players' = players /\ duels'[d].playersCount = duels[d].playersCount
        /\ duels'[d].status \in Terminal /\ duels'[d].status # NoStatus
    BY StatusesDiffer DEF Returned, SameCounts
  <2>3. OneSeat(d)'
    BY <2>1, <2>2 DEF DuelCurrent, OneSeat, Rows
  <2> QED
    BY <1>2, <2>1, <2>2, <2>3 DEF DuelCurrent
<1> QED
  BY <1>1, <1>2

-----------------------------------------------------------------------------
(* A step of the only handler *)

\* A step that has a shape, and leaves its request current, keeps the invariant.
LEMMA StepKeepsSerialInv ==
  ASSUME SerialInv, OneAtATime, IInv', Shape, NEW h \in Handlers, RequestCurrent(req[h])'
  PROVE  SerialInv'
<1>1. \A g \in Handlers : RequestCurrent(req[g])'
  BY DEF OneAtATime
<1>2. \A d \in Duels : DuelCurrent(d)'
  <2>1. CASE Quiet
    BY <2>1, QuietKeepsDuels
  <2>2. ASSUME NEW d \in Duels, NEW seat \in PlayerRow, SeatAdded(d, seat)
        PROVE  \A e \in Duels : DuelCurrent(e)'
    BY <2>2, SeatAddedKeepsDuels
  <2>3. ASSUME NEW d \in Duels, NEW answer \in Answers, NEW cutoff \in Int,
               Settled(d, answer, cutoff)
        PROVE  \A e \in Duels : DuelCurrent(e)'
    BY <2>3, SettledKeepsDuels DEF IInv
  <2>4. ASSUME NEW d \in Duels, Marked(d)
        PROVE  \A e \in Duels : DuelCurrent(e)'
    BY <2>4, MarkedKeepsDuels DEF IInv
  <2>5. ASSUME NEW d \in Duels, Returned(d)
        PROVE  \A e \in Duels : DuelCurrent(e)'
    BY <2>5, ReturnedKeepsDuels
  <2> QED
    BY <2>1, <2>2, <2>3, <2>4, <2>5 DEF Shape
<1> QED
  BY <1>1, <1>2 DEF SerialInv

\* nothing is being cancelled while the only request does something else
LEMMA NotCancelling ==
  ASSUME OneAtATime, NEW h \in Handlers, req[h].pc # "cancelCommit"
  PROVE  \A d \in Duels : ~Cancelling(d)
BY DEF OneAtATime, Cancelling

\* a request that is about to begin holds nothing
LEMMA IdleCurrent == RequestCurrent(Idle)'
<1>1. Idle.pc = "idle" /\ Idle.batch = {}
  BY DEF Idle
<1> QED
  BY <1>1 DEF RequestCurrent

LEMMA BecomeValue ==
  ASSUME TypeOK, NEW h \in Handlers, NEW r, Become(h, r)
  PROVE  req'[h] = r
BY DEF TypeOK, Become

\* the rest of a list stays current when only other duels changed
LEMMA RestCurrent ==
  ASSUME SerialInv, NEW h \in Handlers, NEW r,
         \A e \in req[h].batch : duels'[e.duel] = duels[e.duel],
         r.pc = "next", r.job = req[h].job, r.batch \subseteq req[h].batch
  PROVE  RequestCurrent(r)'
<1>1. RequestCurrent(req[h])
  BY DEF SerialInv
<1> QED
  BY <1>1 DEF RequestCurrent

LEMMA FinishCurrent ==
  ASSUME SerialInv, NEW h \in Handlers, Finish(h) \/ Fail(h),
         \A e \in req[h].batch : duels'[e.duel] = duels[e.duel]
  PROVE  RequestCurrent(req[h])'
<1>1. PICK rest : rest = [Idle EXCEPT !.pc = "next", !.job = req[h].job, !.batch = req[h].batch]
  OBVIOUS
<1>2. rest.pc = "next" /\ rest.job = req[h].job /\ rest.batch = req[h].batch
  BY <1>1 DEF Idle
<1>3. Become(h, Idle) \/ Become(h, rest)
  BY <1>1 DEF Finish, Fail
<1>4. RequestCurrent(rest)'
  BY <1>2, RestCurrent
<1>5. TypeOK
  BY DEF SerialInv, IInv
<1>6. req'[h] = Idle \/ req'[h] = rest
  BY <1>3, <1>5, BecomeValue
<1> QED
  BY <1>4, <1>6, IdleCurrent

\* a read leaves everything as it is
LEMMA ReadIsQuiet ==
  ASSUME OneAtATime, NEW h \in Handlers, req[h].pc # "cancelCommit",
         UNCHANGED <<duels, players, balance>>
  PROVE  Shape
BY NotCancelling DEF Shape, Quiet, SameCounts

\* ... and a request that read what is so is current
LEMMA ReadCurrent ==
  ASSUME SerialInv, NEW h \in Handlers, UNCHANGED <<duels, players, balance>>,
         NEW r, Become(h, r), RequestCurrent(r)
  PROVE  RequestCurrent(req[h])'
<1>1. req'[h] = r
  BY BecomeValue DEF SerialInv, IInv
<1>2. /\ Rows(r.duel)' = Rows(r.duel)
      /\ UsersOf(r.duel, Rows(r.duel))' = UsersOf(r.duel, Rows(r.duel))
      /\ GetDuelWinners(r.duel, r.answer, r.cutoff)' = GetDuelWinners(r.duel, r.answer, r.cutoff)
      /\ CountDuelPlayersToRefund(r.duel, r.cutoff)' = CountDuelPlayersToRefund(r.duel, r.cutoff)
  BY DEF Rows, UsersOf, GetDuelWinners, CountDuelPlayersToRefund, LateRows
<1>3. Degenerate(r, r.refunds)' <=> Degenerate(r, r.refunds)
  BY DEF Degenerate, PoolOf
<1>4. RequestCurrent(r)'
  BY <1>2, <1>3 DEF RequestCurrent
<1> QED
  BY <1>1, <1>4

-----------------------------------------------------------------------------
(* Steps that only read *)

\* reading leaves the invariant as it is
LEMMA ReadStep ==
  ASSUME SerialInv, OneAtATime, IInv', NEW h \in Handlers, req[h].pc # "cancelCommit",
         UNCHANGED <<duels, players, balance>>, NEW r, Become(h, r), RequestCurrent(r)
  PROVE  Shape /\ SerialInv'
BY ReadIsQuiet, ReadCurrent, StepKeepsSerialInv

LEMMA IdleStep ==
  ASSUME SerialInv, OneAtATime, IInv', NEW h \in Handlers, req[h].pc # "cancelCommit",
         UNCHANGED <<duels, players, balance>>, Become(h, Idle) \/ Finish(h) \/ Fail(h)
  PROVE  Shape /\ SerialInv'
<1>1. Shape
  BY ReadIsQuiet
<1>2. CASE Become(h, Idle)
  <2>1. req'[h] = Idle
    BY <1>2, BecomeValue DEF SerialInv, IInv
  <2> QED
    BY <1>1, <2>1, IdleCurrent, StepKeepsSerialInv
<1>3. CASE Finish(h) \/ Fail(h)
  BY <1>1, <1>3, FinishCurrent, StepKeepsSerialInv
<1> QED
  BY <1>2, <1>3

\* The clock and the requests that go on as they are.
LEMMA SameRequestStep ==
  ASSUME SerialInv, OneAtATime, IInv', UNCHANGED <<duels, players, balance, req>>
  PROVE  Shape /\ SerialInv'
<1>1. Shape
  BY DEF Shape, Quiet, SameCounts, Cancelling
<1>2. ASSUME NEW h \in Handlers PROVE SerialInv'
  <2>1. RequestCurrent(req[h])
    BY DEF SerialInv
  <2>2. \A d : /\ Rows(d)' = Rows(d)
               /\ UsersOf(d, Rows(d))' = UsersOf(d, Rows(d))
               /\ \A a, c : GetDuelWinners(d, a, c)' = GetDuelWinners(d, a, c)
               /\ \A c : CountDuelPlayersToRefund(d, c)' = CountDuelPlayersToRefund(d, c)
    BY DEF Rows, UsersOf, GetDuelWinners, CountDuelPlayersToRefund, LateRows
  <2>3. RequestCurrent(req[h])'
    BY <2>1, <2>2 DEF RequestCurrent, Degenerate, PoolOf
  <2> QED
    BY <1>1, <2>3, StepKeepsSerialInv
<1>3. CASE Handlers = {}
  <2>1. \A d \in Duels : DuelCurrent(d)'
    BY SameDuelCurrent, <1>3 DEF SameDuel, Cancelling
  <2> QED
    BY <1>1, <1>3, <2>1 DEF SerialInv
<1> QED
  BY <1>1, <1>2, <1>3

LEMMA JoinDuelSerial ==
  ASSUME SerialInv, OneAtATime, IInv', NEW h \in Handlers, NEW u \in Users, NEW d \in Duels,
         NEW answer \in Answers, JoinDuel(h, u, d, answer)
  PROVE  Shape /\ SerialInv'
<1> DEFINE r == [Idle EXCEPT !.pc = "join", !.user = u, !.duel = d,
                             !.snap = duels[d], !.answer = answer, !.since = now]
<1>1. /\ r.pc = "join" /\ r.user = u /\ r.duel = d /\ r.snap = duels[d] /\ r.batch = {}
  BY DEF Idle
<1>2. Become(h, r) /\ req[h].pc = "idle" /\ UNCHANGED <<duels, players, balance>>
  BY Zenon DEF JoinDuel, Arrives
<1> HIDE DEF r
<1>3. duels[d].status \in Live /\ u \notin UsersOf(d, Rows(d))
  BY DEF JoinDuel, IsAbleToJoinDuel, UserAlreadyParticipant, Live
<1>4. RequestCurrent(r)
  BY <1>1, <1>3 DEF RequestCurrent
<1> QED
  BY <1>2, <1>4, ReadStep

LEMMA ApproveDuelSerial ==
  ASSUME SerialInv, OneAtATime, IInv', NEW h \in Handlers, NEW d \in Duels, ApproveDuel(h, d)
  PROVE  Shape /\ SerialInv'
<1> DEFINE r == [Idle EXCEPT !.pc = "approve", !.duel = d, !.snap = duels[d]]
<1>1. r.pc = "approve" /\ r.duel = d /\ r.snap = duels[d] /\ r.batch = {}
  BY DEF Idle
<1>2. Become(h, r) /\ req[h].pc = "idle" /\ UNCHANGED <<duels, players, balance>>
      /\ duels[d].status = InReview
  BY Zenon DEF ApproveDuel, Arrives
<1> HIDE DEF r
<1>3. RequestCurrent(r)
  BY <1>1, <1>2 DEF RequestCurrent, Live
<1> QED
  BY <1>2, <1>3, ReadStep

LEMMA ResolveByAdminSerial ==
  ASSUME SerialInv, OneAtATime, IInv', NEW h \in Handlers, NEW d \in Duels,
         NEW answer \in Answers, ResolveDuckPointDuelByAdmin(h, d, answer)
  PROVE  Shape /\ SerialInv'
<1> DEFINE r == [Idle EXCEPT !.pc = "winners", !.job = "admin", !.duel = d,
                             !.snap = duels[d], !.answer = answer,
                             !.cutoff = duels[d].deadline]
<1>1. r.pc = "winners" /\ r.duel = d /\ r.snap = duels[d] /\ r.batch = {}
  BY DEF Idle
<1>2. Become(h, r) /\ req[h].pc = "idle" /\ UNCHANGED <<duels, players, balance>>
      /\ duels[d].status = InProcess
  BY Zenon DEF ResolveDuckPointDuelByAdmin, Arrives
<1> HIDE DEF r
<1>3. RequestCurrent(r)
  BY <1>1, <1>2 DEF RequestCurrent, Live
<1> QED
  BY <1>2, <1>3, ReadStep

LEMMA CancelByAdminSerial ==
  ASSUME SerialInv, OneAtATime, IInv', NEW h \in Handlers, NEW d \in Duels,
         NEW target \in Statuses, CancelDuckPointDuelByAdmin(h, d, target)
  PROVE  Shape /\ SerialInv'
<1> DEFINE r == [Idle EXCEPT !.pc = "cancel", !.job = "admin", !.duel = d,
                             !.snap = duels[d], !.target = target]
<1>1. r.pc = "cancel" /\ r.duel = d /\ r.snap = duels[d] /\ r.batch = {} /\ r.target = target
  BY DEF Idle
<1>2. Become(h, r) /\ req[h].pc = "idle" /\ UNCHANGED <<duels, players, balance>>
      /\ ValidateDuelCancel(d, target)
  BY Zenon DEF CancelDuckPointDuelByAdmin, Arrives
<1> HIDE DEF r
<1>3. RequestCurrent(r)
  BY <1>1, <1>2 DEF RequestCurrent, Live, ValidateDuelCancel, Cancelled
<1> QED
  BY <1>2, <1>3, ReadStep

\* a cron reads its list
LEMMA ListedSerial ==
  ASSUME SerialInv, OneAtATime, IInv', NEW h \in Handlers, NEW which, NEW job,
         Listed(h, job, which), req[h].pc = "idle",
         \A d \in which : duels[d].status = IF job = "autoCancel" THEN InReview ELSE InProcess
  PROVE  Shape /\ SerialInv'
<1> DEFINE list == {[duel |-> d, snap |-> duels[d]] : d \in which}
           r    == [Idle EXCEPT !.pc = "next", !.job = job, !.batch = list]
<1>1. r.pc = "next" /\ r.job = job /\ r.batch = list
  BY DEF Idle
<1>2. Become(h, r) /\ UNCHANGED <<duels, players, balance>>
  BY Zenon DEF Listed
<1>3. \A e \in list : e.snap = duels[e.duel] /\ e.duel \in which
  OBVIOUS
<1> HIDE DEF r, list
<1>4. RequestCurrent(r)
  BY <1>1, <1>3 DEF RequestCurrent
<1> QED
  BY <1>2, <1>4, ReadStep

LEMMA CronListsSerial ==
  ASSUME SerialInv, OneAtATime, IInv', NEW h \in Handlers,
         \/ ResolveDuckPointOnEventDate(h)
         \/ ResolveDuckPointBeforeEventDate(h)
         \/ AutoCancelDuels(h)
  PROVE  Shape /\ SerialInv'
<1>1. CASE ResolveDuckPointOnEventDate(h)
  BY <1>1, ListedSerial DEF ResolveDuckPointOnEventDate, Arrives, Ended
<1>2. CASE ResolveDuckPointBeforeEventDate(h)
  BY <1>2, ListedSerial DEF ResolveDuckPointBeforeEventDate, Arrives, Active
<1>3. CASE AutoCancelDuels(h)
  BY <1>3, ListedSerial DEF AutoCancelDuels, Arrives, OldInReview
<1> QED
  BY <1>1, <1>2, <1>3

\* what a list holds: copies that are so, of different duels
LEMMA ListFacts ==
  ASSUME SerialInv, NEW h \in Handlers, NEW e \in req[h].batch
  PROVE  /\ e \in Batch /\ e.duel \in Duels /\ e.snap = duels[e.duel]
         /\ e.snap.status = IF req[h].job = "autoCancel" THEN InReview ELSE InProcess
         /\ e.snap.status \in Live
         /\ \A o \in req[h].batch \ {e} : o.duel # e.duel
<1>1. RequestCurrent(req[h]) /\ req[h].batch \subseteq Batch
  BY DEF SerialInv, IInv, TypeOK, Request
<1>2. e \in Batch /\ e.snap = duels[e.duel]
      /\ e.snap.status = IF req[h].job = "autoCancel" THEN InReview ELSE InProcess
  BY <1>1 DEF RequestCurrent
<1>3. ASSUME NEW o \in req[h].batch, o.duel = e.duel
      PROVE  o = e
  <2>1. o \in Batch /\ o.snap = duels[o.duel]
    BY <1>1 DEF RequestCurrent
  <2>2. o = [duel |-> o.duel, snap |-> o.snap] /\ e = [duel |-> e.duel, snap |-> e.snap]
    BY <2>1, <1>2 DEF Batch
  <2> QED
    BY <2>1, <2>2, <1>2, <1>3, Zenon
<1> QED
  BY <1>2, <1>3 DEF Batch, Live

\* a cron run takes a duel off its list
LEMMA TakenFromList ==
  ASSUME SerialInv, OneAtATime, IInv', NEW h \in Handlers, NEW e \in req[h].batch, NEW r,
         req[h].pc = "next", Become(h, r), UNCHANGED <<duels, players, balance>>,
         r.duel = e.duel, r.snap = e.snap, r.job = req[h].job, r.batch = req[h].batch \ {e},
         \/ r.pc = "winners" /\ r.job # "autoCancel"
         \/ r.pc = "cancel" /\ r.target \in Cancelled
  PROVE  Shape /\ SerialInv'
<1>1. \A o \in req[h].batch :
         /\ o.snap = duels[o.duel]
         /\ o.snap.status = IF r.job = "autoCancel" THEN InReview ELSE InProcess
  BY ListFacts
<1>2. /\ r.snap = duels[r.duel] /\ r.snap.status \in Live
      /\ \A o \in r.batch : o.duel # r.duel
  BY ListFacts
<1>3. r.pc = "winners" => r.snap.status = InProcess
  BY <1>1
<1>4. RequestCurrent(r)
  BY <1>1, <1>2, <1>3 DEF RequestCurrent
<1> QED
  BY <1>4, ReadStep

LEMMA NextOnEventDateSerial ==
  ASSUME SerialInv, OneAtATime, IInv', NEW h \in Handlers, NEW e \in req[h].batch,
         NEW answer \in Answers, NextOnEventDate(h, e, answer)
  PROVE  Shape /\ SerialInv'
<1> DEFINE r == [Idle EXCEPT !.pc = "winners", !.job = "onEvent", !.duel = e.duel,
                              !.snap = e.snap, !.answer = answer,
                              !.cutoff = e.snap.deadline, !.batch = req[h].batch \ {e}]
<1>1. /\ r.pc = "winners" /\ r.duel = e.duel /\ r.snap = e.snap
      /\ r.job = "onEvent" /\ r.batch = req[h].batch \ {e}
  BY DEF Idle
<1>2. /\ Become(h, r) /\ req[h].pc = "next" /\ req[h].job = "onEvent"
      /\ UNCHANGED <<duels, players, balance>>
  BY Zenon DEF NextOnEventDate
<1> HIDE DEF r
<1> QED
  BY <1>1, <1>2, TakenFromList

LEMMA NextBeforeEventDateSerial ==
  ASSUME SerialInv, OneAtATime, IInv', NEW h \in Handlers, NEW e \in req[h].batch,
         NextBeforeEventDate(h, e)
  PROVE  Shape /\ SerialInv'
<1> DEFINE r == [Idle EXCEPT !.pc = "winners", !.job = "beforeEvent", !.duel = e.duel,
                              !.snap = e.snap, !.answer = 1,
                              !.cutoff = now - ResolveJoinNotBefore,
                              !.batch = req[h].batch \ {e}]
<1>1. /\ r.pc = "winners" /\ r.duel = e.duel /\ r.snap = e.snap
      /\ r.job = "beforeEvent" /\ r.batch = req[h].batch \ {e}
  BY DEF Idle
<1>2. /\ Become(h, r) /\ req[h].pc = "next" /\ req[h].job = "beforeEvent"
      /\ UNCHANGED <<duels, players, balance>>
  BY Zenon DEF NextBeforeEventDate
<1> HIDE DEF r
<1> QED
  BY <1>1, <1>2, TakenFromList

LEMMA NextAutoCancelSerial ==
  ASSUME SerialInv, OneAtATime, IInv', NEW h \in Handlers, NEW e \in req[h].batch,
         NextAutoCancel(h, e)
  PROVE  Shape /\ SerialInv'
<1> DEFINE r == [Idle EXCEPT !.pc = "cancel", !.job = "autoCancel", !.duel = e.duel,
                              !.snap = e.snap, !.target = AutoCancelled,
                              !.batch = req[h].batch \ {e}]
<1>1. /\ r.pc = "cancel" /\ r.duel = e.duel /\ r.snap = e.snap
      /\ r.job = "autoCancel" /\ r.batch = req[h].batch \ {e} /\ r.target = AutoCancelled
  BY DEF Idle
<1>2. /\ Become(h, r) /\ req[h].pc = "next" /\ req[h].job = "autoCancel"
      /\ UNCHANGED <<duels, players, balance>>
  BY Zenon DEF NextAutoCancel
<1>3. AutoCancelled \in Cancelled
  BY DEF Cancelled
<1> HIDE DEF r
<1> QED
  BY <1>1, <1>2, <1>3, TakenFromList

LEMMA SkipBeforeEventDateSerial ==
  ASSUME SerialInv, OneAtATime, IInv', NEW h \in Handlers, NEW e \in req[h].batch,
         SkipBeforeEventDate(h, e)
  PROVE  Shape /\ SerialInv'
<1> DEFINE r == [req[h] EXCEPT !.batch = @ \ {e}]
<1>1. /\ Become(h, Idle) \/ Become(h, r)
      /\ req[h].pc = "next" /\ UNCHANGED <<duels, players, balance>>
  BY DEF SkipBeforeEventDate
<1>2. req[h] \in Request
  BY DEF SerialInv, IInv, TypeOK
<1>3. r.pc = "next" /\ r.job = req[h].job /\ r.batch \subseteq req[h].batch
  BY <1>1, <1>2 DEF Request
<1> HIDE DEF r
<1>4. RequestCurrent(r)
  BY <1>3, ListFacts DEF RequestCurrent
<1> QED
  BY <1>1, <1>4, IdleStep, ReadStep

\* resolveDuckPointDuel reads
LEMMA ReadWinnersSerial ==
  ASSUME SerialInv, OneAtATime, IInv', NEW h \in Handlers, ReadWinners(h)
  PROVE  Shape /\ SerialInv'
<1> DEFINE q == req[h]
           W == GetDuelWinners(q.duel, q.answer, q.cutoff)
           r == [q EXCEPT !.pc = "refunds", !.winners = W]
<1>1. /\ Become(h, r) /\ q.pc = "winners" /\ UNCHANGED <<duels, players, balance>>
  BY Zenon DEF ReadWinners
<1>2. q \in Request /\ RequestCurrent(q)
  BY DEF SerialInv, IInv, TypeOK
<1> HIDE DEF q
<1>3. /\ r.pc = "refunds" /\ r.duel = q.duel /\ r.snap = q.snap /\ r.answer = q.answer
      /\ r.cutoff = q.cutoff /\ r.batch = q.batch /\ r.job = q.job /\ r.winners = W
  BY <1>2 DEF Request
<1> HIDE DEF r, W
<1>4. RequestCurrent(r)
  BY <1>1, <1>2, <1>3 DEF RequestCurrent, W
<1> QED
  BY <1>1, <1>4, ReadStep DEF q

LEMMA ReadRefundsSerial ==
  ASSUME SerialInv, OneAtATime, IInv', NEW h \in Handlers, ReadRefunds(h)
  PROVE  Shape /\ SerialInv'
<1> DEFINE q == req[h]
           n == CountDuelPlayersToRefund(q.duel, q.cutoff)
           back == [q EXCEPT !.pc = "cancel", !.target = Refund, !.winners = {}]
           on   == [q EXCEPT !.pc = "settle", !.refunds = n]
<1>1. /\ IF Degenerate(q, n) THEN Become(h, back) ELSE Become(h, on)
      /\ q.pc = "refunds" /\ UNCHANGED <<duels, players, balance>>
  BY DEF ReadRefunds
<1>2. q \in Request /\ RequestCurrent(q)
  BY DEF SerialInv, IInv, TypeOK
<1> HIDE DEF q, n
<1>3. /\ back.pc = "cancel" /\ back.duel = q.duel /\ back.snap = q.snap
      /\ back.batch = q.batch /\ back.job = q.job /\ back.target = Refund
  BY <1>2 DEF Request
<1>4. /\ on.pc = "settle" /\ on.duel = q.duel /\ on.snap = q.snap /\ on.answer = q.answer
      /\ on.cutoff = q.cutoff /\ on.batch = q.batch /\ on.job = q.job
      /\ on.winners = q.winners /\ on.refunds = n
  BY <1>2 DEF Request
<1> HIDE DEF back, on
<1>5. RequestCurrent(back)
  BY <1>1, <1>2, <1>3 DEF RequestCurrent, Cancelled
<1>6. CASE ~Degenerate(q, n)
  <2>1. ~Degenerate(on, on.refunds)
    BY <1>4, <1>6 DEF Degenerate, PoolOf
  <2>2. RequestCurrent(on)
    BY <1>1, <1>2, <1>4, <2>1 DEF RequestCurrent, n
  <2> QED
    BY <1>1, <1>6, <2>2, ReadStep DEF q
<1> QED
  BY <1>1, <1>5, <1>6, ReadStep DEF q

\* the streak task reads the user, and writes back what is still so
LEMMA StreakReadSerial ==
  ASSUME SerialInv, OneAtATime, IInv', NEW h \in Handlers, CompleteDailyStreakTask(h)
  PROVE  Shape /\ SerialInv'
<1> DEFINE u == req[h].user
           r == [Idle EXCEPT !.pc = "streakUpdate", !.user = u, !.balance = balance[u]]
<1>1. /\ Become(h, Idle) \/ Become(h, r)
      /\ req[h].pc = "streak" /\ UNCHANGED <<duels, players, balance>>
  BY DEF CompleteDailyStreakTask
<1>2. r.pc = "streakUpdate" /\ r.user = u /\ r.balance = balance[u] /\ r.batch = {}
  BY DEF Idle
<1> HIDE DEF r, u
<1>3. RequestCurrent(r)
  BY <1>2 DEF RequestCurrent
<1> QED
  BY <1>1, <1>3, IdleStep, ReadStep

LEMMA StreakUpdateSerial ==
  ASSUME SerialInv, OneAtATime, IInv', NEW h \in Handlers, StreakUpdate(h)
  PROVE  Shape /\ SerialInv'
<1>1. /\ RequestCurrent(req[h]) /\ req[h].pc = "streakUpdate"
      /\ balance \in [Users -> Nat] /\ Become(h, Idle) /\ UNCHANGED <<duels, players>>
  BY DEF SerialInv, IInv, TypeOK, StreakUpdate
<1>2. req[h].balance = balance[req[h].user]
  BY <1>1 DEF RequestCurrent
<1>3. balance' = [balance EXCEPT ![req[h].user] = NonZero(req[h].balance, @)]
  BY DEF StreakUpdate
<1>4. balance' = balance
  BY <1>1, <1>2, <1>3 DEF NonZero
<1> QED
  BY <1>1, <1>4, IdleStep

-----------------------------------------------------------------------------
(* Steps that write *)

\* what Generic.Update leaves in the columns
LEMMA UpdateFields ==
  ASSUME NEW row \in DuelRow, NEW model \in DuelRow
  PROVE  /\ Update(row, model).owner = row.owner
         /\ Update(row, model).status = NonZero(model.status, row.status)
         /\ Update(row, model).playersCount = NonZero(model.playersCount, row.playersCount)
         /\ Update(row, model).winnersCount = NonZero(model.winnersCount, row.winnersCount)
         /\ Update(row, model).refundedPlayersCount
              = NonZero(model.refundedPlayersCount, row.refundedPlayersCount)
         /\ Update(row, model).finalResult
              = IF model.finalResult # NoResult THEN model.finalResult ELSE row.finalResult
BY Zenon DEF Update, DuelRow

\* writing one duel leaves the others
LEMMA OneDuelWritten ==
  ASSUME TypeOK, NEW d \in Duels, NEW row, NEW rows,
         duels' = [duels EXCEPT ![d] = row], players' = [players EXCEPT ![d] = rows],
         \A e \in Duels : ~Cancelling(e)
  PROVE  OthersSame(d) /\ duels'[d] = row /\ players'[d] = rows
<1>1. /\ duels'[d] = row /\ players'[d] = rows
      /\ \A e \in Duels \ {d} : duels'[e] = duels[e] /\ players'[e] = players[e]
  BY DEF TypeOK
<1> QED
  BY <1>1 DEF OthersSame, SameDuel

\* a batch that is empty stays current
LEMMA NoBatchCurrent ==
  ASSUME NEW h \in Handlers, SerialInv, req[h].pc = "idle", UNCHANGED req
  PROVE  RequestCurrent(req[h])'
<1>1. RequestCurrent(req[h])
  BY DEF SerialInv
<1> QED
  BY <1>1 DEF RequestCurrent

\* Creating: a duel that was none has one seat.
LEMMA OpenDuelShape ==
  ASSUME SerialInv, OneAtATime, NEW h \in Handlers, req[h].pc = "idle",
         NEW u \in Users, NEW d \in Duels, NEW row \in DuelRow, NEW seat \in PlayerRow,
         NEW charge, OpenDuel(d, row, seat, charge),
         row.owner = u, seat.user = u, seat.finalStatus = PlayerActive, seat.winAmount = 0,
         row.status \in Live, row.playersCount = 0, row.winnersCount = 0,
         row.refundedPlayersCount = 0, row.finalResult = NoResult,
         charge = IF seat.charged THEN DuelPrice ELSE 0
  PROVE  Shape
<1>1. \A e \in Duels : ~Cancelling(e)
  BY NotCancelling
<1>2. /\ duels' = [duels EXCEPT ![d] = SeatTaken(row, row)]
      /\ players' = [players EXCEPT ![d] = Append(players[d], seat)]
      /\ balance' = [balance EXCEPT ![seat.user] = @ - (IF seat.charged THEN DuelPrice ELSE 0)]
      /\ duels[d].status = NoStatus
  BY DEF OpenDuel
<1>3. /\ OthersSame(d) /\ duels'[d] = SeatTaken(row, row)
      /\ players'[d] = Append(players[d], seat)
  BY <1>1, <1>2, OneDuelWritten, Zenon DEF SerialInv, IInv
<1>4. /\ SeatTaken(row, row).owner = u /\ SeatTaken(row, row).status = row.status
      /\ SeatTaken(row, row).playersCount = 1 /\ SeatTaken(row, row).winnersCount = 0
      /\ SeatTaken(row, row).refundedPlayersCount = 0
      /\ SeatTaken(row, row).finalResult = NoResult
  BY DEF SeatTaken, DuelRow
<1>5. players[d] = <<>> /\ duels[d].playersCount = 0
  BY <1>2 DEF SerialInv, DuelCurrent
<1>6. seat.user \notin UsersOf(d, Rows(d))
  BY <1>5 DEF UsersOf, Rows
<1>7. SeatAdded(d, seat)
  BY <1>1, <1>2, <1>3, <1>4, <1>5, <1>6 DEF SeatAdded
<1> QED
  BY <1>7 DEF Shape

LEMMA CreatesSerial ==
  ASSUME SerialInv, OneAtATime, IInv', NEW h \in Handlers, NEW u \in Users, NEW d \in Duels,
         NEW crypto \in BOOLEAN, NEW s \in Schedules, NEW answer \in Answers,
         \/ CreateNewDuel(h, u, d, crypto, s, answer)
         \/ CreateNewDuelAdmin(h, u, d, crypto, s, answer)
  PROVE  Shape /\ SerialInv'
<1> DEFINE seat == Seat(u, answer, now, TRUE)
           one  == DuelByCreateReq(u, crypto, s)
           two  == DuelByCreateReqAdmin(u, crypto, s)
<1>1. req[h].pc = "idle"
  BY DEF CreateNewDuel, CreateNewDuelAdmin, Arrives
<1>2. now \in Nat
  BY DEF SerialInv, IInv, TypeOK
<1>3. seat \in PlayerRow /\ one \in DuelRow /\ two \in DuelRow
  BY <1>2, SeatType, CreateReqType
<1>4. /\ seat.user = u /\ seat.finalStatus = PlayerActive /\ seat.charged = TRUE
      /\ seat.winAmount = 0
  BY DEF Seat
<1>5. /\ one.owner = u /\ one.status \in Live /\ one.playersCount = 0
      /\ one.winnersCount = 0 /\ one.refundedPlayersCount = 0 /\ one.finalResult = NoResult
      /\ two.owner = u /\ two.status \in Live /\ two.playersCount = 0
      /\ two.winnersCount = 0 /\ two.refundedPlayersCount = 0 /\ two.finalResult = NoResult
  BY DEF DuelByCreateReq, DuelByCreateReqAdmin, NoDuel, Live
<1> HIDE DEF seat, one, two
<1>6. CASE CreateNewDuel(h, u, d, crypto, s, answer)
  <2> DEFINE r == [Idle EXCEPT !.pc = "streak", !.user = u]
  <2>1. OpenDuel(d, one, seat, DuelPrice) /\ Become(h, r)
    BY <1>6, Zenon DEF CreateNewDuel, one, seat
  <2>2. Shape
    BY <1>1, <1>3, <1>4, <1>5, <2>1, OpenDuelShape
  <2>3. r.pc = "streak" /\ r.batch = {}
    BY DEF Idle
  <2>4. req'[h] = r
    BY <2>1, BecomeValue DEF SerialInv, IInv
  <2> HIDE DEF r
  <2>5. RequestCurrent(req[h])'
    BY <2>3, <2>4 DEF RequestCurrent
  <2> QED
    BY <2>2, <2>5, StepKeepsSerialInv
<1>7. CASE CreateNewDuelAdmin(h, u, d, crypto, s, answer)
  <2>1. OpenDuel(d, two, seat, DuelPrice) /\ UNCHANGED req
    BY <1>7, Zenon DEF CreateNewDuelAdmin, two, seat
  <2>2. Shape
    BY <1>1, <1>3, <1>4, <1>5, <2>1, OpenDuelShape
  <2> QED
    BY <1>1, <2>1, <2>2, NoBatchCurrent, StepKeepsSerialInv
<1> QED
  BY <1>6, <1>7

LEMMA CreateWithJoinSerial ==
  ASSUME SerialInv, OneAtATime, IInv', NEW h \in Handlers, NEW d \in Duels,
         NEW s \in Schedules, NEW answer \in Answers, CreateDuelsWithJoin(h, d, s, answer)
  PROVE  Shape /\ SerialInv'
<1> DEFINE seat == Seat(House, answer, now, FALSE)
           row  == DuelByCreateReqAdmin(House, TRUE, s)
<1>1. req[h].pc = "idle" /\ UNCHANGED req /\ OpenDuel(d, row, seat, 0)
  BY Zenon DEF CreateDuelsWithJoin, Arrives
<1>2. now \in Nat /\ House \in Users
  BY UsersAssumption DEF SerialInv, IInv, TypeOK
<1>3. seat \in PlayerRow /\ row \in DuelRow
  BY <1>2, SeatType, CreateReqType
<1>4. /\ seat.user = House /\ seat.finalStatus = PlayerActive /\ seat.charged = FALSE
      /\ seat.winAmount = 0
  BY DEF Seat
<1>5. /\ row.owner = House /\ row.status \in Live /\ row.playersCount = 0
      /\ row.winnersCount = 0 /\ row.refundedPlayersCount = 0 /\ row.finalResult = NoResult
  BY DEF DuelByCreateReq, DuelByCreateReqAdmin, NoDuel, Live
<1> HIDE DEF seat, row
<1>6. Shape
  BY <1>1, <1>2, <1>3, <1>4, <1>5, OpenDuelShape
<1> QED
  BY <1>1, <1>6, NoBatchCurrent, StepKeepsSerialInv

LEMMA JoinCommitSerial ==
  ASSUME SerialInv, OneAtATime, IInv', NEW h \in Handlers, JoinCommit(h)
  PROVE  Shape /\ SerialInv'
<1> DEFINE q == req[h]
           r == [Idle EXCEPT !.pc = "streak", !.user = q.user]
<1>1. q.pc = "join" /\ Become(h, r)
  BY Zenon DEF JoinCommit
<1>2. /\ TypeOK /\ RequestOK(q) /\ q \in Request /\ RequestCurrent(q)
  BY DEF SerialInv, IInv, TypeOK
<1>3. q.user \in Users /\ q.duel \in Duels /\ q.answer \in Answers /\ q.since \in Nat
  BY <1>1, <1>2 DEF RequestOK, Request
<1>4. PICK at \in q.since..now :
        players' = [players EXCEPT ![q.duel] = Append(@, Seat(q.user, q.answer, at, TRUE))]
  BY DEF JoinCommit
<1> DEFINE seat == Seat(q.user, q.answer, at, TRUE)
           row == SeatTaken(duels[q.duel], q.snap)
<1>5. at \in Nat
  BY <1>2, <1>3, <1>4 DEF TypeOK
<1>6. seat \in PlayerRow
  BY <1>3, <1>5, SeatType
<1>7. /\ seat.user = q.user /\ seat.finalStatus = PlayerActive /\ seat.winAmount = 0
      /\ seat.charged = TRUE
  BY DEF Seat
<1>8. /\ duels' = [duels EXCEPT ![q.duel] = row]
      /\ players' = [players EXCEPT ![q.duel] = Append(players[q.duel], seat)]
      /\ balance' = [balance EXCEPT ![q.user] = @ - DuelPrice]
  BY <1>4 DEF JoinCommit
<1>9. \A e \in Duels : ~Cancelling(e)
  BY <1>1, NotCancelling
<1> HIDE DEF seat, q, r
<1>10. /\ duels[q.duel].status \in Live /\ q.snap = duels[q.duel]
       /\ q.user \notin UsersOf(q.duel, Rows(q.duel))
  BY <1>1, <1>2 DEF RequestCurrent
<1>11. duels[q.duel] \in DuelRow /\ DuelCurrent(q.duel)
  BY <1>3, DuelFacts DEF SerialInv
<1>12. /\ row.owner = duels[q.duel].owner /\ row.status = duels[q.duel].status
       /\ row.playersCount = duels[q.duel].playersCount + 1
       /\ row.winnersCount = duels[q.duel].winnersCount
       /\ row.refundedPlayersCount = duels[q.duel].refundedPlayersCount
       /\ row.finalResult = duels[q.duel].finalResult
  BY <1>10, <1>11 DEF SeatTaken, DuelRow
<1>13. duels[q.duel].winnersCount = 0 /\ duels[q.duel].refundedPlayersCount = 0
       /\ duels[q.duel].finalResult = NoResult
  BY <1>10, <1>11, StatusesDiffer DEF DuelCurrent
<1> HIDE DEF row
<1>14. OthersSame(q.duel) /\ duels'[q.duel] = row
       /\ players'[q.duel] = Append(players[q.duel], seat)
  BY <1>2, <1>3, <1>8, <1>9, OneDuelWritten, Zenon
<1>15. SeatAdded(q.duel, seat)
  BY <1>3, <1>6, <1>7, <1>8, <1>9, <1>10, <1>12, <1>13, <1>14 DEF SeatAdded
<1>16. Shape
  BY <1>3, <1>6, <1>15 DEF Shape
<1>17. RequestCurrent(req[h])'
  <2>1. r.pc = "streak" /\ r.batch = {}
    BY DEF Idle, r
  <2>2. req'[h] = r
    BY <1>1, <1>2, BecomeValue
  <2> QED
    BY <2>1, <2>2 DEF RequestCurrent
<1> QED
  BY <1>16, <1>17, StepKeepsSerialInv

\* an approval and new dates leave the counts as they are
LEMMA QuietWrite ==
  ASSUME TypeOK, NEW d \in Duels, NEW row, duels' = [duels EXCEPT ![d] = row],
         UNCHANGED <<players, balance>>, \A e \in Duels : ~Cancelling(e),
         row.owner = duels[d].owner, row.playersCount = duels[d].playersCount,
         row.winnersCount = duels[d].winnersCount,
         row.refundedPlayersCount = duels[d].refundedPlayersCount,
         row.finalResult = duels[d].finalResult,
         \/ row.status = duels[d].status
         \/ duels[d].status = InReview /\ row.status = InProcess
  PROVE  Shape
<1>1. \A e \in Duels : duels'[e] = IF e = d THEN row ELSE duels[e]
  BY DEF TypeOK
<1>2. ASSUME NEW e \in Duels
      PROVE  /\ SameCounts(e)
             /\ \/ duels'[e].status = duels[e].status
                \/ duels[e].status = InReview /\ duels'[e].status = InProcess
  <2>1. CASE e = d
    BY <1>1, <2>1 DEF SameCounts
  <2>2. CASE e # d
    BY <1>1, <2>2 DEF SameCounts
  <2> QED
    BY <2>1, <2>2
<1>3. Quiet
  BY <1>2 DEF Quiet
<1> QED
  BY <1>3 DEF Shape

LEMMA ApproveUpdateSerial ==
  ASSUME SerialInv, OneAtATime, IInv', NEW h \in Handlers, ApproveUpdate(h)
  PROVE  Shape /\ SerialInv'
<1> DEFINE q == req[h]
           model == [q.snap EXCEPT !.status = InProcess]
           row == Update(duels[q.duel], model)
<1>1. /\ q.pc = "approve" /\ Become(h, Idle) /\ UNCHANGED <<players, balance>>
      /\ duels' = [duels EXCEPT ![q.duel] = row]
  BY DEF ApproveUpdate
<1>2. /\ TypeOK /\ RequestOK(q) /\ q \in Request /\ RequestCurrent(q)
  BY DEF SerialInv, IInv, TypeOK
<1> HIDE DEF q
<1>3. q.duel \in Duels /\ q.snap = duels[q.duel] /\ duels[q.duel].status = InReview
  BY <1>1, <1>2 DEF RequestOK, RequestCurrent
<1>4. duels[q.duel] \in DuelRow
  BY <1>3, DuelFacts DEF SerialInv
<1>5. /\ model \in DuelRow /\ model.status = InProcess
      /\ model.playersCount = duels[q.duel].playersCount
      /\ model.winnersCount = duels[q.duel].winnersCount
      /\ model.refundedPlayersCount = duels[q.duel].refundedPlayersCount
      /\ model.finalResult = duels[q.duel].finalResult
  BY <1>3, <1>4, StatusesDiffer DEF DuelRow, Live
<1> HIDE DEF model
<1>6. /\ row.owner = duels[q.duel].owner
      /\ row.status = InProcess
      /\ row.playersCount = duels[q.duel].playersCount
      /\ row.winnersCount = duels[q.duel].winnersCount
      /\ row.refundedPlayersCount = duels[q.duel].refundedPlayersCount
      /\ row.finalResult = duels[q.duel].finalResult
  <2>1. InProcess # 0
    BY DEF InProcess
  <2> QED
    BY <1>4, <1>5, <2>1, UpdateFields DEF NonZero
<1> HIDE DEF row
<1>7. \A e \in Duels : ~Cancelling(e)
  BY <1>1, NotCancelling DEF q
<1>8. Shape
  BY <1>1, <1>2, <1>3, <1>6, <1>7, QuietWrite
<1>9. RequestCurrent(req[h])'
  BY <1>1, <1>2, BecomeValue, IdleCurrent
<1> QED
  BY <1>8, <1>9, StepKeepsSerialInv

LEMMA EditDuelSerial ==
  ASSUME SerialInv, OneAtATime, IInv', NEW h \in Handlers, NEW d \in Duels,
         NEW s \in Schedules, EditDuel(h, d, s)
  PROVE  Shape /\ SerialInv'
<1> DEFINE model == [NoDuel EXCEPT !.deadline = s.deadline, !.eventDate = s.eventDate]
           row == Update(duels[d], model)
<1>1. /\ req[h].pc = "idle" /\ UNCHANGED <<players, balance, req>>
      /\ duels' = [duels EXCEPT ![d] = row]
  BY DEF EditDuel, Arrives
<1>2. TypeOK /\ duels[d] \in DuelRow
  BY DuelFacts DEF SerialInv, IInv
<1>3. s.deadline \in Nat /\ s.eventDate \in Nat
  BY TimeAssumption
<1>4. model \in DuelRow
  BY <1>3, NoDuelType DEF DuelRow
<1>5. /\ model.status = 0 /\ model.playersCount = 0 /\ model.winnersCount = 0
      /\ model.refundedPlayersCount = 0 /\ model.finalResult = NoResult
  BY DEF NoDuel, NoStatus
<1> HIDE DEF model
<1>6. /\ row.owner = duels[d].owner
      /\ row.status = duels[d].status
      /\ row.playersCount = duels[d].playersCount
      /\ row.winnersCount = duels[d].winnersCount
      /\ row.refundedPlayersCount = duels[d].refundedPlayersCount
      /\ row.finalResult = duels[d].finalResult
  BY <1>2, <1>4, <1>5, UpdateFields DEF NonZero
<1> HIDE DEF row
<1>7. \A e \in Duels : ~Cancelling(e)
  BY <1>1, NotCancelling
<1>8. Shape
  BY <1>1, <1>2, <1>6, <1>7, QuietWrite
<1> QED
  BY <1>1, <1>8, NoBatchCurrent, StepKeepsSerialInv

\* The statuses a cancellation writes outside its transaction.
LEMMA CancelRefundsSerial ==
  ASSUME SerialInv, OneAtATime, IInv', NEW h \in Handlers, CancelRefunds(h)
  PROVE  Shape /\ SerialInv'
<1> DEFINE q == req[h]
<1>0. PICK d, rows, r :
        /\ d = q.duel
        /\ rows = SetStatus(players[d], DOMAIN players[d], PlayerRefunded)
        /\ r = [q EXCEPT !.pc = "cancelCommit", !.seated = UsersOf(d, Rows(d))]
  OBVIOUS
<1>1. /\ q.pc = "cancel" /\ Become(h, r) /\ UNCHANGED <<duels, balance>>
      /\ players' = [players EXCEPT ![d] = rows]
  BY <1>0, Zenon DEF CancelRefunds
<1>2. /\ TypeOK /\ RequestOK(q) /\ q \in Request /\ RequestCurrent(q)
  BY DEF SerialInv, IInv, TypeOK
<1>3. \A e \in Duels : ~Cancelling(e)
  BY <1>1, NotCancelling
<1> HIDE DEF q
<1>4. /\ d \in Duels /\ duels[d].status \in Live /\ q.snap = duels[d] /\ q.target \in Cancelled
      /\ \A e \in q.batch : e.duel # d
  BY <1>0, <1>1, <1>2 DEF RequestOK, RequestCurrent
<1>5. /\ r.pc = "cancelCommit" /\ r.duel = d /\ r.snap = q.snap /\ r.target = q.target
      /\ r.batch = q.batch /\ r.job = q.job /\ r.seated = UsersOf(d, Rows(d))
  BY <1>0, <1>2 DEF Request
<1>6. req'[h] = r
  BY <1>1, <1>2, BecomeValue
<1>7. OthersSame(d) /\ players'[d] = rows
  <2>1. duels' = [duels EXCEPT ![d] = duels[d]]
    BY <1>1, <1>2 DEF TypeOK
  <2> QED
    BY <1>1, <1>2, <1>3, <1>4, <2>1, OneDuelWritten
<1>8. Cancelling(d)'
  BY <1>5, <1>6 DEF Cancelling
<1> HIDE DEF Cancelling
<1>9. Marked(d)
  BY <1>0, <1>1, <1>4, <1>7, <1>8 DEF Marked
<1>10. Shape
  BY <1>4, <1>9 DEF Shape
<1>11. UsersOf(d, Rows(d))' = UsersOf(d, Rows(d))
  <2>1. \A i \in Rows(d) : players[d][i] \in PlayerRow
    BY <1>2, <1>4, RowsOf
  <2>2. DOMAIN rows = Rows(d) /\ \A i \in Rows(d) : rows[i].user = players[d][i].user
    BY <1>0, <2>1 DEF SetStatus, Rows, PlayerRow
  <2> QED
    BY <1>7, <2>2 DEF UsersOf, Rows
<1>12. RequestCurrent(q)
  BY <1>2
<1>13. RequestCurrent(r)'
  BY <1>1, <1>4, <1>5, <1>11, <1>12 DEF RequestCurrent
<1> QED
  BY <1>6, <1>10, <1>13, StepKeepsSerialInv

\* The stakes and the status: the transaction of cancelDuel.
LEMMA CancelCommitSerial ==
  ASSUME SerialInv, OneAtATime, IInv', NEW h \in Handlers, CancelCommit(h)
  PROVE  Shape /\ SerialInv'
<1> DEFINE q == req[h]
           d == q.duel
           model == [q.snap EXCEPT !.status = q.target]
           row == Update(duels[d], model)
<1>1. /\ q.pc = "cancelCommit" /\ Finish(h) /\ UNCHANGED players
      /\ balance' = Credit(balance, q.seated, DuelPrice)
      /\ duels' = [duels EXCEPT ![d] = row]
  BY DEF CancelCommit
<1>2. /\ TypeOK /\ RequestOK(q) /\ q \in Request /\ RequestCurrent(q)
  BY DEF SerialInv, IInv, TypeOK
<1>3. \A e \in Duels \ {d} : ~Cancelling(e)
  BY DEF OneAtATime, Cancelling
<1> HIDE DEF q
<1>4. /\ d \in Duels /\ duels[d].status \in Live /\ q.snap = duels[d] /\ q.target \in Cancelled
      /\ q.seated = UsersOf(d, Rows(d)) /\ \A e \in q.batch : e.duel # d
  BY <1>1, <1>2 DEF RequestOK, RequestCurrent
<1>5. duels[d] \in DuelRow
  BY <1>4, DuelFacts DEF SerialInv
<1>6. /\ model \in DuelRow /\ model.status = q.target
      /\ model.playersCount = duels[d].playersCount
      /\ model.winnersCount = duels[d].winnersCount
      /\ model.refundedPlayersCount = duels[d].refundedPlayersCount
      /\ model.finalResult = duels[d].finalResult
  BY <1>4, <1>5, StatusesDiffer DEF DuelRow
<1> HIDE DEF model
<1>7. /\ row.owner = duels[d].owner
      /\ row.status = q.target
      /\ row.playersCount = duels[d].playersCount
      /\ row.winnersCount = duels[d].winnersCount
      /\ row.refundedPlayersCount = duels[d].refundedPlayersCount
      /\ row.finalResult = duels[d].finalResult
  <2>1. q.target # 0
    BY <1>4, StatusesDiffer DEF NoStatus
  <2> QED
    BY <1>5, <1>6, <2>1, UpdateFields DEF NonZero
<1> HIDE DEF row
<1>8. /\ duels'[d] = row /\ players'[d] = players[d]
      /\ \A e \in Duels \ {d} : duels'[e] = duels[e] /\ players'[e] = players[e]
  BY <1>1, <1>2, <1>4 DEF TypeOK
<1>9. Returned(d)
  BY <1>1, <1>3, <1>4, <1>7, <1>8 DEF Returned, OthersSame, SameDuel, SameCounts
<1>10. Shape
  BY <1>4, <1>9 DEF Shape
<1>11. \A e \in q.batch : duels'[e.duel] = duels[e.duel]
  <2>1. q.batch \subseteq Batch
    BY <1>2 DEF Request
  <2> QED
    BY <1>4, <1>8, <2>1 DEF Batch
<1>12. RequestCurrent(req[h])'
  BY <1>1, <1>11, FinishCurrent DEF q
<1> QED
  BY <1>10, <1>12, StepKeepsSerialInv

-----------------------------------------------------------------------------
(* The settlement *)

\* with one seat a user, seats and their users are equally many
LEMMA UsersOfSeats ==
  ASSUME IInv, NEW d \in Duels, OneSeat(d), NEW S \in SUBSET Rows(d)
  PROVE  /\ IsFiniteSet(UsersOf(d, S)) /\ UsersOf(d, S) \in SUBSET Users
         /\ Cardinality(UsersOf(d, S)) = Cardinality(S)
<1>1. IsFiniteSet(S) /\ UsersOf(d, S) \in SUBSET Users
  BY RowSetsFinite
<1> DEFINE f == [i \in S |-> players[d][i].user]
<1>2. f \in [S -> UsersOf(d, S)]
  BY DEF UsersOf
<1>3. \A i, j \in S : f[i] = f[j] => i = j
  BY DEF OneSeat
<1>4. \A u \in UsersOf(d, S) : \E i \in S : f[i] = u
  BY DEF UsersOf
<1> HIDE DEF f
<1>5. f \in Bijection(S, UsersOf(d, S))
  BY <1>2, <1>3, <1>4 DEF Bijection, Injection, Surjection, IsInjective
<1>6. ExistsBijection(S, UsersOf(d, S))
  BY <1>5 DEF ExistsBijection
<1> QED
  BY <1>1, <1>6, FS_Bijection

\* rows are counted as they are numbered
LEMMA RowsCounted ==
  ASSUME IInv, NEW d \in Duels
  PROVE  Len(players[d]) = Cardinality(Rows(d)) /\ Len(players[d]) \in Nat
<1>1. Len(players[d]) \in Nat /\ Rows(d) = 1..Len(players[d])
  BY RowsOf DEF IInv
<1> QED
  BY <1>1, FS_Interval

\* a duel has no more seats than there are users: the count does not wrap
LEMMA SeatsAreFew ==
  ASSUME IInv, FewUsers, NEW d \in Duels, OneSeat(d)
  PROVE  Len(players[d]) = Cardinality(Rows(d)) /\ Len(players[d]) \in 0..(CountModulus - 1)
<1>1. Len(players[d]) \in Nat /\ Rows(d) = 1..Len(players[d])
  BY RowsOf DEF IInv
<1>2. Cardinality(Rows(d)) = Len(players[d])
  BY <1>1, FS_Interval
<1>3. /\ Cardinality(UsersOf(d, Rows(d))) = Cardinality(Rows(d))
      /\ UsersOf(d, Rows(d)) \in SUBSET Users
  BY UsersOfSeats
<1>4. Cardinality(UsersOf(d, Rows(d))) <= Cardinality(Users) /\ Cardinality(Users) \in Nat
  BY <1>3, FS_Subset, FS_CardinalityType DEF FewUsers
<1>5. CountModulus \in Nat
  BY AmountsAssumption
<1> QED
  BY <1>1, <1>2, <1>3, <1>4, <1>5 DEF FewUsers

\* winners, losers and latecomers are everybody, each once
LEMMA KindsOfRows ==
  ASSUME IInv, NEW d \in Duels, NEW answer \in Answers, NEW cutoff \in Int
  PROVE  LET W == WinnersOf(d, answer, cutoff)
             V == LosersOf(d, answer, cutoff)
             L == LateRows(d, cutoff)
         IN  /\ W \cup V \cup L = Rows(d)
             /\ W \cap V = {} /\ W \cap L = {} /\ V \cap L = {}
             /\ IsFiniteSet(W) /\ IsFiniteSet(V) /\ IsFiniteSet(L)
             /\ Cardinality(W) \in Nat /\ Cardinality(V) \in Nat /\ Cardinality(L) \in Nat
             /\ Cardinality(Rows(d)) = Cardinality(W) + Cardinality(V) + Cardinality(L)
<1> DEFINE W == WinnersOf(d, answer, cutoff)
           V == LosersOf(d, answer, cutoff)
           L == LateRows(d, cutoff)
<1>1. W \in SUBSET Rows(d) /\ V \in SUBSET Rows(d) /\ L \in SUBSET Rows(d)
  BY DEF WinnersOf, LosersOf, GetDuelWinners, LateRows
<1>2. \A i \in Rows(d) : players[d][i].answer \in Answers /\ players[d][i].createdAt \in Nat
  BY RowsOf DEF IInv, PlayerRow
<1>3. W \cup V \cup L = Rows(d)
  BY <1>2 DEF WinnersOf, LosersOf, GetDuelWinners, LateRows, Answers
<1>4. W \cap V = {} /\ W \cap L = {} /\ V \cap L = {}
  BY <1>2 DEF WinnersOf, LosersOf, GetDuelWinners, LateRows, Answers
<1>5. IsFiniteSet(W) /\ IsFiniteSet(V) /\ IsFiniteSet(L)
  BY <1>1, RowSetsFinite
<1> HIDE DEF W, V, L
<1>6. Cardinality(W) \in Nat /\ Cardinality(V) \in Nat /\ Cardinality(L) \in Nat
  BY <1>5, FS_CardinalityType
<1>7. IsFiniteSet(W \cup V) /\ Cardinality(W \cup V) = Cardinality(W) + Cardinality(V)
  BY <1>4, <1>5, DisjointUnion
<1>8. (W \cup V) \cap L = {}
  BY <1>4
<1>9. Cardinality((W \cup V) \cup L) = Cardinality(W \cup V) + Cardinality(L)
  BY <1>5, <1>7, <1>8, DisjointUnion
<1> QED
  BY <1>3, <1>4, <1>5, <1>6, <1>7, <1>9 DEF W, V, L

\* What a settlement has read is enough to know what it pays: the pool is the
\* stakes of winners and losers, and there are some of each.
LEMMA SettleFacts ==
  ASSUME SerialInv, FewUsers, OneAtATime, NEW h \in Handlers, req[h].pc = "settle",
         NEW d, NEW answer, NEW cutoff,
         d = req[h].duel, answer = req[h].answer, cutoff = req[h].cutoff
  PROVE  /\ d \in Duels /\ answer \in Answers /\ cutoff \in Int
         /\ duels[d].status = InProcess /\ req[h].snap = duels[d]
         /\ req[h].winners = WinnersOf(d, answer, cutoff)
         /\ req[h].refunds = Cardinality(LateRows(d, cutoff))
         /\ WinnersOf(d, answer, cutoff) # {} /\ LosersOf(d, answer, cutoff) # {}
         /\ WinAmount(req[h]) = AmountOf(d, answer, cutoff)
         /\ OwnerReward(req[h]) = OwnerPart(d, answer, cutoff)
<1> DEFINE q == req[h]
           W == WinnersOf(d, answer, cutoff)
           V == LosersOf(d, answer, cutoff)
           L == LateRows(d, cutoff)
<1>1. RequestOK(q) /\ q \in Request /\ RequestCurrent(q) /\ IInv /\ q.pc = "settle"
  BY DEF SerialInv, IInv, TypeOK
<1>2. d \in Duels /\ answer \in Answers /\ cutoff \in Int
  BY <1>1 DEF RequestOK, Request
<1>3. \A e \in Duels : ~Cancelling(e)
  BY NotCancelling
<1> HIDE DEF q
<1>4. /\ duels[d].status = InProcess /\ q.snap = duels[d]
      /\ q.winners = GetDuelWinners(d, answer, cutoff)
      /\ q.refunds = CountDuelPlayersToRefund(d, cutoff) /\ ~Degenerate(q, q.refunds)
  BY <1>1 DEF RequestCurrent, q
<1>5. DuelCurrent(d)
  BY <1>2 DEF SerialInv
<1>6. \A i \in Rows(d) : players[d][i].finalStatus = PlayerActive
  BY <1>2, <1>3, <1>4, <1>5, StatusesDiffer DEF DuelCurrent
<1>7. q.refunds = Cardinality(L)
  <2>1. {i \in L : players[d][i].finalStatus = PlayerActive} = L
    BY <1>6 DEF LateRows
  <2> HIDE DEF L
  <2> QED
    BY <1>4, <2>1, Zenon DEF CountDuelPlayersToRefund, L
<1>8. q.winners = W
  BY <1>4 DEF WinnersOf
<1> HIDE DEF W, V, L
<1>9. /\ Cardinality(W) \in Nat /\ Cardinality(V) \in Nat /\ Cardinality(L) \in Nat
      /\ Cardinality(Rows(d)) = Cardinality(W) + Cardinality(V) + Cardinality(L)
      /\ IsFiniteSet(W) /\ IsFiniteSet(V)
  BY <1>1, <1>2, KindsOfRows DEF W, V, L
<1>10. /\ duels[d].playersCount = Cardinality(W) + Cardinality(V) + Cardinality(L)
       /\ duels[d].playersCount < CountModulus
  <2>1. Len(players[d]) = Cardinality(Rows(d)) /\ Len(players[d]) \in 0..(CountModulus - 1)
    BY <1>1, <1>2, <1>5, SeatsAreFew DEF DuelCurrent
  <2>2. duels[d].playersCount = Len(players[d])
    BY <1>5 DEF DuelCurrent
  <2>3. CountModulus \in Nat
    BY AmountsAssumption
  <2> QED
    BY <1>9, <2>1, <2>2, <2>3
<1>11. PoolOf(q, q.refunds) = Cardinality(W) + Cardinality(V)
  <2>1. CountModulus \in Nat \ {0}
    BY AmountsAssumption
  <2>2. ASSUME NEW n \in Nat, NEW m \in Nat \ {0}, n < m
        PROVE  n % m = n
    BY <2>2, SMT
  <2>3. duels[d].playersCount - Cardinality(L) = Cardinality(W) + Cardinality(V)
    BY <1>9, <1>10
  <2>4. Cardinality(W) + Cardinality(V) \in Nat
        /\ Cardinality(W) + Cardinality(V) < CountModulus
    BY <1>9, <1>10, <2>1
  <2>5. (Cardinality(W) + Cardinality(V)) % CountModulus = Cardinality(W) + Cardinality(V)
    BY <2>1, <2>2, <2>4
  <2>6. PoolOf(q, q.refunds) = (duels[d].playersCount - Cardinality(L)) % CountModulus
    BY <1>4, <1>7 DEF PoolOf, PlayersPool
  <2> QED
    BY <2>3, <2>5, <2>6
<1>12. W # {} /\ V # {}
  <2>1. Cardinality(W) # 0 /\ Cardinality(W) + Cardinality(V) # Cardinality(W)
    BY <1>4, <1>8, <1>11 DEF Degenerate
  <2>2. Cardinality(V) # 0
    BY <1>9, <2>1
  <2> QED
    BY <1>9, <2>1, <2>2, FS_EmptySet
<1>13. WinAmount(q) = AmountOf(d, answer, cutoff) /\ OwnerReward(q) = OwnerPart(d, answer, cutoff)
  <2>1. PlayedPool(d, answer, cutoff) = Pool(DuelPrice, PoolOf(q, q.refunds))
    BY <1>11, Zenon DEF PlayedPool, W, V
  <2>2. WinAmount(q) = AmountOf(d, answer, cutoff)
    BY <1>8, <2>1, Zenon DEF WinAmount, AmountOf, W
  <2>3. OwnerReward(q) = OwnerPart(d, answer, cutoff)
    BY <2>1, Zenon DEF OwnerReward, OwnerPart
  <2> QED
    BY <2>2, <2>3
<1> QED
  BY <1>2, <1>4, <1>7, <1>8, <1>12, <1>13 DEF W, V, L, q

LEMMA SettleSerial ==
  ASSUME SerialInv, OneAtATime, FewUsers, IInv', NEW h \in Handlers, Settle(h)
  PROVE  Shape /\ SerialInv'
<1>0. PICK d, answer, cutoff, amount, part, refunds :
        /\ d = req[h].duel /\ answer = req[h].answer /\ cutoff = req[h].cutoff
        /\ amount = WinAmount(req[h]) /\ part = OwnerReward(req[h])
        /\ refunds = req[h].refunds
  OBVIOUS
<1> DEFINE W == WinnersOf(d, answer, cutoff)
           V == LosersOf(d, answer, cutoff)
           L == LateRows(d, cutoff)
<1>1. req[h].pc = "settle" /\ Finish(h)
  BY DEF Settle
<1>2. /\ d \in Duels /\ answer \in Answers /\ cutoff \in Int
      /\ duels[d].status = InProcess /\ req[h].snap = duels[d]
      /\ req[h].winners = W /\ refunds = Cardinality(L)
      /\ W # {} /\ V # {}
      /\ amount = AmountOf(d, answer, cutoff) /\ part = OwnerPart(d, answer, cutoff)
  BY <1>0, <1>1, SettleFacts
<1>3. IInv /\ TypeOK /\ DuelCurrent(d) /\ duels[d] \in DuelRow
  BY <1>2, DuelFacts DEF SerialInv, IInv
<1>4. \A e \in Duels : ~Cancelling(e)
  BY <1>1, NotCancelling
<1>5. amount \in Nat /\ part \in Nat
  <2>1. RequestOK(req[h]) /\ req[h] \in Request
    BY <1>3 DEF IInv, RequestOK
  <2>2. IsFiniteSet(req[h].winners) /\ req[h].winners # {}
    BY <1>1, <2>1 DEF RequestOK
  <2> QED
    BY <1>0, <2>1, <2>2, RewardType
<1>6. Cardinality(L) \in Nat /\ Cardinality(W) \in Nat /\ (Cardinality(L) = 0 <=> L = {})
      /\ W \cap L = {} /\ IsFiniteSet(W) /\ Cardinality(W) # 0
  <2>1. IsFiniteSet(L) /\ IsFiniteSet(W) /\ W \cap L = {}
    BY <1>2, <1>3, KindsOfRows
  <2> HIDE DEF W, L
  <2> QED
    BY <1>2, <2>1, FS_CardinalityType, FS_EmptySet
<1>7. balance' = [u \in Users |-> balance[u] + PaidTo(d, answer, cutoff, u)]
  <2> DEFINE won   == UpdateDuelWinnersBalance(balance, d, answer, amount, cutoff)
             owned == Credit(won, {duels[d].owner}, part)
  <2>1. balance' = IF refunds > 0 THEN PartialDuelRefund(owned, d, cutoff) ELSE owned
    BY <1>0, <1>2, Zenon DEF Settle
  <2>2. \A u \in Users :
           won[u] = balance[u] + (IF u \in UsersOf(d, W) THEN amount ELSE 0)
             + (IF u \in UsersOf(d, V) \cap Premium THEN PremiumPlayersConsolationReward ELSE 0)
    <3>1. /\ balance \in [Users -> Nat] /\ PremiumPlayersConsolationReward \in Nat
      BY <1>3 DEF TypeOK, PremiumPlayersConsolationReward
    <3> HIDE DEF PremiumPlayersConsolationReward
    <3> QED
      BY <1>5, <3>1 DEF UpdateDuelWinnersBalance, Credit, WinnersOf, LosersOf
  <2>3. won \in [Users -> Nat]
    BY <1>3, <1>5, CreditType
       DEF UpdateDuelWinnersBalance, TypeOK, PremiumPlayersConsolationReward
  <2> HIDE DEF won
  <2>4. /\ \A u \in Users : owned[u] = won[u] + (IF u = duels[d].owner THEN part ELSE 0)
        /\ owned \in [Users -> Nat]
    BY <1>5, <2>3 DEF Credit
  <2> HIDE DEF owned
  <2>5. balance' \in [Users -> Int]
        /\ \A u \in Users : balance'[u]
              = owned[u] + (IF u \in UsersOf(d, L) THEN DuelPrice ELSE 0)
    <3>1. DuelPrice \in Nat
      BY AmountsAssumption
    <3>2. CASE refunds > 0
      BY <2>1, <2>4, <3>1, <3>2 DEF PartialDuelRefund, Credit
    <3>3. CASE ~(refunds > 0)
      <4>1. UsersOf(d, L) = {}
        BY <1>2, <1>6, <3>3 DEF UsersOf
      <4> QED
        BY <2>1, <2>4, <3>3, <4>1
    <3> QED
      BY <3>2, <3>3
  <2>6. \A u \in Users : balance'[u] = balance[u] + PaidTo(d, answer, cutoff, u)
    <3>1. DuelPrice \in Nat /\ PremiumPlayersConsolationReward \in Nat
      BY AmountsAssumption DEF PremiumPlayersConsolationReward
    <3>2. balance \in [Users -> Nat]
      BY <1>3 DEF TypeOK
    <3> HIDE DEF W, V, L, PremiumPlayersConsolationReward
    <3> QED
      BY <1>2, <1>5, <2>2, <2>4, <2>5, <3>1, <3>2 DEF PaidTo, W, V, L
  <2> QED
    BY <2>5, <2>6
<1>8. players' = [players EXCEPT ![d] = [i \in Rows(d) |->
          IF i \in W THEN [players[d][i] EXCEPT !.finalStatus = PlayerResolved,
                                                !.winAmount = amount]
          ELSE IF i \in L THEN [players[d][i] EXCEPT !.finalStatus = PlayerRefunded]
          ELSE players[d][i]]]
  <2> DEFINE won(i) == [players[d][i] EXCEPT !.finalStatus = PlayerResolved, !.winAmount = amount]
             mid(i) == IF i \in W THEN won(i) ELSE players[d][i]
             rows == [i \in Rows(d) |-> mid(i)]
             late(i) == [players[d][i] EXCEPT !.finalStatus = PlayerRefunded]
  <2>1. rows = UpdateDuelWinners(players[d], W, amount)
    BY DEF UpdateDuelWinners, Rows
  <2>2. players' = [players EXCEPT ![d] =
                      IF refunds > 0 THEN SetStatus(rows, L, PlayerRefunded) ELSE rows]
    BY <1>0, <1>2, <2>1, Zenon DEF Settle
  <2>3. SetStatus(rows, L, PlayerRefunded)
          = [i \in Rows(d) |-> IF i \in W THEN won(i) ELSE IF i \in L THEN late(i) ELSE players[d][i]]
    <3>1. DOMAIN rows = Rows(d)
      OBVIOUS
    <3>2. \A i \in Rows(d) : i \in L => rows[i] = players[d][i]
      BY <1>6
    <3>3. \A i \in Rows(d) : i \in W => rows[i] = won(i) /\ i \notin L
      BY <1>6
    <3>4. \A i \in Rows(d) : i \notin W => rows[i] = players[d][i]
      OBVIOUS
    <3> HIDE DEF rows, won, W, L
    <3> QED
      BY <3>1, <3>2, <3>3, <3>4, Zenon DEF SetStatus
  <2>4. ~(refunds > 0) =>
          rows = [i \in Rows(d) |-> IF i \in W THEN won(i) ELSE IF i \in L THEN late(i) ELSE players[d][i]]
    <3>1. ~(refunds > 0) => L = {}
      BY <1>2, <1>6
    <3> HIDE DEF W, L, won, late
    <3> QED
      BY <3>1
  <2> HIDE DEF rows
  <2> QED
    BY <2>2, <2>3, <2>4
<1> DEFINE model == [duels[d] EXCEPT !.status = Resolved, !.finalResult = answer,
                                     !.refundedPlayersCount = refunds,
                                     !.winnersCount = Cardinality(W)]
           row == Update(duels[d], model)
<1>9. duels' = [duels EXCEPT ![d] = row]
  BY <1>0, <1>2, Zenon DEF Settle
<1> HIDE DEF W, V, L
<1>10. /\ row.status = Resolved /\ row.finalResult = answer
       /\ row.owner = duels[d].owner /\ row.playersCount = duels[d].playersCount
       /\ row.winnersCount = Cardinality(W)
       /\ row.refundedPlayersCount = Cardinality(L)
  <2>1. duels[d].refundedPlayersCount = 0
    BY <1>2, <1>3, StatusesDiffer DEF DuelCurrent
  <2>2. /\ model \in DuelRow /\ model.status = Resolved /\ model.finalResult = answer
        /\ model.refundedPlayersCount = refunds /\ model.winnersCount = Cardinality(W)
        /\ model.playersCount = duels[d].playersCount
    BY <1>2, <1>3, <1>6, StatusesDiffer DEF DuelRow
  <2>3. Resolved # 0 /\ answer # NoResult
    BY <1>2 DEF Resolved, Answers, NoResult
  <2> HIDE DEF model
  <2> QED
    BY <1>2, <1>3, <1>6, <2>1, <2>2, <2>3, UpdateFields DEF NonZero
<1> HIDE DEF row
<1>11. /\ OthersSame(d) /\ duels'[d] = row
       /\ players'[d] = [i \in Rows(d) |->
            IF i \in W THEN [players[d][i] EXCEPT !.finalStatus = PlayerResolved,
                                                  !.winAmount = amount]
            ELSE IF i \in L THEN [players[d][i] EXCEPT !.finalStatus = PlayerRefunded]
            ELSE players[d][i]]
  BY <1>2, <1>3, <1>4, <1>8, <1>9, OneDuelWritten, Zenon
<1>12. Settled(d, answer, cutoff)
  BY <1>2, <1>4, <1>7, <1>10, <1>11, Zenon DEF Settled, W, V, L
<1>13. Shape
  BY <1>2, <1>12 DEF Shape
<1>14. RequestCurrent(req[h])'
  <2>1. RequestCurrent(req[h]) /\ req[h].batch \subseteq Batch
    BY <1>3 DEF SerialInv, TypeOK, Request
  <2>2. \A e \in req[h].batch : e.duel # d /\ e.duel \in Duels
    BY <1>0, <1>1, <2>1 DEF RequestCurrent, Batch
  <2>3. \A e \in req[h].batch : duels'[e.duel] = duels[e.duel]
    BY <1>11, <2>2 DEF OthersSame, SameDuel
  <2> QED
    BY <1>1, <2>3, FinishCurrent
<1> QED
  BY <1>13, <1>14, StepKeepsSerialInv

-----------------------------------------------------------------------------
(* The invariant *)

LEMMA InitSerialInv == Init => SerialInv
<1>1. SUFFICES ASSUME Init PROVE SerialInv
  OBVIOUS
<1>2. IInv
  BY <1>1, InitIInv
<1>3. \A h \in Handlers : RequestCurrent(req[h])
  <2>1. \A h \in Handlers : req[h] = Idle
    BY <1>1 DEF Init
  <2>2. Idle.pc = "idle" /\ Idle.batch = {}
    BY DEF Idle
  <2> QED
    BY <2>1, <2>2 DEF RequestCurrent
<1>4. ASSUME NEW d \in Duels PROVE DuelCurrent(d)
  <2>1. duels[d] = NoDuel /\ players[d] = <<>>
    BY <1>1 DEF Init
  <2>2. Len(<<>>) = 0 /\ DOMAIN <<>> = {}
    OBVIOUS
  <2> HIDE DEF Cancelling
  <2> QED
    BY <2>1, <2>2 DEF DuelCurrent, OneSeat, Rows, NoDuel
<1> QED
  BY <1>2, <1>3, <1>4 DEF SerialInv

LEMMA ContinueSerial ==
  ASSUME SerialInv, OneAtATime, FewUsers, IInv', NEW h \in Handlers, Continue(h)
  PROVE  Shape /\ SerialInv'
<1>1. CASE JoinCommit(h)
  BY <1>1, JoinCommitSerial
<1>2. CASE JoinRejected(h)
  BY <1>2, IdleStep DEF JoinRejected
<1>3. CASE CompleteDailyStreakTask(h) \/ StreakUpdate(h)
  BY <1>3, StreakReadSerial, StreakUpdateSerial
<1>4. CASE ApproveUpdate(h)
  BY <1>4, ApproveUpdateSerial
<1>5. CASE \E e \in req[h].batch :
              \/ \E answer \in Answers : NextOnEventDate(h, e, answer)
              \/ NextBeforeEventDate(h, e)
              \/ SkipBeforeEventDate(h, e)
              \/ NextAutoCancel(h, e)
  BY <1>5, NextOnEventDateSerial, NextBeforeEventDateSerial, SkipBeforeEventDateSerial,
     NextAutoCancelSerial
<1>6. CASE ReadWinners(h) \/ ReadRefunds(h)
  BY <1>6, ReadWinnersSerial, ReadRefundsSerial
<1>7. CASE Settle(h)
  BY <1>7, SettleSerial
<1>8. CASE SettleOverflow(h)
  BY <1>8, IdleStep DEF SettleOverflow
<1>9. CASE CancelRefunds(h) \/ CancelCommit(h)
  BY <1>9, CancelRefundsSerial, CancelCommitSerial
<1> QED
  BY <1>1, <1>2, <1>3, <1>4, <1>5, <1>6, <1>7, <1>8, <1>9 DEF Continue

LEMMA RequestsSerial ==
  ASSUME SerialInv, OneAtATime, IInv', NEW h \in Handlers,
         UserRequest(h) \/ ModeratorRequest(h) \/ CronRun(h)
  PROVE  Shape /\ SerialInv'
<1>1. CASE UserRequest(h)
  BY <1>1, CreatesSerial, JoinDuelSerial DEF UserRequest
<1>2. CASE ModeratorRequest(h)
  BY <1>2, ApproveDuelSerial, EditDuelSerial, ResolveByAdminSerial, CancelByAdminSerial
     DEF ModeratorRequest
<1>3. CASE CronRun(h)
  BY <1>3, CreateWithJoinSerial, CronListsSerial DEF CronRun
<1> QED
  BY <1>1, <1>2, <1>3

\* Every step has a shape and keeps the invariant.
LEMMA NextSerial ==
  ASSUME SerialInv, OneAtATime, FewUsers, [Next]_vars
  PROVE  Shape /\ SerialInv' /\ IInv'
<1>1. IInv'
  BY NextKeepsIInv DEF SerialInv
<1>2. CASE UNCHANGED vars \/ Tick
  BY <1>1, <1>2, SameRequestStep DEF vars, Tick
<1>3. ASSUME NEW h \in Handlers,
             \/ UserRequest(h) \/ ModeratorRequest(h) \/ CronRun(h)
             \/ Continue(h) \/ CancelFails(h) \/ Abort(h)
      PROVE  Shape /\ SerialInv'
  <2>1. ~CancelFails(h) /\ ~Abort(h)
    BY DEF OneAtATime, CancelFails, Abort
  <2> QED
    BY <1>1, <1>3, <2>1, ContinueSerial, RequestsSerial
<1> QED
  BY <1>1, <1>2, <1>3 DEF Next

\* One request at a time, what a request read is what it uses, and every duel
\* counts its seats and seats nobody twice.
THEOREM SerialInvariant ==
  ASSUME OneAtATime, FewUsers
  PROVE  Spec => []SerialInv
<1>1. Init => SerialInv
  BY InitSerialInv
<1>2. SerialInv /\ [Next]_vars => SerialInv'
  BY NextSerial
<1> QED
  BY <1>1, <1>2, PTL DEF Spec

-----------------------------------------------------------------------------
(* What the books say of one duel, as a function of its rows *)

RowsBy(rows, u) == {i \in DOMAIN rows : rows[i].user = u}

PaidSeatsOf(rows, u) == {i \in DOMAIN rows : rows[i].user = u /\ rows[i].charged}

SeatPaid(row, p, u) ==
    IF row.status \in Cancelled \/ p.finalStatus = PlayerRefunded THEN DuelPrice
    ELSE IF p.finalStatus = PlayerResolved THEN p.winAmount
    ELSE IF u \in Premium THEN PremiumPlayersConsolationReward ELSE 0

OwnerPaid(row, u) ==
    IF row.status = Resolved /\ row.owner = u
      THEN CommissionReward(Pool(DuelPrice, row.playersCount - row.refundedPlayersCount), Commission)
      ELSE 0

CreditsOf(row, rows, u) ==
    IF row.status \notin Terminal THEN 0
    ELSE SumFunction([i \in RowsBy(rows, u) |-> SeatPaid(row, rows[i], u)]) + OwnerPaid(row, u)

StakesOf(rows, u) == DuelPrice * Cardinality(PaidSeatsOf(rows, u))

OneSeatIn(rows) == \A i, j \in DOMAIN rows : rows[i].user = rows[j].user => i = j

LEMMA BooksOfRows ==
  ASSUME NEW d, NEW u
  PROVE  /\ Credits(d, u) = CreditsOf(duels[d], players[d], u)
         /\ Credits(d, u)' = CreditsOf(duels'[d], players'[d], u)
         /\ Stakes(d, u) = StakesOf(players[d], u)
         /\ Stakes(d, u)' = StakesOf(players'[d], u)
BY Zenon DEF Credits, CreditsOf, Stakes, StakesOf, RowsBy, PaidSeatsOf, SeatPaid, OwnerPaid, Rows

LEMMA FiniteRows ==
  ASSUME NEW rows \in Seq(PlayerRow)
  PROVE  IsFiniteSet(DOMAIN rows)
<1>1. Len(rows) \in Nat /\ DOMAIN rows = 1..Len(rows)
  BY LenProperties
<1> QED
  BY <1>1, FS_Interval

\* what a closed duel paid a user: its one seat, if it has one, and the owner's part
LEMMA CreditsCases ==
  ASSUME NEW row \in DuelRow, NEW rows \in Seq(PlayerRow), NEW u \in Users, OneSeatIn(rows)
  PROVE  /\ row.status \notin Terminal => CreditsOf(row, rows, u) = 0
         /\ row.status \in Terminal /\ (\A i \in DOMAIN rows : rows[i].user # u)
              => CreditsOf(row, rows, u) = OwnerPaid(row, u)
         /\ row.status \in Terminal
              => \A i \in DOMAIN rows : rows[i].user = u =>
                    CreditsOf(row, rows, u) = SeatPaid(row, rows[i], u) + OwnerPaid(row, u)
         /\ CreditsOf(row, rows, u) \in Int
         /\ StakesOf(rows, u) \in Int
<1>1. OwnerPaid(row, u) \in Int
  <2>1. row.playersCount \in Int /\ row.refundedPlayersCount \in Int /\ DuelPrice \in Int
        /\ Commission \in Int
    BY AmountsAssumption DEF DuelRow
  <2>2. Pool(DuelPrice, row.playersCount - row.refundedPlayersCount) \in Int
    BY <2>1 DEF Pool
  <2>3. ASSUME NEW x \in Int, NEW y \in Int
        PROVE  CommissionReward(x, y) \in Int
    BY <2>3, SMT DEF CommissionReward
  <2>4. CommissionReward(Pool(DuelPrice, row.playersCount - row.refundedPlayersCount), Commission)
          \in Int
    BY <2>1, <2>2, <2>3
  <2> QED
    BY <2>4 DEF OwnerPaid
<1>2. \A i \in DOMAIN rows : rows[i] \in PlayerRow
  BY LenProperties
<1>3. \A i \in DOMAIN rows : SeatPaid(row, rows[i], u) \in Int
  BY <1>2, AmountsAssumption DEF SeatPaid, PlayerRow, PremiumPlayersConsolationReward
<1>4. IsFiniteSet(DOMAIN rows)
  BY FiniteRows
<1>5. StakesOf(rows, u) \in Int
  <2>1. PaidSeatsOf(rows, u) \in SUBSET (DOMAIN rows)
    BY DEF PaidSeatsOf
  <2>2. Cardinality(PaidSeatsOf(rows, u)) \in Nat
    BY <1>4, <2>1, FS_Subset, FS_CardinalityType
  <2> QED
    BY <2>2, AmountsAssumption DEF StakesOf
<1> DEFINE mine == RowsBy(rows, u)
           f == [i \in mine |-> SeatPaid(row, rows[i], u)]
<1>6. row.status \in Terminal => CreditsOf(row, rows, u) = SumFunctionOnSet(f, mine) + OwnerPaid(row, u)
  BY Zenon DEF CreditsOf, SumFunction
<1>7. CASE \A i \in DOMAIN rows : rows[i].user # u
  <2>1. mine = {}
    BY <1>7 DEF RowsBy
  <2> HIDE DEF f, mine
  <2>2. SumFunctionOnSet(f, mine) = 0
    BY <2>1, SumOfNothing, Zenon
  <2> QED
    BY <1>1, <1>5, <1>6, <1>7, <2>2 DEF CreditsOf
<1>8. ASSUME NEW i \in DOMAIN rows, rows[i].user = u
      PROVE  /\ row.status \in Terminal
                  => CreditsOf(row, rows, u) = SeatPaid(row, rows[i], u) + OwnerPaid(row, u)
             /\ CreditsOf(row, rows, u) \in Int
  <2>1. mine = {i}
    BY <1>8 DEF RowsBy, OneSeatIn
  <2>2. f[i] = SeatPaid(row, rows[i], u) /\ f[i] \in Int
    BY <1>3, <2>1
  <2> HIDE DEF f, mine
  <2>3. SumFunctionOnSet(f, {i}) = SeatPaid(row, rows[i], u)
    BY <2>2, SumOfOne
  <2>4. SumFunctionOnSet(f, mine) = SeatPaid(row, rows[i], u)
    BY <2>1, <2>3, Zenon
  <2> QED
    BY <1>1, <1>3, <1>6, <2>4 DEF CreditsOf
<1> QED
  BY <1>5, <1>7, <1>8 DEF CreditsOf

\* the rows of a duel now and after a step
LEMMA RowsNow ==
  ASSUME SerialInv, NEW d \in Duels
  PROVE  duels[d] \in DuelRow /\ players[d] \in Seq(PlayerRow) /\ OneSeatIn(players[d])
BY DEF SerialInv, IInv, TypeOK, DuelCurrent, OneSeat, OneSeatIn, Rows

LEMMA RowsThen ==
  ASSUME SerialInv', NEW d \in Duels
  PROVE  duels'[d] \in DuelRow /\ players'[d] \in Seq(PlayerRow) /\ OneSeatIn(players'[d])
BY DEF SerialInv, IInv, TypeOK, DuelCurrent, OneSeat, OneSeatIn, Rows

-----------------------------------------------------------------------------
(* The books *)

\* what the books say of user u
Owed(u) == [d \in Duels |-> Credits(d, u) - Stakes(d, u)]

\* the change of one duel is the change of the books
LEMMA BooksOfOneDuel ==
  ASSUME SerialInv, SerialInv', FewUsers, NEW d \in Duels, NEW u \in Users,
         \A e \in Duels \ {d} : SameDuel(e)
  PROVE  /\ SumFunction(Owed(u)) \in Int
         /\ SumFunction(Owed(u)') = SumFunction(Owed(u))
              + (CreditsOf(duels'[d], players'[d], u) - StakesOf(players'[d], u))
              - (CreditsOf(duels[d], players[d], u) - StakesOf(players[d], u))
<1>0. PICK f, g : f = Owed(u) /\ g = Owed(u)'
  OBVIOUS
<1>1. /\ f = [e \in Duels |-> CreditsOf(duels[e], players[e], u) - StakesOf(players[e], u)]
      /\ g = [e \in Duels |-> CreditsOf(duels'[e], players'[e], u) - StakesOf(players'[e], u)]
  BY <1>0, BooksOfRows DEF Owed
<1>2. \A e \in Duels : /\ CreditsOf(duels[e], players[e], u) \in Int
                       /\ StakesOf(players[e], u) \in Int
                       /\ CreditsOf(duels'[e], players'[e], u) \in Int
                       /\ StakesOf(players'[e], u) \in Int
  BY RowsNow, RowsThen, CreditsCases
<1>3. DOMAIN f = Duels /\ DOMAIN g = Duels /\ IntOn(f, Duels) /\ IntOn(g, Duels)
  BY <1>1, <1>2 DEF IntOn
<1>4. \A e \in Duels \ {d} : g[e] = f[e]
  BY <1>1 DEF SameDuel
<1>5. /\ f[d] = CreditsOf(duels[d], players[d], u) - StakesOf(players[d], u)
      /\ g[d] = CreditsOf(duels'[d], players'[d], u) - StakesOf(players'[d], u)
      /\ f[d] \in Int /\ g[d] \in Int
  BY <1>1, <1>2
<1>6. SumFunctionOnSet(f, Duels) \in Int
  BY <1>3, SumInt DEF FewUsers
<1>7. SumFunctionOnSet(g, Duels) = SumFunctionOnSet(f, Duels) + g[d] - f[d]
  BY <1>3, <1>4, SumOfChanged DEF FewUsers
<1>8. SumFunction(f) = SumFunctionOnSet(f, Duels) /\ SumFunction(g) = SumFunctionOnSet(g, Duels)
  BY <1>3, Zenon DEF SumFunction
<1>9. SumFunction(f) \in Int /\ SumFunction(g) = SumFunction(f) + g[d] - f[d]
  BY <1>6, <1>7, <1>8
<1> QED
  BY <1>0, <1>2, <1>5, <1>9

\* a seat that is taken is a stake that is paid
LEMMA BooksOfSeatAdded ==
  ASSUME SerialInv, SerialInv', NEW d \in Duels, NEW seat \in PlayerRow, SeatAdded(d, seat),
         NEW u \in Users
  PROVE  /\ CreditsOf(duels[d], players[d], u) = 0
         /\ CreditsOf(duels'[d], players'[d], u) = 0
         /\ StakesOf(players'[d], u) = StakesOf(players[d], u)
              + (IF u = seat.user /\ seat.charged THEN DuelPrice ELSE 0)
<1>0. PICK rows : rows = players[d]
  OBVIOUS
<1>1. rows \in Seq(PlayerRow) /\ players'[d] = Append(rows, seat)
  BY <1>0, RowsNow DEF SeatAdded
<1>2. duels[d].status \notin Terminal /\ duels'[d].status \notin Terminal
  BY StatusesDiffer DEF SeatAdded
<1> DEFINE n == Len(rows) + 1
           old == PaidSeatsOf(rows, u)
           new == PaidSeatsOf(Append(rows, seat), u)
<1>3. /\ DOMAIN Append(rows, seat) = (DOMAIN rows) \cup {n} /\ n \notin DOMAIN rows
      /\ \A i \in DOMAIN rows : Append(rows, seat)[i] = rows[i]
      /\ Append(rows, seat)[n] = seat
  BY <1>1, AppendRow
<1>4. new = IF u = seat.user /\ seat.charged THEN old \cup {n} ELSE old
  BY <1>3 DEF PaidSeatsOf
<1>5. n \notin old /\ old \in SUBSET (DOMAIN rows)
  BY <1>3 DEF PaidSeatsOf
<1>6. IsFiniteSet(old)
  <2>1. IsFiniteSet(DOMAIN rows)
    BY <1>1, FiniteRows
  <2> QED
    BY <1>5, <2>1, FS_Subset
<1> HIDE DEF n, old, new
<1>7. Cardinality(new) = Cardinality(old) + (IF u = seat.user /\ seat.charged THEN 1 ELSE 0)
      /\ Cardinality(old) \in Nat
  <2>1. Cardinality(old \cup {n}) = Cardinality(old) + 1 /\ Cardinality(old) \in Nat
    BY <1>5, <1>6, FS_AddElement, FS_CardinalityType
  <2>2. CASE u = seat.user /\ seat.charged
    <3>1. Cardinality(new) = Cardinality(old \cup {n})
      BY <1>4, <2>2, Zenon
    <3> QED
      BY <2>1, <2>2, <3>1
  <2>3. CASE ~(u = seat.user /\ seat.charged)
    <3>1. Cardinality(new) = Cardinality(old)
      BY <1>4, <2>3, Zenon
    <3> QED
      BY <2>1, <2>3, <3>1
  <2> QED
    BY <2>2, <2>3
<1>8. \A c \in Nat : DuelPrice * (c + 1) = DuelPrice * c + DuelPrice
  BY AmountsAssumption
<1>9. StakesOf(players'[d], u) = DuelPrice * Cardinality(new)
      /\ StakesOf(players[d], u) = DuelPrice * Cardinality(old)
  BY <1>0, <1>1, Zenon DEF StakesOf, new, old
<1>10. DuelPrice * Cardinality(old) \in Int
  BY <1>7, AmountsAssumption
<1> QED
  BY <1>2, <1>7, <1>8, <1>9, <1>10 DEF CreditsOf

\* rows that keep their users and charges keep the stakes
LEMMA SameStakes ==
  ASSUME NEW old, NEW new, NEW u, DOMAIN new = DOMAIN old,
         \A i \in DOMAIN old : new[i].user = old[i].user /\ new[i].charged = old[i].charged
  PROVE  StakesOf(new, u) = StakesOf(old, u)
<1>1. PaidSeatsOf(new, u) = PaidSeatsOf(old, u)
  BY DEF PaidSeatsOf
<1> QED
  BY <1>1, Zenon DEF StakesOf

LEMMA BooksOfMarked ==
  ASSUME SerialInv, NEW d \in Duels, Marked(d), NEW u \in Users
  PROVE  /\ CreditsOf(duels[d], players[d], u) = 0
         /\ CreditsOf(duels'[d], players'[d], u) = 0
         /\ StakesOf(players'[d], u) = StakesOf(players[d], u)
<1>1. duels[d].status \notin Terminal /\ duels'[d].status \notin Terminal
  BY StatusesDiffer DEF Marked
<1>2. \A i \in DOMAIN players[d] : players[d][i] \in PlayerRow
  BY RowsOf DEF Rows, SerialInv, IInv
<1>3. /\ DOMAIN players'[d] = DOMAIN players[d]
      /\ \A i \in DOMAIN players[d] : /\ players'[d][i].user = players[d][i].user
                                      /\ players'[d][i].charged = players[d][i].charged
  BY <1>2 DEF Marked, SetStatus, PlayerRow
<1> QED
  BY <1>1, <1>3, SameStakes DEF CreditsOf

\* a duel that is given up returns a stake to everybody who has a seat
LEMMA BooksOfReturned ==
  ASSUME SerialInv, SerialInv', NEW d \in Duels, Returned(d), NEW u \in Users
  PROVE  /\ CreditsOf(duels[d], players[d], u) = 0
         /\ CreditsOf(duels'[d], players'[d], u)
              = IF u \in UsersOf(d, Rows(d)) THEN DuelPrice ELSE 0
         /\ StakesOf(players'[d], u) = StakesOf(players[d], u)
<1>1. /\ duels[d].status \notin Terminal /\ duels'[d].status \in Terminal
      /\ duels'[d].status \in Cancelled /\ duels'[d].status # Resolved /\ players'[d] = players[d]
  BY StatusesDiffer DEF Returned
<1>2. OwnerPaid(duels'[d], u) = 0
  BY <1>1 DEF OwnerPaid
<1>3. \A i \in DOMAIN players'[d] : SeatPaid(duels'[d], players'[d][i], u) = DuelPrice
  BY <1>1 DEF SeatPaid
<1>4. DuelPrice \in Int
  BY AmountsAssumption
<1>5. duels'[d] \in DuelRow /\ players'[d] \in Seq(PlayerRow) /\ OneSeatIn(players'[d])
  BY RowsThen
<1>6. CASE u \in UsersOf(d, Rows(d))
  <2>1. PICK i \in DOMAIN players'[d] : players'[d][i].user = u
    BY <1>1, <1>6 DEF UsersOf, Rows
  <2>2. CreditsOf(duels'[d], players'[d], u)
          = SeatPaid(duels'[d], players'[d][i], u) + OwnerPaid(duels'[d], u)
    BY <1>1, <1>5, <2>1, CreditsCases
  <2> QED
    BY <1>1, <1>2, <1>3, <1>4, <1>6, <2>2 DEF CreditsOf
<1>7. CASE u \notin UsersOf(d, Rows(d))
  <2>1. \A i \in DOMAIN players'[d] : players'[d][i].user # u
    BY <1>1, <1>7 DEF UsersOf, Rows
  <2>2. CreditsOf(duels'[d], players'[d], u) = OwnerPaid(duels'[d], u)
    BY <1>1, <1>5, <2>1, CreditsCases
  <2> QED
    BY <1>1, <1>2, <1>7, <2>2 DEF CreditsOf
<1> QED
  BY <1>6, <1>7

\* What a settlement pays is an amount, and winners and owner share no more than
\* the stakes that played.
LEMMA SettlementPays ==
  ASSUME IInv, NEW d \in Duels, NEW answer \in Answers, NEW cutoff \in Int,
         WinnersOf(d, answer, cutoff) # {}
  PROVE  /\ AmountOf(d, answer, cutoff) \in Nat /\ OwnerPart(d, answer, cutoff) \in Nat
         /\ Cardinality(WinnersOf(d, answer, cutoff)) * AmountOf(d, answer, cutoff)
              + OwnerPart(d, answer, cutoff) <= PlayedPool(d, answer, cutoff)
         /\ PlayedPool(d, answer, cutoff)
              = DuelPrice * (Cardinality(WinnersOf(d, answer, cutoff))
                               + Cardinality(LosersOf(d, answer, cutoff)))
<1> DEFINE W == WinnersOf(d, answer, cutoff)
           V == LosersOf(d, answer, cutoff)
           pool == PlayedPool(d, answer, cutoff)
<1>1. IsFiniteSet(W) /\ Cardinality(W) \in Nat /\ Cardinality(V) \in Nat /\ W # {}
  BY KindsOfRows
<1> HIDE DEF W, V
<1>2. Cardinality(W) \in Nat \ {0}
  BY <1>1, FS_EmptySet
<1>3. DuelPrice \in Nat /\ Commission \in 0..100
  BY AmountsAssumption
<1>4. pool = (Cardinality(W) + Cardinality(V)) * DuelPrice
  BY DEF PlayedPool, Pool, W, V
<1>5. pool \in Nat /\ pool = DuelPrice * (Cardinality(W) + Cardinality(V))
  BY <1>1, <1>3, <1>4, Product
<1> HIDE DEF pool
<1>6. /\ FinalReward(pool, Commission, Cardinality(W)) \in Nat
      /\ Cardinality(W) * FinalReward(pool, Commission, Cardinality(W))
            + CommissionReward(pool, Commission) <= pool
  BY <1>2, <1>3, <1>5, PayoutWithinPool
<1>7. CommissionReward(pool, Commission) \in Nat
  <2>1. /\ PercentValue(pool, Commission) \in 0..pool
        /\ CommissionReward(pool, Commission) \in 0..PercentValue(pool, Commission)
    BY <1>3, <1>5, PercentBounds
  <2> QED
    BY <2>1
<1>8. /\ AmountOf(d, answer, cutoff) = FinalReward(pool, Commission, Cardinality(W))
      /\ OwnerPart(d, answer, cutoff) = CommissionReward(pool, Commission)
  BY DEF AmountOf, OwnerPart, pool, W
<1> QED
  BY <1>5, <1>6, <1>7, <1>8 DEF W, V, pool

\* a settled duel pays what PaidTo says
LEMMA BooksOfSettled ==
  ASSUME SerialInv, SerialInv', NEW d \in Duels, NEW answer \in Answers, NEW cutoff \in Int,
         Settled(d, answer, cutoff), NEW u \in Users
  PROVE  /\ CreditsOf(duels[d], players[d], u) = 0
         /\ CreditsOf(duels'[d], players'[d], u) = PaidTo(d, answer, cutoff, u)
         /\ PaidTo(d, answer, cutoff, u) \in Int
         /\ StakesOf(players'[d], u) = StakesOf(players[d], u)
<1>0. PICK old, new, row, W, V, L, amount, part :
        /\ old = players[d] /\ new = players'[d] /\ row = duels'[d]
        /\ W = WinnersOf(d, answer, cutoff) /\ V = LosersOf(d, answer, cutoff)
        /\ L = LateRows(d, cutoff) /\ amount = AmountOf(d, answer, cutoff)
        /\ part = OwnerPart(d, answer, cutoff)
  OBVIOUS
<1>1. /\ duels[d].status \notin Terminal /\ row.status \in Terminal /\ row.status = Resolved
      /\ row.status \notin Cancelled /\ duels[d].status # NoStatus
  BY <1>0, StatusesDiffer DEF Settled
<1>2. /\ row \in DuelRow /\ new \in Seq(PlayerRow) /\ OneSeatIn(new)
      /\ old \in Seq(PlayerRow) /\ OneSeatIn(old)
  BY <1>0, RowsNow, RowsThen
<1>3. \A i \in DOMAIN old : old[i] \in PlayerRow
  BY <1>2, LenProperties
<1>4. /\ W \cup V \cup L = DOMAIN old /\ W \cap V = {} /\ W \cap L = {} /\ V \cap L = {}
      /\ Cardinality(W) \in Nat /\ Cardinality(V) \in Nat /\ Cardinality(L) \in Nat
      /\ Cardinality(DOMAIN old) = Cardinality(W) + Cardinality(V) + Cardinality(L)
  BY <1>0, KindsOfRows DEF Rows, SerialInv
<1>5. \A i \in DOMAIN old : old[i].finalStatus = PlayerActive
  <2>1. DuelCurrent(d)
    BY DEF SerialInv
  <2> QED
    BY <1>0, <1>1, <2>1 DEF DuelCurrent, Rows, Settled
<1>6. /\ DOMAIN new = DOMAIN old
      /\ \A i \in DOMAIN old : new[i] =
            IF i \in W THEN [old[i] EXCEPT !.finalStatus = PlayerResolved, !.winAmount = amount]
            ELSE IF i \in L THEN [old[i] EXCEPT !.finalStatus = PlayerRefunded]
            ELSE old[i]
  <2>1. new = [i \in DOMAIN old |->
            IF i \in W THEN [old[i] EXCEPT !.finalStatus = PlayerResolved, !.winAmount = amount]
            ELSE IF i \in L THEN [old[i] EXCEPT !.finalStatus = PlayerRefunded]
            ELSE old[i]]
    BY <1>0, Zenon DEF Settled, Rows
  <2> QED
    BY <2>1, Zenon
<1>7. ASSUME NEW i \in DOMAIN old
      PROVE  /\ new[i].user = old[i].user /\ new[i].charged = old[i].charged
             /\ i \in W => new[i].finalStatus = PlayerResolved /\ new[i].winAmount = amount
             /\ i \in L => new[i].finalStatus = PlayerRefunded
             /\ i \in V => new[i].finalStatus = PlayerActive
  BY <1>3, <1>4, <1>5, <1>6 DEF PlayerRow
<1>8. ASSUME NEW i \in DOMAIN old
      PROVE  SeatPaid(row, new[i], u) =
                IF i \in W THEN amount ELSE IF i \in L THEN DuelPrice
                ELSE IF u \in Premium THEN PremiumPlayersConsolationReward ELSE 0
  BY <1>1, <1>4, <1>7, PlayerStatusesDiffer DEF SeatPaid
<1>9. OwnerPaid(row, u) = IF u = duels[d].owner THEN part ELSE 0
  <2>1. /\ row.owner = duels[d].owner /\ row.playersCount = duels[d].playersCount
        /\ row.refundedPlayersCount = Cardinality(L)
    BY <1>0 DEF Settled
  <2>2. duels[d].playersCount = Cardinality(DOMAIN old)
    <3>1. duels[d].playersCount = Len(players[d]) /\ Len(players[d]) = Cardinality(Rows(d))
      BY RowsCounted DEF SerialInv, DuelCurrent
    <3> QED
      BY <1>0, <3>1, Zenon DEF Rows
  <2>3. row.playersCount - row.refundedPlayersCount = Cardinality(W) + Cardinality(V)
    BY <1>4, <2>1, <2>2
  <2>4. Pool(DuelPrice, row.playersCount - row.refundedPlayersCount)
          = PlayedPool(d, answer, cutoff)
    BY <1>0, <2>3, Zenon DEF PlayedPool
  <2>5. part = CommissionReward(Pool(DuelPrice, row.playersCount - row.refundedPlayersCount),
                                Commission)
    BY <1>0, <2>4, Zenon DEF OwnerPart
  <2> QED
    BY <1>1, <2>1, <2>5 DEF OwnerPaid
<1>10. PaidTo(d, answer, cutoff, u) =
            (IF \E i \in W : old[i].user = u THEN amount ELSE 0)
          + (IF (\E i \in V : old[i].user = u) /\ u \in Premium
               THEN PremiumPlayersConsolationReward ELSE 0)
          + OwnerPaid(row, u)
          + (IF \E i \in L : old[i].user = u THEN DuelPrice ELSE 0)
  BY <1>0, <1>9 DEF PaidTo, UsersOf
<1>11. CreditsOf(row, new, u) \in Int
  BY <1>2, CreditsCases
<1>12. /\ amount \in Int /\ part \in Int /\ DuelPrice \in Int
       /\ PremiumPlayersConsolationReward \in Int
  <2>1. IInv /\ WinnersOf(d, answer, cutoff) # {}
    BY DEF SerialInv, Settled
  <2>2. amount \in Nat /\ part \in Nat
    BY <1>0, <2>1, SettlementPays
  <2> QED
    BY <2>2, AmountsAssumption DEF PremiumPlayersConsolationReward
<1>13. CreditsOf(row, new, u) = PaidTo(d, answer, cutoff, u)
  <2>1. OwnerPaid(row, u) \in Int
    BY <1>9, <1>12
  <2>0. DOMAIN new = DOMAIN old /\ \A i \in DOMAIN old : new[i].user = old[i].user
    BY <1>6, <1>7, Zenon
  <2>2. CASE \A i \in DOMAIN old : old[i].user # u
    <3>1. CreditsOf(row, new, u) = OwnerPaid(row, u)
      BY <1>1, <1>2, <2>0, <2>2, CreditsCases
    <3>2. \A i \in W \cup V \cup L : old[i].user # u
      BY <1>4, <2>2
    <3> QED
      BY <1>10, <2>1, <3>1, <3>2
  <2>3. ASSUME NEW i \in DOMAIN old, old[i].user = u
        PROVE  CreditsOf(row, new, u) = PaidTo(d, answer, cutoff, u)
    <3>1. CreditsOf(row, new, u) = SeatPaid(row, new[i], u) + OwnerPaid(row, u)
      BY <1>1, <1>2, <2>0, <2>3, CreditsCases
    <3>2. \A j \in W \cup V \cup L : old[j].user = u => j = i
      BY <1>2, <1>4, <2>3 DEF OneSeatIn
    <3>3. /\ (\E j \in W : old[j].user = u) <=> i \in W
          /\ (\E j \in V : old[j].user = u) <=> i \in V
          /\ (\E j \in L : old[j].user = u) <=> i \in L
      BY <2>3, <3>2
    <3>4. \/ i \in W /\ i \notin V /\ i \notin L
          \/ i \in V /\ i \notin W /\ i \notin L
          \/ i \in L /\ i \notin W /\ i \notin V
      BY <1>4
    <3> HIDE DEF PremiumPlayersConsolationReward
    <3> QED
      BY <1>8, <1>10, <1>12, <2>1, <3>1, <3>3, <3>4
  <2> QED
    BY <2>2, <2>3
<1> QED
  <2>1. StakesOf(new, u) = StakesOf(old, u)
    BY <1>6, <1>7, SameStakes
  <2>2. CreditsOf(duels[d], players[d], u) = 0
    BY <1>1 DEF CreditsOf
  <2> QED
    BY <1>0, <1>11, <1>13, <2>1, <2>2

\* reads and new dates leave the books as they are
LEMMA BooksOfQuiet ==
  ASSUME SerialInv, SerialInv', Quiet, NEW u \in Users
  PROVE  Owed(u)' = Owed(u)
<1>1. ASSUME NEW d \in Duels
      PROVE  CreditsOf(duels'[d], players'[d], u) = CreditsOf(duels[d], players[d], u)
             /\ players'[d] = players[d]
  <2>1. SameCounts(d) /\ players'[d] = players[d]
    BY DEF Quiet
  <2>2. CASE duels'[d].status = duels[d].status
    <3>1. OwnerPaid(duels'[d], u) = OwnerPaid(duels[d], u)
      BY <2>1, <2>2, Zenon DEF OwnerPaid, SameCounts
    <3>2. \A p : SeatPaid(duels'[d], p, u) = SeatPaid(duels[d], p, u)
      BY <2>2, Zenon DEF SeatPaid
    <3>3. [i \in RowsBy(players'[d], u) |-> SeatPaid(duels'[d], players'[d][i], u)]
            = [i \in RowsBy(players[d], u) |-> SeatPaid(duels[d], players[d][i], u)]
      BY <2>1, <3>2, Zenon
    <3> QED
      BY <2>1, <2>2, <3>1, <3>3, Zenon DEF CreditsOf
  <2>3. CASE duels[d].status = InReview /\ duels'[d].status = InProcess
    BY <2>1, <2>3, StatusesDiffer DEF CreditsOf
  <2> QED
    BY <2>1, <2>2, <2>3 DEF Quiet
<1>2. \A d \in Duels : /\ Credits(d, u)' = Credits(d, u)
                       /\ Stakes(d, u)' = Stakes(d, u)
  BY <1>1, BooksOfRows
<1> QED
  BY <1>2 DEF Owed

LEMMA BooksStep ==
  ASSUME SerialInv, SerialInv', FewUsers, Shape, BooksBalance
  PROVE  BooksBalance'
<1>1. SUFFICES ASSUME NEW u \in Users
               PROVE  balance'[u] = InitialBalance + SumFunction(Owed(u)')
  BY Zenon DEF BooksBalance, Owed
<1>2. balance[u] = InitialBalance + SumFunction(Owed(u))
  BY Zenon DEF BooksBalance, Owed
<1>3. InitialBalance \in Int /\ DuelPrice \in Int /\ balance \in [Users -> Nat]
  BY AmountsAssumption DEF SerialInv, IInv, TypeOK
<1>4. CASE Quiet
  BY <1>2, <1>4, BooksOfQuiet DEF Quiet
<1>5. ASSUME NEW d \in Duels, NEW seat \in PlayerRow, SeatAdded(d, seat)
      PROVE  balance'[u] = InitialBalance + SumFunction(Owed(u)')
  <2>1. /\ SumFunction(Owed(u)) \in Int
        /\ SumFunction(Owed(u)') = SumFunction(Owed(u))
              + (CreditsOf(duels'[d], players'[d], u) - StakesOf(players'[d], u))
              - (CreditsOf(duels[d], players[d], u) - StakesOf(players[d], u))
    BY <1>5, BooksOfOneDuel DEF SeatAdded, OthersSame
  <2>2. StakesOf(players[d], u) \in Int
    BY RowsNow, CreditsCases
  <2>3. balance'[u] = balance[u] - (IF u = seat.user /\ seat.charged THEN DuelPrice ELSE 0)
    BY <1>3, <1>5 DEF SeatAdded, PlayerRow
  <2> QED
    BY <1>2, <1>3, <1>5, <2>1, <2>2, <2>3, BooksOfSeatAdded
<1>6. ASSUME NEW d \in Duels, NEW answer \in Answers, NEW cutoff \in Int,
             Settled(d, answer, cutoff)
      PROVE  balance'[u] = InitialBalance + SumFunction(Owed(u)')
  <2>1. /\ SumFunction(Owed(u)) \in Int
        /\ SumFunction(Owed(u)') = SumFunction(Owed(u))
              + (CreditsOf(duels'[d], players'[d], u) - StakesOf(players'[d], u))
              - (CreditsOf(duels[d], players[d], u) - StakesOf(players[d], u))
    BY <1>6, BooksOfOneDuel DEF Settled, OthersSame
  <2>2. StakesOf(players[d], u) \in Int
    BY RowsNow, CreditsCases
  <2>3. balance'[u] = balance[u] + PaidTo(d, answer, cutoff, u)
    BY <1>6, Zenon DEF Settled
  <2> QED
    BY <1>2, <1>3, <1>6, <2>1, <2>2, <2>3, BooksOfSettled
<1>7. ASSUME NEW d \in Duels, Marked(d)
      PROVE  balance'[u] = InitialBalance + SumFunction(Owed(u)')
  <2>1. /\ SumFunction(Owed(u)) \in Int
        /\ SumFunction(Owed(u)') = SumFunction(Owed(u))
              + (CreditsOf(duels'[d], players'[d], u) - StakesOf(players'[d], u))
              - (CreditsOf(duels[d], players[d], u) - StakesOf(players[d], u))
    BY <1>7, BooksOfOneDuel DEF Marked, OthersSame
  <2>2. StakesOf(players[d], u) \in Int
    BY RowsNow, CreditsCases
  <2>3. balance'[u] = balance[u]
    BY <1>7 DEF Marked
  <2> QED
    BY <1>2, <1>3, <1>7, <2>1, <2>2, <2>3, BooksOfMarked
<1>8. ASSUME NEW d \in Duels, Returned(d)
      PROVE  balance'[u] = InitialBalance + SumFunction(Owed(u)')
  <2>1. /\ SumFunction(Owed(u)) \in Int
        /\ SumFunction(Owed(u)') = SumFunction(Owed(u))
              + (CreditsOf(duels'[d], players'[d], u) - StakesOf(players'[d], u))
              - (CreditsOf(duels[d], players[d], u) - StakesOf(players[d], u))
    BY <1>8, BooksOfOneDuel DEF Returned, OthersSame
  <2>2. StakesOf(players[d], u) \in Int
    BY RowsNow, CreditsCases
  <2>3. balance'[u] = balance[u] + (IF u \in UsersOf(d, Rows(d)) THEN DuelPrice ELSE 0)
    BY <1>3, <1>8 DEF Returned, Credit
  <2> QED
    BY <1>2, <1>3, <1>8, <2>1, <2>2, <2>3, BooksOfReturned
<1> QED
  BY <1>4, <1>5, <1>6, <1>7, <1>8 DEF Shape

LEMMA InitBooks ==
  ASSUME Init, FewUsers
  PROVE  BooksBalance
<1>1. SUFFICES ASSUME NEW u \in Users
               PROVE  balance[u] = InitialBalance + SumFunction(Owed(u))
  BY Zenon DEF BooksBalance, Owed
<1>2. ASSUME NEW d \in Duels
      PROVE  Credits(d, u) - Stakes(d, u) = 0
  <2>1. duels[d] = NoDuel /\ players[d] = <<>>
    BY DEF Init
  <2>2. NoDuel.status \notin Terminal
    BY StatusesDiffer DEF NoDuel
  <2>3. PaidSeatsOf(<<>>, u) = {}
    BY DEF PaidSeatsOf
  <2>4. Cardinality(PaidSeatsOf(<<>>, u)) = 0
    BY <2>3, FS_EmptySet, Zenon
  <2>5. Credits(d, u) = 0 /\ Stakes(d, u) = DuelPrice * 0
    BY <2>1, <2>2, <2>4, BooksOfRows, Zenon DEF CreditsOf, StakesOf
  <2> QED
    BY <2>5, AmountsAssumption
<1>3. Owed(u) = [d \in Duels |-> 0]
  BY <1>2 DEF Owed
<1>4. SumFunctionOnSet([d \in Duels |-> 0], Duels) = Cardinality(Duels) * 0
  BY SumOfConstant DEF FewUsers
<1>5. SumFunction(Owed(u)) = SumFunctionOnSet([d \in Duels |-> 0], Duels)
  BY <1>3, Zenon DEF SumFunction
<1>6. Cardinality(Duels) \in Nat
  BY FS_CardinalityType DEF FewUsers
<1> QED
  BY <1>4, <1>5, <1>6, AmountsAssumption DEF Init

\* One request at a time, every point is accounted for: creation, joins,
\* settlements, refunds and cancellations change a balance by what the rows of
\* duels and players say, whatever the users, prices, commissions and schedules.
THEOREM BooksStayBalanced ==
  ASSUME OneAtATime, FewUsers
  PROVE  Spec => []BooksBalance
<1>1. Init => SerialInv /\ BooksBalance
  BY InitSerialInv, InitBooks
<1>2. SerialInv /\ BooksBalance /\ [Next]_vars => (SerialInv /\ BooksBalance)'
  BY NextSerial, BooksStep
<1> QED
  BY <1>1, <1>2, PTL DEF Spec

-----------------------------------------------------------------------------
(* What a settlement leaves in the rows *)

\* What a settlement writes: winners, losers and latecomers can be told from the
\* status of their seats.
LEMMA SettledRows ==
  ASSUME SerialInv, TypeOK', NEW d \in Duels, NEW answer \in Answers, NEW cutoff \in Int,
         Settled(d, answer, cutoff)
  PROVE  /\ DOMAIN players'[d] = DOMAIN players[d]
         /\ \A i \in DOMAIN players[d] : /\ players'[d][i].user = players[d][i].user
                                         /\ players'[d][i].answer = players[d][i].answer
         /\ {i \in DOMAIN players'[d] : players'[d][i].finalStatus = PlayerResolved}
              = WinnersOf(d, answer, cutoff)
         /\ {i \in DOMAIN players'[d] : players'[d][i].finalStatus = PlayerActive}
              = LosersOf(d, answer, cutoff)
         /\ {i \in DOMAIN players'[d] : players'[d][i].finalStatus = PlayerRefunded}
              = LateRows(d, cutoff)
         /\ \A i \in WinnersOf(d, answer, cutoff) :
               players'[d][i].winAmount = AmountOf(d, answer, cutoff)
<1>0. PICK old, new, W, V, L, amount :
        /\ old = players[d] /\ new = players'[d]
        /\ W = WinnersOf(d, answer, cutoff) /\ V = LosersOf(d, answer, cutoff)
        /\ L = LateRows(d, cutoff) /\ amount = AmountOf(d, answer, cutoff)
  OBVIOUS
<1>1. \A i \in DOMAIN old : old[i] \in PlayerRow
  BY <1>0, RowsOf DEF Rows, SerialInv, IInv
<1>2. W \cup V \cup L = DOMAIN old /\ W \cap V = {} /\ W \cap L = {} /\ V \cap L = {}
  BY <1>0, KindsOfRows DEF Rows, SerialInv
<1>3. \A i \in DOMAIN old : old[i].finalStatus = PlayerActive
  <2>1. DuelCurrent(d) /\ duels[d].status \notin Terminal /\ ~Cancelling(d)
    BY StatusesDiffer DEF SerialInv, Settled
  <2> QED
    BY <1>0, <2>1 DEF DuelCurrent, Rows
<1>4. new = [i \in DOMAIN old |->
            IF i \in W THEN [old[i] EXCEPT !.finalStatus = PlayerResolved, !.winAmount = amount]
            ELSE IF i \in L THEN [old[i] EXCEPT !.finalStatus = PlayerRefunded]
            ELSE old[i]]
  BY <1>0, Zenon DEF Settled, Rows
<1>5. ASSUME NEW i \in DOMAIN old
      PROVE  /\ new[i].user = old[i].user /\ new[i].answer = old[i].answer
             /\ i \in W => new[i].finalStatus = PlayerResolved /\ new[i].winAmount = amount
             /\ i \in L => new[i].finalStatus = PlayerRefunded
             /\ i \in V => new[i].finalStatus = PlayerActive
  BY <1>1, <1>2, <1>3, <1>4 DEF PlayerRow
<1>6. DOMAIN new = DOMAIN old
  BY <1>4, Zenon
<1>7. /\ {i \in DOMAIN new : new[i].finalStatus = PlayerResolved} = W
      /\ {i \in DOMAIN new : new[i].finalStatus = PlayerActive} = V
      /\ {i \in DOMAIN new : new[i].finalStatus = PlayerRefunded} = L
  <2>1. \A i \in DOMAIN new :
           \/ i \in W /\ i \notin V /\ i \notin L /\ new[i].finalStatus = PlayerResolved
           \/ i \in V /\ i \notin W /\ i \notin L /\ new[i].finalStatus = PlayerActive
           \/ i \in L /\ i \notin W /\ i \notin V /\ new[i].finalStatus = PlayerRefunded
    BY <1>2, <1>5, <1>6, Zenon
  <2>2. W \subseteq DOMAIN new /\ V \subseteq DOMAIN new /\ L \subseteq DOMAIN new
    BY <1>2, <1>6
  <2> QED
    BY <2>1, <2>2, PlayerStatusesDiffer
<1>8. \A i \in W : new[i].winAmount = amount
  BY <1>2, <1>5
<1> QED
  BY <1>0, <1>5, <1>6, <1>7, <1>8

-----------------------------------------------------------------------------
(* Resolved duels *)

\* ResolvedAccounts of one duel, in the terms of its rows
AccountsOf(row, rows) ==
    row.status = Resolved =>
       LET won  == {i \in DOMAIN rows : rows[i].finalStatus = PlayerResolved}
           lost == {i \in DOMAIN rows : rows[i].finalStatus = PlayerActive}
           pool == Pool(DuelPrice, row.playersCount - row.refundedPlayersCount)
       IN  /\ row.winnersCount = Cardinality(won)
           /\ row.refundedPlayersCount
                = Cardinality({i \in DOMAIN rows : rows[i].finalStatus = PlayerRefunded})
           /\ won # {} /\ lost # {}
           /\ \A i \in won : rows[i].answer = row.finalResult
           /\ \A i \in lost : rows[i].answer # row.finalResult
           /\ SumFunction([i \in won |-> rows[i].winAmount])
                + CommissionReward(pool, Commission) <= pool

LEMMA AccountsOfRows ==
  /\ ResolvedAccounts <=> \A d \in Duels : AccountsOf(duels[d], players[d])
  /\ ResolvedAccounts' <=> \A d \in Duels : AccountsOf(duels'[d], players'[d])
BY Zenon DEF ResolvedAccounts, AccountsOf, RowsWith, Rows

LEMMA AccountsOfSettled ==
  ASSUME SerialInv, SerialInv', NEW d \in Duels, NEW answer \in Answers, NEW cutoff \in Int,
         Settled(d, answer, cutoff)
  PROVE  AccountsOf(duels'[d], players'[d])
<1>0. PICK new, row, W, V, L, amount, part :
        /\ new = players'[d] /\ row = duels'[d]
        /\ W = WinnersOf(d, answer, cutoff) /\ V = LosersOf(d, answer, cutoff)
        /\ L = LateRows(d, cutoff) /\ amount = AmountOf(d, answer, cutoff)
        /\ part = OwnerPart(d, answer, cutoff)
  OBVIOUS
<1>1. /\ row.status = Resolved /\ row.finalResult = answer
      /\ row.winnersCount = Cardinality(W) /\ row.refundedPlayersCount = Cardinality(L)
      /\ row.playersCount = duels[d].playersCount /\ W # {} /\ V # {}
  BY <1>0 DEF Settled
<1>2. TypeOK' /\ IInv
  BY DEF SerialInv, IInv
<1>3. /\ {i \in DOMAIN new : new[i].finalStatus = PlayerResolved} = W
      /\ {i \in DOMAIN new : new[i].finalStatus = PlayerActive} = V
      /\ {i \in DOMAIN new : new[i].finalStatus = PlayerRefunded} = L
      /\ \A i \in W : new[i].winAmount = amount
      /\ \A i \in DOMAIN players[d] : new[i].answer = players[d][i].answer
  BY <1>0, <1>2, SettledRows
<1>4. /\ Cardinality(Rows(d)) = Cardinality(W) + Cardinality(V) + Cardinality(L)
      /\ Cardinality(W) \in Nat /\ Cardinality(V) \in Nat /\ Cardinality(L) \in Nat
      /\ IsFiniteSet(W)
  BY <1>0, <1>2, KindsOfRows
<1>5. row.playersCount - row.refundedPlayersCount = Cardinality(W) + Cardinality(V)
  <2>1. duels[d].playersCount = Len(players[d]) /\ Len(players[d]) = Cardinality(Rows(d))
    BY <1>2, RowsCounted DEF SerialInv, DuelCurrent
  <2> QED
    BY <1>1, <1>4, <2>1
<1>6. /\ amount \in Nat /\ part \in Nat
      /\ Cardinality(W) * amount + part <= PlayedPool(d, answer, cutoff)
  BY <1>0, <1>1, <1>2, SettlementPays
<1>7. /\ Pool(DuelPrice, row.playersCount - row.refundedPlayersCount)
           = PlayedPool(d, answer, cutoff)
      /\ part = CommissionReward(PlayedPool(d, answer, cutoff), Commission)
  BY <1>0, <1>5, Zenon DEF PlayedPool, OwnerPart
<1>8. SumFunction([i \in W |-> new[i].winAmount]) = Cardinality(W) * amount
  <2> DEFINE f == [i \in W |-> new[i].winAmount]
  <2>1. \A i \in W : f[i] = amount
    BY <1>3
  <2>2. SumFunction(f) = SumFunctionOnSet(f, W)
    BY Zenon DEF SumFunction
  <2> HIDE DEF f
  <2>3. SumFunctionOnSet(f, W) = Cardinality(W) * amount
    BY <1>4, <1>6, <2>1, SumOfConstant
  <2> QED
    BY <2>2, <2>3 DEF f
<1>9. SumFunction([i \in W |-> new[i].winAmount])
        + CommissionReward(PlayedPool(d, answer, cutoff), Commission)
          <= PlayedPool(d, answer, cutoff)
  BY <1>6, <1>7, <1>8
<1>10. /\ \A i \in W : new[i].answer = row.finalResult
       /\ \A i \in V : new[i].answer # row.finalResult
  <2>1. /\ \A i \in W : i \in DOMAIN players[d] /\ players[d][i].answer = answer
        /\ \A i \in V : i \in DOMAIN players[d] /\ players[d][i].answer = 1 - answer
    BY <1>0 DEF WinnersOf, LosersOf, GetDuelWinners, Rows
  <2>2. 1 - answer # answer
    BY DEF Answers
  <2> QED
    BY <1>1, <1>3, <2>1, <2>2
<1>11. AccountsOf(row, new)
  BY <1>1, <1>3, <1>7, <1>9, <1>10, Zenon DEF AccountsOf
<1> QED
  BY <1>0, <1>11

\* the accounts of a duel read only these columns of its row
LEMMA AccountsOfColumns ==
  ASSUME NEW row, NEW row2, NEW rows, AccountsOf(row, rows),
         row2.status = row.status, row2.finalResult = row.finalResult,
         row2.playersCount = row.playersCount, row2.winnersCount = row.winnersCount,
         row2.refundedPlayersCount = row.refundedPlayersCount
  PROVE  AccountsOf(row2, rows)
<1>1. row2.playersCount - row2.refundedPlayersCount
        = row.playersCount - row.refundedPlayersCount
  OBVIOUS
<1> QED
  BY <1>1, Zenon DEF AccountsOf

LEMMA AccountsStep ==
  ASSUME SerialInv, SerialInv', Shape, ResolvedAccounts
  PROVE  ResolvedAccounts'
<1>1. \A d \in Duels : AccountsOf(duels[d], players[d])
  BY AccountsOfRows
<1>2. \A d \in Duels : SameDuel(d) => AccountsOf(duels'[d], players'[d])
  BY <1>1, Zenon DEF SameDuel
<1>3. \A d \in Duels : duels'[d].status # Resolved => AccountsOf(duels'[d], players'[d])
  BY DEF AccountsOf
<1>4. CASE Quiet
  <2>1. ASSUME NEW d \in Duels, duels'[d].status = Resolved
        PROVE  AccountsOf(duels'[d], players'[d])
    <3>1. SameCounts(d) /\ players'[d] = players[d] /\ duels'[d].status = duels[d].status
      BY <1>4, <2>1, StatusesDiffer DEF Quiet, Live
    <3> QED
      BY <1>1, <3>1, AccountsOfColumns DEF SameCounts
  <2> QED
    BY <1>3, <2>1, AccountsOfRows
<1>5. ASSUME NEW d \in Duels, OthersSame(d), AccountsOf(duels'[d], players'[d])
      PROVE  ResolvedAccounts'
  BY <1>2, <1>5, AccountsOfRows DEF OthersSame
<1>6. ASSUME NEW d \in Duels, NEW seat \in PlayerRow, SeatAdded(d, seat)
      PROVE  ResolvedAccounts'
  BY <1>3, <1>5, <1>6, StatusesDiffer DEF SeatAdded
<1>7. ASSUME NEW d \in Duels, NEW answer \in Answers, NEW cutoff \in Int,
             Settled(d, answer, cutoff)
      PROVE  ResolvedAccounts'
  BY <1>5, <1>7, AccountsOfSettled DEF Settled
<1>8. ASSUME NEW d \in Duels, Marked(d)
      PROVE  ResolvedAccounts'
  BY <1>3, <1>5, <1>8, StatusesDiffer DEF Marked
<1>9. ASSUME NEW d \in Duels, Returned(d)
      PROVE  ResolvedAccounts'
  BY <1>3, <1>5, <1>9, StatusesDiffer DEF Returned
<1> QED
  BY <1>4, <1>6, <1>7, <1>8, <1>9 DEF Shape

\* One request at a time, what a resolved duel stored adds up: the counts are
\* those of its rows, the answers are right, and winners and owner share no more
\* than the stakes that played.
THEOREM ResolvedDuelsAddUp ==
  ASSUME OneAtATime, FewUsers
  PROVE  Spec => []ResolvedAccounts
<1>1. Init => SerialInv /\ ResolvedAccounts
  <2>1. Init => \A d \in Duels : AccountsOf(duels[d], players[d])
    BY StatusesDiffer DEF Init, AccountsOf, NoDuel
  <2> QED
    BY <2>1, InitSerialInv, AccountsOfRows
<1>2. SerialInv /\ ResolvedAccounts /\ [Next]_vars => (SerialInv /\ ResolvedAccounts)'
  BY NextSerial, AccountsStep
<1> QED
  BY <1>1, <1>2, PTL DEF Spec

\* One request at a time, a settled or cancelled duel is final: nothing reopens
\* it, changes its outcome or touches its seats.
THEOREM ClosedDuelsAreFinal ==
  ASSUME OneAtATime, FewUsers
  PROVE  Spec => SettledFinal
<1>1. SerialInv /\ [Next]_vars => SerialInv'
  BY NextSerial
<1> DEFINE Final == \A d \in Duels : duels[d].status \in Terminal =>
              /\ duels'[d].status = duels[d].status
              /\ duels'[d].finalResult = duels[d].finalResult
              /\ players'[d] = players[d]
<1>2. SerialInv /\ [Next]_vars => Final
  <2>1. SUFFICES ASSUME SerialInv, Shape, NEW d \in Duels, duels[d].status \in Terminal
                 PROVE  /\ duels'[d].status = duels[d].status
                        /\ duels'[d].finalResult = duels[d].finalResult
                        /\ players'[d] = players[d]
    BY NextSerial
  <2>2. CASE Quiet
    BY <2>1, <2>2, StatusesDiffer DEF Quiet, SameCounts
  <2>3. ASSUME NEW e \in Duels, OthersSame(e), e # d
        PROVE  SameDuel(d)
    BY <2>3 DEF OthersSame
  <2>4. duels[d].status \notin Live /\ duels[d].status # InProcess /\ duels[d].status # NoStatus
    BY <2>1, StatusesDiffer
  <2> QED
    BY <2>1, <2>2, <2>3, <2>4 DEF Shape, SeatAdded, Settled, Marked, Returned, SameDuel
<1>3. Init => SerialInv
  BY InitSerialInv
<1>4. SerialInv /\ [Next]_vars => [Final]_vars
  BY <1>2
<1> QED
  BY <1>1, <1>3, <1>4, PTL DEF Spec, SettledFinal

-----------------------------------------------------------------------------
(* What the code says of its checks, and keeps one request at a time *)

\* "user is already participating in this duel": one request at a time, nobody
\* takes two seats in a duel.
THEOREM SeatedOnce ==
  ASSUME OneAtATime, FewUsers
  PROVE  Spec => []OneSeatPerUser
<1>1. SerialInv => OneSeatPerUser
  BY DEF SerialInv, DuelCurrent, OneSeat, OneSeatPerUser
<1> QED
  BY <1>1, SerialInvariant, PTL

\* One request at a time, players_count is the number of rows of players.
THEOREM CountedOnce ==
  ASSUME OneAtATime, FewUsers
  PROVE  Spec => []CountMatchesRows
<1>1. SerialInv => CountMatchesRows
  BY DEF SerialInv, DuelCurrent, CountMatchesRows
<1> QED
  BY <1>1, SerialInvariant, PTL

\* "resolve is not possible from current status": one request at a time, only a
\* duel in process is paid out.
THEOREM SettledFromInProcess ==
  ASSUME OneAtATime, FewUsers
  PROVE  Spec => SettlesOnlyInProcess
<1> DEFINE Allowed == \A h \in Handlers : Settle(h) => duels[req[h].duel].status = InProcess
<1>1. SerialInv => Allowed
  <2>1. SUFFICES ASSUME SerialInv, NEW h \in Handlers, Settle(h)
                 PROVE  duels[req[h].duel].status = InProcess
    OBVIOUS
  <2>2. req[h].pc = "settle"
    BY <2>1 DEF Settle
  <2> QED
    BY <2>1, <2>2, SettleFacts
<1>2. Init => SerialInv
  BY InitSerialInv
<1>3. SerialInv /\ [Next]_vars => SerialInv'
  BY NextSerial
<1>4. SerialInv /\ [Next]_vars => [Allowed]_vars
  BY <1>1
<1> QED
  BY <1>2, <1>3, <1>4, PTL DEF Spec, SettlesOnlyInProcess

-----------------------------------------------------------------------------
(* The escrow: what a duel's row and its seats say of it *)

PhaseOf(row) ==
    CASE row.status = NoStatus -> "none"
      [] row.status = Resolved -> "paid"
      [] row.status \in Cancelled -> "returned"
      [] OTHER -> "open"

SeatIn(row, rows, u) ==
    LET mine == {i \in DOMAIN rows : rows[i].user = u}
        Mine(status) == mine \cap {i \in DOMAIN rows : rows[i].finalStatus = status}
    IN CASE mine = {} -> "none"
         [] mine # {} /\ PhaseOf(row) = "open" -> "held"
         [] mine # {} /\ PhaseOf(row) = "returned" -> "back"
         [] OTHER -> CASE Mine(PlayerResolved) # {} -> "won"
                       [] Mine(PlayerRefunded) # {} -> "back"
                       [] OTHER -> "lost"

OwnerOf(row) == IF PhaseOf(row) = "none" THEN "nobody" ELSE row.owner

LEMMA EscrowOfRows ==
  ASSUME NEW d \in Duels
  PROVE  /\ Phase(d) = PhaseOf(duels[d]) /\ Phase(d)' = PhaseOf(duels'[d])
         /\ \A u \in Users : /\ SeatOf(d, u) = SeatIn(duels[d], players[d], u)
                             /\ SeatOf(d, u)' = SeatIn(duels'[d], players'[d], u)
<1>1. Phase(d) = PhaseOf(duels[d]) /\ Phase(d)' = PhaseOf(duels'[d])
  BY Zenon DEF Phase, PhaseOf
<1> QED
  BY <1>1, Zenon DEF SeatOf, SeatIn, Rows, RowsWith

LEMMA PhaseCases ==
  ASSUME NEW row
  PROVE  /\ row.status = NoStatus => PhaseOf(row) = "none"
         /\ row.status = Resolved => PhaseOf(row) = "paid"
         /\ row.status \in Cancelled => PhaseOf(row) = "returned"
         /\ row.status \in Live => PhaseOf(row) = "open"
BY StatusesDiffer DEF PhaseOf

\* a seat that is not there, and what the one seat of a user is
LEMMA SeatCases ==
  ASSUME NEW row, NEW rows, OneSeatIn(rows), NEW u
  PROVE  /\ (\A i \in DOMAIN rows : rows[i].user # u) => SeatIn(row, rows, u) = "none"
         /\ \A i \in DOMAIN rows : rows[i].user = u =>
               /\ row.status \in Live => SeatIn(row, rows, u) = "held"
               /\ row.status \in Cancelled => SeatIn(row, rows, u) = "back"
               /\ row.status = Resolved =>
                     SeatIn(row, rows, u) =
                        IF rows[i].finalStatus = PlayerResolved THEN "won"
                        ELSE IF rows[i].finalStatus = PlayerRefunded THEN "back" ELSE "lost"
<1> DEFINE mine == {i \in DOMAIN rows : rows[i].user = u}
           Mine(status) == mine \cap {i \in DOMAIN rows : rows[i].finalStatus = status}
<1>1. CASE \A i \in DOMAIN rows : rows[i].user # u
  <2>1. mine = {}
    BY <1>1
  <2> QED
    BY <1>1, <2>1 DEF SeatIn
<1>2. ASSUME NEW i \in DOMAIN rows, rows[i].user = u
      PROVE  /\ row.status \in Live => SeatIn(row, rows, u) = "held"
             /\ row.status \in Cancelled => SeatIn(row, rows, u) = "back"
             /\ row.status = Resolved =>
                   SeatIn(row, rows, u) =
                      IF rows[i].finalStatus = PlayerResolved THEN "won"
                      ELSE IF rows[i].finalStatus = PlayerRefunded THEN "back" ELSE "lost"
  <2>1. mine = {i}
    BY <1>2 DEF OneSeatIn
  <2>2. mine # {}
    BY <2>1
  <2>3. PICK won, back : won = Mine(PlayerResolved) /\ back = Mine(PlayerRefunded)
    OBVIOUS
  <2>4. /\ won # {} <=> rows[i].finalStatus = PlayerResolved
        /\ back # {} <=> rows[i].finalStatus = PlayerRefunded
    BY <1>2, <2>1, <2>3
  <2>5. SeatIn(row, rows, u) =
          CASE mine = {} -> "none"
            [] mine # {} /\ PhaseOf(row) = "open" -> "held"
            [] mine # {} /\ PhaseOf(row) = "returned" -> "back"
            [] OTHER -> CASE won # {} -> "won"
                          [] back # {} -> "back"
                          [] OTHER -> "lost"
    BY <2>3, Zenon DEF SeatIn
  <2> HIDE DEF mine, Mine
  <2>6. row.status \in Live => SeatIn(row, rows, u) = "held"
    BY <2>2, <2>5, PhaseCases
  <2>7. row.status \in Cancelled => SeatIn(row, rows, u) = "back"
    BY <2>2, <2>5, PhaseCases
  <2>8. row.status = Resolved =>
           SeatIn(row, rows, u) = CASE won # {} -> "won"
                                    [] back # {} -> "back"
                                    [] OTHER -> "lost"
    BY <2>2, <2>5, PhaseCases
  <2>9. row.status = Resolved =>
           SeatIn(row, rows, u) =
              IF rows[i].finalStatus = PlayerResolved THEN "won"
              ELSE IF rows[i].finalStatus = PlayerRefunded THEN "back" ELSE "lost"
    BY <2>4, <2>8, PlayerStatusesDiffer
  <2> QED
    BY <2>6, <2>7, <2>9
<1> QED
  BY <1>1, <1>2

\* the state of the escrow, and that of one duel after a step
Phases == [d \in Duels |-> Phase(d)]
Owners == [d \in Duels |-> IF Phase(d) = "none" THEN "nobody" ELSE duels[d].owner]
Seats == [d \in Duels |-> [u \in Users |-> SeatOf(d, u)]]

LEMMA EscrowNow ==
  /\ Phases = [d \in Duels |-> PhaseOf(duels[d])]
  /\ Phases' = [d \in Duels |-> PhaseOf(duels'[d])]
  /\ Owners = [d \in Duels |-> OwnerOf(duels[d])]
  /\ Owners' = [d \in Duels |-> OwnerOf(duels'[d])]
  /\ Seats = [d \in Duels |-> [u \in Users |-> SeatIn(duels[d], players[d], u)]]
  /\ Seats' = [d \in Duels |-> [u \in Users |-> SeatIn(duels'[d], players'[d], u)]]
<1>1. /\ \A d \in Duels : /\ Phase(d) = PhaseOf(duels[d])
                          /\ \A u \in Users : SeatOf(d, u) = SeatIn(duels[d], players[d], u)
      /\ \A d \in Duels : /\ Phase(d)' = PhaseOf(duels'[d])
                          /\ \A u \in Users : SeatOf(d, u)' = SeatIn(duels'[d], players'[d], u)
  BY EscrowOfRows
<1>2. Phases = [d \in Duels |-> PhaseOf(duels[d])] /\ Phases' = [d \in Duels |-> PhaseOf(duels'[d])]
  BY <1>1 DEF Phases
<1>3. Owners = [d \in Duels |-> OwnerOf(duels[d])]
  BY <1>1 DEF Owners, OwnerOf
<1>4. Owners' = [d \in Duels |-> OwnerOf(duels'[d])]
  BY <1>1 DEF Owners, OwnerOf
<1>5. Seats = [d \in Duels |-> [u \in Users |-> SeatIn(duels[d], players[d], u)]]
  BY <1>1 DEF Seats
<1>6. Seats' = [d \in Duels |-> [u \in Users |-> SeatIn(duels'[d], players'[d], u)]]
  BY <1>1 DEF Seats
<1> QED
  BY <1>2, <1>3, <1>4, <1>5, <1>6

\* the seats read only the phase of the row
LEMMA SeatOfPhase ==
  ASSUME NEW row, NEW row2, NEW rows, NEW u, PhaseOf(row2) = PhaseOf(row)
  PROVE  SeatIn(row2, rows, u) = SeatIn(row, rows, u)
BY Zenon DEF SeatIn

\* the escrow of one duel changes, the others stay
LEMMA EscrowOfOneDuel ==
  ASSUME NEW d \in Duels, \A e \in Duels \ {d} : SameDuel(e)
  PROVE  /\ Phases' = [Phases EXCEPT ![d] = PhaseOf(duels'[d])]
         /\ Owners' = [Owners EXCEPT ![d] = OwnerOf(duels'[d])]
         /\ Seats' = [Seats EXCEPT ![d] = [u \in Users |-> SeatIn(duels'[d], players'[d], u)]]
         /\ Seats'[d] = [u \in Users |-> SeatIn(duels'[d], players'[d], u)]
         /\ Seats[d] = [u \in Users |-> SeatIn(duels[d], players[d], u)]
         /\ Phases[d] = PhaseOf(duels[d]) /\ Owners[d] = OwnerOf(duels[d])
<1>1. \A e \in Duels : /\ Phases[e] = PhaseOf(duels[e]) /\ Phases'[e] = PhaseOf(duels'[e])
                       /\ Owners[e] = OwnerOf(duels[e]) /\ Owners'[e] = OwnerOf(duels'[e])
                       /\ Seats[e] = [u \in Users |-> SeatIn(duels[e], players[e], u)]
                       /\ Seats'[e] = [u \in Users |-> SeatIn(duels'[e], players'[e], u)]
  BY EscrowNow, Zenon
<1>2. \A e \in Duels \ {d} : Phases'[e] = Phases[e] /\ Owners'[e] = Owners[e] /\ Seats'[e] = Seats[e]
  <2>1. SUFFICES ASSUME NEW e \in Duels, e # d
                 PROVE  Phases'[e] = Phases[e] /\ Owners'[e] = Owners[e] /\ Seats'[e] = Seats[e]
    OBVIOUS
  <2>2. duels'[e] = duels[e] /\ players'[e] = players[e]
    BY <2>1 DEF SameDuel
  <2> QED
    BY <1>1, <2>2, Zenon
<1>3. /\ Phases = [e \in Duels |-> Phases[e]] /\ Phases' = [e \in Duels |-> Phases'[e]]
      /\ Owners = [e \in Duels |-> Owners[e]] /\ Owners' = [e \in Duels |-> Owners'[e]]
      /\ Seats = [e \in Duels |-> Seats[e]] /\ Seats' = [e \in Duels |-> Seats'[e]]
  BY EscrowNow, Zenon
<1> QED
  BY <1>1, <1>2, <1>3, Zenon

\* reads, new dates, an approval, the marks of a cancellation
LEMMA EscrowStays ==
  ASSUME \A d \in Duels : /\ PhaseOf(duels'[d]) = PhaseOf(duels[d])
                          /\ duels'[d].owner = duels[d].owner
                          /\ \A u \in Users : SeatIn(duels'[d], players'[d], u)
                                                = SeatIn(duels[d], players[d], u)
  PROVE  Phases' = Phases /\ Owners' = Owners /\ Seats' = Seats
<1>1. \A d \in Duels : OwnerOf(duels'[d]) = OwnerOf(duels[d])
  BY Zenon DEF OwnerOf
<1> QED
  BY <1>1, EscrowNow

LEMMA EscrowOfQuiet ==
  ASSUME SerialInv, SerialInv', Quiet
  PROVE  UNCHANGED <<Phases, Owners, Seats, balance>>
<1>1. ASSUME NEW d \in Duels
      PROVE  /\ PhaseOf(duels'[d]) = PhaseOf(duels[d])
             /\ duels'[d].owner = duels[d].owner
             /\ \A u \in Users : SeatIn(duels'[d], players'[d], u) = SeatIn(duels[d], players[d], u)
  <2>1. duels'[d].status = duels[d].status \/ (duels[d].status \in Live /\ duels'[d].status \in Live)
    BY DEF Quiet, Live
  <2>2. PhaseOf(duels'[d]) = PhaseOf(duels[d])
    <3>1. CASE duels'[d].status = duels[d].status
      BY <3>1, Zenon DEF PhaseOf
    <3> QED
      BY <2>1, <3>1, PhaseCases
  <2>3. players'[d] = players[d] /\ duels'[d].owner = duels[d].owner
    BY DEF Quiet, SameCounts
  <2>4. \A u \in Users : SeatIn(duels'[d], players[d], u) = SeatIn(duels[d], players[d], u)
    BY <2>2, SeatOfPhase
  <2> QED
    BY <2>2, <2>3, <2>4, Zenon
<1> QED
  BY <1>1, EscrowStays DEF Quiet

LEMMA EscrowOfMarked ==
  ASSUME SerialInv, SerialInv', NEW d \in Duels, Marked(d)
  PROVE  UNCHANGED <<Phases, Owners, Seats, balance>>
<1>0. PICK row, old, new : row = duels[d] /\ old = players[d] /\ new = players'[d]
  OBVIOUS
<1>1. duels' = duels /\ balance' = balance /\ row.status \in Live
  BY <1>0 DEF Marked
<1>2. /\ DOMAIN new = DOMAIN old
      /\ \A i \in DOMAIN old : new[i].user = old[i].user
  <2>1. \A i \in DOMAIN old : old[i] \in PlayerRow
    BY <1>0, RowsNow, LenProperties
  <2>2. new = SetStatus(old, DOMAIN old, PlayerRefunded)
    BY <1>0, Zenon DEF Marked
  <2> QED
    BY <2>1, <2>2 DEF SetStatus, PlayerRow
<1>3. OneSeatIn(old) /\ OneSeatIn(new)
  BY <1>0, RowsNow, RowsThen
<1>4. \A u \in Users : SeatIn(row, new, u) = SeatIn(row, old, u)
  BY <1>1, <1>2, <1>3, SeatCases
<1>5. ASSUME NEW e \in Duels
      PROVE  /\ PhaseOf(duels'[e]) = PhaseOf(duels[e]) /\ duels'[e].owner = duels[e].owner
             /\ \A u \in Users : SeatIn(duels'[e], players'[e], u) = SeatIn(duels[e], players[e], u)
  <2>1. CASE e = d
    BY <1>0, <1>1, <1>4, <2>1, Zenon
  <2>2. CASE e # d
    <3>1. duels'[e] = duels[e] /\ players'[e] = players[e]
      BY <2>2 DEF Marked, OthersSame, SameDuel
    <3> QED
      BY <3>1, Zenon
  <2> QED
    BY <2>1, <2>2
<1> QED
  BY <1>1, <1>5, EscrowStays

\* the seats of a duel whose stakes go back
LEMMA EscrowOfReturned ==
  ASSUME SerialInv, SerialInv', NEW d \in Duels, Returned(d)
  PROVE  Escrow!GiveBack(d)
<1>0. PICK row, row2, rows : row = duels[d] /\ row2 = duels'[d] /\ rows = players[d]
  OBVIOUS
<1>1. /\ row.status \in Live /\ row2.status \in Cancelled /\ row2.owner = row.owner
      /\ players' = players /\ \A e \in Duels \ {d} : SameDuel(e)
      /\ balance' = Credit(balance, UsersOf(d, Rows(d)), DuelPrice)
  BY <1>0 DEF Returned, SameCounts, OthersSame
<1>2. PhaseOf(row) = "open" /\ PhaseOf(row2) = "returned" /\ OwnerOf(row2) = OwnerOf(row)
  BY <1>1, PhaseCases DEF OwnerOf
<1>3. OneSeatIn(rows)
  BY <1>0, RowsNow
<1>4. ASSUME NEW u \in Users
      PROVE  /\ SeatIn(row2, rows, u)
                  = IF SeatIn(row, rows, u) = "held" THEN "back" ELSE SeatIn(row, rows, u)
             /\ SeatIn(row, rows, u) = "held" <=> \E i \in DOMAIN rows : rows[i].user = u
  BY <1>1, <1>3, SeatCases
<1>5. /\ Phases' = [Phases EXCEPT ![d] = "returned"] /\ Phases[d] = "open"
      /\ Owners' = Owners
      /\ Seats[d] = [u \in Users |-> SeatIn(row, rows, u)]
      /\ Seats' = [Seats EXCEPT ![d] = [u \in Users |-> SeatIn(row2, rows, u)]]
  <2>1. /\ Phases' = [Phases EXCEPT ![d] = PhaseOf(row2)] /\ Phases[d] = PhaseOf(row)
        /\ Owners' = [Owners EXCEPT ![d] = OwnerOf(row2)] /\ Owners[d] = OwnerOf(row)
        /\ Seats[d] = [u \in Users |-> SeatIn(row, rows, u)]
        /\ Seats' = [Seats EXCEPT ![d] = [u \in Users |-> SeatIn(row2, rows, u)]]
    BY <1>0, <1>1, EscrowOfOneDuel, Zenon
  <2>2. Owners = [Owners EXCEPT ![d] = Owners[d]]
    BY DEF Owners
  <2> QED
    BY <1>2, <2>1, <2>2, Zenon
<1>6. Seats' = [Seats EXCEPT ![d] = [u \in Users |-> IF @[u] = "held" THEN "back" ELSE @[u]]]
  <2>1. [u \in Users |-> SeatIn(row2, rows, u)]
           = [u \in Users |-> IF Seats[d][u] = "held" THEN "back" ELSE Seats[d][u]]
    BY <1>4, <1>5
  <2> QED
    BY <1>5, <2>1, Zenon
<1>7. balance' = [u \in Users |-> IF Seats[d][u] = "held" THEN balance[u] + DuelPrice
                                                          ELSE balance[u]]
  <2>1. \A u \in Users : u \in UsersOf(d, Rows(d)) <=> Seats[d][u] = "held"
    BY <1>0, <1>4, <1>5 DEF UsersOf, Rows
  <2> QED
    BY <1>1, <2>1, Zenon DEF Credit
<1> QED
  BY <1>5, <1>6, <1>7 DEF Escrow!GiveBack, Phases, Owners, Seats

\* a seat that is taken, in a new duel or in one that is open
LEMMA EscrowOfSeatAdded ==
  ASSUME SerialInv, SerialInv', NEW d \in Duels, NEW seat \in PlayerRow, SeatAdded(d, seat)
  PROVE  \E u \in Users : Escrow!Join(d, u) \/ \E charge \in {0, DuelPrice} : Escrow!Open(d, u, charge)
<1>0. PICK row, row2, rows, new, w :
        /\ row = duels[d] /\ row2 = duels'[d] /\ rows = players[d] /\ new = players'[d]
        /\ w = seat.user
  OBVIOUS
<1>1. /\ \A e \in Duels \ {d} : SameDuel(e)
      /\ new = Append(rows, seat) /\ row2.status \in Live
      /\ \/ row.status = NoStatus /\ row2.owner = w
         \/ row.status \in Live /\ row2.owner = row.owner /\ seat.charged
      /\ w \notin UsersOf(d, Rows(d)) /\ w \in Users
  BY <1>0 DEF SeatAdded, OthersSame, PlayerRow
<1>2. /\ DOMAIN new = DOMAIN rows \cup {Len(rows) + 1} /\ Len(rows) + 1 \notin DOMAIN rows
      /\ \A i \in DOMAIN rows : new[i] = rows[i]
      /\ new[Len(rows) + 1] = seat
  BY <1>0, <1>1, RowsNow, AppendRow
<1>3. OneSeatIn(rows) /\ OneSeatIn(new)
  BY <1>0, RowsNow, RowsThen
<1>4. row.status = NoStatus => rows = <<>>
  BY <1>0 DEF SerialInv, DuelCurrent
<1>5. \A i \in DOMAIN rows : rows[i].user # w
  BY <1>0, <1>1 DEF UsersOf, Rows
<1>6. SeatIn(row, rows, w) = "none" /\ SeatIn(row2, new, w) = "held"
  <2>1. Len(rows) + 1 \in DOMAIN new /\ new[Len(rows) + 1].user = w
    BY <1>0, <1>2
  <2>2. row2.status \in Live
    BY <1>1
  <2>3. SeatIn(row2, new, w) = "held"
    BY <1>3, <2>1, <2>2, SeatCases
  <2> QED
    BY <1>3, <1>5, <2>3, SeatCases
<1>7. ASSUME NEW u \in Users, u # w
      PROVE  SeatIn(row2, new, u) = SeatIn(row, rows, u)
  <2>1. CASE \A i \in DOMAIN rows : rows[i].user # u
    <3>1. \A i \in DOMAIN new : new[i].user # u
      BY <1>0, <1>2, <1>7, <2>1
    <3> QED
      BY <1>3, <2>1, <3>1, SeatCases
  <2>2. ASSUME NEW i \in DOMAIN rows, rows[i].user = u
        PROVE  SeatIn(row2, new, u) = SeatIn(row, rows, u)
    <3>1. row.status \in Live
      BY <1>1, <1>4, <2>2
    <3>2. i \in DOMAIN new /\ new[i].user = u
      BY <1>2, <2>2
    <3> QED
      BY <1>1, <1>3, <2>2, <3>1, <3>2, SeatCases
  <2> QED
    BY <2>1, <2>2
<1>8. /\ Phases' = [Phases EXCEPT ![d] = PhaseOf(row2)] /\ Phases[d] = PhaseOf(row)
      /\ Owners' = [Owners EXCEPT ![d] = OwnerOf(row2)] /\ Owners[d] = OwnerOf(row)
      /\ Seats[d] = [u \in Users |-> SeatIn(row, rows, u)]
      /\ Seats' = [Seats EXCEPT ![d] = [u \in Users |-> SeatIn(row2, new, u)]]
  BY <1>0, <1>1, EscrowOfOneDuel, Zenon
<1>9. Seats' = [Seats EXCEPT ![d][w] = "held"] /\ Seats[d][w] = "none"
  <2>1. [u \in Users |-> SeatIn(row2, new, u)] = [Seats[d] EXCEPT ![w] = "held"]
    BY <1>1, <1>6, <1>7, <1>8
  <2>2. Seats[d][w] = "none"
    BY <1>1, <1>6, <1>8
  <2> QED
    BY <1>8, <2>1, <2>2, Zenon
<1>10. PhaseOf(row2) = "open"
  BY <1>1, PhaseCases
<1>11. PICK charge : /\ charge = IF seat.charged THEN DuelPrice ELSE 0
                     /\ balance' = [balance EXCEPT ![w] = @ - charge]
  BY <1>0, Zenon DEF SeatAdded
<1>12. charge \in {0, DuelPrice} /\ (seat.charged => charge = DuelPrice)
  BY <1>11
<1>13. CASE row.status = NoStatus /\ row2.owner = w
  <2>1. Phases[d] = "none" /\ Phases' = [Phases EXCEPT ![d] = "open"]
    BY <1>8, <1>10, <1>13, PhaseCases, Zenon
  <2>2. Owners' = [Owners EXCEPT ![d] = w]
    <3>1. OwnerOf(row2) = w
      BY <1>10, <1>13 DEF OwnerOf
    <3> QED
      BY <1>8, <3>1, Zenon
  <2>3. Escrow!Open(d, w, charge)
    BY <1>9, <1>11, <2>1, <2>2, Zenon DEF Escrow!Open, Escrow!Take, Phases, Owners, Seats
  <2> QED
    BY <1>1, <1>12, <2>3
<1>14. CASE row.status \in Live /\ row2.owner = row.owner /\ seat.charged
  <2>1. PhaseOf(row) = "open"
    BY <1>14, PhaseCases
  <2>2. OwnerOf(row2) = OwnerOf(row)
    BY <1>10, <1>14, <2>1, Zenon DEF OwnerOf
  <2>3. Phases' = Phases /\ Owners' = Owners /\ Phases[d] = "open"
    <3>1. Phases = [Phases EXCEPT ![d] = Phases[d]] /\ Owners = [Owners EXCEPT ![d] = Owners[d]]
      BY DEF Phases, Owners
    <3> QED
      BY <1>8, <1>10, <2>1, <2>2, <3>1, Zenon
  <2>4. balance' = [balance EXCEPT ![w] = @ - DuelPrice]
    BY <1>11, <1>12, <1>14, Zenon
  <2>5. Escrow!Join(d, w)
    BY <1>9, <2>3, <2>4, Zenon DEF Escrow!Join, Escrow!Take, Phases, Owners, Seats
  <2> QED
    BY <1>1, <2>5
<1> QED
  BY <1>1, <1>13, <1>14

\* the seats of a duel that is settled
LEMMA SeatsOfSettled ==
  ASSUME SerialInv, SerialInv', NEW d \in Duels, NEW answer \in Answers, NEW cutoff \in Int,
         Settled(d, answer, cutoff), NEW u \in Users
  PROVE  LET W == UsersOf(d, WinnersOf(d, answer, cutoff))
             V == UsersOf(d, LosersOf(d, answer, cutoff))
             L == UsersOf(d, LateRows(d, cutoff))
             was == SeatIn(duels[d], players[d], u)
             is == SeatIn(duels'[d], players'[d], u)
         IN  \/ u \in W /\ u \notin V /\ u \notin L /\ was = "held" /\ is = "won"
             \/ u \in V /\ u \notin W /\ u \notin L /\ was = "held" /\ is = "lost"
             \/ u \in L /\ u \notin W /\ u \notin V /\ was = "held" /\ is = "back"
             \/ u \notin W /\ u \notin V /\ u \notin L /\ was = "none" /\ is = "none"
<1>0. PICK row, row2, rows, new, W, V, L :
        /\ row = duels[d] /\ row2 = duels'[d] /\ rows = players[d] /\ new = players'[d]
        /\ W = WinnersOf(d, answer, cutoff) /\ V = LosersOf(d, answer, cutoff)
        /\ L = LateRows(d, cutoff)
  OBVIOUS
<1>1. row.status \in Live /\ row2.status = Resolved
  BY <1>0 DEF Settled, Live
<1>2. W \cup V \cup L = DOMAIN rows /\ W \cap V = {} /\ W \cap L = {} /\ V \cap L = {}
  BY <1>0, KindsOfRows DEF SerialInv, Rows
<1>3. /\ DOMAIN new = DOMAIN rows
      /\ \A i \in DOMAIN rows : new[i].user = rows[i].user
      /\ {i \in DOMAIN new : new[i].finalStatus = PlayerResolved} = W
      /\ {i \in DOMAIN new : new[i].finalStatus = PlayerActive} = V
      /\ {i \in DOMAIN new : new[i].finalStatus = PlayerRefunded} = L
  <2>1. TypeOK'
    BY DEF SerialInv, IInv
  <2> QED
    BY <1>0, <2>1, SettledRows
<1>4. /\ \A i \in W : new[i].finalStatus = PlayerResolved
      /\ \A i \in V : new[i].finalStatus = PlayerActive
      /\ \A i \in L : new[i].finalStatus = PlayerRefunded
  BY <1>3
<1>5. OneSeatIn(rows) /\ OneSeatIn(new)
  BY <1>0, RowsNow, RowsThen
<1>6. /\ u \in UsersOf(d, W) <=> \E i \in W : rows[i].user = u
      /\ u \in UsersOf(d, V) <=> \E i \in V : rows[i].user = u
      /\ u \in UsersOf(d, L) <=> \E i \in L : rows[i].user = u
  BY <1>0 DEF UsersOf
<1>7. CASE \A i \in DOMAIN rows : rows[i].user # u
  <2>1. SeatIn(row, rows, u) = "none"
    BY <1>5, <1>7, SeatCases
  <2>2. \A i \in DOMAIN new : new[i].user # u
    BY <1>3, <1>7
  <2>3. SeatIn(row2, new, u) = "none"
    BY <1>5, <2>2, SeatCases
  <2>4. u \notin UsersOf(d, W) /\ u \notin UsersOf(d, V) /\ u \notin UsersOf(d, L)
    BY <1>2, <1>6, <1>7
  <2> QED
    BY <1>0, <2>1, <2>3, <2>4
<1>8. ASSUME NEW i \in DOMAIN rows, rows[i].user = u
      PROVE  LET was == SeatIn(row, rows, u)
                 is == SeatIn(row2, new, u)
             IN  \/ u \in UsersOf(d, W) /\ u \notin UsersOf(d, V) /\ u \notin UsersOf(d, L)
                       /\ was = "held" /\ is = "won"
                 \/ u \in UsersOf(d, V) /\ u \notin UsersOf(d, W) /\ u \notin UsersOf(d, L)
                       /\ was = "held" /\ is = "lost"
                 \/ u \in UsersOf(d, L) /\ u \notin UsersOf(d, W) /\ u \notin UsersOf(d, V)
                       /\ was = "held" /\ is = "back"
  <2>1. \A j \in W \cup V \cup L : rows[j].user = u => j = i
    BY <1>2, <1>5, <1>8 DEF OneSeatIn
  <2>2. /\ u \in UsersOf(d, W) <=> i \in W
        /\ u \in UsersOf(d, V) <=> i \in V
        /\ u \in UsersOf(d, L) <=> i \in L
    BY <1>6, <1>8, <2>1
  <2>3. \/ i \in W /\ i \notin V /\ i \notin L /\ new[i].finalStatus = PlayerResolved
        \/ i \in V /\ i \notin W /\ i \notin L /\ new[i].finalStatus = PlayerActive
        \/ i \in L /\ i \notin W /\ i \notin V /\ new[i].finalStatus = PlayerRefunded
    BY <1>2, <1>4, <1>8, Zenon
  <2>4. SeatIn(row, rows, u) = "held"
    BY <1>1, <1>5, <1>8, SeatCases
  <2>5. SeatIn(row2, new, u) = IF new[i].finalStatus = PlayerResolved THEN "won"
                               ELSE IF new[i].finalStatus = PlayerRefunded THEN "back" ELSE "lost"
    <3>1. i \in DOMAIN new /\ new[i].user = u
      BY <1>3, <1>8
    <3> QED
      BY <1>1, <1>5, <3>1, SeatCases
  <2> QED
    BY <2>2, <2>3, <2>4, <2>5, PlayerStatusesDiffer
<1> QED
  BY <1>0, <1>7, <1>8, Zenon

\* what the winners and the owner of a settled duel share
LEMMA GainsOfSettled ==
  ASSUME SerialInv, FewUsers, NEW d \in Duels, NEW answer \in Answers, NEW cutoff \in Int,
         Settled(d, answer, cutoff), NEW gain,
         \A u \in Users : gain[u] =
              (IF u \in UsersOf(d, WinnersOf(d, answer, cutoff))
                 THEN AmountOf(d, answer, cutoff) ELSE 0)
            + (IF u = duels[d].owner THEN OwnerPart(d, answer, cutoff) ELSE 0)
  PROVE  SumFunctionOnSet(gain, Users)
           <= DuelPrice * Cardinality(UsersOf(d, WinnersOf(d, answer, cutoff))
                                        \cup UsersOf(d, LosersOf(d, answer, cutoff)))
<1>0. PICK W, V, UW, UV, amount, part, owner :
        /\ W = WinnersOf(d, answer, cutoff) /\ V = LosersOf(d, answer, cutoff)
        /\ UW = UsersOf(d, W) /\ UV = UsersOf(d, V)
        /\ amount = AmountOf(d, answer, cutoff) /\ part = OwnerPart(d, answer, cutoff)
        /\ owner = duels[d].owner
  OBVIOUS
<1>1. IInv /\ OneSeat(d) /\ W # {}
  BY <1>0 DEF SerialInv, DuelCurrent, Settled
<1>2. /\ W \in SUBSET Rows(d) /\ V \in SUBSET Rows(d) /\ W \cap V = {}
      /\ Cardinality(W) \in Nat /\ Cardinality(V) \in Nat
  BY <1>0, <1>1, KindsOfRows
<1>3. /\ IsFiniteSet(UW) /\ UW \in SUBSET Users /\ Cardinality(UW) = Cardinality(W)
      /\ IsFiniteSet(UV) /\ UV \in SUBSET Users /\ Cardinality(UV) = Cardinality(V)
  BY <1>0, <1>1, <1>2, UsersOfSeats
<1>4. UW \cap UV = {}
  BY <1>0, <1>1, <1>2 DEF UsersOf, OneSeat
<1>5. Cardinality(UW \cup UV) = Cardinality(W) + Cardinality(V)
  BY <1>3, <1>4, DisjointUnion
<1>6. /\ amount \in Nat /\ part \in Nat
      /\ Cardinality(W) * amount + part <= PlayedPool(d, answer, cutoff)
      /\ PlayedPool(d, answer, cutoff) = DuelPrice * (Cardinality(W) + Cardinality(V))
  BY <1>0, <1>1, SettlementPays
<1> DEFINE f == [u \in Users |-> IF u \in UW THEN amount ELSE 0]
           g == [u \in Users |-> IF u = owner THEN part ELSE 0]
           A == Users \cap {owner}
<1>7. /\ \A u \in UW : f[u] = amount
      /\ \A u \in Users \ UW : f[u] = 0
      /\ \A u \in A : g[u] = part
      /\ \A u \in Users \ A : g[u] = 0
      /\ \A u \in Users : f[u] \in Int /\ g[u] \in Int /\ gain[u] = f[u] + g[u]
  BY <1>0, <1>3, <1>6
<1> HIDE DEF f, g
<1>8. SumFunctionOnSet(f, Users) = Cardinality(W) * amount
  BY <1>3, <1>6, <1>7, SumOnPart DEF FewUsers
<1>9. SumFunctionOnSet(g, Users) <= part /\ SumFunctionOnSet(g, Users) \in Int
  <2>1. SumFunctionOnSet(g, Users) = Cardinality(A) * part
    BY <1>6, <1>7, SumOnPart DEF FewUsers
  <2>2. Cardinality(A) \in {0, 1}
    <3>1. A = {} \/ A = {owner}
      OBVIOUS
    <3> QED
      BY <3>1, FS_EmptySet, FS_Singleton
  <2> QED
    BY <1>6, <2>1, <2>2
<1>10. SumFunctionOnSet(gain, Users) = SumFunctionOnSet(f, Users) + SumFunctionOnSet(g, Users)
  BY <1>7, SumOfSum DEF FewUsers, IntOn
<1>11. Cardinality(W) * amount \in Int
  BY <1>2, <1>6
<1>12. SumFunctionOnSet(gain, Users) <= DuelPrice * Cardinality(UW \cup UV)
  <2>1. SumFunctionOnSet(gain, Users) <= PlayedPool(d, answer, cutoff)
    <3>1. DuelPrice * (Cardinality(W) + Cardinality(V)) \in Int
      BY <1>2, AmountsAssumption
    <3> QED
      BY <1>6, <1>8, <1>9, <1>10, <1>11, <3>1
  <2> QED
    BY <1>5, <1>6, <2>1
<1> QED
  BY <1>0, <1>12

\* the operators of the libraries that DuelEscrow extends are those used here
LEMMA SameLibraries ==
  /\ \A S : Escrow!Cardinality(S) = Cardinality(S)
  /\ \A f : Escrow!SumFunction(f) = SumFunction(f)
<1>1. \A S : Escrow!Cardinality(S) = Cardinality(S)
  BY Zenon DEF Escrow!Cardinality, Cardinality
<1>2. \A f : Escrow!SumFunction(f) = SumFunction(f)
  BY Zenon DEF Escrow!SumFunction, SumFunction, Escrow!SumFunctionOnSet, SumFunctionOnSet,
      Escrow!FoldFunctionOnSet, FoldFunctionOnSet, Escrow!MapThenFoldSet, MapThenFoldSet
<1> QED
  BY <1>1, <1>2

LEMMA EscrowOfSettled ==
  ASSUME SerialInv, SerialInv', FewUsers, NEW d \in Duels, NEW answer \in Answers,
         NEW cutoff \in Int, Settled(d, answer, cutoff)
  PROVE  Escrow!Pay(d)
<1>0. PICK row, row2, rows, new, UW, UV, UL, amount, part, owner :
        /\ row = duels[d] /\ row2 = duels'[d] /\ rows = players[d] /\ new = players'[d]
        /\ UW = UsersOf(d, WinnersOf(d, answer, cutoff))
        /\ UV = UsersOf(d, LosersOf(d, answer, cutoff))
        /\ UL = UsersOf(d, LateRows(d, cutoff))
        /\ amount = AmountOf(d, answer, cutoff) /\ part = OwnerPart(d, answer, cutoff)
        /\ owner = duels[d].owner
  OBVIOUS
<1>1. /\ \A e \in Duels \ {d} : SameDuel(e)
      /\ row.status \in Live /\ row2.status = Resolved /\ row2.owner = row.owner
      /\ WinnersOf(d, answer, cutoff) # {} /\ LosersOf(d, answer, cutoff) # {}
  BY <1>0 DEF Settled, OthersSame, Live
<1>2. PhaseOf(row) = "open" /\ PhaseOf(row2) = "paid" /\ OwnerOf(row2) = owner /\ OwnerOf(row) = owner
  BY <1>0, <1>1, PhaseCases DEF OwnerOf
<1>3. /\ Phases' = [Phases EXCEPT ![d] = "paid"] /\ Phases[d] = "open"
      /\ Owners' = Owners /\ Owners[d] = owner
      /\ Seats[d] = [u \in Users |-> SeatIn(row, rows, u)]
      /\ Seats'[d] = [u \in Users |-> SeatIn(row2, new, u)]
      /\ \A e \in Duels \ {d} : Seats'[e] = Seats[e]
  <2>1. /\ Phases' = [Phases EXCEPT ![d] = PhaseOf(row2)] /\ Phases[d] = PhaseOf(row)
        /\ Owners' = [Owners EXCEPT ![d] = OwnerOf(row2)] /\ Owners[d] = OwnerOf(row)
        /\ Seats[d] = [u \in Users |-> SeatIn(row, rows, u)]
        /\ Seats'[d] = [u \in Users |-> SeatIn(row2, new, u)]
        /\ Seats' = [Seats EXCEPT ![d] = [u \in Users |-> SeatIn(row2, new, u)]]
    BY <1>0, <1>1, EscrowOfOneDuel, Zenon
  <2>2. /\ Owners = [Owners EXCEPT ![d] = Owners[d]]
        /\ Seats \in [Duels -> [Users -> {Seats[e][u] : e \in Duels, u \in Users}]]
    BY DEF Owners, Seats
  <2>3. \A e \in Duels \ {d} : Seats'[e] = Seats[e]
    BY <2>1, <2>2
  <2> QED
    BY <1>2, <2>1, <2>2, <2>3, Zenon
<1>4. /\ UW # {} /\ UV # {} /\ UW \in SUBSET Users /\ UV \in SUBSET Users
  <2>1. /\ WinnersOf(d, answer, cutoff) \in SUBSET Rows(d)
        /\ LosersOf(d, answer, cutoff) \in SUBSET Rows(d)
    BY DEF WinnersOf, LosersOf, GetDuelWinners
  <2>2. IInv
    BY DEF SerialInv
  <2>3. UW \in SUBSET Users /\ UV \in SUBSET Users
    BY <1>0, <2>1, <2>2, RowSetsFinite
  <2> QED
    BY <1>0, <1>1, <2>3 DEF UsersOf
<1>5. ASSUME NEW u \in Users
      PROVE  \/ u \in UW /\ u \notin UV /\ u \notin UL /\ Seats[d][u] = "held" /\ Seats'[d][u] = "won"
             \/ u \in UV /\ u \notin UW /\ u \notin UL /\ Seats[d][u] = "held" /\ Seats'[d][u] = "lost"
             \/ u \in UL /\ u \notin UW /\ u \notin UV /\ Seats[d][u] = "held" /\ Seats'[d][u] = "back"
             \/ u \notin UW /\ u \notin UV /\ u \notin UL
                  /\ Seats[d][u] = "none" /\ Seats'[d][u] = "none"
  <2>1. Seats[d][u] = SeatIn(row, rows, u) /\ Seats'[d][u] = SeatIn(row2, new, u)
    BY <1>3
  <2>2. \/ u \in UW /\ u \notin UV /\ u \notin UL
             /\ SeatIn(row, rows, u) = "held" /\ SeatIn(row2, new, u) = "won"
        \/ u \in UV /\ u \notin UW /\ u \notin UL
             /\ SeatIn(row, rows, u) = "held" /\ SeatIn(row2, new, u) = "lost"
        \/ u \in UL /\ u \notin UW /\ u \notin UV
             /\ SeatIn(row, rows, u) = "held" /\ SeatIn(row2, new, u) = "back"
        \/ u \notin UW /\ u \notin UV /\ u \notin UL
             /\ SeatIn(row, rows, u) = "none" /\ SeatIn(row2, new, u) = "none"
    BY <1>0, SeatsOfSettled, Zenon
  <2> QED
    BY <2>1, <2>2, Zenon
<1> DEFINE Gain(u) == balance'[u] - balance[u]
                        - (IF Seats'[d][u] = "back" THEN DuelPrice ELSE 0)
                        - (IF Seats'[d][u] = "lost" /\ u \in Premium
                             THEN PremiumPlayersConsolationReward ELSE 0)
           Now(what) == {u \in Users : Seats'[d][u] = what}
<1>6. amount \in Nat /\ part \in Nat /\ DuelPrice \in Nat /\ PremiumPlayersConsolationReward \in Nat
  <2>1. IInv
    BY DEF SerialInv
  <2>2. amount \in Nat /\ part \in Nat
    BY <1>0, <1>1, <2>1, SettlementPays
  <2> QED
    BY <2>2, AmountsAssumption DEF PremiumPlayersConsolationReward
<1>7. ASSUME NEW u \in Users
      PROVE  Gain(u) = (IF u \in UW THEN amount ELSE 0) + (IF u = owner THEN part ELSE 0)
  <2>1. balance'[u] = balance[u] + PaidTo(d, answer, cutoff, u)
    BY Zenon DEF Settled
  <2>2. PaidTo(d, answer, cutoff, u) =
              (IF u \in UW THEN amount ELSE 0)
            + (IF u \in UV \cap Premium THEN PremiumPlayersConsolationReward ELSE 0)
            + (IF u = owner THEN part ELSE 0)
            + (IF u \in UL THEN DuelPrice ELSE 0)
    BY <1>0, Zenon DEF PaidTo
  <2>3. balance[u] \in Nat
    BY DEF SerialInv, IInv, TypeOK
  <2> HIDE DEF PremiumPlayersConsolationReward
  <2>4. PICK b, b2, consolation : /\ b = balance[u] /\ b2 = balance'[u]
                                  /\ consolation = PremiumPlayersConsolationReward
    OBVIOUS
  <2>5. Gain(u) = b2 - b - (IF u \in UL THEN DuelPrice ELSE 0)
                         - (IF u \in UV /\ u \in Premium THEN consolation ELSE 0)
    BY <1>5, <2>4
  <2>6. b2 = b + ((IF u \in UW THEN amount ELSE 0)
            + (IF u \in UV /\ u \in Premium THEN consolation ELSE 0)
            + (IF u = owner THEN part ELSE 0)
            + (IF u \in UL THEN DuelPrice ELSE 0))
    BY <2>1, <2>2, <2>4
  <2>7. b \in Nat /\ consolation \in Nat
    BY <1>6, <2>3, <2>4
  <2> HIDE DEF Gain
  <2> QED
    BY <1>6, <2>5, <2>6, <2>7
<1>8. Now("won") = UW /\ Now("lost") = UV
  BY <1>4, <1>5
<1> HIDE DEF Gain, Now
<1>9. /\ \A u, w \in UW \ {owner} : Gain(u) = Gain(w)
      /\ \A u \in Users : Gain(u) >= 0
      /\ \A u \in Users \ (UW \cup {owner}) : Gain(u) = 0
  BY <1>4, <1>6, <1>7
<1>10. SumFunction([u \in Users |-> Gain(u)]) <= DuelPrice * Cardinality(UW \cup UV)
  <2> DEFINE gain == [u \in Users |-> Gain(u)]
  <2>1. \A u \in Users : gain[u] = (IF u \in UsersOf(d, WinnersOf(d, answer, cutoff))
                                      THEN AmountOf(d, answer, cutoff) ELSE 0)
                                 + (IF u = duels[d].owner THEN OwnerPart(d, answer, cutoff) ELSE 0)
    BY <1>0, <1>7, Zenon
  <2>2. SumFunction(gain) = SumFunctionOnSet(gain, Users)
    BY Zenon DEF SumFunction
  <2> HIDE DEF gain
  <2>3. SumFunctionOnSet(gain, Users)
           <= DuelPrice * Cardinality(UsersOf(d, WinnersOf(d, answer, cutoff))
                                        \cup UsersOf(d, LosersOf(d, answer, cutoff)))
    BY <2>1, GainsOfSettled
  <2>4. SumFunctionOnSet(gain, Users) <= DuelPrice * Cardinality(UW \cup UV)
    BY <1>0, <2>3, Zenon
  <2>5. SumFunction(gain) <= DuelPrice * Cardinality(UW \cup UV)
    BY <2>2, <2>4, Zenon
  <2> QED
    BY <2>5, Zenon DEF gain
<1>11. /\ Phases[d] = "open" /\ Phases' = [Phases EXCEPT ![d] = "paid"] /\ Owners' = Owners
       /\ \A u \in Users : IF Seats[d][u] = "held"
                             THEN Seats'[d][u] \in {"won", "lost", "back"}
                             ELSE Seats'[d][u] = Seats[d][u]
       /\ \A e \in Duels \ {d} : Seats'[e] = Seats[e]
  BY <1>3, <1>5
<1>12. /\ Now("won") # {} /\ Now("lost") # {}
       /\ \A u, w \in Now("won") \ {Owners[d]} : Gain(u) = Gain(w)
       /\ \A u \in Users : Gain(u) >= 0
       /\ \A u \in Users \ (Now("won") \cup {Owners[d]}) : Gain(u) = 0
       /\ SumFunction([u \in Users |-> Gain(u)])
            <= DuelPrice * Cardinality(Now("won") \cup Now("lost"))
  BY <1>3, <1>4, <1>8, <1>9, <1>10, Zenon
<1>13. Escrow!SumFunction([u \in Users |-> Gain(u)])
         <= DuelPrice * Escrow!Cardinality(Now("won") \cup Now("lost"))
  BY <1>12, SameLibraries, Zenon
<1> QED
  BY <1>11, <1>12, <1>13, Zenon DEF Escrow!Pay, Escrow!Gain, Gain, Now, Phases, Owners, Seats

\* every step is a step of the escrow or none
LEMMA EscrowStep ==
  ASSUME SerialInv, SerialInv', FewUsers, Shape
  PROVE  [Escrow!EscrowNext]_(Escrow!escrow)
<1>1. CASE UNCHANGED <<Phases, Owners, Seats, balance>>
  BY <1>1, Zenon DEF Escrow!escrow, Phases, Owners, Seats
<1>2. CASE \E d \in Duels :
              \/ \E u \in Users : Escrow!Join(d, u) \/ \E charge \in {0, DuelPrice} : Escrow!Open(d, u, charge)
              \/ Escrow!Pay(d)
              \/ Escrow!GiveBack(d)
  BY <1>2, Zenon DEF Escrow!EscrowNext
<1>3. CASE Quiet
  BY <1>1, <1>3, EscrowOfQuiet
<1>4. ASSUME NEW d \in Duels, NEW seat \in PlayerRow, SeatAdded(d, seat)
      PROVE  [Escrow!EscrowNext]_(Escrow!escrow)
  BY <1>2, <1>4, EscrowOfSeatAdded, Zenon
<1>5. ASSUME NEW d \in Duels, NEW answer \in Answers, NEW cutoff \in Int,
             Settled(d, answer, cutoff)
      PROVE  [Escrow!EscrowNext]_(Escrow!escrow)
  BY <1>2, <1>5, EscrowOfSettled, Zenon
<1>6. ASSUME NEW d \in Duels, Marked(d)
      PROVE  [Escrow!EscrowNext]_(Escrow!escrow)
  BY <1>1, <1>6, EscrowOfMarked, Zenon
<1>7. ASSUME NEW d \in Duels, Returned(d)
      PROVE  [Escrow!EscrowNext]_(Escrow!escrow)
  BY <1>2, <1>7, EscrowOfReturned, Zenon
<1> QED
  BY <1>3, <1>4, <1>5, <1>6, <1>7, Zenon DEF Shape

LEMMA InitEscrow ==
  ASSUME Init
  PROVE  Escrow!EscrowInit
<1>1. /\ \A d \in Duels : duels[d].status = NoStatus /\ players[d] = <<>>
      /\ balance \in [Users -> Nat]
  BY AmountsAssumption DEF Init, NoDuel
<1>2. ASSUME NEW d \in Duels
      PROVE  /\ PhaseOf(duels[d]) = "none" /\ OwnerOf(duels[d]) = "nobody"
             /\ \A u \in Users : SeatIn(duels[d], players[d], u) = "none"
  <2>1. OneSeatIn(players[d]) /\ DOMAIN players[d] = {}
    BY <1>1 DEF OneSeatIn
  <2>2. PhaseOf(duels[d]) = "none"
    BY <1>1, PhaseCases
  <2> QED
    BY <2>1, <2>2, SeatCases DEF OwnerOf
<1>3. /\ Phases = [d \in Duels |-> "none"]
      /\ Owners \in [Duels -> {"nobody"}]
      /\ Seats = [d \in Duels |-> [u \in Users |-> "none"]]
  BY <1>2, EscrowNow
<1> QED
  BY <1>1, <1>3, Zenon DEF Escrow!EscrowInit, Phases, Owners, Seats

\* One request at a time, the transactions implement the escrow: every duel
\* closes once, pays winners and owner no more than the stakes that played, and
\* returns the others.
THEOREM SerialDuelsKeepEscrow ==
  ASSUME OneAtATime, FewUsers
  PROVE  Spec => KeepsEscrow
<1>1. Init => SerialInv /\ Escrow!EscrowInit
  BY InitSerialInv, InitEscrow
<1>2. SerialInv /\ [Next]_vars => SerialInv' /\ [Escrow!EscrowNext]_(Escrow!escrow)
  BY NextSerial, EscrowStep
<1> QED
  BY <1>1, <1>2, PTL DEF Spec, KeepsEscrow, Escrow!EscrowSpec

-----------------------------------------------------------------------------
(* The moderator's pay *)

\* A moderator's request works on one duel, whose status passed its checks.
Chargeable(r) ==
    r.job = "admin" =>
       /\ r.batch = {}
       /\ \/ /\ r.pc \in {"winners", "refunds", "settle"}
             /\ r.target = NoStatus /\ r.snap.status = InProcess
          \/ /\ r.pc \in {"cancel", "cancelCommit"}
             /\ \/ r.target = AdminCancelled /\ r.snap.status = InReview
                \/ r.target = Refund /\ r.snap.status = InProcess

AllChargeable == \A h \in Handlers : Chargeable(req[h])

\* a handler takes up a request the moderator is paid for, or one that is not his
LEMMA BecomeChargeable ==
  ASSUME TypeOK, AllChargeable, NEW h \in Handlers, NEW r, Become(h, r), Chargeable(r)
  PROVE  AllChargeable'
<1>1. \A g \in Handlers : req'[g] = IF g = h THEN r ELSE req[g]
  BY DEF TypeOK, Become
<1>2. \A g \in Handlers : Chargeable(req'[g])
  BY <1>1 DEF AllChargeable
<1> QED
  BY <1>2 DEF AllChargeable, Chargeable

LEMMA OthersChargeable ==
  ASSUME NEW r, r.job # "admin"
  PROVE  Chargeable(r)
BY DEF Chargeable

\* the end of a request, and the rest of a list
LEMMA IdleChargeable ==
  ASSUME TypeOK, AllChargeable, NEW h \in Handlers, Become(h, Idle) \/ Finish(h) \/ Fail(h)
  PROVE  AllChargeable'
<1>1. PICK rest : rest = [Idle EXCEPT !.pc = "next", !.job = req[h].job, !.batch = req[h].batch]
  OBVIOUS
<1>2. rest.job = req[h].job
  BY <1>1 DEF Idle
<1>3. Become(h, Idle) \/ (Become(h, rest) /\ req[h].batch # {})
  BY <1>1 DEF Finish, Fail
<1>4. Chargeable(Idle)
  BY OthersChargeable DEF Idle
<1>5. req[h].batch # {} => rest.job # "admin"
  BY <1>2 DEF AllChargeable, Chargeable
<1> QED
  BY <1>3, <1>4, <1>5, BecomeChargeable, OthersChargeable

\* the moderator's own requests
LEMMA ModeratorChargeable ==
  ASSUME TypeOK, AllChargeable, NEW h \in Handlers, NEW d \in Duels,
         \/ \E answer \in Answers : ResolveDuckPointDuelByAdmin(h, d, answer)
         \/ \E target \in Statuses : CancelDuckPointDuelByAdmin(h, d, target)
  PROVE  AllChargeable'
<1>1. ASSUME NEW answer \in Answers, ResolveDuckPointDuelByAdmin(h, d, answer)
      PROVE  AllChargeable'
  <2>1. PICK r : r = [Idle EXCEPT !.pc = "winners", !.job = "admin", !.duel = d,
                                  !.snap = duels[d], !.answer = answer,
                                  !.cutoff = duels[d].deadline]
    OBVIOUS
  <2>2. /\ r.pc = "winners" /\ r.batch = {} /\ r.target = NoStatus /\ r.snap = duels[d]
    BY <2>1 DEF Idle
  <2>3. Become(h, r) /\ duels[d].status = InProcess
    BY <1>1, <2>1, Zenon DEF ResolveDuckPointDuelByAdmin
  <2>4. Chargeable(r)
    BY <2>2, <2>3 DEF Chargeable
  <2> QED
    BY <2>3, <2>4, BecomeChargeable
<1>2. ASSUME NEW target \in Statuses, CancelDuckPointDuelByAdmin(h, d, target)
      PROVE  AllChargeable'
  <2>1. PICK r : r = [Idle EXCEPT !.pc = "cancel", !.job = "admin", !.duel = d,
                                  !.snap = duels[d], !.target = target]
    OBVIOUS
  <2>2. r.pc = "cancel" /\ r.batch = {} /\ r.target = target /\ r.snap = duels[d]
    BY <2>1 DEF Idle
  <2>3. Become(h, r) /\ ValidateDuelCancel(d, target)
    BY <1>2, <2>1, Zenon DEF CancelDuckPointDuelByAdmin
  <2>4. Chargeable(r)
    BY <2>2, <2>3 DEF Chargeable, ValidateDuelCancel
  <2> QED
    BY <2>3, <2>4, BecomeChargeable
<1> QED
  BY <1>1, <1>2

\* the steps of a request keep the status it read
LEMMA StepsChargeable ==
  ASSUME TypeOK, AllChargeable, NEW h \in Handlers,
         ReadWinners(h) \/ ReadRefunds(h) \/ CancelRefunds(h)
  PROVE  AllChargeable'
<1>0. PICK q : q = req[h]
  OBVIOUS
<1>1. q \in Request /\ Chargeable(q)
  BY <1>0 DEF TypeOK, AllChargeable
<1>2. CASE ReadWinners(h)
  <2>1. PICK r : r = [q EXCEPT !.pc = "refunds",
                               !.winners = GetDuelWinners(q.duel, q.answer, q.cutoff)]
    OBVIOUS
  <2>2. Become(h, r) /\ q.pc = "winners"
    BY <1>0, <1>2, <2>1, Zenon DEF ReadWinners
  <2>3. /\ r.pc = "refunds" /\ r.job = q.job /\ r.batch = q.batch /\ r.target = q.target
        /\ r.snap = q.snap
    BY <1>1, <2>1 DEF Request
  <2>4. Chargeable(r)
    BY <1>1, <2>2, <2>3 DEF Chargeable
  <2> QED
    BY <2>2, <2>4, BecomeChargeable
<1>3. CASE ReadRefunds(h)
  <2> DEFINE n == CountDuelPlayersToRefund(q.duel, q.cutoff)
  <2>1. PICK back, on : /\ back = [q EXCEPT !.pc = "cancel", !.target = Refund, !.winners = {}]
                        /\ on = [q EXCEPT !.pc = "settle", !.refunds = n]
    OBVIOUS
  <2>2. (Become(h, back) \/ Become(h, on)) /\ q.pc = "refunds"
    BY <1>0, <1>3, <2>1 DEF ReadRefunds
  <2>3. /\ back.pc = "cancel" /\ back.job = q.job /\ back.batch = q.batch
        /\ back.target = Refund /\ back.snap = q.snap
    BY <1>1, <2>1 DEF Request
  <2>4. /\ on.pc = "settle" /\ on.job = q.job /\ on.batch = q.batch /\ on.target = q.target
        /\ on.snap = q.snap
    BY <1>1, <2>1 DEF Request
  <2>5. Chargeable(back) /\ Chargeable(on)
    BY <1>1, <2>2, <2>3, <2>4 DEF Chargeable
  <2> QED
    BY <2>2, <2>5, BecomeChargeable
<1>4. CASE CancelRefunds(h)
  <2>1. PICK r : r = [q EXCEPT !.pc = "cancelCommit", !.seated = UsersOf(q.duel, Rows(q.duel))]
    OBVIOUS
  <2>2. Become(h, r) /\ q.pc = "cancel"
    BY <1>0, <1>4, <2>1, Zenon DEF CancelRefunds
  <2>3. /\ r.pc = "cancelCommit" /\ r.job = q.job /\ r.batch = q.batch /\ r.target = q.target
        /\ r.snap = q.snap
    BY <1>1, <2>1 DEF Request
  <2>4. Chargeable(r)
    BY <1>1, <2>2, <2>3 DEF Chargeable
  <2> QED
    BY <2>2, <2>4, BecomeChargeable
<1> QED
  BY <1>2, <1>3, <1>4

\* users, lists and the cron: not the moderator's
LEMMA UsersChargeable ==
  ASSUME TypeOK, AllChargeable, NEW h \in Handlers, UserRequest(h) \/ CronRun(h)
  PROVE  AllChargeable'
<1>1. ASSUME NEW r, r.job # "admin", Become(h, r) \/ req' = req
      PROVE  AllChargeable'
  BY <1>1, OthersChargeable, BecomeChargeable DEF AllChargeable, Chargeable
<1>2. ASSUME NEW u, NEW d, NEW crypto, NEW s, NEW answer,
             \/ CreateNewDuel(h, u, d, crypto, s, answer)
             \/ CreateNewDuelAdmin(h, u, d, crypto, s, answer)
             \/ CreateDuelsWithJoin(h, d, s, answer)
      PROVE  AllChargeable'
  <2>1. PICK r : r = [Idle EXCEPT !.pc = "streak", !.user = u]
    OBVIOUS
  <2>2. r.job # "admin"
    BY <2>1 DEF Idle
  <2>3. Become(h, r) \/ req' = req
    BY <1>2, <2>1, Zenon DEF CreateNewDuel, CreateNewDuelAdmin, CreateDuelsWithJoin
  <2> QED
    BY <1>1, <2>2, <2>3
<1>3. ASSUME NEW u, NEW d, NEW answer, JoinDuel(h, u, d, answer)
      PROVE  AllChargeable'
  <2>1. PICK r : r = [Idle EXCEPT !.pc = "join", !.user = u, !.duel = d,
                              !.snap = duels[d], !.answer = answer, !.since = now]
    OBVIOUS
  <2>2. r.job # "admin"
    BY <2>1 DEF Idle
  <2>3. Become(h, r)
    BY <1>3, <2>1, Zenon DEF JoinDuel
  <2> QED
    BY <1>1, <2>2, <2>3
<1>4. ASSUME NEW job \in {"onEvent", "beforeEvent", "autoCancel"}, NEW which, Listed(h, job, which)
      PROVE  AllChargeable'
  <2>1. PICK r : r = [Idle EXCEPT !.pc = "next", !.job = job,
                              !.batch = {[duel |-> d, snap |-> duels[d]] : d \in which}]
    OBVIOUS
  <2>2. r.job # "admin"
    BY <2>1 DEF Idle
  <2>3. Become(h, r)
    BY <1>4, <2>1, Zenon DEF Listed
  <2> QED
    BY <1>1, <2>2, <2>3
<1>5. CASE UserRequest(h)
  BY <1>2, <1>3, <1>5 DEF UserRequest
<1>6. CASE CronRun(h)
  <2>1. CASE \E d \in Duels, s \in Schedules, answer \in Answers : CreateDuelsWithJoin(h, d, s, answer)
    BY <1>2, <2>1
  <2>2. CASE ResolveDuckPointOnEventDate(h)
    BY <1>4, <2>2 DEF ResolveDuckPointOnEventDate
  <2>3. CASE ResolveDuckPointBeforeEventDate(h)
    BY <1>4, <2>3 DEF ResolveDuckPointBeforeEventDate
  <2>4. CASE AutoCancelDuels(h)
    BY <1>4, <2>4 DEF AutoCancelDuels
  <2> QED
    BY <1>6, <2>1, <2>2, <2>3, <2>4 DEF CronRun
<1> QED
  BY <1>5, <1>6

\* a list taken up, a streak: not the moderator's
LEMMA ListsChargeable ==
  ASSUME TypeOK, AllChargeable, NEW h \in Handlers,
         \/ \E e \in req[h].batch :
              \/ \E answer \in Answers : NextOnEventDate(h, e, answer)
              \/ NextBeforeEventDate(h, e)
              \/ SkipBeforeEventDate(h, e)
              \/ NextAutoCancel(h, e)
         \/ JoinCommit(h)
         \/ CompleteDailyStreakTask(h)
  PROVE  AllChargeable'
<1>0. req[h] \in Request
  BY DEF TypeOK
<1>1. ASSUME NEW r, r.job # "admin", Become(h, r)
      PROVE  AllChargeable'
  BY <1>1, OthersChargeable, BecomeChargeable
<1>2. ASSUME NEW e \in req[h].batch, NEW answer \in Answers, NextOnEventDate(h, e, answer)
      PROVE  AllChargeable'
  <2>1. PICK r : r = [Idle EXCEPT !.pc = "winners", !.job = "onEvent", !.duel = e.duel,
                              !.snap = e.snap, !.answer = answer,
                              !.cutoff = e.snap.deadline, !.batch = req[h].batch \ {e}]
    OBVIOUS
  <2>2. r.job # "admin"
    BY <2>1 DEF Idle
  <2>3. Become(h, r)
    BY <1>2, <2>1, Zenon DEF NextOnEventDate
  <2> QED
    BY <1>1, <2>2, <2>3
<1>3. ASSUME NEW e \in req[h].batch, NextBeforeEventDate(h, e)
      PROVE  AllChargeable'
  <2>1. PICK r : r = [Idle EXCEPT !.pc = "winners", !.job = "beforeEvent", !.duel = e.duel,
                              !.snap = e.snap, !.answer = 1,
                              !.cutoff = now - ResolveJoinNotBefore,
                              !.batch = req[h].batch \ {e}]
    OBVIOUS
  <2>2. r.job # "admin"
    BY <2>1 DEF Idle
  <2>3. Become(h, r)
    BY <1>3, <2>1, Zenon DEF NextBeforeEventDate
  <2> QED
    BY <1>1, <2>2, <2>3
<1>4. ASSUME NEW e \in req[h].batch, SkipBeforeEventDate(h, e)
      PROVE  AllChargeable'
  <2>1. PICK r : r = [req[h] EXCEPT !.batch = @ \ {e}]
    OBVIOUS
  <2>2. r.job = req[h].job
    BY <1>0, <2>1 DEF Request
  <2>3. req[h].job # "admin" /\ (Become(h, r) \/ Become(h, Idle))
    BY <1>4, <2>1 DEF SkipBeforeEventDate
  <2> QED
    BY <1>1, <2>2, <2>3, IdleChargeable
<1>5. ASSUME NEW e \in req[h].batch, NextAutoCancel(h, e)
      PROVE  AllChargeable'
  <2>1. PICK r : r = [Idle EXCEPT !.pc = "cancel", !.job = "autoCancel", !.duel = e.duel,
                              !.snap = e.snap, !.target = AutoCancelled,
                              !.batch = req[h].batch \ {e}]
    OBVIOUS
  <2>2. r.job # "admin"
    BY <2>1 DEF Idle
  <2>3. Become(h, r)
    BY <1>5, <2>1, Zenon DEF NextAutoCancel
  <2> QED
    BY <1>1, <2>2, <2>3
<1>6. CASE JoinCommit(h)
  <2>1. PICK r : r = [Idle EXCEPT !.pc = "streak", !.user = req[h].user]
    OBVIOUS
  <2>2. r.job # "admin"
    BY <2>1 DEF Idle
  <2>3. Become(h, r)
    BY <1>6, <2>1, Zenon DEF JoinCommit
  <2> QED
    BY <1>1, <2>2, <2>3
<1>7. CASE CompleteDailyStreakTask(h)
  <2>1. PICK r : r = [Idle EXCEPT !.pc = "streakUpdate", !.user = req[h].user,
                                   !.balance = balance[req[h].user]]
    OBVIOUS
  <2>2. r.job # "admin"
    BY <2>1 DEF Idle
  <2>3. Become(h, r) \/ Become(h, Idle)
    BY <1>7, <2>1 DEF CompleteDailyStreakTask
  <2> QED
    BY <1>1, <2>2, <2>3, IdleChargeable
<1> QED
  BY <1>2, <1>3, <1>4, <1>5, <1>6, <1>7

LEMMA NextChargeable ==
  ASSUME TypeOK, AllChargeable, [Next]_vars
  PROVE  AllChargeable'
<1>1. CASE UNCHANGED req
  BY <1>1 DEF AllChargeable, Chargeable
<1>2. ASSUME NEW h \in Handlers, ModeratorRequest(h)
      PROVE  AllChargeable'
  <2>1. ASSUME NEW d \in Duels, ApproveDuel(h, d)
        PROVE  AllChargeable'
    <3>1. PICK r : r = [Idle EXCEPT !.pc = "approve", !.duel = d, !.snap = duels[d]]
      OBVIOUS
    <3>2. r.job # "admin"
      BY <3>1 DEF Idle
    <3>3. Become(h, r)
      BY <2>1, <3>1, Zenon DEF ApproveDuel
    <3> QED
      BY <3>2, <3>3, OthersChargeable, BecomeChargeable
  <2>2. ASSUME NEW d \in Duels, NEW s \in Schedules, EditDuel(h, d, s)
        PROVE  AllChargeable'
    BY <1>1, <2>2 DEF EditDuel
  <2> QED
    BY <1>2, <2>1, <2>2, ModeratorChargeable DEF ModeratorRequest
<1>3. ASSUME NEW h \in Handlers, Continue(h)
      PROVE  AllChargeable'
  <2>1. CASE JoinRejected(h) \/ StreakUpdate(h) \/ ApproveUpdate(h) \/ Settle(h)
               \/ SettleOverflow(h) \/ CancelCommit(h)
    BY <2>1, IdleChargeable
       DEF JoinRejected, StreakUpdate, ApproveUpdate, Settle, SettleOverflow, CancelCommit
  <2> QED
    BY <1>3, <2>1, ListsChargeable, StepsChargeable DEF Continue
<1>4. ASSUME NEW h \in Handlers, CancelFails(h) \/ Abort(h)
      PROVE  AllChargeable'
  BY <1>4, IdleChargeable DEF CancelFails, Abort
<1> QED
  BY <1>1, <1>2, <1>3, <1>4, UsersChargeable DEF Next, Tick, vars

\* the second list of allowed closings covers the first
LEMMA ChargeablePays ==
  ASSUME AllChargeable
  PROVE  ClosesArePaid
<1>1. ASSUME NEW h \in Handlers, req[h].job = "admin"
      PROVE  NewModeratorStatsCreate(req[h].snap.status,
                IF req[h].target = NoStatus THEN Resolved ELSE req[h].target) # NoPay
  <2>1. PICK old, new : /\ old = req[h].snap.status
                        /\ new = IF req[h].target = NoStatus THEN Resolved ELSE req[h].target
    OBVIOUS
  <2>2. Chargeable(req[h])
    BY DEF AllChargeable
  <2>3. \/ old = InReview /\ new = AdminCancelled
        \/ old = InProcess /\ new \in {Refund, Resolved}
    BY <1>1, <2>1, <2>2 DEF Chargeable, AdminCancelled, NoStatus, Refund
  <2>4. [action |-> "moderation", pay |-> 2] # NoPay /\ [action |-> "closing", pay |-> 3] # NoPay
    <3>1. NoPay.pay = 0
      BY DEF NoPay
    <3> QED
      BY <3>1
  <2>5. NewModeratorStatsCreate(old, new) # NoPay
    BY <2>3, <2>4, StatusesDiffer DEF NewModeratorStatsCreate
  <2> QED
    BY <2>1, <2>5
<1> QED
  BY <1>1 DEF ClosesArePaid

\* However many requests run and whatever fails: a closing that passed the checks
\* of the duel is one the moderator is paid for.
THEOREM ModeratorsArePaid ==
  Spec => []ClosesArePaid
<1>1. Init => AllChargeable
  BY DEF Init, AllChargeable, Chargeable, Idle
<1>2. TypeOK /\ AllChargeable /\ [Next]_vars => AllChargeable'
  BY NextChargeable
<1>3. AllChargeable => ClosesArePaid
  BY ChargeablePays
<1> QED
  BY <1>1, <1>2, <1>3, TypeCorrect, PTL DEF Spec

-----------------------------------------------------------------------------
(* The lists *)

\* a duel is listed in one line, which says whether the user has a seat
LEMMA OneLine ==
  ASSUME SerialInv, NEW d \in Duels, NEW u \in Users
  PROVE  \E s : /\ DuelShow(d, u) = {s}
                /\ {Joined(d, i) : i \in SeatsOf(d, u)} = IF SeatsOf(d, u) = {} THEN {} ELSE {s}
                /\ s.duel = d
                /\ s.joined = (SeatsOf(d, u) # {})
                /\ s.no = duels[d].playersCount - YesCount(d)
<1>1. CASE SeatsOf(d, u) = {}
  <2>1. PICK s : s = NotJoined(d)
    OBVIOUS
  <2>2. s.duel = d /\ s.joined = FALSE /\ s.no = duels[d].playersCount - YesCount(d)
    BY <2>1, Zenon DEF NotJoined
  <2>3. DuelShow(d, u) = {s} /\ {Joined(d, i) : i \in SeatsOf(d, u)} = {}
    BY <1>1, <2>1 DEF DuelShow
  <2> QED
    BY <1>1, <2>2, <2>3
<1>2. ASSUME NEW i \in SeatsOf(d, u)
      PROVE  \E s : /\ DuelShow(d, u) = {s}
                    /\ {Joined(d, j) : j \in SeatsOf(d, u)} = {s}
                    /\ s.duel = d
                    /\ s.joined = TRUE
                    /\ s.no = duels[d].playersCount - YesCount(d)
  <2>1. PICK s : s = Joined(d, i)
    OBVIOUS
  <2>2. s.duel = d /\ s.joined = TRUE /\ s.no = duels[d].playersCount - YesCount(d)
    BY <2>1, Zenon DEF Joined
  <2>3. OneSeat(d)
    BY DEF SerialInv, DuelCurrent
  <2>4. SeatsOf(d, u) = {i}
    BY <1>2, <2>3 DEF SeatsOf, OneSeat
  <2>5. {Joined(d, j) : j \in SeatsOf(d, u)} = {s}
    BY <2>1, <2>4
  <2>6. DuelShow(d, u) = {s}
    BY <1>2, <2>5 DEF DuelShow
  <2> QED
    BY <2>2, <2>5, <2>6
<1> QED
  BY <1>1, <1>2

Line(d, u) == CHOOSE s \in DuelShow(d, u) : TRUE

LEMMA LineOf ==
  ASSUME SerialInv, NEW d \in Duels, NEW u \in Users
  PROVE  /\ DuelShow(d, u) = {Line(d, u)}
         /\ {Joined(d, i) : i \in SeatsOf(d, u)} = IF SeatsOf(d, u) = {} THEN {} ELSE {Line(d, u)}
         /\ Line(d, u).duel = d
         /\ Line(d, u).joined = (SeatsOf(d, u) # {})
         /\ Line(d, u).no = duels[d].playersCount - YesCount(d)
<1>1. PICK s : /\ DuelShow(d, u) = {s}
               /\ {Joined(d, i) : i \in SeatsOf(d, u)} = IF SeatsOf(d, u) = {} THEN {} ELSE {s}
               /\ s.duel = d
               /\ s.joined = (SeatsOf(d, u) # {})
               /\ s.no = duels[d].playersCount - YesCount(d)
  BY OneLine
<1>2. Line(d, u) = s
  BY <1>1 DEF Line
<1> QED
  BY <1>1, <1>2

\* the lines of duels are as many as the duels
LEMMA LinesCounted ==
  ASSUME SerialInv, FewUsers, NEW u \in Users, NEW S \in SUBSET Duels
  PROVE  /\ IsFiniteSet(S)
         /\ Cardinality({Line(d, u) : d \in S}) = Cardinality(S)
<1>1. IsFiniteSet(S)
  BY FS_Subset DEF FewUsers
<1> DEFINE lines == {Line(d, u) : d \in S}
           f == [d \in S |-> Line(d, u)]
<1>2. \A d \in S : f[d] = Line(d, u) /\ f[d].duel = d
  BY LineOf
<1>3. f \in [S -> lines] /\ \A d, e \in S : f[d] = f[e] => d = e
  BY <1>2
<1>4. \A s \in lines : \E d \in S : f[d] = s
  BY <1>2
<1> HIDE DEF f, lines
<1>5. f \in Bijection(S, lines)
  BY <1>3, <1>4 DEF Bijection, Injection, Surjection, IsInjective
<1>6. ExistsBijection(S, lines)
  BY <1>5 DEF ExistsBijection
<1>7. Cardinality(lines) = Cardinality(S)
  BY <1>1, <1>6, FS_Bijection
<1> QED
  BY <1>1, <1>7 DEF lines

\* the lists, in the terms of the lines
LEMMA ListsOfLines ==
  ASSUME SerialInv, NEW u \in Users
  PROVE  /\ GetAllDuels(u) = {Line(d, u) : d \in Existing}
         /\ GetAllDuelsWhereParticipate(u)
              = {Line(d, u) : d \in {e \in Existing : SeatsOf(e, u) # {}}}
<1>1. \A d \in Existing :
         /\ DuelShow(d, u) = {Line(d, u)}
         /\ {Joined(d, i) : i \in SeatsOf(d, u)}
               = IF SeatsOf(d, u) = {} THEN {} ELSE {Line(d, u)}
  BY LineOf DEF Existing
<1>2. GetAllDuels(u) = {Line(d, u) : d \in Existing}
  BY <1>1 DEF GetAllDuels
<1>3. GetAllDuelsWhereParticipate(u)
        = {Line(d, u) : d \in {e \in Existing : SeatsOf(e, u) # {}}}
  <2>1. \A s : (s \in GetAllDuelsWhereParticipate(u)
                  <=> \E d \in Existing : s \in {Joined(d, i) : i \in SeatsOf(d, u)})
    BY Zenon DEF GetAllDuelsWhereParticipate
  <2>2. \A s : (s \in GetAllDuelsWhereParticipate(u)
                  <=> \E d \in Existing : SeatsOf(d, u) # {} /\ s = Line(d, u))
    BY <1>1, <2>1
  <2> QED
    BY <2>2
<1> QED
  BY <1>2, <1>3

\* yes and no are all answers
LEMMA NoCounted ==
  ASSUME SerialInv, NEW d \in Duels
  PROVE  duels[d].playersCount - YesCount(d)
           = Cardinality({i \in Rows(d) : players[d][i].answer = 0})
<1> DEFINE yes == {i \in Rows(d) : players[d][i].answer = 1}
           no  == {i \in Rows(d) : players[d][i].answer = 0}
<1>1. IInv /\ TypeOK /\ DuelCurrent(d)
  BY DEF SerialInv, IInv
<1>2. \A i \in Rows(d) : players[d][i].answer \in {0, 1}
  BY <1>1, RowsOf DEF PlayerRow, Answers
<1>3. yes \in SUBSET Rows(d) /\ no \in SUBSET Rows(d) /\ yes \cup no = Rows(d) /\ yes \cap no = {}
  BY <1>2
<1>4. IsFiniteSet(yes) /\ IsFiniteSet(no)
  BY <1>1, <1>3, RowSetsFinite
<1>5. YesCount(d) = Cardinality(yes)
  BY DEF YesCount
<1>6. duels[d].playersCount = Cardinality(Rows(d))
  BY <1>1, RowsCounted DEF DuelCurrent
<1> HIDE DEF yes, no
<1>7. Cardinality(yes \cup no) = Cardinality(yes) + Cardinality(no)
  BY <1>3, <1>4, DisjointUnion
<1>8. Cardinality(yes) \in Nat /\ Cardinality(no) \in Nat
  BY <1>4, FS_CardinalityType
<1>9. Cardinality(Rows(d)) = Cardinality(yes) + Cardinality(no)
  BY <1>3, <1>7, Zenon
<1>10. duels[d].playersCount - YesCount(d) = Cardinality(no)
  BY <1>5, <1>6, <1>8, <1>9
<1> QED
  BY <1>10 DEF no

\* the duels of a topic without those a user has no seat in
LEMMA TopicsCounted ==
  ASSUME SerialInv, FewUsers, NEW u \in Users, NEW t \in Topics
  PROVE  GetTopicCounters[t] - GetIndividualTopicCounters(u)[t]
           = Cardinality({s \in GetAllDuelsWhereParticipate(u) : duels[s.duel].crypto = t})
<1> DEFINE A == {d \in Existing : duels[d].crypto = t}
           B == {d \in Existing : duels[d].crypto = t /\ SeatsOf(d, u) = {}}
           C == {d \in Existing : duels[d].crypto = t /\ SeatsOf(d, u) # {}}
           lines == {s \in GetAllDuelsWhereParticipate(u) : duels[s.duel].crypto = t}
<1>1. GetTopicCounters[t] = Cardinality(A) /\ GetIndividualTopicCounters(u)[t] = Cardinality(B)
  BY DEF GetTopicCounters, GetIndividualTopicCounters
<1>2. A = B \cup C /\ B \cap C = {} /\ B \in SUBSET Duels /\ C \in SUBSET Duels
  BY DEF Existing
<1>3. lines = {Line(d, u) : d \in C}
  <2>1. GetAllDuelsWhereParticipate(u)
          = {Line(d, u) : d \in {e \in Existing : SeatsOf(e, u) # {}}}
    BY ListsOfLines
  <2>2. \A d \in Existing : Line(d, u).duel = d
    BY LineOf DEF Existing
  <2>3. \A s : (s \in lines <=> \E d \in Existing : /\ SeatsOf(d, u) # {} /\ s = Line(d, u)
                                                    /\ duels[s.duel].crypto = t)
    BY <2>1
  <2>4. \A s : (s \in lines <=> \E d \in C : s = Line(d, u))
    BY <2>2, <2>3
  <2> QED
    BY <2>4
<1> HIDE DEF A, B, C, lines
<1>4. IsFiniteSet(B) /\ IsFiniteSet(C) /\ Cardinality({Line(d, u) : d \in C}) = Cardinality(C)
  BY <1>2, LinesCounted
<1>5. Cardinality(B \cup C) = Cardinality(B) + Cardinality(C)
  BY <1>2, <1>4, DisjointUnion
<1>6. Cardinality(B) \in Nat /\ Cardinality(C) \in Nat
  BY <1>4, FS_CardinalityType
<1>7. Cardinality(lines) = Cardinality(C) /\ Cardinality(A) = Cardinality(B) + Cardinality(C)
  BY <1>2, <1>3, <1>4, <1>5, Zenon
<1>8. GetTopicCounters[t] - GetIndividualTopicCounters(u)[t] = Cardinality(lines)
  BY <1>1, <1>6, <1>7
<1> QED
  BY <1>8 DEF lines

LEMMA SerialLists ==
  ASSUME SerialInv, FewUsers
  PROVE  ListsAgree
<1>1. SUFFICES ASSUME NEW u \in Users
      PROVE  LET lists == Lists(u) IN
             /\ Cardinality(lists.all) = lists.count
             /\ \A s \in lists.all :
                   /\ s.no = Cardinality({i \in Rows(s.duel) : players[s.duel][i].answer = 0})
                   /\ s.joined <=> s \in lists.participant
                   /\ s \in lists.history => s \in lists.participant
             /\ \A t \in Topics :
                   lists.byTopic[t] - lists.individual[t] =
                      Cardinality({s \in lists.participant : duels[s.duel].crypto = t})
  BY Zenon DEF ListsAgree
<1>2. PICK lists : lists = Lists(u)
  OBVIOUS
<1>3. /\ lists.all = GetAllDuels(u) /\ lists.count = Cardinality(Existing)
      /\ lists.participant = GetAllDuelsWhereParticipate(u)
      /\ lists.history = GetHistoryByUserID(u)
      /\ lists.byTopic = GetTopicCounters
      /\ lists.individual = GetIndividualTopicCounters(u)
  BY <1>2, Zenon DEF Lists
<1>4. /\ lists.all = {Line(d, u) : d \in Existing}
      /\ lists.participant = {Line(d, u) : d \in {e \in Existing : SeatsOf(e, u) # {}}}
  BY <1>3, ListsOfLines
<1>5. Existing \in SUBSET Duels
  BY DEF Existing
<1>6. Cardinality(lists.all) = lists.count
  BY <1>3, <1>4, <1>5, LinesCounted
<1>7. ASSUME NEW s \in lists.all
      PROVE  /\ s.no = Cardinality({i \in Rows(s.duel) : players[s.duel][i].answer = 0})
             /\ s.joined <=> s \in lists.participant
             /\ s \in lists.history => s \in lists.participant
  <2>1. PICK d \in Existing : s = Line(d, u)
    BY <1>4, <1>7
  <2>2. /\ s.duel = d /\ s.joined = (SeatsOf(d, u) # {})
        /\ s.no = duels[d].playersCount - YesCount(d)
    BY <1>5, <2>1, LineOf
  <2>3. s.no = Cardinality({i \in Rows(s.duel) : players[s.duel][i].answer = 0})
    BY <1>5, <2>2, NoCounted
  <2>4. s \in lists.participant => SeatsOf(d, u) # {}
    <3>1. SUFFICES ASSUME s \in lists.participant PROVE SeatsOf(d, u) # {}
      OBVIOUS
    <3>2. PICK e \in Existing : s = Line(e, u) /\ SeatsOf(e, u) # {}
      BY <1>4, <3>1
    <3>3. s.duel = e
      BY <1>5, <3>2, LineOf
    <3> QED
      BY <2>2, <3>2, <3>3
  <2>5. SeatsOf(d, u) # {} => s \in lists.participant
    BY <1>4, <2>1
  <2>6. s.joined <=> s \in lists.participant
    BY <2>2, <2>4, <2>5, Zenon
  <2>7. s \in lists.history => s.joined
    BY <1>3 DEF GetHistoryByUserID
  <2> QED
    BY <2>3, <2>6, <2>7, Zenon
<1>8. \A t \in Topics :
         lists.byTopic[t] - lists.individual[t] =
            Cardinality({s \in lists.participant : duels[s.duel].crypto = t})
  BY <1>3, TopicsCounted
<1> QED
  BY <1>2, <1>6, <1>7, <1>8, Zenon

-----------------------------------------------------------------------------
(* Rankings *)

\* of a finite set of lines, one has the least pnl
LEMMA LeastLine ==
  ASSUME NEW S, IsFiniteSet(S), S # {}, \A x \in S : x.pnl \in Int
  PROVE  \E x \in S : \A y \in S : x.pnl <= y.pnl
<1> DEFINE Good == {T \in SUBSET S : T # {} => \E x \in T : \A y \in T : x.pnl <= y.pnl}
<1>1. {} \in Good
  OBVIOUS
<1>2. ASSUME NEW T \in SUBSET S, NEW z \in S \ T, T \in Good
      PROVE  T \cup {z} \in Good
  <2>1. CASE T = {}
    BY <2>1
  <2>2. ASSUME NEW x \in T, \A y \in T : x.pnl <= y.pnl
        PROVE  \E v \in T \cup {z} : \A y \in T \cup {z} : v.pnl <= y.pnl
    <3>1. x.pnl \in Int /\ z.pnl \in Int /\ \A y \in T : y.pnl \in Int
      BY <2>2
    <3>2. CASE x.pnl <= z.pnl
      BY <2>2, <3>1, <3>2
    <3>3. CASE z.pnl < x.pnl
      <4>1. \A y \in T : z.pnl <= y.pnl
        BY <2>2, <3>1, <3>3
      <4> QED
        BY <3>1, <4>1
    <3> QED
      BY <3>1, <3>2, <3>3
  <2> QED
    BY <1>2, <2>1, <2>2
<1> HIDE DEF Good
<1>3. S \in Good
  BY <1>1, <1>2, SetInduction, Zenon
<1> QED
  BY <1>3 DEF Good

\* a finite set of lines can be ranked
LEMMA RankingExists ==
  ASSUME NEW S, IsFiniteSet(S), \A x \in S : x.pnl \in Int
  PROVE  \E rows \in SetToSeqs(S) : Ranked(rows)
<1> DEFINE Good == {T \in SUBSET S : \E rows \in SetToSeqs(T) : Ranked(rows)}
<1>1. ASSUME NEW T \in SUBSET S, \A U \in SUBSET T : U # T => U \in Good
      PROVE  \E rows \in SetToSeqs(T) : Ranked(rows)
  <2>1. IsFiniteSet(T)
    BY FS_Subset
  <2>2. CASE T = {}
    <3>1. Cardinality(T) = 0
      BY <2>2, FS_EmptySet
    <3>2. PICK rows : rows = [i \in 1..Cardinality(T) |-> i]
      OBVIOUS
    <3>3. DOMAIN rows = {} /\ rows \in [1..Cardinality(T) -> T]
      BY <3>1, <3>2
    <3>4. rows \in SetToSeqs(T)
      BY <3>3 DEF SetToSeqs
    <3>5. Ranked(rows)
      BY <3>3 DEF Ranked
    <3> QED
      BY <3>4, <3>5
  <2>3. CASE T # {}
    <3>1. PICK x \in T : \A y \in T : x.pnl <= y.pnl
      BY <2>1, <2>3, LeastLine
    <3>2. T \ {x} \in Good
      BY <1>1, <3>1
    <3>3. PICK rows \in SetToSeqs(T \ {x}) : Ranked(rows)
      BY <3>2
    <3>4. PICK n : n = Cardinality(T)
      OBVIOUS
    <3>5. n \in Nat \ {0} /\ Cardinality(T \ {x}) = n - 1
      <4>1. n \in Nat /\ n # 0
        BY <2>1, <2>3, <3>4, FS_CardinalityType, FS_EmptySet
      <4>2. Cardinality(T \ {x}) = n - 1
        BY <2>1, <3>1, <3>4, FS_RemoveElement
      <4> QED
        BY <4>1, <4>2
    <3>6. /\ rows \in [1..(n - 1) -> T \ {x}]
          /\ \A i, j \in 1..(n - 1) : i # j => rows[i] # rows[j]
      BY <3>3, <3>5 DEF SetToSeqs
    <3>7. PICK more : more = [i \in 1..n |-> IF i = n THEN x ELSE rows[i]]
      OBVIOUS
    <3>8. \A i \in 1..n : i # n => i \in 1..(n - 1)
      BY <3>5
    <3>9. /\ more \in [1..n -> T] /\ more[n] = x
          /\ \A i \in 1..n : i # n => more[i] = rows[i] /\ more[i] \in T \ {x}
      BY <3>5, <3>6, <3>7, <3>8
    <3>10. \A i, j \in 1..n : i # j => more[i] # more[j]
      BY <3>6, <3>8, <3>9
    <3>11. more \in SetToSeqs(T)
      BY <3>4, <3>9, <3>10 DEF SetToSeqs
    <3>12. ASSUME NEW i \in 1..n, NEW j \in 1..n, i < j
           PROVE  more[i].pnl >= more[j].pnl
      <4>1. i # n /\ more[i] = rows[i] /\ more[i] \in T
        BY <3>5, <3>9, <3>12
      <4>2. CASE j = n
        <5>1. x.pnl <= more[i].pnl /\ x.pnl \in Int /\ more[i].pnl \in Int
          BY <3>1, <4>1
        <5> QED
          BY <3>9, <4>2, <5>1
      <4>3. CASE j # n
        <5>1. i \in DOMAIN rows /\ j \in DOMAIN rows
          BY <3>6, <3>8, <4>1, <4>3
        <5> QED
          BY <3>3, <3>9, <3>12, <4>1, <4>3, <5>1 DEF Ranked
      <4> QED
        BY <4>2, <4>3
    <3>13. Ranked(more)
      BY <3>9, <3>12 DEF Ranked
    <3> QED
      BY <3>11, <3>13
  <2> QED
    BY <2>2, <2>3
<1>2. \A T \in SUBSET S : (\A U \in SUBSET T : U # T => U \in Good) => T \in Good
  BY <1>1
<1> HIDE DEF Good
<1>3. S \in Good
  BY <1>2, PartsInduction, Zenon
<1> QED
  BY <1>3 DEF Good

\* a ranking of a finite set has every element once
LEMMA RankingIsWhole ==
  ASSUME NEW S, IsFiniteSet(S), NEW rows \in SetToSeqs(S)
  PROVE  /\ rows \in Seq(S) /\ Len(rows) = Cardinality(S) /\ Len(rows) \in Nat
         /\ DOMAIN rows = 1..Len(rows)
         /\ \A i, j \in DOMAIN rows : rows[i] = rows[j] => i = j
         /\ \A x \in S : \E i \in DOMAIN rows : rows[i] = x
<1>1. PICK n : n = Cardinality(S)
  OBVIOUS
<1>2. n \in Nat
  BY <1>1, FS_CardinalityType
<1>3. rows \in [1..n -> S] /\ \A i, j \in 1..n : i # j => rows[i] # rows[j]
  BY <1>1 DEF SetToSeqs
<1>4. rows \in Seq(S) /\ Len(rows) = n /\ DOMAIN rows = 1..n
  BY <1>2, <1>3, LenProperties, IsASeq
<1>5. rows \in Injection(1..n, S)
  BY <1>3 DEF Injection, IsInjective
<1>6. Cardinality(1..n) = n
  BY <1>2, FS_Interval
<1>7. rows \in Surjection(1..n, S)
  BY <1>1, <1>5, <1>6, FS_Injection
<1>8. \A x \in S : \E i \in 1..n : rows[i] = x
  BY <1>7 DEF Surjection
<1> QED
  BY <1>1, <1>2, <1>3, <1>4, <1>8

-----------------------------------------------------------------------------
(* Pages *)

\* joining the parts of a list gives what the partial joins lead to
LEMMA Flattened ==
  ASSUME NEW parts, NEW joined, NEW n \in Nat \ {0}, Len(parts) = n,
         \A i \in 1..n : joined[i] = IF i = 1 THEN parts[i] ELSE joined[i - 1] \o parts[i]
  PROVE  FlattenSeq(parts) = joined[n]
<1> DEFINE f == CHOOSE flatten : flatten = [i \in 1..n |->
                  IF i = 1 THEN parts[i] ELSE flatten[i - 1] \o parts[i]]
<1>1. FlattenSeq(parts) = f[n]
  <2>1. n # 0
    OBVIOUS
  <2> QED
    BY <2>1 DEF FlattenSeq
<1>2. \E g : g = [i \in 1..n |-> IF i = 1 THEN parts[i] ELSE g[i - 1] \o parts[i]]
  <2>1. PICK g : g = [i \in 1..n |-> joined[i]]
    OBVIOUS
  <2>2. \A i \in 1..n : i # 1 => i - 1 \in 1..n
    OBVIOUS
  <2>3. \A i \in 1..n : joined[i] = IF i = 1 THEN parts[i] ELSE g[i - 1] \o parts[i]
    BY <2>1, <2>2
  <2>4. g = [i \in 1..n |-> IF i = 1 THEN parts[i] ELSE g[i - 1] \o parts[i]]
    BY <2>1, <2>3
  <2> QED
    BY <2>4
<1>3. f = [i \in 1..n |-> IF i = 1 THEN parts[i] ELSE f[i - 1] \o parts[i]]
  BY <1>2
<1> HIDE DEF f
<1> DEFINE bad == {i \in 1..n : f[i] # joined[i]}
<1>4. ASSUME bad # {} PROVE FALSE
  <2>1. bad \in SUBSET Nat
    OBVIOUS
  <2>2. PICK i \in bad : \A j \in bad : i <= j
    BY <1>4, <2>1, Smallest
  <2>3. CASE i = 1
    BY <1>3, <2>2, <2>3
  <2>4. CASE i # 1
    <3>1. i - 1 \in 1..n /\ i - 1 < i /\ i \in 1..n
      BY <2>2, <2>4
    <3>2. i - 1 \notin bad
      BY <2>2, <3>1
    <3>3. f[i - 1] = joined[i - 1]
      BY <3>1, <3>2
    <3>4. f[i] = joined[i]
      BY <1>3, <2>4, <3>1, <3>3
    <3> QED
      BY <2>2, <3>4
  <2> QED
    BY <2>3, <2>4
<1>5. f[n] = joined[n]
  BY <1>4
<1> QED
  BY <1>1, <1>5

PagesOf(len, size) == (len + size - 1) \div size

\* the number of pages
LEMMA PagesCounted ==
  ASSUME NEW len \in Nat, NEW size \in Nat \ {0}
  PROVE  /\ PagesOf(len, size) \in Nat
         /\ len = 0 => PagesOf(len, size) = 0
         /\ len # 0 => /\ PagesOf(len, size) # 0
                       /\ (PagesOf(len, size) - 1) * size < len
         /\ len <= PagesOf(len, size) * size
<1>1. PICK p : p = PagesOf(len, size)
  OBVIOUS
<1>2. PICK m : m = len + size - 1
  OBVIOUS
<1>3. m \in Nat /\ p = m \div size
  BY <1>1, <1>2 DEF PagesOf
<1>4. p \in Nat /\ m = size * p + (m % size) /\ m % size \in 0..(size - 1)
  BY <1>3, Z3
<1>5. PICK r, k : r = m % size /\ k = size * p
  OBVIOUS
<1>6. k \in Nat /\ r \in Nat /\ r <= size - 1 /\ m = k + r
  BY <1>4, <1>5, Product
<1>7. p * size = k /\ (p - 1) * size = k - size
  BY <1>4, <1>5, Z3
<1>8. p = 0 => k = 0
  BY <1>5, Z3
<1>9. p # 0 => k >= size
  <2>1. p # 0 => (p - 1) \in Nat
    BY <1>4
  <2>2. p # 0 => (p - 1) * size \in Nat
    BY <2>1, Product
  <2> QED
    BY <1>6, <1>7, <2>2
<1>10. len <= k /\ (len # 0 => k - size < len)
  BY <1>2, <1>6
<1>11. len = 0 => p = 0
  BY <1>2, <1>4, <1>6, <1>9
<1>12. len # 0 => p # 0
  BY <1>2, <1>6, <1>8
<1>13. len # 0 => (p - 1) * size < len
  BY <1>7, <1>10
<1>14. len <= p * size
  BY <1>7, <1>10
<1> QED
  BY <1>1, <1>4, <1>11, <1>12, <1>13, <1>14, Zenon

\* the last rank of a page
LastOf(len, size, n) == IF n * size > len THEN len ELSE n * size

\* pages follow one another
LEMMA PageBounds ==
  ASSUME NEW len \in Nat, NEW size \in Nat \ {0}, NEW n \in 1..PagesOf(len, size)
  PROVE  /\ (n - 1) * size \in Nat /\ (n - 1) * size < len
         /\ n * size = (n - 1) * size + size
         /\ LastOf(len, size, n) \in Nat /\ LastOf(len, size, n) <= len
         /\ (n - 1) * size < LastOf(len, size, n)
         /\ n # 1 => LastOf(len, size, n - 1) = (n - 1) * size
         /\ n = PagesOf(len, size) => LastOf(len, size, n) = len
<1>1. PICK p : p = PagesOf(len, size)
  OBVIOUS
<1>2. /\ p \in Nat /\ len <= p * size /\ len # 0 /\ (p - 1) * size < len
  <2>1. /\ p \in Nat /\ len <= p * size
        /\ len = 0 => p = 0
        /\ len # 0 => (p - 1) * size < len
    BY <1>1, PagesCounted, Zenon
  <2>2. len # 0
    BY <1>1, <2>1
  <2> QED
    BY <2>1, <2>2
<1>3. n \in Nat \ {0} /\ n <= p /\ n - 1 \in Nat /\ p - 1 \in Nat /\ n - 1 <= p - 1
  BY <1>1, <1>2
<1>4. (n - 1) * size \in Nat /\ (p - 1) * size \in Nat /\ (n - 1) * size <= (p - 1) * size
  BY <1>3, ProductMonotonic
<1>5. n * size = (n - 1) * size + size
  BY <1>3, Z3
<1>6. (n - 1) * size < len
  BY <1>2, <1>4
<1> QED
  BY <1>1, <1>2, <1>3, <1>4, <1>5, <1>6 DEF LastOf

LEMMA PageOf ==
  ASSUME NEW S, NEW rows \in Seq(S), NEW size \in Nat \ {0}, NEW n \in 1..PagesOf(Len(rows), size)
  PROVE  ApplyPagination(rows, size, n)
           = SubSeq(rows, (n - 1) * size + 1, LastOf(Len(rows), size, n))
<1>1. Len(rows) \in Nat
  BY LenProperties
<1>2. PagesOf(Len(rows), size) \in Nat
  BY <1>1, PagesCounted
<1>3. size > 0 /\ n > 0
  BY <1>2
<1> QED
  BY <1>3, Zenon DEF ApplyPagination, LastOf

\* Page after page, the whole list: nothing is left out and nothing comes twice.
LEMMA PagesMakeTheWhole ==
  ASSUME NEW S, NEW rows \in Seq(S), NEW size \in Nat \ {0}
  PROVE  rows = FlattenSeq([n \in 1..PagesOf(Len(rows), size) |-> ApplyPagination(rows, size, n)])
<1>1. PICK len, p : len = Len(rows) /\ p = PagesOf(len, size)
  OBVIOUS
<1>2. len \in Nat /\ DOMAIN rows = 1..len /\ \A i \in 1..len : rows[i] \in S
  BY <1>1, LenProperties
<1>3. p \in Nat /\ (p = 0 <=> len = 0)
  BY <1>1, <1>2, PagesCounted
<1>4. PICK parts : parts = [n \in 1..p |-> ApplyPagination(rows, size, n)]
  OBVIOUS
<1>5. Len(parts) = p
  BY <1>3, <1>4
<1>6. CASE p = 0
  <2>1. FlattenSeq(parts) = parts
    BY <1>5, <1>6 DEF FlattenSeq
  <2>2. rows = <<>> /\ parts = <<>>
    <3>1. rows = <<>>
      BY <1>1, <1>3, <1>6, EmptySeq
    <3>2. parts \in Seq(Seq(S)) /\ Len(parts) = 0
      BY <1>4, <1>5, <1>6
    <3> QED
      BY <3>1, <3>2, EmptySeq
  <2> QED
    BY <1>1, <1>4, <2>1, <2>2
<1>7. CASE p # 0
  <2>1. PICK joined : joined = [n \in 1..p |-> SubSeq(rows, 1, LastOf(len, size, n))]
    OBVIOUS
  <2>2. ASSUME NEW n \in 1..p
        PROVE  joined[n] = IF n = 1 THEN parts[n] ELSE joined[n - 1] \o parts[n]
    <3>1. /\ (n - 1) * size \in Nat /\ (n - 1) * size < LastOf(len, size, n)
          /\ LastOf(len, size, n) \in Nat /\ LastOf(len, size, n) <= len
          /\ n # 1 => LastOf(len, size, n - 1) = (n - 1) * size
      BY <1>1, <1>2, <2>2, PageBounds
    <3>2. parts[n] = SubSeq(rows, (n - 1) * size + 1, LastOf(len, size, n))
      BY <1>1, <1>4, <2>2, PageOf
    <3>3. CASE n = 1
      <4>1. (n - 1) * size + 1 = 1
        BY <3>3, SMT
      <4> QED
        BY <2>1, <3>2, <3>3, <4>1
    <3>4. CASE n # 1
      <4>1. n - 1 \in 1..p
        BY <1>3, <2>2, <3>4
      <4>2. joined[n - 1] = SubSeq(rows, 1, (n - 1) * size)
        BY <2>1, <3>1, <3>4, <4>1
      <4>3. PICK m, last : m = (n - 1) * size /\ last = LastOf(len, size, n)
        OBVIOUS
      <4>4. m \in Nat /\ last \in Nat /\ m < last /\ last <= Len(rows)
        BY <1>1, <3>1, <4>3
      <4>5. SubSeq(rows, 1, m) \o SubSeq(rows, m + 1, last) = SubSeq(rows, 1, last)
        BY <4>4, ConcatAdjacentSubSeq
      <4> QED
        BY <2>1, <2>2, <3>2, <3>4, <4>2, <4>3, <4>5
    <3> QED
      BY <3>3, <3>4
  <2>3. FlattenSeq(parts) = joined[p]
    <3>1. p \in Nat \ {0}
      BY <1>3, <1>7
    <3> QED
      BY <1>5, <2>2, <3>1, Flattened, Zenon
  <2>4. joined[p] = SubSeq(rows, 1, Len(rows))
    <3>1. p \in 1..p
      BY <1>3, <1>7
    <3>2. LastOf(len, size, p) = len
      BY <1>1, <1>2, <3>1, PageBounds
    <3> QED
      BY <1>1, <2>1, <3>1, <3>2
  <2>5. SubSeq(rows, 1, Len(rows)) = rows
    BY SubSeqFull
  <2> QED
    BY <1>1, <1>4, <2>3, <2>4, <2>5
<1> QED
  BY <1>6, <1>7

\* a rank is on one page
LEMMA PageOfRank ==
  ASSUME NEW len \in Nat, NEW size \in Nat \ {0}, NEW r \in 1..len
  PROVE  \E n \in 1..PagesOf(len, size) : \A m \in 1..PagesOf(len, size) :
            (m - 1) * size + 1 <= r /\ r <= LastOf(len, size, m) <=> m = n
<1>1. PICK p, q : p = PagesOf(len, size) /\ q = (r - 1) \div size
  OBVIOUS
<1>2. r - 1 \in Nat
  OBVIOUS
<1>3. q \in Nat /\ size * q <= r - 1 /\ r - 1 < size * q + size
  <2>1. PICK k : k = r - 1
    OBVIOUS
  <2>2. k \in Nat
    BY <1>2, <2>1
  <2>3. k \div size \in Nat /\ size * (k \div size) <= k /\ k < size * (k \div size) + size
    BY <2>2, Z3
  <2> QED
    BY <1>1, <2>1, <2>3
<1>4. p \in Nat /\ len <= p * size
  BY <1>1, PagesCounted
<1>5. size * q = q * size /\ q * size \in Nat /\ (q + 1) * size = q * size + size
  BY <1>3, Product, Z3
<1>6. q + 1 \in 1..p
  <2>1. ASSUME p <= q PROVE FALSE
    <3>1. p * size <= q * size
      BY <1>3, <1>4, <2>1, ProductMonotonic
    <3>2. p * size \in Nat
      BY <1>4, Product
    <3> QED
      BY <1>3, <1>4, <1>5, <3>1, <3>2
  <2> QED
    BY <1>3, <1>4, <2>1
<1>7. ASSUME NEW m \in 1..p
      PROVE  (m - 1) * size + 1 <= r /\ r <= LastOf(len, size, m) <=> m = q + 1
  <2>1. /\ (m - 1) * size \in Nat /\ m * size = (m - 1) * size + size
        /\ m \in Nat /\ m - 1 \in Nat
    BY <1>1, <1>4, PageBounds
  <2>2. r <= LastOf(len, size, m) <=> r <= m * size
    BY <2>1 DEF LastOf
  <2>3. CASE m = q + 1
    <3>1. m - 1 = q
      BY <1>3, <2>3
    <3>2. (m - 1) * size = q * size /\ m * size = q * size + size
      BY <1>5, <2>3, <3>1
    <3> QED
      BY <1>3, <1>5, <2>2, <2>3, <3>2
  <2>4. CASE m < q + 1
    <3>1. m <= q
      BY <1>3, <2>1, <2>4
    <3>2. m * size <= q * size /\ m * size \in Nat
      BY <1>3, <2>1, <3>1, ProductMonotonic
    <3>3. ~(r <= m * size)
      BY <1>3, <1>5, <3>2
    <3> QED
      BY <1>3, <2>1, <2>2, <2>4, <3>3
  <2>5. CASE q + 1 < m
    <3>1. q + 1 <= m - 1 /\ q + 1 \in Nat
      BY <1>3, <2>1, <2>5
    <3>2. (q + 1) * size <= (m - 1) * size
      BY <2>1, <3>1, ProductMonotonic
    <3>3. ~((m - 1) * size + 1 <= r)
      BY <1>3, <1>5, <2>1, <3>2
    <3> QED
      BY <1>3, <2>1, <2>5, <3>3
  <2> QED
    BY <1>3, <2>1, <2>3, <2>4, <2>5
<1> QED
  BY <1>1, <1>6, <1>7

\* a line of a ranking is on one page
LEMMA OnOnePage ==
  ASSUME NEW S, NEW rows \in Seq(S), \A i, j \in DOMAIN rows : rows[i] = rows[j] => i = j,
         NEW size \in Nat \ {0}, NEW r \in DOMAIN rows
  PROVE  \E n \in 1..PagesOf(Len(rows), size) : \A m \in 1..PagesOf(Len(rows), size) :
            rows[r] \in ToSet(ApplyPagination(rows, size, m)) <=> m = n
<1>1. PICK len : len = Len(rows)
  OBVIOUS
<1>2. len \in Nat /\ DOMAIN rows = 1..len /\ \A i \in 1..len : rows[i] \in S
  BY <1>1, LenProperties
<1>3. PICK n \in 1..PagesOf(len, size) : \A m \in 1..PagesOf(len, size) :
            (m - 1) * size + 1 <= r /\ r <= LastOf(len, size, m) <=> m = n
  <2>1. len \in Nat /\ r \in 1..len
    BY <1>2
  <2> QED
    BY <2>1, PageOfRank, Zenon
<1>4. ASSUME NEW m \in 1..PagesOf(len, size)
      PROVE  rows[r] \in ToSet(ApplyPagination(rows, size, m))
                <=> (m - 1) * size + 1 <= r /\ r <= LastOf(len, size, m)
  <2>1. PICK a, b : a = (m - 1) * size /\ b = LastOf(len, size, m)
    OBVIOUS
  <2>2. a \in Nat /\ b \in Nat /\ a < b /\ b <= len
    BY <1>2, <2>1, PageBounds
  <2>3. PICK page : page = SubSeq(rows, a + 1, b)
    OBVIOUS
  <2>4. ApplyPagination(rows, size, m) = page
    BY <1>1, <2>1, <2>3, PageOf
  <2>5. /\ page \in Seq(S) /\ Len(page) = b - a
        /\ \A i \in 1..(b - a) : page[i] = rows[a + i]
    <3>1. a + 1 \in Int /\ b \in Int /\ \A i \in (a + 1)..b : rows[i] \in S
      BY <1>2, <2>2
    <3>2. /\ page \in Seq(S)
          /\ Len(page) = IF a + 1 <= b THEN b - (a + 1) + 1 ELSE 0
          /\ \A i \in 1..(b - (a + 1) + 1) : page[i] = rows[a + 1 + i - 1]
      BY <2>3, <3>1, SubSeqProperties
    <3>3. a + 1 <= b /\ b - (a + 1) + 1 = b - a /\ \A i \in 1..(b - a) : a + 1 + i - 1 = a + i
      BY <2>2
    <3> QED
      BY <3>2, <3>3
  <2>6. DOMAIN page = 1..(b - a)
    BY <2>5, LenProperties
  <2>7. \A x : (x \in ToSet(page) <=> \E i \in 1..(b - a) : x = rows[a + i])
    BY <2>5, <2>6 DEF ToSet
  <2>8. a + 1 <= r /\ r <= b => rows[r] \in ToSet(page)
    <3>1. SUFFICES ASSUME a + 1 <= r, r <= b PROVE rows[r] \in ToSet(page)
      OBVIOUS
    <3>2. r \in Nat
      BY <1>2
    <3>3. r - a \in 1..(b - a) /\ a + (r - a) = r
      BY <2>2, <3>1, <3>2
    <3> QED
      BY <2>7, <3>3
  <2>9. rows[r] \in ToSet(page) => a + 1 <= r /\ r <= b
    <3>1. SUFFICES ASSUME NEW i \in 1..(b - a), rows[r] = rows[a + i]
          PROVE a + 1 <= r /\ r <= b
      BY <2>7
    <3>2. a + i \in 1..len /\ a + 1 <= a + i /\ a + i <= b
      BY <1>2, <2>2
    <3>3. r = a + i
      BY <1>2, <3>1, <3>2
    <3> QED
      BY <3>2, <3>3
  <2> QED
    BY <2>1, <2>4, <2>8, <2>9
<1> QED
  BY <1>1, <1>3, <1>4

\* Whoever is on the board is found on one page of it, wherever it is cut.
LEMMA FoundOnOnePage ==
  ASSUME leaderboard = Board(shown), IsFiniteSet(leaderboard), Leaders \in SetToSeqs(leaderboard),
         NEW u \in Users, Played(u, shown) # {}, NEW size \in Nat \ {0}
  PROVE  Cardinality({n \in 1..PagesOf(Len(Leaders), size) : FindUserRank(u, size, n) # {}}) = 1
<1>1. PICK rows, S : rows = Leaders /\ S = Board(shown)
  OBVIOUS
<1>2. /\ rows \in Seq(S) /\ DOMAIN rows = 1..Len(rows)
      /\ \A i, j \in DOMAIN rows : rows[i] = rows[j] => i = j
      /\ \A x \in S : \E i \in DOMAIN rows : rows[i] = x
  BY <1>1, RankingIsWhole
<1>3. Leader(u, shown) \in S
  BY <1>1 DEF Board
<1>4. PICK r \in DOMAIN rows : rows[r] = Leader(u, shown)
  BY <1>2, <1>3
<1>5. \A i \in DOMAIN rows : rows[i].user = u <=> i = r
  <2>1. ASSUME NEW i \in DOMAIN rows, rows[i].user = u
        PROVE  i = r
    <3>1. rows[i] \in S
      BY <1>2
    <3>2. PICK v \in Users : rows[i] = Leader(v, shown)
      BY <1>1, <3>1 DEF Board
    <3>3. Leader(v, shown).user = v
      BY DEF Leader
    <3>4. rows[i] = Leader(u, shown)
      BY <2>1, <3>2, <3>3
    <3> QED
      BY <1>2, <1>4, <3>4
  <2>2. Leader(u, shown).user = u
    BY DEF Leader
  <2> QED
    BY <1>4, <2>1, <2>2
<1>6. PICK n \in 1..PagesOf(Len(rows), size) : \A m \in 1..PagesOf(Len(rows), size) :
         rows[r] \in ToSet(ApplyPagination(rows, size, m)) <=> m = n
  <2>1. /\ rows \in Seq(S) /\ r \in DOMAIN rows /\ size \in Nat \ {0}
        /\ \A i, j \in DOMAIN rows : rows[i] = rows[j] => i = j
    BY <1>2
  <2> QED
    BY <2>1, OnOnePage, Zenon
<1>7. \A m : FindUserRank(u, size, m) # {}
                <=> rows[r] \in ToSet(ApplyPagination(rows, size, m))
  BY <1>1, <1>5 DEF FindUserRank
<1>8. {m \in 1..PagesOf(Len(rows), size) : FindUserRank(u, size, m) # {}} = {n}
  BY <1>6, <1>7
<1> QED
  BY <1>1, <1>8, FS_Singleton

-----------------------------------------------------------------------------
(* Seats that won nothing *)

\* a seat has an amount only in a resolved duel, and only if it won
UnwonIn(row, rows) ==
    \A i \in DOMAIN rows :
       row.status # Resolved \/ rows[i].finalStatus # PlayerResolved => rows[i].winAmount = 0

NothingUnwon == \A d \in Duels : UnwonIn(duels[d], players[d])

LEMMA UnwonThen ==
  NothingUnwon' <=> \A d \in Duels : UnwonIn(duels'[d], players'[d])
BY Zenon DEF NothingUnwon, UnwonIn

LEMMA UnwonOfOneDuel ==
  ASSUME NothingUnwon, NEW d \in Duels, OthersSame(d), UnwonIn(duels'[d], players'[d])
  PROVE  NothingUnwon'
<1>1. \A e \in Duels \ {d} : UnwonIn(duels'[e], players'[e])
  BY Zenon DEF NothingUnwon, OthersSame, SameDuel
<1> QED
  BY <1>1, UnwonThen

LEMMA UnwonStep ==
  ASSUME SerialInv, SerialInv', Shape, NothingUnwon
  PROVE  NothingUnwon'
<1>1. TypeOK /\ TypeOK' /\ IInv
  BY DEF SerialInv, IInv
<1>2. CASE Quiet
  <2>1. \A d \in Duels : duels'[d].status = Resolved <=> duels[d].status = Resolved
    BY <1>2, StatusesDiffer DEF Quiet, Live
  <2>2. players' = players
    BY <1>2 DEF Quiet
  <2>3. \A d \in Duels : UnwonIn(duels'[d], players'[d])
    BY <2>1, <2>2 DEF NothingUnwon, UnwonIn
  <2> QED
    BY <2>3, UnwonThen
<1>3. ASSUME NEW d \in Duels, NEW seat \in PlayerRow, SeatAdded(d, seat)
      PROVE  NothingUnwon'
  <2>1. PICK rows : rows = players[d]
    OBVIOUS
  <2>2. rows \in Seq(PlayerRow)
    BY <1>1, <2>1, RowsOf
  <2>3. /\ players'[d] = Append(rows, seat) /\ OthersSame(d) /\ seat.winAmount = 0
        /\ duels[d].status # Resolved
    BY <1>3, <2>1, StatusesDiffer DEF SeatAdded
  <2>4. \A i \in DOMAIN rows : rows[i].winAmount = 0
    BY <2>1, <2>3 DEF NothingUnwon, UnwonIn
  <2>5. /\ DOMAIN Append(rows, seat) = (DOMAIN rows) \cup {Len(rows) + 1}
        /\ \A i \in DOMAIN rows : Append(rows, seat)[i] = rows[i]
        /\ Append(rows, seat)[Len(rows) + 1] = seat
    BY <2>2, AppendRow
  <2>6. \A i \in DOMAIN Append(rows, seat) : Append(rows, seat)[i].winAmount = 0
    BY <2>3, <2>4, <2>5
  <2>7. UnwonIn(duels'[d], players'[d])
    BY <2>3, <2>6 DEF UnwonIn
  <2> QED
    BY <2>3, <2>7, UnwonOfOneDuel
<1>4. ASSUME NEW d \in Duels, NEW answer \in Answers, NEW cutoff \in Int, Settled(d, answer, cutoff)
      PROVE  NothingUnwon'
  <2>1. PICK old, new, W, L : /\ old = players[d] /\ new = players'[d]
                              /\ W = WinnersOf(d, answer, cutoff) /\ L = LateRows(d, cutoff)
    OBVIOUS
  <2>2. /\ OthersSame(d) /\ duels[d].status # Resolved
        /\ new = [i \in DOMAIN old |->
                    IF i \in W THEN [old[i] EXCEPT !.finalStatus = PlayerResolved,
                                                   !.winAmount = AmountOf(d, answer, cutoff)]
                    ELSE IF i \in L THEN [old[i] EXCEPT !.finalStatus = PlayerRefunded]
                    ELSE old[i]]
    BY <1>4, <2>1, StatusesDiffer DEF Settled, Rows
  <2>3. \A i \in DOMAIN old : old[i].winAmount = 0 /\ old[i] \in PlayerRow
    <3>1. \A i \in DOMAIN old : old[i] \in PlayerRow
      BY <1>1, <2>1, RowsOf DEF Rows
    <3> QED
      BY <2>1, <2>2, <3>1 DEF NothingUnwon, UnwonIn
  <2>4. {i \in DOMAIN new : new[i].finalStatus = PlayerResolved} = W
    BY <1>1, <1>4, <2>1, SettledRows
  <2>5. ASSUME NEW i \in DOMAIN new, i \notin W
        PROVE  new[i].winAmount = 0
    <3>1. new[i] = (IF i \in L THEN [old[i] EXCEPT !.finalStatus = PlayerRefunded] ELSE old[i])
          /\ i \in DOMAIN old
      BY <2>2, <2>5
    <3>2. [old[i] EXCEPT !.finalStatus = PlayerRefunded].winAmount = 0
      BY <2>3, <3>1 DEF PlayerRow
    <3> QED
      BY <2>3, <3>1, <3>2
  <2>6. UnwonIn(duels'[d], new)
    <3>1. duels'[d].status = Resolved
      BY <1>4 DEF Settled
    <3> QED
      BY <2>4, <2>5, <3>1 DEF UnwonIn
  <2> QED
    BY <2>1, <2>2, <2>6, UnwonOfOneDuel
<1>5. ASSUME NEW d \in Duels, Marked(d)
      PROVE  NothingUnwon'
  <2>1. PICK old : old = players[d]
    OBVIOUS
  <2>2. /\ OthersSame(d) /\ duels[d].status # Resolved
        /\ players'[d] = SetStatus(old, DOMAIN old, PlayerRefunded)
    BY <1>5, <2>1, StatusesDiffer DEF Marked
  <2>3. \A i \in DOMAIN old : old[i].winAmount = 0 /\ old[i] \in PlayerRow
    <3>1. \A i \in DOMAIN old : old[i] \in PlayerRow
      BY <1>1, <2>1, RowsOf DEF Rows
    <3> QED
      BY <2>1, <2>2, <3>1 DEF NothingUnwon, UnwonIn
  <2>4. \A i \in DOMAIN old : [old[i] EXCEPT !.finalStatus = PlayerRefunded].winAmount = 0
    BY <2>3 DEF PlayerRow
  <2>5. UnwonIn(duels'[d], players'[d])
    BY <2>2, <2>4 DEF UnwonIn, SetStatus
  <2> QED
    BY <2>2, <2>5, UnwonOfOneDuel
<1>6. ASSUME NEW d \in Duels, Returned(d)
      PROVE  NothingUnwon'
  <2>1. OthersSame(d) /\ players'[d] = players[d] /\ duels[d].status # Resolved
    BY <1>6, StatusesDiffer DEF Returned
  <2>2. \A i \in DOMAIN players[d] : players[d][i].winAmount = 0
    BY <2>1 DEF NothingUnwon, UnwonIn
  <2>3. UnwonIn(duels'[d], players'[d])
    BY <2>1, <2>2 DEF UnwonIn
  <2> QED
    BY <2>1, <2>3, UnwonOfOneDuel
<1> QED
  BY <1>2, <1>3, <1>4, <1>5, <1>6 DEF Shape

-----------------------------------------------------------------------------
(* The leaderboard *)

\* what the line of a duel gives to the sum over the seats, for a function g of seats
LineSum(g, u, d) == IF SeatsOf(d, u) = {} THEN 0 ELSE g[<<d, CHOOSE i \in SeatsOf(d, u) : TRUE>>]

LEMMA OneSeatPlayed ==
  ASSUME SerialInv, NEW d \in Duels, NEW u \in Users
  PROVE  \/ SeatsOf(d, u) = {}
         \/ \E i \in Rows(d) : /\ SeatsOf(d, u) = {i} /\ players[d][i].user = u
                               /\ \A g : LineSum(g, u, d) = g[<<d, i>>]
<1>1. SUFFICES ASSUME NEW i \in SeatsOf(d, u)
      PROVE /\ i \in Rows(d) /\ SeatsOf(d, u) = {i} /\ players[d][i].user = u
            /\ \A g : LineSum(g, u, d) = g[<<d, i>>]
  BY Zenon
<1>2. OneSeat(d)
  BY DEF SerialInv, DuelCurrent
<1>3. i \in Rows(d) /\ SeatsOf(d, u) = {i} /\ players[d][i].user = u
  BY <1>1, <1>2 DEF SeatsOf, OneSeat
<1>4. (CHOOSE j \in SeatsOf(d, u) : TRUE) = i
  BY <1>3
<1> QED
  BY <1>1, <1>3, <1>4 DEF LineSum

\* the sum over the seats a user has is the sum over the duels he has them in
LEMMA SumOfSeats ==
  ASSUME SerialInv, NEW u \in Users, NEW R \in SUBSET Duels, IsFiniteSet(R),
         NEW g, \A s \in Played(u, R) : g[s] \in Int
  PROVE  /\ IsFiniteSet(Played(u, R))
         /\ SumFunctionOnSet(g, Played(u, R))
              = SumFunctionOnSet([d \in R |-> LineSum(g, u, d)], R)
<1>1. PICK h : h = [d \in R |-> LineSum(g, u, d)]
  OBVIOUS
<1>2. \A d \in R : h[d] = LineSum(g, u, d)
  BY <1>1
<1> HIDE DEF LineSum
<1>0. ASSUME NEW d \in R
      PROVE  \/ SeatsOf(d, u) = {} /\ LineSum(g, u, d) = 0
             \/ \E i : SeatsOf(d, u) = {i} /\ LineSum(g, u, d) = g[<<d, i>>]
  <2>1. d \in Duels
    OBVIOUS
  <2>2. SeatsOf(d, u) = {} => LineSum(g, u, d) = 0
    BY Zenon DEF LineSum
  <2>3. \/ SeatsOf(d, u) = {}
        \/ \E i \in Rows(d) : /\ SeatsOf(d, u) = {i} /\ players[d][i].user = u
                              /\ \A f : LineSum(f, u, d) = f[<<d, i>>]
    BY <2>1, OneSeatPlayed
  <2>4. (\E i \in Rows(d) : /\ SeatsOf(d, u) = {i} /\ players[d][i].user = u
                            /\ \A f : LineSum(f, u, d) = f[<<d, i>>])
          => \E i : SeatsOf(d, u) = {i} /\ LineSum(g, u, d) = g[<<d, i>>]
    OBVIOUS
  <2> QED
    BY <2>2, <2>3, <2>4, Zenon
<1>3. IntOn(h, R)
  <2>1. ASSUME NEW d \in R PROVE h[d] \in Int
    <3>1. LineSum(g, u, d) = 0 => h[d] \in Int
      BY <1>2
    <3>2. ASSUME NEW i, SeatsOf(d, u) = {i}, LineSum(g, u, d) = g[<<d, i>>]
          PROVE  h[d] \in Int
      <4>1. <<d, i>> \in Played(u, R)
        BY <3>2 DEF Played
      <4> QED
        BY <1>2, <3>2, <4>1
    <3> QED
      BY <1>0, <3>1, <3>2, Zenon
  <2> QED
    BY <2>1 DEF IntOn
<1> DEFINE Good == {D \in SUBSET R :
              /\ IsFiniteSet(Played(u, D))
              /\ SumFunctionOnSet(g, Played(u, D)) = SumFunctionOnSet(h, D)}
<1>4. {} \in Good
  <2>1. Played(u, {}) = {}
    BY DEF Played
  <2>2. IsFiniteSet({})
    BY FS_EmptySet
  <2>3. SumFunctionOnSet(g, {}) = 0 /\ SumFunctionOnSet(h, {}) = 0
    BY SumOfNothing
  <2>4. /\ IsFiniteSet(Played(u, {}))
        /\ SumFunctionOnSet(g, Played(u, {})) = SumFunctionOnSet(h, {})
    BY <2>1, <2>2, <2>3, Zenon
  <2> QED
    BY <2>4
<1>5. ASSUME NEW D \in SUBSET R, NEW d \in R \ D, D \in Good
      PROVE  D \cup {d} \in Good
  <2>1. PICK old, new, seats : /\ old = Played(u, D) /\ new = Played(u, D \cup {d})
                               /\ seats = {<<d, i>> : i \in SeatsOf(d, u)}
    OBVIOUS
  <2>2. IsFiniteSet(old) /\ SumFunctionOnSet(g, old) = SumFunctionOnSet(h, D)
    BY <1>5, <2>1
  <2>3. new = old \cup seats /\ old \cap seats = {}
    BY <2>1 DEF Played
  <2>4. old \subseteq Played(u, R) /\ seats \subseteq Played(u, R)
    BY <2>1 DEF Played
  <2>5. IntOn(g, old) /\ IntOn(g, seats) /\ IntOn(h, D) /\ h[d] \in Int
    BY <1>3, <2>4 DEF IntOn
  <2>6. SumFunctionOnSet(h, D \cup {d}) = SumFunctionOnSet(h, D) + h[d]
    <3>1. IsFiniteSet(D) /\ d \notin D
      BY FS_Subset
    <3> QED
      BY <2>5, <3>1, SumWith
  <2>7. SumFunctionOnSet(h, D) \in Int
    BY <2>2, <2>5, SumInt
  <2>8. CASE SeatsOf(d, u) = {}
    <3>1. new = old
      BY <2>1, <2>3, <2>8
    <3>2. h[d] = 0
      BY <1>2, <2>8 DEF LineSum
    <3>3. IsFiniteSet(new) /\ SumFunctionOnSet(g, new) = SumFunctionOnSet(h, D \cup {d})
      BY <2>2, <2>6, <2>7, <3>1, <3>2
    <3> QED
      BY <2>1, <3>3
  <2>9. ASSUME NEW i, SeatsOf(d, u) = {i}, LineSum(g, u, d) = g[<<d, i>>]
        PROVE  D \cup {d} \in Good
    <3>1. PICK s : s = <<d, i>>
      OBVIOUS
    <3>2. seats = {s} /\ h[d] = g[s] /\ s \notin old
      <4>1. seats = {s}
        BY <2>1, <2>9, <3>1
      <4>2. h[d] = g[s]
        BY <1>2, <2>9, <3>1
      <4>3. s \notin old
        BY <2>3, <4>1
      <4> QED
        BY <4>1, <4>2, <4>3
    <3>3. g[s] \in Int
      BY <2>5, <3>2
    <3>4. SumFunctionOnSet(g, old \cup {s}) = SumFunctionOnSet(g, old) + g[s]
      BY <2>2, <2>5, <3>2, <3>3, SumWith
    <3>5. IsFiniteSet(old \cup {s})
      BY <2>2, FS_AddElement
    <3>6. new = old \cup {s}
      BY <2>3, <3>2
    <3>7. IsFiniteSet(new) /\ SumFunctionOnSet(g, new) = SumFunctionOnSet(h, D \cup {d})
      BY <2>2, <2>6, <3>2, <3>4, <3>5, <3>6, Zenon
    <3> QED
      BY <2>1, <3>7
  <2> QED
    BY <1>0, <2>8, <2>9, Zenon
<1> HIDE DEF Good
<1>6. R \in Good
  BY <1>4, <1>5, SetInduction, Zenon
<1> QED
  BY <1>1, <1>6 DEF Good

\* what a seat of a resolved duel adds to the leaderboard
Gain(s, u) == players[s[1]][s[2]].winAmount + CommissionEarned(s[1], u) - DuelPrice

\* rounding down twice, by a hundred and by two, is rounding down once by two hundred
LEMMA HalfOfPercent ==
  ASSUME NEW n \in Nat
  PROVE  (n \div 100) \div 2 = n \div 200
BY Z3

LEMMA CommissionsAgree ==
  ASSUME SerialInv, NEW d \in Duels, NEW u \in Users, duels[d].status = Resolved,
         duels[d].owner = u => duels[d].refundedPlayersCount = 0
  PROVE  OwnerPaid(duels[d], u) = CommissionEarned(d, u) /\ CommissionEarned(d, u) \in Nat
<1>1. PICK c : c = duels[d].playersCount
  OBVIOUS
<1>2. c \in Nat /\ DuelPrice \in Nat /\ Commission \in Nat
  BY <1>1, AmountsAssumption DEF SerialInv, IInv, TypeOK, DuelRow
<1>3. PICK n : n = c * DuelPrice * Commission
  OBVIOUS
<1>4. n \in Nat
  <2>1. c * DuelPrice \in Nat
    BY <1>2, Product
  <2> QED
    BY <1>2, <1>3, <2>1, Product
<1>5. CASE duels[d].owner = u
  <2>1. duels[d].playersCount - duels[d].refundedPlayersCount = c
    BY <1>1, <1>2, <1>5
  <2>2. OwnerPaid(duels[d], u) = n \div 200
    BY <1>3, <1>5, <2>1, Zenon DEF OwnerPaid, CommissionReward, Pool
  <2>3. CommissionEarned(d, u) = (n \div 100) \div 2
    BY <1>1, <1>3, <1>5, Zenon DEF CommissionEarned
  <2>4. (n \div 100) \div 2 = n \div 200 /\ n \div 200 \in Nat
    <3>1. n \div 200 \in Nat
      BY <1>4, SMT
    <3> QED
      BY <1>4, <3>1, HalfOfPercent
  <2> QED
    BY <2>2, <2>3, <2>4
<1>6. CASE duels[d].owner # u
  BY <1>6 DEF OwnerPaid, CommissionEarned
<1> QED
  BY <1>5, <1>6

\* what a resolved duel paid a user, less what he staked, is what its line says
LEMMA GainOfDuel ==
  ASSUME SerialInv, NothingUnwon, NEW u \in Users, NEW R \in SUBSET ResolvedDuels, Plain(u, R),
         NEW d \in R, NEW g, \A s \in Played(u, R) : g[s] = Gain(s, u)
  PROVE  Credits(d, u) - Stakes(d, u) = LineSum(g, u, d)
<1>1. PICK row, rows : row = duels[d] /\ rows = players[d]
  OBVIOUS
<1>2. d \in Duels /\ row.status = Resolved
  BY <1>1 DEF ResolvedDuels
<1>3. row \in DuelRow /\ rows \in Seq(PlayerRow) /\ OneSeatIn(rows)
  BY <1>1, <1>2, RowsNow
<1>4. Credits(d, u) = CreditsOf(row, rows, u) /\ Stakes(d, u) = StakesOf(rows, u)
  BY <1>1, BooksOfRows
<1>5. row.status \in Terminal /\ row.status \notin Cancelled
  BY <1>2, StatusesDiffer
<1>6. CASE SeatsOf(d, u) = {}
  <2>1. \A i \in DOMAIN rows : rows[i].user # u
    BY <1>1, <1>6 DEF SeatsOf, Rows
  <2>2. CreditsOf(row, rows, u) = OwnerPaid(row, u)
    BY <1>3, <1>5, <2>1, CreditsCases
  <2>3. row.owner # u
    BY <1>1, <1>2, <1>6 DEF Plain
  <2>4. OwnerPaid(row, u) = 0
    BY <2>3, Zenon DEF OwnerPaid
  <2>5. PaidSeatsOf(rows, u) = {}
    BY <2>1 DEF PaidSeatsOf
  <2>6. Cardinality(PaidSeatsOf(rows, u)) = 0
    BY <2>5, FS_EmptySet, Zenon
  <2>7. StakesOf(rows, u) = 0
    BY <2>6, AmountsAssumption DEF StakesOf
  <2>8. LineSum(g, u, d) = 0
    BY <1>6, Zenon DEF LineSum
  <2> QED
    BY <1>4, <2>2, <2>4, <2>7, <2>8
<1>7. ASSUME NEW i \in Rows(d), SeatsOf(d, u) = {i}, players[d][i].user = u,
             LineSum(g, u, d) = g[<<d, i>>]
      PROVE  Credits(d, u) - Stakes(d, u) = LineSum(g, u, d)
  <2>1. PICK p : p = rows[i]
    OBVIOUS
  <2>2. i \in DOMAIN rows /\ p.user = u /\ p \in PlayerRow
    <3>1. i \in DOMAIN rows
      BY <1>1, <1>7 DEF Rows
    <3>2. rows[i] \in PlayerRow
      BY <1>3, <3>1, LenProperties
    <3> QED
      BY <1>1, <1>7, <2>1, <3>1, <3>2
  <2>3. <<d, i>> \in Played(u, R)
    BY <1>7 DEF Played
  <2>4. p.charged /\ p.finalStatus # PlayerRefunded /\ u \notin Premium
    <3>1. PICK s : s = <<d, i>>
      OBVIOUS
    <3>2. s[1] = d /\ s[2] = i /\ s \in Played(u, R)
      BY <2>3, <3>1
    <3> QED
      BY <1>1, <2>1, <3>2 DEF Plain
  <2>5. CreditsOf(row, rows, u) = SeatPaid(row, p, u) + OwnerPaid(row, u)
    BY <1>3, <1>5, <2>1, <2>2, CreditsCases
  <2>6. SeatPaid(row, p, u) = p.winAmount
    <3>1. p.finalStatus = PlayerResolved => SeatPaid(row, p, u) = p.winAmount
      BY <1>5, <2>4, Zenon DEF SeatPaid
    <3>2. p.finalStatus # PlayerResolved => SeatPaid(row, p, u) = 0
      BY <1>5, <2>4, Zenon DEF SeatPaid
    <3>3. p.finalStatus # PlayerResolved => p.winAmount = 0
      BY <1>1, <1>2, <2>1, <2>2 DEF NothingUnwon, UnwonIn
    <3> QED
      BY <3>1, <3>2, <3>3
  <2>7. OwnerPaid(row, u) = CommissionEarned(d, u) /\ CommissionEarned(d, u) \in Nat
    <3>1. duels[d].owner = u => duels[d].refundedPlayersCount = 0
      BY <1>1, <1>2 DEF Plain
    <3>2. duels[d].status = Resolved
      BY <1>1, <1>2
    <3> QED
      BY <1>1, <1>2, <3>1, <3>2, CommissionsAgree
  <2>8. StakesOf(rows, u) = DuelPrice /\ DuelPrice \in Int
    <3>1. PaidSeatsOf(rows, u) = {i}
      BY <1>1, <1>7, <2>1, <2>2, <2>4 DEF PaidSeatsOf, SeatsOf, Rows
    <3>2. Cardinality(PaidSeatsOf(rows, u)) = 1
      BY <3>1, FS_Singleton, Zenon
    <3> QED
      BY <3>2, AmountsAssumption DEF StakesOf
  <2>9. LineSum(g, u, d) = p.winAmount + CommissionEarned(d, u) - DuelPrice
    <3>1. PICK s : s = <<d, i>>
      OBVIOUS
    <3>2. s[1] = d /\ s[2] = i /\ s \in Played(u, R)
      BY <2>3, <3>1
    <3>3. g[s] = players[d][i].winAmount + CommissionEarned(d, u) - DuelPrice
      BY <3>2, Zenon DEF Gain
    <3> QED
      BY <1>1, <1>7, <2>1, <3>1, <3>3
  <2>10. p.winAmount \in Nat
    BY <2>2 DEF PlayerRow
  <2> QED
    BY <1>4, <2>5, <2>6, <2>7, <2>8, <2>9, <2>10
<1>8. \/ SeatsOf(d, u) = {}
      \/ \E i \in Rows(d) : /\ SeatsOf(d, u) = {i} /\ players[d][i].user = u
                            /\ \A f : LineSum(f, u, d) = f[<<d, i>>]
  BY <1>2, OneSeatPlayed
<1> QED
  BY <1>6, <1>7, <1>8

\* the sums of the view are sums over the seats
LEMMA PnlOfSeats ==
  ASSUME SerialInv, FewUsers, NEW u \in Users, NEW R \in SUBSET ResolvedDuels
  PROVE  /\ Pnl(u, R) \in Int
         /\ \A g : (\A s \in Played(u, R) : g[s] = Gain(s, u))
                     => Pnl(u, R) = SumFunctionOnSet(g, Played(u, R))
<1>1. PICK seats, e, c, price :
         /\ seats = Played(u, R) /\ price = [s \in seats |-> - DuelPrice]
         /\ e = [s \in seats |-> players[s[1]][s[2]].winAmount]
         /\ c = [s \in seats |-> CommissionEarned(s[1], u)]
  OBVIOUS
<1>2. IsFiniteSet(seats)
  <2>1. R \in SUBSET Duels /\ IsFiniteSet(R)
    BY FS_Subset DEF FewUsers, ResolvedDuels
  <2>2. PICK zero : zero = [s \in seats |-> 0]
    OBVIOUS
  <2>3. \A s \in Played(u, R) : zero[s] \in Int
    BY <1>1, <2>2
  <2> QED
    BY <1>1, <2>1, <2>3, SumOfSeats
<1>3. DuelPrice \in Nat /\ - DuelPrice \in Int /\ Cardinality(seats) \in Nat
  BY <1>2, FS_CardinalityType, AmountsAssumption
<1>4. \A s \in seats : s[1] \in ResolvedDuels /\ s[1] \in Duels /\ s[2] \in Rows(s[1])
  BY <1>1 DEF Played, ResolvedDuels, SeatsOf
<1>5. ASSUME NEW s \in seats PROVE e[s] \in Int /\ c[s] \in Int /\ price[s] = - DuelPrice
  <2>1. players[s[1]][s[2]] \in PlayerRow
    BY <1>4, RowsOf DEF SerialInv, IInv
  <2>2. e[s] \in Int
    BY <1>1, <2>1 DEF PlayerRow
  <2>3. CommissionEarned(s[1], u) \in Int
    <3>1. PICK n : n = duels[s[1]].playersCount * DuelPrice * Commission
      OBVIOUS
    <3>2. duels[s[1]].playersCount \in Nat /\ Commission \in Nat
      BY <1>4, AmountsAssumption DEF SerialInv, IInv, TypeOK, DuelRow
    <3>3. duels[s[1]].playersCount * DuelPrice \in Nat
      BY <1>3, <3>2, Product
    <3>4. n \in Nat
      BY <3>1, <3>2, <3>3, Product
    <3>5. (n \div 100) \div 2 \in Int
      BY <3>4, Z3
    <3>6. CommissionEarned(s[1], u) \in {(n \div 100) \div 2, 0}
      BY <3>1 DEF CommissionEarned
    <3> QED
      BY <3>5, <3>6
  <2> QED
    BY <1>1, <2>2, <2>3
<1>6. IntOn(e, seats) /\ IntOn(c, seats) /\ IntOn(price, seats)
  BY <1>3, <1>5 DEF IntOn
<1>7. /\ SumFunctionOnSet(e, seats) \in Int /\ SumFunctionOnSet(c, seats) \in Int
      /\ SumFunctionOnSet(price, seats) = Cardinality(seats) * (- DuelPrice)
  BY <1>2, <1>3, <1>5, <1>6, SumInt, SumOfConstant
<1>8. Pnl(u, R) = SumFunctionOnSet(e, seats) + SumFunctionOnSet(c, seats)
                 - DuelPrice * Cardinality(seats)
  <2>1. SumFunction(e) = SumFunctionOnSet(e, seats) /\ SumFunction(c) = SumFunctionOnSet(c, seats)
    BY <1>1 DEF SumFunction
  <2>2. Earned(u, R) = SumFunction(e) /\ Spent(u, R) = DuelPrice * Cardinality(seats)
    BY <1>1, Zenon DEF Earned, Spent
  <2>3. Pnl(u, R) = Earned(u, R) + SumFunction(c) - Spent(u, R)
    BY <1>1, Zenon DEF Pnl
  <2> QED
    BY <2>1, <2>2, <2>3, Zenon
<1>9. Cardinality(seats) * (- DuelPrice) = - (DuelPrice * Cardinality(seats))
      /\ DuelPrice * Cardinality(seats) \in Int
  BY <1>3, Z3
<1>10. Pnl(u, R) \in Int
  BY <1>7, <1>8, <1>9
<1>11. ASSUME NEW g, \A s \in seats : g[s] = Gain(s, u)
       PROVE  Pnl(u, R) = SumFunctionOnSet(g, seats)
  <2>1. PICK both : both = [s \in seats |-> e[s] + c[s]]
    OBVIOUS
  <2>2. SumFunctionOnSet(both, seats) = SumFunctionOnSet(e, seats) + SumFunctionOnSet(c, seats)
    BY <1>2, <1>6, <2>1, SumOfSum
  <2>3. IntOn(both, seats)
    BY <1>5, <2>1 DEF IntOn
  <2>4. \A s \in seats : g[s] = both[s] + price[s]
    <3>1. ASSUME NEW s \in seats PROVE g[s] = both[s] + price[s]
      <4>1. g[s] = e[s] + c[s] - DuelPrice
        BY <1>1, <1>11, <3>1, Zenon DEF Gain
      <4>2. both[s] = e[s] + c[s]
        BY <2>1
      <4> QED
        BY <1>3, <1>5, <4>1, <4>2
    <3> QED
      BY <3>1
  <2>5. SumFunctionOnSet(g, seats) = SumFunctionOnSet(both, seats) + SumFunctionOnSet(price, seats)
    BY <1>2, <1>6, <2>3, <2>4, SumOfSum
  <2> QED
    BY <1>7, <1>8, <1>9, <2>2, <2>5
<1> QED
  BY <1>1, <1>10, <1>11

\* A user whose seats were all paid for and none refunded: the board says of him
\* what the settlements did to his balance.
LEMMA PnlIsGain ==
  ASSUME SerialInv, NothingUnwon, FewUsers, NEW u \in Users,
         NEW R \in SUBSET ResolvedDuels, Plain(u, R)
  PROVE  Pnl(u, R) = SumFunction([d \in R |-> Credits(d, u) - Stakes(d, u)])
<1>1. PICK h : h = [d \in R |-> Credits(d, u) - Stakes(d, u)]
  OBVIOUS
<1>2. R \in SUBSET Duels /\ IsFiniteSet(R)
  BY FS_Subset DEF FewUsers, ResolvedDuels
<1>3. PICK g : g = [s \in Played(u, R) |-> Gain(s, u)]
  OBVIOUS
<1>4. \A s \in Played(u, R) : g[s] = Gain(s, u)
  BY <1>3
<1>5. Pnl(u, R) = SumFunctionOnSet(g, Played(u, R))
  BY <1>4, PnlOfSeats
<1>7. \A s \in Played(u, R) : g[s] \in Int
  <2>1. ASSUME NEW s \in Played(u, R) PROVE Gain(s, u) \in Int
    <3>1. s[1] \in Duels /\ s[2] \in Rows(s[1]) /\ duels[s[1]].status = Resolved
      BY <2>1 DEF Played, SeatsOf, ResolvedDuels
    <3>2. players[s[1]][s[2]].winAmount \in Int
      BY <3>1, RowsOf DEF SerialInv, IInv, PlayerRow
    <3>3. CommissionEarned(s[1], u) \in Nat
      <4>1. duels[s[1]].owner = u => duels[s[1]].refundedPlayersCount = 0
        BY <2>1 DEF Plain, Played
      <4> QED
        BY <3>1, <4>1, CommissionsAgree
    <3>4. DuelPrice \in Int
      BY AmountsAssumption
    <3> QED
      BY <3>2, <3>3, <3>4 DEF Gain
  <2> QED
    BY <1>4, <2>1
<1>8. PICK lines : lines = [d \in R |-> LineSum(g, u, d)]
  OBVIOUS
<1>9. SumFunctionOnSet(g, Played(u, R)) = SumFunctionOnSet(lines, R)
  BY <1>2, <1>7, <1>8, SumOfSeats
<1>10. \A d \in R : Credits(d, u) - Stakes(d, u) = LineSum(g, u, d)
  BY <1>2, <1>4, GainOfDuel
<1>11. h = lines
  BY <1>1, <1>8, <1>10
<1>12. SumFunction(h) = SumFunctionOnSet(h, R)
  BY <1>1 DEF SumFunction
<1>13. Pnl(u, R) = SumFunction(h)
  BY <1>5, <1>9, <1>11, <1>12, Zenon
<1> QED
  BY <1>1, <1>13

\* some of the resolved duels make a board that is finite and can be ranked
LEMMA BoardRanked ==
  ASSUME SerialInv, FewUsers, NEW R \in SUBSET ResolvedDuels
  PROVE  IsFiniteSet(Board(R)) /\ \E rows \in SetToSeqs(Board(R)) : Ranked(rows)
<1>1. PICK V, f : V = {v \in Users : Played(v, R) # {}} /\ f = [u \in V |-> Leader(u, R)]
  OBVIOUS
<1>2. PICK S : S = Board(R)
  OBVIOUS
<1>3. S = {Leader(u, R) : u \in V}
  BY <1>1, <1>2 DEF Board
<1>4. IsFiniteSet(V)
  BY <1>1, FS_Subset DEF FewUsers
<1>5. f \in Surjection(V, S)
  BY <1>1, <1>3 DEF Surjection
<1>6. IsFiniteSet(S)
  BY <1>4, <1>5, FS_Surjection
<1>7. \A x \in S : x.pnl \in Int
  <2>1. \A u \in V : Leader(u, R).pnl = Pnl(u, R) /\ Pnl(u, R) \in Int
    BY <1>1, PnlOfSeats DEF Leader
  <2> QED
    BY <1>3, <2>1
<1>8. \E rows \in SetToSeqs(S) : Ranked(rows)
  BY <1>6, <1>7, RankingExists
<1> QED
  BY <1>2, <1>6, <1>8

\* The view holds what its query would give today for the duels it was filled from.
ViewInv == shown \in SUBSET ResolvedDuels /\ leaderboard = Board(shown)

\* what was settled stays, and so does what the query makes of it
LEMMA SettledStays ==
  ASSUME SerialInv, Shape
  PROVE  /\ \A d \in ResolvedDuels : /\ players'[d] = players[d]
                                     /\ duels'[d].owner = duels[d].owner
                                     /\ duels'[d].playersCount = duels[d].playersCount
         /\ ResolvedDuels \in SUBSET ResolvedDuels'
<1>1. ASSUME NEW d \in Duels, duels[d].status = Resolved
      PROVE  /\ players'[d] = players[d] /\ duels'[d].owner = duels[d].owner
             /\ duels'[d].playersCount = duels[d].playersCount
             /\ duels'[d].status = Resolved
  <2>1. duels[d].status \notin Live /\ duels[d].status # InProcess
        /\ duels[d].status # NoStatus /\ duels[d].status # InReview
    BY <1>1, StatusesDiffer DEF Live
  <2>2. CASE Quiet
    BY <1>1, <2>1, <2>2 DEF Quiet, SameCounts
  <2>3. ASSUME NEW e \in Duels, OthersSame(e), e # d
        PROVE  SameDuel(d)
    BY <2>3 DEF OthersSame
  <2> QED
    BY <1>1, <2>1, <2>2, <2>3 DEF Shape, SeatAdded, Settled, Marked, Returned, SameDuel
<1> QED
  BY <1>1 DEF ResolvedDuels

\* the query reads the rows of its duels, their owners and their counts
LEMMA SameBoard ==
  ASSUME NEW R, \A d \in R : /\ players'[d] = players[d]
                             /\ duels'[d].owner = duels[d].owner
                             /\ duels'[d].playersCount = duels[d].playersCount
  PROVE  Board(R)' = Board(R)
<1>1. \A u : Played(u, R)' = Played(u, R)
  BY DEF Played, SeatsOf, Rows
<1>2. \A u : \A s \in Played(u, R) :
         s[1] \in R /\ players'[s[1]][s[2]] = players[s[1]][s[2]]
  BY DEF Played
<1>3. \A u : \A s \in Played(u, R) : CommissionEarned(s[1], u)' = CommissionEarned(s[1], u)
  BY <1>2 DEF CommissionEarned
<1>4. ASSUME NEW u PROVE Leader(u, R)' = Leader(u, R)
  <2>1. PICK S : S = Played(u, R)
    OBVIOUS
  <2>2. Played(u, R)' = S
    BY <1>1, <2>1
  <2>3. Victories(u, R)' = Victories(u, R)
    BY <1>2, <2>1, <2>2 DEF Victories
  <2>4. [s \in S |-> players'[s[1]][s[2]].winAmount] = [s \in S |-> players[s[1]][s[2]].winAmount]
    BY <1>2, <2>1
  <2>5. Earned(u, R)' = Earned(u, R)
    BY <2>1, <2>2, <2>4, Zenon DEF Earned
  <2>6. [s \in S |-> CommissionEarned(s[1], u)'] = [s \in S |-> CommissionEarned(s[1], u)]
    BY <1>3, <2>1
  <2>7. Spent(u, R)' = Spent(u, R)
    BY <2>1, <2>2, Zenon DEF Spent
  <2>8. Pnl(u, R)' = Pnl(u, R)
    BY <2>1, <2>2, <2>5, <2>6, <2>7, Zenon DEF Pnl
  <2> QED
    BY <2>1, <2>2, <2>3, <2>5, <2>7, <2>8, Zenon DEF Leader
<1> QED
  BY <1>1, <1>4, Zenon DEF Board

\* an old view stays true, a refreshed one is
LEMMA ViewStep ==
  ASSUME SerialInv, ViewInv, Shape, UNCHANGED <<leaderboard, shown>> \/ RefreshLeaderboard
  PROVE  ViewInv'
<1>1. CASE UNCHANGED <<leaderboard, shown>>
  <2>1. shown \in SUBSET ResolvedDuels'
    BY SettledStays DEF ViewInv
  <2>2. Board(shown)' = Board(shown)
    <3>1. PICK R : R = shown
      OBVIOUS
    <3>2. \A d \in R : /\ players'[d] = players[d]
                       /\ duels'[d].owner = duels[d].owner
                       /\ duels'[d].playersCount = duels[d].playersCount
      BY <3>1, SettledStays DEF ViewInv
    <3>3. Board(R)' = Board(R)
      BY <3>2, SameBoard
    <3> QED
      BY <1>1, <3>1, <3>3, Zenon
  <2> QED
    BY <1>1, <2>1, <2>2 DEF ViewInv
<1>2. CASE RefreshLeaderboard
  <2>1. PICK R : R = ResolvedDuels
    OBVIOUS
  <2>2. duels' = duels /\ players' = players /\ shown' = R /\ leaderboard' = Board(R)
    BY <1>2, <2>1 DEF RefreshLeaderboard, vars
  <2>3. Board(R)' = Board(R)
    BY <2>2, SameBoard
  <2>4. ResolvedDuels' = R
    BY <2>1, <2>2 DEF ResolvedDuels
  <2>5. Board(shown)' = Board(R)
    BY <2>2, <2>3, Zenon
  <2> QED
    BY <2>2, <2>4, <2>5 DEF ViewInv
<1> QED
  BY <1>1, <1>2

LEMMA SerialBoard ==
  ASSUME SerialInv, NothingUnwon, FewUsers, ViewInv
  PROVE  BoardTellsGains
<1>1. ASSUME NEW row \in leaderboard, Plain(row.user, shown)
      PROVE  row.pnl = SumFunction([d \in shown |-> Credits(d, row.user) - Stakes(d, row.user)])
  <2>1. PICK u \in Users : row = Leader(u, shown)
    BY DEF ViewInv, Board
  <2>2. row.user = u /\ row.pnl = Pnl(u, shown)
    BY <2>1 DEF Leader
  <2>3. Pnl(u, shown) = SumFunction([d \in shown |-> Credits(d, u) - Stakes(d, u)])
    BY <1>1, <2>2, PnlIsGain DEF ViewInv
  <2> QED
    BY <2>2, <2>3
<1>2. \A u \in Users : Played(u, shown) # {} <=> \E row \in leaderboard : row.user = u
  <2>1. \A u : Leader(u, shown).user = u
    BY DEF Leader
  <2> QED
    BY <2>1 DEF ViewInv, Board
<1>3. ASSUME NEW size \in 1..Cardinality(Users)
      PROVE  LET pages == (Len(Leaders) + size - 1) \div size IN
             /\ Leaders = FlattenSeq([n \in 1..pages |-> GetTotalLeaderboard(size, n).leaders])
             /\ \A u \in Users : Played(u, shown) # {} =>
                   Cardinality({n \in 1..pages : FindUserRank(u, size, n) # {}}) = 1
  <2>1. size \in Nat \ {0}
    BY FS_CardinalityType DEF FewUsers
  <2>2. PICK rows, pages : rows = Leaders /\ pages = PagesOf(Len(rows), size)
    OBVIOUS
  <2>3. pages = (Len(Leaders) + size - 1) \div size
    BY <2>2 DEF PagesOf
  <2>4. IsFiniteSet(leaderboard) /\ Leaders \in SetToSeqs(leaderboard)
    <3>1. PICK S : S = leaderboard
      OBVIOUS
    <3>2. IsFiniteSet(S) /\ \E some \in SetToSeqs(S) : Ranked(some)
      BY <3>1, BoardRanked DEF ViewInv
    <3> QED
      BY <3>1, <3>2, Zenon DEF Leaders
  <2>5. rows \in Seq(leaderboard)
    BY <2>2, <2>4, RankingIsWhole
  <2>6. rows = FlattenSeq([n \in 1..pages |-> ApplyPagination(rows, size, n)])
    BY <2>1, <2>2, <2>5, PagesMakeTheWhole
  <2>7. [n \in 1..pages |-> ApplyPagination(rows, size, n)]
          = [n \in 1..pages |-> GetTotalLeaderboard(size, n).leaders]
    BY <2>2 DEF GetTotalLeaderboard
  <2>8. \A u \in Users : Played(u, shown) # {} =>
           Cardinality({n \in 1..pages : FindUserRank(u, size, n) # {}}) = 1
    BY <2>1, <2>2, <2>4, FoundOnOnePage DEF ViewInv
  <2> QED
    BY <2>2, <2>3, <2>6, <2>7, <2>8, Zenon
<1> QED
  BY <1>1, <1>2, <1>3, Zenon DEF BoardTellsGains

\* One request at a time, what the lists, the leaderboard and the moderators' pay
\* tell of a duel is what its requests did: every duel is listed once with the
\* answers of its seats, the board, however long ago its hourly refresh, says of a
\* user what the duels settled by then did to his balance, and its pages leave
\* nobody out (repository/duel.go, updateLeaderboard, the view leaderboard).
THEOREM QueriesTellWhatHappened ==
  ASSUME OneAtATime, FewUsers
  PROVE  QueriesSpec => []QueriesAgree
<1>1. QueriesInit => Init /\ SerialInv /\ NothingUnwon /\ ViewInv
  <2>1. QueriesInit => Init
    BY DEF QueriesInit
  <2>2. Init => NothingUnwon
    BY DEF Init, NothingUnwon, UnwonIn
  <2>3. QueriesInit => ViewInv
    <3>1. \A u : Played(u, {}) = {}
      BY DEF Played
    <3> QED
      BY <3>1 DEF QueriesInit, ViewInv, Board
  <2> QED
    BY <2>1, <2>2, <2>3, InitSerialInv
<1>2. [QueriesNext]_queryVars =>
         [Next]_vars /\ (UNCHANGED <<leaderboard, shown>> \/ RefreshLeaderboard)
  BY DEF QueriesNext, queryVars, RefreshLeaderboard
<1>3. /\ SerialInv /\ NothingUnwon /\ ViewInv /\ [Next]_vars
      /\ UNCHANGED <<leaderboard, shown>> \/ RefreshLeaderboard
      => (SerialInv /\ NothingUnwon /\ ViewInv)'
  <2>1. SUFFICES ASSUME SerialInv, NothingUnwon, ViewInv, [Next]_vars,
                        UNCHANGED <<leaderboard, shown>> \/ RefreshLeaderboard
                 PROVE  SerialInv' /\ NothingUnwon' /\ ViewInv'
    OBVIOUS
  <2>2. Shape /\ SerialInv'
    BY <2>1, NextSerial
  <2> QED
    BY <2>1, <2>2, UnwonStep, ViewStep
<1>4. SerialInv /\ NothingUnwon /\ ViewInv => ListsAgree /\ BoardTellsGains
  BY SerialLists, SerialBoard
<1>5. ListsAgree /\ BoardTellsGains /\ ClosesArePaid => QueriesAgree
  BY DEF QueriesAgree
<1>6. QueriesSpec => Spec
  BY <1>1, <1>2, PTL DEF QueriesSpec, Spec
<1> QED
  BY <1>1, <1>2, <1>3, <1>4, <1>5, <1>6, ModeratorsArePaid, PTL DEF QueriesSpec

=============================================================================
