--------------------------- MODULE DuckDuelProofs ---------------------------
(***************************************************************************)
(* DuckDuel with any number of requests in flight: its types, the bound on *)
(* players_count, what can become of a closed duel, and that no seat wins  *)
(* more than its duel took in; for any users, duels, handlers, prices and  *)
(* request mix, with faults.                                               *)
(***************************************************************************)
EXTENDS DuckDuel, ArithmeticProofs, SequenceTheorems, FiniteSetTheorems

-----------------------------------------------------------------------------
(* Rows and columns *)

\* the zero value of a duel is a row
LEMMA NoDuelType == NoDuel \in DuelRow
BY SMT DEF NoDuel, DuelRow, Statuses, NoStatus, Refund, NoResult

\* a new seat is a row of players
LEMMA SeatType ==
  ASSUME NEW u \in Users, NEW answer \in Answers, NEW at \in Nat, NEW charged \in BOOLEAN
  PROVE  Seat(u, answer, at, charged) \in PlayerRow
BY DEF Seat, PlayerRow, PlayerActive, PlayerResolved, PlayerRefunded

\* taking a seat counts it
LEMMA SeatTakenType ==
  ASSUME NEW row \in DuelRow, NEW read \in DuelRow
  PROVE  /\ SeatTaken(row, read) \in DuelRow
         /\ SeatTaken(row, read).playersCount = row.playersCount + 1
<1>1. row.playersCount \in Nat /\ read.status \in Statuses
  BY DEF DuelRow
<1>2. row.playersCount + 1 \in Nat
  BY <1>1
<1> QED
  BY <1>1, <1>2, Zenon DEF SeatTaken, DuelRow

\* a new duel is a row and counts nobody
LEMMA CreateReqType ==
  ASSUME NEW u \in Users, NEW crypto \in BOOLEAN, NEW s \in Schedules, now \in Nat
  PROVE  /\ DuelByCreateReq(u, crypto, s) \in DuelRow
         /\ DuelByCreateReqAdmin(u, crypto, s) \in DuelRow
         /\ DuelByCreateReq(u, crypto, s).playersCount = 0
         /\ DuelByCreateReqAdmin(u, crypto, s).playersCount = 0
<1>1. s.deadline \in Nat /\ s.eventDate \in Nat
  BY TimeAssumption
<1>2. InReview \in Statuses /\ InProcess \in Statuses
  BY SMT DEF InReview, InProcess, Statuses, NoStatus, Refund
<1>3. DuelByCreateReq(u, crypto, s) \in DuelRow
      /\ DuelByCreateReq(u, crypto, s).playersCount = 0
  BY <1>1, <1>2, NoDuelType DEF DuelByCreateReq, DuelRow, NoDuel
<1> QED
  BY <1>2, <1>3 DEF DuelByCreateReqAdmin, DuelRow

\* an update keeps the columns typed and the count one of the two it saw
LEMMA UpdateType ==
  ASSUME NEW row \in DuelRow, NEW model \in DuelRow
  PROVE  /\ Update(row, model) \in DuelRow
         /\ Update(row, model).playersCount \in {row.playersCount, model.playersCount}
<1>1. /\ NonZero(model.status, row.status) \in Statuses
      /\ NonZero(model.playersCount, row.playersCount) \in Nat
      /\ NonZero(model.playersCount, row.playersCount)
            \in {row.playersCount, model.playersCount}
      /\ NonZero(model.winnersCount, row.winnersCount) \in Nat
      /\ NonZero(model.refundedPlayersCount, row.refundedPlayersCount) \in Nat
      /\ NonZero(model.deadline, row.deadline) \in Nat
      /\ NonZero(model.eventDate, row.eventDate) \in Nat
  BY DEF NonZero, DuelRow
<1>2. (IF model.finalResult # NoResult THEN model.finalResult ELSE row.finalResult)
         \in Answers \cup {NoResult}
  BY DEF DuelRow
<1> QED
  BY <1>1, <1>2, Zenon DEF Update, DuelRow

\* a credit keeps balances natural
LEMMA CreditType ==
  ASSUME NEW purse \in [Users -> Nat], NEW who, NEW amount \in Nat
  PROVE  Credit(purse, who, amount) \in [Users -> Nat]
BY DEF Credit

\* mapping the rows adds and drops none
LEMMA RowsMapped ==
  ASSUME NEW rows \in Seq(PlayerRow), NEW f \in [DOMAIN rows -> PlayerRow]
  PROVE  f \in Seq(PlayerRow) /\ Len(f) = Len(rows)
<1>1. Len(rows) \in Nat /\ DOMAIN rows = 1..Len(rows)
  BY LenProperties
<1>2. f \in [1..Len(rows) -> PlayerRow]
  BY <1>1
<1>3. f \in Seq(PlayerRow)
  BY <1>1, <1>2, SeqDef
<1>4. DOMAIN f = 1..Len(f) /\ Len(f) \in Nat
  BY <1>3, LenProperties
<1>5. 1..Len(f) = 1..Len(rows)
  BY <1>2, <1>4
<1> QED
  BY <1>1, <1>3, <1>4, <1>5, SMT

\* marking seats adds and drops none
LEMMA SetStatusType ==
  ASSUME NEW rows \in Seq(PlayerRow), NEW which,
         NEW status \in {PlayerActive, PlayerResolved, PlayerRefunded}
  PROVE  SetStatus(rows, which, status) \in Seq(PlayerRow)
         /\ Len(SetStatus(rows, which, status)) = Len(rows)
<1>1. \A i \in DOMAIN rows : rows[i] \in PlayerRow
  BY LenProperties
<1>2. SetStatus(rows, which, status) \in [DOMAIN rows -> PlayerRow]
  BY <1>1 DEF SetStatus, PlayerRow
<1> QED
  BY <1>2, RowsMapped

\* marking winners adds and drops none
LEMMA UpdateDuelWinnersType ==
  ASSUME NEW rows \in Seq(PlayerRow), NEW winners, NEW amount \in Nat
  PROVE  UpdateDuelWinners(rows, winners, amount) \in Seq(PlayerRow)
         /\ Len(UpdateDuelWinners(rows, winners, amount)) = Len(rows)
<1>1. \A i \in DOMAIN rows : rows[i] \in PlayerRow
  BY LenProperties
<1>2. UpdateDuelWinners(rows, winners, amount) \in [DOMAIN rows -> PlayerRow]
  BY <1>1 DEF UpdateDuelWinners, PlayerRow
<1> QED
  BY <1>2, RowsMapped

-----------------------------------------------------------------------------
(* The inductive invariant *)

\* What a request holds is fit for its next step: the user and the duel it is
\* about exist, its copies of duels never count seats the table does not have,
\* and a settlement has winners to divide the pool by and refunds no more seats
\* than there are.
RequestOK(r) ==
    /\ r \in Request
    /\ r.pc \in {"join", "streak", "streakUpdate"} => r.user \in Users
    /\ r.pc \in {"join", "approve", "winners", "refunds", "settle", "cancel", "cancelCommit"}
         => r.duel \in Duels
    /\ r.duel \in Duels => r.snap.playersCount <= Len(players[r.duel])
    /\ \A e \in r.batch : e.snap.playersCount <= Len(players[e.duel])
    /\ IsFiniteSet(r.winners)
    /\ r.pc \in {"refunds", "settle"} => r.winners \subseteq 1..Len(players[r.duel])
    /\ r.pc = "settle" => r.winners # {} /\ r.refunds <= Len(players[r.duel])

IInv ==
    /\ TypeOK
    /\ CountNeverExceedsRows
    /\ \A h \in Handlers : RequestOK(req[h])

\* an idle handler is a request
LEMMA IdleType == Idle \in Request
BY NoDuelType, SMT DEF Idle, Request, Answers, Statuses, NoStatus, Refund

\* ... that holds nothing
LEMMA IdleOK == RequestOK(Idle)
<1>1. Idle.duel \notin Duels
  BY UsersAssumption DEF Idle
<1>2. Idle.winners = {} /\ Idle.batch = {} /\ Idle.pc = "idle"
  BY DEF Idle
<1> QED
  BY <1>1, <1>2, IdleType, FS_EmptySet DEF RequestOK

\* A step of handler h keeps the invariant when what it writes is well typed,
\* rows are only added, and no duel counts more seats than it has.
LEMMA StepKeepsIInv ==
  ASSUME IInv, NEW h \in Handlers, NEW r, RequestOK(r), Become(h, r),
         now' \in 1..Horizon,
         duels' \in [Duels -> DuelRow],
         players' \in [Duels -> Seq(PlayerRow)],
         balance' \in [Users -> Nat],
         streakDone' \subseteq Users,
         \A d \in Duels : Len(players[d]) <= Len(players'[d]),
         \A d \in Duels : duels'[d].playersCount <= Len(players'[d])
  PROVE  IInv'
<1>1. req \in [Handlers -> Request] /\ \A k \in Handlers : RequestOK(req[k])
  BY DEF IInv, TypeOK
<1>2. \A k \in Handlers : req'[k] = IF k = h THEN r ELSE req[k]
  BY <1>1 DEF Become
<1>3. \A k \in Handlers : RequestOK(req'[k])
  BY <1>1, <1>2
<1>4. req' \in [Handlers -> Request]
  BY <1>1, RequestOK(r) DEF Become, RequestOK
<1>5. players \in [Duels -> Seq(PlayerRow)]
  BY DEF IInv, TypeOK
<1>6. \A d \in Duels : Len(players[d]) \in Nat /\ Len(players'[d]) \in Nat
  BY <1>5, LenProperties
<1>7. ASSUME NEW k \in Handlers
      PROVE  RequestOK(req[k])'
  <2> DEFINE q == req'[k]
  <2>1. RequestOK(q)
    BY <1>3
  <2>2. q \in Request
    BY <2>1 DEF RequestOK
  <2>3. q.duel \in Duels => q.snap.playersCount <= Len(players'[q.duel])
    <3>1. SUFFICES ASSUME q.duel \in Duels
                   PROVE  q.snap.playersCount <= Len(players'[q.duel])
      OBVIOUS
    <3>2. q.snap.playersCount \in Nat
      BY <2>2 DEF Request, DuelRow
    <3>3. q.snap.playersCount <= Len(players[q.duel])
      BY <2>1, <3>1 DEF RequestOK
    <3>4. Len(players[q.duel]) <= Len(players'[q.duel])
      BY <3>1
    <3> HIDE DEF q
    <3> QED
      BY <3>1, <3>2, <3>3, <3>4, <1>6
  <2>4. \A e \in q.batch : e.snap.playersCount <= Len(players'[e.duel])
    <3>1. SUFFICES ASSUME NEW e \in q.batch
                   PROVE  e.snap.playersCount <= Len(players'[e.duel])
      OBVIOUS
    <3>2. e \in Batch
      BY <2>2 DEF Request
    <3>3. e.snap.playersCount \in Nat /\ e.duel \in Duels
      BY <3>2 DEF Batch, DuelRow
    <3>4. e.snap.playersCount <= Len(players[e.duel])
      BY <2>1 DEF RequestOK
    <3>5. Len(players[e.duel]) <= Len(players'[e.duel])
      BY <3>3
    <3> QED
      BY <3>3, <3>4, <3>5, <1>6
  <2>5. q.pc \in {"refunds", "settle"} => q.winners \subseteq 1..Len(players'[q.duel])
    <3>1. SUFFICES ASSUME q.pc \in {"refunds", "settle"}
                   PROVE  q.winners \subseteq 1..Len(players'[q.duel])
      OBVIOUS
    <3>2. q.duel \in Duels /\ q.winners \subseteq 1..Len(players[q.duel])
      BY <2>1, <3>1 DEF RequestOK
    <3>3. Len(players[q.duel]) <= Len(players'[q.duel])
      BY <3>2
    <3> HIDE DEF q
    <3> QED
      BY <1>6, <3>2, <3>3
  <2>6. q.pc = "settle" => q.winners # {} /\ q.refunds <= Len(players'[q.duel])
    <3>1. SUFFICES ASSUME q.pc = "settle"
                   PROVE  q.winners # {} /\ q.refunds <= Len(players'[q.duel])
      OBVIOUS
    <3>2. /\ q.duel \in Duels /\ q.refunds \in Nat
          /\ q.winners # {} /\ q.refunds <= Len(players[q.duel])
      BY <2>1, <2>2, <3>1 DEF RequestOK, Request
    <3>3. Len(players[q.duel]) <= Len(players'[q.duel])
      BY <3>2
    <3> HIDE DEF q
    <3> QED
      BY <1>6, <3>2, <3>3
  <2> QED
    BY <2>1, <2>2, <2>3, <2>4, <2>5, <2>6 DEF RequestOK
<1>8. TypeOK'
  BY <1>4 DEF TypeOK
<1>9. CountNeverExceedsRows'
  BY DEF CountNeverExceedsRows
<1> QED
  BY <1>7, <1>8, <1>9 DEF IInv

\* ... in particular when it only reads
LEMMA ReadKeepsIInv ==
  ASSUME IInv, NEW h \in Handlers, NEW r, RequestOK(r), Become(h, r),
         UNCHANGED <<now, duels, players, balance, streakDone>>
  PROVE  IInv'
<1>1. \A d \in Duels : Len(players[d]) \in Nat
  BY LenProperties DEF IInv, TypeOK
<1> QED
  BY <1>1, StepKeepsIInv DEF IInv, TypeOK, CountNeverExceedsRows

\* what the invariant says of one duel
LEMMA DuelFacts ==
  ASSUME IInv, NEW d \in Duels
  PROVE  /\ duels[d] \in DuelRow
         /\ duels[d].playersCount <= Len(players[d])
         /\ players[d] \in Seq(PlayerRow)
         /\ Len(players[d]) \in Nat
         /\ duels[d].playersCount \in Nat
<1>1. duels[d] \in DuelRow /\ players[d] \in Seq(PlayerRow)
  BY DEF IInv, TypeOK
<1> QED
  BY <1>1, LenProperties DEF IInv, CountNeverExceedsRows, DuelRow

\* a request that looks at a duel takes a copy of its row
LEMMA AboutDuelOK ==
  ASSUME IInv, NEW d \in Duels, NEW r \in Request,
         r.duel = d, r.snap = duels[d], r.batch = {}, r.winners = {},
         r.pc \in {"join", "approve", "winners", "cancel"},
         r.pc = "join" => r.user \in Users
  PROVE  RequestOK(r)
BY DuelFacts, FS_EmptySet DEF RequestOK

\* the copies in a cron's list are rows and count seats that exist
LEMMA BatchSnapOK ==
  ASSUME IInv, NEW h \in Handlers, NEW e \in req[h].batch, NEW r \in Request,
         r.duel = e.duel, r.snap = e.snap, r.batch \subseteq req[h].batch,
         r.winners = {}, r.pc \in {"winners", "cancel"}
  PROVE  RequestOK(r)
<1>1. RequestOK(req[h])
  BY DEF IInv
<1>2. e \in Batch
  BY <1>1 DEF RequestOK, Request
<1>3. e.duel \in Duels /\ e.snap.playersCount <= Len(players[e.duel])
  BY <1>1, <1>2 DEF RequestOK, Batch
<1> QED
  BY <1>1, <1>3, FS_EmptySet DEF RequestOK

\* what is left of a list is still a list
LEMMA RestOK ==
  ASSUME IInv, NEW h \in Handlers, NEW rest \in SUBSET req[h].batch
  PROVE  /\ [Idle EXCEPT !.pc = "next", !.job = req[h].job, !.batch = rest] \in Request
         /\ RequestOK([Idle EXCEPT !.pc = "next", !.job = req[h].job, !.batch = rest])
<1> DEFINE r == [Idle EXCEPT !.pc = "next", !.job = req[h].job, !.batch = rest]
<1>1. RequestOK(req[h])
  BY DEF IInv
<1>2. req[h] \in Request
  BY <1>1 DEF RequestOK
<1>3. /\ r.duel = Null /\ r.winners = {} /\ r.pc = "next" /\ r.batch = rest
  BY DEF Idle
<1>4. r \in Request
  BY <1>2, IdleType DEF Request
<1>5. r.duel \notin Duels
  BY <1>3, UsersAssumption
<1> HIDE DEF r
<1>6. RequestOK(r)
  BY <1>1, <1>3, <1>4, <1>5, FS_EmptySet DEF RequestOK
<1> QED
  BY <1>4, <1>6 DEF r

\* a finished request goes on with its list or ends
LEMMA FinishOK ==
  ASSUME IInv, NEW h \in Handlers, Finish(h)
  PROVE  \E r : RequestOK(r) /\ Become(h, r)
BY IdleOK, RestOK DEF Finish

\* ... and so does a failed one
LEMMA FailOK ==
  ASSUME IInv, NEW h \in Handlers, Fail(h)
  PROVE  \E r : RequestOK(r) /\ Become(h, r)
BY IdleOK, FinishOK DEF Fail

-----------------------------------------------------------------------------
(* Steps that only read *)

\* The clock.
LEMMA TickKeepsIInv == IInv /\ Tick => IInv'
<1>1. SUFFICES ASSUME IInv, Tick PROVE IInv'
  OBVIOUS
<1>2. now' \in 1..Horizon
  BY <1>1, TimeAssumption DEF IInv, TypeOK, Tick
<1>3. UNCHANGED <<duels, players, balance, streakDone, req>>
  BY <1>1 DEF Tick
<1>4. TypeOK' /\ CountNeverExceedsRows'
  BY <1>1, <1>2, <1>3 DEF IInv, TypeOK, CountNeverExceedsRows
<1>5. \A h \in Handlers : RequestOK(req[h])'
  <2>1. SUFFICES ASSUME NEW h \in Handlers PROVE RequestOK(req[h])'
    OBVIOUS
  <2>2. RequestOK(req[h]) /\ req' = req /\ players' = players
    BY <1>1, <1>3 DEF IInv
  <2> QED
    BY <2>2, Zenon DEF RequestOK
<1> QED
  BY <1>4, <1>5 DEF IInv

\* JoinDuel, up to its transaction.
LEMMA JoinDuelKeepsIInv ==
  ASSUME IInv, NEW h \in Handlers, NEW u \in Users, NEW d \in Duels,
         NEW answer \in Answers, JoinDuel(h, u, d, answer)
  PROVE  IInv'
<1> DEFINE r == [Idle EXCEPT !.pc = "join", !.user = u, !.duel = d,
                             !.snap = duels[d], !.answer = answer, !.since = now]
<1>1. duels[d] \in DuelRow /\ now \in Nat
  BY DuelFacts DEF IInv, TypeOK
<1>2. r \in Request
  BY <1>1, IdleType DEF Request
<1>3. /\ r.duel = d /\ r.snap = duels[d] /\ r.batch = {} /\ r.winners = {}
      /\ r.pc = "join" /\ r.user = u
  BY DEF Idle
<1> HIDE DEF r
<1>4. RequestOK(r)
  BY <1>2, <1>3, AboutDuelOK
<1> QED
  BY <1>4, ReadKeepsIInv DEF JoinDuel, r

\* ApproveDuel, the read.
LEMMA ApproveDuelKeepsIInv ==
  ASSUME IInv, NEW h \in Handlers, NEW d \in Duels, ApproveDuel(h, d)
  PROVE  IInv'
<1> DEFINE r == [Idle EXCEPT !.pc = "approve", !.duel = d, !.snap = duels[d]]
<1>1. r \in Request
  BY DuelFacts, IdleType DEF Request
<1>2. /\ r.duel = d /\ r.snap = duels[d] /\ r.batch = {} /\ r.winners = {}
      /\ r.pc = "approve"
  BY DEF Idle
<1> HIDE DEF r
<1>3. RequestOK(r)
  BY <1>1, <1>2, AboutDuelOK
<1> QED
  BY <1>3, ReadKeepsIInv DEF ApproveDuel, r

\* ResolveDuckPointDuelByAdmin, the read.
LEMMA ResolveByAdminKeepsIInv ==
  ASSUME IInv, NEW h \in Handlers, NEW d \in Duels, NEW answer \in Answers,
         ResolveDuckPointDuelByAdmin(h, d, answer)
  PROVE  IInv'
<1> DEFINE r == [Idle EXCEPT !.pc = "winners", !.job = "admin", !.duel = d,
                             !.snap = duels[d], !.answer = answer,
                             !.cutoff = duels[d].deadline]
<1>1. duels[d] \in DuelRow /\ duels[d].deadline \in Int
  BY DuelFacts DEF DuelRow
<1>2. r \in Request
  BY <1>1, IdleType DEF Request
<1>3. /\ r.duel = d /\ r.snap = duels[d] /\ r.batch = {} /\ r.winners = {}
      /\ r.pc = "winners"
  BY DEF Idle
<1> HIDE DEF r
<1>4. RequestOK(r)
  BY <1>2, <1>3, AboutDuelOK
<1> QED
  BY <1>4, ReadKeepsIInv DEF ResolveDuckPointDuelByAdmin, r

\* CancelDuckPointDuelByAdmin, the read.
LEMMA CancelByAdminKeepsIInv ==
  ASSUME IInv, NEW h \in Handlers, NEW d \in Duels, NEW target \in Statuses,
         CancelDuckPointDuelByAdmin(h, d, target)
  PROVE  IInv'
<1> DEFINE r == [Idle EXCEPT !.pc = "cancel", !.job = "admin", !.duel = d,
                             !.snap = duels[d], !.target = target]
<1>1. r \in Request
  BY DuelFacts, IdleType DEF Request
<1>2. /\ r.duel = d /\ r.snap = duels[d] /\ r.batch = {} /\ r.winners = {}
      /\ r.pc = "cancel"
  BY DEF Idle
<1> HIDE DEF r
<1>3. RequestOK(r)
  BY <1>1, <1>2, AboutDuelOK
<1> QED
  BY <1>3, ReadKeepsIInv DEF CancelDuckPointDuelByAdmin, r

\* a cron reads its list
LEMMA ListedKeepsIInv ==
  ASSUME IInv, NEW h \in Handlers, NEW which \in SUBSET Duels,
         NEW job \in {"onEvent", "beforeEvent", "autoCancel"}, Listed(h, job, which)
  PROVE  IInv'
<1> DEFINE list == {[duel |-> d, snap |-> duels[d]] : d \in which}
           r    == [Idle EXCEPT !.pc = "next", !.job = job, !.batch = list]
<1>1. \A e \in list : e \in Batch /\ e.snap.playersCount <= Len(players[e.duel])
  BY DuelFacts DEF Batch
<1>2. list \in SUBSET Batch
  BY <1>1
<1> HIDE DEF list
<1>3. r \in Request
  BY <1>2, IdleType DEF Request
<1>4. r.duel = Null /\ r.batch = list /\ r.winners = {} /\ r.pc = "next"
  BY DEF Idle
<1>5. r.duel \notin Duels
  BY <1>4, UsersAssumption
<1> HIDE DEF r
<1>6. RequestOK(r)
  BY <1>1, <1>3, <1>4, <1>5, FS_EmptySet DEF RequestOK
<1> QED
  BY <1>6, ReadKeepsIInv DEF Listed, r, list

\* The three cron entries.
LEMMA CronListsKeepIInv ==
  ASSUME IInv, NEW h \in Handlers,
         \/ ResolveDuckPointOnEventDate(h)
         \/ ResolveDuckPointBeforeEventDate(h)
         \/ AutoCancelDuels(h)
  PROVE  IInv'
<1>1. {d \in Duels : Ended(d)} \in SUBSET Duels /\ {d \in Duels : Active(d)} \in SUBSET Duels
      /\ {d \in Duels : OldInReview(d)} \in SUBSET Duels
  OBVIOUS
<1> QED
  BY <1>1, ListedKeepsIInv
     DEF ResolveDuckPointOnEventDate, ResolveDuckPointBeforeEventDate, AutoCancelDuels

\* The next duel of the on-event list.
LEMMA NextOnEventDateKeepsIInv ==
  ASSUME IInv, NEW h \in Handlers, NEW e \in req[h].batch, NEW answer \in Answers,
         NextOnEventDate(h, e, answer)
  PROVE  IInv'
<1> DEFINE r == [Idle EXCEPT !.pc = "winners", !.job = "onEvent", !.duel = e.duel,
                             !.snap = e.snap, !.answer = answer,
                             !.cutoff = e.snap.deadline, !.batch = req[h].batch \ {e}]
<1>1. req[h].batch \in SUBSET Batch
  BY DEF IInv, RequestOK, Request
<1>2. e.duel \in Duels /\ e.snap \in DuelRow /\ e.snap.deadline \in Int
  BY <1>1 DEF Batch, DuelRow
<1>3. r \in Request
  BY <1>1, <1>2, IdleType DEF Request
<1>4. /\ r.duel = e.duel /\ r.snap = e.snap /\ r.batch \subseteq req[h].batch
      /\ r.winners = {} /\ r.pc = "winners"
  BY DEF Idle
<1> HIDE DEF r
<1>5. RequestOK(r)
  BY <1>3, <1>4, BatchSnapOK
<1> QED
  BY <1>5, ReadKeepsIInv DEF NextOnEventDate, r

\* The next duel of the before-event list.
LEMMA NextBeforeEventDateKeepsIInv ==
  ASSUME IInv, NEW h \in Handlers, NEW e \in req[h].batch, NextBeforeEventDate(h, e)
  PROVE  IInv'
<1> DEFINE r == [Idle EXCEPT !.pc = "winners", !.job = "beforeEvent", !.duel = e.duel,
                             !.snap = e.snap, !.answer = 1,
                             !.cutoff = now - ResolveJoinNotBefore,
                             !.batch = req[h].batch \ {e}]
<1>1. req[h].batch \in SUBSET Batch
  BY DEF IInv, RequestOK, Request
<1>2. e.duel \in Duels /\ e.snap \in DuelRow
  BY <1>1 DEF Batch
<1>3. now - ResolveJoinNotBefore \in Int /\ 1 \in Answers
  BY TimeAssumption DEF IInv, TypeOK, Answers
<1>4. r \in Request
  BY <1>1, <1>2, <1>3, IdleType DEF Request
<1>5. /\ r.duel = e.duel /\ r.snap = e.snap /\ r.batch \subseteq req[h].batch
      /\ r.winners = {} /\ r.pc = "winners"
  BY DEF Idle
<1> HIDE DEF r
<1>6. RequestOK(r)
  BY <1>4, <1>5, BatchSnapOK
<1> QED
  BY <1>6, ReadKeepsIInv DEF NextBeforeEventDate, r

\* ... whose price was not reached.
LEMMA SkipBeforeEventDateKeepsIInv ==
  ASSUME IInv, NEW h \in Handlers, NEW e \in req[h].batch, SkipBeforeEventDate(h, e)
  PROVE  IInv'
<1> DEFINE r == [req[h] EXCEPT !.batch = @ \ {e}]
<1>1. RequestOK(req[h]) /\ req[h] \in Request
  BY DEF IInv, RequestOK
<1>2. r \in Request
  BY <1>1 DEF Request
<1>3. /\ r.pc = req[h].pc /\ r.user = req[h].user /\ r.duel = req[h].duel
      /\ r.snap = req[h].snap /\ r.winners = req[h].winners /\ r.refunds = req[h].refunds
      /\ r.batch \subseteq req[h].batch
  BY <1>1 DEF Request
<1> HIDE DEF r
<1>4. RequestOK(r)
  BY <1>1, <1>2, <1>3 DEF RequestOK
<1> QED
  BY <1>4, IdleOK, ReadKeepsIInv DEF SkipBeforeEventDate, r

\* The next duel of the old reviews.
LEMMA NextAutoCancelKeepsIInv ==
  ASSUME IInv, NEW h \in Handlers, NEW e \in req[h].batch, NextAutoCancel(h, e)
  PROVE  IInv'
<1> DEFINE r == [Idle EXCEPT !.pc = "cancel", !.job = "autoCancel", !.duel = e.duel,
                             !.snap = e.snap, !.target = AutoCancelled,
                             !.batch = req[h].batch \ {e}]
<1>1. req[h].batch \in SUBSET Batch
  BY DEF IInv, RequestOK, Request
<1>2. e.duel \in Duels /\ e.snap \in DuelRow
  BY <1>1 DEF Batch
<1>3. AutoCancelled \in Statuses
  BY SMT DEF AutoCancelled, Statuses, NoStatus, Refund
<1>4. r \in Request
  BY <1>1, <1>2, <1>3, IdleType DEF Request
<1>5. /\ r.duel = e.duel /\ r.snap = e.snap /\ r.batch \subseteq req[h].batch
      /\ r.winners = {} /\ r.pc = "cancel"
  BY DEF Idle
<1> HIDE DEF r
<1>6. RequestOK(r)
  BY <1>4, <1>5, BatchSnapOK
<1> QED
  BY <1>6, ReadKeepsIInv DEF NextAutoCancel, r

\* queries return finitely many rows
LEMMA RowSetsFinite ==
  ASSUME IInv, NEW d \in Duels, NEW S \in SUBSET Rows(d)
  PROVE  IsFiniteSet(S) /\ S \in SUBSET Nat /\ UsersOf(d, S) \in SUBSET Users
<1>1. players[d] \in Seq(PlayerRow) /\ Len(players[d]) \in Nat
  BY DuelFacts
<1>2. Rows(d) = 1..Len(players[d])
  BY <1>1, LenProperties DEF Rows
<1>3. IsFiniteSet(Rows(d))
  BY <1>1, <1>2, FS_Interval
<1>4. \A i \in Rows(d) : players[d][i] \in PlayerRow
  BY <1>1, <1>2, ElementOfSeq
<1>5. UsersOf(d, S) \in SUBSET Users
  BY <1>4 DEF UsersOf, PlayerRow
<1> QED
  BY <1>2, <1>3, <1>5, FS_Subset

\* The first query of a settlement.
LEMMA ReadWinnersKeepsIInv ==
  ASSUME IInv, NEW h \in Handlers, ReadWinners(h)
  PROVE  IInv'
<1> DEFINE q == req[h]
           w == GetDuelWinners(q.duel, q.answer, q.cutoff)
           r == [q EXCEPT !.pc = "refunds", !.winners = w]
<1>1. RequestOK(q) /\ q \in Request /\ q.pc = "winners"
  BY DEF IInv, RequestOK, ReadWinners
<1>2. q.duel \in Duels
  BY <1>1 DEF RequestOK
<1>3. w \in SUBSET Rows(q.duel)
  BY DEF GetDuelWinners
<1>4. IsFiniteSet(w) /\ w \in SUBSET Nat
  BY <1>2, <1>3, RowSetsFinite
<1>8. w \subseteq 1..Len(players[q.duel])
  BY <1>2, <1>3, DuelFacts, LenProperties DEF Rows
<1> HIDE DEF w, q
<1>5. r \in Request
  BY <1>1, <1>4 DEF Request
<1>6. /\ r.pc = "refunds" /\ r.winners = w /\ r.duel = q.duel
      /\ r.snap = q.snap /\ r.batch = q.batch
  BY <1>1 DEF Request
<1> HIDE DEF r
<1>7. RequestOK(r)
  BY <1>1, <1>4, <1>5, <1>6, <1>8 DEF RequestOK
<1> QED
  BY <1>7, ReadKeepsIInv DEF ReadWinners, r, q, w

\* The second one, after which there are winners to divide by.
LEMMA ReadRefundsKeepsIInv ==
  ASSUME IInv, NEW h \in Handlers, ReadRefunds(h)
  PROVE  IInv'
<1> DEFINE q == req[h]
           n == CountDuelPlayersToRefund(q.duel, q.cutoff)
           c == [q EXCEPT !.pc = "cancel", !.target = Refund, !.winners = {}]
           s == [q EXCEPT !.pc = "settle", !.refunds = n]
<1>1. RequestOK(q) /\ q \in Request /\ q.pc = "refunds"
  BY DEF IInv, RequestOK, ReadRefunds
<1>2. q.duel \in Duels
  BY <1>1 DEF RequestOK
<1>3. n \in Nat /\ n <= Len(players[q.duel])
  <2> DEFINE late == {i \in LateRows(q.duel, q.cutoff) :
                        players[q.duel][i].finalStatus = PlayerActive}
             len == Len(players[q.duel])
  <2>1. late \in SUBSET Rows(q.duel)
    BY DEF LateRows
  <2>2. len \in Nat /\ Rows(q.duel) = 1..len
    BY <1>2, DuelFacts, LenProperties DEF Rows
  <2> HIDE DEF late, len
  <2>3. IsFiniteSet(1..len) /\ Cardinality(1..len) = len
    BY <2>2, FS_Interval
  <2>4. IsFiniteSet(late) /\ Cardinality(late) <= len /\ Cardinality(late) \in Nat
    BY <2>1, <2>2, <2>3, FS_Subset, FS_CardinalityType
  <2> QED
    BY <2>4 DEF CountDuelPlayersToRefund, late, len
<1>4. Become(h, IF Degenerate(q, n) THEN c ELSE s)
      /\ UNCHANGED <<now, duels, players, balance, streakDone>>
  BY DEF ReadRefunds
<1> HIDE DEF n, q
<1>5. RequestOK(c)
  <2>0. Refund \in Statuses
    BY SMT DEF Refund, Statuses, NoStatus
  <2>1. c \in Request
    BY <1>1, <2>0 DEF Request
  <2>2. c.pc = "cancel" /\ c.winners = {} /\ c.duel = q.duel /\ c.snap = q.snap
        /\ c.batch = q.batch
    BY <1>1 DEF Request
  <2> HIDE DEF c
  <2> QED
    BY <1>1, <2>1, <2>2, FS_EmptySet DEF RequestOK
<1>6. ~Degenerate(q, n) => RequestOK(s)
  <2>1. s \in Request
    BY <1>1, <1>3 DEF Request
  <2>2. s.pc = "settle" /\ s.winners = q.winners /\ s.duel = q.duel /\ s.snap = q.snap
        /\ s.batch = q.batch /\ s.refunds = n
    BY <1>1 DEF Request
  <2>3. ~Degenerate(q, n) => q.winners # {}
    BY FS_EmptySet DEF Degenerate
  <2> HIDE DEF s
  <2> QED
    BY <1>1, <1>3, <2>1, <2>2, <2>3 DEF RequestOK
<1> HIDE DEF c, s
<1> QED
  BY <1>4, <1>5, <1>6, ReadKeepsIInv

\* The streak task reads its user.
LEMMA StreakReadKeepsIInv ==
  ASSUME IInv, NEW h \in Handlers, CompleteDailyStreakTask(h)
  PROVE  IInv'
<1> DEFINE u == req[h].user
           r == [Idle EXCEPT !.pc = "streakUpdate", !.user = u, !.balance = balance[u]]
<1>1. u \in Users
  BY DEF IInv, RequestOK, CompleteDailyStreakTask
<1>2. balance[u] \in Nat
  BY <1>1 DEF IInv, TypeOK
<1> HIDE DEF u
<1>3. r \in Request
  BY <1>1, <1>2, IdleType DEF Request
<1>4. r.pc = "streakUpdate" /\ r.user = u /\ r.duel = Null /\ r.winners = {} /\ r.batch = {}
  BY DEF Idle
<1>5. r.duel \notin Duels
  BY <1>4, UsersAssumption
<1> HIDE DEF r
<1>6. RequestOK(r)
  BY <1>1, <1>3, <1>4, <1>5, FS_EmptySet DEF RequestOK
<1> QED
  BY <1>6, IdleOK, ReadKeepsIInv DEF CompleteDailyStreakTask, r, u

\* the ways a request ends without a write
LEMMA EndingsKeepIInv ==
  ASSUME IInv, NEW h \in Handlers,
         JoinRejected(h) \/ SettleOverflow(h) \/ CancelFails(h) \/ Abort(h)
  PROVE  IInv'
<1>1. CASE JoinRejected(h)
  BY <1>1, IdleOK, ReadKeepsIInv DEF JoinRejected
<1>2. CASE SettleOverflow(h)
  BY <1>2, FailOK, ReadKeepsIInv DEF SettleOverflow
<1>3. CASE CancelFails(h)
  BY <1>3, FailOK, ReadKeepsIInv DEF CancelFails
<1>4. CASE Abort(h)
  BY <1>4, IdleOK, ReadKeepsIInv DEF Abort
<1> QED
  BY <1>1, <1>2, <1>3, <1>4

-----------------------------------------------------------------------------
(* Steps that write *)

\* a transaction on one duel
LEMMA WriteKeepsIInv ==
  ASSUME IInv, NEW h \in Handlers, NEW r, RequestOK(r), Become(h, r),
         NEW d \in Duels, NEW row \in DuelRow, NEW rows \in Seq(PlayerRow),
         duels' = [duels EXCEPT ![d] = row],
         players' = [players EXCEPT ![d] = rows],
         Len(players[d]) <= Len(rows),
         row.playersCount <= Len(rows),
         balance' \in [Users -> Nat],
         UNCHANGED <<now, streakDone>>
  PROVE  IInv'
<1>1. duels \in [Duels -> DuelRow] /\ players \in [Duels -> Seq(PlayerRow)]
  BY DEF IInv, TypeOK
<1>2. duels' \in [Duels -> DuelRow] /\ players' \in [Duels -> Seq(PlayerRow)]
  BY <1>1
<1>3. \A e \in Duels : Len(players[e]) \in Nat
  BY <1>1, LenProperties
<1>4. \A e \in Duels : /\ Len(players[e]) <= Len(players'[e])
                       /\ duels'[e].playersCount <= Len(players'[e])
  <2>1. SUFFICES ASSUME NEW e \in Duels
                 PROVE  /\ Len(players[e]) <= Len(players'[e])
                        /\ duels'[e].playersCount <= Len(players'[e])
    OBVIOUS
  <2>2. CASE e = d
    <3>1. duels'[e] = row /\ players'[e] = rows
      BY <1>1, <2>2
    <3> QED
      BY <2>2, <3>1
  <2>3. CASE e # d
    <3>1. duels'[e] = duels[e] /\ players'[e] = players[e]
      BY <1>1, <2>3
    <3> QED
      BY <1>3, <3>1 DEF IInv, CountNeverExceedsRows
  <2> QED
    BY <2>2, <2>3
<1>5. now' \in 1..Horizon /\ streakDone' \subseteq Users
  BY DEF IInv, TypeOK
<1> QED
  BY <1>2, <1>4, <1>5, StepKeepsIInv

\* a request that has not read a duel yet
LEMMA FreshOK ==
  ASSUME NEW u \in Users, NEW pc \in {"streak", "idle"}
  PROVE  RequestOK([Idle EXCEPT !.pc = pc, !.user = u])
<1> DEFINE r == [Idle EXCEPT !.pc = pc, !.user = u]
<1>1. r \in Request
  BY IdleType DEF Request
<1>2. r.user = u /\ r.duel = Null /\ r.winners = {} /\ r.batch = {} /\ r.pc = pc
  BY DEF Idle
<1>3. r.duel \notin Duels
  BY <1>2, UsersAssumption
<1> HIDE DEF r
<1> QED
  BY <1>1, <1>2, <1>3, FS_EmptySet DEF RequestOK, r

\* a charge that goes through keeps the balance natural
LEMMA ChargeType ==
  ASSUME NEW purse \in [Users -> Nat], NEW u \in Users, NEW charge \in Nat,
         charge <= purse[u]
  PROVE  [purse EXCEPT ![u] = @ - charge] \in [Users -> Nat]
<1>1. purse[u] - charge \in Nat
  BY SMT
<1> QED
  BY <1>1

\* creating a duel adds one row and counts it
LEMMA OpenDuelKeepsIInv ==
  ASSUME IInv, NEW h \in Handlers, NEW r, RequestOK(r), Become(h, r),
         NEW d \in Duels, NEW row \in DuelRow, row.playersCount = 0,
         NEW seat \in PlayerRow, NEW charge \in Nat, charge <= balance[seat.user],
         OpenDuel(d, row, seat, charge),
         UNCHANGED <<now, streakDone>>
  PROVE  IInv'
<1> DEFINE new  == SeatTaken(row, row)
           rows == Append(players[d], seat)
<1>1. players[d] \in Seq(PlayerRow) /\ Len(players[d]) \in Nat
  BY DuelFacts
<1>2. rows \in Seq(PlayerRow) /\ Len(rows) = Len(players[d]) + 1
  BY <1>1, AppendProperties
<1>3. new \in DuelRow /\ new.playersCount = 1
  BY SeatTakenType
<1>4. seat.user \in Users
  BY DEF PlayerRow
<1>5. balance' \in [Users -> Nat]
  BY <1>4, ChargeType DEF IInv, TypeOK, OpenDuel
<1>6. duels' = [duels EXCEPT ![d] = new] /\ players' = [players EXCEPT ![d] = rows]
  BY DEF OpenDuel, IInv, TypeOK
<1> HIDE DEF new, rows
<1>7. Len(players[d]) <= Len(rows) /\ new.playersCount <= Len(rows)
  BY <1>1, <1>2, <1>3
<1> QED
  BY <1>2, <1>3, <1>5, <1>6, <1>7, WriteKeepsIInv

\* The three ways a duel is created.
LEMMA CreatesKeepIInv ==
  ASSUME IInv, NEW h \in Handlers, NEW u \in Users, NEW d \in Duels,
         NEW crypto \in BOOLEAN, NEW s \in Schedules, NEW answer \in Answers,
         \/ CreateNewDuel(h, u, d, crypto, s, answer)
         \/ CreateNewDuelAdmin(h, u, d, crypto, s, answer)
         \/ CreateDuelsWithJoin(h, d, s, answer)
  PROVE  IInv'
<1>1. now \in Nat /\ req \in [Handlers -> Request] /\ RequestOK(req[h])
  BY DEF IInv, TypeOK
<1>2. req' = req => Become(h, req[h])
  BY <1>1 DEF Become
<1>3. /\ DuelByCreateReq(u, crypto, s) \in DuelRow
      /\ DuelByCreateReq(u, crypto, s).playersCount = 0
      /\ DuelByCreateReqAdmin(u, crypto, s) \in DuelRow
      /\ DuelByCreateReqAdmin(u, crypto, s).playersCount = 0
  BY <1>1, CreateReqType
<1>4. House \in Users /\ DuelPrice \in Nat
  BY UsersAssumption, AmountsAssumption
<1>5. /\ DuelByCreateReqAdmin(House, TRUE, s) \in DuelRow
      /\ DuelByCreateReqAdmin(House, TRUE, s).playersCount = 0
  BY <1>1, <1>4, CreateReqType
<1>6. /\ Seat(u, answer, now, TRUE) \in PlayerRow /\ Seat(u, answer, now, TRUE).user = u
      /\ Seat(House, answer, now, FALSE) \in PlayerRow
      /\ Seat(House, answer, now, FALSE).user = House
  BY <1>1, <1>4, SeatType DEF Seat
<1>7. balance[u] \in Nat /\ balance[House] \in Nat
  BY <1>4 DEF IInv, TypeOK
<1>8. CASE CreateNewDuel(h, u, d, crypto, s, answer)
  <2> DEFINE r == [Idle EXCEPT !.pc = "streak", !.user = u]
  <2>1. RequestOK(r)
    BY FreshOK
  <2>2. /\ Become(h, r) /\ DuelPrice <= balance[u] /\ UNCHANGED <<now, streakDone>>
        /\ OpenDuel(d, DuelByCreateReq(u, crypto, s), Seat(u, answer, now, TRUE), DuelPrice)
    BY <1>4, <1>7, <1>8 DEF CreateNewDuel, CanPay
  <2> HIDE DEF r
  <2> QED
    BY <1>3, <1>4, <1>6, <2>1, <2>2, OpenDuelKeepsIInv
<1>9. CASE CreateNewDuelAdmin(h, u, d, crypto, s, answer)
  <2>1. /\ Become(h, req[h]) /\ DuelPrice <= balance[u] /\ UNCHANGED <<now, streakDone>>
        /\ OpenDuel(d, DuelByCreateReqAdmin(u, crypto, s), Seat(u, answer, now, TRUE), DuelPrice)
    BY <1>2, <1>4, <1>7, <1>9 DEF CreateNewDuelAdmin, CanPay
  <2> QED
    BY <1>1, <1>3, <1>4, <1>6, <2>1, OpenDuelKeepsIInv
<1>10. CASE CreateDuelsWithJoin(h, d, s, answer)
  <2> DEFINE row  == DuelByCreateReqAdmin(House, TRUE, s)
             seat == Seat(House, answer, now, FALSE)
  <2>1. OpenDuel(d, row, seat, 0) /\ UNCHANGED <<now, streakDone, req>>
    BY <1>10, Zenon DEF CreateDuelsWithJoin
  <2>2. Become(h, req[h])
    BY <1>2, <2>1
  <2>3. row \in DuelRow /\ row.playersCount = 0
    BY <1>5
  <2>4. seat \in PlayerRow /\ seat.user = House
    BY <1>6
  <2> HIDE DEF row, seat
  <2>5. 0 \in Nat /\ 0 <= balance[seat.user]
    BY <1>7, <2>4
  <2> QED
    BY <1>1, <2>1, <2>2, <2>3, <2>4, <2>5, OpenDuelKeepsIInv
<1> QED
  BY <1>8, <1>9, <1>10

\* The transaction of a join.
LEMMA JoinCommitKeepsIInv ==
  ASSUME IInv, NEW h \in Handlers, JoinCommit(h)
  PROVE  IInv'
<1> DEFINE q == req[h]
<1>1. RequestOK(q) /\ q \in Request /\ q.pc = "join"
  BY DEF IInv, JoinCommit, RequestOK
<1>2. q.user \in Users /\ q.duel \in Duels /\ q.answer \in Answers /\ q.since \in Nat
      /\ q.snap \in DuelRow
  BY <1>1 DEF RequestOK, Request
<1>3. PICK at \in q.since..now :
         players' = [players EXCEPT ![q.duel] = Append(@, Seat(q.user, q.answer, at, TRUE))]
  BY DEF JoinCommit
<1>4. at \in Nat
  BY <1>2, <1>3 DEF IInv, TypeOK
<1> DEFINE new  == SeatTaken(duels[q.duel], q.snap)
           seat == Seat(q.user, q.answer, at, TRUE)
           rows == Append(players[q.duel], seat)
           r    == [Idle EXCEPT !.pc = "streak", !.user = q.user]
<1>5. seat \in PlayerRow
  BY <1>2, <1>4, SeatType
<1>6. /\ duels[q.duel] \in DuelRow /\ players[q.duel] \in Seq(PlayerRow)
      /\ duels[q.duel].playersCount <= Len(players[q.duel])
      /\ Len(players[q.duel]) \in Nat /\ duels[q.duel].playersCount \in Nat
  BY <1>2, DuelFacts
<1>7. new \in DuelRow /\ new.playersCount = duels[q.duel].playersCount + 1
  BY <1>2, <1>6, SeatTakenType
<1> HIDE DEF seat
<1>8. rows \in Seq(PlayerRow) /\ Len(rows) = Len(players[q.duel]) + 1
  BY <1>5, <1>6, AppendProperties
<1>9. RequestOK(r)
  BY <1>2, FreshOK
<1>10. balance[q.user] \in Nat /\ DuelPrice \in Nat /\ balance[q.user] >= DuelPrice
  BY <1>2, AmountsAssumption DEF IInv, TypeOK, JoinCommit, CanPay
<1>11. balance' \in [Users -> Nat]
  BY <1>2, <1>10, ChargeType DEF IInv, TypeOK, JoinCommit
<1>12. /\ duels' = [duels EXCEPT ![q.duel] = new]
       /\ players' = [players EXCEPT ![q.duel] = rows]
       /\ Become(h, r) /\ UNCHANGED <<now, streakDone>>
  BY <1>2, <1>3 DEF JoinCommit, IInv, TypeOK, seat
<1> HIDE DEF new, rows, r, q
<1>13. Len(players[q.duel]) <= Len(rows) /\ new.playersCount <= Len(rows)
  BY <1>6, <1>7, <1>8
<1> QED
  BY <1>2, <1>7, <1>8, <1>9, <1>11, <1>12, <1>13, WriteKeepsIInv

\* The streak writes the balance it read.
LEMMA StreakUpdateKeepsIInv ==
  ASSUME IInv, NEW h \in Handlers, StreakUpdate(h)
  PROVE  IInv'
<1> DEFINE q == req[h]
<1>1. q \in Request /\ q.user \in Users
  BY DEF IInv, RequestOK, StreakUpdate
<1>2. q.balance \in Nat
  BY <1>1 DEF Request
<1>3. balance \in [Users -> Nat] /\ balance[q.user] \in Nat
  BY <1>1 DEF IInv, TypeOK
<1>4. NonZero(q.balance, balance[q.user]) \in Nat
  BY <1>2, <1>3 DEF NonZero
<1>5. balance' \in [Users -> Nat]
  BY <1>1, <1>3, <1>4 DEF StreakUpdate
<1>6. streakDone' \subseteq Users
  BY <1>1 DEF StreakUpdate, IInv, TypeOK
<1>7. Become(h, Idle) /\ UNCHANGED <<now, duels, players>>
  BY DEF StreakUpdate
<1>8. \A d \in Duels : Len(players[d]) \in Nat
  BY LenProperties DEF IInv, TypeOK
<1>9. /\ now' \in 1..Horizon /\ duels' \in [Duels -> DuelRow]
      /\ players' \in [Duels -> Seq(PlayerRow)]
      /\ \A d \in Duels : Len(players[d]) <= Len(players'[d])
      /\ \A d \in Duels : duels'[d].playersCount <= Len(players'[d])
  BY <1>7, <1>8 DEF IInv, TypeOK, CountNeverExceedsRows
<1> QED
  BY <1>5, <1>6, <1>7, <1>9, IdleOK, StepKeepsIInv

\* The approval writes its copy back: the count may fall.
LEMMA ApproveUpdateKeepsIInv ==
  ASSUME IInv, NEW h \in Handlers, ApproveUpdate(h)
  PROVE  IInv'
<1> DEFINE q == req[h]
           model == [q.snap EXCEPT !.status = InProcess]
           row == Update(duels[q.duel], model)
<1>1. RequestOK(q) /\ q \in Request /\ q.pc = "approve"
  BY DEF IInv, ApproveUpdate, RequestOK
<1>2. q.duel \in Duels /\ q.snap \in DuelRow
      /\ q.snap.playersCount <= Len(players[q.duel])
  BY <1>1 DEF RequestOK, Request
<1>3. InProcess \in Statuses
  BY SMT DEF InProcess, Statuses, NoStatus, Refund
<1>4. model \in DuelRow /\ model.playersCount = q.snap.playersCount
  BY <1>2, <1>3 DEF DuelRow
<1>5. /\ duels[q.duel] \in DuelRow /\ players[q.duel] \in Seq(PlayerRow)
      /\ duels[q.duel].playersCount <= Len(players[q.duel])
      /\ Len(players[q.duel]) \in Nat
  BY <1>2, DuelFacts
<1> HIDE DEF model
<1>6. row \in DuelRow /\ row.playersCount <= Len(players[q.duel])
  BY <1>2, <1>4, <1>5, UpdateType
<1>7. /\ duels' = [duels EXCEPT ![q.duel] = row]
      /\ Become(h, Idle) /\ UNCHANGED <<now, players, balance, streakDone>>
  BY <1>2 DEF ApproveUpdate, IInv, TypeOK, model
<1>8. balance' \in [Users -> Nat]
      /\ players' = [players EXCEPT ![q.duel] = players[q.duel]]
  BY <1>2, <1>7 DEF IInv, TypeOK
<1>9. Len(players[q.duel]) <= Len(players[q.duel])
  BY <1>5
<1> HIDE DEF row, q
<1> QED
  BY <1>2, <1>5, <1>6, <1>7, <1>8, <1>9, IdleOK, WriteKeepsIInv

\* EditDuel touches the dates only.
LEMMA EditDuelKeepsIInv ==
  ASSUME IInv, NEW h \in Handlers, NEW d \in Duels, NEW s \in Schedules, EditDuel(h, d, s)
  PROVE  IInv'
<1> DEFINE model == [NoDuel EXCEPT !.deadline = s.deadline, !.eventDate = s.eventDate]
           row   == Update(duels[d], model)
<1>1. s.deadline \in Nat /\ s.eventDate \in Nat
  BY TimeAssumption
<1>2. model \in DuelRow
  BY <1>1, NoDuelType DEF DuelRow
<1>3. model.playersCount = 0
  BY DEF NoDuel
<1>4. /\ duels[d] \in DuelRow /\ players[d] \in Seq(PlayerRow)
      /\ duels[d].playersCount <= Len(players[d])
      /\ Len(players[d]) \in Nat
  BY DuelFacts
<1> HIDE DEF model
<1>5. row \in DuelRow /\ row.playersCount <= Len(players[d])
  BY <1>2, <1>3, <1>4, UpdateType
<1>6. req \in [Handlers -> Request] /\ RequestOK(req[h])
  BY DEF IInv, TypeOK
<1>7. /\ duels' = [duels EXCEPT ![d] = row]
      /\ Become(h, req[h]) /\ UNCHANGED <<now, players, balance, streakDone>>
  BY <1>6 DEF EditDuel, Become, IInv, TypeOK, model
<1>8. balance' \in [Users -> Nat] /\ players' = [players EXCEPT ![d] = players[d]]
  BY <1>7 DEF IInv, TypeOK
<1>9. Len(players[d]) <= Len(players[d])
  BY <1>4
<1> HIDE DEF row
<1> QED
  BY <1>4, <1>5, <1>6, <1>7, <1>8, <1>9, WriteKeepsIInv

\* what a settlement pays is an amount
LEMMA RewardType ==
  ASSUME NEW r \in Request, IsFiniteSet(r.winners), r.winners # {}
  PROVE  WinAmount(r) \in Nat /\ OwnerReward(r) \in Nat
<1>1. r.snap.playersCount \in Nat /\ r.refunds \in Nat
  BY DEF Request, DuelRow
<1>2. PoolOf(r, r.refunds) \in Nat
  BY <1>1, PlayersPoolType, AmountsAssumption DEF PoolOf
<1>3. Pool(DuelPrice, PoolOf(r, r.refunds)) \in Nat
  BY <1>2, Product, AmountsAssumption DEF Pool
<1>4. Cardinality(r.winners) \in Nat \ {0}
  BY FS_CardinalityType, FS_EmptySet
<1>5. WinAmount(r) \in Nat
  BY <1>3, <1>4, PayoutWithinPool, AmountsAssumption DEF WinAmount
<1> DEFINE pool == Pool(DuelPrice, PoolOf(r, r.refunds))
<1>6. OwnerReward(r) = CommissionReward(pool, Commission)
  BY DEF OwnerReward
<1> HIDE DEF pool
<1>7. OwnerReward(r) \in Nat
  <2>1. pool \in Nat
    BY <1>3 DEF pool
  <2>2. Commission \in 0..100
    BY AmountsAssumption
  <2>3. PercentValue(pool, Commission) \in 0..pool
        /\ CommissionReward(pool, Commission) \in 0..PercentValue(pool, Commission)
    BY <2>1, <2>2, PercentBounds
  <2> QED
    BY <1>6, <2>1, <2>3
<1> QED
  BY <1>5, <1>7

\* The transaction of a settlement.
LEMMA SettleKeepsIInv ==
  ASSUME IInv, NEW h \in Handlers, Settle(h)
  PROVE  IInv'
<1> DEFINE q     == req[h]
           won   == UpdateDuelWinnersBalance(balance, q.duel, q.answer, WinAmount(q), q.cutoff)
           owned == Credit(won, {q.snap.owner}, OwnerReward(q))
           rows  == UpdateDuelWinners(players[q.duel], q.winners, WinAmount(q))
           last  == IF q.refunds > 0
                      THEN SetStatus(rows, LateRows(q.duel, q.cutoff), PlayerRefunded)
                      ELSE rows
           model == [q.snap EXCEPT !.status = Resolved,
                                   !.finalResult = q.answer,
                                   !.refundedPlayersCount = q.refunds,
                                   !.winnersCount = Cardinality(q.winners)]
           row   == Update(duels[q.duel], model)
<1>1. RequestOK(q) /\ q \in Request /\ q.pc = "settle"
  BY DEF IInv, Settle, RequestOK
<1>2. /\ q.duel \in Duels /\ q.snap \in DuelRow /\ q.answer \in Answers
      /\ q.refunds \in Nat /\ IsFiniteSet(q.winners) /\ q.winners # {}
      /\ q.snap.playersCount <= Len(players[q.duel])
  BY <1>1 DEF RequestOK, Request
<1>3. WinAmount(q) \in Nat /\ OwnerReward(q) \in Nat
  BY <1>1, <1>2, RewardType
<1>4. /\ duels[q.duel] \in DuelRow /\ players[q.duel] \in Seq(PlayerRow)
      /\ duels[q.duel].playersCount <= Len(players[q.duel])
      /\ Len(players[q.duel]) \in Nat
  BY <1>2, DuelFacts
<1>5. PICK r : RequestOK(r) /\ Become(h, r)
  BY FinishOK DEF Settle
<1>6. balance' \in [Users -> Nat]
  <2>1. balance \in [Users -> Nat] /\ DuelPrice \in Nat
        /\ PremiumPlayersConsolationReward \in Nat
    BY AmountsAssumption DEF IInv, TypeOK, PremiumPlayersConsolationReward
  <2>2. won \in [Users -> Nat]
    BY <1>3, <2>1, CreditType DEF UpdateDuelWinnersBalance
  <2>3. owned \in [Users -> Nat]
    BY <1>3, <2>2, CreditType
  <2>4. balance' = IF q.refunds > 0 THEN PartialDuelRefund(owned, q.duel, q.cutoff) ELSE owned
    BY DEF Settle
  <2> HIDE DEF owned
  <2>5. PartialDuelRefund(owned, q.duel, q.cutoff) \in [Users -> Nat]
    BY <2>1, <2>3, CreditType DEF PartialDuelRefund
  <2> QED
    BY <2>3, <2>4, <2>5
<1>7. last \in Seq(PlayerRow) /\ Len(last) = Len(players[q.duel])
  <2>1. rows \in Seq(PlayerRow) /\ Len(rows) = Len(players[q.duel])
    BY <1>3, <1>4, UpdateDuelWinnersType
  <2> HIDE DEF rows
  <2> QED
    BY <2>1, SetStatusType
<1>8. model \in DuelRow /\ model.playersCount = q.snap.playersCount
  <2>1. Resolved \in Statuses
    BY SMT DEF Resolved, Statuses, NoStatus, Refund
  <2>2. Cardinality(q.winners) \in Nat
    BY <1>2, FS_CardinalityType
  <2> QED
    BY <1>2, <2>1, <2>2 DEF DuelRow
<1>9. /\ duels' = [duels EXCEPT ![q.duel] = row]
      /\ players' = [players EXCEPT ![q.duel] = last]
      /\ UNCHANGED <<now, streakDone>>
  BY <1>2 DEF Settle, IInv, TypeOK
<1> HIDE DEF model, last, won, owned, rows
<1>10. row \in DuelRow /\ row.playersCount <= Len(players[q.duel])
  BY <1>2, <1>4, <1>8, UpdateType
<1> HIDE DEF row, q
<1>11. Len(players[q.duel]) <= Len(last) /\ row.playersCount <= Len(last)
  BY <1>4, <1>7, <1>10
<1> QED
  BY <1>2, <1>5, <1>6, <1>7, <1>9, <1>10, <1>11, WriteKeepsIInv

\* The statuses of a cancellation, written outside its transaction.
LEMMA CancelRefundsKeepsIInv ==
  ASSUME IInv, NEW h \in Handlers, CancelRefunds(h)
  PROVE  IInv'
<1> DEFINE q == req[h]
           seated == UsersOf(q.duel, Rows(q.duel))
           r == [q EXCEPT !.pc = "cancelCommit", !.seated = seated]
           rows == SetStatus(players[q.duel], DOMAIN players[q.duel], PlayerRefunded)
<1>1. RequestOK(q) /\ q \in Request /\ q.pc = "cancel"
  BY DEF IInv, CancelRefunds, RequestOK
<1>2. q.duel \in Duels
  BY <1>1 DEF RequestOK
<1>3. /\ duels[q.duel] \in DuelRow /\ players[q.duel] \in Seq(PlayerRow)
      /\ duels[q.duel].playersCount <= Len(players[q.duel])
      /\ Len(players[q.duel]) \in Nat
  BY <1>2, DuelFacts
<1>4. seated \in SUBSET Users
  BY <1>2, RowSetsFinite
<1>5. rows \in Seq(PlayerRow) /\ Len(rows) = Len(players[q.duel])
  BY <1>3, SetStatusType
<1>6. /\ players' = [players EXCEPT ![q.duel] = rows]
      /\ Become(h, r) /\ UNCHANGED <<now, duels, balance, streakDone>>
  BY <1>2 DEF CancelRefunds, IInv, TypeOK
<1> HIDE DEF q, seated, rows
<1>7. RequestOK(r)
  <2>1. r \in Request
    BY <1>1, <1>4 DEF Request
  <2>2. /\ r.pc = "cancelCommit" /\ r.winners = q.winners /\ r.duel = q.duel
        /\ r.snap = q.snap /\ r.batch = q.batch
    BY <1>1 DEF Request
  <2> HIDE DEF r
  <2> QED
    BY <1>1, <2>1, <2>2 DEF RequestOK
<1> HIDE DEF r
<1>8. /\ balance' \in [Users -> Nat]
      /\ duels' = [duels EXCEPT ![q.duel] = duels[q.duel]]
  BY <1>2, <1>6 DEF IInv, TypeOK
<1>9. Len(players[q.duel]) <= Len(rows) /\ duels[q.duel].playersCount <= Len(rows)
  BY <1>3, <1>5
<1> QED
  BY <1>2, <1>3, <1>5, <1>6, <1>7, <1>8, <1>9, WriteKeepsIInv

\* Its transaction.
LEMMA CancelCommitKeepsIInv ==
  ASSUME IInv, NEW h \in Handlers, CancelCommit(h)
  PROVE  IInv'
<1> DEFINE q == req[h]
           model == [q.snap EXCEPT !.status = q.target]
           row == Update(duels[q.duel], model)
<1>1. RequestOK(q) /\ q \in Request /\ q.pc = "cancelCommit"
  BY DEF IInv, CancelCommit, RequestOK
<1>2. /\ q.duel \in Duels /\ q.snap \in DuelRow /\ q.target \in Statuses
      /\ q.snap.playersCount <= Len(players[q.duel])
  BY <1>1 DEF RequestOK, Request
<1>3. model \in DuelRow /\ model.playersCount = q.snap.playersCount
  BY <1>2 DEF DuelRow
<1>4. /\ duels[q.duel] \in DuelRow /\ players[q.duel] \in Seq(PlayerRow)
      /\ duels[q.duel].playersCount <= Len(players[q.duel])
      /\ Len(players[q.duel]) \in Nat
  BY <1>2, DuelFacts
<1>5. PICK r : RequestOK(r) /\ Become(h, r)
  BY FinishOK DEF CancelCommit
<1>6. /\ duels' = [duels EXCEPT ![q.duel] = row]
      /\ balance' = Credit(balance, q.seated, DuelPrice)
      /\ UNCHANGED <<now, players, streakDone>>
  BY DEF CancelCommit
<1> HIDE DEF model
<1>7. row \in DuelRow /\ row.playersCount <= Len(players[q.duel])
  BY <1>2, <1>3, <1>4, UpdateType
<1> HIDE DEF q, row
<1>8. balance' \in [Users -> Nat]
  BY <1>6, CreditType, AmountsAssumption DEF IInv, TypeOK
<1>9. players' = [players EXCEPT ![q.duel] = players[q.duel]]
  BY <1>2, <1>6 DEF IInv, TypeOK
<1>10. Len(players[q.duel]) <= Len(players[q.duel])
  BY <1>4
<1> QED
  BY <1>2, <1>4, <1>5, <1>6, <1>7, <1>8, <1>9, <1>10, WriteKeepsIInv

-----------------------------------------------------------------------------
(* The theorems *)

\* The invariant holds at the start
LEMMA InitIInv == Init => IInv
<1>1. SUFFICES ASSUME Init PROVE IInv
  OBVIOUS
<1>2. now \in 1..Horizon
  BY <1>1, TimeAssumption DEF Init
<1>3. duels \in [Duels -> DuelRow] /\ \A d \in Duels : duels[d] = NoDuel
  BY <1>1, NoDuelType DEF Init
<1>4. players \in [Duels -> Seq(PlayerRow)] /\ \A d \in Duels : Len(players[d]) = 0
  BY <1>1, EmptySeq DEF Init
<1>5. balance \in [Users -> Nat] /\ streakDone \subseteq Users
  BY <1>1, AmountsAssumption, UsersAssumption DEF Init
<1>6. req \in [Handlers -> Request] /\ \A h \in Handlers : RequestOK(req[h])
  BY <1>1, IdleOK DEF Init, RequestOK
<1>7. NoDuel.playersCount = 0
  BY DEF NoDuel
<1>8. CountNeverExceedsRows
  BY <1>3, <1>4, <1>7 DEF CountNeverExceedsRows
<1> QED
  BY <1>2, <1>3, <1>4, <1>5, <1>6, <1>8 DEF IInv, TypeOK

\* ... and every step keeps it.
LEMMA NextKeepsIInv == IInv /\ [Next]_vars => IInv'
<1>1. SUFFICES ASSUME IInv, [Next]_vars PROVE IInv'
  OBVIOUS
<1>2. CASE UNCHANGED vars
  BY <1>1, <1>2, Zenon
     DEF vars, IInv, TypeOK, CountNeverExceedsRows, RequestOK, Rows
<1>3. CASE Tick
  BY <1>1, <1>3, TickKeepsIInv
<1>4. ASSUME NEW h \in Handlers, UserRequest(h) PROVE IInv'
  BY <1>1, <1>4, CreatesKeepIInv, JoinDuelKeepsIInv DEF UserRequest
<1>5. ASSUME NEW h \in Handlers, ModeratorRequest(h) PROVE IInv'
  BY <1>1, <1>5, ApproveDuelKeepsIInv, EditDuelKeepsIInv, ResolveByAdminKeepsIInv,
     CancelByAdminKeepsIInv DEF ModeratorRequest
<1>6. ASSUME NEW h \in Handlers, CronRun(h) PROVE IInv'
  <2>1. ASSUME NEW d \in Duels, NEW s \in Schedules, NEW answer \in Answers,
               CreateDuelsWithJoin(h, d, s, answer)
        PROVE  IInv'
    BY <1>1, <2>1, UsersAssumption, CreatesKeepIInv
  <2> QED
    BY <1>1, <1>6, <2>1, CronListsKeepIInv DEF CronRun
<1>7. ASSUME NEW h \in Handlers, Continue(h) PROVE IInv'
  <2>1. CASE JoinCommit(h) \/ JoinRejected(h)
    BY <1>1, <2>1, JoinCommitKeepsIInv, EndingsKeepIInv
  <2>2. CASE CompleteDailyStreakTask(h) \/ StreakUpdate(h)
    BY <1>1, <2>2, StreakReadKeepsIInv, StreakUpdateKeepsIInv
  <2>3. CASE ApproveUpdate(h)
    BY <1>1, <2>3, ApproveUpdateKeepsIInv
  <2>4. CASE \E e \in req[h].batch :
               \/ \E answer \in Answers : NextOnEventDate(h, e, answer)
               \/ NextBeforeEventDate(h, e)
               \/ SkipBeforeEventDate(h, e)
               \/ NextAutoCancel(h, e)
    BY <1>1, <2>4, NextOnEventDateKeepsIInv, NextBeforeEventDateKeepsIInv,
       SkipBeforeEventDateKeepsIInv, NextAutoCancelKeepsIInv
  <2>5. CASE ReadWinners(h) \/ ReadRefunds(h)
    BY <1>1, <2>5, ReadWinnersKeepsIInv, ReadRefundsKeepsIInv
  <2>6. CASE Settle(h) \/ SettleOverflow(h)
    BY <1>1, <2>6, SettleKeepsIInv, EndingsKeepIInv
  <2>7. CASE CancelRefunds(h) \/ CancelCommit(h)
    BY <1>1, <2>7, CancelRefundsKeepsIInv, CancelCommitKeepsIInv
  <2> QED
    BY <1>7, <2>1, <2>2, <2>3, <2>4, <2>5, <2>6, <2>7 DEF Continue
<1>8. ASSUME NEW h \in Handlers, CancelFails(h) \/ Abort(h) PROVE IInv'
  BY <1>1, <1>8, EndingsKeepIInv
<1> QED
  BY <1>1, <1>2, <1>3, <1>4, <1>5, <1>6, <1>7, <1>8 DEF Next

\* The columns keep their domains - no balance falls below zero, no count and no
\* win is negative - and every request in flight refers to rows that exist,
\* however requests, cron runs and faults interleave.
THEOREM TypeCorrect == Spec => []TypeOK
<1>1. IInv => TypeOK
  BY DEF IInv
<1> QED
  BY <1>1, InitIInv, NextKeepsIInv, PTL DEF Spec

\* players_count never exceeds the rows of players: stale copies of a duel that
\* approvals, settlements and cancellations write back can only lower it.
THEOREM CountBound == Spec => []CountNeverExceedsRows
<1>1. IInv => CountNeverExceedsRows
  BY DEF IInv
<1> QED
  BY <1>1, InitIInv, NextKeepsIInv, PTL DEF Spec

-----------------------------------------------------------------------------
(* What can become of a duel that was closed.                              *)
(*                                                                         *)
(* Four transactions write a status: joining, approving, settling and      *)
(* cancelling.  Each writes back a copy of the duel its request read, and  *)
(* every check in the code lets a request keep a copy only of a duel that  *)
(* was in review or in process; so does the list of a cron run.            *)

Live == {InReview, InProcess}

\* the copies a request will write back are of open duels
SnapOpen(r) ==
    /\ r.pc \in {"join", "approve", "winners", "refunds", "settle", "cancel", "cancelCommit"}
         => r.snap.status \in Live
    /\ \A e \in r.batch : e.snap.status \in Live

SnapsOpen == \A h \in Handlers : SnapOpen(req[h])

-----------------------------------------------------------------------------
(* Copies stay of open duels *)

LEMMA IdleOpen == SnapOpen(Idle)
<1>1. Idle.pc = "idle" /\ Idle.batch = {}
  BY DEF Idle
<1> QED
  BY <1>1 DEF SnapOpen

LEMMA BecomeKeepsOpen ==
  ASSUME TypeOK, SnapsOpen, NEW h \in Handlers, NEW r, SnapOpen(r), Become(h, r)
  PROVE  SnapsOpen'
<1>1. req \in [Handlers -> Request]
  BY DEF TypeOK
<1>2. \A k \in Handlers : req'[k] = IF k = h THEN r ELSE req[k]
  BY <1>1 DEF Become
<1>3. \A k \in Handlers : SnapOpen(req'[k])
  BY <1>2 DEF SnapsOpen
<1> QED
  BY <1>3 DEF SnapsOpen, SnapOpen

LEMMA RestOpen ==
  ASSUME SnapsOpen, NEW h \in Handlers, NEW rest \in SUBSET req[h].batch
  PROVE  SnapOpen([Idle EXCEPT !.pc = "next", !.job = req[h].job, !.batch = rest])
<1> DEFINE r == [Idle EXCEPT !.pc = "next", !.job = req[h].job, !.batch = rest]
<1>1. r.pc = "next" /\ r.batch = rest
  BY DEF Idle
<1> HIDE DEF r
<1> QED
  BY <1>1 DEF SnapsOpen, SnapOpen, r

LEMMA FinishOpen ==
  ASSUME SnapsOpen, NEW h \in Handlers, Finish(h) \/ Fail(h)
  PROVE  \E r : SnapOpen(r) /\ Become(h, r)
BY IdleOpen, RestOpen DEF Finish, Fail

\* a request that looks at an open duel, and one that takes a duel off its list
LEMMA LookKeepsOpen ==
  ASSUME TypeOK, SnapsOpen, NEW h \in Handlers,
         \/ \E u \in Users, d \in Duels, answer \in Answers : JoinDuel(h, u, d, answer)
         \/ \E d \in Duels : ApproveDuel(h, d)
         \/ \E d \in Duels, answer \in Answers : ResolveDuckPointDuelByAdmin(h, d, answer)
         \/ \E d \in Duels, target \in Statuses : CancelDuckPointDuelByAdmin(h, d, target)
  PROVE  SnapsOpen'
<1>1. PICK r : /\ Become(h, r) /\ r.batch = {} /\ r.snap.status \in Live
  <2>1. ASSUME NEW u \in Users, NEW d \in Duels, NEW answer \in Answers, JoinDuel(h, u, d, answer)
        PROVE  \E r : Become(h, r) /\ r.batch = {} /\ r.snap.status \in Live
    <3> DEFINE r == [Idle EXCEPT !.pc = "join", !.user = u, !.duel = d,
                                 !.snap = duels[d], !.answer = answer, !.since = now]
    <3>1. r.batch = {} /\ r.snap = duels[d]
      BY DEF Idle
    <3>2. duels[d].status \in Live
      BY <2>1 DEF JoinDuel, IsAbleToJoinDuel, Live
    <3>3. Become(h, r)
      BY <2>1 DEF JoinDuel
    <3> HIDE DEF r
    <3> QED
      BY <3>1, <3>2, <3>3
  <2>2. ASSUME NEW d \in Duels, ApproveDuel(h, d)
        PROVE  \E r : Become(h, r) /\ r.batch = {} /\ r.snap.status \in Live
    <3> DEFINE r == [Idle EXCEPT !.pc = "approve", !.duel = d, !.snap = duels[d]]
    <3>1. r.batch = {} /\ r.snap = duels[d]
      BY DEF Idle
    <3>2. duels[d].status \in Live /\ Become(h, r)
      BY <2>2 DEF ApproveDuel, Live
    <3> HIDE DEF r
    <3> QED
      BY <3>1, <3>2
  <2>3. ASSUME NEW d \in Duels, NEW answer \in Answers, ResolveDuckPointDuelByAdmin(h, d, answer)
        PROVE  \E r : Become(h, r) /\ r.batch = {} /\ r.snap.status \in Live
    <3> DEFINE r == [Idle EXCEPT !.pc = "winners", !.job = "admin", !.duel = d,
                                 !.snap = duels[d], !.answer = answer,
                                 !.cutoff = duels[d].deadline]
    <3>1. r.batch = {} /\ r.snap = duels[d]
      BY DEF Idle
    <3>2. duels[d].status \in Live /\ Become(h, r)
      BY <2>3 DEF ResolveDuckPointDuelByAdmin, Live
    <3> HIDE DEF r
    <3> QED
      BY <3>1, <3>2
  <2>4. ASSUME NEW d \in Duels, NEW target \in Statuses, CancelDuckPointDuelByAdmin(h, d, target)
        PROVE  \E r : Become(h, r) /\ r.batch = {} /\ r.snap.status \in Live
    <3> DEFINE r == [Idle EXCEPT !.pc = "cancel", !.job = "admin", !.duel = d,
                                 !.snap = duels[d], !.target = target]
    <3>1. r.batch = {} /\ r.snap = duels[d]
      BY DEF Idle
    <3>2. duels[d].status \in Live /\ Become(h, r)
      BY <2>4 DEF CancelDuckPointDuelByAdmin, ValidateDuelCancel, Live
    <3> HIDE DEF r
    <3> QED
      BY <3>1, <3>2
  <2> QED
    BY <2>1, <2>2, <2>3, <2>4
<1>2. SnapOpen(r)
  BY <1>1 DEF SnapOpen
<1> QED
  BY <1>1, <1>2, BecomeKeepsOpen

\* a cron's list is of open duels
LEMMA ListedKeepsOpen ==
  ASSUME TypeOK, SnapsOpen, NEW h \in Handlers, NEW job, NEW which \in SUBSET Duels,
         Listed(h, job, which), \A d \in which : duels[d].status \in Live
  PROVE  SnapsOpen'
<1> DEFINE list == {[duel |-> d, snap |-> duels[d]] : d \in which}
           r == [Idle EXCEPT !.pc = "next", !.job = job, !.batch = list]
<1>1. \A e \in list : e.snap.status \in Live
  OBVIOUS
<1>2. Become(h, r)
  BY DEF Listed
<1> HIDE DEF list
<1>3. r.pc = "next" /\ r.batch = list
  BY DEF Idle
<1> HIDE DEF r
<1>4. SnapOpen(r)
  BY <1>1, <1>3 DEF SnapOpen
<1> QED
  BY <1>2, <1>4, BecomeKeepsOpen

LEMMA CronListsKeepOpen ==
  ASSUME TypeOK, SnapsOpen, NEW h \in Handlers,
         \/ ResolveDuckPointOnEventDate(h) \/ ResolveDuckPointBeforeEventDate(h)
         \/ AutoCancelDuels(h)
  PROVE  SnapsOpen'
<1>1. \A d \in Duels : Ended(d) \/ Active(d) \/ OldInReview(d) => duels[d].status \in Live
  BY DEF Ended, Active, OldInReview, Live
<1> DEFINE over == {d \in Duels : Ended(d)}
           active == {d \in Duels : Active(d)}
           old == {d \in Duels : OldInReview(d)}
<1>2. /\ \A d \in over : duels[d].status \in Live
      /\ \A d \in active : duels[d].status \in Live
      /\ \A d \in old : duels[d].status \in Live
  BY <1>1
<1>3. \/ Listed(h, "onEvent", over) \/ Listed(h, "beforeEvent", active)
      \/ Listed(h, "autoCancel", old)
  BY DEF ResolveDuckPointOnEventDate, ResolveDuckPointBeforeEventDate, AutoCancelDuels
<1>4. over \in SUBSET Duels /\ active \in SUBSET Duels /\ old \in SUBSET Duels
  OBVIOUS
<1> HIDE DEF over, active, old
<1> QED
  BY <1>2, <1>3, <1>4, ListedKeepsOpen

\* taking the next duel off the list
LEMMA NextDuelKeepsOpen ==
  ASSUME TypeOK, SnapsOpen, NEW h \in Handlers, NEW e \in req[h].batch,
         \/ \E answer \in Answers : NextOnEventDate(h, e, answer)
         \/ NextBeforeEventDate(h, e) \/ SkipBeforeEventDate(h, e) \/ NextAutoCancel(h, e)
  PROVE  SnapsOpen'
<1>1. e.snap.status \in Live /\ \A f \in req[h].batch : f.snap.status \in Live
  BY DEF SnapsOpen, SnapOpen
<1>2. req[h] \in Request
  BY DEF TypeOK
<1>3. ASSUME NEW r, Become(h, r), r.batch = req[h].batch \ {e}, r.snap = e.snap \/ r.pc = "next"
      PROVE  SnapsOpen'
  <2>1. SnapOpen(r)
    BY <1>1, <1>3 DEF SnapOpen
  <2> QED
    BY <1>3, <2>1, BecomeKeepsOpen
<1>4. ASSUME NEW answer \in Answers, NextOnEventDate(h, e, answer) PROVE SnapsOpen'
  <2> DEFINE r == [Idle EXCEPT !.pc = "winners", !.job = "onEvent", !.duel = e.duel,
                               !.snap = e.snap, !.answer = answer,
                               !.cutoff = e.snap.deadline, !.batch = req[h].batch \ {e}]
  <2>1. r.snap = e.snap /\ r.batch = req[h].batch \ {e}
    BY DEF Idle
  <2>2. Become(h, r)
    BY <1>4 DEF NextOnEventDate
  <2> HIDE DEF r
  <2> QED
    BY <1>3, <2>1, <2>2
<1>5. CASE NextBeforeEventDate(h, e)
  <2> DEFINE r == [Idle EXCEPT !.pc = "winners", !.job = "beforeEvent", !.duel = e.duel,
                               !.snap = e.snap, !.answer = 1,
                               !.cutoff = now - ResolveJoinNotBefore,
                               !.batch = req[h].batch \ {e}]
  <2>1. r.snap = e.snap /\ r.batch = req[h].batch \ {e}
    BY DEF Idle
  <2>2. Become(h, r)
    BY <1>5 DEF NextBeforeEventDate
  <2> HIDE DEF r
  <2> QED
    BY <1>3, <2>1, <2>2
<1>6. CASE SkipBeforeEventDate(h, e)
  <2> DEFINE r == [req[h] EXCEPT !.batch = @ \ {e}]
  <2>1. r.pc = "next" /\ r.batch = req[h].batch \ {e}
    BY <1>2, <1>6 DEF SkipBeforeEventDate, Request
  <2>2. Become(h, Idle) \/ Become(h, r)
    BY <1>6 DEF SkipBeforeEventDate
  <2> HIDE DEF r
  <2> QED
    BY <1>3, <2>1, <2>2, IdleOpen, BecomeKeepsOpen
<1>7. CASE NextAutoCancel(h, e)
  <2> DEFINE r == [Idle EXCEPT !.pc = "cancel", !.job = "autoCancel", !.duel = e.duel,
                               !.snap = e.snap, !.target = AutoCancelled,
                               !.batch = req[h].batch \ {e}]
  <2>1. r.snap = e.snap /\ r.batch = req[h].batch \ {e}
    BY DEF Idle
  <2>2. Become(h, r)
    BY <1>7 DEF NextAutoCancel
  <2> HIDE DEF r
  <2> QED
    BY <1>3, <2>1, <2>2
<1> QED
  BY <1>4, <1>5, <1>6, <1>7

-----------------------------------------------------------------------------
(* Requests that go on *)

\* A request that keeps its duel and its list.
LEMMA GoesOnOpen ==
  ASSUME TypeOK, SnapsOpen, NEW h \in Handlers, NEW r,
         req[h].pc \in {"winners", "refunds", "cancel"},
         r.snap = req[h].snap, r.batch = req[h].batch
  PROVE  SnapOpen(r)
BY DEF SnapsOpen, SnapOpen

LEMMA ContinueKeepsOpen ==
  ASSUME TypeOK, SnapsOpen, NEW h \in Handlers,
         Continue(h) \/ CancelFails(h) \/ Abort(h)
  PROVE  SnapsOpen'
<1> DEFINE q == req[h]
<1>1. q \in Request
  BY DEF TypeOK
<1>2. CASE JoinCommit(h)
  <2> DEFINE r == [Idle EXCEPT !.pc = "streak", !.user = q.user]
  <2>1. r.pc = "streak" /\ r.batch = {}
    BY DEF Idle
  <2>2. Become(h, r)
    BY <1>2 DEF JoinCommit
  <2> HIDE DEF r
  <2> QED
    BY <2>1, <2>2, BecomeKeepsOpen DEF SnapOpen
<1>3. CASE CompleteDailyStreakTask(h)
  <2> DEFINE r == [Idle EXCEPT !.pc = "streakUpdate", !.user = q.user, !.balance = balance[q.user]]
  <2>1. r.pc = "streakUpdate" /\ r.batch = {}
    BY DEF Idle
  <2>2. Become(h, Idle) \/ Become(h, r)
    BY <1>3 DEF CompleteDailyStreakTask
  <2> HIDE DEF r
  <2> QED
    BY <2>1, <2>2, IdleOpen, BecomeKeepsOpen DEF SnapOpen
<1>4. CASE JoinRejected(h) \/ StreakUpdate(h) \/ ApproveUpdate(h) \/ Abort(h)
  <2>1. Become(h, Idle)
    BY <1>4 DEF JoinRejected, StreakUpdate, ApproveUpdate, Abort
  <2> QED
    BY <2>1, IdleOpen, BecomeKeepsOpen
<1>5. CASE Settle(h) \/ SettleOverflow(h) \/ CancelCommit(h) \/ CancelFails(h)
  <2>1. Finish(h) \/ Fail(h)
    BY <1>5 DEF Settle, SettleOverflow, CancelCommit, CancelFails
  <2> QED
    BY <2>1, FinishOpen, BecomeKeepsOpen
<1>6. CASE ReadWinners(h)
  <2> DEFINE r == [q EXCEPT !.pc = "refunds", !.winners = GetDuelWinners(q.duel, q.answer, q.cutoff)]
  <2>1. r.snap = q.snap /\ r.batch = q.batch
    BY <1>1 DEF Request
  <2>2. Become(h, r) /\ q.pc = "winners"
    BY <1>6 DEF ReadWinners
  <2> HIDE DEF r
  <2> QED
    BY <2>1, <2>2, GoesOnOpen, BecomeKeepsOpen
<1>7. CASE ReadRefunds(h)
  <2> DEFINE n == CountDuelPlayersToRefund(q.duel, q.cutoff)
             c == [q EXCEPT !.pc = "cancel", !.target = Refund, !.winners = {}]
             s == [q EXCEPT !.pc = "settle", !.refunds = n]
  <2>1. /\ c.snap = q.snap /\ c.batch = q.batch
        /\ s.snap = q.snap /\ s.batch = q.batch
    BY <1>1 DEF Request
  <2>2. (Become(h, c) \/ Become(h, s)) /\ q.pc = "refunds"
    BY <1>7 DEF ReadRefunds
  <2> HIDE DEF c, s
  <2> QED
    BY <2>1, <2>2, GoesOnOpen, BecomeKeepsOpen
<1>8. CASE CancelRefunds(h)
  <2> DEFINE r == [q EXCEPT !.pc = "cancelCommit", !.seated = UsersOf(q.duel, Rows(q.duel))]
  <2>1. r.snap = q.snap /\ r.batch = q.batch
    BY <1>1 DEF Request
  <2>2. Become(h, r) /\ q.pc = "cancel"
    BY <1>8 DEF CancelRefunds
  <2> HIDE DEF r
  <2> QED
    BY <2>1, <2>2, GoesOnOpen, BecomeKeepsOpen
<1> HIDE DEF q
<1>9. CASE \E e \in req[h].batch :
             \/ \E answer \in Answers : NextOnEventDate(h, e, answer)
             \/ NextBeforeEventDate(h, e)
             \/ SkipBeforeEventDate(h, e)
             \/ NextAutoCancel(h, e)
  BY <1>9, NextDuelKeepsOpen
<1> QED
  BY <1>2, <1>3, <1>4, <1>5, <1>6, <1>7, <1>8, <1>9 DEF Continue

\* creating a duel is done with it
LEMMA CreateKeepsOpen ==
  ASSUME TypeOK, SnapsOpen, NEW h \in Handlers, NEW u \in Users, NEW d \in Duels,
         NEW crypto \in BOOLEAN, NEW s \in Schedules, NEW answer \in Answers,
         \/ CreateNewDuel(h, u, d, crypto, s, answer)
         \/ CreateNewDuelAdmin(h, u, d, crypto, s, answer)
         \/ CreateDuelsWithJoin(h, d, s, answer)
         \/ EditDuel(h, d, s)
  PROVE  SnapsOpen'
<1> DEFINE r == [Idle EXCEPT !.pc = "streak", !.user = u]
<1>1. r.pc = "streak" /\ r.batch = {}
  BY DEF Idle
<1>2. Become(h, r) \/ req' = req
  BY DEF CreateNewDuel, CreateNewDuelAdmin, CreateDuelsWithJoin, EditDuel
<1> HIDE DEF r
<1>3. req' = req => SnapsOpen'
  BY DEF SnapsOpen, SnapOpen
<1> QED
  BY <1>1, <1>2, <1>3, BecomeKeepsOpen DEF SnapOpen

LEMMA NextKeepsOpen == TypeOK /\ SnapsOpen /\ [Next]_vars => SnapsOpen'
<1> SUFFICES ASSUME TypeOK, SnapsOpen, [Next]_vars PROVE SnapsOpen'
  OBVIOUS
<1>1. CASE Tick \/ UNCHANGED vars
  <2>1. req' = req
    BY <1>1 DEF Tick, vars
  <2> QED
    BY <2>1 DEF SnapsOpen, SnapOpen
<1>2. ASSUME NEW h \in Handlers, UserRequest(h) PROVE SnapsOpen'
  BY <1>2, CreateKeepsOpen, LookKeepsOpen DEF UserRequest
<1>3. ASSUME NEW h \in Handlers, ModeratorRequest(h) PROVE SnapsOpen'
  <2>1. ASSUME NEW d \in Duels, NEW s \in Schedules, EditDuel(h, d, s) PROVE SnapsOpen'
    BY <2>1, UsersAssumption, CreateKeepsOpen DEF Answers
  <2> QED
    BY <1>3, <2>1, LookKeepsOpen DEF ModeratorRequest
<1>4. ASSUME NEW h \in Handlers, CronRun(h) PROVE SnapsOpen'
  <2>1. ASSUME NEW d \in Duels, NEW s \in Schedules, NEW answer \in Answers,
               CreateDuelsWithJoin(h, d, s, answer)
        PROVE  SnapsOpen'
    BY <2>1, UsersAssumption, CreateKeepsOpen
  <2> QED
    BY <1>4, <2>1, CronListsKeepOpen DEF CronRun
<1>5. ASSUME NEW h \in Handlers, Continue(h) \/ CancelFails(h) \/ Abort(h) PROVE SnapsOpen'
  BY <1>5, ContinueKeepsOpen
<1> QED
  BY <1>1, <1>2, <1>3, <1>4, <1>5 DEF Next
-----------------------------------------------------------------------------
(* Who writes a status *)

\* what a step that takes a closed duel out of its status must be
StaleWrite ==
    \A d \in Duels :
       duels[d].status \in Terminal /\ duels'[d].status # duels[d].status =>
          \E h \in Handlers : /\ req[h].duel = d
                              /\ req[h].snap.status \in {InReview, InProcess}
                              /\ req'[h] # req[h]

\* One duel is written, by a request that has its copy and moves on.
LEMMA WriterHasCopy ==
  ASSUME TypeOK, SnapsOpen, NEW h \in Handlers, NEW row, NEW r, Become(h, r), r.pc # req[h].pc,
         req[h].pc \in {"join", "approve", "settle", "cancelCommit"},
         duels' = [duels EXCEPT ![req[h].duel] = row]
  PROVE  StaleWrite
<1>1. \A d \in Duels : d # req[h].duel => duels'[d] = duels[d]
  BY DEF TypeOK
<1>2. req'[h] = r
  BY DEF Become, TypeOK
<1>3. req[h].snap.status \in {InReview, InProcess}
  BY DEF SnapsOpen, SnapOpen, Live
<1> QED
  BY <1>1, <1>2, <1>3 DEF StaleWrite

\* a finished request is at rest or at its list
LEMMA FinishMovesOn ==
  ASSUME NEW h \in Handlers, Finish(h)
  PROVE  \E r : Become(h, r) /\ r.pc \in {"idle", "next"}
<1> DEFINE r == [Idle EXCEPT !.pc = "next", !.job = req[h].job, !.batch = req[h].batch]
<1>1. r.pc = "next" /\ Idle.pc = "idle"
  BY DEF Idle
<1>2. Become(h, Idle) \/ Become(h, r)
  BY DEF Finish
<1> HIDE DEF r
<1> QED
  BY <1>1, <1>2

LEMMA ContinueIsStaleWrite ==
  ASSUME TypeOK, SnapsOpen, NEW h \in Handlers, Continue(h)
  PROVE  StaleWrite
<1>1. Idle.pc = "idle"
  BY DEF Idle
<1>2. CASE JoinCommit(h)
  <2> DEFINE r == [Idle EXCEPT !.pc = "streak", !.user = req[h].user]
  <2>1. r.pc = "streak"
    BY DEF Idle
  <2>2. /\ Become(h, r) /\ req[h].pc = "join"
        /\ duels' = [duels EXCEPT ![req[h].duel] = SeatTaken(@, req[h].snap)]
    BY <1>2 DEF JoinCommit
  <2> HIDE DEF r
  <2> QED
    BY <2>1, <2>2, WriterHasCopy
<1>3. CASE ApproveUpdate(h)
  <2>1. PICK row : duels' = [duels EXCEPT ![req[h].duel] = row]
    BY <1>3 DEF ApproveUpdate
  <2>2. Become(h, Idle) /\ req[h].pc = "approve"
    BY <1>3 DEF ApproveUpdate
  <2> QED
    BY <1>1, <2>1, <2>2, WriterHasCopy
<1>4. CASE Settle(h) \/ CancelCommit(h)
  <2>1. PICK row : duels' = [duels EXCEPT ![req[h].duel] = row]
    <3>1. CASE Settle(h)
      BY <3>1 DEF Settle
    <3>2. CASE CancelCommit(h)
      BY <3>2 DEF CancelCommit
    <3> QED
      BY <1>4, <3>1, <3>2
  <2>2. Finish(h) /\ req[h].pc \in {"settle", "cancelCommit"}
    BY <1>4 DEF Settle, CancelCommit
  <2>3. PICK r : Become(h, r) /\ r.pc \in {"idle", "next"}
    BY <2>2, FinishMovesOn
  <2> QED
    BY <2>1, <2>2, <2>3, WriterHasCopy
<1>5. ASSUME duels' = duels PROVE StaleWrite
  BY <1>5 DEF StaleWrite
<1>6. CASE JoinRejected(h) \/ CompleteDailyStreakTask(h) \/ StreakUpdate(h)
             \/ ReadWinners(h) \/ ReadRefunds(h) \/ SettleOverflow(h) \/ CancelRefunds(h)
  BY <1>5, <1>6 DEF JoinRejected, CompleteDailyStreakTask, StreakUpdate, ReadWinners,
     ReadRefunds, SettleOverflow, CancelRefunds
<1>7. CASE \E e \in req[h].batch :
             \/ \E answer \in Answers : NextOnEventDate(h, e, answer)
             \/ NextBeforeEventDate(h, e)
             \/ SkipBeforeEventDate(h, e)
             \/ NextAutoCancel(h, e)
  BY <1>5, <1>7 DEF NextOnEventDate, NextBeforeEventDate, SkipBeforeEventDate, NextAutoCancel
<1> QED
  BY <1>2, <1>3, <1>4, <1>6, <1>7 DEF Continue

\* A new duel takes a row that was none, and an edit carries no status.
LEMMA OpenAndEditLeaveStatus ==
  ASSUME TypeOK, NEW h \in Handlers, NEW u \in Users, NEW d \in Duels, NEW crypto \in BOOLEAN,
         NEW s \in Schedules, NEW answer \in Answers,
         \/ CreateNewDuel(h, u, d, crypto, s, answer)
         \/ CreateNewDuelAdmin(h, u, d, crypto, s, answer)
         \/ CreateDuelsWithJoin(h, d, s, answer)
         \/ EditDuel(h, d, s)
  PROVE  StaleWrite
<1>1. NoStatus \notin Terminal
  BY DEF NoStatus, Terminal, Cancelled, AutoCancelled, AdminCancelled, Refund, Resolved
<1>2. CASE EditDuel(h, d, s)
  <2> DEFINE model == [NoDuel EXCEPT !.deadline = s.deadline, !.eventDate = s.eventDate]
  <2>1. duels' = [duels EXCEPT ![d] = Update(@, model)]
    BY <1>2 DEF EditDuel
  <2>2. model.status = 0
    BY DEF NoDuel, NoStatus
  <2>3. duels[d] \in DuelRow
    BY DEF TypeOK
  <2> HIDE DEF model
  <2>4. Update(duels[d], model).status = duels[d].status
    <3>1. NonZero(model.status, duels[d].status) = duels[d].status
      BY <2>2 DEF NonZero
    <3> QED
      BY <2>3, <3>1, Zenon DEF Update, DuelRow
  <2>5. \A e \in Duels : duels'[e].status = duels[e].status
    BY <2>1, <2>4 DEF TypeOK
  <2> QED
    BY <2>5 DEF StaleWrite
<1>3. CASE ~EditDuel(h, d, s)
  <2>1. duels[d].status = NoStatus /\ \A e \in Duels : e # d => duels'[e] = duels[e]
    BY <1>3 DEF CreateNewDuel, CreateNewDuelAdmin, CreateDuelsWithJoin, OpenDuel, TypeOK
  <2> QED
    BY <1>1, <2>1 DEF StaleWrite
<1> QED
  BY <1>2, <1>3

LEMMA NextIsStaleWrite == TypeOK /\ SnapsOpen /\ Next => StaleWrite
<1> SUFFICES ASSUME TypeOK, SnapsOpen, Next PROVE StaleWrite
  OBVIOUS
<1>1. duels' = duels => StaleWrite
  BY DEF StaleWrite
<1>2. CASE Tick
  BY <1>1, <1>2 DEF Tick
<1>3. ASSUME NEW h \in Handlers, UserRequest(h) PROVE StaleWrite
  <2>1. ASSUME NEW u \in Users, NEW d \in Duels, NEW answer \in Answers, JoinDuel(h, u, d, answer)
        PROVE  StaleWrite
    BY <1>1, <2>1 DEF JoinDuel
  <2> QED
    BY <1>3, <2>1, OpenAndEditLeaveStatus DEF UserRequest
<1>4. ASSUME NEW h \in Handlers, ModeratorRequest(h) PROVE StaleWrite
  <2>1. ASSUME NEW d \in Duels, NEW s \in Schedules, EditDuel(h, d, s) PROVE StaleWrite
    BY <2>1, UsersAssumption, OpenAndEditLeaveStatus DEF Answers
  <2>2. ASSUME NEW d \in Duels,
               \/ ApproveDuel(h, d)
               \/ \E answer \in Answers : ResolveDuckPointDuelByAdmin(h, d, answer)
               \/ \E target \in Statuses : CancelDuckPointDuelByAdmin(h, d, target)
        PROVE  StaleWrite
    BY <1>1, <2>2 DEF ApproveDuel, ResolveDuckPointDuelByAdmin, CancelDuckPointDuelByAdmin
  <2> QED
    BY <1>4, <2>1, <2>2 DEF ModeratorRequest
<1>5. ASSUME NEW h \in Handlers, CronRun(h) PROVE StaleWrite
  <2>1. ASSUME NEW d \in Duels, NEW s \in Schedules, NEW answer \in Answers,
               CreateDuelsWithJoin(h, d, s, answer)
        PROVE  StaleWrite
    BY <2>1, UsersAssumption, OpenAndEditLeaveStatus
  <2>2. CASE ResolveDuckPointOnEventDate(h) \/ ResolveDuckPointBeforeEventDate(h) \/ AutoCancelDuels(h)
    BY <1>1, <2>2 DEF ResolveDuckPointOnEventDate, ResolveDuckPointBeforeEventDate,
       AutoCancelDuels, Listed
  <2> QED
    BY <1>5, <2>1, <2>2 DEF CronRun
<1>6. ASSUME NEW h \in Handlers, Continue(h) PROVE StaleWrite
  BY <1>6, ContinueIsStaleWrite
<1>7. ASSUME NEW h \in Handlers, CancelFails(h) \/ Abort(h) PROVE StaleWrite
  BY <1>1, <1>7 DEF CancelFails, Abort
<1> QED
  BY <1>2, <1>3, <1>4, <1>5, <1>6, <1>7 DEF Next

\* A closed duel is reopened, or closed another way, only by a request that read it while
\* it was open: a join, an approval, a settlement or a cancellation that overlaps the one
\* that closed it (DuelRepository.JoinDuel, Generic.Update).
THEOREM ReopenedByStaleReads == Spec => ReopenedOnlyByStaleRead
<1>1. Init => IInv /\ SnapsOpen
  BY InitIInv, IdleOpen DEF Init, SnapsOpen
<1>2. IInv /\ SnapsOpen /\ [Next]_vars => (IInv /\ SnapsOpen)'
  BY NextKeepsIInv, NextKeepsOpen DEF IInv
<1>3. IInv /\ SnapsOpen /\ [Next]_vars => [StaleWrite]_vars
  BY NextIsStaleWrite DEF IInv
<1>4. Spec => [][StaleWrite]_vars
  BY <1>1, <1>2, <1>3, PTL DEF Spec
<1> QED
  BY <1>4 DEF ReopenedOnlyByStaleRead, StaleWrite

-----------------------------------------------------------------------------
(* A pool that wrapped around zero *)

\* 2^64 leaves room for more than 10^11 seats when win_amount holds 10^6.
FewRows ==
    \A d \in Duels : (100 * WinAmountLimit + 1) * Len(players[d]) + 50 <= CountModulus

\* What a settlement may write is covered by the stakes of the seats.
LEMMA SettlementCovered ==
  ASSUME IInv, FewRows, NEW h \in Handlers, req[h].pc = "settle",
         WinAmountFits(WinAmount(req[h]))
  PROVE  WinAmount(req[h]) <= Pool(DuelPrice, Len(players[req[h].duel]))
<1>0. PICK q, n, k, f, w : /\ q = req[h] /\ n = Len(players[q.duel]) /\ k = q.snap.playersCount
                           /\ f = q.refunds /\ w = Cardinality(q.winners)
  OBVIOUS
<1>1. RequestOK(q) /\ q \in Request /\ q.pc = "settle" /\ q.duel \in Duels
  BY <1>0 DEF IInv, RequestOK
<1>2. n \in Nat /\ (100 * WinAmountLimit + 1) * n + 50 <= CountModulus
  BY <1>0, <1>1, DuelFacts DEF FewRows
<1>3. k \in Nat /\ k <= n /\ f \in Nat /\ f <= n
  BY <1>0, <1>1 DEF RequestOK, Request, DuelRow
<1>4. w \in Nat \ {0} /\ w <= n
  <2>1. q.winners \in SUBSET (1..n) /\ IsFiniteSet(q.winners) /\ q.winners # {}
    BY <1>0, <1>1 DEF RequestOK
  <2>2. w \in Nat /\ w # 0
    BY <1>0, <2>1, FS_CardinalityType, FS_EmptySet
  <2>3. IsFiniteSet(1..n) /\ Cardinality(1..n) = n
    BY <1>2, FS_Interval
  <2>4. Cardinality(q.winners) <= Cardinality(1..n)
    BY <2>1, <2>3, FS_Subset
  <2> QED
    BY <1>0, <2>2, <2>3, <2>4
<1>5. /\ DuelPrice \in Nat \ {0} /\ Commission \in 0..100
      /\ WinAmountLimit \in Nat /\ CountModulus \in Nat \ {0}
  BY AmountsAssumption
<1>6. /\ WinAmountLimit * n \in Nat
      /\ 100 * (WinAmountLimit * n) + n + 50 <= CountModulus
  <2>1. WinAmountLimit * n \in Nat
    BY <1>2, <1>5, Product
  <2>2. (100 * WinAmountLimit + 1) * n = 100 * (WinAmountLimit * n) + n
    BY <1>2, <1>5, SMT
  <2> QED
    BY <1>2, <2>1, <2>2
<1>7. PICK count : count = PlayersPool(k, f, CountModulus)
  OBVIOUS
<1>8. WinAmount(q) = FinalReward(Pool(DuelPrice, count), Commission, w)
  BY <1>0, <1>7, Zenon DEF WinAmount, PoolOf
<1>9. Pool(DuelPrice, n) = n * DuelPrice /\ Pool(DuelPrice, count) = count * DuelPrice
  BY DEF Pool
<1>10. count = IF f <= k THEN k - f ELSE CountModulus + k - f
  <2>1. k < CountModulus /\ f < CountModulus
    BY <1>2, <1>3, <1>5, <1>6
  <2> QED
    BY <1>3, <1>5, <1>7, <2>1, Remainder DEF PlayersPool
<1>11. count \in Nat /\ count * DuelPrice \in Nat
  <2>1. count \in Nat
    BY <1>2, <1>3, <1>5, <1>6, <1>10
  <2> QED
    BY <1>5, <2>1, Product
<1>12. CASE f <= k
  <2>1. count * DuelPrice <= n * DuelPrice /\ n * DuelPrice \in Nat
    <3>1. count <= n /\ DuelPrice \in Nat
      BY <1>2, <1>3, <1>5, <1>10, <1>12
    <3> QED
      BY <1>2, <1>11, <3>1, ProductMonotonic
  <2>2. /\ WinAmount(q) \in Nat
        /\ w * WinAmount(q) + CommissionReward(count * DuelPrice, Commission) <= count * DuelPrice
    BY <1>4, <1>5, <1>8, <1>9, <1>11, PayoutWithinPool
  <2>3. CommissionReward(count * DuelPrice, Commission) \in Nat
    <3>1. PICK pool \in Nat : pool = count * DuelPrice
      BY <1>11
    <3>2. /\ PercentValue(pool, Commission) \in 0..pool
          /\ CommissionReward(pool, Commission) \in 0..PercentValue(pool, Commission)
      BY <1>5, PercentBounds
    <3>3. CommissionReward(pool, Commission) \in Nat
      BY <3>2
    <3> QED
      BY <3>1, <3>3, Zenon
  <2>4. WinAmount(q) <= w * WinAmount(q) /\ w * WinAmount(q) \in Nat
    <3>1. 1 <= w /\ 1 * WinAmount(q) = WinAmount(q)
      BY <1>4, <2>2
    <3> QED
      BY <1>4, <2>2, <3>1, ProductMonotonic
  <2> QED
    BY <1>0, <1>9, <1>11, <2>1, <2>2, <2>3, <2>4
<1>13. CASE ~(f <= k)
  <2>1. count >= 100 * (WinAmountLimit * n) + 50
    BY <1>2, <1>3, <1>5, <1>6, <1>10, <1>13
  <2>2. count * DuelPrice >= count
    <3>1. 1 <= DuelPrice /\ count * 1 = count
      BY <1>5, <1>11
    <3> QED
      BY <1>5, <1>11, <3>1, ProductMonotonic
  <2>3. WinAmountLimit * w <= WinAmountLimit * n /\ WinAmountLimit * w \in Nat
    BY <1>2, <1>4, <1>5, ProductMonotonic
  <2>4. 100 * (WinAmountLimit * w) + 50 <= count * DuelPrice
    BY <1>6, <1>11, <2>1, <2>2, <2>3
  <2>5. CASE Commission = 100
    <3>1. WinAmount(q) = 0
      BY <1>4, <1>8, <1>9, <1>11, <2>5, WholeCommission
    <3> QED
      BY <1>0, <1>2, <1>5, <1>9, <3>1, Product
  <2>6. CASE Commission \in 0..99
    <3>1. WinAmount(q) >= WinAmountLimit
      BY <1>4, <1>5, <1>8, <1>9, <1>11, <2>4, <2>6, HugePool
    <3>2. WinAmount(q) < WinAmountLimit
      BY <1>0, Zenon DEF WinAmountFits
    <3>3. WinAmount(q) \in Nat
      BY <1>4, <1>5, <1>8, <1>9, <1>11, PayoutWithinPool
    <3> QED
      BY <1>5, <3>1, <3>2, <3>3
  <2> QED
    BY <1>5, <2>5, <2>6
<1> QED
  BY <1>12, <1>13

\* rows that were there keep their prize, those that are added have none
SamePrizes(rows, rows2) ==
    /\ DOMAIN rows \subseteq DOMAIN rows2
    /\ \A i \in DOMAIN rows : rows2[i].winAmount = rows[i].winAmount
    /\ \A i \in DOMAIN rows2 \ DOMAIN rows : rows2[i].winAmount = 0

\* marking seats leaves their prizes
LEMMA SetStatusKeepsPrizes ==
  ASSUME NEW rows \in Seq(PlayerRow), NEW which, NEW status
  PROVE  SamePrizes(rows, SetStatus(rows, which, status))
<1>1. \A i \in DOMAIN rows : rows[i] \in PlayerRow
  BY LenProperties
<1>2. \A i \in DOMAIN rows : [rows[i] EXCEPT !.finalStatus = status].winAmount = rows[i].winAmount
  BY <1>1 DEF PlayerRow
<1> QED
  BY <1>2 DEF SamePrizes, SetStatus

\* a seat that is added has won nothing
LEMMA AppendKeepsPrizes ==
  ASSUME NEW rows \in Seq(PlayerRow), NEW u, NEW answer, NEW at, NEW charged
  PROVE  SamePrizes(rows, Append(rows, Seat(u, answer, at, charged)))
<1> DEFINE seat == Seat(u, answer, at, charged)
<1>1. seat.winAmount = 0
  BY DEF Seat
<1>2. Len(rows) \in Nat /\ DOMAIN rows = 1..Len(rows)
  BY LenProperties
<1> HIDE DEF seat
<1>3. /\ DOMAIN Append(rows, seat) = 1..(Len(rows) + 1)
      /\ \A i \in 1..Len(rows) : Append(rows, seat)[i] = rows[i]
      /\ Append(rows, seat)[Len(rows) + 1] = seat
  BY <1>2
<1> QED
  BY <1>1, <1>2, <1>3 DEF SamePrizes, seat

\* every transaction but a settlement leaves the prizes alone
LEMMA PrizesStay ==
  ASSUME IInv, [Next]_vars, NEW d \in Duels, \A h \in Handlers : ~Settle(h)
  PROVE  SamePrizes(players[d], players'[d])
<1>1. \A e \in Duels : players[e] \in Seq(PlayerRow) /\ players \in [Duels -> Seq(PlayerRow)]
  BY DEF IInv, TypeOK
<1>2. CASE players' = players
  BY <1>2 DEF SamePrizes
<1>3. ASSUME NEW e, NEW rows2, players' = [players EXCEPT ![e] = rows2],
             e \in Duels => SamePrizes(players[e], rows2)
      PROVE  SamePrizes(players[d], players'[d])
  <2>1. CASE e = d
    <3>1. players'[d] = rows2
      BY <1>1, <1>3, <2>1
    <3> QED
      BY <1>3, <2>1, <3>1
  <2>2. CASE e # d
    <3>1. players'[d] = players[d]
      BY <1>1, <1>3, <2>2
    <3> QED
      BY <3>1 DEF SamePrizes
  <2> QED
    BY <2>1, <2>2
<1>4. ASSUME NEW e, NEW u, NEW answer, NEW at, NEW charged,
             players' = [players EXCEPT ![e] = Append(@, Seat(u, answer, at, charged))]
      PROVE  SamePrizes(players[d], players'[d])
  <2>1. players' = [players EXCEPT ![e] = Append(players[e], Seat(u, answer, at, charged))]
    BY <1>4
  <2> QED
    BY <1>1, <1>3, <2>1, AppendKeepsPrizes
<1>5. CASE UNCHANGED vars \/ Tick
  BY <1>2, <1>5 DEF vars, Tick
<1>6. ASSUME NEW h \in Handlers, UserRequest(h)
      PROVE  SamePrizes(players[d], players'[d])
  <2>1. PICK u \in Users, e \in Duels, answer \in Answers :
           \/ \E crypto \in BOOLEAN, s \in Schedules :
                 \/ CreateNewDuel(h, u, e, crypto, s, answer)
                 \/ CreateNewDuelAdmin(h, u, e, crypto, s, answer)
           \/ JoinDuel(h, u, e, answer)
    BY <1>6, Zenon DEF UserRequest
  <2>2. \/ players' = [players EXCEPT ![e] = Append(@, Seat(u, answer, now, TRUE))]
        \/ players' = players
    BY <2>1, Zenon DEF CreateNewDuel, CreateNewDuelAdmin, OpenDuel, JoinDuel
  <2> QED
    BY <1>2, <1>4, <2>2
<1>7. ASSUME NEW h \in Handlers, ModeratorRequest(h)
      PROVE  SamePrizes(players[d], players'[d])
  BY <1>2, <1>7 DEF ModeratorRequest, ApproveDuel, EditDuel, ResolveDuckPointDuelByAdmin,
                    CancelDuckPointDuelByAdmin
<1>8. ASSUME NEW h \in Handlers, CronRun(h)
      PROVE  SamePrizes(players[d], players'[d])
  <2>1. ASSUME NEW e \in Duels, NEW s \in Schedules, NEW answer \in Answers,
               CreateDuelsWithJoin(h, e, s, answer)
        PROVE  SamePrizes(players[d], players'[d])
    <3>1. players' = [players EXCEPT ![e] = Append(@, Seat(House, answer, now, FALSE))]
      BY <2>1, Zenon DEF CreateDuelsWithJoin, OpenDuel
    <3> QED
      BY <1>4, <3>1
  <2>2. CASE \/ ResolveDuckPointOnEventDate(h) \/ ResolveDuckPointBeforeEventDate(h)
             \/ AutoCancelDuels(h)
    BY <1>2, <2>2 DEF ResolveDuckPointOnEventDate, ResolveDuckPointBeforeEventDate,
                      AutoCancelDuels, Listed
  <2> QED
    BY <1>8, <2>1, <2>2, Zenon DEF CronRun
<1>9. ASSUME NEW h \in Handlers, Continue(h)
      PROVE  SamePrizes(players[d], players'[d])
  <2>1. CASE JoinCommit(h)
    <3>1. PICK at : players' = [players EXCEPT ![req[h].duel] =
                        Append(@, Seat(req[h].user, req[h].answer, at, TRUE))]
      BY <2>1, Zenon DEF JoinCommit
    <3> QED
      BY <1>4, <3>1
  <2>2. CASE CancelRefunds(h)
    <3>1. players' = [players EXCEPT ![req[h].duel] =
                        SetStatus(players[req[h].duel], DOMAIN players[req[h].duel], PlayerRefunded)]
      BY <2>2 DEF CancelRefunds
    <3> QED
      BY <1>1, <1>3, <3>1, SetStatusKeepsPrizes
  <2>3. CASE ~(JoinCommit(h) \/ CancelRefunds(h))
    <3>1. players' = players
      BY <1>9, <2>3, Zenon DEF Continue, JoinRejected, CompleteDailyStreakTask, StreakUpdate,
         ApproveUpdate, NextOnEventDate, NextBeforeEventDate, SkipBeforeEventDate, NextAutoCancel,
         ReadWinners, ReadRefunds, SettleOverflow, CancelCommit
    <3> QED
      BY <1>2, <3>1
  <2> QED
    BY <2>1, <2>2, <2>3
<1>10. ASSUME NEW h \in Handlers, CancelFails(h) \/ Abort(h)
       PROVE  SamePrizes(players[d], players'[d])
  BY <1>2, <1>10 DEF CancelFails, Abort
<1> QED
  BY <1>5, <1>6, <1>7, <1>8, <1>9, <1>10, Zenon DEF Next

\* NoWindfall of one duel
Covered(d) ==
    \A i \in Rows(d) : players[d][i].winAmount <= Pool(DuelPrice, Len(players[d]))

\* more seats, a larger pool
LEMMA PoolGrows ==
  ASSUME NEW m \in Nat, NEW n \in Nat, m <= n
  PROVE  Pool(DuelPrice, m) <= Pool(DuelPrice, n) /\ Pool(DuelPrice, m) \in Nat /\ Pool(DuelPrice, n) \in Nat
BY ProductMonotonic, AmountsAssumption DEF Pool

\* prizes that stay remain covered as seats are added
LEMMA PrizesStayCovered ==
  ASSUME IInv, IInv', NEW d \in Duels, Covered(d), SamePrizes(players[d], players'[d])
  PROVE  Covered(d)'
<1>0. PICK old, new, m, n : /\ old = players[d] /\ new = players'[d]
                            /\ m = Len(old) /\ n = Len(new)
  OBVIOUS
<1>1. old \in Seq(PlayerRow) /\ new \in Seq(PlayerRow)
  BY <1>0 DEF IInv, TypeOK
<1>2. m \in Nat /\ n \in Nat /\ DOMAIN old = 1..m /\ DOMAIN new = 1..n
  BY <1>0, <1>1, LenProperties
<1>3. m <= n
  <2>1. 1..m \subseteq 1..n
    BY <1>0, <1>2 DEF SamePrizes
  <2> QED
    BY <1>2, <2>1
<1>4. Pool(DuelPrice, m) <= Pool(DuelPrice, n) /\ Pool(DuelPrice, m) \in Nat /\ Pool(DuelPrice, n) \in Nat
  BY <1>2, <1>3, PoolGrows
<1>5. \A i \in DOMAIN new : new[i].winAmount \in Nat /\ new[i].winAmount <= Pool(DuelPrice, n)
  <2>1. SUFFICES ASSUME NEW i \in DOMAIN new
                 PROVE  new[i].winAmount \in Nat /\ new[i].winAmount <= Pool(DuelPrice, n)
    OBVIOUS
  <2>2. new[i].winAmount \in Nat
    <3>1. new[i] \in PlayerRow
      BY <1>0, <1>1, <1>2, ElementOfSeq
    <3> QED
      BY <3>1 DEF PlayerRow
  <2>3. CASE i \in DOMAIN old
    <3>1. new[i].winAmount = old[i].winAmount
      BY <1>0, <2>3 DEF SamePrizes
    <3>2. old[i].winAmount <= Pool(DuelPrice, m)
      BY <1>0, <2>3 DEF Covered, Rows
    <3> QED
      BY <1>4, <2>2, <3>1, <3>2
  <2>4. CASE i \notin DOMAIN old
    BY <1>0, <1>4, <2>1, <2>4 DEF SamePrizes
  <2> QED
    BY <2>3, <2>4
<1> QED
  BY <1>0, <1>5 DEF Covered, Rows

\* a settlement gives its winners what the stakes cover
LEMMA SettleStaysCovered ==
  ASSUME IInv, FewRows, NEW h \in Handlers, Settle(h), NEW d \in Duels, Covered(d)
  PROVE  Covered(d)'
<1>0. PICK e, amount, winners, late :
        /\ e = req[h].duel /\ amount = WinAmount(req[h]) /\ winners = req[h].winners
        /\ late = LateRows(req[h].duel, req[h].cutoff)
  OBVIOUS
<1>1. req[h].pc = "settle" /\ WinAmountFits(WinAmount(req[h]))
  BY Zenon DEF Settle
<1>2. amount <= Pool(DuelPrice, Len(players[e]))
  BY <1>0, <1>1, SettlementCovered
<1> DEFINE rows == UpdateDuelWinners(players[e], winners, amount)
           rows2 == IF req[h].refunds > 0 THEN SetStatus(rows, late, PlayerRefunded) ELSE rows
<1>3. players' = [players EXCEPT ![e] = rows2]
  BY <1>0, Zenon DEF Settle
<1>4. players \in [Duels -> Seq(PlayerRow)]
  BY DEF IInv, TypeOK
<1>5. CASE e # d
  <2>1. players'[d] = players[d]
    BY <1>3, <1>4, <1>5
  <2> QED
    BY <2>1 DEF Covered, Rows
<1>6. CASE e = d
  <2>0. PICK old, new, n : old = players[d] /\ new = players'[d] /\ n = Len(old)
    OBVIOUS
  <2>1. old \in Seq(PlayerRow) /\ n \in Nat /\ DOMAIN old = 1..n
    BY <1>4, <2>0, LenProperties
  <2>2. \A i \in DOMAIN old : old[i] \in PlayerRow
    BY <2>1
  <2>3. /\ DOMAIN rows = DOMAIN old
        /\ \A i \in DOMAIN old : rows[i].winAmount \in {old[i].winAmount, amount}
    BY <1>6, <2>0, <2>2 DEF UpdateDuelWinners, PlayerRow
  <2>4. \A i \in DOMAIN old : rows[i].finalStatus = rows[i].finalStatus
                                /\ rows[i] = [rows[i] EXCEPT !.winAmount = rows[i].winAmount]
    BY <1>6, <2>0, <2>2 DEF UpdateDuelWinners, PlayerRow
  <2>5. /\ DOMAIN rows2 = DOMAIN old
        /\ \A i \in DOMAIN old : rows2[i].winAmount = rows[i].winAmount
    BY <1>6, <2>0, <2>2, <2>3 DEF SetStatus, UpdateDuelWinners, PlayerRow
  <2>6. new = rows2
    BY <1>3, <1>4, <1>6, <2>0
  <2> HIDE DEF rows, rows2
  <2>7. DOMAIN new = 1..n /\ \A i \in 1..n : new[i].winAmount \in {old[i].winAmount, amount}
    BY <2>1, <2>3, <2>5, <2>6
  <2>8. Len(new) = n
    <3>1. new \in Seq({new[i] : i \in 1..n})
      <4>1. new = [i \in 1..n |-> new[i]]
        <5>1. rows2 = [i \in DOMAIN rows2 |-> rows2[i]]
          BY DEF rows2, rows, SetStatus, UpdateDuelWinners
        <5> QED
          BY <2>1, <2>5, <2>6, <5>1
      <4> QED
        BY <2>1, <4>1, SeqDef
    <3> QED
      BY <2>1, <2>7, <3>1, LenProperties
  <2>9. \A i \in 1..n : new[i].winAmount <= Pool(DuelPrice, n)
    <3>1. \A i \in 1..n : old[i].winAmount <= Pool(DuelPrice, n)
      BY <2>0, <2>1 DEF Covered, Rows
    <3>2. amount <= Pool(DuelPrice, n)
      BY <1>2, <1>6, <2>0
    <3> QED
      BY <2>7, <3>1, <3>2
  <2> QED
    BY <2>0, <2>7, <2>8, <2>9 DEF Covered, Rows
<1> QED
  BY <1>5, <1>6

\* No seat ever wins more than the stakes of its duel, whatever the requests that
\* run at once read and however they fail: as long as no duel has so many seats
\* that a pool which wrapped around zero could fit into win_amount.
THEOREM NothingOutOfThinAir == Spec /\ []FewRows => []NoWindfall
<1>1. NoWindfall <=> \A d \in Duels : Covered(d)
  BY Zenon DEF NoWindfall, Covered
<1>2. NoWindfall' <=> \A d \in Duels : Covered(d)'
  BY Zenon DEF NoWindfall, Covered
<1>3. Init => IInv /\ NoWindfall
  <2>1. Init => \A d \in Duels : Covered(d)
    BY DEF Init, Covered, Rows
  <2> QED
    BY <1>1, <2>1, InitIInv
<1>4. IInv /\ NoWindfall /\ FewRows /\ [Next]_vars => IInv' /\ NoWindfall'
  <2>1. SUFFICES ASSUME IInv, NoWindfall, FewRows, [Next]_vars PROVE IInv' /\ NoWindfall'
    OBVIOUS
  <2>2. IInv'
    BY <2>1, NextKeepsIInv
  <2>3. ASSUME NEW d \in Duels PROVE Covered(d)'
    <3>1. Covered(d)
      BY <1>1, <2>1
    <3>2. CASE \E h \in Handlers : Settle(h)
      BY <2>1, <3>1, <3>2, SettleStaysCovered
    <3>3. CASE \A h \in Handlers : ~Settle(h)
      BY <2>1, <2>2, <3>1, <3>3, PrizesStay, PrizesStayCovered
    <3> QED
      BY <3>2, <3>3
  <2> QED
    BY <1>2, <2>2, <2>3
<1> QED
  BY <1>3, <1>4, PTL DEF Spec
=============================================================================
