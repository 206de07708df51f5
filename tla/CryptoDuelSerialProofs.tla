------------------------ MODULE CryptoDuelSerialProofs ------------------------
(***************************************************************************)
(* What holds of a crypto duel while requests and cron runs follow each    *)
(* other.  Whatever fails: what is recorded of a payout was sent, a closed *)
(* duel is not written again, and no seat is sent more than one transfer   *)
(* per attempt.  Until something fails: the next player finds a place in   *)
(* the room, and wallets, room and rows agree to the last millionth.       *)
(***************************************************************************)
EXTENDS CryptoDuelProofs

-----------------------------------------------------------------------------
(* One request at a time *)

\* requests and cron runs do not overlap
OneAtATime == \E h : Handlers = {h}

Refunded == {i \in Rows : players[i].finalStatus = PlayerRefunded}

\* seat i is taken too late for the event request r settles
Late(r, i) == players[i].createdAt > r.cutoff

\* request r refunds seats taken too late
Refunding(r) ==
    \/ r.pc = "recordRefund"
    \/ r.pc = "pay" /\ r.next = "recordRefund"

\* request r pays winners, owner and referrer
Rewarding(r) ==
    \/ r.pc \in {"ownerReward", "referrerReward", "settle"}
    \/ r.pc = "pay" /\ r.next = "ownerReward"
    \/ r.pc = "close" /\ r.target = NoStatus

\* request r pays everybody back
PayingBack(r) ==
    \/ r.pc = "pay" /\ r.next = "close"
    \/ r.pc = "close" /\ r.target # NoStatus
    \/ r.pc \in {"cancelUpdate", "cancelSeats"} /\ r.target = Refund

\* request r settles
Resolving(r) == r.pc \in {"winners", "refunds", "late", "unpaid"} \/ Refunding(r) \/ Rewarding(r)

\* What request r read is what there is.
SnapNow(r) ==
    /\ r.job = "create" =>
          /\ duel = NoDuel /\ players = <<>>
          /\ r.snap.status = InProcess /\ r.snap.playersCount = 0
          /\ r.snap.refundedPlayersCount = 0
    /\ r.pc \notin {"idle", "cancelSeats"} /\ r.job # "create" => r.snap = duel
    /\ r.pc \in {"charge", "record"} => duel.status \notin Terminal
    /\ r.pc = "publish" => duel.status = InReview
    /\ r.pc \notin {"idle", "charge", "record", "publish", "cancelUpdate", "cancelSeats"}
         => duel.status = InProcess
    /\ r.pc = "cancelUpdate" => duel.status = IF r.target = Refund THEN InProcess ELSE InReview
    /\ r.pc = "cancelSeats" => duel.status = r.target

\* Whom request r is paying, and for what.
PlanNow(r) ==
    /\ Resolving(r) => r.target = NoStatus
    /\ r.pc = "everybody" \/ PayingBack(r) => r.target = Refund
    /\ r.pc \in {"cancelUpdate", "cancelSeats"} => r.target \in Cancelled
    /\ Resolving(r) /\ r.pc # "winners" => r.winners = GetDuelWinners(r.answer, r.cutoff)
    /\ Refunding(r) => r.list = GetDuelPlayersToRefund(r.cutoff) /\ r.due \subseteq r.list
    /\ r.pc = "unpaid" \/ Rewarding(r) => \A i \in Rows \ Refunded : ~Late(r, i)
    /\ r.pc = "pay" => r.due \subseteq Rows
    /\ r.pc = "pay" /\ r.next = "ownerReward" => r.due \cap Refunded = {}
    /\ r.pc # "pay" => r.due = {}

\* Who was paid by request r has been sent something.
SentNow(r) ==
    /\ Refunding(r) => \A i \in r.list \ r.due : players[i].sent > 0
    /\ Rewarding(r) => \A i \in r.winners \ r.due : players[i].sent > 0
    /\ PayingBack(r) => \A i \in Rows \ r.due : players[i].sent > 0

\* What the rows of duel and players say of each other.
RowsNow ==
    /\ duel.status = NoStatus => duel = NoDuel /\ players = <<>>
    /\ duel.playersCount = Len(players)
    /\ duel.status \notin Terminal =>
          /\ duel.refundedPlayersCount = Cardinality(Refunded)
          /\ \A i \in Rows : players[i].finalStatus \in {PlayerActive, PlayerRefunded}
    /\ RecordedAfterSent

RunInv ==
    /\ CryptoInv
    /\ RowsNow
    /\ \A h \in Handlers : SnapNow(req[h]) /\ PlanNow(req[h]) /\ SentNow(req[h])

LEMMA AllStatuses ==
  /\ NoStatus = 0 /\ InReview = 1 /\ AutoCancelled = 2 /\ AdminCancelled = 3
  /\ InProcess = 4 /\ Resolved = 5 /\ Refund = 6 /\ Terminal = {2, 3, 5, 6}
  /\ Cancelled = {2, 3, 6}
BY DEF NoStatus, InReview, AutoCancelled, AdminCancelled, InProcess, Resolved, Refund,
       Terminal, Cancelled

\* the one request there is goes on to q
LEMMA OneRequest ==
  ASSUME CryptoInv, OneAtATime, NEW h \in Handlers, NEW q, req' = [req EXCEPT ![h] = q]
  PROVE  \A g \in Handlers : req'[g] = q
BY TypedFields DEF OneAtATime

\* what is read of unchanged rows is the same
LEMMA SameReads ==
  ASSUME UNCHANGED <<duel, players>>, NEW q, SnapNow(q), PlanNow(q), SentNow(q)
  PROVE  SnapNow(q)' /\ PlanNow(q)' /\ SentNow(q)'
<1>1. SnapNow(q)'
  BY DEF SnapNow
<1>2. PlanNow(q)'
  <2>1. Rows' = Rows /\ Refunded' = Refunded
    BY DEF Rows, Refunded
  <2>2. /\ GetDuelWinners(q.answer, q.cutoff)' = GetDuelWinners(q.answer, q.cutoff)
        /\ GetDuelPlayersToRefund(q.cutoff)' = GetDuelPlayersToRefund(q.cutoff)
    BY DEF GetDuelWinners, GetDuelPlayersToRefund, Rows
  <2> QED
    BY <2>1, <2>2 DEF PlanNow, Late, Resolving, Refunding, Rewarding, PayingBack
<1>3. SentNow(q)'
  BY DEF SentNow, Rows, Refunding, Rewarding, PayingBack
<1> QED
  BY <1>1, <1>2, <1>3

LEMMA SameRows == ASSUME UNCHANGED <<duel, players>>, RowsNow PROVE RowsNow'
<1>1. Rows' = Rows /\ Refunded' = Refunded
  BY DEF Rows, Refunded
<1>2. Cardinality(Refunded)' = Cardinality(Refunded)
  BY <1>1, Zenon
<1> QED
  BY <1>1, <1>2 DEF RowsNow, RecordedAfterSent

\* a step that writes no rows
LEMMA LookRuns ==
  ASSUME RunInv, OneAtATime, CryptoInv', NEW h \in Handlers, NEW q, req' = [req EXCEPT ![h] = q],
         UNCHANGED <<duel, players>>, SnapNow(q), PlanNow(q), SentNow(q)
  PROVE  RunInv'
<1>1. \A g \in Handlers : req'[g] = q
  BY OneRequest DEF RunInv
<1>2. SnapNow(q)' /\ PlanNow(q)' /\ SentNow(q)'
  BY SameReads
<1>3. \A g \in Handlers : SnapNow(req[g])' /\ PlanNow(req[g])' /\ SentNow(req[g])'
  BY <1>1, <1>2 DEF SnapNow, PlanNow, SentNow, Late, Resolving, Refunding, Rewarding, PayingBack
<1> QED
  BY <1>3, SameRows DEF RunInv

\* nothing is asked of a request that has ended
LEMMA IdleRuns == SnapNow(Idle) /\ PlanNow(Idle) /\ SentNow(Idle)
<1>1. Idle.pc = "idle" /\ Idle.job = "none" /\ Idle.due = {}
  BY DEF Idle
<1> QED
  BY <1>1 DEF SnapNow, PlanNow, SentNow, Resolving, Refunding, Rewarding, PayingBack

\* a request that has just arrived
LEMMA ArrivalRuns ==
  ASSUME RunInv, OneAtATime, CryptoInv', NEW h \in Handlers, NEW q, req' = [req EXCEPT ![h] = q],
         UNCHANGED <<duel, players>>, SnapNow(q), q.due = {},
         q.pc \in {"charge", "publish", "winners", "everybody", "cancelUpdate"},
         q.pc = "winners" => q.target = NoStatus,
         q.pc = "everybody" => q.target = Refund,
         q.pc = "cancelUpdate" => q.target \in Cancelled /\ (q.target = Refund => players = <<>>)
  PROVE  RunInv'
<1>1. PlanNow(q)
  BY DEF PlanNow, Resolving, Refunding, Rewarding, PayingBack
<1>2. SentNow(q)
  BY DEF SentNow, Refunding, Rewarding, PayingBack, Rows
<1> QED
  BY <1>1, <1>2, LookRuns

LEMMA CreateRuns ==
  ASSUME RunInv, OneAtATime, CryptoInv', NEW h \in Handlers, NEW u \in Creators,
         NEW s \in Schedules, NEW answer \in Answers, CreateNewCryptoDuel(h, u, s, answer)
  PROVE  RunInv'
<1>1. now \in Nat /\ u \in Users
  BY TypedFields, WalletsAssumption DEF RunInv
<1>2. PICK snap : snap = DuelByCreateReq(u, TRUE, s)
  OBVIOUS
<1>3. snap.playersCount = 0 /\ snap.status = InProcess /\ snap.refundedPlayersCount = 0
  BY <1>2 DEF DuelByCreateReq, NoDuel
<1>4. PICK q : q = [Idle EXCEPT !.pc = "charge", !.job = "create", !.user = u,
                              !.snap = snap, !.answer = answer, !.since = now]
  OBVIOUS
<1>5. q.pc = "charge" /\ q.job = "create" /\ q.snap = snap /\ q.due = {}
  BY <1>4 DEF Idle
<1>6. duel = NoDuel /\ duel.status = NoStatus
  BY DEF CreateNewCryptoDuel, FreshDuel, NoDuel
<1>7. players = <<>>
  BY <1>6 DEF RunInv, RowsNow
<1>8. SnapNow(q)
  BY <1>3, <1>5, <1>6, <1>7, AllStatuses DEF SnapNow
<1>9. req' = [req EXCEPT ![h] = q] /\ UNCHANGED <<duel, players>>
  BY <1>2, <1>4, Zenon DEF CreateNewCryptoDuel, Become, db
<1> QED
  BY <1>5, <1>8, <1>9, ArrivalRuns

LEMMA JoinRuns ==
  ASSUME RunInv, OneAtATime, CryptoInv', NEW h \in Handlers, NEW u \in Users,
         NEW answer \in Answers, JoinCryptoDuel(h, u, answer)
  PROVE  RunInv'
<1>1. PICK q : q = [Idle EXCEPT !.pc = "charge", !.job = "join", !.user = u,
                              !.snap = duel, !.answer = answer, !.since = now]
  OBVIOUS
<1>2. q.pc = "charge" /\ q.job = "join" /\ q.snap = duel /\ q.due = {}
  BY <1>1 DEF Idle
<1>3. duel.status \in {InProcess, InReview}
  BY DEF JoinCryptoDuel, IsAbleToJoinDuel
<1>4. SnapNow(q)
  BY <1>2, <1>3, AllStatuses DEF SnapNow
<1>5. req' = [req EXCEPT ![h] = q] /\ UNCHANGED <<duel, players>>
  BY <1>1, Zenon DEF JoinCryptoDuel, Become, db
<1> QED
  BY <1>2, <1>4, <1>5, ArrivalRuns

LEMMA ApproveRuns ==
  ASSUME RunInv, OneAtATime, CryptoInv', NEW h \in Handlers, ApproveCryptoDuel(h)
  PROVE  RunInv'
<1>1. PICK q, i : /\ q = [Idle EXCEPT !.pc = "charge", !.job = "approve", !.user = duel.owner,
                                  !.snap = duel, !.answer = players[i].answer,
                                  !.since = now]
                  /\ req' = [req EXCEPT ![h] = q]
  BY DEF ApproveCryptoDuel, Become
<1>2. q.pc = "charge" /\ q.job = "approve" /\ q.snap = duel /\ q.due = {}
  BY <1>1 DEF Idle
<1>3. duel.status = InReview /\ UNCHANGED <<duel, players>>
  BY DEF ApproveCryptoDuel, db
<1>4. SnapNow(q)
  BY <1>2, <1>3, AllStatuses DEF SnapNow
<1> QED
  BY <1>1, <1>2, <1>3, <1>4, ArrivalRuns

LEMMA ApproveDuelRuns ==
  ASSUME RunInv, OneAtATime, CryptoInv', NEW h \in Handlers, ApproveDuel(h)
  PROVE  RunInv'
<1>1. PICK q : q = [Idle EXCEPT !.pc = "publish", !.job = "approveDuel", !.snap = duel]
  OBVIOUS
<1>2. q.pc = "publish" /\ q.job = "approveDuel" /\ q.snap = duel /\ q.due = {}
  BY <1>1 DEF Idle
<1>3. req' = [req EXCEPT ![h] = q] /\ duel.status = InReview /\ UNCHANGED <<duel, players>>
  BY <1>1, Zenon DEF ApproveDuel, Become, db
<1>4. SnapNow(q)
  BY <1>2, <1>3, AllStatuses DEF SnapNow
<1> QED
  BY <1>2, <1>3, <1>4, ArrivalRuns

LEMMA ResolveRuns ==
  ASSUME RunInv, OneAtATime, CryptoInv', NEW h \in Handlers,
         \/ \E answer \in Answers : ResolveCryptoDuelByAdmin(h, answer)
         \/ ResolveCryptoOnEventDate(h)
         \/ ResolveCryptoBeforeEventDate(h)
  PROVE  RunInv'
<1>1. duel.status = InProcess
  BY DEF ResolveCryptoDuelByAdmin, ResolveCryptoOnEventDate, ResolveCryptoBeforeEventDate, Overdue
<1>2. PICK answer, cutoff : Resolve(h, answer, cutoff)
  BY DEF ResolveCryptoDuelByAdmin, ResolveCryptoOnEventDate, ResolveCryptoBeforeEventDate
<1>3. PICK q : q = [Idle EXCEPT !.pc = "winners", !.job = "resolve", !.snap = duel,
                              !.answer = answer, !.cutoff = cutoff]
  OBVIOUS
<1>4. q.pc = "winners" /\ q.job = "resolve" /\ q.snap = duel /\ q.due = {} /\ q.target = NoStatus
  BY <1>3 DEF Idle
<1>5. SnapNow(q)
  BY <1>1, <1>4, AllStatuses DEF SnapNow
<1>6. req' = [req EXCEPT ![h] = q] /\ UNCHANGED <<duel, players>>
  BY <1>2, <1>3, Zenon DEF Resolve, Become, db
<1> QED
  BY <1>4, <1>5, <1>6, ArrivalRuns

LEMMA CancellingRuns ==
  ASSUME RunInv, OneAtATime, CryptoInv', NEW h \in Handlers, NEW job \in {"cancel", "autoCancel"},
         NEW target,
         \/ target \in {AdminCancelled, AutoCancelled} /\ duel.status = InReview
         \/ target = Refund /\ duel.status = InProcess,
         Looks(h, Cancelling([Idle EXCEPT !.job = job, !.snap = duel], target))
  PROVE  RunInv'
<1>1. PICK pc : pc = IF HasChargedDuelPriceFromUser(duel.playersCount, duel.status, target)
                       THEN "everybody" ELSE "cancelUpdate"
  OBVIOUS
<1>2. PICK q : q = Cancelling([Idle EXCEPT !.job = job, !.snap = duel], target)
  OBVIOUS
<1>3. q = [Idle EXCEPT !.job = job, !.snap = duel, !.target = target, !.pc = pc]
  BY <1>1, <1>2 DEF Cancelling, Idle
<1>4. q.pc = pc /\ q.job = job /\ q.snap = duel /\ q.due = {} /\ q.target = target
  BY <1>3 DEF Idle
<1>5. /\ pc \in {"everybody", "cancelUpdate"}
      /\ pc = "everybody" => duel.status = InProcess /\ target = Refund
      /\ pc = "cancelUpdate" /\ target = Refund => duel.playersCount <= 0
  BY <1>1, AllStatuses, TypedFields DEF HasChargedDuelPriceFromUser, RunInv, DuelRow
<1>6. target = Refund /\ pc = "cancelUpdate" => players = <<>>
  <2>1. duel.playersCount = Len(players) /\ players \in Seq(PlayerRow) /\ Len(players) \in Nat
    BY TypedFields DEF RunInv, RowsNow
  <2>2. Len(players) = 0 => players = <<>>
    BY <2>1, EmptySeq
  <2> QED
    BY <1>5, <2>1, <2>2
<1>7. SnapNow(q)
  BY <1>4, <1>5, AllStatuses DEF SnapNow
<1>8. req' = [req EXCEPT ![h] = q] /\ UNCHANGED <<duel, players>>
  BY <1>2 DEF Looks, db
<1>9. target \in Cancelled
  BY AllStatuses
<1> QED
  BY <1>4, <1>5, <1>6, <1>7, <1>8, <1>9, ArrivalRuns

LEMMA CancelsRun ==
  ASSUME RunInv, OneAtATime, CryptoInv', NEW h \in Handlers,
         (\E target \in Statuses : CancelCryptoDuelByAdmin(h, target)) \/ AutoCancelDuels(h)
  PROVE  RunInv'
<1>1. CASE AutoCancelDuels(h)
  <2>1. Looks(h, Cancelling([Idle EXCEPT !.job = "autoCancel", !.snap = duel], AutoCancelled))
    BY <1>1, Zenon DEF AutoCancelDuels, Looks, Become
  <2>2. duel.status = InReview
    BY <1>1 DEF AutoCancelDuels
  <2> QED
    BY <2>1, <2>2, CancellingRuns
<1>2. ASSUME NEW target \in Statuses, CancelCryptoDuelByAdmin(h, target) PROVE RunInv'
  <2>1. Looks(h, Cancelling([Idle EXCEPT !.job = "cancel", !.snap = duel], target))
    BY <1>2, Zenon DEF CancelCryptoDuelByAdmin, Looks, Become
  <2>2. \/ target = AdminCancelled /\ duel.status = InReview
        \/ target = Refund /\ duel.status = InProcess
    BY <1>2 DEF CancelCryptoDuelByAdmin, ValidateDuelCancel
  <2> QED
    BY <2>1, <2>2, CancellingRuns
<1> QED
  BY <1>1, <1>2

-----------------------------------------------------------------------------
(* Steps that read, and transfers that mark no row *)

LEMMA ReadWinnersRuns ==
  ASSUME RunInv, OneAtATime, CryptoInv', NEW h \in Handlers, ReadWinners(h)
  PROVE  RunInv'
<1>1. PICK r \in Request : r = req[h] /\ r.pc = "winners"
  BY Mid DEF ReadWinners, RunInv
<1>2. PICK winners : winners = GetDuelWinners(r.answer, r.cutoff)
  OBVIOUS
<1>3. PICK q : q = [r EXCEPT !.pc = "refunds", !.winners = winners]
  OBVIOUS
<1>4. /\ q.pc = "refunds" /\ q.job = r.job /\ q.snap = r.snap /\ q.winners = winners
      /\ q.due = r.due /\ q.target = r.target /\ q.answer = r.answer /\ q.cutoff = r.cutoff
  BY <1>3 DEF Request
<1>5. req' = [req EXCEPT ![h] = q] /\ UNCHANGED <<duel, players>>
  BY <1>1, <1>2, <1>3, Zenon DEF ReadWinners, Become, db
<1>6. SnapNow(r) /\ PlanNow(r) /\ SentNow(r)
  BY <1>1 DEF RunInv
<1>7. SnapNow(q)
  BY <1>1, <1>4, <1>6 DEF SnapNow
<1>8. PlanNow(q)
  BY <1>1, <1>2, <1>4, <1>6 DEF PlanNow, Resolving, Refunding, Rewarding, PayingBack
<1>9. SentNow(q)
  BY <1>4 DEF SentNow, Refunding, Rewarding, PayingBack
<1> QED
  BY <1>5, <1>7, <1>8, <1>9, LookRuns

\* while a duel plays, a seat that is late and was not refunded is to be refunded
LEMMA NobodyLate ==
  ASSUME RunInv, NEW cutoff, duel.status = InProcess,
         Cardinality(GetDuelPlayersToRefund(cutoff)) <= 0
  PROVE  \A i \in Rows \ Refunded : ~(players[i].createdAt > cutoff)
<1>1. PICK late : late = GetDuelPlayersToRefund(cutoff)
  OBVIOUS
<1>2. IsFiniteSet(late) /\ Cardinality(late) \in Nat /\ Cardinality(late) <= 0
  BY <1>1, ReadsOfRows, RowsFinite DEF RunInv
<1>3. late = {}
  BY <1>2, FS_EmptySet
<1>4. \A i \in Rows : players[i].finalStatus \in {PlayerActive, PlayerRefunded}
  BY AllStatuses DEF RunInv, RowsNow
<1> QED
  BY <1>1, <1>3, <1>4 DEF GetDuelPlayersToRefund, Refunded

\* a settlement that gives up goes over to paying everybody back
LEMMA CancellingNow ==
  ASSUME RunInv, NEW h \in Handlers, NEW r \in Request, r = req[h], r.pc = "refunds",
         NEW q, q = Cancelling(r, Refund)
  PROVE  SnapNow(q) /\ PlanNow(q) /\ SentNow(q) /\ q.pc \in {"everybody", "cancelUpdate"}
         /\ (q.pc = "cancelUpdate" => players = <<>>)
<1>1. PICK pc : pc = IF HasChargedDuelPriceFromUser(r.snap.playersCount, r.snap.status, Refund)
                       THEN "everybody" ELSE "cancelUpdate"
  OBVIOUS
<1>2. q = [r EXCEPT !.target = Refund, !.pc = pc]
  BY <1>1 DEF Cancelling
<1>3. /\ q.pc = pc /\ q.job = r.job /\ q.snap = r.snap /\ q.due = r.due /\ q.target = Refund
  BY <1>2 DEF Request
<1>4. SnapNow(r) /\ PlanNow(r) /\ SentNow(r) /\ RequestFit(r)
  BY TypedFields DEF RunInv
<1>5. r.job # "create" /\ r.snap = duel /\ duel.status = InProcess /\ r.due = {}
  BY <1>4 DEF SnapNow, PlanNow, RequestFit
<1>6. pc \in {"everybody", "cancelUpdate"} /\ (pc = "cancelUpdate" => players = <<>>)
  <2>1. duel.playersCount = Len(players) /\ players \in Seq(PlayerRow) /\ Len(players) \in Nat
    BY TypedFields DEF RunInv, RowsNow
  <2>2. Len(players) = 0 => players = <<>>
    BY <2>1, EmptySeq
  <2> QED
    BY <1>1, <1>5, <2>1, <2>2 DEF HasChargedDuelPriceFromUser
<1>7. SnapNow(q)
  BY <1>3, <1>5, <1>6, AllStatuses DEF SnapNow
<1>8. PlanNow(q)
  BY <1>3, <1>5, <1>6, AllStatuses DEF PlanNow, Resolving, Refunding, Rewarding, PayingBack
<1>9. SentNow(q)
  BY <1>3, <1>6 DEF SentNow, Refunding, Rewarding, PayingBack, Rows
<1> QED
  BY <1>3, <1>6, <1>7, <1>8, <1>9

\* what a settlement does after counting who came too late
LEMMA RefundsRead ==
  ASSUME CryptoInv, NEW h \in Handlers, ReadRefunds(h)
  PROVE  \E q : /\ Looks(h, q)
                /\ \/ q = Cancelling(req[h], Refund)
                   \/ /\ req[h].winners # {}
                      /\ PlayersPool(req[h].snap.playersCount,
                                     Cardinality(GetDuelPlayersToRefund(req[h].cutoff)),
                                     CountModulus) \notin {0, Cardinality(req[h].winners)}
                      /\ q = [req[h] EXCEPT !.pc =
                                IF Cardinality(GetDuelPlayersToRefund(req[h].cutoff)) > 0
                                  THEN "late" ELSE "unpaid"]
<1> DEFINE late == Cardinality(GetDuelPlayersToRefund(req[h].cutoff))
           pool == PlayersPool(req[h].snap.playersCount, late, CountModulus)
           none == req[h].winners = {} \/ pool \in {0, Cardinality(req[h].winners)}
           pc   == IF late > 0 THEN "late" ELSE "unpaid"
<1>1. Looks(h, IF none THEN Cancelling(req[h], Refund) ELSE [req[h] EXCEPT !.pc = pc])
  BY Zenon DEF ReadRefunds, Looks, Become
<1>2. ~none => req[h].winners # {} /\ pool \notin {0, Cardinality(req[h].winners)}
  OBVIOUS
<1>3. CASE none
  BY <1>1, <1>3
<1>4. CASE ~none
  <2> HIDE DEF pool, pc, none
  <2>1. Looks(h, [req[h] EXCEPT !.pc = pc])
    BY <1>1, <1>4
  <2> QED
    BY <1>2, <1>4, <2>1, Zenon DEF pool, pc
<1> QED
  BY <1>3, <1>4

LEMMA ReadRefundsRuns ==
  ASSUME RunInv, OneAtATime, CryptoInv', NEW h \in Handlers, ReadRefunds(h)
  PROVE  RunInv'
<1>1. PICK r \in Request : r = req[h] /\ r.pc = "refunds"
  BY Mid DEF ReadRefunds, RunInv
<1>2. PICK q : /\ Looks(h, q)
               /\ \/ q = Cancelling(r, Refund)
                  \/ q = [r EXCEPT !.pc =
                                IF Cardinality(GetDuelPlayersToRefund(r.cutoff)) > 0
                                  THEN "late" ELSE "unpaid"]
  BY <1>1, RefundsRead, Zenon DEF RunInv
<1>3. req' = [req EXCEPT ![h] = q] /\ UNCHANGED <<duel, players>>
  BY <1>2 DEF Looks, db
<1>4. CASE q = Cancelling(r, Refund)
  <2>1. SnapNow(q) /\ PlanNow(q) /\ SentNow(q)
    BY <1>1, <1>4, CancellingNow
  <2> QED
    BY <1>3, <2>1, LookRuns
<1>5. CASE q = [r EXCEPT !.pc = IF Cardinality(GetDuelPlayersToRefund(r.cutoff)) > 0
                                  THEN "late" ELSE "unpaid"]
  <2>1. PICK late : late = Cardinality(GetDuelPlayersToRefund(r.cutoff))
    OBVIOUS
  <2>2. PICK pc : pc = (IF late > 0 THEN "late" ELSE "unpaid")
    OBVIOUS
  <2>3. q = [r EXCEPT !.pc = pc]
    BY <1>5, <2>1, <2>2, Zenon
  <2>4. late \in Nat /\ pc \in {"late", "unpaid"} /\ (pc = "unpaid" => late <= 0)
    BY <2>1, <2>2, ReadsOfRows, RowsFinite DEF RunInv
  <2>5. /\ q.pc = pc /\ q.job = r.job /\ q.snap = r.snap /\ q.winners = r.winners
        /\ q.due = r.due /\ q.target = r.target /\ q.answer = r.answer /\ q.cutoff = r.cutoff
    BY <2>3 DEF Request
  <2>6. SnapNow(r) /\ PlanNow(r) /\ SentNow(r)
    BY <1>1 DEF RunInv
  <2>7. duel.status = InProcess
    BY <1>1, <2>6 DEF SnapNow
  <2>8. SnapNow(q)
    BY <1>1, <2>4, <2>5, <2>6 DEF SnapNow
  <2>9. pc = "unpaid" => \A i \in Rows \ Refunded : ~(players[i].createdAt > r.cutoff)
    BY <2>1, <2>4, <2>7, NobodyLate
  <2>10. PlanNow(q)
    BY <1>1, <2>4, <2>5, <2>6, <2>9
       DEF PlanNow, Resolving, Refunding, Rewarding, PayingBack, Late
  <2>11. SentNow(q)
    BY <2>4, <2>5 DEF SentNow, Refunding, Rewarding, PayingBack
  <2> QED
    BY <1>3, <2>8, <2>10, <2>11, LookRuns
<1> QED
  BY <1>2, <1>4, <1>5

\* what is about to be paid, and by whom
LEMMA PayingFields ==
  ASSUME NEW r \in Request, NEW list, NEW amount, NEW next, NEW q, q = Paying(r, list, amount, next)
  PROVE  /\ q.pc = (IF list = {} THEN next ELSE "pay")
         /\ q.list = list /\ q.due = list /\ q.amount = amount /\ q.next = next
         /\ q.job = r.job /\ q.snap = r.snap /\ q.winners = r.winners /\ q.target = r.target
         /\ q.answer = r.answer /\ q.cutoff = r.cutoff /\ q.user = r.user
<1>1. PICK pc : pc = IF list = {} THEN next ELSE "pay"
  OBVIOUS
<1>2. q = [r EXCEPT !.list = list, !.amount = amount, !.next = next, !.pc = pc, !.due = list]
  BY <1>1 DEF Paying, ToPay, Request
<1> QED
  BY <1>1, <1>2 DEF Request

LEMMA ReadPlayersToRefundRuns ==
  ASSUME RunInv, OneAtATime, CryptoInv', NEW h \in Handlers, ReadPlayersToRefund(h)
  PROVE  RunInv'
<1>1. PICK r \in Request : r = req[h] /\ r.pc = "late"
  BY Mid DEF ReadPlayersToRefund, RunInv
<1>2. PICK list : list = GetDuelPlayersToRefund(r.cutoff)
  OBVIOUS
<1>3. PICK q : q = Paying(r, list, Stake, "recordRefund")
  OBVIOUS
<1>4. /\ q.pc = (IF list = {} THEN "recordRefund" ELSE "pay")
      /\ q.list = list /\ q.due = list /\ q.next = "recordRefund"
      /\ q.job = r.job /\ q.snap = r.snap /\ q.winners = r.winners /\ q.target = r.target
      /\ q.answer = r.answer /\ q.cutoff = r.cutoff
  BY <1>3, PayingFields
<1>5. req' = [req EXCEPT ![h] = q] /\ UNCHANGED <<duel, players>>
  BY <1>1, <1>2, <1>3, Zenon DEF ReadPlayersToRefund, Become, db
<1>6. SnapNow(r) /\ PlanNow(r) /\ SentNow(r)
  BY <1>1 DEF RunInv
<1>7. SnapNow(q)
  BY <1>1, <1>4, <1>6 DEF SnapNow
<1>8. list \subseteq Rows
  BY <1>2, ReadsOfRows
<1>9. PlanNow(q)
  BY <1>1, <1>2, <1>4, <1>6, <1>8 DEF PlanNow, Resolving, Refunding, Rewarding, PayingBack
<1>10. SentNow(q)
  BY <1>4 DEF SentNow, Refunding, Rewarding, PayingBack
<1> QED
  BY <1>5, <1>7, <1>9, <1>10, LookRuns

LEMMA ReadUnpaidWinnersRuns ==
  ASSUME RunInv, OneAtATime, CryptoInv', NEW h \in Handlers, ReadUnpaidWinners(h)
  PROVE  RunInv'
<1>1. PICK r \in Request : r = req[h] /\ r.pc = "unpaid"
  BY Mid DEF ReadUnpaidWinners, RunInv
<1>2. PICK list : list = GetCryptoDuelWinners(r.answer)
  OBVIOUS
<1>3. PICK amount : amount = FinalCryptoReward(PoolOf(r), Commission, Cardinality(r.winners))
  OBVIOUS
<1>4. PICK q : q = IF list = {} THEN Idle ELSE Paying(r, list, amount, "ownerReward")
  OBVIOUS
<1>5. req' = [req EXCEPT ![h] = q] /\ UNCHANGED <<duel, players>>
  BY <1>1, <1>2, <1>3, <1>4, Zenon DEF ReadUnpaidWinners, Become, db
<1>6. CASE list = {}
  <2>1. q = Idle
    BY <1>4, <1>6
  <2> QED
    BY <1>5, <2>1, IdleRuns, LookRuns
<1>7. CASE list # {}
  <2>1. q = Paying(r, list, amount, "ownerReward")
    BY <1>4, <1>7
  <2>2. /\ q.pc = "pay"
        /\ q.list = list /\ q.due = list /\ q.next = "ownerReward"
        /\ q.job = r.job /\ q.snap = r.snap /\ q.winners = r.winners /\ q.target = r.target
        /\ q.answer = r.answer /\ q.cutoff = r.cutoff
    BY <1>7, <2>1, PayingFields
  <2>3. SnapNow(r) /\ PlanNow(r) /\ SentNow(r)
    BY <1>1 DEF RunInv
  <2>4. SnapNow(q)
    BY <1>1, <2>2, <2>3 DEF SnapNow
  <2>5. list \subseteq Rows /\ list \cap Refunded = {}
    BY <1>2 DEF GetCryptoDuelWinners, Refunded, PlayerActive, PlayerRefunded
  <2>6. PlanNow(q)
    BY <1>1, <2>2, <2>3, <2>5 DEF PlanNow, Resolving, Refunding, Rewarding, PayingBack, Late
  <2>7. duel.status = InProcess
    BY <1>1, <2>3 DEF SnapNow
  <2>8. \A i \in Rows : /\ players[i].finalStatus \in {PlayerActive, PlayerRefunded}
                        /\ players[i].finalStatus # PlayerActive => players[i].sent > 0
    BY <2>7, AllStatuses DEF RunInv, RowsNow, RecordedAfterSent
  <2>9. r.winners = GetDuelWinners(r.answer, r.cutoff)
    BY <1>1, <2>3 DEF PlanNow, Resolving
  <2>10. \A i \in r.winners \ list : players[i].sent > 0
    BY <1>2, <2>8, <2>9 DEF GetDuelWinners, GetCryptoDuelWinners
  <2>11. SentNow(q)
    BY <2>2, <2>10 DEF SentNow, Refunding, Rewarding, PayingBack
  <2> QED
    BY <1>5, <2>4, <2>6, <2>11, LookRuns
<1> QED
  BY <1>6, <1>7

LEMMA ReadEverybodyRuns ==
  ASSUME RunInv, OneAtATime, CryptoInv', NEW h \in Handlers, ReadEverybody(h)
  PROVE  RunInv'
<1>1. PICK r \in Request : r = req[h] /\ r.pc = "everybody"
  BY Mid DEF ReadEverybody, RunInv
<1>2. PICK list : list = Rows
  OBVIOUS
<1>3. PICK q : q = Paying(r, list, Stake, "close")
  OBVIOUS
<1>4. /\ q.pc = (IF list = {} THEN "close" ELSE "pay")
      /\ q.list = list /\ q.due = list /\ q.next = "close"
      /\ q.job = r.job /\ q.snap = r.snap /\ q.target = r.target
  BY <1>3, PayingFields
<1>5. req' = [req EXCEPT ![h] = q] /\ UNCHANGED <<duel, players>>
  BY <1>1, <1>2, <1>3, Zenon DEF ReadEverybody, Become, db
<1>6. SnapNow(r) /\ PlanNow(r) /\ SentNow(r)
  BY <1>1 DEF RunInv
<1>7. SnapNow(q)
  BY <1>1, <1>4, <1>6 DEF SnapNow
<1>8. PlanNow(q)
  BY <1>1, <1>2, <1>4, <1>6, AllStatuses
     DEF PlanNow, Resolving, Refunding, Rewarding, PayingBack
<1>9. SentNow(q)
  BY <1>1, <1>2, <1>4, <1>6, AllStatuses DEF SentNow, PlanNow, Refunding, Rewarding, PayingBack
<1> QED
  BY <1>5, <1>7, <1>8, <1>9, LookRuns

LEMMA TransferRuns ==
  ASSUME RunInv, OneAtATime, CryptoInv', NEW h \in Handlers, PayOwner(h) \/ PayReferrer(h)
  PROVE  RunInv'
<1>1. PICK pc \in {"ownerReward", "referrerReward"}, next \in {"referrerReward", "close"} :
         \E to, amount : Transfer(h, to, amount, pc, next)
  BY DEF PayOwner, PayReferrer
<1>1a. PICK to, amount : Transfer(h, to, amount, pc, next)
  BY <1>1
<1>2. PICK r \in Request : r = req[h] /\ r.pc = pc
  BY <1>1a, Mid DEF Transfer, RunInv
<1>3. PICK on : on = [r EXCEPT !.pc = next]
  OBVIOUS
<1>4. PICK q \in {Idle, on} : req' = [req EXCEPT ![h] = q]
  BY <1>1a, <1>2, <1>3 DEF Transfer, Go, Become
<1>5. UNCHANGED <<duel, players>>
  BY <1>1a DEF Transfer, db
<1>6. /\ on.pc = next
      /\ on.job = r.job /\ on.snap = r.snap /\ on.winners = r.winners /\ on.target = r.target
      /\ on.answer = r.answer /\ on.cutoff = r.cutoff /\ on.due = r.due
  BY <1>3 DEF Request
<1>7. SnapNow(r) /\ PlanNow(r) /\ SentNow(r)
  BY <1>2 DEF RunInv
<1>8. SnapNow(on)
  BY <1>2, <1>6, <1>7 DEF SnapNow
<1>9. PlanNow(on)
  BY <1>2, <1>6, <1>7 DEF PlanNow, Resolving, Refunding, Rewarding, PayingBack, Late
<1>10. SentNow(on)
  BY <1>2, <1>6, <1>7 DEF PlanNow, SentNow, Resolving, Refunding, Rewarding, PayingBack
<1> QED
  BY <1>4, <1>5, <1>8, <1>9, <1>10, IdleRuns, LookRuns

LEMMA CloseRuns ==
  ASSUME RunInv, OneAtATime, CryptoInv', NEW h \in Handlers, CloseResolved(h) \/ CloseCancelled(h)
  PROVE  RunInv'
<1>1. PICK next \in {"settle", "cancelUpdate"} :
         /\ Close(h, next)
         /\ next = "settle" <=> req[h].target = NoStatus
  BY DEF CloseResolved, CloseCancelled
<1>2. PICK r \in Request : r = req[h] /\ r.pc = "close"
  BY <1>1, Mid DEF Close, RunInv
<1>3. PICK q : q = [r EXCEPT !.pc = next]
  OBVIOUS
<1>4. req' = [req EXCEPT ![h] = q] /\ UNCHANGED <<duel, players>>
  BY <1>1, <1>2, <1>3 DEF Close, Go, Become, db
<1>5. /\ q.pc = next
      /\ q.job = r.job /\ q.snap = r.snap /\ q.winners = r.winners /\ q.target = r.target
      /\ q.answer = r.answer /\ q.cutoff = r.cutoff /\ q.due = r.due
  BY <1>3 DEF Request
<1>6. SnapNow(r) /\ PlanNow(r) /\ SentNow(r)
  BY <1>2 DEF RunInv
<1>7. r.target = Refund <=> next = "cancelUpdate"
  BY <1>1, <1>2, <1>6, AllStatuses DEF PlanNow, PayingBack
<1>8. SnapNow(q)
  BY <1>2, <1>5, <1>6, <1>7 DEF SnapNow
<1>9. PlanNow(q)
  BY <1>1, <1>2, <1>5, <1>6, <1>7, AllStatuses
     DEF PlanNow, Resolving, Refunding, Rewarding, PayingBack, Late
<1>10. SentNow(q)
  BY <1>1, <1>2, <1>5, <1>6, <1>7, AllStatuses
     DEF PlanNow, SentNow, Resolving, Refunding, Rewarding, PayingBack
<1> QED
  BY <1>4, <1>8, <1>9, <1>10, LookRuns

LEMMA ChargeRuns ==
  ASSUME RunInv, OneAtATime, CryptoInv', NEW h \in Handlers, Charge(h)
  PROVE  RunInv'
<1>1. PICK r \in Request : r = req[h] /\ r.pc = "charge"
  BY Mid DEF Charge, RunInv
<1>2. PICK on : on = [r EXCEPT !.pc = "record"]
  OBVIOUS
<1>3. PICK q \in {Idle, on} : req' = [req EXCEPT ![h] = q]
  BY <1>1, <1>2 DEF Charge, Go, Become
<1>4. UNCHANGED <<duel, players>>
  BY DEF Charge, db
<1>5. on.pc = "record" /\ on.job = r.job /\ on.snap = r.snap /\ on.due = r.due
  BY <1>2 DEF Request
<1>6. SnapNow(r) /\ PlanNow(r) /\ SentNow(r)
  BY <1>1 DEF RunInv
<1>7. SnapNow(on)
  BY <1>1, <1>5, <1>6 DEF SnapNow
<1>8. PlanNow(on)
  BY <1>1, <1>5, <1>6 DEF PlanNow, Resolving, Refunding, Rewarding, PayingBack
<1>9. SentNow(on)
  BY <1>5 DEF SentNow, Refunding, Rewarding, PayingBack
<1> QED
  BY <1>3, <1>4, <1>7, <1>8, <1>9, IdleRuns, LookRuns

LEMMA AbortRuns ==
  ASSUME RunInv, OneAtATime, CryptoInv', NEW h \in Handlers, Abort(h)
  PROVE  RunInv'
BY IdleRuns, LookRuns DEF Abort, Become, db

LEMMA ClockRuns ==
  ASSUME RunInv, CryptoInv', Tick \/ UNCHANGED vars
  PROVE  RunInv'
<1>1. UNCHANGED <<duel, players, req>>
  BY DEF Tick, vars, db
<1>2. RowsNow'
  BY <1>1, SameRows DEF RunInv
<1>3. \A g \in Handlers : SnapNow(req[g])' /\ PlanNow(req[g])' /\ SentNow(req[g])'
  <2> SUFFICES ASSUME NEW g \in Handlers
               PROVE  SnapNow(req[g])' /\ PlanNow(req[g])' /\ SentNow(req[g])'
    OBVIOUS
  <2>1. PICK q : q = req[g] /\ q = req'[g]
    BY <1>1
  <2>2. SnapNow(q)' /\ PlanNow(q)' /\ SentNow(q)'
    BY <1>1, <2>1, SameReads DEF RunInv
  <2> QED
    BY <2>1, <2>2 DEF SnapNow, PlanNow, SentNow, Late, Resolving, Refunding, Rewarding, PayingBack
<1> QED
  BY <1>2, <1>3 DEF RunInv

-----------------------------------------------------------------------------
(* Steps that write *)

\* what a step leaves of the rows: who sits where, what was answered and when
SameSeats ==
    /\ Rows' = Rows
    /\ \A i \in Rows : /\ players'[i].user = players[i].user
                       /\ players'[i].answer = players[i].answer
                       /\ players'[i].createdAt = players[i].createdAt

\* marking seats changes their status
LEMMA SetStatusRows ==
  ASSUME players \in Seq(PlayerRow), NEW which, NEW status, players' = SetStatus(players, which, status)
  PROVE  /\ SameSeats
         /\ \A i \in Rows : /\ players'[i].finalStatus
                                 = (IF i \in which THEN status ELSE players[i].finalStatus)
                            /\ players'[i].sent = players[i].sent
                            /\ players'[i].winAmount = players[i].winAmount
<1>1. \A i \in DOMAIN players : players[i] \in PlayerRow
  BY LenProperties
<1>2. DOMAIN players' = DOMAIN players
  BY DEF SetStatus
<1>3. \A i \in DOMAIN players :
         players'[i] = IF i \in which THEN [players[i] EXCEPT !.finalStatus = status] ELSE players[i]
  BY DEF SetStatus
<1> QED
  BY <1>1, <1>2, <1>3 DEF PlayerRow, SameSeats, Rows

\* marking winners changes their status and what they won
LEMMA WinnersRows ==
  ASSUME players \in Seq(PlayerRow), NEW winners, NEW amount,
         players' = UpdateDuelWinners(players, winners, amount)
  PROVE  /\ SameSeats
         /\ \A i \in Rows : /\ players'[i].finalStatus
                                 = (IF i \in winners THEN PlayerResolved ELSE players[i].finalStatus)
                            /\ players'[i].sent = players[i].sent
                            /\ players'[i].winAmount
                                 = (IF i \in winners THEN amount ELSE players[i].winAmount)
<1>1. \A i \in DOMAIN players : players[i] \in PlayerRow
  BY LenProperties
<1>2. DOMAIN players' = DOMAIN players
  BY DEF UpdateDuelWinners
<1>3. \A i \in DOMAIN players :
         players'[i] = IF i \in winners
                         THEN [players[i] EXCEPT !.finalStatus = PlayerResolved, !.winAmount = amount]
                         ELSE players[i]
  BY DEF UpdateDuelWinners
<1> QED
  BY <1>1, <1>2, <1>3 DEF PlayerRow, SameSeats, Rows

\* the same seats, read again
LEMMA SeatsRead ==
  ASSUME SameSeats, NEW answer, NEW cutoff
  PROVE  /\ GetDuelWinners(answer, cutoff)' = GetDuelWinners(answer, cutoff)
         /\ (\A i \in Rows : players'[i].finalStatus = players[i].finalStatus)
              => /\ Refunded' = Refunded
                 /\ GetDuelPlayersToRefund(cutoff)' = GetDuelPlayersToRefund(cutoff)
BY DEF SameSeats, GetDuelWinners, Refunded, GetDuelPlayersToRefund

\* what a transaction with the transfers to chunk does when o becomes of it
Transferred(h, r, o, chunk) ==
    /\ chunk = FirstRows(r.due, TransfersPerTransaction)
    /\ IsFiniteSet(chunk) /\ Cardinality(chunk) \in Nat
    /\ Attempt(o, Untracked, usdc[Admin] >= r.amount * Cardinality(chunk))
    /\ usdc' = IF o.landed
                 THEN [w \in DOMAIN usdc |->
                         IF w = Admin THEN usdc[w] - r.amount * Cardinality(chunk)
                         ELSE usdc[w] + Owed(chunk, w, r.amount)]
                 ELSE usdc
    /\ SameSeats
    /\ \A i \in Rows : /\ players'[i].finalStatus = players[i].finalStatus
                       /\ players'[i].winAmount = players[i].winAmount
                       /\ players'[i].sent = players[i].sent
                                              + (IF i \in chunk /\ o # Nothing THEN 1 ELSE 0)
    /\ UNCHANGED <<now, duel, room>>
    /\ o.told => o # Nothing /\ req' = [req EXCEPT ![h] = ToPay(r, r.due \ chunk)]
    /\ ~o.told => req' = [req EXCEPT ![h] = Idle]

LEMMA PayStep ==
  ASSUME CryptoInv, NEW h \in Handlers, Pay(h), NEW r \in Request, r = req[h]
  PROVE  r.pc = "pay" /\ \E o \in Outcomes : \E chunk \in SUBSET r.due : Transferred(h, r, o, chunk)
<1>1. PICK chunk : chunk = FirstRows(r.due, TransfersPerTransaction)
  OBVIOUS
<1>2. r.due \in SUBSET Nat /\ IsFiniteSet(r.due) /\ TransfersPerTransaction \in Nat \ {0}
  BY TypedFields, BatchAssumption DEF Request, RequestFit
<1>3. chunk \in SUBSET r.due /\ IsFiniteSet(chunk) /\ Cardinality(chunk) \in Nat
  BY <1>1, <1>2, Chunk
<1>4. PICK o \in Outcomes :
         /\ Attempt(o, Untracked, usdc[Admin] >= r.amount * Cardinality(chunk))
         /\ usdc' = IF o.landed
                      THEN [w \in DOMAIN usdc |->
                              IF w = Admin THEN usdc[w] - r.amount * Cardinality(chunk)
                              ELSE usdc[w] + Owed(chunk, w, r.amount)]
                      ELSE usdc
         /\ players' = [i \in Rows |->
                           IF i \in chunk /\ o # Nothing
                             THEN [players[i] EXCEPT !.sent = @ + 1] ELSE players[i]]
         /\ req' = [req EXCEPT ![h] = IF o.told THEN ToPay(r, r.due \ chunk) ELSE Idle]
  BY <1>1, Zenon DEF Pay, Become
<1>5. UNCHANGED <<now, duel, room>> /\ r.pc = "pay"
  BY DEF Pay
<1>6. \A i \in Rows : players[i] \in PlayerRow
  BY TypedFields, LenProperties DEF Rows
<1>7. /\ SameSeats
      /\ \A i \in Rows : /\ players'[i].finalStatus = players[i].finalStatus
                         /\ players'[i].winAmount = players[i].winAmount
                         /\ players'[i].sent = players[i].sent
                              + (IF i \in chunk /\ o # Nothing THEN 1 ELSE 0)
  <2>1. Rows' = Rows
    BY <1>4 DEF Rows
  <2>2. \A i \in Rows : players'[i] = IF i \in chunk /\ o # Nothing
                                        THEN [players[i] EXCEPT !.sent = @ + 1] ELSE players[i]
    BY <1>4
  <2>3. ASSUME NEW i \in Rows
        PROVE  /\ players'[i].user = players[i].user
               /\ players'[i].answer = players[i].answer
               /\ players'[i].createdAt = players[i].createdAt
               /\ players'[i].finalStatus = players[i].finalStatus
               /\ players'[i].winAmount = players[i].winAmount
               /\ players'[i].sent = players[i].sent
                                      + (IF i \in chunk /\ o # Nothing THEN 1 ELSE 0)
    <3>1. PICK row \in PlayerRow : row = players[i] /\ row.sent \in Nat
      BY <1>6 DEF PlayerRow
    <3>2. CASE i \in chunk /\ o # Nothing
      <4>1. players'[i] = [row EXCEPT !.sent = @ + 1]
        BY <2>2, <3>1, <3>2
      <4> QED
        BY <3>1, <3>2, <4>1 DEF PlayerRow
    <3>3. CASE ~(i \in chunk /\ o # Nothing)
      <4>1. players'[i] = players[i]
        BY <2>2, <3>3, Zenon
      <4>2. (IF i \in chunk /\ o # Nothing THEN 1 ELSE 0) = 0
        BY <3>3, Zenon
      <4> QED
        BY <3>1, <4>1, <4>2
    <3> QED
      BY <3>2, <3>3
  <2> QED
    BY <2>1, <2>3, Zenon DEF SameSeats
<1>8. o.told => o # Nothing
  BY DEF Nothing
<1>9. /\ o.told => req' = [req EXCEPT ![h] = ToPay(r, r.due \ chunk)]
      /\ ~o.told => req' = [req EXCEPT ![h] = Idle]
  BY <1>4
<1> QED
  BY <1>1, <1>3, <1>4, <1>5, <1>7, <1>8, <1>9, Zenon DEF Transferred

\* what is left to pay
LEMMA ToPayFields ==
  ASSUME NEW r \in Request, NEW due, NEW q, q = ToPay(r, due)
  PROVE  /\ q.pc = (IF due = {} THEN r.next ELSE "pay") /\ q.due = due
         /\ q.list = r.list /\ q.amount = r.amount /\ q.next = r.next
         /\ q.job = r.job /\ q.snap = r.snap /\ q.winners = r.winners /\ q.target = r.target
         /\ q.answer = r.answer /\ q.cutoff = r.cutoff /\ q.user = r.user
<1>1. PICK pc : pc = IF due = {} THEN r.next ELSE "pay"
  OBVIOUS
<1>2. q = [r EXCEPT !.pc = pc, !.due = due]
  BY <1>1 DEF ToPay
<1> QED
  BY <1>1, <1>2 DEF Request

\* a step that writes rows
LEMMA WriteRuns ==
  ASSUME RunInv, OneAtATime, CryptoInv', NEW h \in Handlers, NEW q, req' = [req EXCEPT ![h] = q],
         RowsNow', SnapNow(q)', PlanNow(q)', SentNow(q)'
  PROVE  RunInv'
<1>1. \A g \in Handlers : req'[g] = q
  BY OneRequest DEF RunInv
<1>2. \A g \in Handlers : SnapNow(req[g])' /\ PlanNow(req[g])' /\ SentNow(req[g])'
  BY <1>1 DEF SnapNow, PlanNow, SentNow, Late, Resolving, Refunding, Rewarding, PayingBack
<1> QED
  BY <1>2 DEF RunInv

\* nothing is asked of a request that has ended, before or after a step
LEMMA IdleRunsOn == SnapNow(Idle)' /\ PlanNow(Idle)' /\ SentNow(Idle)'
<1>1. Idle.pc = "idle" /\ Idle.job = "none" /\ Idle.due = {}
  BY DEF Idle
<1> QED
  BY <1>1 DEF SnapNow, PlanNow, SentNow, Resolving, Refunding, Rewarding, PayingBack

\* the numbers behind a set of rows
LEMMA CountRows ==
  ASSUME CryptoInv, NEW T \in SUBSET Rows
  PROVE  IsFiniteSet(T) /\ Cardinality(T) \in Nat /\ (Cardinality(T) = 0 <=> T = {})
BY RowsFinite, FS_EmptySet

LEMMA PayRuns ==
  ASSUME RunInv, OneAtATime, CryptoInv', NEW h \in Handlers, Pay(h)
  PROVE  RunInv'
<1>1. PICK r \in Request : r = req[h] /\ r.pc = "pay"
  BY Mid DEF Pay, RunInv
<1>2. PICK o \in Outcomes, chunk \in SUBSET r.due : Transferred(h, r, o, chunk)
  BY <1>1, PayStep DEF RunInv
<1>3. \A i \in Rows : players[i].sent \in Nat
  <2>1. \A i \in Rows : players[i] \in PlayerRow
    BY TypedFields, LenProperties DEF RunInv, Rows
  <2> QED
    BY <2>1 DEF PlayerRow
<1>4. \A i \in Rows : /\ players[i].sent > 0 => players'[i].sent > 0
                      /\ o.told /\ i \in chunk => players'[i].sent > 0
  BY <1>2, <1>3 DEF Transferred
<1>5. /\ Rows' = Rows /\ Refunded' = Refunded
      /\ \A answer, cutoff :
            /\ GetDuelWinners(answer, cutoff)' = GetDuelWinners(answer, cutoff)
            /\ GetDuelPlayersToRefund(cutoff)' = GetDuelPlayersToRefund(cutoff)
  BY <1>2, SeatsRead DEF SameSeats, Transferred
<1>6. SnapNow(r) /\ PlanNow(r) /\ SentNow(r) /\ RequestFit(r)
  BY <1>1, TypedFields DEF RunInv
<1>7. duel.status = InProcess /\ r.job # "create" /\ duel' = duel
  BY <1>1, <1>2, <1>6 DEF SnapNow, RequestFit, Transferred
<1>8. Len(players') = Len(players)
  <2>1. players \in Seq(PlayerRow) /\ players' \in Seq(PlayerRow)
    BY TypedFields DEF RunInv, CryptoInv, TypeOK
  <2>2. DOMAIN players = 1..Len(players) /\ DOMAIN players' = 1..Len(players')
        /\ Len(players) \in Nat /\ Len(players') \in Nat
    BY <2>1, LenProperties
  <2> QED
    BY <1>5, <2>2 DEF Rows
<1>9. RowsNow'
  <2>1. Cardinality(Refunded)' = Cardinality(Refunded)
    BY <1>5, Zenon
  <2> QED
    BY <1>2, <1>4, <1>5, <1>7, <1>8, <2>1, AllStatuses DEF RunInv, RowsNow, RecordedAfterSent, Transferred
<1>10. CASE ~o.told
  BY <1>2, <1>9, <1>10, IdleRunsOn, WriteRuns DEF Transferred
<1>11. CASE o.told
  <2>1. PICK left : left = r.due \ chunk
    OBVIOUS
  <2>2. PICK q : q = ToPay(r, left)
    OBVIOUS
  <2>3. /\ q.pc = (IF left = {} THEN r.next ELSE "pay") /\ q.due = left
        /\ q.list = r.list /\ q.next = r.next
        /\ q.job = r.job /\ q.snap = r.snap /\ q.winners = r.winners /\ q.target = r.target
        /\ q.answer = r.answer /\ q.cutoff = r.cutoff
    BY <2>2, ToPayFields
  <2>4. req' = [req EXCEPT ![h] = q]
    BY <1>2, <1>11, <2>1, <2>2, Zenon DEF Transferred
  <2>5. r.next \in {"idle", "recordRefund", "ownerReward", "close"}
    BY DEF Request
  <2>6. SnapNow(q)'
    BY <1>1, <1>6, <1>7, <2>3, <2>5 DEF SnapNow
  <2>7. PlanNow(q)'
    <3>1. \A i \in Rows' \ Refunded' : Late(q, i)' = Late(r, i)
      BY <1>2, <1>5, <2>3 DEF Late, SameSeats, Transferred
    <3> QED
      BY <1>1, <1>5, <1>6, <2>1, <2>3, <2>5, <3>1, AllStatuses
         DEF PlanNow, Resolving, Refunding, Rewarding, PayingBack
  <2>8. SentNow(q)'
    <3>1. /\ Refunding(q) => Refunding(r)
          /\ Rewarding(q) => Rewarding(r) /\ Resolving(r) /\ r.pc # "winners"
          /\ PayingBack(q) => PayingBack(r)
      BY <1>1, <1>6, <2>3, <2>5, AllStatuses
         DEF PlanNow, Resolving, Refunding, Rewarding, PayingBack
    <3>2. /\ Refunding(q) => q.list \subseteq Rows /\ \A i \in q.list \ r.due : players[i].sent > 0
          /\ Rewarding(q) => q.winners \subseteq Rows /\ \A i \in q.winners \ r.due : players[i].sent > 0
          /\ PayingBack(q) => \A i \in Rows \ r.due : players[i].sent > 0
      BY <1>6, <2>3, <3>1, ReadsOfRows DEF PlanNow, SentNow
    <3>3. \A i \in Rows : i \notin left /\ (i \notin r.due => players[i].sent > 0) => players'[i].sent > 0
      BY <1>4, <1>11, <2>1
    <3> QED
      BY <1>5, <2>3, <3>2, <3>3 DEF SentNow, Refunding, Rewarding, PayingBack
  <2> QED
    BY <1>9, <2>4, <2>6, <2>7, <2>8, WriteRuns
<1> QED
  BY <1>10, <1>11

\* as many rows as before
LEMMA SameLength ==
  ASSUME CryptoInv, CryptoInv', Rows' = Rows
  PROVE  Len(players') = Len(players)
<1>1. players \in Seq(PlayerRow) /\ players' \in Seq(PlayerRow)
  BY TypedFields DEF CryptoInv, TypeOK
<1>2. DOMAIN players = 1..Len(players) /\ DOMAIN players' = 1..Len(players')
      /\ Len(players) \in Nat /\ Len(players') \in Nat
  BY <1>1, LenProperties
<1> QED
  BY <1>2 DEF Rows

LEMMA RecordRefundRuns ==
  ASSUME RunInv, OneAtATime, CryptoInv', NEW h \in Handlers, RecordRefund(h)
  PROVE  RunInv'
<1>1. PICK r \in Request : r = req[h] /\ r.pc = "recordRefund"
  BY Mid DEF RecordRefund, RunInv
<1>2. SnapNow(r) /\ PlanNow(r) /\ SentNow(r) /\ RequestFit(r)
  BY <1>1, TypedFields DEF RunInv
<1>3. /\ r.job # "create" /\ r.snap = duel /\ duel.status = InProcess /\ r.due = {}
      /\ r.target = NoStatus /\ r.winners = GetDuelWinners(r.answer, r.cutoff)
      /\ r.list = GetDuelPlayersToRefund(r.cutoff)
      /\ \A i \in r.list : players[i].sent > 0
  BY <1>1, <1>2 DEF SnapNow, PlanNow, SentNow, RequestFit, Resolving, Refunding
<1>4. duel \in DuelRow /\ players \in Seq(PlayerRow)
  BY TypedFields DEF RunInv
<1>5. PICK n \in Nat : n = Cardinality(r.list)
  BY <1>2, FS_CardinalityType DEF RequestFit
<1>6. PICK model : model = [duel EXCEPT !.refundedPlayersCount = @ + n]
  OBVIOUS
<1>7. model \in DuelRow
  BY <1>4, <1>6 DEF DuelRow
<1>8. /\ model.status = duel.status /\ model.playersCount = duel.playersCount
      /\ model.refundedPlayersCount = duel.refundedPlayersCount + n
  BY <1>4, <1>6 DEF DuelRow
<1>9. PICK q : q = [r EXCEPT !.pc = "unpaid", !.snap = model]
  OBVIOUS
<1>10. /\ req' = [req EXCEPT ![h] = q]
       /\ duel' = Update(duel, model)
       /\ players' = SetStatus(players, r.list, PlayerRefunded)
  BY <1>1, <1>3, <1>5, <1>6, <1>9, Zenon DEF RecordRefund, Become
<1>11. /\ q.pc = "unpaid" /\ q.job = r.job /\ q.snap = model /\ q.winners = r.winners
       /\ q.due = r.due /\ q.target = r.target /\ q.answer = r.answer /\ q.cutoff = r.cutoff
  BY <1>9 DEF Request
<1>12. /\ SameSeats
       /\ \A i \in Rows : /\ players'[i].finalStatus
                               = (IF i \in r.list THEN PlayerRefunded ELSE players[i].finalStatus)
                          /\ players'[i].sent = players[i].sent
  BY <1>4, <1>10, SetStatusRows
<1>13. /\ Rows' = Rows /\ r.list \subseteq Rows
       /\ GetDuelWinners(r.answer, r.cutoff)' = GetDuelWinners(r.answer, r.cutoff)
  BY <1>3, <1>12, SeatsRead, ReadsOfRows DEF SameSeats
<1>14. Refunded' = Refunded \cup r.list
  BY <1>12, <1>13 DEF Refunded
<1>15. duel' = model
  <2>1. /\ model.status = duel.status /\ model.playersCount = duel.playersCount
        /\ model.winnersCount = duel.winnersCount /\ model.finalResult = duel.finalResult
        /\ model.deadline = duel.deadline /\ model.eventDate = duel.eventDate
    BY <1>4, <1>6 DEF DuelRow
  <2>2. NonZero(model.refundedPlayersCount, duel.refundedPlayersCount) = model.refundedPlayersCount
    BY <1>4, <1>5, <1>8 DEF NonZero, DuelRow
  <2>3. /\ NonZero(model.status, duel.status) = duel.status
        /\ NonZero(model.playersCount, duel.playersCount) = duel.playersCount
        /\ NonZero(model.winnersCount, duel.winnersCount) = duel.winnersCount
        /\ NonZero(model.deadline, duel.deadline) = duel.deadline
        /\ NonZero(model.eventDate, duel.eventDate) = duel.eventDate
        /\ (IF model.finalResult # NoResult THEN model.finalResult ELSE duel.finalResult)
             = duel.finalResult
    BY <2>1 DEF NonZero
  <2> QED
    BY <1>4, <1>6, <1>8, <1>10, <2>2, <2>3 DEF Update, DuelRow
<1>16. model.refundedPlayersCount = Cardinality(Refunded')
  <2>1. duel.refundedPlayersCount = Cardinality(Refunded)
    BY <1>3, AllStatuses DEF RunInv, RowsNow
  <2>2. Refunded \cap r.list = {}
    BY <1>3 DEF Refunded, GetDuelPlayersToRefund, PlayerActive, PlayerRefunded
  <2>3. Refunded \in SUBSET Rows /\ IsFiniteSet(Refunded) /\ IsFiniteSet(r.list)
    BY <1>13, CountRows DEF Refunded, RunInv
  <2>4. Cardinality(Refunded \cup r.list) = Cardinality(Refunded) + Cardinality(r.list)
    BY <2>2, <2>3, DisjointUnion
  <2>5. Cardinality(Refunded') = Cardinality(Refunded) + n
    BY <1>5, <1>14, <2>4, Zenon
  <2> QED
    BY <1>8, <2>1, <2>5
<1>17. /\ \A i \in Rows : players[i].finalStatus \in {PlayerActive, PlayerRefunded}
       /\ \A i \in Rows : players[i].finalStatus # PlayerActive => players[i].sent > 0
       /\ duel.playersCount = Len(players) /\ duel.status # NoStatus
  BY <1>3, AllStatuses DEF RunInv, RowsNow, RecordedAfterSent
<1>18. Len(players') = Len(players)
  BY <1>13, SameLength DEF RunInv
<1>19. RowsNow'
  BY <1>3, <1>8, <1>12, <1>13, <1>15, <1>16, <1>17, <1>18 DEF RowsNow, RecordedAfterSent
<1>20. SnapNow(q)'
  BY <1>3, <1>8, <1>11, <1>15 DEF SnapNow
<1>21. PlanNow(q)'
  <2>1. \A i \in Rows \ Refunded' : ~Late(q, i)'
    BY <1>3, <1>11, <1>12, <1>14, <1>17 DEF Late, SameSeats, GetDuelPlayersToRefund, Refunded
  <2> QED
    BY <1>3, <1>11, <1>13, <2>1 DEF PlanNow, Resolving, Refunding, Rewarding, PayingBack
<1>22. SentNow(q)'
  BY <1>11 DEF SentNow, Refunding, Rewarding, PayingBack
<1> QED
  BY <1>10, <1>19, <1>20, <1>21, <1>22, WriteRuns

LEMMA SettleRuns ==
  ASSUME RunInv, OneAtATime, CryptoInv', NEW h \in Handlers, Settle(h)
  PROVE  RunInv'
<1>1. PICK r \in Request : r = req[h] /\ r.pc = "settle"
  BY Mid DEF Settle, RunInv
<1>2. SnapNow(r) /\ PlanNow(r) /\ SentNow(r) /\ RequestFit(r)
  BY <1>1, TypedFields DEF RunInv
<1>3. /\ r.job # "create" /\ r.snap = duel /\ duel.status = InProcess /\ r.due = {}
      /\ \A i \in r.winners : players[i].sent > 0
  BY <1>1, <1>2 DEF SnapNow, PlanNow, SentNow, RequestFit, Rewarding
<1>4. duel \in DuelRow /\ players \in Seq(PlayerRow) /\ r.answer \in Answers
  BY TypedFields DEF RunInv, Request
<1>5. PICK n \in Nat : n = Cardinality(r.winners)
  BY <1>2, FS_CardinalityType DEF RequestFit
<1>6. PICK model : model = [duel EXCEPT !.status = Resolved, !.finalResult = r.answer, !.winnersCount = n]
  OBVIOUS
<1>7. model \in DuelRow /\ model.status = Resolved /\ model.playersCount = duel.playersCount
  <2>1. Resolved \in Statuses
    BY DEF Statuses, NoStatus, Resolved, Refund
  <2> QED
    BY <1>4, <1>6, <2>1 DEF DuelRow
<1>8. /\ req' = [req EXCEPT ![h] = Idle]
      /\ duel' = Update(duel, model)
      /\ players' = UpdateDuelWinners(players, r.winners, r.amount)
  BY <1>1, <1>3, <1>5, <1>6, Zenon DEF Settle, Become
<1>9. /\ SameSeats
      /\ \A i \in Rows : /\ players'[i].finalStatus
                              = (IF i \in r.winners THEN PlayerResolved ELSE players[i].finalStatus)
                         /\ players'[i].sent = players[i].sent
  BY <1>4, <1>8, WinnersRows
<1>10. duel'.status = Resolved /\ duel'.playersCount = duel.playersCount
  BY <1>4, <1>7, <1>8, UpdateType, AllStatuses DEF NonZero
<1>11. /\ \A i \in Rows : players[i].finalStatus # PlayerActive => players[i].sent > 0
       /\ duel.playersCount = Len(players)
  BY <1>3, AllStatuses DEF RunInv, RowsNow, RecordedAfterSent
<1>12. Len(players') = Len(players) /\ Rows' = Rows
  BY <1>9, SameLength DEF RunInv, SameSeats
<1>13. RowsNow'
  BY <1>3, <1>9, <1>10, <1>11, <1>12, AllStatuses DEF RowsNow, RecordedAfterSent
<1> QED
  BY <1>8, <1>13, IdleRunsOn, WriteRuns

LEMMA CancelUpdateRuns ==
  ASSUME RunInv, OneAtATime, CryptoInv', NEW h \in Handlers, CancelUpdate(h)
  PROVE  RunInv'
<1>1. PICK r \in Request : r = req[h] /\ r.pc = "cancelUpdate"
  BY Mid DEF CancelUpdate, RunInv
<1>2. SnapNow(r) /\ PlanNow(r) /\ SentNow(r) /\ RequestFit(r)
  BY <1>1, TypedFields DEF RunInv
<1>3. /\ r.job # "create" /\ r.snap = duel /\ r.due = {} /\ r.target \in Cancelled
      /\ duel.status \in {InProcess, InReview}
      /\ r.target = Refund => \A i \in Rows : players[i].sent > 0
      /\ r.target # Refund => duel.status = InReview
  BY <1>1, <1>2 DEF SnapNow, PlanNow, SentNow, RequestFit, PayingBack
<1>4. duel \in DuelRow /\ players \in Seq(PlayerRow)
  BY TypedFields DEF RunInv
<1>5. PICK model : model = [duel EXCEPT !.status = r.target]
  OBVIOUS
<1>6. model \in DuelRow /\ model.status = r.target /\ model.playersCount = duel.playersCount
  BY <1>3, <1>4, <1>5 DEF DuelRow, Request
<1>7. PICK q : q = [r EXCEPT !.pc = "cancelSeats"]
  OBVIOUS
<1>8. /\ req' = [req EXCEPT ![h] = q]
      /\ duel' = Update(duel, model) /\ players' = players
  BY <1>1, <1>3, <1>5, <1>7, Zenon DEF CancelUpdate, Go, Become
<1>9. q.pc = "cancelSeats" /\ q.job = r.job /\ q.due = r.due /\ q.target = r.target
  BY <1>7 DEF Request
<1>10. duel'.status = r.target /\ duel'.playersCount = duel.playersCount
  BY <1>3, <1>4, <1>6, <1>8, UpdateType, AllStatuses DEF NonZero
<1>11. Rows' = Rows
  BY <1>8 DEF Rows
<1>12. RowsNow'
  <2>1. duel.playersCount = Len(players) /\ RecordedAfterSent
    BY DEF RunInv, RowsNow
  <2> QED
    BY <1>3, <1>8, <1>10, <1>11, <2>1, AllStatuses DEF RowsNow, RecordedAfterSent
<1>13. SnapNow(q)'
  BY <1>3, <1>9, <1>10 DEF SnapNow
<1>14. PlanNow(q)'
  BY <1>3, <1>9 DEF PlanNow, Resolving, Refunding, Rewarding, PayingBack
<1>15. SentNow(q)'
  BY <1>3, <1>8, <1>9, <1>11 DEF SentNow, Refunding, Rewarding, PayingBack
<1> QED
  BY <1>8, <1>12, <1>13, <1>14, <1>15, WriteRuns

LEMMA CancelSeatsRuns ==
  ASSUME RunInv, OneAtATime, CryptoInv', NEW h \in Handlers, CancelSeats(h)
  PROVE  RunInv'
<1>1. PICK r \in Request : r = req[h] /\ r.pc = "cancelSeats"
  BY Mid DEF CancelSeats, RunInv
<1>2. SnapNow(r) /\ PlanNow(r) /\ SentNow(r) /\ RequestFit(r)
  BY <1>1, TypedFields DEF RunInv
<1>3. /\ duel.status = r.target /\ r.target \in Cancelled /\ r.due = {}
      /\ r.target = Refund => \A i \in Rows : players[i].sent > 0
  BY <1>1, <1>2 DEF SnapNow, PlanNow, SentNow, PayingBack
<1>4. /\ req' = [req EXCEPT ![h] = Idle] /\ duel' = duel
      /\ players' = SetStatus(players, Rows, PlayerRefunded)
  BY Zenon DEF CancelSeats, Become
<1>5. SameSeats /\ \A i \in Rows : players'[i].sent = players[i].sent
  BY <1>4, SetStatusRows, TypedFields DEF RunInv
<1>6. Rows' = Rows /\ Len(players') = Len(players)
  BY <1>5, SameLength DEF RunInv, SameSeats
<1>7. RowsNow'
  <2>1. duel.playersCount = Len(players)
    BY DEF RunInv, RowsNow
  <2> QED
    BY <1>3, <1>4, <1>5, <1>6, <2>1, AllStatuses DEF RowsNow, RecordedAfterSent
<1> QED
  BY <1>4, <1>7, IdleRunsOn, WriteRuns

LEMMA ApprovalRuns ==
  ASSUME RunInv, OneAtATime, CryptoInv', NEW h \in Handlers, Record(h), req[h].job = "approve"
  PROVE  RunInv'
<1>1. PICK r \in Request : r = req[h] /\ r.pc = "record" /\ r.job = "approve"
  BY Mid DEF Record, RunInv
<1>2. SnapNow(r)
  BY <1>1 DEF RunInv
<1>3. r.snap = duel /\ duel.status \notin Terminal
  BY <1>1, <1>2 DEF SnapNow
<1>4. duel \in DuelRow /\ players \in Seq(PlayerRow) /\ duel.status # NoStatus
  BY <1>1, TypedFields DEF RunInv, RequestFit
<1>5. PICK model : model = [duel EXCEPT !.status = InProcess]
  OBVIOUS
<1>6. /\ model \in DuelRow /\ model.status = InProcess /\ model.playersCount = duel.playersCount
      /\ model.refundedPlayersCount = duel.refundedPlayersCount
  BY <1>4, <1>5, SMT DEF DuelRow, Statuses, NoStatus, InProcess, Refund
<1>7. /\ req' = [req EXCEPT ![h] = Idle]
      /\ duel' = Update(duel, model) /\ players' = players
  BY <1>1, <1>3, <1>5, Zenon DEF Record, Become
<1>8. /\ duel'.status = InProcess /\ duel'.playersCount = duel.playersCount
      /\ duel'.refundedPlayersCount = duel.refundedPlayersCount
  BY <1>4, <1>6, <1>7, UpdateType, AllStatuses DEF NonZero
<1>9. Rows' = Rows /\ Refunded' = Refunded
  BY <1>7 DEF Rows, Refunded
<1>10. Cardinality(Refunded)' = Cardinality(Refunded)
  BY <1>9, Zenon
<1>11. RowsNow'
  BY <1>3, <1>7, <1>8, <1>9, <1>10, AllStatuses DEF RunInv, RowsNow, RecordedAfterSent
<1> QED
  BY <1>7, <1>11, IdleRunsOn, WriteRuns

\* an approval without a charge: the duel plays, and nobody is marked as paid
LEMMA PublishAs ==
  ASSUME RunInv, NEW h \in Handlers, PublishUncharged(h)
  PROVE  /\ req[h].pc = "publish" /\ req[h].job = "approveDuel" /\ duel.status = InReview
         /\ req' = [req EXCEPT ![h] = Idle] /\ UNCHANGED <<now, usdc, room, faultsLeft>>
         /\ duel'.status = InProcess /\ duel'.playersCount = duel.playersCount
         /\ duel'.refundedPlayersCount = duel.refundedPlayersCount /\ duel'.owner = duel.owner
         /\ room.state # "none" => players' = players
         /\ SameSeats
         /\ \A i \in Rows : /\ players'[i].finalStatus = players[i].finalStatus
                            /\ players'[i].sent = players[i].sent
                            /\ players'[i].winAmount = players[i].winAmount
<1>1. PICK r \in Request : r = req[h] /\ r.pc = "publish"
  BY Mid DEF PublishUncharged, RunInv
<1>2. SnapNow(r) /\ RequestFit(r)
  BY <1>1, TypedFields DEF RunInv
<1>3. r.job = "approveDuel" /\ r.snap = duel /\ duel.status = InReview
  BY <1>1, <1>2 DEF SnapNow, RequestFit
<1>4. duel \in DuelRow /\ players \in Seq(PlayerRow)
  BY TypedFields DEF RunInv
<1>5. PICK model : model = [duel EXCEPT !.status = InProcess]
  OBVIOUS
<1>6. /\ model \in DuelRow /\ model.status = InProcess /\ model.playersCount = duel.playersCount
      /\ model.refundedPlayersCount = duel.refundedPlayersCount
  BY <1>4, <1>5, SMT DEF DuelRow, Statuses, NoStatus, InProcess, Refund
<1>7. /\ req' = [req EXCEPT ![h] = Idle] /\ UNCHANGED <<now, usdc, room, faultsLeft>>
      /\ duel' = Update(duel, model)
      /\ players' = IF room.state = "none" THEN Waive(players) ELSE players
  BY <1>1, <1>3, <1>5, Zenon DEF PublishUncharged, Become, chain
<1>8. /\ duel'.status = InProcess /\ duel'.playersCount = duel.playersCount
      /\ duel'.refundedPlayersCount = duel.refundedPlayersCount /\ duel'.owner = duel.owner
  BY <1>3, <1>4, <1>6, <1>7, UpdateType, AllStatuses DEF NonZero
<1>9. /\ SameSeats
      /\ \A i \in Rows : /\ players'[i].finalStatus = players[i].finalStatus
                         /\ players'[i].sent = players[i].sent
                         /\ players'[i].winAmount = players[i].winAmount
  <2>1. CASE room.state = "none"
    <3>1. players' = Waive(players) /\ DOMAIN players' = DOMAIN players
      BY <1>7, <2>1 DEF Waive
    <3>2. \A i \in DOMAIN players : /\ players[i] \in PlayerRow
                                   /\ players'[i] = [players[i] EXCEPT !.waived = TRUE]
      BY <1>4, <3>1, LenProperties DEF Waive
    <3> QED
      BY <3>1, <3>2 DEF PlayerRow, SameSeats, Rows
  <2>2. CASE room.state # "none"
    BY <1>7, <2>2 DEF SameSeats, Rows
  <2> QED
    BY <2>1, <2>2
<1> QED
  BY <1>1, <1>3, <1>7, <1>8, <1>9, Zenon

LEMMA PublishRuns ==
  ASSUME RunInv, OneAtATime, CryptoInv', NEW h \in Handlers, PublishUncharged(h)
  PROVE  RunInv'
<1>1. /\ duel.status = InReview
      /\ req' = [req EXCEPT ![h] = Idle]
      /\ duel'.status = InProcess /\ duel'.playersCount = duel.playersCount
      /\ duel'.refundedPlayersCount = duel.refundedPlayersCount
      /\ SameSeats
      /\ \A i \in Rows : /\ players'[i].finalStatus = players[i].finalStatus
                         /\ players'[i].sent = players[i].sent
  BY PublishAs, Zenon
<1>2. Rows' = Rows /\ Refunded' = Refunded /\ Len(players') = Len(players)
  BY <1>1, SameLength DEF RunInv, SameSeats, Refunded
<1>3. Cardinality(Refunded)' = Cardinality(Refunded)
  BY <1>2, Zenon
<1>4. RowsNow'
  BY <1>1, <1>2, <1>3, AllStatuses DEF RunInv, RowsNow, RecordedAfterSent
<1> QED
  BY <1>1, <1>4, IdleRunsOn, WriteRuns

\* a seat is added at the end
LEMMA SeatStep ==
  ASSUME CryptoInv, NEW h \in Handlers, Record(h), req[h].job # "approve"
  PROVE  \E at \in Nat, seat \in PlayerRow :
           /\ seat = Seat(req[h].user, req[h].answer, at) /\ req[h].user \in Users
           /\ at \in req[h].since..now
           /\ players' = Append(players, seat)
           /\ seat.user = req[h].user /\ seat.createdAt = at
           /\ seat.finalStatus = PlayerActive /\ seat.sent = 0 /\ seat.winAmount = 0
           /\ Len(players') = Len(players) + 1
           /\ Rows' = Rows \cup {Len(players) + 1} /\ Len(players) + 1 \notin Rows
           /\ players'[Len(players) + 1] = seat
           /\ \A i \in Rows : players'[i] = players[i]
<1>1. req[h] \in Request /\ RequestFit(req[h]) /\ req[h].pc = "record"
  BY Mid DEF Record
<1>2. req[h].since \in Nat /\ req[h].answer \in Answers /\ req[h].user \in Users
  BY <1>1 DEF Request, RequestFit
<1>3. PICK at \in req[h].since..now : players' = Append(players, Seat(req[h].user, req[h].answer, at))
  BY DEF Record
<1>4. at \in Nat
  BY <1>2, <1>3, TypedFields
<1>5. PICK seat \in PlayerRow : seat = Seat(req[h].user, req[h].answer, at)
  BY <1>2, <1>4, SeatType
<1>6. /\ seat.user = req[h].user /\ seat.createdAt = at
      /\ seat.finalStatus = PlayerActive /\ seat.sent = 0 /\ seat.winAmount = 0
  BY <1>5 DEF Seat
<1>7. /\ players \in Seq(PlayerRow) /\ Len(players) \in Nat /\ players' = Append(players, seat)
      /\ DOMAIN players = 1..Len(players)
  BY <1>3, <1>5, TypedFields, LenProperties
<1>8. /\ players' \in Seq(PlayerRow) /\ Len(players') = Len(players) + 1
      /\ players'[Len(players) + 1] = seat
      /\ \A i \in 1..Len(players) : players'[i] = players[i]
  BY <1>7, AppendProperties
<1>9. DOMAIN players' = 1..(Len(players) + 1)
  BY <1>8, LenProperties
<1>10. 1..(Len(players) + 1) = (1..Len(players)) \cup {Len(players) + 1}
  BY <1>7
<1> QED
  BY <1>2, <1>3, <1>4, <1>5, <1>6, <1>7, <1>8, <1>9, <1>10 DEF Rows

LEMMA SeatRuns ==
  ASSUME RunInv, OneAtATime, CryptoInv', NEW h \in Handlers, Record(h), req[h].job # "approve"
  PROVE  RunInv'
<1>1. PICK r \in Request : r = req[h] /\ r.pc = "record"
  BY Mid DEF Record, RunInv
<1>2. SnapNow(r) /\ RequestFit(r)
  BY <1>1, TypedFields DEF RunInv
<1>3. PICK at \in Nat, seat \in PlayerRow :
           /\ seat = Seat(req[h].user, req[h].answer, at) /\ req[h].user \in Users
           /\ at \in req[h].since..now
           /\ players' = Append(players, seat)
           /\ seat.user = req[h].user /\ seat.createdAt = at
           /\ seat.finalStatus = PlayerActive /\ seat.sent = 0 /\ seat.winAmount = 0
           /\ Len(players') = Len(players) + 1
           /\ Rows' = Rows \cup {Len(players) + 1} /\ Len(players) + 1 \notin Rows
           /\ players'[Len(players) + 1] = seat
           /\ \A i \in Rows : players'[i] = players[i]
  BY SeatStep DEF RunInv
<1>4. PICK row : /\ row = (IF r.job = "create" THEN r.snap ELSE duel)
                 /\ duel' = SeatTaken(row, r.snap)
  BY <1>1 DEF Record
<1>5. /\ row \in DuelRow /\ r.snap \in DuelRow
      /\ row.playersCount = Len(players)
      /\ row.refundedPlayersCount = duel.refundedPlayersCount
      /\ duel.status \notin Terminal
      /\ r.snap.status \notin Terminal /\ r.snap.status # NoStatus
  <2>1. duel.playersCount = Len(players) /\ duel \in DuelRow /\ r.snap \in DuelRow
    BY TypedFields DEF RunInv, RowsNow, Request
  <2>2. r.job = "create" => Len(players) = 0 /\ duel.refundedPlayersCount = 0
    BY <1>2 DEF SnapNow, NoDuel
  <2> QED
    BY <1>1, <1>2, <1>4, <2>1, <2>2, AllStatuses DEF SnapNow, RequestFit
<1>6. /\ duel'.playersCount = row.playersCount + 1 /\ duel'.status = r.snap.status
      /\ duel'.refundedPlayersCount = row.refundedPlayersCount
  BY <1>4, <1>5 DEF SeatTaken, DuelRow
<1>7. Refunded' = Refunded
  <2>1. Refunded' = {i \in Rows' : players'[i].finalStatus = PlayerRefunded}
    BY DEF Refunded
  <2>2. Refunded = {i \in Rows : players[i].finalStatus = PlayerRefunded}
    BY DEF Refunded
  <2>3. PlayerActive # PlayerRefunded
    BY DEF PlayerActive, PlayerRefunded
  <2>4. players'[Len(players) + 1].finalStatus # PlayerRefunded
    BY <1>3, <2>3
  <2>5. \A i \in Rows : players'[i].finalStatus = players[i].finalStatus
    BY <1>3, Zenon
  <2>6. Rows' = Rows \cup {Len(players) + 1}
    BY <1>3
  <2> HIDE <1>3
  <2> QED
    BY <2>1, <2>2, <2>4, <2>5, <2>6, Zenon
<1>8. Cardinality(Refunded)' = Cardinality(Refunded)
  BY <1>7, Zenon
<1>9. RowsNow'
  <2>1. /\ duel.refundedPlayersCount = Cardinality(Refunded)
        /\ \A i \in Rows : players[i].finalStatus \in {PlayerActive, PlayerRefunded}
        /\ \A i \in Rows : players[i].finalStatus # PlayerActive => players[i].sent > 0
    BY <1>5, AllStatuses DEF RunInv, RowsNow, RecordedAfterSent
  <2>2. \A i \in Rows' : /\ players'[i].finalStatus \in {PlayerActive, PlayerRefunded}
                         /\ players'[i].finalStatus # PlayerActive => players'[i].sent > 0
    BY <1>3, <2>1
  <2> QED
    BY <1>3, <1>5, <1>6, <1>8, <2>1, <2>2 DEF RowsNow, RecordedAfterSent
<1>10. req' = [req EXCEPT ![h] = Idle]
  BY DEF Record, Become
<1> QED
  BY <1>9, <1>10, IdleRunsOn, WriteRuns

\* an idle handler answers at once
LEMMA AtOnceRuns ==
  ASSUME RunInv, OneAtATime, CryptoInv', NEW h \in Handlers, req[h].pc = "idle", req' = req, RowsNow'
  PROVE  RunInv'
<1>1. req[h] = Idle
  BY TypedFields DEF RequestFit, RunInv
<1>2. req' = [req EXCEPT ![h] = Idle]
  BY <1>1, TypedFields DEF RunInv
<1> QED
  BY <1>2, IdleRunsOn, WriteRuns

LEMMA CreateAdminRuns ==
  ASSUME RunInv, OneAtATime, CryptoInv', NEW h \in Handlers, NEW u \in Admins, NEW crypto \in BOOLEAN,
         NEW s \in Schedules, CreateNewCryptoDuelAdmin(h, u, crypto, s)
  PROVE  RunInv'
<1>1. PICK row : row = DuelByCreateReq(u, crypto, s)
  OBVIOUS
<1>2. row.playersCount = 0 /\ row.refundedPlayersCount = 0
  BY <1>1 DEF DuelByCreateReq, NoDuel
<1>3. row \in DuelRow
  BY <1>1, CreateReqType, TypedFields, WalletsAssumption DEF RunInv
<1>4. duel' = [row EXCEPT !.status = InProcess] /\ players' = players
  BY <1>1 DEF CreateNewCryptoDuelAdmin
<1>5. duel'.status = InProcess /\ duel'.playersCount = 0 /\ duel'.refundedPlayersCount = 0
  BY <1>2, <1>3, <1>4 DEF DuelRow
<1>6. duel = NoDuel /\ duel.status = NoStatus
  BY DEF CreateNewCryptoDuelAdmin, FreshDuel, NoDuel
<1>7. players = <<>> /\ players' = <<>>
  BY <1>4, <1>6 DEF RunInv, RowsNow
<1>8. Rows' = {} /\ Refunded' = {} /\ Len(players') = 0
  BY <1>7 DEF Rows, Refunded
<1>9. Cardinality(Refunded)' = 0
  BY <1>8, FS_EmptySet, Zenon
<1>10. RowsNow'
  BY <1>5, <1>8, <1>9, AllStatuses DEF RowsNow, RecordedAfterSent
<1> QED
  BY <1>10, AtOnceRuns DEF CreateNewCryptoDuelAdmin, Arrives

LEMMA ReviewCreateRuns ==
  ASSUME RunInv, OneAtATime, CryptoInv', NEW h \in Handlers, NEW u \in Creators, NEW s \in Schedules,
         NEW answer \in Answers, CreateInReview(h, u, s, answer)
  PROVE  RunInv'
<1>1. u \in Users /\ now \in Nat
  BY WalletsAssumption, TypedFields DEF RunInv
<1>2. PICK row : row = DuelByCreateReq(u, FALSE, s)
  OBVIOUS
<1>3. row \in DuelRow /\ row.playersCount = 0 /\ row.status = InReview
  BY <1>1, <1>2, CreateReqType
<1>4. row.refundedPlayersCount = 0
  BY <1>2 DEF DuelByCreateReq, NoDuel
<1>5. duel' = SeatTaken(row, row) /\ players' = <<Seat(u, answer, now)>>
  BY <1>2, Zenon DEF CreateInReview
<1>6. duel'.status = InReview /\ duel'.playersCount = 1 /\ duel'.refundedPlayersCount = 0
  BY <1>3, <1>4, <1>5 DEF SeatTaken, DuelRow
<1>7. PICK seat \in PlayerRow : seat = Seat(u, answer, now) /\ seat.finalStatus = PlayerActive
  BY <1>1, SeatType DEF Seat
<1>8. Len(players') = 1 /\ Rows' = {1} /\ players'[1] = seat
  BY <1>5, <1>7 DEF Rows
<1>9. Refunded' = {}
  BY <1>7, <1>8 DEF Refunded, PlayerActive, PlayerRefunded
<1>10. Cardinality(Refunded)' = 0
  BY <1>9, FS_EmptySet, Zenon
<1>11. RowsNow'
  BY <1>6, <1>7, <1>8, <1>10, AllStatuses DEF RowsNow, RecordedAfterSent
<1> QED
  BY <1>11, AtOnceRuns DEF CreateInReview, Arrives

LEMMA EditRuns ==
  ASSUME RunInv, OneAtATime, CryptoInv', NEW h \in Handlers, NEW s \in Schedules, EditDuel(h, s)
  PROVE  RunInv'
<1>1. PICK model : model = [NoDuel EXCEPT !.deadline = s.deadline, !.eventDate = s.eventDate]
  OBVIOUS
<1>2. s.deadline \in Nat /\ s.eventDate \in Nat /\ duel \in DuelRow
  BY ClockAssumption, TypedFields DEF RunInv
<1>3. model \in DuelRow
  BY <1>1, <1>2, NoDuelType DEF DuelRow
<1>4. model.status = 0 /\ model.playersCount = 0 /\ model.refundedPlayersCount = 0
  BY <1>1, AllStatuses DEF NoDuel
<1>5. duel' = Update(duel, model) /\ players' = players /\ duel.status # NoStatus
  BY <1>1 DEF EditDuel
<1>6. /\ duel'.status = duel.status /\ duel'.playersCount = duel.playersCount
      /\ duel'.refundedPlayersCount = duel.refundedPlayersCount
  BY <1>2, <1>3, <1>4, <1>5, UpdateType DEF NonZero
<1>7. Rows' = Rows /\ Refunded' = Refunded
  BY <1>5 DEF Rows, Refunded
<1>8. Cardinality(Refunded)' = Cardinality(Refunded)
  BY <1>7, Zenon
<1>9. RowsNow'
  BY <1>5, <1>6, <1>7, <1>8 DEF RunInv, RowsNow, RecordedAfterSent
<1> QED
  BY <1>9, AtOnceRuns DEF EditDuel, Arrives

LEMMA InitRuns == Init => RunInv
<1> SUFFICES ASSUME Init PROVE RunInv
  OBVIOUS
<1>1. Rows = {} /\ Refunded = {} /\ Len(players) = 0
  BY DEF Init, Rows, Refunded
<1>2. Cardinality(Refunded) = 0
  BY <1>1, FS_EmptySet, Zenon
<1>3. RowsNow
  BY <1>1, <1>2 DEF Init, RowsNow, RecordedAfterSent, NoDuel
<1>4. \A h \in Handlers : req[h] = Idle
  BY DEF Init
<1> QED
  BY <1>3, <1>4, InitKeeps, IdleRuns DEF RunInv

LEMMA ContinueRuns ==
  ASSUME RunInv, OneAtATime, CryptoInv', NEW h \in Handlers, Continue(h)
  PROVE  RunInv'
<1>1. CASE Charge(h) \/ Record(h) \/ PublishUncharged(h)
  BY <1>1, ChargeRuns, SeatRuns, ApprovalRuns, PublishRuns
<1>2. CASE ReadWinners(h) \/ ReadRefunds(h) \/ ReadPlayersToRefund(h) \/ RecordRefund(h)
  BY <1>2, ReadWinnersRuns, ReadRefundsRuns, ReadPlayersToRefundRuns, RecordRefundRuns
<1>3. CASE ReadUnpaidWinners(h) \/ Pay(h) \/ PayOwner(h) \/ PayReferrer(h)
  BY <1>3, ReadUnpaidWinnersRuns, PayRuns, TransferRuns
<1>4. CASE CloseResolved(h) \/ CloseCancelled(h)
  BY <1>4, CloseRuns
<1>5. CASE Settle(h) \/ ReadEverybody(h) \/ CancelUpdate(h) \/ CancelSeats(h)
  BY <1>5, SettleRuns, ReadEverybodyRuns, CancelUpdateRuns, CancelSeatsRuns
<1> QED
  BY <1>1, <1>2, <1>3, <1>4, <1>5 DEF Continue

LEMMA NextRuns == ASSUME OneAtATime PROVE RunInv /\ [Next]_vars => RunInv'
<1> SUFFICES ASSUME RunInv, [Next]_vars PROVE RunInv'
  OBVIOUS
<1>1. CryptoInv'
  BY NextKeeps DEF RunInv
<1>2. CASE Tick \/ UNCHANGED vars
  BY <1>1, <1>2, ClockRuns
<1>3. ASSUME NEW h \in Handlers, UserRequest(h) PROVE RunInv'
  BY <1>1, <1>3, CreateRuns, ReviewCreateRuns, JoinRuns DEF UserRequest
<1>4. ASSUME NEW h \in Handlers, ModeratorRequest(h) PROVE RunInv'
  BY <1>1, <1>4, CreateAdminRuns, ApproveRuns, ApproveDuelRuns, EditRuns, ResolveRuns, CancelsRun
     DEF ModeratorRequest
<1>5. ASSUME NEW h \in Handlers, CronRun(h) PROVE RunInv'
  BY <1>1, <1>5, ResolveRuns, CancelsRun DEF CronRun
<1>6. ASSUME NEW h \in Handlers, Continue(h) \/ Abort(h) PROVE RunInv'
  BY <1>1, <1>6, ContinueRuns, AbortRuns
<1> QED
  BY <1>2, <1>3, <1>4, <1>5, <1>6 DEF Next

LEMMA AlwaysRuns == ASSUME OneAtATime PROVE Spec => []RunInv
BY InitRuns, NextRuns, PTL DEF Spec

\* What is recorded of a payout was sent, and refunds are counted once, whatever
\* fails, as long as requests do not overlap (UpdatePlayersFinalStatus and
\* UpdateDuelWinners after the transfers, refunded_players_count with them).
THEOREM PayoutsAreRecorded == ASSUME OneAtATime PROVE Spec => []PayoutsRecorded
<1>1. RunInv => PayoutsRecorded
  BY AllStatuses DEF RunInv, RowsNow, PayoutsRecorded, RefundsCounted, Refunded
<1> QED
  BY <1>1, AlwaysRuns, PTL

\* which steps a closed duel leaves
LEMMA ClosedSteps ==
  ASSUME RunInv, OneAtATime, [Next]_vars, duel.status \in Terminal
  PROVE  \/ duel' = duel
         \/ \E h \in Handlers, s \in Schedules : EditDuel(h, s)
<1> USE AllStatuses
<1>1. \A h \in Handlers : req[h].pc \in {"idle", "cancelSeats"} /\ req[h].job # "create"
  BY TypedFields DEF RunInv, SnapNow, NoDuel, RequestFit
<1>2. ~FreshDuel
  BY DEF FreshDuel, NoDuel
<1>3. CASE Tick \/ UNCHANGED vars
  BY <1>3 DEF Tick, vars, db
<1>4. ASSUME NEW h \in Handlers, UserRequest(h) PROVE duel' = duel
  BY <1>2, <1>4 DEF UserRequest, CreateNewCryptoDuel, CreateInReview, JoinCryptoDuel, db
<1>5. ASSUME NEW h \in Handlers, ModeratorRequest(h)
      PROVE  duel' = duel \/ \E s \in Schedules : EditDuel(h, s)
  BY <1>2, <1>5, Zenon DEF ModeratorRequest, CreateNewCryptoDuelAdmin, ApproveCryptoDuel, ApproveDuel,
         Resolve, ResolveCryptoDuelByAdmin, CancelCryptoDuelByAdmin, db
<1>6. ASSUME NEW h \in Handlers, CronRun(h) PROVE duel' = duel
  BY <1>6, Zenon DEF CronRun, ResolveCryptoOnEventDate, ResolveCryptoBeforeEventDate,
         AutoCancelDuels, Resolve, db
<1>7. ASSUME NEW h \in Handlers, Continue(h) PROVE duel' = duel
  <2>1. CancelSeats(h)
    BY <1>1, <1>7 DEF Continue, Charge, Record, PublishUncharged, ReadWinners, ReadRefunds,
         ReadPlayersToRefund, RecordRefund, ReadUnpaidWinners, Pay, PayOwner, PayReferrer, Transfer,
         CloseResolved, CloseCancelled, Close, Settle, ReadEverybody, CancelUpdate
  <2> QED
    BY <2>1 DEF CancelSeats
<1>8. ASSUME NEW h \in Handlers, Abort(h) PROVE duel' = duel
  BY <1>8 DEF Abort, db
<1> QED
  BY <1>3, <1>4, <1>5, <1>6, <1>7, <1>8 DEF Next

\* A duel that was closed stays closed, with the outcome it was closed with,
\* whatever failed on the way there (crypto_duel_service.go reads the status and
\* pays before it writes), as long as requests do not overlap.
THEOREM ClosedCryptoDuelsAreFinal == ASSUME OneAtATime PROVE Spec => ClosedFinal
<1> DEFINE Final == duel.status \in Terminal =>
                       duel'.status = duel.status /\ duel'.finalResult = duel.finalResult
<1>1. ASSUME RunInv, [Next]_vars PROVE [Final]_vars
  <2> SUFFICES ASSUME duel.status \in Terminal
               PROVE  duel'.status = duel.status /\ duel'.finalResult = duel.finalResult
    OBVIOUS
  <2>1. CASE duel' = duel
    BY <2>1
  <2>2. ASSUME NEW h \in Handlers, NEW s \in Schedules, EditDuel(h, s)
        PROVE  duel'.status = duel.status /\ duel'.finalResult = duel.finalResult
    <3>1. PICK model : model = [NoDuel EXCEPT !.deadline = s.deadline, !.eventDate = s.eventDate]
      OBVIOUS
    <3>2. s.deadline \in Nat /\ s.eventDate \in Nat /\ duel \in DuelRow
      BY <1>1, ClockAssumption, TypedFields DEF RunInv
    <3>3. model \in DuelRow
      BY <3>1, <3>2, NoDuelType DEF DuelRow
    <3>4. model.status = 0 /\ model.finalResult = NoResult
      BY <3>1, AllStatuses DEF NoDuel
    <3>5. duel' = Update(duel, model)
      BY <2>2, <3>1 DEF EditDuel
    <3>6. duel'.status = duel.status
      BY <3>2, <3>3, <3>4, <3>5, UpdateType DEF NonZero
    <3>7. duel'.finalResult = duel.finalResult
      BY <3>2, <3>4, <3>5 DEF Update, DuelRow
    <3> QED
      BY <3>6, <3>7
  <2> QED
    BY <1>1, <2>1, <2>2, ClosedSteps
<1>2. RunInv /\ [Next]_vars => [Final]_vars
  BY <1>1
<1> QED
  BY <1>2, AlwaysRuns, PTL DEF Spec, ClosedFinal

-----------------------------------------------------------------------------
(* One transfer per attempt *)

\* The admin wallet covers the transfer at hand: it holds the float of the house
\* and the stakes of rooms closed before.
Funded ==
    \A h \in Handlers :
       LET r == req[h] IN
       /\ r.pc = "pay" =>
             usdc[Admin] >= r.amount * Cardinality(FirstRows(r.due, TransfersPerTransaction))
       /\ r.pc = "ownerReward" => usdc[Admin] >= OwnerReward(r)
       /\ r.pc = "referrerReward" => usdc[Admin] >= OwnerReward(r) \div 2

\* request r may have paid for seat i already
PaidBy(r, i) ==
    \/ Refunding(r) /\ i \in r.list \ r.due
    \/ r.pc = "unpaid" /\ i \in Refunded /\ Late(r, i)
    \/ (Rewarding(r) \/ PayingBack(r)) /\ i \notin r.due

\* request r settles, and has refunded the late seat w
Settling(r, w) == (r.pc = "unpaid" \/ Rewarding(r)) /\ Late(r, w)

\* While the duel is open, a seat has been sent one transfer per failure, and one
\* more only if the request that runs sent it.  A seat taken after one that was
\* refunded is one behind: the run that refunded did not refund it.  Nobody is
\* refunded before a failure but by the request that runs.
SentBy(r) ==
    duel.status \notin Terminal =>
       /\ \A i \in Rows : players[i].sent <= Faults \/ PaidBy(r, i)
       /\ \A i \in Rows \ Refunded, w \in Refunded :
             players[w].createdAt < players[i].createdAt =>
                /\ players[i].sent <= Faults
                /\ players[i].sent < Faults \/ PaidBy(r, i)
       /\ \A w \in Refunded : Faults > 0 \/ Settling(r, w)
       /\ r.pc = "unpaid" =>
             \A i, w \in Refunded : Late(r, i) /\ ~Late(r, w) => players[i].sent <= Faults

AttemptsInv == RunInv /\ OncePerAttempt /\ \A h \in Handlers : SentBy(req[h])

LEMMA FaultsCounted ==
  ASSUME RunInv
  PROVE  /\ Faults \in Nat /\ faultsLeft \in Nat
         /\ \A i \in Rows : players[i].sent \in Nat /\ players[i].createdAt \in Nat
<1>1. Faults \in Nat /\ faultsLeft \in Nat
  BY ClockAssumption, TypedFields DEF RunInv, Faults
<1>2. \A i \in Rows : players[i] \in PlayerRow
  BY TypedFields, LenProperties DEF RunInv, Rows
<1> QED
  BY <1>1, <1>2 DEF PlayerRow

LEMMA FaultsNext == ASSUME RunInv' PROVE Faults' \in Nat
<1>1. TypeOK'
  BY DEF RunInv, CryptoInv
<1>2. faultsLeft' \in 0..MaxFaults
  BY <1>1 DEF TypeOK
<1>3. \A left \in 0..MaxFaults : MaxFaults - left \in Nat
  BY ClockAssumption
<1>4. MaxFaults - faultsLeft' \in Nat
  BY <1>2, <1>3, Zenon
<1> QED
  BY <1>4, Zenon DEF Faults

\* the seats and what became of them
SameSent ==
    /\ SameSeats
    /\ \A i \in Rows : /\ players'[i].sent = players[i].sent
                       /\ players'[i].finalStatus = players[i].finalStatus

\* a step that sends nothing
LEMMA SteadyAttempts ==
  ASSUME AttemptsInv, OneAtATime, RunInv', NEW h \in Handlers, NEW q, req' = [req EXCEPT ![h] = q],
         SameSent, Faults' >= Faults, duel'.status \notin Terminal => duel.status \notin Terminal,
         duel'.status \notin Terminal =>
            /\ \A i \in Rows : PaidBy(req[h], i) => PaidBy(q, i)
            /\ \A w \in Refunded : Settling(req[h], w) => Settling(q, w)
            /\ q.pc = "unpaid" => \A i \in Rows : ~PaidBy(req[h], i)
  PROVE  AttemptsInv'
<1>1. \A g \in Handlers : req'[g] = q
  BY OneRequest DEF AttemptsInv, RunInv
<1>2. /\ Faults \in Nat /\ Faults' \in Nat
      /\ \A i \in Rows : players[i].sent \in Nat /\ players[i].createdAt \in Nat
  BY FaultsCounted, FaultsNext DEF AttemptsInv
<1>3. /\ Rows' = Rows /\ Refunded' = Refunded /\ Refunded \subseteq Rows
      /\ \A i \in Rows : /\ players'[i].sent = players[i].sent
                         /\ players'[i].createdAt = players[i].createdAt
  BY SeatsRead DEF SameSent, SameSeats, Refunded
<1>4. OncePerAttempt'
  BY <1>2, <1>3 DEF AttemptsInv, OncePerAttempt
<1>5. /\ \A i \in Rows : PaidBy(q, i)' = PaidBy(q, i)
      /\ \A i \in Rows : Settling(q, i)' = Settling(q, i) /\ Late(q, i)' = Late(q, i)
  BY <1>3 DEF PaidBy, Settling, Late, Refunding, Rewarding, PayingBack
<1>6. SentBy(q)'
  <2> SUFFICES ASSUME duel'.status \notin Terminal
      PROVE  /\ \A i \in Rows : players'[i].sent <= Faults' \/ PaidBy(q, i)
             /\ \A i \in Rows \ Refunded, w \in Refunded :
                   players'[w].createdAt < players'[i].createdAt =>
                      /\ players'[i].sent <= Faults'
                      /\ players'[i].sent < Faults' \/ PaidBy(q, i)
             /\ \A w \in Refunded : Faults' > 0 \/ Settling(q, w)
             /\ q.pc = "unpaid" =>
                   \A i, w \in Refunded : Late(q, i) /\ ~Late(q, w) => players'[i].sent <= Faults'
    BY <1>3, <1>5 DEF SentBy
  <2>1. /\ \A i \in Rows : players[i].sent <= Faults \/ PaidBy(req[h], i)
        /\ \A i \in Rows \ Refunded, w \in Refunded :
             players[w].createdAt < players[i].createdAt =>
                /\ players[i].sent <= Faults
                /\ players[i].sent < Faults \/ PaidBy(req[h], i)
        /\ \A w \in Refunded : Faults > 0 \/ Settling(req[h], w)
    BY DEF AttemptsInv, SentBy
  <2> QED
    BY <1>2, <1>3, <2>1
<1>7. \A g \in Handlers : SentBy(req[g])'
  BY <1>1, <1>6 DEF SentBy, PaidBy, Settling, Late, Refunding, Rewarding, PayingBack
<1> QED
  BY <1>4, <1>7 DEF AttemptsInv

\* what ends with a failure
LEMMA FailedAttempts ==
  ASSUME AttemptsInv, OneAtATime, RunInv', NEW h \in Handlers, req' = [req EXCEPT ![h] = Idle],
         SameSent, Faults' = Faults + 1, duel' = duel
  PROVE  AttemptsInv'
<1>1. \A g \in Handlers : req'[g] = Idle
  BY OneRequest DEF AttemptsInv, RunInv
<1>2. /\ Faults \in Nat
      /\ \A i \in Rows : players[i].sent \in Nat /\ players[i].createdAt \in Nat
  BY FaultsCounted DEF AttemptsInv
<1>3. /\ Rows' = Rows /\ Refunded' = Refunded /\ Refunded \subseteq Rows
      /\ \A i \in Rows : /\ players'[i].sent = players[i].sent
                         /\ players'[i].createdAt = players[i].createdAt
  BY SeatsRead DEF SameSent, SameSeats, Refunded
<1>4. /\ OncePerAttempt'
      /\ \A i \in Rows : players'[i].sent <= Faults'
  BY <1>2, <1>3 DEF AttemptsInv, OncePerAttempt
<1>5. duel.status \notin Terminal =>
        \A i \in Rows \ Refunded, w \in Refunded :
             players'[w].createdAt < players'[i].createdAt => players'[i].sent < Faults'
  BY <1>2, <1>3 DEF AttemptsInv, SentBy
<1>6. Idle.pc = "idle" /\ Faults' > 0
  BY <1>2 DEF Idle
<1>7. SentBy(Idle)'
  BY <1>2, <1>3, <1>4, <1>5, <1>6 DEF SentBy
<1>8. \A g \in Handlers : SentBy(req[g])'
  BY <1>1, <1>7 DEF SentBy, PaidBy, Settling, Late, Refunding, Rewarding, PayingBack
<1> QED
  BY <1>4, <1>8 DEF AttemptsInv

LEMMA SameSentSame == ASSUME UNCHANGED players PROVE SameSent
BY DEF SameSent, SameSeats, Rows

\* faults never come back
LEMMA FaultsGrow ==
  ASSUME RunInv
  PROVE  /\ faultsLeft' = faultsLeft => Faults' = Faults /\ Faults' >= Faults
         /\ faultsLeft' = faultsLeft - 1 => Faults' = Faults + 1 /\ Faults' >= Faults
<1>1. Faults' = MaxFaults - faultsLeft' /\ Faults = MaxFaults - faultsLeft
  BY DEF Faults
<1>2. MaxFaults \in Nat /\ faultsLeft \in Nat /\ Faults \in Nat
  BY ClockAssumption, FaultsCounted
<1> QED
  BY <1>1, <1>2

\* a request that has paid nobody
LEMMA NothingPaid ==
  ASSUME NEW r, r.pc \in {"idle", "charge", "record", "publish", "winners", "refunds", "late", "everybody"}
  PROVE  \A i : ~PaidBy(r, i) /\ ~Settling(r, i)
BY DEF PaidBy, Settling, Refunding, Rewarding, PayingBack

\* a step of a request that has paid nobody
LEMMA FreshAttempts ==
  ASSUME AttemptsInv, OneAtATime, RunInv', NEW h \in Handlers, NEW q, req' = [req EXCEPT ![h] = q],
         UNCHANGED <<duel, players>>, faultsLeft' = faultsLeft \/ faultsLeft' = faultsLeft - 1,
         req[h].pc \in {"idle", "charge", "record", "publish", "winners", "refunds", "late", "everybody"}
  PROVE  AttemptsInv'
<1>1. Faults' >= Faults
  BY FaultsGrow DEF AttemptsInv
<1>2. \A i : ~PaidBy(req[h], i) /\ ~Settling(req[h], i)
  BY NothingPaid
<1> QED
  BY <1>1, <1>2, SameSentSame, SteadyAttempts

LEMMA ArrivalsAttempt ==
  ASSUME AttemptsInv, OneAtATime, RunInv', NEW h \in Handlers,
         \/ \E u \in Creators, s \in Schedules, answer \in Answers : CreateNewCryptoDuel(h, u, s, answer)
         \/ \E u \in Users, answer \in Answers : JoinCryptoDuel(h, u, answer)
         \/ ApproveCryptoDuel(h) \/ ApproveDuel(h)
         \/ \E answer \in Answers : ResolveCryptoDuelByAdmin(h, answer)
         \/ ResolveCryptoOnEventDate(h) \/ ResolveCryptoBeforeEventDate(h)
         \/ \E target \in Statuses : CancelCryptoDuelByAdmin(h, target)
         \/ AutoCancelDuels(h)
  PROVE  AttemptsInv'
<1>1. /\ req[h].pc = "idle" /\ UNCHANGED <<duel, players>> /\ faultsLeft' = faultsLeft
      /\ \E q : req' = [req EXCEPT ![h] = q]
  BY Zenon DEF CreateNewCryptoDuel, JoinCryptoDuel, ApproveCryptoDuel, ApproveDuel, ResolveCryptoDuelByAdmin,
         ResolveCryptoOnEventDate, ResolveCryptoBeforeEventDate, CancelCryptoDuelByAdmin,
         AutoCancelDuels, Resolve, Arrives, Become, db
<1>2. req[h].pc \in {"idle", "charge", "record", "publish", "winners", "refunds", "late", "everybody"}
  BY <1>1
<1> QED
  BY <1>1, <1>2, FreshAttempts

LEMMA ReadsAttempt ==
  ASSUME AttemptsInv, OneAtATime, RunInv', NEW h \in Handlers,
         \/ ReadWinners(h) \/ ReadRefunds(h) \/ ReadPlayersToRefund(h) \/ ReadEverybody(h)
  PROVE  AttemptsInv'
<1>1. UNCHANGED <<duel, players>> /\ faultsLeft' = faultsLeft
  BY Zenon DEF ReadWinners, ReadRefunds, ReadPlayersToRefund, ReadEverybody, db
<1>2. \E q : req' = [req EXCEPT ![h] = q]
  BY Zenon DEF ReadWinners, ReadRefunds, ReadPlayersToRefund, ReadEverybody, Become
<1>3. req[h].pc \in {"idle", "charge", "record", "publish", "winners", "refunds", "late", "everybody"}
  BY DEF ReadWinners, ReadRefunds, ReadPlayersToRefund, ReadEverybody
<1> QED
  BY <1>1, <1>2, <1>3, FreshAttempts

LEMMA ChargeAttempts ==
  ASSUME AttemptsInv, OneAtATime, RunInv', NEW h \in Handlers, Charge(h)
  PROVE  AttemptsInv'
<1>1. UNCHANGED <<duel, players>>
  BY DEF Charge, db
<1>2. faultsLeft' = faultsLeft \/ faultsLeft' = faultsLeft - 1
  BY DEF Charge, Attempt
<1>3. \E q : req' = [req EXCEPT ![h] = q]
  BY Zenon DEF Charge, Go, Become
<1>4. req[h].pc \in {"idle", "charge", "record", "publish", "winners", "refunds", "late", "everybody"}
  BY DEF Charge
<1> QED
  BY <1>1, <1>2, <1>3, <1>4, FreshAttempts

LEMMA AbortAttempts ==
  ASSUME AttemptsInv, OneAtATime, RunInv', NEW h \in Handlers, Abort(h)
  PROVE  AttemptsInv'
<1>1. Faults' = Faults + 1
  BY FaultsGrow DEF Abort, AttemptsInv
<1> QED
  BY <1>1, SameSentSame, FailedAttempts DEF Abort, Become, db

LEMMA ClockAttempts ==
  ASSUME AttemptsInv, RunInv', Tick \/ UNCHANGED vars
  PROVE  AttemptsInv'
<1>1. UNCHANGED <<duel, players, req, faultsLeft>>
  BY DEF Tick, vars, db
<1>2. Faults' = Faults
  BY <1>1 DEF Faults
<1>3. Rows' = Rows /\ Refunded' = Refunded
  BY <1>1 DEF Rows, Refunded
<1>4. OncePerAttempt'
  BY <1>1, <1>2, <1>3 DEF AttemptsInv, OncePerAttempt
<1>5. \A g \in Handlers : SentBy(req[g])'
  <2> SUFFICES ASSUME NEW g \in Handlers PROVE SentBy(req[g])'
    OBVIOUS
  <2>1. /\ \A i : PaidBy(req[g], i)' = PaidBy(req[g], i)
        /\ \A i : Settling(req[g], i)' = Settling(req[g], i) /\ Late(req[g], i)' = Late(req[g], i)
    BY <1>1, <1>3 DEF PaidBy, Settling, Late, Refunding, Rewarding, PayingBack
  <2>2. SentBy(req[g])
    BY DEF AttemptsInv
  <2> QED
    BY <1>1, <1>2, <1>3, <2>1, <2>2 DEF SentBy
<1> QED
  BY <1>4, <1>5 DEF AttemptsInv

\* steps of a request that has begun to pay, and marks no row
LEMMA TransferAttempts ==
  ASSUME AttemptsInv, OneAtATime, RunInv', Funded, NEW h \in Handlers, PayOwner(h) \/ PayReferrer(h)
  PROVE  AttemptsInv'
<1>1. PICK pc \in {"ownerReward", "referrerReward"}, next \in {"referrerReward", "close"} :
         \E to, amount : Transfer(h, to, amount, pc, next) /\ usdc[Admin] >= amount
  <2>1. CASE PayOwner(h)
    <3>1. req[h].pc = "ownerReward"
      BY <2>1 DEF PayOwner, Transfer
    <3>2. usdc[Admin] >= OwnerReward(req[h])
      BY <3>1 DEF Funded
    <3> QED
      BY <2>1, <3>2, Zenon DEF PayOwner
  <2>2. CASE PayReferrer(h)
    <3>1. req[h].pc = "referrerReward"
      BY <2>2 DEF PayReferrer, Transfer
    <3>2. usdc[Admin] >= OwnerReward(req[h]) \div 2
      BY <3>1 DEF Funded
    <3> QED
      BY <2>2, <3>2, Zenon DEF PayReferrer
  <2> QED
    BY <2>1, <2>2
<1>1a. PICK to, amount : Transfer(h, to, amount, pc, next) /\ usdc[Admin] >= amount
  BY <1>1
<1>2. PICK r \in Request : r = req[h] /\ r.pc = pc
  BY <1>1a, Mid DEF Transfer, AttemptsInv, RunInv
<1>3. PICK on : on = [r EXCEPT !.pc = next]
  OBVIOUS
<1>4. UNCHANGED <<duel, players>>
  BY <1>1a DEF Transfer, db
<1>5. SnapNow(r) /\ PlanNow(r) /\ RequestFit(r)
  BY <1>2, TypedFields DEF AttemptsInv, RunInv
<1>6. \/ req' = [req EXCEPT ![h] = on] /\ (faultsLeft' = faultsLeft \/ faultsLeft' = faultsLeft - 1)
      \/ req' = [req EXCEPT ![h] = Idle] /\ faultsLeft' = faultsLeft - 1
  <2>1. CASE to = Null \/ amount = 0
    BY <1>1a, <1>2, <1>3, <2>1 DEF Transfer, Go, Become
  <2>2. CASE ~(to = Null \/ amount = 0)
    <3>1. PICK o \in Outcomes :
            /\ Attempt(o, Untracked, usdc[Admin] >= amount)
            /\ IF o.told THEN Go(h, req[h], next) ELSE Become(h, Idle)
      BY <1>1a, <2>2, Zenon DEF Transfer
    <3>2. (o = Done /\ faultsLeft' = faultsLeft) \/ faultsLeft' = faultsLeft - 1
      BY <1>1a, <3>1 DEF Attempt
    <3>3. CASE o.told
      BY <1>2, <1>3, <3>1, <3>2, <3>3 DEF Go, Become
    <3>4. CASE ~o.told
      BY <3>1, <3>2, <3>4 DEF Become, Done
    <3> QED
      BY <3>3, <3>4
  <2> QED
    BY <2>1, <2>2
<1>7. /\ on.pc = next
      /\ on.target = r.target /\ on.cutoff = r.cutoff /\ on.due = r.due
  BY <1>3 DEF Request
<1>8. /\ \A i \in Rows : PaidBy(r, i) => PaidBy(on, i)
      /\ \A w \in Refunded : Settling(r, w) => Settling(on, w)
      /\ on.pc # "unpaid"
  BY <1>2, <1>5, <1>7 DEF PaidBy, Settling, Late, PlanNow, Resolving, Refunding, Rewarding, PayingBack
<1>9. CASE req' = [req EXCEPT ![h] = on] /\ (faultsLeft' = faultsLeft \/ faultsLeft' = faultsLeft - 1)
  <2>1. Faults' >= Faults
    BY <1>9, FaultsGrow DEF AttemptsInv
  <2> QED
    BY <1>2, <1>4, <1>8, <1>9, <2>1, SameSentSame, SteadyAttempts
<1>10. CASE req' = [req EXCEPT ![h] = Idle] /\ faultsLeft' = faultsLeft - 1
  <2>1. Faults' = Faults + 1
    BY <1>10, FaultsGrow DEF AttemptsInv
  <2> QED
    BY <1>4, <1>10, <2>1, SameSentSame, FailedAttempts
<1> QED
  BY <1>6, <1>9, <1>10

LEMMA CloseAttempts ==
  ASSUME AttemptsInv, OneAtATime, RunInv', NEW h \in Handlers, CloseResolved(h) \/ CloseCancelled(h)
  PROVE  AttemptsInv'
<1>1. PICK next \in {"settle", "cancelUpdate"} :
         /\ Close(h, next)
         /\ next = "settle" <=> req[h].target = NoStatus
  BY DEF CloseResolved, CloseCancelled
<1>2. PICK r \in Request : r = req[h] /\ r.pc = "close"
  BY <1>1, Mid DEF Close, AttemptsInv, RunInv
<1>3. PICK q : q = [r EXCEPT !.pc = next]
  OBVIOUS
<1>4. req' = [req EXCEPT ![h] = q] /\ UNCHANGED <<duel, players>>
  BY <1>1, <1>2, <1>3 DEF Close, Go, Become, db
<1>5. /\ q.pc = next
      /\ q.target = r.target /\ q.cutoff = r.cutoff /\ q.due = r.due
  BY <1>3 DEF Request
<1>6. SnapNow(r) /\ PlanNow(r)
  BY <1>2 DEF AttemptsInv, RunInv
<1>7. Faults' >= Faults
  BY <1>1, FaultsGrow DEF Close, Attempt, AttemptsInv
<1>8. /\ \A i \in Rows : PaidBy(r, i) => PaidBy(q, i)
      /\ \A w \in Refunded : Settling(r, w) => Settling(q, w)
      /\ q.pc # "unpaid"
  BY <1>1, <1>2, <1>5, <1>6, AllStatuses
     DEF PaidBy, Settling, Late, PlanNow, Resolving, Refunding, Rewarding, PayingBack
<1> QED
  BY <1>2, <1>4, <1>7, <1>8, SameSentSame, SteadyAttempts

-----------------------------------------------------------------------------
(* Steps that pay or mark seats *)

LEMMA PayAttempts ==
  ASSUME AttemptsInv, OneAtATime, RunInv', Funded, NEW h \in Handlers, Pay(h)
  PROVE  AttemptsInv'
<1>1. PICK r \in Request : r = req[h] /\ r.pc = "pay"
  BY Mid DEF Pay, AttemptsInv, RunInv
<1>2. PICK o \in Outcomes, chunk \in SUBSET r.due : Transferred(h, r, o, chunk)
  BY <1>1, PayStep DEF AttemptsInv, RunInv
<1>3. SnapNow(r) /\ PlanNow(r) /\ RequestFit(r) /\ SentBy(r)
  BY <1>1, TypedFields DEF AttemptsInv, RunInv
<1>4. /\ duel.status \notin Terminal /\ duel' = duel
      /\ r.due \subseteq Rows /\ (Refunding(r) => r.due \subseteq r.list)
      /\ r.next \in {"recordRefund", "ownerReward", "close"}
      /\ r.next = "close" => r.target = Refund
  BY <1>1, <1>2, <1>3, AllStatuses
     DEF SnapNow, PlanNow, RequestFit, Refunding, PayingBack, Transferred, Request
<1>5. /\ Faults \in Nat /\ Faults' \in Nat
      /\ \A i \in Rows : players[i].sent \in Nat /\ players[i].createdAt \in Nat
  BY FaultsCounted, FaultsNext DEF AttemptsInv
<1>6. /\ Rows' = Rows /\ Refunded' = Refunded /\ Refunded \subseteq Rows
      /\ \A i \in Rows : /\ players'[i].createdAt = players[i].createdAt
                         /\ players'[i].sent = players[i].sent
                               + (IF i \in chunk /\ o # Nothing THEN 1 ELSE 0)
  BY <1>2, SeatsRead DEF SameSeats, Transferred, Refunded
<1>7. \A i \in Rows : /\ i \notin chunk => players'[i].sent = players[i].sent
                      /\ players'[i].sent <= players[i].sent + 1 /\ players'[i].sent \in Nat
  BY <1>5, <1>6
<1>8. \A i \in r.due : ~PaidBy(r, i)
  BY <1>1, <1>4 DEF PaidBy, Refunding, Rewarding, PayingBack
<1>9. /\ Faults' >= Faults
      /\ ~o.told => Faults' = Faults + 1
  <2>1. Attempt(o, Untracked, TRUE)
    <3>1. usdc[Admin] >= r.amount * Cardinality(chunk)
      BY <1>1, <1>2 DEF Funded, Transferred
    <3> QED
      BY <1>2, <3>1 DEF Transferred, Attempt
  <2>2. faultsLeft' = faultsLeft \/ faultsLeft' = faultsLeft - 1
    BY <2>1 DEF Attempt
  <2>3. ~o.told => faultsLeft' = faultsLeft - 1
    BY <2>1 DEF Attempt, Done
  <2> QED
    BY <2>2, <2>3, FaultsGrow DEF AttemptsInv
<1>10. /\ \A i \in Rows : players[i].sent <= Faults \/ PaidBy(r, i)
       /\ \A i \in Rows : players[i].sent <= Faults + 1
       /\ \A i \in Rows \ Refunded, w \in Refunded :
             players[w].createdAt < players[i].createdAt =>
                /\ players[i].sent <= Faults
                /\ players[i].sent < Faults \/ PaidBy(r, i)
       /\ \A w \in Refunded : Faults > 0 \/ Settling(r, w)
  BY <1>3, <1>4, <1>5 DEF SentBy, AttemptsInv, OncePerAttempt
<1>11. /\ \A i \in Rows : players'[i].sent <= Faults + 1
       /\ \A i \in Rows \ Refunded, w \in Refunded :
             players[w].createdAt < players[i].createdAt => players'[i].sent <= Faults
  BY <1>5, <1>7, <1>8, <1>10
<1>12. OncePerAttempt'
  BY <1>5, <1>6, <1>7, <1>9, <1>11 DEF OncePerAttempt
<1>13. CASE ~o.told
  <2>1. req' = [req EXCEPT ![h] = Idle]
    BY <1>2, <1>13 DEF Transferred
  <2>2. \A g \in Handlers : req'[g] = Idle
    BY <2>1, OneRequest DEF AttemptsInv, RunInv
  <2>3. SentBy(Idle)'
    BY <1>5, <1>6, <1>7, <1>9, <1>11, <1>13 DEF SentBy, Idle
  <2>4. \A g \in Handlers : SentBy(req[g])'
    BY <2>2, <2>3 DEF SentBy, PaidBy, Settling, Late, Refunding, Rewarding, PayingBack
  <2> QED
    BY <1>12, <2>4 DEF AttemptsInv
<1>14. CASE o.told
  <2>1. PICK left : left = r.due \ chunk
    OBVIOUS
  <2>2. PICK q : q = ToPay(r, left)
    OBVIOUS
  <2>3. /\ q.pc = (IF left = {} THEN r.next ELSE "pay") /\ q.due = left
        /\ q.list = r.list /\ q.next = r.next /\ q.target = r.target /\ q.cutoff = r.cutoff
    BY <2>2, ToPayFields
  <2>4. \A g \in Handlers : req'[g] = q
    <3>1. req' = [req EXCEPT ![h] = q]
      BY <1>2, <1>14, <2>1, <2>2, Zenon DEF Transferred
    <3> QED
      BY <3>1, OneRequest DEF AttemptsInv, RunInv
  <2>5. /\ Refunding(r) => Refunding(q)
        /\ Rewarding(r) => Rewarding(q)
        /\ PayingBack(r) => PayingBack(q)
        /\ Refunding(r) \/ Rewarding(r) \/ PayingBack(r)
        /\ q.pc # "unpaid"
    BY <1>1, <1>4, <2>3, AllStatuses DEF Refunding, Rewarding, PayingBack
  <2>6. \A i \in Rows : /\ PaidBy(r, i) => PaidBy(q, i)
                        /\ i \in chunk => PaidBy(q, i)
    BY <1>1, <1>4, <2>1, <2>3, <2>5 DEF PaidBy
  <2>7. \A w \in Refunded : Settling(r, w) => Settling(q, w)
    BY <1>1, <2>3, <2>5 DEF Settling, Late
  <2>8. /\ \A i \in Rows : PaidBy(q, i)' = PaidBy(q, i)
        /\ \A i \in Rows : Settling(q, i)' = Settling(q, i)
    BY <1>6 DEF PaidBy, Settling, Late, Refunding, Rewarding, PayingBack
  <2>9. \A i \in Rows : players'[i].sent <= Faults' \/ PaidBy(q, i)
    BY <1>5, <1>7, <1>9, <1>10, <2>6
  <2>10. \A i \in Rows \ Refunded, w \in Refunded :
             players'[w].createdAt < players'[i].createdAt =>
                /\ players'[i].sent <= Faults'
                /\ players'[i].sent < Faults' \/ PaidBy(q, i)
    BY <1>5, <1>6, <1>7, <1>9, <1>10, <1>11, <2>6
  <2>11. \A w \in Refunded : Faults' > 0 \/ Settling(q, w)
    BY <1>5, <1>9, <1>10, <2>7
  <2>12. SentBy(q)'
    BY <1>6, <2>5, <2>8, <2>9, <2>10, <2>11 DEF SentBy
  <2>13. \A g \in Handlers : SentBy(req[g])'
    BY <2>4, <2>12 DEF SentBy, PaidBy, Settling, Late, Refunding, Rewarding, PayingBack
  <2> QED
    BY <1>12, <2>13 DEF AttemptsInv
<1> QED
  BY <1>13, <1>14

\* while a duel plays, a late seat that is not refunded is on the list
LEMMA RecordRefundAttempts ==
  ASSUME AttemptsInv, OneAtATime, RunInv', NEW h \in Handlers, RecordRefund(h)
  PROVE  AttemptsInv'
<1>1. PICK r \in Request : r = req[h] /\ r.pc = "recordRefund"
  BY Mid DEF RecordRefund, AttemptsInv, RunInv
<1>2. SnapNow(r) /\ PlanNow(r) /\ SentBy(r)
  BY <1>1 DEF AttemptsInv, RunInv
<1>3. /\ duel.status = InProcess /\ r.due = {}
      /\ r.list = GetDuelPlayersToRefund(r.cutoff)
  BY <1>1, <1>2 DEF SnapNow, PlanNow, Resolving, Refunding
<1>4. PICK q : q = [r EXCEPT !.pc = "unpaid",
                             !.snap = [r.snap EXCEPT !.refundedPlayersCount = @ + Cardinality(r.list)]]
  OBVIOUS
<1>5. /\ req' = [req EXCEPT ![h] = q] /\ faultsLeft' = faultsLeft
      /\ players' = SetStatus(players, r.list, PlayerRefunded)
  BY <1>1, <1>4, Zenon DEF RecordRefund, Become
<1>6. q.pc = "unpaid" /\ q.cutoff = r.cutoff
  BY <1>4 DEF Request
<1>7. /\ SameSeats
      /\ \A i \in Rows : /\ players'[i].finalStatus
                              = (IF i \in r.list THEN PlayerRefunded ELSE players[i].finalStatus)
                         /\ players'[i].sent = players[i].sent
  BY <1>5, SetStatusRows, TypedFields DEF AttemptsInv, RunInv
<1>8. r.list \subseteq Rows /\ Rows' = Rows /\ Refunded' = Refunded \cup r.list
      /\ Refunded \subseteq Rows
  <2>1. r.list \subseteq Rows /\ Rows' = Rows
    BY <1>3, <1>7, ReadsOfRows DEF SameSeats
  <2>2. /\ Refunded' = {i \in Rows' : players'[i].finalStatus = PlayerRefunded}
        /\ Refunded = {i \in Rows : players[i].finalStatus = PlayerRefunded}
    BY DEF Refunded
  <2> QED
    BY <1>7, <2>1, <2>2
<1>9. /\ Faults \in Nat /\ Faults' = Faults
      /\ \A i \in Rows : players[i].sent \in Nat /\ players[i].createdAt \in Nat
      /\ \A i \in Rows : players'[i].sent = players[i].sent /\ players'[i].createdAt = players[i].createdAt
  BY <1>5, <1>7, FaultsCounted, FaultsGrow DEF AttemptsInv, SameSeats
<1>10. \A i \in Rows \ Refunded : i \in r.list <=> Late(r, i)
  BY <1>3, AllStatuses DEF AttemptsInv, RunInv, RowsNow, GetDuelPlayersToRefund, Refunded, Late
<1>11. /\ \A i \in r.list : i \notin Refunded /\ Late(r, i)
       /\ \A i : Late(r, i) <=> players[i].createdAt > r.cutoff
  BY <1>3 DEF GetDuelPlayersToRefund, Refunded, Late, PlayerActive, PlayerRefunded
<1>12. /\ \A i \in Rows : i \notin r.list => players[i].sent <= Faults
       /\ \A i \in Rows : players[i].sent <= Faults + 1
       /\ \A i \in Rows \ Refunded, w \in Refunded :
             players[w].createdAt < players[i].createdAt =>
                /\ players[i].sent <= Faults
                /\ i \notin r.list => players[i].sent < Faults
       /\ \A w \in Refunded : Faults > 0
  <2>1. \A i \in Rows : PaidBy(r, i) => i \in r.list
    BY <1>1, <1>3 DEF PaidBy, Refunding, Rewarding, PayingBack
  <2>2. \A w \in Refunded : ~Settling(r, w)
    BY <1>1 DEF Settling, Rewarding
  <2> QED
    BY <1>2, <1>3, <1>9, <2>1, <2>2, AllStatuses DEF SentBy, AttemptsInv, OncePerAttempt
<1>13. OncePerAttempt'
  BY <1>8, <1>9, <1>12 DEF OncePerAttempt
<1>14. \A i \in Rows : /\ Late(q, i)' <=> Late(r, i)
                       /\ Settling(q, i)' <=> Late(r, i)
                       /\ PaidBy(q, i)' <=> (i \in Refunded' /\ Late(r, i))
  BY <1>6, <1>9 DEF Late, Settling, PaidBy, Refunding, Rewarding, PayingBack
<1>15. r.cutoff \in Int
  BY DEF Request
<1>16. SentBy(q)'
  <2>1. \A i \in Rows : players[i].sent <= Faults \/ (i \in Refunded' /\ Late(r, i))
    BY <1>8, <1>11, <1>12
  <2>2. ASSUME NEW i \in Rows \ Refunded', NEW w \in Refunded', players[w].createdAt < players[i].createdAt
        PROVE  players[i].sent <= Faults /\ players[i].sent < Faults
    <3>1. ~Late(r, i) /\ i \notin r.list /\ i \in Rows \ Refunded
      BY <1>8, <1>10
    <3>2. ~Late(r, w) /\ w \in Rows
      BY <1>8, <1>9, <1>11, <1>15, <2>2, <3>1
    <3>3. w \in Refunded
      BY <1>8, <1>11, <3>2
    <3> QED
      BY <1>9, <1>12, <2>2, <3>1, <3>3
  <2>3. \A w \in Refunded' : Faults > 0 \/ Late(r, w)
    BY <1>8, <1>11, <1>12
  <2>4. ASSUME NEW i \in Refunded', NEW w \in Refunded', Late(r, i), ~Late(r, w)
        PROVE  players[i].sent <= Faults
    <3>1. w \in Refunded /\ w \in Rows /\ i \in Rows
      BY <1>8, <1>11, <2>4
    <3>2. players[w].createdAt < players[i].createdAt
      BY <1>9, <1>11, <1>15, <2>4, <3>1
    <3> QED
      BY <1>8, <1>11, <1>12, <3>1, <3>2
  <2> QED
    BY <1>8, <1>9, <1>14, <2>1, <2>2, <2>3, <2>4 DEF SentBy
<1>17. \A g \in Handlers : SentBy(req[g])'
  <2>1. \A g \in Handlers : req'[g] = q
    BY <1>5, OneRequest DEF AttemptsInv, RunInv
  <2> QED
    BY <1>16, <2>1 DEF SentBy, PaidBy, Settling, Late, Refunding, Rewarding, PayingBack
<1> QED
  BY <1>13, <1>17 DEF AttemptsInv

LEMMA ReadUnpaidWinnersAttempts ==
  ASSUME AttemptsInv, OneAtATime, RunInv', NEW h \in Handlers, ReadUnpaidWinners(h)
  PROVE  AttemptsInv'
<1>1. PICK r \in Request : r = req[h] /\ r.pc = "unpaid"
  BY Mid DEF ReadUnpaidWinners, AttemptsInv, RunInv
<1>2. PICK list : list = GetCryptoDuelWinners(r.answer)
  OBVIOUS
<1>3. PICK amount : amount = FinalCryptoReward(PoolOf(r), Commission, Cardinality(r.winners))
  OBVIOUS
<1>4. PICK q : q = IF list = {} THEN Idle ELSE Paying(r, list, amount, "ownerReward")
  OBVIOUS
<1>5. req' = [req EXCEPT ![h] = q] /\ UNCHANGED <<duel, players, faultsLeft>>
  BY <1>1, <1>2, <1>3, <1>4, Zenon DEF ReadUnpaidWinners, Become, db
<1>6. SnapNow(r) /\ PlanNow(r) /\ RequestFit(r) /\ SentBy(r)
  BY <1>1, TypedFields DEF AttemptsInv, RunInv
<1>7. Faults \in Nat /\ Faults' = Faults
      /\ \A i \in Rows : players[i].sent \in Nat /\ players[i].createdAt \in Nat
  BY <1>5, FaultsCounted, FaultsGrow DEF AttemptsInv
<1>8. \A i \in Rows : PaidBy(r, i) <=> (i \in Refunded /\ Late(r, i))
  BY <1>1 DEF PaidBy, Refunding, Rewarding, PayingBack
<1>9. CASE list # {}
  <2>1. q = Paying(r, list, amount, "ownerReward")
    BY <1>4, <1>9
  <2>2. /\ q.pc = "pay" /\ q.due = list /\ q.next = "ownerReward" /\ q.cutoff = r.cutoff
    BY <1>9, <2>1, PayingFields
  <2>3. list \cap Refunded = {}
    BY <1>2 DEF GetCryptoDuelWinners, Refunded, PlayerActive, PlayerRefunded
  <2>4. /\ \A i \in Rows : PaidBy(r, i) => PaidBy(q, i)
        /\ \A w \in Refunded : Settling(r, w) => Settling(q, w)
        /\ q.pc # "unpaid"
    BY <1>8, <2>2, <2>3 DEF PaidBy, Settling, Late, Rewarding
  <2>5. SameSent /\ Faults' >= Faults /\ duel' = duel /\ req' = [req EXCEPT ![h] = q]
    BY <1>5, <1>7, SameSentSame
  <2> HIDE <1>5, <1>7
  <2> QED
    BY <1>1, <2>4, <2>5, SteadyAttempts
<1>10. CASE list = {}
  <2>1. q = Idle
    BY <1>4, <1>10
  <2>2. duel.status = InProcess /\ r.winners = GetDuelWinners(r.answer, r.cutoff) /\ r.winners # {}
    BY <1>1, <1>6 DEF SnapNow, PlanNow, Resolving, RequestFit
  <2>3. PICK w \in Refunded : ~Late(r, w)
    <3>1. PICK w : w \in r.winners
      BY <2>2
    <3>2. /\ w \in Rows /\ players[w].answer = r.answer /\ players[w].createdAt <= r.cutoff
          /\ players[w].finalStatus # PlayerActive
      BY <1>2, <1>10, <2>2, <3>1 DEF GetDuelWinners, GetCryptoDuelWinners
    <3>3. players[w].finalStatus \in {PlayerActive, PlayerRefunded}
      BY <2>2, <3>2, AllStatuses DEF AttemptsInv, RunInv, RowsNow
    <3>4. players[w].createdAt \in Nat /\ r.cutoff \in Int
      BY <1>7, <3>2 DEF Request
    <3>5. ~Late(r, w)
      BY <3>2, <3>4 DEF Late
    <3> QED
      BY <3>2, <3>3, <3>5 DEF Refunded
  <2>4. Faults > 0
    BY <1>6, <2>2, <2>3, AllStatuses DEF SentBy, Settling
  <2>5. Refunded \subseteq Rows /\ Rows' = Rows /\ Refunded' = Refunded
    BY <1>5 DEF Refunded, Rows
  <2>6. \A i \in Rows : players[i].sent <= Faults
    BY <1>1, <1>6, <1>7, <1>8, <2>2, <2>3, <2>5, AllStatuses DEF SentBy
  <2>7. \A i \in Rows \ Refunded, v \in Refunded :
             players[v].createdAt < players[i].createdAt => players[i].sent < Faults
    BY <1>6, <1>7, <1>8, <2>2, AllStatuses DEF SentBy
  <2>8. Idle.pc = "idle"
    BY DEF Idle
  <2>9. SentBy(Idle)'
    BY <1>5, <1>7, <2>4, <2>5, <2>6, <2>7, <2>8 DEF SentBy
  <2>10. \A g \in Handlers : req'[g] = Idle
    BY <1>5, <2>1, OneRequest DEF AttemptsInv, RunInv
  <2>11. \A g \in Handlers : SentBy(req[g])'
    BY <2>9, <2>10 DEF SentBy, PaidBy, Settling, Late, Refunding, Rewarding, PayingBack
  <2>12. OncePerAttempt'
    BY <1>5, <1>7, <2>5, <2>6 DEF OncePerAttempt
  <2> QED
    BY <2>11, <2>12 DEF AttemptsInv
<1> QED
  BY <1>9, <1>10

\* once the duel is closed
LEMMA ClosedAttempts ==
  ASSUME AttemptsInv, RunInv', duel'.status \in Terminal, SameSeats,
         \A i \in Rows : players'[i].sent = players[i].sent, faultsLeft' = faultsLeft
  PROVE  AttemptsInv'
<1>1. Faults' = Faults
  BY DEF Faults
<1>2. OncePerAttempt'
  BY <1>1 DEF AttemptsInv, OncePerAttempt, SameSeats
<1> QED
  BY <1>2 DEF AttemptsInv, SentBy

LEMMA ClosingAttempts ==
  ASSUME AttemptsInv, OneAtATime, RunInv', NEW h \in Handlers,
         Settle(h) \/ CancelUpdate(h) \/ CancelSeats(h)
  PROVE  AttemptsInv'
<1>1. faultsLeft' = faultsLeft
  BY DEF Settle, CancelUpdate, CancelSeats
<1>2. players \in Seq(PlayerRow) /\ duel \in DuelRow
  BY TypedFields DEF AttemptsInv, RunInv
<1>3. SameSeats /\ \A i \in Rows : players'[i].sent = players[i].sent
  <2>1. CASE Settle(h)
    BY <1>2, <2>1, WinnersRows DEF Settle
  <2>2. CASE CancelUpdate(h)
    BY <2>2 DEF CancelUpdate, SameSeats, Rows
  <2>3. CASE CancelSeats(h)
    BY <1>2, <2>3, SetStatusRows DEF CancelSeats
  <2> QED
    BY <2>1, <2>2, <2>3
<1>4. duel'.status \in Terminal
  <2>1. PICK r \in Request : r = req[h]
    BY Mid DEF AttemptsInv, RunInv
  <2>2. SnapNow(r) /\ PlanNow(r) /\ RequestFit(r)
    BY <2>1, TypedFields DEF AttemptsInv, RunInv
  <2>3. CASE Settle(h)
    <3>1. r.pc = "settle" /\ r.answer \in Answers /\ r.snap = duel
      BY <2>1, <2>2, <2>3 DEF Settle, Request, SnapNow, RequestFit
    <3>2. PICK n \in Nat : n = Cardinality(r.winners)
      BY <2>2, FS_CardinalityType DEF RequestFit
    <3>3. PICK model : model = [duel EXCEPT !.status = Resolved, !.finalResult = r.answer, !.winnersCount = n]
      OBVIOUS
    <3>4. Resolved \in Statuses
      BY DEF Statuses, NoStatus, Resolved, Refund
    <3>5. model \in DuelRow /\ model.status = Resolved
      BY <1>2, <3>1, <3>2, <3>3, <3>4 DEF DuelRow
    <3>6. duel' = Update(duel, model)
      BY <2>1, <2>3, <3>1, <3>2, <3>3, Zenon DEF Settle
    <3> QED
      BY <1>2, <3>5, <3>6, UpdateType, AllStatuses DEF NonZero
  <2>4. CASE CancelUpdate(h)
    <3>1. r.pc = "cancelUpdate" /\ r.target \in Cancelled /\ r.target \in Statuses /\ r.snap = duel
      BY <2>1, <2>2, <2>4 DEF CancelUpdate, PlanNow, Request, SnapNow, RequestFit
    <3>2. PICK model : model = [duel EXCEPT !.status = r.target]
      OBVIOUS
    <3>3. model \in DuelRow /\ model.status = r.target
      BY <1>2, <3>1, <3>2 DEF DuelRow
    <3>4. duel' = Update(duel, model)
      BY <2>1, <2>4, <3>1, <3>2, Zenon DEF CancelUpdate
    <3> QED
      BY <1>2, <3>1, <3>3, <3>4, UpdateType, AllStatuses DEF NonZero
  <2>5. CASE CancelSeats(h)
    <3>1. r.pc = "cancelSeats" /\ duel' = duel
      BY <2>1, <2>5 DEF CancelSeats
    <3> QED
      BY <2>2, <3>1, AllStatuses DEF SnapNow, PlanNow
  <2> QED
    BY <2>3, <2>4, <2>5
<1> QED
  BY <1>1, <1>3, <1>4, ClosedAttempts

LEMMA ApprovalAttempts ==
  ASSUME AttemptsInv, OneAtATime, RunInv', NEW h \in Handlers, Record(h), req[h].job = "approve"
  PROVE  AttemptsInv'
<1>1. PICK r \in Request : r = req[h] /\ r.pc = "record"
  BY Mid DEF Record, AttemptsInv, RunInv
<1>2. duel.status \notin Terminal
  BY <1>1 DEF AttemptsInv, RunInv, SnapNow
<1>3. SameSent /\ req' = [req EXCEPT ![h] = Idle] /\ faultsLeft' = faultsLeft
  BY SameSentSame DEF Record, Become
<1>4. Faults' >= Faults
  BY <1>3, FaultsGrow DEF AttemptsInv
<1>5. \A i : ~PaidBy(req[h], i) /\ ~Settling(req[h], i)
  BY <1>1, NothingPaid
<1> QED
  BY <1>2, <1>3, <1>4, <1>5, SteadyAttempts

LEMMA PublishAttempts ==
  ASSUME AttemptsInv, OneAtATime, RunInv', NEW h \in Handlers, PublishUncharged(h)
  PROVE  AttemptsInv'
<1>1. /\ req[h].pc = "publish" /\ duel.status = InReview
      /\ req' = [req EXCEPT ![h] = Idle] /\ faultsLeft' = faultsLeft
      /\ SameSent
  BY PublishAs DEF AttemptsInv, SameSent
<1>2. Faults' >= Faults
  BY <1>1, FaultsGrow DEF AttemptsInv
<1>3. \A i : ~PaidBy(req[h], i) /\ ~Settling(req[h], i)
  BY <1>1, NothingPaid
<1>4. duel.status \notin Terminal
  BY <1>1, AllStatuses
<1>5. Idle.pc # "unpaid"
  BY DEF Idle
<1> HIDE DEF Idle
<1> QED
  BY <1>1, <1>2, <1>3, <1>4, <1>5, SteadyAttempts

\* a seat that was just taken has been sent nothing
LEMMA SeatAttempts ==
  ASSUME AttemptsInv, OneAtATime, RunInv', NEW h \in Handlers, Record(h), req[h].job # "approve"
  PROVE  AttemptsInv'
<1>1. PICK r \in Request : r = req[h] /\ r.pc = "record"
  BY Mid DEF Record, AttemptsInv, RunInv
<1>2. PICK n, seat :
           /\ seat.finalStatus = PlayerActive /\ seat.sent = 0
           /\ n = Len(players) + 1
           /\ Rows' = Rows \cup {n} /\ n \notin Rows
           /\ players'[n] = seat
           /\ \A i \in Rows : players'[i] = players[i]
  BY SeatStep, Zenon DEF AttemptsInv, RunInv
<1>3. duel.status \notin Terminal /\ SentBy(r)
  BY <1>1 DEF AttemptsInv, RunInv, SnapNow
<1>4. /\ Faults \in Nat /\ Faults' = Faults
      /\ \A i \in Rows : players[i].sent \in Nat /\ players[i].createdAt \in Nat
  BY FaultsCounted, FaultsGrow DEF Record, AttemptsInv
<1>5. Refunded' = Refunded /\ Refunded \subseteq Rows
  <2>1. /\ Refunded' = {i \in Rows' : players'[i].finalStatus = PlayerRefunded}
        /\ Refunded = {i \in Rows : players[i].finalStatus = PlayerRefunded}
    BY DEF Refunded
  <2>2. players'[n].finalStatus # PlayerRefunded
    BY <1>2 DEF PlayerActive, PlayerRefunded
  <2>3. \A i \in Rows : players'[i].finalStatus = players[i].finalStatus
    BY <1>2, Zenon
  <2>4. Rows' = Rows \cup {n}
    BY <1>2
  <2> QED
    BY <2>1, <2>2, <2>3, <2>4, Zenon
<1>6. \A i \in Rows : /\ players'[i].sent = players[i].sent
                      /\ players'[i].createdAt = players[i].createdAt
  BY <1>2, Zenon
<1>7. \A i : ~PaidBy(r, i) /\ ~Settling(r, i)
  BY <1>1, NothingPaid
<1>8. /\ \A i \in Rows : players[i].sent <= Faults
      /\ \A i \in Rows \ Refunded, w \in Refunded :
             players[w].createdAt < players[i].createdAt => players[i].sent < Faults
      /\ \A w \in Refunded : Faults > 0
  BY <1>3, <1>7 DEF SentBy
<1>9. players'[n].sent = 0
  BY <1>2
<1>10. \A i \in Rows' : players'[i].sent <= Faults
  BY <1>2, <1>4, <1>6, <1>8, <1>9
<1>11. \A i \in Rows' \ Refunded, w \in Refunded :
             players'[w].createdAt < players'[i].createdAt => players'[i].sent < Faults
  BY <1>2, <1>4, <1>5, <1>6, <1>8, <1>9
<1>12. OncePerAttempt'
  <2>1. \A i \in Rows' : players'[i].sent \in Nat
    BY <1>2, <1>4, <1>6, <1>9
  <2> QED
    BY <1>4, <1>10, <2>1 DEF OncePerAttempt
<1>13. Idle.pc = "idle"
  BY DEF Idle
<1>14. SentBy(Idle)'
  <2>1. \A i \in Rows' \ Refunded', w \in Refunded' :
             players'[w].createdAt < players'[i].createdAt =>
                players'[i].sent <= Faults' /\ players'[i].sent < Faults'
    BY <1>4, <1>5, <1>10, <1>11
  <2>2. /\ \A i \in Rows' : players'[i].sent <= Faults'
        /\ \A w \in Refunded' : Faults' > 0
    BY <1>4, <1>5, <1>8, <1>10
  <2> QED
    BY <1>13, <2>1, <2>2 DEF SentBy
<1>15. \A g \in Handlers : req'[g] = Idle
  BY OneRequest DEF Record, Become, AttemptsInv, RunInv
<1>16. \A g \in Handlers : SentBy(req[g])'
  BY <1>14, <1>15 DEF SentBy, PaidBy, Settling, Late, Refunding, Rewarding, PayingBack
<1> QED
  BY <1>12, <1>16 DEF AttemptsInv

\* a duel's first row, or none
LEMMA OpeningAttempts ==
  ASSUME AttemptsInv, RunInv', UNCHANGED <<req, faultsLeft>>,
         NEW h \in Handlers, req[h].pc = "idle",
         Refunded' = {}, \A i \in Rows' : players'[i].sent = 0
  PROVE  AttemptsInv'
<1>1. Faults' = Faults /\ Faults \in Nat
  BY FaultsCounted DEF Faults, AttemptsInv
<1> QED
  BY <1>1 DEF AttemptsInv, OncePerAttempt, SentBy

LEMMA AtOnceAttempt ==
  ASSUME AttemptsInv, OneAtATime, RunInv', NEW h \in Handlers,
         \/ \E u \in Admins, crypto \in BOOLEAN, s \in Schedules :
               CreateNewCryptoDuelAdmin(h, u, crypto, s)
         \/ \E u \in Creators, s \in Schedules, answer \in Answers : CreateInReview(h, u, s, answer)
         \/ \E s \in Schedules : EditDuel(h, s)
  PROVE  AttemptsInv'
<1>1. req[h] = Idle /\ req[h].pc = "idle" /\ UNCHANGED <<req, faultsLeft>>
  <2>1. req[h].pc = "idle" /\ UNCHANGED <<req, faultsLeft>>
    BY DEF CreateNewCryptoDuelAdmin, CreateInReview, EditDuel, Arrives
  <2> QED
    BY <2>1, TypedFields DEF RequestFit, AttemptsInv, RunInv
<1>2. ASSUME NEW u \in Creators, NEW s \in Schedules, NEW answer \in Answers,
             CreateInReview(h, u, s, answer)
      PROVE  AttemptsInv'
  <2>1. players' = <<Seat(u, answer, now)>>
    BY <1>2 DEF CreateInReview
  <2>2. Rows' = {1} /\ players'[1] = Seat(u, answer, now)
    BY <2>1 DEF Rows
  <2>3. Seat(u, answer, now).finalStatus = PlayerActive /\ Seat(u, answer, now).sent = 0
    BY DEF Seat
  <2>4. Refunded' = {} /\ \A i \in Rows' : players'[i].sent = 0
    BY <2>2, <2>3 DEF Refunded, PlayerActive, PlayerRefunded
  <2> QED
    BY <1>1, <2>4, OpeningAttempts
<1>3. ASSUME NEW u \in Admins, NEW crypto \in BOOLEAN, NEW s \in Schedules,
             CreateNewCryptoDuelAdmin(h, u, crypto, s)
      PROVE  AttemptsInv'
  <2>1. players' = players /\ duel = NoDuel /\ duel.status = NoStatus
    BY <1>3 DEF CreateNewCryptoDuelAdmin, FreshDuel, NoDuel
  <2>2. players' = <<>>
    BY <2>1 DEF AttemptsInv, RunInv, RowsNow
  <2>3. Rows' = {} /\ Refunded' = {}
    BY <2>2 DEF Rows, Refunded
  <2> QED
    BY <1>1, <2>3, OpeningAttempts
<1>4. ASSUME NEW s \in Schedules, EditDuel(h, s)
      PROVE  AttemptsInv'
  <2>1. SameSent /\ req' = [req EXCEPT ![h] = Idle]
    BY <1>1, <1>4, SameSentSame, TypedFields DEF EditDuel, AttemptsInv, RunInv
  <2>2. Faults' >= Faults
    BY <1>1, FaultsGrow DEF AttemptsInv
  <2>3. \A i : ~PaidBy(req[h], i) /\ ~Settling(req[h], i)
    BY <1>1, NothingPaid
  <2>4. duel'.status \notin Terminal => duel.status \notin Terminal
    <3>1. PICK model : model = [NoDuel EXCEPT !.deadline = s.deadline, !.eventDate = s.eventDate]
      OBVIOUS
    <3>2. s.deadline \in Nat /\ s.eventDate \in Nat /\ duel \in DuelRow
      BY ClockAssumption, TypedFields DEF AttemptsInv, RunInv
    <3>3. model \in DuelRow /\ model.status = 0
      BY <3>1, <3>2, NoDuelType, AllStatuses DEF DuelRow, NoDuel
    <3>4. duel' = Update(duel, model)
      BY <1>4, <3>1 DEF EditDuel
    <3> QED
      BY <3>2, <3>3, <3>4, UpdateType DEF NonZero
  <2> QED
    BY <2>1, <2>2, <2>3, <2>4, SteadyAttempts
<1> QED
  BY <1>2, <1>3, <1>4

LEMMA InitAttempts == Init => AttemptsInv
<1> SUFFICES ASSUME Init PROVE AttemptsInv
  OBVIOUS
<1>1. Rows = {} /\ Refunded = {}
  BY DEF Init, Rows, Refunded
<1>2. \A h \in Handlers : req[h].pc = "idle"
  BY DEF Init, Idle
<1> QED
  BY <1>1, <1>2, InitRuns DEF AttemptsInv, OncePerAttempt, SentBy

LEMMA ContinueAttempts ==
  ASSUME AttemptsInv, OneAtATime, RunInv', Funded, NEW h \in Handlers, Continue(h)
  PROVE  AttemptsInv'
<1>1. CASE Charge(h) \/ Record(h) \/ PublishUncharged(h)
  BY <1>1, ChargeAttempts, SeatAttempts, ApprovalAttempts, PublishAttempts
<1>2. CASE ReadWinners(h) \/ ReadRefunds(h) \/ ReadPlayersToRefund(h) \/ ReadEverybody(h)
  BY <1>2, ReadsAttempt
<1>3. CASE RecordRefund(h) \/ ReadUnpaidWinners(h)
  BY <1>3, RecordRefundAttempts, ReadUnpaidWinnersAttempts
<1>4. CASE Pay(h) \/ PayOwner(h) \/ PayReferrer(h) \/ CloseResolved(h) \/ CloseCancelled(h)
  BY <1>4, PayAttempts, TransferAttempts, CloseAttempts
<1>5. CASE Settle(h) \/ CancelUpdate(h) \/ CancelSeats(h)
  BY <1>5, ClosingAttempts
<1> QED
  BY <1>1, <1>2, <1>3, <1>4, <1>5 DEF Continue

LEMMA NextAttempts == ASSUME OneAtATime PROVE AttemptsInv /\ Funded /\ [Next]_vars => AttemptsInv'
<1> SUFFICES ASSUME AttemptsInv, Funded, [Next]_vars PROVE AttemptsInv'
  OBVIOUS
<1>1. RunInv'
  BY NextRuns DEF AttemptsInv
<1>2. CASE Tick \/ UNCHANGED vars
  BY <1>1, <1>2, ClockAttempts
<1>3. ASSUME NEW h \in Handlers, UserRequest(h) PROVE AttemptsInv'
  BY <1>1, <1>3, ArrivalsAttempt, AtOnceAttempt DEF UserRequest
<1>4. ASSUME NEW h \in Handlers, ModeratorRequest(h) PROVE AttemptsInv'
  BY <1>1, <1>4, ArrivalsAttempt, AtOnceAttempt DEF ModeratorRequest
<1>5. ASSUME NEW h \in Handlers, CronRun(h) PROVE AttemptsInv'
  BY <1>1, <1>5, ArrivalsAttempt DEF CronRun
<1>6. ASSUME NEW h \in Handlers, Continue(h) \/ Abort(h) PROVE AttemptsInv'
  BY <1>1, <1>6, ContinueAttempts, AbortAttempts
<1> QED
  BY <1>2, <1>3, <1>4, <1>5, <1>6 DEF Next

\* A seat is paid again only because something failed: with the house's wallet
\* covering each transfer and requests not overlapping, a seat has been sent at most
\* one transfer and one more per failure, over any number of repeated settlements
\* and refunds (GetCryptoDuelWinners and UpdatePlayersFinalStatus keep the tally).
THEOREM OneTransferPerAttempt ==
  ASSUME OneAtATime PROVE Spec /\ []Funded => []OncePerAttempt
<1>1. AttemptsInv => OncePerAttempt
  BY DEF AttemptsInv
<1> QED
  BY <1>1, InitAttempts, NextAttempts, PTL DEF Spec

-----------------------------------------------------------------------------
(* What steps leave and where they lead *)

\* a request about a duel that is there: how it arrives
Arrived(h) ==
    \/ \E u \in Users, answer \in Answers : JoinCryptoDuel(h, u, answer)
    \/ ApproveCryptoDuel(h) \/ ApproveDuel(h)
    \/ \E answer \in Answers : ResolveCryptoDuelByAdmin(h, answer)
    \/ ResolveCryptoOnEventDate(h) \/ ResolveCryptoBeforeEventDate(h)
    \/ \E target \in Statuses : CancelCryptoDuelByAdmin(h, target)
    \/ AutoCancelDuels(h)

LEMMA ArrivedAs ==
  ASSUME NEW h \in Handlers, Arrived(h)
  PROVE  /\ UNCHANGED <<duel, players, usdc, room, faultsLeft>> /\ req[h].pc = "idle"
         /\ duel.status \notin Terminal /\ duel.status # NoStatus
         /\ \E q : /\ req' = [req EXCEPT ![h] = q]
                   /\ q.job # "create" /\ q.pc \in {"charge", "publish", "winners", "everybody", "cancelUpdate"}
                   /\ q.snap = duel
                   /\ q.pc = "charge" <=> q.job \in {"join", "approve"}
                   /\ q.job = "approve" => duel.status = InReview
                   /\ q.job = "join" => \A i \in Rows : players[i].user # q.user
                   /\ q.job = "join" => duel.status = InProcess \/ duel.owner = q.user
                   /\ q.pc = "cancelUpdate" =>
                         \/ duel.status = InReview /\ q.target \in {AdminCancelled, AutoCancelled}
                         \/ duel.status = InProcess /\ q.target = Refund /\ ~(duel.playersCount > 0)
<1> DEFINE Shape(q) ==
             /\ req' = [req EXCEPT ![h] = q]
             /\ q.job # "create" /\ q.pc \in {"charge", "publish", "winners", "everybody", "cancelUpdate"}
             /\ q.snap = duel
             /\ q.pc = "charge" <=> q.job \in {"join", "approve"}
             /\ q.job = "approve" => duel.status = InReview
             /\ q.job = "join" => \A i \in Rows : players[i].user # q.user
             /\ q.job = "join" => duel.status = InProcess \/ duel.owner = q.user
             /\ q.pc = "cancelUpdate" =>
                   \/ duel.status = InReview /\ q.target \in {AdminCancelled, AutoCancelled}
                   \/ duel.status = InProcess /\ q.target = Refund /\ ~(duel.playersCount > 0)
<1>1. ASSUME NEW u \in Users, NEW answer \in Answers, JoinCryptoDuel(h, u, answer)
      PROVE  \E q : Shape(q)
  <2>1. PICK q : q = [Idle EXCEPT !.pc = "charge", !.job = "join", !.user = u,
                            !.snap = duel, !.answer = answer, !.since = now]
    OBVIOUS
  <2>2. q.pc = "charge" /\ q.job = "join" /\ q.snap = duel /\ q.user = u
    BY <2>1 DEF Idle
  <2>3. req' = [req EXCEPT ![h] = q]
    BY <1>1, <2>1, Zenon DEF JoinCryptoDuel, Become
  <2>4. /\ duel.status = InProcess \/ duel.owner = u
        /\ \A i \in Rows : players[i].user # u
    BY <1>1 DEF JoinCryptoDuel, IsAbleToJoinDuel, UserAlreadyParticipant
  <2> QED
    BY <2>2, <2>3, <2>4
<1>2. ASSUME ApproveCryptoDuel(h)
      PROVE  \E q : Shape(q)
  <2>1. PICK q, i : /\ q = [Idle EXCEPT !.pc = "charge", !.job = "approve", !.user = duel.owner,
                                    !.snap = duel, !.answer = players[i].answer,
                                    !.since = now]
                    /\ req' = [req EXCEPT ![h] = q]
    BY <1>2 DEF ApproveCryptoDuel, Become
  <2>2. q.pc = "charge" /\ q.job = "approve" /\ q.snap = duel
    BY <2>1 DEF Idle
  <2> QED
    BY <1>2, <2>1, <2>2 DEF ApproveCryptoDuel
<1>9. ASSUME ApproveDuel(h)
      PROVE  \E q : Shape(q)
  <2>1. PICK q : q = [Idle EXCEPT !.pc = "publish", !.job = "approveDuel", !.snap = duel]
    OBVIOUS
  <2>2. q.pc = "publish" /\ q.job = "approveDuel" /\ q.snap = duel
    BY <2>1 DEF Idle
  <2>3. req' = [req EXCEPT ![h] = q]
    BY <1>9, <2>1, Zenon DEF ApproveDuel, Become
  <2> QED
    BY <2>2, <2>3
<1>3. ASSUME NEW answer, NEW cutoff, Resolve(h, answer, cutoff)
      PROVE  \E q : Shape(q)
  <2>1. PICK q : q = [Idle EXCEPT !.pc = "winners", !.job = "resolve", !.snap = duel,
                              !.answer = answer, !.cutoff = cutoff]
    OBVIOUS
  <2>2. q.pc = "winners" /\ q.job = "resolve" /\ q.snap = duel
    BY <2>1 DEF Idle
  <2>3. req' = [req EXCEPT ![h] = q]
    BY <1>3, <2>1, Zenon DEF Resolve, Become
  <2> QED
    BY <2>2, <2>3
<1>4. ASSUME NEW target, NEW job \in {"cancel", "autoCancel"},
             \/ target \in {AdminCancelled, AutoCancelled} /\ duel.status = InReview
             \/ target = Refund /\ duel.status = InProcess,
             Become(h, Cancelling([Idle EXCEPT !.job = job, !.snap = duel], target))
      PROVE  \E q : Shape(q)
  <2>1. PICK pc : pc = IF HasChargedDuelPriceFromUser(duel.playersCount, duel.status, target)
                       THEN "everybody" ELSE "cancelUpdate"
    OBVIOUS
  <2>2. PICK q : q = Cancelling([Idle EXCEPT !.job = job, !.snap = duel], target)
    OBVIOUS
  <2>3. q = [Idle EXCEPT !.job = job, !.snap = duel, !.target = target, !.pc = pc]
    BY <2>1, <2>2 DEF Cancelling, Idle
  <2>4. q.pc = pc /\ q.job = job /\ q.snap = duel /\ q.target = target
    BY <2>3 DEF Idle
  <2>5. pc \in {"everybody", "cancelUpdate"}
    BY <2>1
  <2>6. pc = "cancelUpdate" /\ target = Refund => ~(duel.playersCount > 0)
    BY <1>4, <2>1, AllStatuses DEF HasChargedDuelPriceFromUser
  <2>7. req' = [req EXCEPT ![h] = q]
    BY <1>4, <2>2, Zenon DEF Become
  <2> QED
    BY <1>4, <2>4, <2>5, <2>6, <2>7, AllStatuses
<1>5. \E q : Shape(q)
  <2>1. CASE \E target \in Statuses : CancelCryptoDuelByAdmin(h, target)
    <3>1. PICK target \in Statuses : CancelCryptoDuelByAdmin(h, target)
      BY <2>1
    <3>2. /\ Become(h, Cancelling([Idle EXCEPT !.job = "cancel", !.snap = duel], target))
          /\ \/ target \in {AdminCancelled, AutoCancelled} /\ duel.status = InReview
             \/ target = Refund /\ duel.status = InProcess
      BY <3>1 DEF CancelCryptoDuelByAdmin, ValidateDuelCancel
    <3> HIDE DEF Shape
    <3> QED
      BY <1>4, <3>2
  <2>2. CASE AutoCancelDuels(h)
    <3>1. Become(h, Cancelling([Idle EXCEPT !.job = "autoCancel", !.snap = duel], AutoCancelled))
          /\ duel.status = InReview
      BY <2>2 DEF AutoCancelDuels
    <3> HIDE DEF Shape
    <3> QED
      BY <1>4, <3>1
  <2>3. CASE \/ \E answer \in Answers : ResolveCryptoDuelByAdmin(h, answer)
             \/ ResolveCryptoOnEventDate(h) \/ ResolveCryptoBeforeEventDate(h)
    <3>1. \E answer, cutoff : Resolve(h, answer, cutoff)
      BY <2>3 DEF ResolveCryptoDuelByAdmin, ResolveCryptoOnEventDate, ResolveCryptoBeforeEventDate
    <3> HIDE DEF Shape
    <3> QED
      BY <1>3, <3>1
  <2> HIDE DEF Shape
  <2> QED
    BY <1>1, <1>2, <1>9, <2>1, <2>2, <2>3 DEF Arrived
<1>6. UNCHANGED <<duel, players, usdc, room, faultsLeft>> /\ req[h].pc = "idle"
  BY Zenon DEF Arrived, JoinCryptoDuel, ApproveCryptoDuel, ApproveDuel, ResolveCryptoDuelByAdmin,
         ResolveCryptoOnEventDate, ResolveCryptoBeforeEventDate, CancelCryptoDuelByAdmin,
         AutoCancelDuels, Resolve, Arrives, db, chain
<1>7. duel.status \in {InProcess, InReview}
  BY DEF Arrived, JoinCryptoDuel, IsAbleToJoinDuel, ApproveCryptoDuel, ApproveDuel, ResolveCryptoDuelByAdmin,
         ResolveCryptoOnEventDate, ResolveCryptoBeforeEventDate, CancelCryptoDuelByAdmin,
         AutoCancelDuels, ValidateDuelCancel, Overdue
<1>8. duel.status \notin Terminal /\ duel.status # NoStatus
  BY <1>7, AllStatuses
<1> QED
  BY <1>5, <1>6, <1>8, Zenon

\* steps of a settlement that read
ReadsOn(h) == ReadWinners(h) \/ ReadRefunds(h) \/ ReadPlayersToRefund(h) \/ ReadEverybody(h)

LEMMA ReadsOnAs ==
  ASSUME RunInv, NEW h \in Handlers, ReadsOn(h)
  PROVE  /\ UNCHANGED <<duel, players, usdc, room, faultsLeft>>
         /\ req[h].pc \in {"winners", "refunds", "late", "everybody"}
         /\ \E q : /\ req' = [req EXCEPT ![h] = q]
                   /\ q.job = req[h].job /\ q.snap = req[h].snap
                   /\ ~Rewarding(q) /\ q.pc \notin {"record", "settle"}
                   /\ \A i \in Rows \ Refunded : ~PaidBy(q, i)
                   /\ q.pc = "cancelUpdate" => players = <<>>
                   /\ Refunding(q) \/ (PayingBack(q) /\ q.pc = "pay") => q.amount = Stake
<1> DEFINE Shape(q) ==
             /\ req' = [req EXCEPT ![h] = q]
             /\ q.job = req[h].job /\ q.snap = req[h].snap
             /\ ~Rewarding(q) /\ q.pc \notin {"record", "settle"}
             /\ \A i \in Rows \ Refunded : ~PaidBy(q, i)
             /\ q.pc = "cancelUpdate" => players = <<>>
             /\ Refunding(q) \/ (PayingBack(q) /\ q.pc = "pay") => q.amount = Stake
<1>1. PICK r \in Request : r = req[h]
  BY Mid DEF RunInv
<1>2. ASSUME ReadWinners(h) PROVE \E q : Shape(q)
  <2>1. PICK winners : winners = GetDuelWinners(r.answer, r.cutoff)
    OBVIOUS
  <2>2. PICK q : q = [r EXCEPT !.pc = "refunds", !.winners = winners]
    OBVIOUS
  <2>3. q.pc = "refunds" /\ q.job = r.job /\ q.snap = r.snap
    BY <2>2 DEF Request
  <2>4. req' = [req EXCEPT ![h] = q]
    BY <1>1, <1>2, <2>1, <2>2, Zenon DEF ReadWinners, Become
  <2> QED
    BY <1>1, <2>3, <2>4 DEF PaidBy, Refunding, Rewarding, PayingBack
<1>3. ASSUME ReadRefunds(h) PROVE \E q : Shape(q)
  <2>1. r.pc = "refunds"
    BY <1>1, <1>3 DEF ReadRefunds
  <2>2. PICK q : /\ Looks(h, q)
                 /\ \/ q = Cancelling(r, Refund)
                    \/ q = [r EXCEPT !.pc =
                                IF Cardinality(GetDuelPlayersToRefund(r.cutoff)) > 0
                                  THEN "late" ELSE "unpaid"]
    BY <1>1, <1>3, RefundsRead, Zenon DEF RunInv
  <2>3. req' = [req EXCEPT ![h] = q]
    BY <2>2 DEF Looks
  <2>4. CASE q = Cancelling(r, Refund)
    <3>1. PlanNow(q) /\ q.pc \in {"everybody", "cancelUpdate"} /\ (q.pc = "cancelUpdate" => players = <<>>)
      BY <1>1, <2>1, <2>4, CancellingNow
    <3>2. PICK pc : pc = IF HasChargedDuelPriceFromUser(r.snap.playersCount, r.snap.status, Refund)
                       THEN "everybody" ELSE "cancelUpdate"
      OBVIOUS
    <3>3. q = [r EXCEPT !.target = Refund, !.pc = pc]
      BY <2>4, <3>2 DEF Cancelling
    <3>4. q.job = r.job /\ q.snap = r.snap
      BY <3>3 DEF Request
    <3>5. players = <<>> => Rows = {}
      BY DEF Rows
    <3> QED
      BY <1>1, <2>3, <3>1, <3>4, <3>5 DEF PaidBy, Refunding, Rewarding, PayingBack
  <2>5. CASE q = [r EXCEPT !.pc = IF Cardinality(GetDuelPlayersToRefund(r.cutoff)) > 0
                                  THEN "late" ELSE "unpaid"]
    <3>1. PICK pc \in {"late", "unpaid"} : q = [r EXCEPT !.pc = pc]
      BY <2>5
    <3>2. q.pc = pc /\ q.job = r.job /\ q.snap = r.snap
      BY <3>1 DEF Request
    <3> QED
      BY <1>1, <2>3, <3>2 DEF PaidBy, Refunding, Rewarding, PayingBack
  <2> QED
    BY <2>2, <2>4, <2>5
<1>4. ASSUME NEW list, NEW next \in {"recordRefund", "close"},
             Become(h, Paying(r, list, Stake, next)),
             next = "close" => list = Rows /\ r.target # NoStatus
      PROVE  \E q : Shape(q)
  <2>1. PICK q : q = Paying(r, list, Stake, next)
    OBVIOUS
  <2>2. /\ q.pc = (IF list = {} THEN next ELSE "pay")
        /\ q.list = list /\ q.due = list /\ q.next = next /\ q.amount = Stake
        /\ q.job = r.job /\ q.snap = r.snap /\ q.target = r.target
    BY <2>1, PayingFields
  <2>3. req' = [req EXCEPT ![h] = q]
    BY <1>4, <2>1 DEF Become
  <2>4. CASE next = "recordRefund"
    BY <1>1, <2>2, <2>3, <2>4 DEF PaidBy, Refunding, Rewarding, PayingBack
  <2>5. CASE next = "close"
    BY <1>1, <1>4, <2>2, <2>3, <2>5 DEF PaidBy, Refunding, Rewarding, PayingBack
  <2> QED
    BY <2>4, <2>5
<1>5. ASSUME ReadPlayersToRefund(h) PROVE \E q : Shape(q)
  <2>1. Become(h, Paying(r, GetDuelPlayersToRefund(r.cutoff), Stake, "recordRefund"))
    BY <1>1, <1>5, Zenon DEF ReadPlayersToRefund
  <2> HIDE DEF Shape
  <2> QED
    BY <1>4, <2>1
<1>6. ASSUME ReadEverybody(h) PROVE \E q : Shape(q)
  <2>1. Become(h, Paying(r, Rows, Stake, "close"))
    BY <1>1, <1>6, Zenon DEF ReadEverybody
  <2>2. r.target # NoStatus
    <3>1. PlanNow(r) /\ r.pc = "everybody"
      BY <1>1, <1>6 DEF RunInv, ReadEverybody
    <3> QED
      BY <3>1, AllStatuses DEF PlanNow
  <2> HIDE DEF Shape
  <2> QED
    BY <1>4, <2>1, <2>2
<1>7. UNCHANGED <<duel, players, usdc, room, faultsLeft>>
      /\ req[h].pc \in {"winners", "refunds", "late", "everybody"}
  BY Zenon DEF ReadsOn, ReadWinners, ReadRefunds, ReadPlayersToRefund, ReadEverybody, db, chain
<1>8. \E q : Shape(q)
  <2> HIDE DEF Shape
  <2> QED
    BY <1>2, <1>3, <1>5, <1>6 DEF ReadsOn
<1> QED
  BY <1>7, <1>8, Zenon

\* q has read what r has, and owes what r does
Alike(r, q) ==
    /\ q.job = r.job /\ q.snap = r.snap
    /\ q.list = r.list /\ q.amount = r.amount /\ q.due = r.due
    /\ q.winners = r.winners /\ q.target = r.target
    /\ q.answer = r.answer /\ q.cutoff = r.cutoff

\* where a transfer to the owner or the referrer leads
LEMMA RewardAs ==
  ASSUME CryptoInv, NEW h \in Handlers, NEW to, NEW amount,
         NEW pc \in {"ownerReward", "referrerReward"}, NEW next \in {"referrerReward", "close"},
         Transfer(h, to, amount, pc, next)
  PROVE  /\ UNCHANGED <<duel, players, room>> /\ req[h].pc = pc
         /\ \E q : /\ req' = [req EXCEPT ![h] = q]
                   /\ q = Idle \/ (q.pc = next /\ Alike(req[h], q))
<1>1. PICK r \in Request : r = req[h] /\ r.pc = pc
  BY Mid DEF Transfer
<1>2. PICK on : on = [r EXCEPT !.pc = next]
  OBVIOUS
<1>3. PICK q \in {Idle, on} : req' = [req EXCEPT ![h] = q]
  BY <1>1, <1>2 DEF Transfer, Go, Become
<1>4. on.pc = next /\ Alike(r, on)
  BY <1>2 DEF Request, Alike
<1>5. UNCHANGED <<duel, players, room>>
  BY DEF Transfer, db, chain
<1> QED
  BY <1>1, <1>3, <1>4, <1>5

\* where closing the room leads
LEMMA CloseAs ==
  ASSUME RunInv, NEW h \in Handlers, CloseResolved(h) \/ CloseCancelled(h)
  PROVE  \E next \in {"settle", "cancelUpdate"} :
           /\ Close(h, next) /\ UNCHANGED <<duel, players>>
           /\ next = "settle" <=> req[h].target = NoStatus
           /\ req[h].pc = "close" /\ req[h].snap = duel /\ req[h].job # "create"
           /\ duel.status = InProcess
           /\ \E q : /\ req' = [req EXCEPT ![h] = q]
                     /\ q.pc = next /\ Alike(req[h], q)
<1>1. PICK next \in {"settle", "cancelUpdate"} :
         /\ Close(h, next)
         /\ next = "settle" <=> req[h].target = NoStatus
  BY DEF CloseResolved, CloseCancelled
<1>2. PICK r \in Request : r = req[h] /\ r.pc = "close"
  BY <1>1, Mid DEF Close, RunInv
<1>3. PICK q : q = [r EXCEPT !.pc = next]
  OBVIOUS
<1>4. req' = [req EXCEPT ![h] = q] /\ UNCHANGED <<duel, players>>
  BY <1>1, <1>2, <1>3 DEF Close, Go, Become, db
<1>5. q.pc = next /\ Alike(r, q)
  BY <1>3 DEF Request, Alike
<1>6. r.job # "create" /\ r.snap = duel /\ duel.status = InProcess
  BY <1>2, TypedFields DEF RunInv, SnapNow, RequestFit
<1> QED
  BY <1>1, <1>2, <1>4, <1>5, <1>6

LEMMA SettleAs ==
  ASSUME RunInv, NEW h \in Handlers, Settle(h), NEW r, r = req[h]
  PROVE  /\ r.pc = "settle" /\ duel.status = InProcess /\ r.due = {}
         /\ req' = [req EXCEPT ![h] = Idle] /\ UNCHANGED <<now, usdc, room, faultsLeft>>
         /\ duel'.status = Resolved /\ duel'.playersCount = duel.playersCount
         /\ duel'.refundedPlayersCount = duel.refundedPlayersCount /\ duel'.owner = duel.owner
         /\ SameSeats
         /\ \A i \in Rows : /\ players'[i].finalStatus
                                 = (IF i \in r.winners THEN PlayerResolved ELSE players[i].finalStatus)
                            /\ players'[i].winAmount
                                 = (IF i \in r.winners THEN r.amount ELSE players[i].winAmount)
<1>1. r.pc = "settle" /\ r \in Request
  BY Mid DEF Settle, RunInv
<1>2. SnapNow(r) /\ PlanNow(r) /\ RequestFit(r)
  BY TypedFields DEF RunInv
<1>3. r.job # "create" /\ r.snap = duel /\ duel.status = InProcess /\ r.due = {}
  BY <1>1, <1>2 DEF SnapNow, PlanNow, RequestFit
<1>4. duel \in DuelRow /\ players \in Seq(PlayerRow) /\ r.answer \in Answers
  BY <1>1, TypedFields DEF RunInv, Request
<1>5. PICK n \in Nat : n = Cardinality(r.winners)
  BY <1>2, FS_CardinalityType DEF RequestFit
<1>6. PICK model : model = [duel EXCEPT !.status = Resolved, !.finalResult = r.answer, !.winnersCount = n]
  OBVIOUS
<1>7. /\ model \in DuelRow /\ model.status = Resolved /\ model.playersCount = duel.playersCount
      /\ model.refundedPlayersCount = duel.refundedPlayersCount
  <2>1. Resolved \in Statuses
    BY DEF Statuses, NoStatus, Resolved, Refund
  <2> QED
    BY <1>4, <1>6, <2>1 DEF DuelRow
<1>8. /\ req' = [req EXCEPT ![h] = Idle] /\ UNCHANGED <<now, usdc, room, faultsLeft>>
      /\ duel' = Update(duel, model)
      /\ players' = UpdateDuelWinners(players, r.winners, r.amount)
  BY <1>3, <1>5, <1>6, Zenon DEF Settle, Become, chain
<1>9. /\ duel'.status = Resolved /\ duel'.playersCount = duel.playersCount
      /\ duel'.refundedPlayersCount = duel.refundedPlayersCount /\ duel'.owner = duel.owner
  BY <1>4, <1>7, <1>8, UpdateType, AllStatuses DEF NonZero
<1> QED
  BY <1>1, <1>3, <1>4, <1>8, <1>9, WinnersRows

LEMMA CancelUpdateAs ==
  ASSUME RunInv, NEW h \in Handlers, CancelUpdate(h), NEW r, r = req[h]
  PROVE  /\ r.pc = "cancelUpdate" /\ r.target \in Cancelled /\ r.due = {}
         /\ duel.status = IF r.target = Refund THEN InProcess ELSE InReview
         /\ UNCHANGED <<now, players, usdc, room, faultsLeft>>
         /\ duel'.status = r.target /\ duel'.playersCount = duel.playersCount
         /\ duel'.refundedPlayersCount = duel.refundedPlayersCount /\ duel'.owner = duel.owner
         /\ \E q : /\ req' = [req EXCEPT ![h] = q]
                   /\ q.pc = "cancelSeats" /\ q.job = r.job /\ q.target = r.target /\ q.due = r.due
<1>1. r.pc = "cancelUpdate" /\ r \in Request
  BY Mid DEF CancelUpdate, RunInv
<1>2. SnapNow(r) /\ PlanNow(r) /\ RequestFit(r)
  BY TypedFields DEF RunInv
<1>3. /\ r.job # "create" /\ r.snap = duel /\ r.due = {} /\ r.target \in Cancelled
      /\ duel.status = IF r.target = Refund THEN InProcess ELSE InReview
  BY <1>1, <1>2 DEF SnapNow, PlanNow, RequestFit
<1>4. duel \in DuelRow
  BY TypedFields DEF RunInv
<1>5. PICK model : model = [duel EXCEPT !.status = r.target]
  OBVIOUS
<1>6. /\ model \in DuelRow /\ model.status = r.target /\ model.playersCount = duel.playersCount
      /\ model.refundedPlayersCount = duel.refundedPlayersCount
  BY <1>1, <1>4, <1>5 DEF DuelRow, Request
<1>7. PICK q : q = [r EXCEPT !.pc = "cancelSeats"]
  OBVIOUS
<1>8. /\ req' = [req EXCEPT ![h] = q] /\ UNCHANGED <<now, players, usdc, room, faultsLeft>>
      /\ duel' = Update(duel, model)
  BY <1>3, <1>5, <1>7, Zenon DEF CancelUpdate, Go, Become, chain
<1>9. q.pc = "cancelSeats" /\ q.job = r.job /\ q.target = r.target /\ q.due = r.due
  BY <1>1, <1>7 DEF Request
<1>10. /\ duel'.status = r.target /\ duel'.playersCount = duel.playersCount
       /\ duel'.refundedPlayersCount = duel.refundedPlayersCount /\ duel'.owner = duel.owner
  BY <1>3, <1>4, <1>6, <1>8, UpdateType, AllStatuses DEF NonZero
<1> QED
  BY <1>1, <1>3, <1>8, <1>9, <1>10

LEMMA CancelSeatsAs ==
  ASSUME RunInv, NEW h \in Handlers, CancelSeats(h), NEW r, r = req[h]
  PROVE  /\ r.pc = "cancelSeats" /\ r.target \in Cancelled /\ duel.status = r.target
         /\ req' = [req EXCEPT ![h] = Idle] /\ UNCHANGED <<now, duel, usdc, room, faultsLeft>>
         /\ SameSeats
         /\ \A i \in Rows : /\ players'[i].finalStatus = PlayerRefunded
                            /\ players'[i].winAmount = players[i].winAmount
<1>1. r.pc = "cancelSeats" /\ SnapNow(r) /\ PlanNow(r)
  BY DEF CancelSeats, RunInv
<1>2. duel.status = r.target /\ r.target \in Cancelled
  BY <1>1 DEF SnapNow, PlanNow
<1>3. /\ req' = [req EXCEPT ![h] = Idle] /\ UNCHANGED <<now, duel, usdc, room, faultsLeft>>
      /\ players' = SetStatus(players, Rows, PlayerRefunded)
  BY Zenon DEF CancelSeats, Become, chain
<1>4. /\ SameSeats
      /\ \A i \in Rows : /\ players'[i].finalStatus = PlayerRefunded
                         /\ players'[i].winAmount = players[i].winAmount
  BY <1>3, SetStatusRows, TypedFields DEF RunInv
<1> QED
  BY <1>1, <1>2, <1>3, <1>4

LEMMA RecordRefundAs ==
  ASSUME RunInv, NEW h \in Handlers, RecordRefund(h), NEW r, r = req[h]
  PROVE  /\ r.pc = "recordRefund" /\ duel.status = InProcess /\ r.due = {}
         /\ UNCHANGED <<now, usdc, room, faultsLeft>>
         /\ duel'.status = duel.status /\ duel'.playersCount = duel.playersCount
         /\ duel'.owner = duel.owner
         /\ SameSeats
         /\ \A i \in Rows : /\ players'[i].finalStatus
                                 = (IF i \in r.list THEN PlayerRefunded ELSE players[i].finalStatus)
                            /\ players'[i].winAmount = players[i].winAmount
         /\ \E q : /\ req' = [req EXCEPT ![h] = q]
                   /\ q.pc = "unpaid" /\ q.job = r.job /\ q.target = r.target /\ q.due = r.due
                   /\ q.answer = r.answer /\ q.cutoff = r.cutoff
                   /\ q.winners = r.winners /\ q.list = r.list
<1>1. r.pc = "recordRefund" /\ r \in Request
  BY Mid DEF RecordRefund, RunInv
<1>2. SnapNow(r) /\ PlanNow(r) /\ RequestFit(r)
  BY TypedFields DEF RunInv
<1>3. r.job # "create" /\ r.snap = duel /\ duel.status = InProcess /\ r.due = {}
  BY <1>1, <1>2 DEF SnapNow, PlanNow, RequestFit
<1>4. duel \in DuelRow /\ players \in Seq(PlayerRow)
  BY TypedFields DEF RunInv
<1>5. PICK n \in Nat : n = Cardinality(r.list)
  BY <1>2, FS_CardinalityType DEF RequestFit
<1>6. PICK model : model = [duel EXCEPT !.refundedPlayersCount = @ + n]
  OBVIOUS
<1>7. model \in DuelRow
  BY <1>4, <1>6 DEF DuelRow
<1>8. model.status = duel.status /\ model.playersCount = duel.playersCount
  BY <1>4, <1>6 DEF DuelRow
<1>9. PICK q : q = [r EXCEPT !.pc = "unpaid", !.snap = model]
  OBVIOUS
<1>10. /\ req' = [req EXCEPT ![h] = q] /\ UNCHANGED <<now, usdc, room, faultsLeft>>
       /\ duel' = Update(duel, model)
       /\ players' = SetStatus(players, r.list, PlayerRefunded)
  BY <1>3, <1>5, <1>6, <1>9, Zenon DEF RecordRefund, Become, chain
<1>11. /\ q.pc = "unpaid" /\ q.job = r.job /\ q.target = r.target /\ q.due = r.due
       /\ q.answer = r.answer /\ q.cutoff = r.cutoff
       /\ q.winners = r.winners /\ q.list = r.list
  BY <1>1, <1>9 DEF Request
<1>12. /\ duel'.status = duel.status /\ duel'.playersCount = duel.playersCount
       /\ duel'.owner = duel.owner
  BY <1>4, <1>7, <1>8, <1>10, UpdateType, AllStatuses DEF NonZero
<1>13. /\ SameSeats
       /\ \A i \in Rows : /\ players'[i].finalStatus
                               = (IF i \in r.list THEN PlayerRefunded ELSE players[i].finalStatus)
                          /\ players'[i].winAmount = players[i].winAmount
  BY <1>4, <1>10, SetStatusRows
<1> QED
  BY <1>1, <1>3, <1>10, <1>11, <1>12, <1>13, Zenon

LEMMA ApprovalAs ==
  ASSUME RunInv, NEW h \in Handlers, Record(h), NEW r, r = req[h], r.job = "approve"
  PROVE  /\ r.pc = "record" /\ duel.status \notin Terminal
         /\ req' = [req EXCEPT ![h] = Idle] /\ UNCHANGED <<now, players, usdc, room, faultsLeft>>
         /\ duel'.status = InProcess /\ duel'.playersCount = duel.playersCount
         /\ duel'.refundedPlayersCount = duel.refundedPlayersCount /\ duel'.owner = duel.owner
<1>1. r.pc = "record"
  BY DEF Record
<1>2. SnapNow(r) /\ RequestFit(r)
  BY TypedFields DEF RunInv
<1>3. r.snap = duel /\ duel.status \notin Terminal
  BY <1>1, <1>2 DEF SnapNow
<1>4. duel \in DuelRow
  BY TypedFields DEF RunInv
<1>5. PICK model : model = [duel EXCEPT !.status = InProcess]
  OBVIOUS
<1>6. /\ model \in DuelRow /\ model.status = InProcess /\ model.playersCount = duel.playersCount
      /\ model.refundedPlayersCount = duel.refundedPlayersCount
  BY <1>4, <1>5, SMT DEF DuelRow, Statuses, NoStatus, InProcess, Refund
<1>7. /\ req' = [req EXCEPT ![h] = Idle] /\ UNCHANGED <<now, players, usdc, room, faultsLeft>>
      /\ duel' = Update(duel, model)
  BY <1>3, <1>5, Zenon DEF Record, Become, chain
<1>8. /\ duel'.status = InProcess /\ duel'.playersCount = duel.playersCount
      /\ duel'.refundedPlayersCount = duel.refundedPlayersCount /\ duel'.owner = duel.owner
  BY <1>4, <1>6, <1>7, UpdateType, AllStatuses DEF NonZero
<1> QED
  BY <1>1, <1>3, <1>7, <1>8

LEMMA SeatAs ==
  ASSUME RunInv, NEW h \in Handlers, Record(h), NEW r, r = req[h], r.job # "approve"
  PROVE  /\ r.pc = "record" /\ duel.status \notin Terminal /\ r.user \in Users
         /\ req' = [req EXCEPT ![h] = Idle] /\ UNCHANGED <<now, usdc, room, faultsLeft>>
         /\ duel'.status = r.snap.status /\ duel'.playersCount = duel.playersCount + 1
         /\ r.job = "create" => duel'.owner = r.snap.owner
         /\ r.job # "create" => duel'.owner = duel.owner
         /\ \E n \in Nat : /\ n \notin Rows /\ Rows' = Rows \cup {n}
                           /\ players'[n].user = r.user /\ players'[n].finalStatus = PlayerActive
                           /\ players'[n].winAmount = 0
                           /\ \A i \in Rows : players'[i] = players[i]
<1>1. r.pc = "record" /\ r \in Request
  BY Mid DEF Record, RunInv
<1>2. SnapNow(r) /\ RequestFit(r)
  BY TypedFields DEF RunInv
<1>3. PICK at \in Nat, seat \in PlayerRow :
           /\ seat = Seat(req[h].user, req[h].answer, at) /\ req[h].user \in Users
           /\ at \in req[h].since..now
           /\ players' = Append(players, seat)
           /\ seat.user = req[h].user /\ seat.createdAt = at
           /\ seat.finalStatus = PlayerActive /\ seat.sent = 0 /\ seat.winAmount = 0
           /\ Len(players') = Len(players) + 1
           /\ Rows' = Rows \cup {Len(players) + 1} /\ Len(players) + 1 \notin Rows
           /\ players'[Len(players) + 1] = seat
           /\ \A i \in Rows : players'[i] = players[i]
  BY SeatStep DEF RunInv
<1>4. PICK row : row = (IF r.job = "create" THEN r.snap ELSE duel) /\ duel' = SeatTaken(row, r.snap)
  BY DEF Record
<1>5. /\ row \in DuelRow /\ row.playersCount = duel.playersCount
      /\ duel.status \notin Terminal
  <2>1. duel \in DuelRow /\ r.snap \in DuelRow
    BY <1>1, TypedFields DEF RunInv, Request
  <2>2. r.job = "create" => r.snap.playersCount = 0 /\ duel.playersCount = 0
    BY <1>2 DEF SnapNow, NoDuel
  <2> QED
    BY <1>1, <1>2, <1>4, <2>1, <2>2 DEF SnapNow
<1>6. duel'.playersCount = row.playersCount + 1 /\ duel'.status = r.snap.status /\ duel'.owner = row.owner
  BY <1>4, <1>5 DEF SeatTaken, DuelRow
<1>7. req' = [req EXCEPT ![h] = Idle] /\ UNCHANGED <<now, usdc, room, faultsLeft>>
  BY DEF Record, Become, chain
<1>8. PICK n \in Nat : n = Len(players) + 1
  BY TypedFields DEF RunInv
<1>9. /\ n \notin Rows /\ Rows' = Rows \cup {n}
      /\ players'[n].user = r.user /\ players'[n].finalStatus = PlayerActive
      /\ players'[n].winAmount = 0
      /\ \A i \in Rows : players'[i] = players[i]
  BY <1>3, <1>8
<1> QED
  BY <1>1, <1>3, <1>4, <1>5, <1>6, <1>7, <1>9

LEMMA EditAs ==
  ASSUME RunInv, NEW h \in Handlers, NEW s \in Schedules, EditDuel(h, s)
  PROVE  /\ UNCHANGED <<now, players, usdc, room, req, faultsLeft>> /\ duel.status # NoStatus
         /\ duel'.status = duel.status /\ duel'.playersCount = duel.playersCount
         /\ duel'.refundedPlayersCount = duel.refundedPlayersCount /\ duel'.owner = duel.owner
<1>1. PICK model : model = [NoDuel EXCEPT !.deadline = s.deadline, !.eventDate = s.eventDate]
  OBVIOUS
<1>2. s.deadline \in Nat /\ s.eventDate \in Nat /\ duel \in DuelRow
  BY ClockAssumption, TypedFields DEF RunInv
<1>3. model \in DuelRow
  BY <1>1, <1>2, NoDuelType DEF DuelRow
<1>4. model.status = 0 /\ model.playersCount = 0 /\ model.refundedPlayersCount = 0
  BY <1>1, AllStatuses DEF NoDuel
<1>5. /\ duel' = Update(duel, model) /\ duel.status # NoStatus
      /\ UNCHANGED <<now, players, usdc, room, req, faultsLeft>>
  BY <1>1 DEF EditDuel, chain
<1>6. /\ duel'.status = duel.status /\ duel'.playersCount = duel.playersCount
      /\ duel'.refundedPlayersCount = duel.refundedPlayersCount /\ duel'.owner = duel.owner
  BY <1>2, <1>3, <1>4, <1>5, UpdateType DEF NonZero
<1> QED
  BY <1>5, <1>6

\* q pays the winners that r has counted, or there are none to pay
PaysWinners(r, q) ==
    \/ q = Idle
    \/ /\ q.pc = "pay" /\ q.next = "ownerReward"
       /\ q.list = GetCryptoDuelWinners(r.answer) /\ q.due = q.list
       /\ q.amount = FinalCryptoReward(PoolOf(r), Commission, Cardinality(r.winners))
       /\ q.job = r.job /\ q.snap = r.snap /\ q.winners = r.winners
       /\ q.answer = r.answer /\ q.cutoff = r.cutoff

LEMMA ReadUnpaidWinnersAs ==
  ASSUME RunInv, NEW h \in Handlers, ReadUnpaidWinners(h), NEW r, r = req[h]
  PROVE  /\ r.pc = "unpaid" /\ UNCHANGED <<now, duel, players, usdc, room, faultsLeft>>
         /\ \E q : req' = [req EXCEPT ![h] = q] /\ PaysWinners(r, q)
<1>1. r.pc = "unpaid" /\ r \in Request
  BY Mid DEF ReadUnpaidWinners, RunInv
<1>2. PICK list : list = GetCryptoDuelWinners(r.answer)
  OBVIOUS
<1>3. PICK amount : amount = FinalCryptoReward(PoolOf(r), Commission, Cardinality(r.winners))
  OBVIOUS
<1>4. /\ req' = [req EXCEPT ![h] = IF list = {} THEN Idle ELSE Paying(r, list, amount, "ownerReward")]
      /\ UNCHANGED <<now, duel, players, usdc, room, faultsLeft>>
  BY <1>2, <1>3, Zenon DEF ReadUnpaidWinners, Become, db, chain
<1>5. CASE list = {}
  <2>1. req' = [req EXCEPT ![h] = Idle] /\ PaysWinners(r, Idle)
    BY <1>4, <1>5 DEF PaysWinners
  <2> QED
    BY <1>1, <1>4, <2>1, Zenon
<1>6. CASE list # {}
  <2>1. PICK q : q = Paying(r, list, amount, "ownerReward")
    OBVIOUS
  <2>2. /\ q.pc = "pay" /\ q.list = list /\ q.due = list /\ q.next = "ownerReward"
        /\ q.amount = amount
        /\ q.job = r.job /\ q.snap = r.snap /\ q.winners = r.winners
        /\ q.answer = r.answer /\ q.cutoff = r.cutoff
    BY <1>1, <1>6, <2>1, PayingFields
  <2>3. req' = [req EXCEPT ![h] = q]
    BY <1>4, <1>6, <2>1
  <2>4. PaysWinners(r, q)
    BY <1>2, <1>3, <2>2, Zenon DEF PaysWinners
  <2> QED
    BY <1>1, <1>4, <2>3, <2>4, Zenon
<1> QED
  BY <1>5, <1>6

-----------------------------------------------------------------------------
(* A place for the next player *)

\* the request that runs has paid for a seat it has not taken yet
OnTheWay(r) == IF r.pc = "record" /\ r.job # "approve" THEN 1 ELSE 0

\* Until something fails, the stakes in the room are those of the seats and of the
\* request on its way to one, the room has been given the seats they need, and it
\* is closed by the request that closes the duel.
PlaceNow(r) ==
    /\ duel.status = InReview => players # <<>>
    /\ r.job = "approve" => duel.status = InReview
    /\ r.job = "join" => duel.status = InProcess
    /\ room.state = "closed" => duel.status \in Terminal \/ r.pc \in {"settle", "cancelUpdate"}
    /\ room.state = "open" =>
          /\ duel.status \notin Terminal /\ r.pc \notin {"settle", "cancelUpdate"}
          /\ room.seats = SeatsPerAllocation * ((Entries - 1) \div SeatsPerAllocation + 1)
    /\ room.state # "none" =>
          /\ Entries = duel.playersCount + OnTheWay(r) /\ Entries > 0
          /\ duel.status \in Unplayed => r.pc = "record" /\ r.job = "approve"

RoomInv == RunInv /\ (Faults = 0 => \A h \in Handlers : PlaceNow(req[h]))

\* what has not failed after a step had not failed before it
LEMMA NoFaultYet ==
  ASSUME RunInv, RunInv', Faults' = 0, UNCHANGED faultsLeft \/ faultsLeft' = faultsLeft - 1
  PROVE  faultsLeft' = faultsLeft /\ Faults = 0
<1>1. faultsLeft \in 0..MaxFaults /\ MaxFaults \in Nat
  BY TypedFields, ClockAssumption DEF RunInv
<1>2. faultsLeft' \in 0..MaxFaults
  BY DEF RunInv, CryptoInv, TypeOK
<1>3. Faults = MaxFaults - faultsLeft /\ MaxFaults - faultsLeft' = 0
  BY DEF Faults
<1>4. \A left, next \in 0..MaxFaults :
         MaxFaults - next = 0 /\ (next = left \/ next = left - 1) => next = left /\ MaxFaults - left = 0
  BY <1>1
<1> QED
  BY <1>1, <1>2, <1>3, <1>4, Zenon

\* a transaction that does not fail
LEMMA NoFaultThen ==
  ASSUME RunInv, RunInv', Faults' = 0, NEW o, NEW failures, NEW possible, Attempt(o, failures, possible)
  PROVE  /\ faultsLeft' = faultsLeft /\ Faults = 0
         /\ o = IF possible THEN Done ELSE Nothing
<1>1. faultsLeft' = faultsLeft /\ Faults = 0
  BY NoFaultYet DEF Attempt
<1>2. faultsLeft \in Nat
  BY FaultsCounted
<1> QED
  BY <1>1, <1>2 DEF Attempt

LEMMA PlaceSteps ==
  ASSUME RoomInv, OneAtATime, RunInv', NEW h \in Handlers, NEW q, req' = [req EXCEPT ![h] = q],
         Faults' = 0 => PlaceNow(q)'
  PROVE  RoomInv'
<1>1. \A g \in Handlers : req'[g] = q
  BY OneRequest DEF RoomInv, RunInv
<1>2. Faults' = 0 => \A g \in Handlers : PlaceNow(req[g])'
  BY <1>1 DEF PlaceNow, OnTheWay
<1> QED
  BY <1>2 DEF RoomInv

\* a step that leaves the duel and the room
LEMMA PlaceStays ==
  ASSUME NEW r, NEW q, PlaceNow(r), UNCHANGED <<duel, room>>,
         UNCHANGED players \/ duel.status # InReview,
         r.pc \notin {"record", "settle", "cancelUpdate"}, q.pc # "record",
         room.state = "none" \/ q.pc \notin {"settle", "cancelUpdate"},
         q.job = "approve" => duel.status = InReview,
         q.job = "join" => duel.status = InProcess
  PROVE  PlaceNow(q)'
<1>1. Entries' = Entries
  BY DEF Entries
<1> QED
  BY <1>1, Zenon DEF PlaceNow, OnTheWay

\* nothing is in a room that was not made
LEMMA NoStakes ==
  ASSUME CryptoInv, room.state = "none"
  PROVE  Entries = 0
<1>1. \A u \in Users : room.entries[u] = 0
  BY DEF CryptoInv, StakesIn
<1>2. DOMAIN room.entries = Users /\ IsFiniteSet(Users)
  BY TypedFields, WalletsAssumption
<1>3. Entries = SumFunctionOnSet(room.entries, Users)
  BY <1>2, Zenon DEF Entries, SumFunction
<1>4. PICK f : f = room.entries
  OBVIOUS
<1>5. SumFunctionOnSet(f, Users) = Cardinality(Users) * 0
  BY <1>1, <1>2, <1>4, SumOfConstant
<1>6. Cardinality(Users) \in Nat
  BY <1>2, FS_CardinalityType
<1> QED
  BY <1>3, <1>4, <1>5, <1>6

LEMMA ArrivedPlace ==
  ASSUME RoomInv, OneAtATime, RunInv', NEW h \in Handlers, Arrived(h)
  PROVE  RoomInv'
<1>1. PICK r : r = req[h]
  OBVIOUS
<1>2. PICK q : /\ req' = [req EXCEPT ![h] = q] /\ UNCHANGED <<duel, players, room, faultsLeft>>
               /\ r.pc = "idle" /\ duel.status \notin Terminal /\ duel.status # NoStatus
               /\ q.pc \in {"charge", "publish", "winners", "everybody", "cancelUpdate"}
               /\ q.pc = "charge" <=> q.job \in {"join", "approve"}
               /\ q.job = "approve" => duel.status = InReview
               /\ q.job = "join" => \A i \in Rows : players[i].user # q.user
               /\ q.job = "join" => duel.status = InProcess \/ duel.owner = q.user
               /\ q.pc = "cancelUpdate" =>
                         \/ duel.status = InReview /\ q.target \in {AdminCancelled, AutoCancelled}
                         \/ duel.status = InProcess /\ q.target = Refund /\ ~(duel.playersCount > 0)
  BY <1>1, ArrivedAs, Zenon
<1>3. ASSUME Faults' = 0 PROVE PlaceNow(q)'
  <2>1. PlaceNow(r)
    BY <1>1, <1>2, <1>3, NoFaultYet DEF RoomInv
  <2>2. duel.status \in {InProcess, InReview} /\ duel.playersCount \in Nat /\ CryptoInv
    BY <1>2, AllStatuses, TypedFields DEF RoomInv, RunInv, DuelRow, Statuses
  <2>3. duel.status = InReview => room.state = "none"
    BY <1>2, <2>1 DEF PlaceNow, Unplayed
  <2>4. q.job = "join" => duel.status = InProcess
    <3>1. SUFFICES ASSUME q.job = "join", duel.status = InReview PROVE FALSE
      BY <2>2
    <3>2. players # <<>> /\ room.state = "none" /\ duel.owner = q.user
      BY <1>2, <2>1, <2>3, <3>1, AllStatuses DEF PlaceNow
    <3>3. Len(players) = 1 /\ players[1].user = duel.owner
      BY <2>2, <3>2, NoRoomYet
    <3>4. 1 \in Rows
      BY <2>2, <3>3, TypedFields, LenProperties DEF Rows
    <3> QED
      BY <1>2, <3>1, <3>2, <3>3, <3>4
  <2>5. q.pc = "cancelUpdate" => room.state = "none"
    <3>1. duel.status = InProcess /\ ~(duel.playersCount > 0) => room.state = "none"
      <4>1. OnTheWay(r) = 0
        BY <1>2 DEF OnTheWay
      <4> QED
        BY <2>1, <2>2, <4>1 DEF PlaceNow
    <3> QED
      BY <1>2, <2>3, <3>1
  <2> QED
    BY <1>2, <2>1, <2>4, <2>5, PlaceStays
<1> QED
  BY <1>2, <1>3, PlaceSteps

LEMMA CreatePlace ==
  ASSUME RoomInv, OneAtATime, RunInv', NEW h \in Handlers, NEW u \in Creators,
         NEW s \in Schedules, NEW answer \in Answers, CreateNewCryptoDuel(h, u, s, answer)
  PROVE  RoomInv'
<1>1. PICK r : r = req[h] /\ r.pc = "idle"
  BY DEF CreateNewCryptoDuel, Arrives
<1>2. PICK snap : snap = DuelByCreateReq(u, TRUE, s)
  OBVIOUS
<1>3. PICK q : q = [Idle EXCEPT !.pc = "charge", !.job = "create", !.user = u,
                              !.snap = snap, !.answer = answer, !.since = now]
  OBVIOUS
<1>4. q.pc = "charge" /\ q.job = "create"
  BY <1>3 DEF Idle
<1>5. req' = [req EXCEPT ![h] = q] /\ UNCHANGED <<duel, players, room, faultsLeft>>
  BY <1>2, <1>3, Zenon DEF CreateNewCryptoDuel, Become, db, chain
<1>6. ASSUME Faults' = 0 PROVE PlaceNow(q)'
  <2>1. PlaceNow(r)
    BY <1>1, <1>5, <1>6, NoFaultYet DEF RoomInv
  <2> QED
    BY <1>1, <1>4, <1>5, <2>1, PlaceStays
<1> QED
  BY <1>5, <1>6, PlaceSteps

\* nothing is asked of a room when the last request has ended or failed
LEMMA IdlePlace ==
  ASSUME NEW r, PlaceNow(r), UNCHANGED <<duel, room>>,
         UNCHANGED players \/ duel.status # InReview,
         r.pc \notin {"record", "settle", "cancelUpdate"}
  PROVE  PlaceNow(Idle)'
<1>1. Idle.pc = "idle" /\ Idle.job = "none"
  BY DEF Idle
<1> QED
  BY <1>1, PlaceStays

LEMMA ReadsPlace ==
  ASSUME RoomInv, OneAtATime, RunInv', NEW h \in Handlers, ReadsOn(h)
  PROVE  RoomInv'
<1>1. PICK r : r = req[h]
  OBVIOUS
<1>2. PICK q : /\ req' = [req EXCEPT ![h] = q] /\ UNCHANGED <<duel, players, room, faultsLeft>>
               /\ r.pc \in {"winners", "refunds", "late", "everybody"}
               /\ q.job = r.job /\ q.pc \notin {"record", "settle"}
               /\ q.pc = "cancelUpdate" => players = <<>>
  BY <1>1, ReadsOnAs, Zenon DEF RoomInv
<1>3. ASSUME Faults' = 0 PROVE PlaceNow(q)'
  <2>1. PlaceNow(r)
    BY <1>1, <1>2, <1>3, NoFaultYet DEF RoomInv
  <2>2. r.job \in {"resolve", "cancel", "autoCancel"}
    BY <1>1, <1>2, TypedFields DEF RoomInv, RunInv, RequestFit
  <2>3. q.pc = "cancelUpdate" => room.state = "none"
    <3>1. OnTheWay(r) = 0
      BY <1>2 DEF OnTheWay
    <3>2. players = <<>> => duel.playersCount = 0
      BY DEF RoomInv, RunInv, RowsNow
    <3> QED
      BY <1>2, <2>1, <3>1, <3>2 DEF PlaceNow
  <2> QED
    BY <1>2, <2>1, <2>2, <2>3, PlaceStays
<1> QED
  BY <1>2, <1>3, PlaceSteps

LEMMA ReadUnpaidWinnersPlace ==
  ASSUME RoomInv, OneAtATime, RunInv', NEW h \in Handlers, ReadUnpaidWinners(h)
  PROVE  RoomInv'
<1>1. PICK r : r = req[h]
  OBVIOUS
<1>2. PICK q : /\ req' = [req EXCEPT ![h] = q] /\ PaysWinners(r, q)
               /\ r.pc = "unpaid" /\ UNCHANGED <<now, duel, players, usdc, room, faultsLeft>>
  BY <1>1, ReadUnpaidWinnersAs DEF RoomInv
<1>3. ASSUME Faults' = 0 PROVE PlaceNow(q)'
  <2>1. PlaceNow(r)
    BY <1>1, <1>2, <1>3, NoFaultYet DEF RoomInv
  <2>2. r.job \in {"resolve", "cancel", "autoCancel"}
    BY <1>1, <1>2, TypedFields DEF RoomInv, RunInv, RequestFit
  <2>3. CASE q = Idle
    BY <1>2, <2>1, <2>3, IdlePlace
  <2>4. CASE q.pc = "pay" /\ q.job = r.job
    BY <1>2, <2>1, <2>2, <2>4, PlaceStays
  <2> QED
    BY <1>2, <2>3, <2>4 DEF PaysWinners
<1> QED
  BY <1>2, <1>3, PlaceSteps

LEMMA PayPlace ==
  ASSUME RoomInv, OneAtATime, RunInv', NEW h \in Handlers, Pay(h)
  PROVE  RoomInv'
<1>1. PICK r \in Request : r = req[h] /\ r.pc = "pay"
  BY Mid DEF Pay, RoomInv, RunInv
<1>2. PICK o \in Outcomes, chunk \in SUBSET r.due : Transferred(h, r, o, chunk)
  BY <1>1, PayStep DEF RoomInv, RunInv
<1>3. duel.status = InProcess /\ r.job \in {"resolve", "cancel", "autoCancel"}
  BY <1>1, TypedFields DEF RoomInv, RunInv, SnapNow, RequestFit
<1>4. PICK possible : Attempt(o, Untracked, possible)
  BY <1>2 DEF Transferred
<1>5. UNCHANGED <<duel, room>> /\ duel.status # InReview
  BY <1>2, <1>3, AllStatuses DEF Transferred
<1>6. PICK q \in {Idle, ToPay(r, r.due \ chunk)} : req' = [req EXCEPT ![h] = q]
  BY <1>2 DEF Transferred
<1>7. ASSUME Faults' = 0 PROVE PlaceNow(q)'
  <2>1. PlaceNow(r)
    BY <1>1, <1>4, <1>7, NoFaultThen DEF RoomInv
  <2>2. CASE q = Idle
    BY <1>1, <1>5, <2>1, <2>2, IdlePlace
  <2>3. CASE q = ToPay(r, r.due \ chunk)
    <3>1. PICK left : left = r.due \ chunk
      OBVIOUS
    <3>2. q.pc = (IF left = {} THEN r.next ELSE "pay") /\ q.job = r.job
      BY <2>3, <3>1, ToPayFields
    <3>3. q.pc \in {"idle", "recordRefund", "ownerReward", "close", "pay"}
      BY <3>2 DEF Request
    <3> QED
      BY <1>1, <1>3, <1>5, <2>1, <3>2, <3>3, PlaceStays
  <2> QED
    BY <1>6, <2>2, <2>3
<1> QED
  BY <1>6, <1>7, PlaceSteps

LEMMA TransferPlace ==
  ASSUME RoomInv, OneAtATime, RunInv', NEW h \in Handlers, PayOwner(h) \/ PayReferrer(h)
  PROVE  RoomInv'
<1>1. PICK pc \in {"ownerReward", "referrerReward"}, next \in {"referrerReward", "close"} :
         \E to, amount : Transfer(h, to, amount, pc, next)
  BY DEF PayOwner, PayReferrer
<1>2. PICK to, amount : Transfer(h, to, amount, pc, next)
  BY <1>1
<1>3. PICK r : r = req[h]
  OBVIOUS
<1>4. PICK q : /\ UNCHANGED <<duel, players, room>> /\ r.pc = pc
               /\ req' = [req EXCEPT ![h] = q]
               /\ q = Idle \/ (q.pc = next /\ Alike(r, q))
  BY <1>2, <1>3, RewardAs DEF RoomInv, RunInv
<1>5. r.job \in {"resolve", "cancel", "autoCancel"}
  BY <1>3, <1>4, TypedFields DEF RoomInv, RunInv, RequestFit
<1>6. ASSUME Faults' = 0 PROVE PlaceNow(q)'
  <2>1. UNCHANGED faultsLeft \/ faultsLeft' = faultsLeft - 1
    BY <1>2 DEF Transfer, Attempt
  <2>2. PlaceNow(r)
    BY <1>3, <1>6, <2>1, NoFaultYet DEF RoomInv
  <2>3. CASE q = Idle
    BY <1>4, <2>2, <2>3, IdlePlace
  <2>4. CASE q.pc = next /\ Alike(r, q)
    BY <1>4, <1>5, <2>2, <2>4, PlaceStays DEF Alike
  <2> QED
    BY <1>4, <2>3, <2>4
<1> QED
  BY <1>4, <1>6, PlaceSteps

LEMMA ClosePlace ==
  ASSUME RoomInv, OneAtATime, RunInv', NEW h \in Handlers, CloseResolved(h) \/ CloseCancelled(h)
  PROVE  RoomInv'
<1>1. PICK r : r = req[h]
  OBVIOUS
<1>2. PICK next \in {"settle", "cancelUpdate"} :
           /\ Close(h, next) /\ UNCHANGED <<duel, players>>
           /\ r.pc = "close" /\ duel.status = InProcess
           /\ \E q : /\ req' = [req EXCEPT ![h] = q]
                     /\ q.pc = next /\ Alike(r, q)
  BY <1>1, CloseAs DEF RoomInv
<1>3. PICK q : req' = [req EXCEPT ![h] = q] /\ q.pc = next /\ Alike(r, q)
  BY <1>2
<1>4. PICK o \in Outcomes :
          /\ Attempt(o, Tracked, room.state = "open")
          /\ IF o.landed THEN room' = [room EXCEPT !.state = "closed"] ELSE UNCHANGED room
  BY <1>2 DEF Close, chain
<1>5. ASSUME Faults' = 0 PROVE PlaceNow(q)'
  <2>1. /\ Faults = 0
        /\ o = IF room.state = "open" THEN Done ELSE Nothing
    BY <1>4, <1>5, NoFaultThen DEF RoomInv
  <2>2. PlaceNow(r)
    BY <1>1, <2>1 DEF RoomInv
  <2>3. r.job \in {"resolve", "cancel", "autoCancel"} /\ q.job = r.job
    BY <1>1, <1>2, <1>3, TypedFields DEF RoomInv, RunInv, RequestFit, Alike
  <2>4. room.state \in {"none", "open"}
    BY <1>2, <2>2, AllStatuses, TypedFields DEF PlaceNow, RoomInv, RunInv
  <2>5. CASE room.state = "none"
    <3>1. UNCHANGED room
      BY <1>4, <2>1, <2>5 DEF Nothing
    <3> QED
      BY <1>2, <1>3, <2>2, <2>3, <2>5, <3>1, PlaceStays
  <2>6. CASE room.state = "open"
    <3>1. room' = [room EXCEPT !.state = "closed"]
      BY <1>4, <2>1, <2>6 DEF Done
    <3>2. room'.state = "closed" /\ room'.entries = room.entries
      BY <3>1, TypedFields DEF RoomInv, RunInv
    <3>3. Entries' = Entries
      BY <3>2 DEF Entries
    <3> QED
      BY <1>2, <1>3, <2>2, <2>3, <2>6, <3>2, <3>3, AllStatuses DEF PlaceNow, OnTheWay, Unplayed
  <2> QED
    BY <2>4, <2>5, <2>6
<1> QED
  BY <1>3, <1>5, PlaceSteps

LEMMA ClosingPlace ==
  ASSUME RoomInv, OneAtATime, RunInv', NEW h \in Handlers,
         Settle(h) \/ CancelUpdate(h) \/ CancelSeats(h)
  PROVE  RoomInv'
<1>1. PICK r : r = req[h]
  OBVIOUS
<1>2. PICK q : /\ req' = [req EXCEPT ![h] = q] /\ q.pc \in {"idle", "cancelSeats"}
               /\ q.job = "none" \/ q.job = r.job
  <2>1. Idle.pc = "idle" /\ Idle.job = "none"
    BY DEF Idle
  <2>2. CASE Settle(h)
    BY <1>1, <2>1, <2>2, SettleAs DEF RoomInv
  <2>3. CASE CancelUpdate(h)
    BY <1>1, <2>3, CancelUpdateAs DEF RoomInv
  <2>4. CASE CancelSeats(h)
    BY <1>1, <2>1, <2>4, CancelSeatsAs DEF RoomInv
  <2> QED
    BY <2>2, <2>3, <2>4
<1>3. /\ UNCHANGED <<room, faultsLeft>> /\ duel'.playersCount = duel.playersCount
      /\ r.pc \in {"settle", "cancelUpdate", "cancelSeats"}
      /\ duel'.status \in Terminal
      /\ r.pc = "cancelSeats" => duel.status \in Terminal
      /\ r.pc # "cancelSeats" => duel.status \in {InProcess, InReview}
      /\ duel'.status \in Unplayed => duel.status \in Unplayed
  <2>1. CASE Settle(h)
    BY <1>1, <2>1, SettleAs, AllStatuses DEF RoomInv, Unplayed
  <2>2. CASE CancelUpdate(h)
    BY <1>1, <2>2, CancelUpdateAs, AllStatuses DEF RoomInv, Unplayed
  <2>3. CASE CancelSeats(h)
    BY <1>1, <2>3, CancelSeatsAs, AllStatuses DEF RoomInv, Unplayed
  <2> QED
    BY <2>1, <2>2, <2>3
<1>4. ASSUME Faults' = 0 PROVE PlaceNow(q)'
  <2>1. PlaceNow(r)
    BY <1>1, <1>3, <1>4, NoFaultYet DEF RoomInv
  <2>2. Entries' = Entries
    BY <1>3 DEF Entries
  <2>3. r.job \in {"resolve", "cancel", "autoCancel"}
    BY <1>1, <1>3, TypedFields DEF RoomInv, RunInv, RequestFit
  <2>4. OnTheWay(r) = 0 /\ OnTheWay(q)' = 0
    BY <1>2, <1>3 DEF OnTheWay
  <2>5. room.state # "open"
    BY <1>3, <2>1, AllStatuses DEF PlaceNow
  <2>6. room.state # "none" => duel'.status \notin Unplayed
    BY <1>3, <2>1 DEF PlaceNow
  <2> QED
    BY <1>2, <1>3, <2>1, <2>2, <2>3, <2>4, <2>5, <2>6, AllStatuses DEF PlaceNow
<1> QED
  BY <1>2, <1>4, PlaceSteps

LEMMA RecordRefundPlace ==
  ASSUME RoomInv, OneAtATime, RunInv', NEW h \in Handlers, RecordRefund(h)
  PROVE  RoomInv'
<1>1. PICK r : r = req[h]
  OBVIOUS
<1>2. PICK q : /\ req' = [req EXCEPT ![h] = q] /\ q.pc = "unpaid" /\ q.job = r.job
               /\ r.pc = "recordRefund" /\ duel.status = InProcess /\ UNCHANGED <<room, faultsLeft>>
               /\ duel'.status = duel.status /\ duel'.playersCount = duel.playersCount
  <2>1. /\ r.pc = "recordRefund" /\ duel.status = InProcess /\ UNCHANGED <<room, faultsLeft>>
        /\ duel'.status = duel.status /\ duel'.playersCount = duel.playersCount
    BY <1>1, RecordRefundAs DEF RoomInv
  <2>2. PICK q : /\ req' = [req EXCEPT ![h] = q]
                 /\ q.pc = "unpaid" /\ q.job = r.job /\ q.target = r.target /\ q.due = r.due
                 /\ q.answer = r.answer /\ q.cutoff = r.cutoff
                 /\ q.winners = r.winners /\ q.list = r.list
    BY <1>1, RecordRefundAs, Zenon DEF RoomInv
  <2> QED
    BY <2>1, <2>2
<1>3. ASSUME Faults' = 0 PROVE PlaceNow(q)'
  <2>1. PlaceNow(r)
    BY <1>1, <1>2, <1>3, NoFaultYet DEF RoomInv
  <2>2. Entries' = Entries
    BY <1>2 DEF Entries
  <2>3. r.job \in {"resolve", "cancel", "autoCancel"}
    BY <1>1, <1>2, TypedFields DEF RoomInv, RunInv, RequestFit
  <2>4. OnTheWay(r) = 0 /\ OnTheWay(q)' = 0
    BY <1>2 DEF OnTheWay
  <2> QED
    BY <1>2, <2>1, <2>2, <2>3, <2>4, AllStatuses DEF PlaceNow, Unplayed
<1> QED
  BY <1>2, <1>3, PlaceSteps

\* after a fault nothing is asked of the room
LEMMA AbortPlace ==
  ASSUME RoomInv, OneAtATime, RunInv', NEW h \in Handlers, Abort(h)
  PROVE  RoomInv'
<1>1. Faults' # 0
  <2>1. faultsLeft' = faultsLeft - 1 /\ faultsLeft \in Nat
    BY FaultsCounted DEF Abort, RoomInv
  <2>2. ASSUME Faults' = 0 PROVE faultsLeft' = faultsLeft
    BY <2>1, <2>2, NoFaultYet DEF RoomInv
  <2> QED
    BY <2>1, <2>2
<1> QED
  BY <1>1 DEF RoomInv

LEMMA ClockPlace ==
  ASSUME RoomInv, RunInv', Tick \/ UNCHANGED vars
  PROVE  RoomInv'
<1>1. UNCHANGED <<duel, players, room, req, faultsLeft>>
  BY DEF Tick, vars, db, chain
<1>2. Entries' = Entries /\ Faults' = Faults
  BY <1>1 DEF Entries, Faults
<1>3. \A g \in Handlers : PlaceNow(req[g]) => PlaceNow(req[g])'
  BY <1>1, <1>2 DEF PlaceNow, OnTheWay
<1> QED
  BY <1>2, <1>3 DEF RoomInv

LEMMA ChargePlace ==
  ASSUME RoomInv, OneAtATime, RunInv', NEW h \in Handlers, Charge(h)
  PROVE  RoomInv'
<1>1. PICK r \in Request : r = req[h] /\ r.pc = "charge" /\ RequestFit(r) /\ SnapNow(r)
  BY Mid DEF Charge, RoomInv, RunInv
<1>2. PICK user \in Users : user = r.user
  BY <1>1 DEF RequestFit
<1>3. PICK on : on = [r EXCEPT !.pc = "record"]
  OBVIOUS
<1>4. on.pc = "record" /\ on.job = r.job
  BY <1>3 DEF Request
<1>5. PICK o \in Outcomes :
          /\ Attempt(o, Tracked, CanEnter(r))
          /\ IF o.landed
               THEN room' = [state |-> "open", seats |-> SeatsAfter(r),
                             entries |-> [room.entries EXCEPT ![user] = @ + 1]]
               ELSE UNCHANGED room
          /\ req' = [req EXCEPT ![h] = IF o.told THEN on ELSE Idle]
  BY <1>1, <1>2, <1>3 DEF Charge, Go, Become, chain
<1>6. UNCHANGED <<duel, players>>
  BY DEF Charge, db
<1>7. PICK q \in {on, Idle} : req' = [req EXCEPT ![h] = q] /\ (q = on <=> o.told)
  <2>1. on # Idle
    BY <1>4 DEF Idle
  <2> QED
    BY <1>5, <2>1
<1>8. CryptoInv /\ Entries \in Nat /\ duel \in DuelRow /\ duel.playersCount \in Nat
  BY EntriesType, TypedFields DEF RoomInv, RunInv, DuelRow
<1>9. ASSUME Faults' = 0 PROVE PlaceNow(q)'
  <2>1. /\ Faults = 0
        /\ o = IF CanEnter(r) THEN Done ELSE Nothing
    BY <1>5, <1>9, NoFaultThen DEF RoomInv
  <2>2. PlaceNow(r)
    BY <1>1, <2>1 DEF RoomInv
  <2>3. CASE ~CanEnter(r)
    <3>1. UNCHANGED room /\ q = Idle
      BY <1>5, <1>7, <2>1, <2>3 DEF Nothing
    <3> QED
      BY <1>1, <1>6, <2>2, <3>1, IdlePlace
  <2>4. CASE CanEnter(r)
    <3>1. /\ room'.state = "open" /\ room'.seats = SeatsAfter(r)
          /\ room'.entries = [room.entries EXCEPT ![user] = @ + 1] /\ q = on
      BY <1>5, <1>7, <2>1, <2>4 DEF Done
    <3>2. Entries' = Entries + 1
      <4>1. PICK f : f = room.entries
        OBVIOUS
      <4>2. PICK g : g = [f EXCEPT ![user] = @ + 1]
        OBVIOUS
      <4>3. f \in [Users -> Nat] /\ IsFiniteSet(Users)
        BY <1>8, <4>1, TypedFields, WalletsAssumption
      <4>4. /\ g \in [Users -> Nat] /\ g[user] = f[user] + 1 /\ f[user] \in Nat
            /\ \A u \in Users \ {user} : g[u] = f[u]
        BY <4>2, <4>3
      <4>5. IntOn(f, Users) /\ IntOn(g, Users)
        BY <4>3, <4>4 DEF IntOn
      <4>6. SumFunctionOnSet(g, Users) = SumFunctionOnSet(f, Users) + g[user] - f[user]
        BY <4>3, <4>4, <4>5, SumOfChanged
      <4>7. room'.entries = g /\ DOMAIN g = Users /\ DOMAIN f = Users
        BY <3>1, <4>1, <4>2, <4>3
      <4>8. Entries = SumFunctionOnSet(f, Users)
        BY <4>1, <4>7, Zenon DEF Entries, SumFunction
      <4>9. Entries' = SumFunctionOnSet(g, Users)
        BY <4>7, Zenon DEF Entries, SumFunction
      <4> QED
        BY <1>8, <4>4, <4>6, <4>8, <4>9
    <3>3. PICK n \in Nat : n = Entries /\ Entries' = n + 1
      BY <1>8, <3>2
    <3>4. SeatsPerAllocation \in Nat \ {0}
      BY BatchAssumption
    <3>5. room'.seats = SeatsPerAllocation * (n \div SeatsPerAllocation + 1)
          /\ Entries' = duel.playersCount + OnTheWay(on)
      <4>1. CASE MakesRoom(r)
        <5>1. room.state = "none" /\ SeatsAfter(r) = SeatsPerAllocation
          BY <2>4, <4>1 DEF CanEnter, SeatsAfter
        <5>2. n = 0
          BY <1>8, <3>3, <5>1, NoStakes
        <5>3. n \div SeatsPerAllocation = 0
          BY <3>4, <5>2
        <5>4. duel.playersCount + OnTheWay(on) = 1
          <6>1. CASE r.job = "approve"
            <7>1. duel.status = InReview /\ players # <<>>
              BY <2>2, <6>1 DEF PlaceNow
            <7>2. Len(players) = 1 /\ duel.playersCount = Len(players)
              BY <1>8, <5>1, <7>1, NoRoomYet DEF RoomInv, RunInv, RowsNow
            <7> QED
              BY <1>4, <6>1, <7>2 DEF OnTheWay
          <6>2. CASE r.job = "create"
            BY <1>1, <1>4, <6>2 DEF OnTheWay, SnapNow, NoDuel
          <6>3. CASE r.job = "join"
            BY <1>1, <1>4, <4>1, <6>3 DEF OnTheWay, SnapNow, MakesRoom
          <6> QED
            BY <1>1, <6>1, <6>2, <6>3 DEF RequestFit
        <5> QED
          BY <3>1, <3>3, <3>4, <5>1, <5>2, <5>3, <5>4
      <4>2. CASE ~MakesRoom(r)
        <5>1. r.job = "join" /\ room.state = "open" /\ duel.playersCount # 0
          BY <1>1, <2>4, <4>2 DEF MakesRoom, SnapNow, CanEnter
        <5>2. /\ n = duel.playersCount
              /\ room.seats = SeatsPerAllocation * ((n - 1) \div SeatsPerAllocation + 1)
          BY <1>1, <1>8, <2>2, <3>3, <5>1 DEF PlaceNow, OnTheWay
        <5>3. SeatsAfter(r) = room.seats + (IF n \div SeatsPerAllocation + 1
                                                 # (n - 1) \div SeatsPerAllocation + 1
                                              THEN SeatsPerAllocation ELSE 0)
          BY <1>1, <4>2, <5>1, <5>2 DEF SeatsAfter, SnapNow, Reallocates
        <5>4. n \in Nat \ {0}
          BY <5>1, <5>2
        <5>5. PICK d \in Nat, e \in Nat : /\ d = n \div SeatsPerAllocation
                                          /\ e = (n - 1) \div SeatsPerAllocation
                                          /\ d = e \/ d = e + 1
          BY <3>4, <5>4, NextAllocation
        <5>6. SeatsPerAllocation * (e + 1) + SeatsPerAllocation = SeatsPerAllocation * (e + 2)
          BY <3>4
        <5>7. room.seats + (IF d + 1 # e + 1 THEN SeatsPerAllocation ELSE 0)
                = SeatsPerAllocation * (d + 1)
          <6>1. CASE d = e
            BY <3>4, <5>2, <5>5, <6>1
          <6>2. CASE d = e + 1
            <7>1. d + 1 = e + 2 /\ d + 1 # e + 1
              BY <5>5, <6>2
            <7> QED
              BY <5>2, <5>5, <5>6, <7>1
          <6> QED
            BY <5>5, <6>1, <6>2
        <5>8. OnTheWay(on) = 1
          BY <1>4, <5>1 DEF OnTheWay
        <5> QED
          BY <3>1, <3>3, <5>2, <5>3, <5>5, <5>7, <5>8
      <4> QED
        BY <4>1, <4>2
    <3>6. room'.seats = SeatsPerAllocation * ((Entries' - 1) \div SeatsPerAllocation + 1)
      <4>1. Entries' - 1 = n
        BY <3>3
      <4> QED
        BY <3>5, <4>1
    <3>7. Entries' > 0 /\ OnTheWay(on)' = OnTheWay(on)
      BY <3>3 DEF OnTheWay
    <3>8. duel.status \notin Terminal
      BY <1>1 DEF SnapNow
    <3>9. duel.status \in Unplayed => r.job = "approve"
      <4>1. r.job = "create" => duel.status = NoStatus
        BY <1>1 DEF SnapNow, NoDuel
      <4> QED
        BY <1>1, <2>2, <4>1, AllStatuses DEF RequestFit, PlaceNow, Unplayed
    <3> QED
      BY <1>4, <1>6, <2>2, <3>1, <3>5, <3>6, <3>7, <3>8, <3>9 DEF PlaceNow
  <2> QED
    BY <2>3, <2>4
<1> QED
  BY <1>7, <1>9, PlaceSteps

LEMMA RecordPlace ==
  ASSUME RoomInv, OneAtATime, RunInv', NEW h \in Handlers, Record(h)
  PROVE  RoomInv'
<1>1. PICK r \in Request : r = req[h] /\ r.pc = "record" /\ RequestFit(r) /\ SnapNow(r)
  BY Mid DEF Record, RoomInv, RunInv
<1>2. /\ req' = [req EXCEPT ![h] = Idle] /\ UNCHANGED <<room, faultsLeft>>
      /\ duel.status \notin Terminal
  <2>1. CASE r.job = "approve"
    BY <1>1, <2>1, ApprovalAs DEF RoomInv
  <2>2. CASE r.job # "approve"
    BY <1>1, <2>2, SeatAs DEF RoomInv
  <2> QED
    BY <2>1, <2>2
<1>3. ASSUME Faults' = 0 PROVE PlaceNow(Idle)'
  <2>1. PlaceNow(r)
    BY <1>1, <1>2, <1>3, NoFaultYet DEF RoomInv
  <2>2. /\ duel'.status = InProcess
        /\ duel'.playersCount = duel.playersCount + OnTheWay(r)
    <3>1. CASE r.job = "approve"
      <4>1. duel'.status = InProcess /\ duel'.playersCount = duel.playersCount
        BY <1>1, <3>1, ApprovalAs DEF RoomInv
      <4>2. duel.playersCount \in Nat
        BY TypedFields DEF RoomInv, RunInv, DuelRow
      <4> QED
        BY <3>1, <4>1, <4>2 DEF OnTheWay
    <3>2. CASE r.job # "approve"
      <4>1. duel'.status = r.snap.status /\ duel'.playersCount = duel.playersCount + 1
        BY <1>1, <3>2, SeatAs DEF RoomInv
      <4>2. r.snap.status = InProcess
        BY <1>1, <2>1, <3>2 DEF SnapNow, RequestFit, PlaceNow
      <4> QED
        BY <1>1, <3>2, <4>1, <4>2 DEF OnTheWay
    <3> QED
      BY <3>1, <3>2
  <2>3. room.state = "open"
    <3>1. room.state # "none"
      BY <1>1 DEF RoomInv, RunInv, CryptoInv, StakesIn
    <3> QED
      BY <1>1, <1>2, <2>1, <3>1, TypedFields DEF PlaceNow, RoomInv, RunInv
  <2>4. Entries' = Entries
    BY <1>2 DEF Entries
  <2>5. Idle.pc = "idle" /\ Idle.job = "none" /\ OnTheWay(Idle)' = 0
    BY DEF Idle, OnTheWay
  <2>6. duel.playersCount \in Nat
    BY TypedFields DEF RoomInv, RunInv, DuelRow
  <2> QED
    BY <1>2, <2>1, <2>2, <2>3, <2>4, <2>5, <2>6, AllStatuses DEF PlaceNow, Unplayed, OnTheWay
<1> QED
  BY <1>2, <1>3, PlaceSteps

\* a duel approved without a charge has no room
LEMMA PublishPlace ==
  ASSUME RoomInv, OneAtATime, RunInv', NEW h \in Handlers, PublishUncharged(h)
  PROVE  RoomInv'
<1>1. /\ req[h].pc = "publish" /\ duel.status = InReview
      /\ req' = [req EXCEPT ![h] = Idle] /\ UNCHANGED <<room, faultsLeft>>
      /\ duel'.status = InProcess
  BY PublishAs DEF RoomInv
<1>2. ASSUME Faults' = 0 PROVE PlaceNow(Idle)'
  <2>1. PlaceNow(req[h])
    BY <1>1, <1>2, NoFaultYet DEF RoomInv
  <2>2. room.state = "none"
    BY <1>1, <2>1 DEF PlaceNow, Unplayed
  <2>3. Idle.pc = "idle" /\ Idle.job = "none"
    BY DEF Idle
  <2> QED
    BY <1>1, <2>2, <2>3, AllStatuses DEF PlaceNow
<1> QED
  BY <1>1, <1>2, PlaceSteps

\* what is done at once, while no request runs
LEMMA AtOncePlace ==
  ASSUME RoomInv, OneAtATime, RunInv', NEW h \in Handlers, req[h].pc = "idle",
         UNCHANGED <<req, faultsLeft>>,
         PlaceNow(Idle) => PlaceNow(Idle)'
  PROVE  RoomInv'
<1>1. req[h] = Idle
  BY TypedFields DEF RequestFit, RoomInv, RunInv
<1>2. req' = [req EXCEPT ![h] = Idle]
  BY <1>1, TypedFields DEF RoomInv, RunInv
<1>3. ASSUME Faults' = 0 PROVE PlaceNow(Idle)'
  BY <1>1, <1>3, NoFaultYet DEF RoomInv
<1> QED
  BY <1>2, <1>3, PlaceSteps

LEMMA OpeningPlace ==
  ASSUME RoomInv, OneAtATime, RunInv', NEW h \in Handlers, NEW s \in Schedules,
         \/ \E u \in Admins, crypto \in BOOLEAN : CreateNewCryptoDuelAdmin(h, u, crypto, s)
         \/ \E u \in Creators, answer \in Answers : CreateInReview(h, u, s, answer)
         \/ EditDuel(h, s)
  PROVE  RoomInv'
<1>1. Idle.pc = "idle" /\ Idle.job = "none"
  BY DEF Idle
<1>2. /\ req[h].pc = "idle" /\ UNCHANGED <<room, req, faultsLeft>>
  BY DEF CreateNewCryptoDuelAdmin, CreateInReview, EditDuel, Arrives, chain
<1>3. Entries' = Entries
  BY <1>2 DEF Entries
<1>4. CASE EditDuel(h, s)
  <2>1. UNCHANGED players /\ duel'.status = duel.status /\ duel'.playersCount = duel.playersCount
    BY <1>4, EditAs DEF RoomInv
  <2>2. PlaceNow(Idle) => PlaceNow(Idle)'
    BY <1>1, <1>2, <1>3, <2>1 DEF PlaceNow, OnTheWay
  <2> QED
    BY <1>2, <2>2, AtOncePlace
<1>5. CASE \E u \in Admins, crypto \in BOOLEAN : CreateNewCryptoDuelAdmin(h, u, crypto, s)
  <2>1. PICK u \in Admins, crypto \in BOOLEAN : CreateNewCryptoDuelAdmin(h, u, crypto, s)
    BY <1>5
  <2>2. room.state = "none"
    BY <2>1 DEF CreateNewCryptoDuelAdmin, FreshDuel, NoRoom
  <2>3. duel'.status = InProcess
    <3>1. PICK row : row = DuelByCreateReq(u, crypto, s)
      OBVIOUS
    <3>2. row \in DuelRow
      BY <3>1, CreateReqType, TypedFields, WalletsAssumption DEF RoomInv, RunInv
    <3>3. duel' = [row EXCEPT !.status = InProcess]
      BY <2>1, <3>1 DEF CreateNewCryptoDuelAdmin
    <3> QED
      BY <3>2, <3>3 DEF DuelRow
  <2>4. PlaceNow(Idle)'
    BY <1>1, <1>2, <2>2, <2>3, AllStatuses DEF PlaceNow
  <2> QED
    BY <1>2, <2>4, AtOncePlace
<1>6. CASE \E u \in Creators, answer \in Answers : CreateInReview(h, u, s, answer)
  <2>1. PICK u \in Creators, answer \in Answers : CreateInReview(h, u, s, answer)
    BY <1>6
  <2>2. room.state = "none"
    BY <2>1 DEF CreateInReview, FreshDuel, NoRoom
  <2>3. players' # <<>>
    BY <2>1 DEF CreateInReview
  <2>4. PlaceNow(Idle)'
    BY <1>1, <1>2, <2>2, <2>3 DEF PlaceNow
  <2> QED
    BY <1>2, <2>4, AtOncePlace
<1> QED
  BY <1>4, <1>5, <1>6

LEMMA InitPlace == Init => RoomInv
<1> SUFFICES ASSUME Init PROVE RoomInv
  OBVIOUS
<1>1. RunInv /\ room.state = "none" /\ duel.status = NoStatus
  BY InitRuns DEF Init, NoRoom, NoDuel
<1>2. \A h \in Handlers : req[h].pc = "idle" /\ req[h].job = "none"
  BY DEF Init, Idle
<1> QED
  BY <1>1, <1>2, AllStatuses DEF RoomInv, PlaceNow

LEMMA ContinuePlace ==
  ASSUME RoomInv, OneAtATime, RunInv', NEW h \in Handlers, Continue(h)
  PROVE  RoomInv'
<1>1. CASE Charge(h) \/ Record(h) \/ PublishUncharged(h)
  BY <1>1, ChargePlace, RecordPlace, PublishPlace
<1>2. CASE ReadsOn(h)
  BY <1>2, ReadsPlace
<1>3. CASE RecordRefund(h) \/ ReadUnpaidWinners(h)
  BY <1>3, RecordRefundPlace, ReadUnpaidWinnersPlace
<1>4. CASE Pay(h) \/ PayOwner(h) \/ PayReferrer(h)
  BY <1>4, PayPlace, TransferPlace
<1>5. CASE CloseResolved(h) \/ CloseCancelled(h)
  BY <1>5, ClosePlace
<1>6. CASE Settle(h) \/ CancelUpdate(h) \/ CancelSeats(h)
  BY <1>6, ClosingPlace
<1> QED
  BY <1>1, <1>2, <1>3, <1>4, <1>5, <1>6 DEF Continue, ReadsOn

LEMMA NextPlace == ASSUME OneAtATime PROVE RoomInv /\ [Next]_vars => RoomInv'
<1> SUFFICES ASSUME RoomInv, [Next]_vars PROVE RoomInv'
  OBVIOUS
<1>1. RunInv'
  BY NextRuns DEF RoomInv
<1>2. CASE Tick \/ UNCHANGED vars
  BY <1>1, <1>2, ClockPlace
<1>3. ASSUME NEW h \in Handlers, UserRequest(h) PROVE RoomInv'
  BY <1>1, <1>3, CreatePlace, OpeningPlace, ArrivedPlace DEF UserRequest, Arrived
<1>4. ASSUME NEW h \in Handlers, ModeratorRequest(h) PROVE RoomInv'
  BY <1>1, <1>4, OpeningPlace, ArrivedPlace DEF ModeratorRequest, Arrived
<1>5. ASSUME NEW h \in Handlers, CronRun(h) PROVE RoomInv'
  BY <1>1, <1>5, ArrivedPlace DEF CronRun, Arrived
<1>6. ASSUME NEW h \in Handlers, Continue(h) \/ Abort(h) PROVE RoomInv'
  BY <1>1, <1>6, ContinuePlace, AbortPlace
<1> QED
  BY <1>2, <1>3, <1>4, <1>5, <1>6 DEF Next

\* the request that has ended leaves a place, or the next one makes it
LEMMA PlaceForNext == ASSUME RoomInv, OneAtATime PROVE RoomHasPlace
<1> SUFFICES ASSUME Faults = 0, Quiet, duel.status = InProcess, duel.playersCount > 0,
                    WaivedSeats = {}
             PROVE  Entries < room.seats \/ Reallocates(duel.playersCount)
  BY DEF RoomHasPlace
<1>1. PICK h : Handlers = {h}
  BY DEF OneAtATime
<1>2. PlaceNow(req[h]) /\ req[h].pc = "idle" /\ OnTheWay(req[h]) = 0
  BY <1>1 DEF RoomInv, Quiet, OnTheWay
<1>3. CryptoInv /\ duel.playersCount = Len(players) /\ duel.playersCount \in Nat
  BY TypedFields DEF RoomInv, RunInv, RowsNow, DuelRow
<1>4. room.state # "none"
  <2>1. SUFFICES ASSUME room.state = "none" PROVE FALSE
    OBVIOUS
  <2>2. Bare
    BY <1>3, <2>1 DEF Bare
  <2>3. WaivedSeats = {1}
    BY <1>3, <2>2, WaivedIs, AllStatuses DEF Unplayed
  <2> QED
    BY <2>3
<1>5. room.state = "open"
  BY <1>2, <1>3, <1>4, TypedFields, AllStatuses DEF PlaceNow
<1>6. PICK n \in Nat \ {0} :
         /\ n = duel.playersCount /\ n = Entries
         /\ room.seats = SeatsPerAllocation * ((n - 1) \div SeatsPerAllocation + 1)
  BY <1>2, <1>3, <1>5 DEF PlaceNow
<1>7. SeatsPerAllocation \in Nat \ {0}
  BY BatchAssumption
<1>8. PICK d \in Nat, e \in Nat : /\ d = n \div SeatsPerAllocation
                                  /\ e = (n - 1) \div SeatsPerAllocation
                                  /\ d = e \/ d = e + 1
  BY <1>7, NextAllocation
<1>9. CASE d = e + 1
  BY <1>6, <1>8, <1>9 DEF Reallocates
<1>10. CASE d = e
  <2>1. n < SeatsPerAllocation * (d + 1)
    <3>1. n = SeatsPerAllocation * (n \div SeatsPerAllocation) + (n % SeatsPerAllocation)
          /\ n % SeatsPerAllocation \in 0..(SeatsPerAllocation - 1)
      BY <1>7, Z3
    <3>2. SeatsPerAllocation * (d + 1) = SeatsPerAllocation * d + SeatsPerAllocation
      BY <1>7
    <3> QED
      BY <1>7, <1>8, <3>1, <3>2
  <2> QED
    BY <1>6, <1>8, <1>10, <2>1
<1> QED
  BY <1>8, <1>9, <1>10

\* Until something fails, the next player finds a place in the room, whatever the
\* number of seats one allocation makes: joinDuel allocates from the players_count
\* it read, and with requests one after the other that is the number of stakes in
\* the room.  A duel approved without a charge (duel_service.go, ApproveDuel) has no
\* room and takes no player; in every other there is a place.
THEOREM RoomForTheNextPlayer == ASSUME OneAtATime PROVE Spec => []RoomHasPlace
<1>1. Spec => []RoomInv
  BY InitPlace, NextPlace, PTL DEF Spec
<1> QED
  BY <1>1, PlaceForNext, PTL

-----------------------------------------------------------------------------
(* What is owed *)

\* Nothing is won before the duel is settled, and a duel has an owner.
RowsFresh ==
    /\ duel.status \notin Terminal => \A i \in Rows : players[i].winAmount = 0
    /\ duel.status # NoStatus => duel.owner \in Users

\* whom request r pays, and how much
PlanFresh(r) ==
    /\ r.job = "create" => r.snap.owner \in Users
    /\ Rewarding(r) =>
          /\ r.list = GetCryptoDuelWinners(r.answer) /\ r.due \subseteq r.list
          /\ r.amount = FinalCryptoReward(PoolOf(r), Commission, Cardinality(r.winners))
    /\ Refunding(r) \/ (PayingBack(r) /\ r.pc = "pay") => r.amount = Stake

FreshInv == RunInv /\ RowsFresh /\ \A h \in Handlers : PlanFresh(req[h])

LEMMA FreshSteps ==
  ASSUME FreshInv, OneAtATime, RunInv', NEW h \in Handlers, NEW q, req' = [req EXCEPT ![h] = q],
         RowsFresh', PlanFresh(q)'
  PROVE  FreshInv'
<1>1. \A g \in Handlers : req'[g] = q
  BY OneRequest DEF FreshInv, RunInv
<1>2. \A g \in Handlers : PlanFresh(req[g])'
  BY <1>1 DEF PlanFresh, Rewarding, Refunding, PayingBack
<1> QED
  BY <1>2 DEF FreshInv

LEMMA FreshLooks ==
  ASSUME FreshInv, OneAtATime, RunInv', NEW h \in Handlers, NEW q, req' = [req EXCEPT ![h] = q],
         UNCHANGED <<duel, players>>, PlanFresh(q)
  PROVE  FreshInv'
<1>1. Rows' = Rows
  BY DEF Rows
<1>2. RowsFresh'
  BY <1>1 DEF FreshInv, RowsFresh
<1>3. GetCryptoDuelWinners(q.answer)' = GetCryptoDuelWinners(q.answer)
  BY <1>1 DEF GetCryptoDuelWinners
<1>4. PlanFresh(q)'
  BY <1>3 DEF PlanFresh, Rewarding, Refunding, PayingBack
<1> QED
  BY <1>2, <1>4, FreshSteps

LEMMA IdleFresh == PlanFresh(Idle) /\ PlanFresh(Idle)'
BY DEF PlanFresh, Rewarding, Refunding, PayingBack, Idle

LEMMA CreateFresh ==
  ASSUME FreshInv, OneAtATime, RunInv', NEW h \in Handlers, NEW u \in Creators,
         NEW s \in Schedules, NEW answer \in Answers, CreateNewCryptoDuel(h, u, s, answer)
  PROVE  FreshInv'
<1>1. PICK snap : snap = DuelByCreateReq(u, TRUE, s)
  OBVIOUS
<1>2. PICK q : q = [Idle EXCEPT !.pc = "charge", !.job = "create", !.user = u,
                              !.snap = snap, !.answer = answer, !.since = now]
  OBVIOUS
<1>3. q.pc = "charge" /\ q.job = "create" /\ q.snap = snap
  BY <1>2 DEF Idle
<1>4. req' = [req EXCEPT ![h] = q] /\ UNCHANGED <<duel, players>>
  BY <1>1, <1>2, Zenon DEF CreateNewCryptoDuel, Become, db
<1>5. snap.owner = u
  BY <1>1 DEF DuelByCreateReq, NoDuel
<1>6. PlanFresh(q)
  BY <1>3, <1>5, WalletsAssumption DEF PlanFresh, Rewarding, Refunding, PayingBack
<1> QED
  BY <1>4, <1>6, FreshLooks

LEMMA ArrivedFresh ==
  ASSUME FreshInv, OneAtATime, RunInv', NEW h \in Handlers, Arrived(h)
  PROVE  FreshInv'
<1>1. PICK q : /\ req' = [req EXCEPT ![h] = q] /\ UNCHANGED <<duel, players>>
               /\ q.job # "create" /\ q.pc \in {"charge", "publish", "winners", "everybody", "cancelUpdate"}
  BY ArrivedAs, Zenon
<1>2. PlanFresh(q)
  BY <1>1 DEF PlanFresh, Rewarding, Refunding, PayingBack
<1> QED
  BY <1>1, <1>2, FreshLooks

LEMMA LooksFresh ==
  ASSUME FreshInv, OneAtATime, RunInv', NEW h \in Handlers,
         \/ ReadsOn(h) \/ PayOwner(h) \/ PayReferrer(h) \/ CloseResolved(h) \/ CloseCancelled(h)
  PROVE  FreshInv'
<1>1. RunInv /\ CryptoInv /\ PlanFresh(req[h])
  BY DEF FreshInv, RunInv
<1>2. PICK r : r = req[h]
  OBVIOUS
<1>3. CASE ReadsOn(h)
  <2>1. PICK q : /\ req' = [req EXCEPT ![h] = q] /\ UNCHANGED <<duel, players>>
                 /\ q.job = r.job /\ q.snap = r.snap /\ ~Rewarding(q)
                 /\ Refunding(q) \/ (PayingBack(q) /\ q.pc = "pay") => q.amount = Stake
    BY <1>1, <1>2, <1>3, ReadsOnAs, Zenon
  <2>2. PlanFresh(q)
    BY <1>1, <1>2, <2>1 DEF PlanFresh
  <2> QED
    BY <2>1, <2>2, FreshLooks
<1>4. ASSUME NEW q, Alike(r, q), r.pc \in {"ownerReward", "referrerReward", "close"},
             Rewarding(q) => Rewarding(r), q.pc \in {"referrerReward", "close", "settle", "cancelUpdate"}
      PROVE  PlanFresh(q)
  <2>1. PoolOf(q) = PoolOf(r)
    BY <1>4 DEF Alike, PoolOf
  <2> QED
    BY <1>1, <1>2, <1>4, <2>1 DEF PlanFresh, Refunding, PayingBack, Alike
<1>5. CASE PayOwner(h) \/ PayReferrer(h)
  <2>1. PICK pc \in {"ownerReward", "referrerReward"}, next \in {"referrerReward", "close"} :
           \E to, amount : Transfer(h, to, amount, pc, next)
    BY <1>5 DEF PayOwner, PayReferrer
  <2>2. PICK to, amount : Transfer(h, to, amount, pc, next)
    BY <2>1
  <2>3. PICK q : /\ UNCHANGED <<duel, players, room>> /\ r.pc = pc
                 /\ req' = [req EXCEPT ![h] = q]
                 /\ q = Idle \/ (q.pc = next /\ Alike(r, q))
    BY <1>1, <1>2, <2>2, RewardAs
  <2>4. PlanFresh(q)
    <3>1. CASE q = Idle
      BY <3>1, IdleFresh
    <3>2. CASE q.pc = next /\ Alike(r, q)
      BY <1>4, <2>3, <3>2 DEF Rewarding
    <3> QED
      BY <2>3, <3>1, <3>2
  <2> QED
    BY <2>3, <2>4, FreshLooks
<1>6. CASE CloseResolved(h) \/ CloseCancelled(h)
  <2>1. PICK next \in {"settle", "cancelUpdate"} :
           /\ UNCHANGED <<duel, players>>
           /\ next = "settle" <=> r.target = NoStatus
           /\ r.pc = "close"
           /\ \E q : /\ req' = [req EXCEPT ![h] = q]
                     /\ q.pc = next /\ Alike(r, q)
    BY <1>1, <1>2, <1>6, CloseAs
  <2>2. PICK q : req' = [req EXCEPT ![h] = q] /\ q.pc = next /\ Alike(r, q)
    BY <2>1
  <2>3. Rewarding(q) => Rewarding(r)
    BY <2>1, <2>2 DEF Rewarding
  <2>4. PlanFresh(q)
    BY <1>4, <2>1, <2>2, <2>3
  <2> QED
    BY <2>1, <2>2, <2>4, FreshLooks
<1> QED
  BY <1>3, <1>5, <1>6

LEMMA ReadUnpaidWinnersFresh ==
  ASSUME FreshInv, OneAtATime, RunInv', NEW h \in Handlers, ReadUnpaidWinners(h)
  PROVE  FreshInv'
<1>1. PICK r : r = req[h]
  OBVIOUS
<1>2. PICK q : /\ req' = [req EXCEPT ![h] = q] /\ PaysWinners(r, q)
               /\ r.pc = "unpaid" /\ UNCHANGED <<now, duel, players, usdc, room, faultsLeft>>
  BY <1>1, ReadUnpaidWinnersAs DEF FreshInv
<1>3. PlanFresh(q)
  <2>1. CASE q = Idle
    BY <2>1, IdleFresh
  <2>2. CASE q # Idle
    <3>1. /\ q.pc = "pay" /\ q.next = "ownerReward"
          /\ q.list = GetCryptoDuelWinners(q.answer) /\ q.due = q.list
          /\ q.amount = FinalCryptoReward(PoolOf(r), Commission, Cardinality(r.winners))
          /\ q.job = r.job /\ q.snap = r.snap /\ q.winners = r.winners
      BY <1>2, <2>2 DEF PaysWinners
    <3>2. PoolOf(q) = PoolOf(r)
      BY <3>1 DEF PoolOf
    <3>3. PlanFresh(r)
      BY <1>1 DEF FreshInv
    <3> QED
      BY <3>1, <3>2, <3>3 DEF PlanFresh, Refunding, PayingBack
  <2> QED
    BY <2>1, <2>2
<1> QED
  BY <1>2, <1>3, FreshLooks

LEMMA PayFresh ==
  ASSUME FreshInv, OneAtATime, RunInv', NEW h \in Handlers, Pay(h)
  PROVE  FreshInv'
<1>1. PICK r \in Request : r = req[h] /\ r.pc = "pay"
  BY Mid DEF Pay, FreshInv, RunInv
<1>2. PICK o \in Outcomes, chunk \in SUBSET r.due : Transferred(h, r, o, chunk)
  BY <1>1, PayStep DEF FreshInv, RunInv
<1>3. PICK q \in {Idle, ToPay(r, r.due \ chunk)} : req' = [req EXCEPT ![h] = q]
  BY <1>2 DEF Transferred
<1>4. /\ Rows' = Rows /\ UNCHANGED duel
      /\ \A i \in Rows : players'[i].winAmount = players[i].winAmount
      /\ GetCryptoDuelWinners(r.answer)' = GetCryptoDuelWinners(r.answer)
  BY <1>2 DEF Transferred, SameSeats, GetCryptoDuelWinners
<1>5. RowsFresh'
  BY <1>4 DEF FreshInv, RowsFresh
<1>6. PlanFresh(q)'
  <2>1. CASE q = Idle
    BY <2>1, IdleFresh
  <2>2. CASE q = ToPay(r, r.due \ chunk)
    <3>1. PICK left : left = r.due \ chunk
      OBVIOUS
    <3>2. /\ q.pc = (IF left = {} THEN r.next ELSE "pay") /\ q.due = left
          /\ q.list = r.list /\ q.amount = r.amount /\ q.next = r.next
          /\ q.job = r.job /\ q.snap = r.snap /\ q.winners = r.winners /\ q.target = r.target
          /\ q.answer = r.answer
      BY <2>2, <3>1, ToPayFields
    <3>3. PlanFresh(r) /\ PlanNow(r) /\ r.next \in {"idle", "recordRefund", "ownerReward", "close"}
      BY <1>1 DEF FreshInv, RunInv, Request
    <3>4. PoolOf(q) = PoolOf(r)
      BY <3>2 DEF PoolOf
    <3>5. /\ Rewarding(q) => Rewarding(r)
          /\ Refunding(q) => Refunding(r)
          /\ PayingBack(q) => PayingBack(r)
      BY <1>1, <3>2, <3>3, AllStatuses DEF PlanNow, Rewarding, Refunding, PayingBack
    <3>6. PlanFresh(q)
      BY <1>1, <3>1, <3>2, <3>3, <3>4, <3>5 DEF PlanFresh
    <3> QED
      BY <1>4, <3>2, <3>6 DEF PlanFresh, Rewarding, Refunding, PayingBack
  <2> QED
    BY <1>3, <2>1, <2>2
<1> QED
  BY <1>3, <1>5, <1>6, FreshSteps

LEMMA ClosingFresh ==
  ASSUME FreshInv, OneAtATime, RunInv', NEW h \in Handlers,
         Settle(h) \/ CancelUpdate(h) \/ CancelSeats(h)
  PROVE  FreshInv'
<1>1. PICK r : r = req[h]
  OBVIOUS
<1>2. RunInv /\ r.job # "create"
  <2>1. RunInv /\ RequestFit(r)
    BY <1>1, TypedFields DEF FreshInv, RunInv
  <2>2. r.pc \in {"settle", "cancelUpdate", "cancelSeats"}
    BY <1>1 DEF Settle, CancelUpdate, CancelSeats
  <2> QED
    BY <2>1, <2>2 DEF RequestFit
<1>3. CASE Settle(h)
  <2>1. /\ req' = [req EXCEPT ![h] = Idle] /\ duel'.status = Resolved /\ duel'.owner = duel.owner
        /\ duel.status = InProcess
    BY <1>1, <1>2, <1>3, SettleAs
  <2>2. RowsFresh'
    BY <2>1, AllStatuses DEF RowsFresh, FreshInv
  <2> QED
    BY <2>1, <2>2, IdleFresh, FreshSteps
<1>4. CASE CancelUpdate(h)
  <2>1. PICK q : /\ req' = [req EXCEPT ![h] = q] /\ q.pc = "cancelSeats" /\ q.job = r.job
                 /\ duel'.status = r.target /\ r.target \in Cancelled /\ duel'.owner = duel.owner
                 /\ duel.status = (IF r.target = Refund THEN InProcess ELSE InReview)
    BY <1>1, <1>2, <1>4, CancelUpdateAs
  <2>2. RowsFresh'
    BY <2>1, AllStatuses DEF RowsFresh, FreshInv
  <2>3. PlanFresh(q)'
    BY <1>2, <2>1 DEF PlanFresh, Rewarding, Refunding, PayingBack
  <2> QED
    BY <2>1, <2>2, <2>3, FreshSteps
<1>5. CASE CancelSeats(h)
  <2>1. /\ req' = [req EXCEPT ![h] = Idle] /\ UNCHANGED duel
        /\ duel.status = r.target /\ r.target \in Cancelled
    BY <1>1, <1>2, <1>5, CancelSeatsAs
  <2>2. RowsFresh'
    BY <2>1, AllStatuses DEF RowsFresh, FreshInv
  <2> QED
    BY <2>1, <2>2, IdleFresh, FreshSteps
<1> QED
  BY <1>3, <1>4, <1>5

LEMMA RecordRefundFresh ==
  ASSUME FreshInv, OneAtATime, RunInv', NEW h \in Handlers, RecordRefund(h)
  PROVE  FreshInv'
<1>1. PICK r : r = req[h]
  OBVIOUS
<1>2. /\ r.pc = "recordRefund" /\ duel.status = InProcess
      /\ duel'.status = duel.status /\ duel'.owner = duel.owner
      /\ Rows' = Rows /\ \A i \in Rows : players'[i].winAmount = players[i].winAmount
  BY <1>1, RecordRefundAs DEF FreshInv, SameSeats
<1>3. PICK q : /\ req' = [req EXCEPT ![h] = q]
               /\ q.pc = "unpaid" /\ q.job = r.job /\ q.target = r.target /\ q.due = r.due
               /\ q.answer = r.answer /\ q.cutoff = r.cutoff
               /\ q.winners = r.winners /\ q.list = r.list
  BY <1>1, RecordRefundAs, Zenon DEF FreshInv
<1>4. RequestFit(r)
  BY <1>1, TypedFields DEF FreshInv, RunInv
<1>5. PlanFresh(q)'
  BY <1>2, <1>3, <1>4 DEF PlanFresh, Rewarding, Refunding, PayingBack, RequestFit
<1>6. RowsFresh'
  BY <1>2 DEF FreshInv, RowsFresh
<1> QED
  BY <1>3, <1>5, <1>6, FreshSteps

LEMMA ChargeFresh ==
  ASSUME FreshInv, OneAtATime, RunInv', NEW h \in Handlers, Charge(h)
  PROVE  FreshInv'
<1>1. PICK r \in Request : r = req[h]
  BY Mid DEF Charge, FreshInv, RunInv
<1>2. PICK on : on = [r EXCEPT !.pc = "record"]
  OBVIOUS
<1>3. on.pc = "record" /\ on.job = r.job /\ on.snap = r.snap
  BY <1>2 DEF Request
<1>4. PICK q \in {on, Idle} : req' = [req EXCEPT ![h] = q]
  BY <1>1, <1>2 DEF Charge, Go, Become
<1>5. PlanFresh(r)
  BY <1>1 DEF FreshInv
<1>6. PlanFresh(on)
  BY <1>3, <1>5 DEF PlanFresh, Rewarding, Refunding, PayingBack
<1>7. UNCHANGED <<duel, players>>
  BY DEF Charge, db
<1> QED
  BY <1>4, <1>6, <1>7, IdleFresh, FreshLooks

LEMMA RecordFresh ==
  ASSUME FreshInv, OneAtATime, RunInv', NEW h \in Handlers, Record(h)
  PROVE  FreshInv'
<1>1. PICK r : r = req[h]
  OBVIOUS
<1>2. PlanFresh(r) /\ RequestFit(r) /\ RunInv
  BY <1>1, TypedFields DEF FreshInv, RunInv
<1>3. CASE r.job = "approve"
  <2>1. /\ r.pc = "record" /\ duel.status \notin Terminal
        /\ req' = [req EXCEPT ![h] = Idle] /\ UNCHANGED players
        /\ duel'.owner = duel.owner
    BY <1>1, <1>2, <1>3, ApprovalAs
  <2>2. Rows' = Rows /\ duel.status # NoStatus
    BY <1>2, <1>3, <2>1 DEF Rows, RequestFit
  <2>3. RowsFresh'
    BY <2>1, <2>2 DEF RowsFresh, FreshInv
  <2> QED
    BY <2>1, <2>3, IdleFresh, FreshSteps
<1>4. CASE r.job # "approve"
  <2>1. /\ r.pc = "record" /\ duel.status \notin Terminal
        /\ req' = [req EXCEPT ![h] = Idle]
        /\ r.job = "create" => duel'.owner = r.snap.owner
        /\ r.job # "create" => duel'.owner = duel.owner
        /\ \E n \in Nat : /\ n \notin Rows /\ Rows' = Rows \cup {n}
                          /\ players'[n].user = r.user /\ players'[n].finalStatus = PlayerActive
                          /\ players'[n].winAmount = 0
                          /\ \A i \in Rows : players'[i] = players[i]
    BY <1>1, <1>2, <1>4, SeatAs
  <2>2. \A i \in Rows' : players'[i].winAmount = 0
    BY <2>1 DEF FreshInv, RowsFresh
  <2>3. duel'.owner \in Users
    BY <1>2, <1>4, <2>1 DEF FreshInv, RowsFresh, RequestFit, PlanFresh
  <2>4. RowsFresh'
    BY <2>2, <2>3 DEF RowsFresh
  <2> QED
    BY <2>1, <2>4, IdleFresh, FreshSteps
<1> QED
  BY <1>3, <1>4

LEMMA PublishFresh ==
  ASSUME FreshInv, OneAtATime, RunInv', NEW h \in Handlers, PublishUncharged(h)
  PROVE  FreshInv'
<1>1. /\ duel.status = InReview /\ duel'.owner = duel.owner /\ Rows' = Rows
      /\ req' = [req EXCEPT ![h] = Idle]
      /\ \A i \in Rows : players'[i].winAmount = players[i].winAmount
  BY PublishAs DEF FreshInv, SameSeats
<1>2. RowsFresh'
  BY <1>1, AllStatuses DEF RowsFresh, FreshInv
<1> QED
  BY <1>1, <1>2, IdleFresh, FreshSteps

LEMMA OpeningFresh ==
  ASSUME FreshInv, OneAtATime, RunInv', NEW h \in Handlers, NEW s \in Schedules,
         \/ \E u \in Admins, crypto \in BOOLEAN : CreateNewCryptoDuelAdmin(h, u, crypto, s)
         \/ \E u \in Creators, answer \in Answers : CreateInReview(h, u, s, answer)
         \/ EditDuel(h, s)
  PROVE  FreshInv'
<1>1. req[h] = Idle /\ req' = req
  <2>1. req[h].pc = "idle" /\ req' = req
    BY DEF CreateNewCryptoDuelAdmin, CreateInReview, EditDuel, Arrives
  <2> QED
    BY <2>1, TypedFields DEF FreshInv, RunInv, RequestFit
<1>2. req' = [req EXCEPT ![h] = Idle]
  BY <1>1, TypedFields DEF FreshInv, RunInv
<1>3. CASE EditDuel(h, s)
  <2>1. UNCHANGED players /\ duel'.status = duel.status /\ duel'.owner = duel.owner
    BY <1>3, EditAs DEF FreshInv
  <2>2. RowsFresh'
    BY <2>1 DEF FreshInv, RowsFresh, Rows
  <2> QED
    BY <1>2, <2>2, IdleFresh, FreshSteps
<1>4. CASE \E u \in Admins, crypto \in BOOLEAN : CreateNewCryptoDuelAdmin(h, u, crypto, s)
  <2>1. PICK u \in Admins, crypto \in BOOLEAN : CreateNewCryptoDuelAdmin(h, u, crypto, s)
    BY <1>4
  <2>2. PICK row : row = DuelByCreateReq(u, crypto, s)
    OBVIOUS
  <2>3. row \in DuelRow /\ u \in Users /\ row.owner = u
    BY <2>2, CreateReqType, TypedFields, WalletsAssumption DEF FreshInv, RunInv, DuelByCreateReq, NoDuel
  <2>4. duel' = [row EXCEPT !.status = InProcess] /\ UNCHANGED players /\ duel = NoDuel
    BY <2>1, <2>2 DEF CreateNewCryptoDuelAdmin, FreshDuel
  <2>5. duel'.owner = u
    BY <2>3, <2>4 DEF DuelRow
  <2>6. players = <<>>
    BY <2>4 DEF FreshInv, RunInv, RowsNow, NoDuel
  <2>7. RowsFresh'
    BY <2>3, <2>4, <2>5, <2>6 DEF RowsFresh, Rows
  <2> QED
    BY <1>2, <2>7, IdleFresh, FreshSteps
<1>5. CASE \E u \in Creators, answer \in Answers : CreateInReview(h, u, s, answer)
  <2>1. PICK u \in Creators, answer \in Answers : CreateInReview(h, u, s, answer)
    BY <1>5
  <2>2. PICK row : row = DuelByCreateReq(u, FALSE, s)
    OBVIOUS
  <2>3. row \in DuelRow /\ u \in Users /\ row.owner = u
    BY <2>2, CreateReqType, TypedFields, WalletsAssumption DEF FreshInv, RunInv, DuelByCreateReq, NoDuel
  <2>4. duel' = SeatTaken(row, row) /\ players' = <<Seat(u, answer, now)>>
    BY <2>1, <2>2, Zenon DEF CreateInReview
  <2>5. duel'.owner = u
    BY <2>3, <2>4 DEF SeatTaken, DuelRow
  <2>6. PICK seat : seat = Seat(u, answer, now)
    OBVIOUS
  <2>7. seat.winAmount = 0
    BY <2>6 DEF Seat
  <2>8. Rows' = {1} /\ players'[1] = seat
    BY <2>4, <2>6 DEF Rows
  <2>9. RowsFresh'
    BY <2>3, <2>5, <2>7, <2>8 DEF RowsFresh
  <2> QED
    BY <1>2, <2>9, IdleFresh, FreshSteps
<1> QED
  BY <1>3, <1>4, <1>5

LEMMA ClockFresh ==
  ASSUME FreshInv, OneAtATime, RunInv', Tick \/ UNCHANGED vars
  PROVE  FreshInv'
<1>1. PICK h : Handlers = {h}
  BY DEF OneAtATime
<1>2. PICK q : q = req[h] /\ PlanFresh(q)
  BY <1>1 DEF FreshInv
<1>3. UNCHANGED <<duel, players>> /\ req' = [req EXCEPT ![h] = q]
  BY <1>1, <1>2, TypedFields DEF Tick, vars, db, FreshInv, RunInv
<1> QED
  BY <1>1, <1>2, <1>3, FreshLooks

LEMMA AbortFresh ==
  ASSUME FreshInv, OneAtATime, RunInv', NEW h \in Handlers, Abort(h)
  PROVE  FreshInv'
BY IdleFresh, FreshLooks DEF Abort, Become, db

LEMMA InitFresh == Init => FreshInv
<1> SUFFICES ASSUME Init PROVE FreshInv
  OBVIOUS
<1>1. RunInv /\ Rows = {} /\ duel.status = NoStatus
  BY InitRuns DEF Init, Rows, NoDuel
<1>2. \A h \in Handlers : req[h] = Idle
  BY DEF Init
<1> QED
  BY <1>1, <1>2, IdleFresh DEF FreshInv, RowsFresh

LEMMA ContinueFresh ==
  ASSUME FreshInv, OneAtATime, RunInv', NEW h \in Handlers, Continue(h)
  PROVE  FreshInv'
<1>1. CASE Charge(h) \/ Record(h) \/ PublishUncharged(h)
  BY <1>1, ChargeFresh, RecordFresh, PublishFresh
<1>2. CASE ReadsOn(h) \/ PayOwner(h) \/ PayReferrer(h) \/ CloseResolved(h) \/ CloseCancelled(h)
  BY <1>2, LooksFresh
<1>3. CASE RecordRefund(h) \/ ReadUnpaidWinners(h) \/ Pay(h)
  BY <1>3, RecordRefundFresh, ReadUnpaidWinnersFresh, PayFresh
<1>4. CASE Settle(h) \/ CancelUpdate(h) \/ CancelSeats(h)
  BY <1>4, ClosingFresh
<1> QED
  BY <1>1, <1>2, <1>3, <1>4 DEF Continue, ReadsOn

LEMMA NextFresh == ASSUME OneAtATime PROVE FreshInv /\ [Next]_vars => FreshInv'
<1> SUFFICES ASSUME FreshInv, [Next]_vars PROVE FreshInv'
  OBVIOUS
<1>1. RunInv'
  BY NextRuns DEF FreshInv
<1>2. CASE Tick \/ UNCHANGED vars
  BY <1>1, <1>2, ClockFresh
<1>3. ASSUME NEW h \in Handlers, UserRequest(h) PROVE FreshInv'
  BY <1>1, <1>3, CreateFresh, OpeningFresh, ArrivedFresh DEF UserRequest, Arrived
<1>4. ASSUME NEW h \in Handlers, ModeratorRequest(h) PROVE FreshInv'
  BY <1>1, <1>4, OpeningFresh, ArrivedFresh DEF ModeratorRequest, Arrived
<1>5. ASSUME NEW h \in Handlers, CronRun(h) PROVE FreshInv'
  BY <1>1, <1>5, ArrivedFresh DEF CronRun, Arrived
<1>6. ASSUME NEW h \in Handlers, Continue(h) \/ Abort(h) PROVE FreshInv'
  BY <1>1, <1>6, ContinueFresh, AbortFresh
<1> QED
  BY <1>2, <1>3, <1>4, <1>5, <1>6 DEF Next

-----------------------------------------------------------------------------
(* The books of a duel *)

\* seats are fewer than a players count can hold
FewPlayers == Len(players) < CountModulus

\* the owner's half of the commission
Reward ==
    CryptoCommissionReward(Pool(DuelPrice, duel.playersCount - duel.refundedPlayersCount), Commission)

OwnerPaid(r) ==
    duel.status = Resolved \/ (Rewarding(r) /\ r.pc \in {"referrerReward", "close", "settle"})

ReferrerPaid(r) ==
    duel.status = Resolved \/ (Rewarding(r) /\ r.pc \in {"close", "settle"})

\* seat i has its stake back, from request r or one before
PaidBack(r, i) ==
    \/ duel.status = Refund
    \/ Refunding(r) /\ i \in r.list \ r.due
    \/ PayingBack(r) /\ i \notin r.due
    \/ i \in Refunded /\ duel.status \notin Unplayed

\* what seat i has won, on the row or on its way there
Won(r, i) ==
    IF duel.status = Resolved THEN players[i].winAmount
    ELSE IF Rewarding(r) /\ i \in r.list \ r.due THEN r.amount ELSE 0

SentTo(r, i) == IF PaidBack(r, i) THEN Stake ELSE Won(r, i)

Sent(r) == [i \in Rows |-> SentTo(r, i)]
Given(r, u) == SumFunctionOnSet(Sent(r), SeatsOf(u))
AllGiven(r) == SumFunctionOnSet(Sent(r), Rows)

\* what user u, and everybody, has got of the commission
OwnerBonus(r) == IF OwnerPaid(r) /\ duel.owner \notin Admins THEN Reward ELSE 0
ReferrerBonus(r) == IF ReferrerPaid(r) /\ ReferrerOf[duel.owner] # Null THEN Reward \div 2 ELSE 0
Bonus(r, u) ==
    (IF u = duel.owner THEN OwnerBonus(r) ELSE 0)
      + (IF u = ReferrerOf[duel.owner] THEN ReferrerBonus(r) ELSE 0)

\* request r has paid for a seat of u that it has not taken yet
Seated(r, u) == IF r.pc = "record" /\ r.job # "approve" /\ r.user = u THEN 1 ELSE 0

Staked(r, u) == IF room.state = "none" THEN 0 ELSE Cardinality(SeatsOf(u)) + Seated(r, u)

\* what the house has got of the stakes
Collected == IF room.state = "closed" THEN Stake * Entries ELSE 0

\* Until something fails, every wallet holds what the rows, the room and the
\* request that runs say.
UsersNow(r) ==
    \A u \in Users :
       /\ room.entries[u] = Staked(r, u)
       /\ usdc[u] = InitialUSDC - Stake * room.entries[u] + Given(r, u) + Bonus(r, u)

HouseNow(r) ==
    usdc[Admin] = AdminFloat + Collected - AllGiven(r) - OwnerBonus(r) - ReferrerBonus(r)

\* the stake that was never asked for
Forgone ==
    IF room.state = "none" /\ Rows # {} /\ duel.status \notin Unplayed THEN Stake ELSE 0

Solvent == duel.status \in Terminal => usdc[Admin] + Forgone >= AdminFloat

AccountsNow(r) == UsersNow(r) /\ HouseNow(r) /\ Solvent

BaseInv == FreshInv /\ AttemptsInv /\ RoomInv

BooksInv == BaseInv /\ (Faults = 0 => \A h \in Handlers : AccountsNow(req[h]))

LEMMA BooksSteps ==
  ASSUME BooksInv, OneAtATime, BaseInv', NEW h \in Handlers, NEW q, req' = [req EXCEPT ![h] = q],
         Faults' = 0 => AccountsNow(q)'
  PROVE  BooksInv'
<1>1. \A g \in Handlers : req'[g] = q
  BY OneRequest DEF BooksInv, BaseInv, FreshInv, RunInv
<1>2. SUFFICES ASSUME Faults' = 0 PROVE \A g \in Handlers : AccountsNow(req[g])'
  BY DEF BooksInv
<1>3. ASSUME NEW g \in Handlers PROVE AccountsNow(req[g])'
  <2>1. req'[g] = q /\ AccountsNow(q)'
    BY <1>1, <1>2
  <2>2. /\ (Rewarding(req[g])' <=> Rewarding(q)')
        /\ (Refunding(req[g])' <=> Refunding(q)')
        /\ (PayingBack(req[g])' <=> PayingBack(q)')
    BY <2>1, Zenon DEF Rewarding, Refunding, PayingBack
  <2>3. \A i : /\ (PaidBack(req[g], i)' <=> PaidBack(q, i)')
               /\ Won(req[g], i)' = Won(q, i)'
    <3>1. \A i : PaidBack(req[g], i)' <=> PaidBack(q, i)'
      BY <2>1, <2>2, Zenon DEF PaidBack
    <3>2. \A i : Won(req[g], i)' = Won(q, i)'
      BY <2>1, <2>2 DEF Won
    <3> QED
      BY <3>1, <3>2
  <2>4. \A i : SentTo(req[g], i)' = SentTo(q, i)'
    BY <2>3, Zenon DEF SentTo
  <2>5. Sent(req[g])' = Sent(q)'
    BY <2>4, Zenon DEF Sent
  <2>6. AllGiven(req[g])' = AllGiven(q)' /\ \A u : Given(req[g], u)' = Given(q, u)'
    BY <2>5, Zenon DEF AllGiven, Given
  <2>7. OwnerBonus(req[g])' = OwnerBonus(q)' /\ ReferrerBonus(req[g])' = ReferrerBonus(q)'
    BY <2>1, <2>2, Zenon DEF OwnerBonus, ReferrerBonus, OwnerPaid, ReferrerPaid
  <2>8. \A u : Bonus(req[g], u)' = Bonus(q, u)' /\ Staked(req[g], u)' = Staked(q, u)'
    BY <2>1, <2>7, Zenon DEF Bonus, Staked, Seated
  <2>9. UsersNow(req[g])' /\ HouseNow(req[g])'
    BY <2>1, <2>6, <2>7, <2>8, Zenon DEF AccountsNow, UsersNow, HouseNow
  <2> QED
    BY <2>1, <2>9 DEF AccountsNow
<1> QED
  BY <1>3

\* what is known of the request that runs, while nothing has failed
LEMMA KnownOf ==
  ASSUME BooksInv, NEW h \in Handlers, NEW r, r = req[h], Faults = 0
  PROVE  /\ RunInv /\ CryptoInv /\ r \in Request /\ RequestFit(r)
         /\ SnapNow(r) /\ PlanNow(r) /\ PlanFresh(r) /\ RowsFresh /\ PlaceNow(r) /\ AccountsNow(r)
         /\ duel.status \notin Terminal => \A w \in Refunded : Settling(r, w)
         /\ duel.refundedPlayersCount = Cardinality(Refunded) \/ duel.status \in Terminal
<1>1. RunInv /\ CryptoInv /\ SentBy(r)
  BY DEF BooksInv, BaseInv, FreshInv, RunInv, AttemptsInv
<1>2. r \in Request /\ RequestFit(r)
  BY <1>1, TypedFields
<1>3. SnapNow(r) /\ PlanNow(r) /\ PlanFresh(r) /\ RowsFresh
  BY <1>1 DEF BooksInv, BaseInv, FreshInv, RunInv
<1>4. PlaceNow(r) /\ AccountsNow(r)
  BY DEF BooksInv, BaseInv, RoomInv
<1>5. duel.status \notin Terminal => \A w \in Refunded : Settling(r, w)
  BY <1>1 DEF SentBy
<1>6. duel.refundedPlayersCount = Cardinality(Refunded) \/ duel.status \in Terminal
  BY <1>1 DEF RunInv, RowsNow
<1> QED
  BY <1>1, <1>2, <1>3, <1>4, <1>5, <1>6

-----------------------------------------------------------------------------
(* What a step adds to what was sent *)

\* amounts are numbers
LEMMA SentType ==
  ASSUME CryptoInv, NEW r, r.amount \in Nat
  PROVE  /\ Stake \in Nat
         /\ \A i \in Rows : SentTo(r, i) \in Nat /\ Sent(r)[i] = SentTo(r, i)
         /\ IntOn(Sent(r), Rows) /\ \A u : SeatsOf(u) \in SUBSET Rows /\ IntOn(Sent(r), SeatsOf(u))
         /\ IsFiniteSet(Rows) /\ \A u : IsFiniteSet(SeatsOf(u))
<1>1. Stake \in Nat
  BY PriceAssumption DEF Stake, Micro
<1>2. \A i \in Rows : players[i] \in PlayerRow
  BY TypedFields, LenProperties DEF Rows
<1>3. \A i \in Rows : Won(r, i) \in Nat
  BY <1>2 DEF Won, PlayerRow
<1>4. \A i \in Rows : SentTo(r, i) \in Nat /\ Sent(r)[i] = SentTo(r, i)
  BY <1>1, <1>3 DEF SentTo, Sent
<1>5. \A u : SeatsOf(u) \in SUBSET Rows
  BY DEF SeatsOf
<1>6. IsFiniteSet(Rows)
  BY RowsFinite
<1> QED
  BY <1>1, <1>4, <1>5, <1>6, FS_Subset DEF IntOn

\* the same was sent to the same seats
LEMMA GivenStays ==
  ASSUME SameSeats, NEW r, NEW q, \A i \in Rows : SentTo(q, i)' = SentTo(r, i)
  PROVE  /\ \A u : SeatsOf(u)' = SeatsOf(u) /\ Given(q, u)' = Given(r, u)
         /\ AllGiven(q)' = AllGiven(r)
<1>1. Rows' = Rows
  BY DEF SameSeats
<1>2. \A u : SeatsOf(u)' = SeatsOf(u)
  BY DEF SameSeats, SeatsOf
<1>3. Sent(q)' = Sent(r)
  BY <1>1 DEF Sent
<1>4. ASSUME NEW u PROVE SeatsOf(u)' = SeatsOf(u) /\ Given(q, u)' = Given(r, u)
  BY <1>2, <1>3, Zenon DEF Given
<1>5. AllGiven(q)' = AllGiven(r)
  BY <1>1, <1>3, Zenon DEF AllGiven
<1> QED
  BY <1>4, <1>5

\* a transaction pays the seats of chunk
LEMMA GivenMore ==
  ASSUME CryptoInv, SameSeats, NEW r, NEW q, r.amount \in Nat, q.amount = r.amount,
         NEW chunk \in SUBSET Rows,
         \A i \in Rows : SentTo(q, i)' = SentTo(r, i) + (IF i \in chunk THEN r.amount ELSE 0)
  PROVE  /\ \A u : SeatsOf(u)' = SeatsOf(u) /\ Given(q, u)' = Given(r, u) + Owed(chunk, u, r.amount)
         /\ AllGiven(q)' = AllGiven(r) + r.amount * Cardinality(chunk)
<1>1. Rows' = Rows
  BY DEF SameSeats
<1>2. \A u : SeatsOf(u)' = SeatsOf(u)
  BY DEF SameSeats, SeatsOf
<1>3. PICK f : f = Sent(r)
  OBVIOUS
<1>4. PICK g : g = [i \in Rows |-> IF i \in chunk THEN r.amount ELSE 0]
  OBVIOUS
<1>5. PICK k : k = Sent(q)'
  OBVIOUS
<1>6. /\ IsFiniteSet(Rows) /\ \A u : SeatsOf(u) \in SUBSET Rows /\ IsFiniteSet(SeatsOf(u))
      /\ \A i \in Rows : f[i] = SentTo(r, i) /\ f[i] \in Int
  <2>1. /\ IsFiniteSet(Rows) /\ \A u : SeatsOf(u) \in SUBSET Rows /\ IsFiniteSet(SeatsOf(u))
        /\ \A i \in Rows : f[i] = SentTo(r, i) /\ f[i] \in Nat
    BY <1>3, SentType, Zenon
  <2> QED
    BY <2>1
<1>7. \A i \in Rows : g[i] = (IF i \in chunk THEN r.amount ELSE 0) /\ g[i] \in Int
  BY <1>4
<1>8. \A i \in Rows : k[i] = f[i] + g[i]
  <2>1. \A i \in Rows : k[i] = SentTo(q, i)'
    BY <1>1, <1>5 DEF Sent
  <2> QED
    BY <1>6, <1>7, <2>1
<1>9. ASSUME NEW S \in SUBSET Rows, IsFiniteSet(S), NEW A, A = {i \in S : i \in chunk}
      PROVE  SumFunctionOnSet(k, S) = SumFunctionOnSet(f, S) + r.amount * Cardinality(A)
  <2>1. IntOn(f, S) /\ IntOn(g, S) /\ \A i \in S : k[i] = f[i] + g[i]
    BY <1>6, <1>7, <1>8 DEF IntOn
  <2>2. SumFunctionOnSet(k, S) = SumFunctionOnSet(f, S) + SumFunctionOnSet(g, S)
    BY <1>9, <2>1, SumOfSum
  <2>3. A \in SUBSET S /\ (\A i \in A : g[i] = r.amount) /\ (\A i \in S \ A : g[i] = 0)
    BY <1>7, <1>9
  <2>4. SumFunctionOnSet(g, S) = Cardinality(A) * r.amount
    BY <1>9, <2>3, SumOnPart
  <2>5. Cardinality(A) \in Nat
    BY <1>9, <2>3, FS_Subset, FS_CardinalityType
  <2>6. Cardinality(A) * r.amount = r.amount * Cardinality(A)
    BY <2>5
  <2> QED
    BY <2>2, <2>4, <2>6, Zenon
<1>10. AllGiven(q)' = AllGiven(r) + r.amount * Cardinality(chunk)
  <2>1. chunk = {i \in Rows : i \in chunk}
    OBVIOUS
  <2>2. SumFunctionOnSet(k, Rows) = SumFunctionOnSet(f, Rows) + r.amount * Cardinality(chunk)
    BY <1>6, <1>9, <2>1
  <2>3. AllGiven(q)' = SumFunctionOnSet(k, Rows) /\ AllGiven(r) = SumFunctionOnSet(f, Rows)
    BY <1>1, <1>3, <1>5, Zenon DEF AllGiven
  <2> QED
    BY <2>2, <2>3
<1>11. ASSUME NEW u PROVE Given(q, u)' = Given(r, u) + Owed(chunk, u, r.amount)
  <2>1. PICK A : A = {i \in SeatsOf(u) : i \in chunk}
    OBVIOUS
  <2>2. A = {i \in chunk : players[i].user = u}
    BY <2>1 DEF SeatsOf
  <2>3. SumFunctionOnSet(k, SeatsOf(u)) = SumFunctionOnSet(f, SeatsOf(u)) + r.amount * Cardinality(A)
    BY <1>6, <1>9, <2>1
  <2>4. Given(q, u)' = SumFunctionOnSet(k, SeatsOf(u)) /\ Given(r, u) = SumFunctionOnSet(f, SeatsOf(u))
    BY <1>2, <1>3, <1>5, Zenon DEF Given
  <2>5. Owed(chunk, u, r.amount) = r.amount * Cardinality(A)
    BY <2>2, Zenon DEF Owed
  <2> QED
    BY <2>3, <2>4, <2>5
<1> QED
  BY <1>2, <1>10, <1>11

\* a new seat has been sent nothing
LEMMA GivenSeat ==
  ASSUME CryptoInv, NEW r, NEW q, r.amount \in Nat, NEW n, n \notin Rows, Rows' = Rows \cup {n},
         SentTo(q, n)' = 0, \A i \in Rows : SentTo(q, i)' = SentTo(r, i) /\ players'[i] = players[i]
  PROVE  /\ \A u : Given(q, u)' = Given(r, u)
         /\ \A u : SeatsOf(u)' = (IF players'[n].user = u THEN SeatsOf(u) \cup {n} ELSE SeatsOf(u))
         /\ AllGiven(q)' = AllGiven(r)
<1>1. PICK f : f = Sent(r)
  OBVIOUS
<1>2. PICK k : k = Sent(q)'
  OBVIOUS
<1>3. /\ IsFiniteSet(Rows) /\ \A u : SeatsOf(u) \in SUBSET Rows /\ IsFiniteSet(SeatsOf(u))
      /\ \A i \in Rows : f[i] = SentTo(r, i) /\ f[i] \in Int
  <2>1. /\ IsFiniteSet(Rows) /\ \A u : SeatsOf(u) \in SUBSET Rows /\ IsFiniteSet(SeatsOf(u))
        /\ \A i \in Rows : f[i] = SentTo(r, i) /\ f[i] \in Nat
    BY <1>1, SentType, Zenon
  <2> QED
    BY <2>1
<1>4. k[n] = 0 /\ \A i \in Rows : k[i] = f[i]
  <2>1. \A i \in Rows \cup {n} : k[i] = SentTo(q, i)'
    BY <1>2 DEF Sent
  <2> QED
    BY <1>3, <2>1
<1>5. \A u : SeatsOf(u)' = (IF players'[n].user = u THEN SeatsOf(u) \cup {n} ELSE SeatsOf(u))
  BY DEF SeatsOf
<1>6. ASSUME NEW S \in SUBSET Rows, IsFiniteSet(S)
      PROVE  /\ SumFunctionOnSet(k, S) = SumFunctionOnSet(f, S)
             /\ SumFunctionOnSet(k, S \cup {n}) = SumFunctionOnSet(f, S)
  <2>1. IntOn(f, S) /\ IntOn(k, S) /\ (\A i \in S : f[i] = k[i]) /\ n \notin S /\ k[n] \in Int
    BY <1>3, <1>4 DEF IntOn
  <2>2. SumFunctionOnSet(f, S) = SumFunctionOnSet(k, S)
    BY <1>6, <2>1, SumOfEqual
  <2>3. SumFunctionOnSet(k, S \cup {n}) = SumFunctionOnSet(k, S) + k[n]
    BY <1>6, <2>1, SumWith
  <2>4. SumFunctionOnSet(k, S) \in Int
    BY <1>6, <2>1, SumInt
  <2> QED
    BY <1>4, <2>2, <2>3, <2>4
<1>7. AllGiven(q)' = AllGiven(r)
  <2>1. SumFunctionOnSet(k, Rows \cup {n}) = SumFunctionOnSet(f, Rows)
    BY <1>3, <1>6
  <2> QED
    BY <1>1, <1>2, <2>1, Zenon DEF AllGiven
<1>8. ASSUME NEW u PROVE Given(q, u)' = Given(r, u)
  <2>1. /\ SumFunctionOnSet(k, SeatsOf(u)) = SumFunctionOnSet(f, SeatsOf(u))
        /\ SumFunctionOnSet(k, SeatsOf(u) \cup {n}) = SumFunctionOnSet(f, SeatsOf(u))
    BY <1>3, <1>6
  <2>2. SeatsOf(u)' = SeatsOf(u) \/ SeatsOf(u)' = SeatsOf(u) \cup {n}
    BY <1>5
  <2> QED
    BY <1>1, <1>2, <2>1, <2>2, Zenon DEF Given
<1> QED
  BY <1>5, <1>7, <1>8

LEMMA GivenInt ==
  ASSUME CryptoInv, NEW r, r.amount \in Nat
  PROVE  AllGiven(r) \in Int /\ \A u : Given(r, u) \in Int
BY SentType, SumInt DEF AllGiven, Given

-----------------------------------------------------------------------------
(* Steps that move no money *)

\* what there was is still owed and nothing else
Steady(r, q) ==
    /\ SameSeats
    /\ \A i \in Rows : SentTo(q, i)' = SentTo(r, i)
    /\ \A u \in Users : Seated(q, u) = Seated(r, u)
    /\ OwnerBonus(q)' = OwnerBonus(r) /\ ReferrerBonus(q)' = ReferrerBonus(r)
    /\ duel'.owner = duel.owner \/ (OwnerBonus(r) = 0 /\ ReferrerBonus(r) = 0)

LEMMA SteadyUsers ==
  ASSUME NEW r, NEW q, UsersNow(r), Steady(r, q), room'.entries = room.entries,
         room'.state = "none" <=> room.state = "none",
         \A u \in Users : usdc'[u] = usdc[u]
  PROVE  UsersNow(q)'
<1> SUFFICES ASSUME NEW u \in Users
             PROVE  /\ room'.entries[u] = Staked(q, u)'
                    /\ usdc'[u] = InitialUSDC - Stake * room'.entries[u] + Given(q, u)' + Bonus(q, u)'
  BY DEF UsersNow
<1>1. SeatsOf(u)' = SeatsOf(u) /\ Given(q, u)' = Given(r, u)
  BY GivenStays DEF Steady
<1>2. Staked(q, u)' = Staked(r, u)
  <2>1. Seated(q, u)' = Seated(r, u)
    BY DEF Steady, Seated
  <2> QED
    BY <1>1, <2>1, Zenon DEF Staked
<1>3. Bonus(q, u)' = Bonus(r, u)
  <2>1. CASE duel'.owner = duel.owner
    BY <2>1, Zenon DEF Steady, Bonus
  <2>2. CASE OwnerBonus(r) = 0 /\ ReferrerBonus(r) = 0
    BY <2>2 DEF Steady, Bonus
  <2> QED
    BY <2>1, <2>2 DEF Steady
<1>4. /\ room.entries[u] = Staked(r, u)
      /\ usdc[u] = InitialUSDC - Stake * room.entries[u] + Given(r, u) + Bonus(r, u)
  BY DEF UsersNow
<1> QED
  BY <1>1, <1>2, <1>3, <1>4, Zenon

LEMMA SteadyBooks ==
  ASSUME NEW r, NEW q, AccountsNow(r), Steady(r, q), UNCHANGED <<usdc, room>>, Solvent'
  PROVE  AccountsNow(q)'
<1>1. UsersNow(q)'
  BY SteadyUsers, Zenon DEF AccountsNow
<1>2. AllGiven(q)' = AllGiven(r)
  BY GivenStays DEF Steady
<1>3. Collected' = Collected
  BY Zenon DEF Collected, Entries
<1>4. HouseNow(q)'
  BY <1>2, <1>3, Zenon DEF HouseNow, AccountsNow, Steady
<1> QED
  BY <1>1, <1>4 DEF AccountsNow

LEMMA BaseRuns ==
  /\ BooksInv => RunInv /\ CryptoInv
  /\ BaseInv' => RunInv'
BY DEF BooksInv, BaseInv, FreshInv, RunInv

\* nobody but winners gets a share of the commission
LEMMA NoBonus ==
  ASSUME NEW r, duel.status # Resolved, Rewarding(r) => r.pc \in {"pay", "ownerReward"}
  PROVE  OwnerBonus(r) = 0 /\ ReferrerBonus(r) = 0
BY DEF OwnerBonus, ReferrerBonus, OwnerPaid, ReferrerPaid

LEMMA NoBonusThen ==
  ASSUME NEW q, duel'.status # Resolved, Rewarding(q) => q.pc \in {"pay", "ownerReward"}
  PROVE  OwnerBonus(q)' = 0 /\ ReferrerBonus(q)' = 0
<1>1. Rewarding(q)' <=> Rewarding(q)
  BY DEF Rewarding
<1> QED
  BY <1>1 DEF OwnerBonus, ReferrerBonus, OwnerPaid, ReferrerPaid

\* nothing was sent to a seat that has not its stake back, while nobody is rewarded
LEMMA NotWon ==
  ASSUME NEW r, duel.status # Resolved, Rewarding(r) => r.list \subseteq r.due
  PROVE  \A i : Won(r, i) = 0
BY DEF Won

LEMMA NotWonThen ==
  ASSUME NEW q, duel'.status # Resolved, Rewarding(q) => q.list \subseteq q.due
  PROVE  \A i : Won(q, i)' = 0
<1>1. Rewarding(q)' <=> Rewarding(q)
  BY DEF Rewarding
<1> QED
  BY <1>1 DEF Won

\* request r has rewarded nobody
Unrewarded(r) == Rewarding(r) => r.pc = "pay" /\ r.list \subseteq r.due

\* before and after a step, nobody has been rewarded
LEMMA QuietSteady ==
  ASSUME NEW r, NEW q, SameSeats, Unrewarded(r), Unrewarded(q),
         duel.status # Resolved, duel'.status # Resolved,
         \A i \in Rows : PaidBack(q, i)' <=> PaidBack(r, i),
         \A u \in Users : Seated(q, u) = Seated(r, u)
  PROVE  Steady(r, q)
<1>1. \A i : Won(r, i) = 0 /\ Won(q, i)' = 0
  BY NotWon, NotWonThen DEF Unrewarded
<1>2. \A i \in Rows : SentTo(q, i)' = SentTo(r, i)
  BY <1>1 DEF SentTo, Stake
<1>3. OwnerBonus(r) = 0 /\ ReferrerBonus(r) = 0 /\ OwnerBonus(q)' = 0 /\ ReferrerBonus(q)' = 0
  BY NoBonus, NoBonusThen DEF Unrewarded
<1> QED
  BY <1>2, <1>3 DEF Steady

\* what was paid stays paid while the rows stay
LEMMA SamePaid ==
  ASSUME UNCHANGED players, duel'.status = duel.status, duel'.owner = duel.owner,
         duel'.playersCount = duel.playersCount,
         duel'.refundedPlayersCount = duel.refundedPlayersCount, NEW q
  PROVE  /\ SameSeats
         /\ \A i : (PaidBack(q, i)' <=> PaidBack(q, i)) /\ SentTo(q, i)' = SentTo(q, i)
         /\ OwnerBonus(q)' = OwnerBonus(q) /\ ReferrerBonus(q)' = ReferrerBonus(q)
<1>1. Rows' = Rows /\ SameSeats
  BY DEF Rows, SameSeats
<1>2. Refunded' = Refunded
  BY <1>1 DEF Refunded
<1>3. /\ (Rewarding(q)' <=> Rewarding(q))
      /\ (Refunding(q)' <=> Refunding(q))
      /\ (PayingBack(q)' <=> PayingBack(q))
  BY DEF Rewarding, Refunding, PayingBack
<1>4. \A i : PaidBack(q, i)' <=> PaidBack(q, i)
  BY <1>2, <1>3 DEF PaidBack
<1>5. \A i : Won(q, i)' = Won(q, i)
  BY <1>3 DEF Won
<1>6. Reward' = Reward
  BY Zenon DEF Reward
<1>7. (OwnerPaid(q)' <=> OwnerPaid(q)) /\ (ReferrerPaid(q)' <=> ReferrerPaid(q))
  BY <1>3 DEF OwnerPaid, ReferrerPaid
<1>8. OwnerBonus(q)' = OwnerBonus(q) /\ ReferrerBonus(q)' = ReferrerBonus(q)
  BY <1>6, <1>7, Zenon DEF OwnerBonus, ReferrerBonus
<1>9. \A i : SentTo(q, i)' = SentTo(q, i)
  BY <1>4, <1>5, Zenon DEF SentTo, Stake
<1> QED
  BY <1>1, <1>4, <1>8, <1>9

\* a step that keeps money and rows
LEMMA QuietBooks ==
  ASSUME BooksInv, OneAtATime, BaseInv', NEW h \in Handlers, NEW q, req' = [req EXCEPT ![h] = q],
         NEW r, r = req[h], UNCHANGED <<usdc, room>>,
         UNCHANGED faultsLeft \/ faultsLeft' = faultsLeft - 1,
         Faults = 0 => Steady(r, q) /\ (duel'.status \in Terminal => duel'.status = duel.status)
  PROVE  BooksInv'
<1>1. SUFFICES ASSUME Faults' = 0 PROVE AccountsNow(q)'
  BY BooksSteps
<1>2. Faults = 0
  BY <1>1, NoFaultYet, BaseRuns
<1>3. AccountsNow(r)
  BY <1>2, KnownOf
<1>4. ASSUME duel'.status \in Terminal PROVE usdc'[Admin] + Forgone' >= AdminFloat
  <2>1. duel'.status = duel.status /\ Rows' = Rows
    BY <1>2, <1>4 DEF Steady, SameSeats
  <2>2. Forgone' = Forgone
    BY <2>1, Zenon DEF Forgone
  <2> QED
    BY <1>3, <1>4, <2>1, <2>2 DEF AccountsNow, Solvent
<1>5. Solvent'
  BY <1>4 DEF Solvent
<1> QED
  BY <1>2, <1>3, <1>5, SteadyBooks

LEMMA ArrivedBooks ==
  ASSUME BooksInv, OneAtATime, BaseInv', NEW h \in Handlers, Arrived(h)
  PROVE  BooksInv'
<1>1. PICK r : r = req[h]
  OBVIOUS
<1>2. PICK q : /\ UNCHANGED <<duel, players, usdc, room, faultsLeft>> /\ req[h].pc = "idle"
               /\ duel.status \notin Terminal
               /\ req' = [req EXCEPT ![h] = q]
               /\ q.pc \in {"charge", "publish", "winners", "everybody", "cancelUpdate"}
               /\ q.pc = "cancelUpdate" =>
                     \/ duel.status = InReview /\ q.target \in {AdminCancelled, AutoCancelled}
                     \/ duel.status = InProcess /\ q.target = Refund /\ ~(duel.playersCount > 0)
  BY ArrivedAs, Zenon
<1>3. ASSUME Faults = 0 PROVE Steady(r, q)
  <2>1. RunInv /\ r = Idle /\ Len(players) \in Nat
    BY <1>1, <1>2, <1>3, KnownOf, TypedFields DEF RequestFit
  <2>2. q.pc = "cancelUpdate" /\ q.target = Refund => Rows = {}
    <3>1. q.pc = "cancelUpdate" /\ q.target = Refund => Len(players) = 0
      BY <1>2, <2>1, AllStatuses DEF RunInv, RowsNow
    <3>2. Rows = 1..Len(players)
      BY <2>1, TypedFields, LenProperties DEF Rows, RunInv
    <3> QED
      BY <3>1, <3>2
  <2>3. \A i \in Rows : PaidBack(q, i) <=> PaidBack(r, i)
    <3>1. ~Refunding(q) /\ ~Refunding(r) /\ ~PayingBack(r)
      BY <1>2, <2>1 DEF Refunding, PayingBack, Idle
    <3>2. Rows # {} => ~PayingBack(q)
      BY <1>2, <2>2 DEF PayingBack
    <3> QED
      BY <3>1, <3>2 DEF PaidBack
  <2>4. \A i \in Rows : PaidBack(q, i)' <=> PaidBack(r, i)
    BY <1>2, <2>3, SamePaid
  <2>5. Unrewarded(q) /\ Unrewarded(r) /\ \A u : Seated(q, u) = Seated(r, u)
    BY <1>2, <2>1 DEF Unrewarded, Rewarding, Seated, Idle
  <2>6. SameSeats /\ duel.status # Resolved /\ duel'.status # Resolved
    BY <1>2, SamePaid, AllStatuses
  <2> QED
    BY <2>4, <2>5, <2>6, QuietSteady
<1> QED
  BY <1>1, <1>2, <1>3, QuietBooks

LEMMA ReadsBooks ==
  ASSUME BooksInv, OneAtATime, BaseInv', NEW h \in Handlers, ReadsOn(h)
  PROVE  BooksInv'
<1>1. PICK r : r = req[h]
  OBVIOUS
<1>2. PICK q : /\ UNCHANGED <<duel, players, usdc, room, faultsLeft>>
               /\ r.pc \in {"winners", "refunds", "late", "everybody"}
               /\ req' = [req EXCEPT ![h] = q]
               /\ ~Rewarding(q) /\ q.pc \notin {"record", "settle"}
               /\ \A i \in Rows \ Refunded : ~PaidBy(q, i)
  BY <1>1, BaseRuns, ReadsOnAs, Zenon
<1>3. ASSUME Faults = 0 PROVE Steady(r, q)
  <2>1. duel.status = InProcess
    BY <1>1, <1>2, <1>3, KnownOf DEF SnapNow
  <2>2. ~Refunding(r) /\ ~PayingBack(r) /\ ~Rewarding(r)
    BY <1>2 DEF Refunding, PayingBack, Rewarding
  <2>3. \A i \in Rows : PaidBack(q, i) <=> PaidBack(r, i)
    <3>1. \A i \in Rows : PaidBack(r, i) <=> i \in Refunded
      BY <2>1, <2>2, AllStatuses DEF PaidBack, Unplayed
    <3>2. \A i \in Rows : PaidBack(q, i) <=> i \in Refunded
      BY <1>2, <2>1, AllStatuses DEF PaidBack, PaidBy, Unplayed
    <3> QED
      BY <3>1, <3>2
  <2>4. \A i \in Rows : PaidBack(q, i)' <=> PaidBack(r, i)
    BY <1>2, <2>3, SamePaid
  <2>5. Unrewarded(q) /\ Unrewarded(r) /\ \A u : Seated(q, u) = Seated(r, u)
    BY <1>2, <2>2 DEF Unrewarded, Seated
  <2>6. SameSeats /\ duel.status # Resolved /\ duel'.status # Resolved
    BY <1>2, <2>1, SamePaid, AllStatuses
  <2> QED
    BY <2>4, <2>5, <2>6, QuietSteady
<1> QED
  BY <1>1, <1>2, <1>3, QuietBooks

LEMMA ReadUnpaidWinnersBooks ==
  ASSUME BooksInv, OneAtATime, BaseInv', NEW h \in Handlers, ReadUnpaidWinners(h)
  PROVE  BooksInv'
<1>1. PICK r : r = req[h]
  OBVIOUS
<1>2. PICK q : /\ req' = [req EXCEPT ![h] = q] /\ PaysWinners(r, q)
               /\ r.pc = "unpaid" /\ UNCHANGED <<now, duel, players, usdc, room, faultsLeft>>
  BY <1>1, ReadUnpaidWinnersAs, BaseRuns
<1>3. ASSUME Faults = 0 PROVE Steady(r, q)
  <2>1. duel.status = InProcess
    BY <1>1, <1>2, <1>3, KnownOf DEF SnapNow
  <2>2. ~Refunding(r) /\ ~PayingBack(r) /\ ~Rewarding(r)
    BY <1>2 DEF Refunding, PayingBack, Rewarding
  <2>3. ~Refunding(q) /\ ~PayingBack(q) /\ Unrewarded(q) /\ q.pc # "record"
    BY <1>2 DEF Refunding, PayingBack, Rewarding, Unrewarded, PaysWinners, Idle
  <2>4. \A i \in Rows : PaidBack(q, i)' <=> PaidBack(r, i)
    <3>1. \A i \in Rows : PaidBack(q, i) <=> PaidBack(r, i)
      BY <2>2, <2>3 DEF PaidBack
    <3> QED
      BY <1>2, <3>1, SamePaid
  <2>5. Unrewarded(r) /\ \A u : Seated(q, u) = Seated(r, u)
    BY <1>2, <2>2, <2>3 DEF Unrewarded, Seated
  <2>6. SameSeats /\ duel.status # Resolved /\ duel'.status # Resolved
    BY <1>2, <2>1, SamePaid, AllStatuses
  <2> QED
    BY <2>3, <2>4, <2>5, <2>6, QuietSteady
<1> QED
  BY <1>1, <1>2, <1>3, QuietBooks

LEMMA RecordRefundBooks ==
  ASSUME BooksInv, OneAtATime, BaseInv', NEW h \in Handlers, RecordRefund(h)
  PROVE  BooksInv'
<1>1. PICK r : r = req[h]
  OBVIOUS
<1>2. /\ r.pc = "recordRefund" /\ duel.status = InProcess /\ r.due = {}
      /\ UNCHANGED <<usdc, room, faultsLeft>>
      /\ duel'.status = duel.status /\ SameSeats
      /\ \A i \in Rows : players'[i].finalStatus
                           = (IF i \in r.list THEN PlayerRefunded ELSE players[i].finalStatus)
  BY <1>1, RecordRefundAs, BaseRuns
<1>3. PICK q : /\ req' = [req EXCEPT ![h] = q]
               /\ q.pc = "unpaid" /\ q.job = r.job /\ q.target = r.target /\ q.due = r.due
               /\ q.answer = r.answer /\ q.cutoff = r.cutoff
               /\ q.winners = r.winners /\ q.list = r.list
  BY <1>1, RecordRefundAs, BaseRuns, Zenon
<1>4. Steady(r, q)
  <2>1. Refunding(r) /\ ~PayingBack(r) /\ ~Rewarding(r)
    BY <1>2 DEF Refunding, PayingBack, Rewarding
  <2>2. ~Refunding(q) /\ ~PayingBack(q) /\ ~Rewarding(q)
    BY <1>3 DEF Refunding, PayingBack, Rewarding
  <2>3. \A i \in Rows : i \in Refunded' <=> i \in Refunded \/ i \in r.list
    BY <1>2 DEF Refunded, SameSeats
  <2>4. \A i \in Rows : PaidBack(q, i)' <=> PaidBack(r, i)
    <3>1. \A i \in Rows : PaidBack(r, i) <=> i \in Refunded \/ i \in r.list
      BY <1>2, <2>1, AllStatuses DEF PaidBack, Unplayed
    <3>2. Refunding(q)' = Refunding(q) /\ PayingBack(q)' = PayingBack(q)
      BY DEF Refunding, PayingBack
    <3>3. \A i \in Rows : PaidBack(q, i)' <=> i \in Refunded'
      BY <1>2, <2>2, <3>2, AllStatuses DEF PaidBack, Unplayed
    <3> QED
      BY <2>3, <3>1, <3>3
  <2>5. Unrewarded(q) /\ Unrewarded(r) /\ \A u : Seated(q, u) = Seated(r, u)
    BY <1>2, <1>3, <2>1, <2>2 DEF Unrewarded, Seated
  <2>6. duel.status # Resolved /\ duel'.status # Resolved
    BY <1>2, AllStatuses
  <2> QED
    BY <1>2, <2>4, <2>5, <2>6, QuietSteady
<1> QED
  BY <1>1, <1>2, <1>3, <1>4, QuietBooks

LEMMA ApprovalBooks ==
  ASSUME BooksInv, OneAtATime, BaseInv', NEW h \in Handlers, Record(h), req[h].job = "approve"
  PROVE  BooksInv'
<1>1. PICK r : r = req[h]
  OBVIOUS
<1>2. /\ r.pc = "record" /\ req' = [req EXCEPT ![h] = Idle]
      /\ UNCHANGED <<players, usdc, room, faultsLeft>> /\ duel'.status = InProcess
  BY <1>1, ApprovalAs, BaseRuns
<1>3. ASSUME Faults = 0 PROVE Steady(r, Idle)
  <2>1. duel.status = InReview
    BY <1>1, <1>3, KnownOf DEF PlaceNow
  <2>2. Refunded = {}
    <3>1. duel.status \notin Terminal => \A w \in Refunded : Settling(r, w)
      BY <1>1, <1>3, KnownOf
    <3>2. \A w : ~Settling(r, w)
      BY <1>2 DEF Settling, Rewarding
    <3> QED
      BY <2>1, <3>1, <3>2, AllStatuses
  <2>3. Refunded' = {} /\ SameSeats
    BY <1>2, <2>2 DEF Refunded, SameSeats, Rows
  <2>4. \A i \in Rows : PaidBack(Idle, i)' <=> PaidBack(r, i)
    <3>1. ~Refunding(r) /\ ~PayingBack(r) /\ ~Refunding(Idle)' /\ ~PayingBack(Idle)'
      BY <1>2 DEF Refunding, PayingBack, Idle
    <3>2. \A i \in Rows : ~PaidBack(r, i)
      BY <2>1, <2>2, <3>1, AllStatuses DEF PaidBack
    <3>3. \A i \in Rows : ~PaidBack(Idle, i)'
      BY <1>2, <2>3, <3>1, AllStatuses DEF PaidBack
    <3> QED
      BY <3>2, <3>3
  <2>5. Unrewarded(Idle) /\ Unrewarded(r) /\ \A u : Seated(Idle, u) = Seated(r, u)
    BY <1>1, <1>2 DEF Unrewarded, Rewarding, Seated, Idle
  <2>6. duel.status # Resolved /\ duel'.status # Resolved
    BY <1>2, <2>1, AllStatuses
  <2> QED
    BY <2>3, <2>4, <2>5, <2>6, QuietSteady
<1>4. duel'.status \notin Terminal
  BY <1>2, AllStatuses
<1> QED
  BY <1>1, <1>2, <1>3, <1>4, QuietBooks

\* a stake is waived: nobody pays
LEMMA PublishBooks ==
  ASSUME BooksInv, OneAtATime, BaseInv', NEW h \in Handlers, PublishUncharged(h)
  PROVE  BooksInv'
<1>1. PICK r : r = req[h]
  OBVIOUS
<1>2. /\ r.pc = "publish" /\ req' = [req EXCEPT ![h] = Idle] /\ duel.status = InReview
      /\ UNCHANGED <<usdc, room, faultsLeft>> /\ duel'.status = InProcess /\ SameSeats
      /\ \A i \in Rows : players'[i].finalStatus = players[i].finalStatus
  BY <1>1, PublishAs, BaseRuns
<1>3. ASSUME Faults = 0 PROVE Steady(r, Idle)
  <2>1. Refunded = {}
    <3>1. duel.status \notin Terminal => \A w \in Refunded : Settling(r, w)
      BY <1>1, <1>3, KnownOf
    <3>2. \A w : ~Settling(r, w)
      BY <1>2 DEF Settling, Rewarding
    <3> QED
      BY <1>2, <3>1, <3>2, AllStatuses
  <2>2. Refunded' = {}
    BY <1>2, <2>1 DEF Refunded, SameSeats
  <2>3. \A i \in Rows : PaidBack(Idle, i)' <=> PaidBack(r, i)
    <3>1. ~Refunding(r) /\ ~PayingBack(r) /\ ~Refunding(Idle)' /\ ~PayingBack(Idle)'
      BY <1>2 DEF Refunding, PayingBack, Idle
    <3>2. \A i \in Rows : ~PaidBack(r, i)
      BY <1>2, <2>1, <3>1, AllStatuses DEF PaidBack
    <3>3. \A i \in Rows : ~PaidBack(Idle, i)'
      BY <1>2, <2>2, <3>1, AllStatuses DEF PaidBack
    <3> QED
      BY <3>2, <3>3
  <2>4. Unrewarded(Idle) /\ Unrewarded(r) /\ \A u : Seated(Idle, u) = Seated(r, u)
    BY <1>2 DEF Unrewarded, Rewarding, Seated, Idle
  <2>5. duel.status # Resolved /\ duel'.status # Resolved
    BY <1>2, AllStatuses
  <2> QED
    BY <1>2, <2>3, <2>4, <2>5, QuietSteady
<1>4. duel'.status \notin Terminal
  BY <1>2, AllStatuses
<1> HIDE DEF Idle
<1> QED
  BY <1>1, <1>2, <1>3, <1>4, QuietBooks

\* a step that leaves everything paid as it is
LEMMA StandingBooks ==
  ASSUME BooksInv, OneAtATime, BaseInv', NEW h \in Handlers,
         UNCHANGED <<players, usdc, room, req, faultsLeft>>,
         duel'.status = duel.status, duel'.owner = duel.owner,
         duel'.playersCount = duel.playersCount,
         duel'.refundedPlayersCount = duel.refundedPlayersCount
  PROVE  BooksInv'
<1>1. PICK r : r = req[h]
  OBVIOUS
<1>2. req' = [req EXCEPT ![h] = r]
  BY <1>1, TypedFields, BaseRuns
<1>3. /\ SameSeats /\ \A i : SentTo(r, i)' = SentTo(r, i)
      /\ OwnerBonus(r)' = OwnerBonus(r) /\ ReferrerBonus(r)' = ReferrerBonus(r)
  BY SamePaid
<1>4. Steady(r, r)
  BY <1>3 DEF Steady
<1> QED
  BY <1>1, <1>2, <1>4, QuietBooks

LEMMA ClockBooks ==
  ASSUME BooksInv, OneAtATime, BaseInv', Tick \/ UNCHANGED vars
  PROVE  BooksInv'
<1>1. PICK h : Handlers = {h}
  BY DEF OneAtATime
<1>2. UNCHANGED <<duel, players, usdc, room, req, faultsLeft>>
  BY DEF Tick, vars, db, chain
<1> QED
  BY <1>1, <1>2, StandingBooks

LEMMA AbortBooks ==
  ASSUME BooksInv, BaseInv', NEW h \in Handlers, Abort(h)
  PROVE  BooksInv'
<1>1. RunInv /\ Faults' = Faults + 1 /\ Faults \in Nat
  BY BaseRuns, FaultsGrow, FaultsCounted DEF Abort
<1> QED
  BY <1>1 DEF BooksInv

LEMMA CreateBooks ==
  ASSUME BooksInv, OneAtATime, BaseInv', NEW h \in Handlers, NEW u \in Creators,
         NEW s \in Schedules, NEW answer \in Answers, CreateNewCryptoDuel(h, u, s, answer)
  PROVE  BooksInv'
<1>1. PICK snap : snap = DuelByCreateReq(u, TRUE, s)
  OBVIOUS
<1>2. PICK q : q = [Idle EXCEPT !.pc = "charge", !.job = "create", !.user = u,
                              !.snap = snap, !.answer = answer, !.since = now]
  OBVIOUS
<1>3. q.pc = "charge"
  BY <1>2 DEF Idle
<1>4. req' = [req EXCEPT ![h] = q] /\ UNCHANGED <<duel, players, usdc, room, faultsLeft>>
  BY <1>1, <1>2, Zenon DEF CreateNewCryptoDuel, Become, db, chain
<1>5. PICK r : r = req[h]
  OBVIOUS
<1>6. r.pc = "idle" /\ duel = NoDuel
  BY <1>5 DEF CreateNewCryptoDuel, Arrives, FreshDuel
<1>7. Steady(r, q)
  <2>1. duel.status # Resolved /\ duel'.status # Resolved
    BY <1>4, <1>6, AllStatuses DEF NoDuel
  <2>2. \A i \in Rows : PaidBack(q, i) <=> PaidBack(r, i)
    BY <1>3, <1>6 DEF PaidBack, Refunding, PayingBack
  <2>3. SameSeats /\ \A i \in Rows : PaidBack(q, i)' <=> PaidBack(r, i)
    BY <1>4, <2>2, SamePaid
  <2>4. Unrewarded(q) /\ Unrewarded(r) /\ \A v : Seated(q, v) = Seated(r, v)
    BY <1>3, <1>6 DEF Unrewarded, Rewarding, Seated
  <2> QED
    BY <2>1, <2>3, <2>4, QuietSteady
<1> QED
  BY <1>4, <1>5, <1>7, QuietBooks

\* a seat is taken that was paid for, or that need not be paid for yet
LEMMA SeatedBooks ==
  ASSUME CryptoInv, NEW r \in Request, AccountsNow(r), UNCHANGED <<usdc, room>>,
         NEW n, n \notin Rows, Rows' = Rows \cup {n}, \A i \in Rows : players'[i] = players[i],
         Unrewarded(r), duel.status \notin Terminal, duel'.status \notin Terminal,
         ~PaidBack(Idle, n)', \A i \in Rows : PaidBack(Idle, i)' <=> PaidBack(r, i),
         room.state = "none" \/ \A u \in Users : Seated(r, u) = IF players'[n].user = u THEN 1 ELSE 0
  PROVE  AccountsNow(Idle)'
<1>1. duel.status # Resolved /\ duel'.status # Resolved
  BY AllStatuses
<1>2. r.amount \in Nat /\ Unrewarded(Idle)
  BY DEF Request, Unrewarded, Rewarding, Idle
<1>3. \A i : Won(r, i) = 0 /\ Won(Idle, i)' = 0
  BY <1>1, <1>2, NotWon, NotWonThen DEF Unrewarded
<1>4. SentTo(Idle, n)' = 0 /\ \A i \in Rows : SentTo(Idle, i)' = SentTo(r, i)
  BY <1>3 DEF SentTo, Stake
<1>5. /\ \A u : Given(Idle, u)' = Given(r, u)
      /\ \A u : SeatsOf(u)' = (IF players'[n].user = u THEN SeatsOf(u) \cup {n} ELSE SeatsOf(u))
      /\ AllGiven(Idle)' = AllGiven(r)
  <2>1. \A i \in Rows : SentTo(Idle, i)' = SentTo(r, i) /\ players'[i] = players[i]
    BY <1>4
  <2>2. SentTo(Idle, n)' = 0
    BY <1>4
  <2> HIDE DEF Idle
  <2> QED
    BY <1>2, <2>1, <2>2, GivenSeat
<1>6. OwnerBonus(r) = 0 /\ ReferrerBonus(r) = 0 /\ OwnerBonus(Idle)' = 0 /\ ReferrerBonus(Idle)' = 0
  BY <1>1, <1>2, NoBonus, NoBonusThen DEF Unrewarded
<1>7. \A u : Bonus(r, u) = 0 /\ Bonus(Idle, u)' = 0
  BY <1>6 DEF Bonus
<1>8. ASSUME NEW u \in Users PROVE Staked(Idle, u)' = Staked(r, u)
  <2>1. Seated(Idle, u)' = 0
    BY DEF Seated, Idle
  <2>2. CASE room.state = "none"
    BY <2>2 DEF Staked
  <2>3. CASE room.state # "none"
    <3>1. Seated(r, u) = IF players'[n].user = u THEN 1 ELSE 0
      BY <2>3
    <3>2. /\ IsFiniteSet(SeatsOf(u)) /\ n \notin SeatsOf(u)
          /\ Cardinality(SeatsOf(u)) \in Nat
      BY RowsFinite DEF SeatsOf
    <3>3. Cardinality(SeatsOf(u)') = Cardinality(SeatsOf(u)) + Seated(r, u)
      <4>1. CASE players'[n].user = u
        <5>1. SeatsOf(u)' = SeatsOf(u) \cup {n}
          BY <1>5, <4>1
        <5>2. Cardinality(SeatsOf(u) \cup {n}) = Cardinality(SeatsOf(u)) + 1
          BY <3>2, FS_AddElement
        <5>3. Cardinality(SeatsOf(u)') = Cardinality(SeatsOf(u)) + 1
          BY <5>1, <5>2, Zenon
        <5> QED
          BY <3>1, <4>1, <5>3
      <4>2. CASE players'[n].user # u
        <5>1. SeatsOf(u)' = SeatsOf(u)
          BY <1>5, <4>2
        <5>2. Cardinality(SeatsOf(u)') = Cardinality(SeatsOf(u))
          BY <5>1, Zenon
        <5> QED
          BY <3>1, <3>2, <4>2, <5>2
      <4> QED
        BY <4>1, <4>2
    <3>4. Cardinality(SeatsOf(u)') \in Nat
      BY <3>1, <3>2, <3>3
    <3>5. Staked(r, u) = Cardinality(SeatsOf(u)) + Seated(r, u)
      BY <2>3, Zenon DEF Staked
    <3>6. Staked(Idle, u)' = Cardinality(SeatsOf(u)') + 0
      BY <2>1, <2>3, Zenon DEF Staked
    <3> QED
      BY <3>3, <3>4, <3>5, <3>6
  <2> QED
    BY <2>2, <2>3
<1>9. UsersNow(Idle)'
  <2> SUFFICES ASSUME NEW u \in Users
               PROVE  /\ room'.entries[u] = Staked(Idle, u)'
                      /\ usdc'[u] = InitialUSDC - Stake * room'.entries[u] + Given(Idle, u)'
                                      + Bonus(Idle, u)'
    BY DEF UsersNow
  <2>1. /\ room.entries[u] = Staked(r, u)
        /\ usdc[u] = InitialUSDC - Stake * room.entries[u] + Given(r, u) + Bonus(r, u)
    BY DEF AccountsNow, UsersNow
  <2> QED
    BY <1>5, <1>7, <1>8, <2>1, Zenon
<1>10. HouseNow(Idle)'
  <2>1. Collected' = Collected
    BY Zenon DEF Collected, Entries
  <2> QED
    BY <1>5, <1>6, <2>1, Zenon DEF HouseNow, AccountsNow
<1> QED
  BY <1>9, <1>10 DEF AccountsNow, Solvent

LEMMA SeatBooks ==
  ASSUME BooksInv, OneAtATime, BaseInv', NEW h \in Handlers, Record(h), req[h].job # "approve"
  PROVE  BooksInv'
<1>1. PICK r : r = req[h]
  OBVIOUS
<1>2. /\ r.pc = "record" /\ duel.status \notin Terminal /\ r.user \in Users
      /\ req' = [req EXCEPT ![h] = Idle] /\ UNCHANGED <<usdc, room, faultsLeft>>
      /\ duel'.status = r.snap.status
      /\ \E n \in Nat : /\ n \notin Rows /\ Rows' = Rows \cup {n}
                        /\ players'[n].user = r.user /\ players'[n].finalStatus = PlayerActive
                        /\ players'[n].winAmount = 0
                        /\ \A i \in Rows : players'[i] = players[i]
  BY <1>1, SeatAs, BaseRuns
<1>3. PICK n \in Nat : /\ n \notin Rows /\ Rows' = Rows \cup {n}
                       /\ players'[n].user = r.user /\ players'[n].finalStatus = PlayerActive
                       /\ \A i \in Rows : players'[i] = players[i]
  BY <1>2
<1>4. SUFFICES ASSUME Faults' = 0 PROVE AccountsNow(Idle)'
  BY <1>2, BooksSteps
<1>5. Faults = 0
  BY <1>2, <1>4, NoFaultYet, BaseRuns
<1>6. CryptoInv /\ r \in Request /\ AccountsNow(r) /\ SnapNow(r) /\ PlaceNow(r) /\ RequestFit(r)
  BY <1>1, <1>5, KnownOf
<1>7. duel'.status = InProcess
  <2>1. CASE r.job = "create"
    BY <1>2, <1>6, <2>1 DEF SnapNow
  <2>2. CASE r.job # "create"
    <3>1. r.job = "join" /\ r.snap = duel
      BY <1>1, <1>2, <1>6, <2>2 DEF RequestFit, SnapNow
    <3> QED
      BY <1>2, <1>6, <3>1 DEF PlaceNow
  <2> QED
    BY <2>1, <2>2
<1>8. Refunded = {}
  <2>1. \A w \in Refunded : Settling(r, w)
    BY <1>1, <1>2, <1>5, KnownOf
  <2> QED
    BY <1>2, <2>1 DEF Settling, Rewarding
<1>9. Refunded' = {}
  BY <1>3, <1>8 DEF Refunded, PlayerActive, PlayerRefunded
<1>10. \A i : ~PaidBack(r, i) /\ ~PaidBack(Idle, i)'
  <2>1. ~Refunding(r) /\ ~PayingBack(r) /\ ~Refunding(Idle)' /\ ~PayingBack(Idle)'
    BY <1>2 DEF Refunding, PayingBack, Idle
  <2> QED
    BY <1>2, <1>7, <1>8, <1>9, <2>1, AllStatuses DEF PaidBack
<1>11. Unrewarded(r) /\ \A u \in Users : Seated(r, u) = IF players'[n].user = u THEN 1 ELSE 0
  BY <1>1, <1>2, <1>3 DEF Unrewarded, Rewarding, Seated
<1>12. duel'.status \notin Terminal
  BY <1>7, AllStatuses
<1> HIDE DEF Idle
<1> QED
  BY <1>2, <1>3, <1>6, <1>10, <1>11, <1>12, SeatedBooks

LEMMA OpeningBooks ==
  ASSUME BooksInv, OneAtATime, BaseInv', NEW h \in Handlers, NEW s \in Schedules,
         \/ \E u \in Admins, crypto \in BOOLEAN : CreateNewCryptoDuelAdmin(h, u, crypto, s)
         \/ \E u \in Creators, answer \in Answers : CreateInReview(h, u, s, answer)
         \/ EditDuel(h, s)
  PROVE  BooksInv'
<1>1. PICK r : r = req[h]
  OBVIOUS
<1>2. RunInv /\ r = Idle /\ UNCHANGED <<req, faultsLeft>> /\ req' = [req EXCEPT ![h] = r]
  <2>1. RunInv /\ RequestFit(r) /\ req \in [Handlers -> Request]
    BY <1>1, BaseRuns, TypedFields
  <2>2. r.pc = "idle" /\ UNCHANGED <<req, faultsLeft>>
    BY <1>1 DEF CreateNewCryptoDuelAdmin, CreateInReview, EditDuel, Arrives
  <2> QED
    BY <1>1, <2>1, <2>2 DEF RequestFit
<1>3. CASE EditDuel(h, s)
  BY <1>2, <1>3, EditAs, StandingBooks
<1>4. ASSUME duel = NoDuel, ~EditDuel(h, s)
      PROVE  Rows = {} /\ players = <<>> /\ duel.status = NoStatus /\ Refunded = {}
  BY <1>2, <1>4 DEF RunInv, RowsNow, NoDuel, Rows, Refunded
<1>5. CASE \E u \in Admins, crypto \in BOOLEAN : CreateNewCryptoDuelAdmin(h, u, crypto, s)
  <2>1. PICK u \in Admins, crypto \in BOOLEAN : CreateNewCryptoDuelAdmin(h, u, crypto, s)
    BY <1>5
  <2>2. PICK row \in DuelRow : row = DuelByCreateReq(u, crypto, s)
    BY <1>2, CreateReqType, TypedFields, WalletsAssumption DEF RunInv
  <2>3. duel = NoDuel /\ duel' = [row EXCEPT !.status = InProcess] /\ UNCHANGED <<players, usdc, room>>
    BY <2>1, <2>2 DEF CreateNewCryptoDuelAdmin, FreshDuel, chain
  <2>4. duel'.status = InProcess
    BY <2>3 DEF DuelRow
  <2>5. players = <<>> /\ duel.status = NoStatus
    BY <1>2, <2>3 DEF RunInv, RowsNow, NoDuel
  <2>6. SameSeats /\ Rows = {}
    BY <2>3, <2>5 DEF SameSeats, Rows
  <2>7. Unrewarded(r) /\ duel.status # Resolved /\ duel'.status # Resolved
    BY <1>2, <2>4, <2>5, AllStatuses DEF Unrewarded, Rewarding, Idle
  <2>8. Steady(r, r)
    BY <2>6, <2>7, QuietSteady
  <2>9. duel'.status \notin Terminal
    BY <2>4, AllStatuses
  <2> QED
    BY <1>1, <1>2, <2>3, <2>8, <2>9, QuietBooks
<1>6. CASE \E u \in Creators, answer \in Answers : CreateInReview(h, u, s, answer)
  <2>1. PICK u \in Creators, answer \in Answers : CreateInReview(h, u, s, answer)
    BY <1>6
  <2>2. PICK row \in DuelRow : row = DuelByCreateReq(u, FALSE, s) /\ row.status = InReview
    <3>1. u \in Users /\ now \in Nat
      BY <1>2, TypedFields, WalletsAssumption DEF RunInv
    <3>2. /\ DuelByCreateReq(u, FALSE, s) \in DuelRow
          /\ DuelByCreateReq(u, FALSE, s).status = InReview
      BY <3>1, CreateReqType
    <3> QED
      BY <3>2
  <2>3. PICK seat : seat = Seat(u, answer, now)
    OBVIOUS
  <2>4. duel' = SeatTaken(row, row) /\ players' = <<seat>> /\ UNCHANGED <<usdc, room>>
    BY <2>1, <2>2, <2>3, Zenon DEF CreateInReview, chain
  <2>5. duel = NoDuel /\ room.state = "none"
    BY <2>1 DEF CreateInReview, FreshDuel, NoRoom
  <2>6. duel'.status = InReview
    BY <2>2, <2>4, SeatTakenType
  <2>7. players = <<>> /\ duel.status = NoStatus
    BY <1>2, <2>5 DEF RunInv, RowsNow, NoDuel
  <2>8. 1 \notin Rows /\ Rows' = Rows \cup {1} /\ \A i \in Rows : players'[i] = players[i]
    BY <2>4, <2>7 DEF Rows
  <2>9. SUFFICES ASSUME Faults' = 0 PROVE AccountsNow(Idle)'
    BY <1>2, BooksSteps
  <2>10. CryptoInv /\ Idle \in Request /\ AccountsNow(Idle)
    <3>1. Faults = 0
      BY <1>2, <2>9, NoFaultYet, BaseRuns
    <3> QED
      BY <1>1, <1>2, <3>1, KnownOf
  <2>11. ~PaidBack(Idle, 1)'
    BY <2>6, AllStatuses DEF PaidBack, Refunding, PayingBack, Idle, Unplayed
  <2>12. Unrewarded(Idle) /\ duel.status \notin Terminal /\ duel'.status \notin Terminal /\ Rows = {}
    BY <2>6, <2>7, AllStatuses DEF Unrewarded, Rewarding, Idle, Rows
  <2> HIDE DEF Idle
  <2> QED
    BY <2>4, <2>5, <2>8, <2>10, <2>11, <2>12, SeatedBooks
<1> QED
  BY <1>3, <1>5, <1>6

LEMMA RowsCounted ==
  ASSUME CryptoInv
  PROVE  IsFiniteSet(Rows) /\ Cardinality(Rows) = Len(players)
<1>1. Rows = 1..Len(players) /\ Len(players) \in Nat
  BY TypedFields, LenProperties DEF Rows
<1>2. \A n \in Nat : IsFiniteSet(1..n) /\ Cardinality(1..n) = n
  BY FS_Interval
<1> QED
  BY <1>1, <1>2, Zenon

\* the same was sent to every seat
LEMMA EqualGiven ==
  ASSUME CryptoInv, NEW r, NEW c \in Int, \A i \in Rows : Sent(r)[i] = c
  PROVE  AllGiven(r) = Len(players) * c
<1>1. PICK f : f = Sent(r)
  OBVIOUS
<1>2. SumFunctionOnSet(f, Rows) = Cardinality(Rows) * c
  BY <1>1, RowsCounted, SumOfConstant
<1> QED
  BY <1>1, <1>2, RowsCounted, Zenon DEF AllGiven

\* while a duel plays and its settlement ends, the house has got every stake but the
\* waived one
LEMMA CollectedAll ==
  ASSUME BooksInv, NEW h \in Handlers, NEW r, r = req[h], Faults = 0,
         duel.status = InProcess, r.pc \in {"settle", "cancelUpdate"}
  PROVE  Collected + Forgone = Stake * Len(players)
<1>1. CryptoInv /\ PlaceNow(r) /\ RunInv
  BY KnownOf
<1>2. room.state \in {"none", "closed"}
  BY <1>1, TypedFields DEF PlaceNow
<1>3. CASE room.state = "none"
  <2>1. Collected = 0 /\ Stake \in Nat
    BY <1>3, PriceAssumption DEF Collected, Stake, Micro
  <2>2. CASE players = <<>>
    <3>1. Forgone = 0 /\ Len(players) = 0
      BY <2>2 DEF Forgone, Rows
    <3> QED
      BY <2>1, <3>1
  <2>3. CASE players # <<>>
    <3>1. Len(players) = 1 /\ Rows = {1}
      BY <1>1, <1>3, <2>3, NoRoomYet, WaivedIs DEF Bare
    <3>2. Forgone = Stake
      BY <1>3, <3>1, AllStatuses DEF Forgone, Unplayed
    <3> QED
      BY <2>1, <3>1, <3>2
  <2> QED
    BY <2>2, <2>3
<1>4. CASE room.state = "closed"
  <2>1. Entries = duel.playersCount + OnTheWay(r) /\ OnTheWay(r) = 0
    BY <1>1, <1>4 DEF PlaceNow, OnTheWay
  <2>2. Entries = Len(players)
    BY <1>1, <2>1, TypedFields DEF RunInv, RowsNow
  <2>3. Collected = Stake * Len(players) /\ Forgone = 0
    BY <1>4, <2>2, Zenon DEF Collected, Forgone
  <2>4. Stake \in Nat /\ Len(players) \in Nat
    BY <1>1, TypedFields, LenProperties, PriceAssumption DEF Stake, Micro
  <2>5. \A m, n \in Nat : m * n + 0 = m * n
    OBVIOUS
  <2> QED
    BY <2>3, <2>4, <2>5, Zenon
<1> QED
  BY <1>2, <1>3, <1>4

LEMMA CancelUpdateBooks ==
  ASSUME BooksInv, OneAtATime, BaseInv', NEW h \in Handlers, CancelUpdate(h)
  PROVE  BooksInv'
<1>1. PICK r : r = req[h]
  OBVIOUS
<1>2. /\ r.pc = "cancelUpdate" /\ r.target \in Cancelled /\ r.due = {}
      /\ duel.status = (IF r.target = Refund THEN InProcess ELSE InReview)
      /\ UNCHANGED <<players, usdc, room, faultsLeft>>
      /\ duel'.status = r.target
  BY <1>1, CancelUpdateAs, BaseRuns
<1>3. PICK q : /\ req' = [req EXCEPT ![h] = q]
               /\ q.pc = "cancelSeats" /\ q.target = r.target /\ q.due = r.due
  BY <1>1, CancelUpdateAs, BaseRuns, Zenon
<1>4. SUFFICES ASSUME Faults' = 0 PROVE AccountsNow(q)'
  BY <1>3, BooksSteps
<1>5. Faults = 0
  BY <1>2, <1>4, NoFaultYet, BaseRuns
<1>6. CryptoInv /\ r \in Request /\ AccountsNow(r) /\ PlaceNow(r)
  BY <1>1, <1>5, KnownOf
<1>7. ~Refunding(r) /\ ~Rewarding(r) /\ (PayingBack(r) <=> r.target = Refund)
  BY <1>2 DEF Refunding, Rewarding, PayingBack
<1>8. Steady(r, q)
  <2>1. SameSeats
    BY <1>2 DEF SameSeats, Rows
  <2>2. duel.status # Resolved /\ duel'.status # Resolved
    BY <1>2, AllStatuses
  <2>3. Unrewarded(r) /\ Unrewarded(q) /\ \A u : Seated(q, u) = Seated(r, u)
    BY <1>2, <1>3, <1>7 DEF Unrewarded, Rewarding, Seated
  <2>4. \A i \in Rows : PaidBack(q, i)' <=> PaidBack(r, i)
    <3>1. (Refunding(q)' <=> FALSE) /\ (PayingBack(q)' <=> r.target = Refund)
      BY <1>3 DEF Refunding, PayingBack
    <3>2. CASE r.target = Refund
      BY <1>2, <1>7, <3>2 DEF PaidBack
    <3>3. CASE r.target # Refund
      BY <1>2, <1>7, <3>1, <3>3, AllStatuses DEF PaidBack, Unplayed
    <3> QED
      BY <3>2, <3>3
  <2> QED
    BY <2>1, <2>2, <2>3, <2>4, QuietSteady
<1>9. Solvent'
  <2>1. usdc[Admin] = AdminFloat + Collected - AllGiven(r)
    <3>1. OwnerBonus(r) = 0 /\ ReferrerBonus(r) = 0
      BY <1>2, <1>7, AllStatuses, NoBonus
    <3>2. usdc[Admin] = AdminFloat + Collected - AllGiven(r) - OwnerBonus(r) - ReferrerBonus(r)
      BY <1>6 DEF AccountsNow, HouseNow
    <3>3. AllGiven(r) \in Int /\ Collected \in Int /\ AdminFloat \in Int
      <4>1. AllGiven(r) \in Int
        BY <1>6, GivenInt DEF Request
      <4>2. Collected \in Int
        BY <1>6, EntriesType, SentType DEF Collected, Request
      <4> QED
        BY <4>1, <4>2, WalletsAssumption
    <3> QED
      BY <3>1, <3>2, <3>3
  <2>2. /\ IsFiniteSet(Rows) /\ Stake \in Nat /\ Cardinality(Rows) = Len(players)
        /\ \A i \in Rows : Sent(r)[i] = SentTo(r, i)
    <3>1. Rows = 1..Len(players) /\ Len(players) \in Nat
      BY <1>6, TypedFields, LenProperties DEF Rows
    <3>2. Cardinality(Rows) = Len(players)
      BY <1>6, RowsCounted
    <3> QED
      BY <1>6, <3>2, SentType DEF Request
  <2>3. \A i \in Rows : Won(r, i) = 0
    BY <1>2, <1>7, AllStatuses, NotWon
  <2>4. CASE r.target = Refund
    <3>1. \A i \in Rows : Sent(r)[i] = Stake
      BY <1>2, <1>7, <2>2, <2>4 DEF SentTo, PaidBack
    <3>2. AllGiven(r) = Len(players) * Stake
      BY <1>6, <2>2, <3>1, EqualGiven
    <3>3. Collected + Forgone = Stake * Len(players)
      BY <1>1, <1>2, <1>5, <2>4, CollectedAll
    <3>4. Forgone' = Forgone
      <4>1. Rows' = Rows /\ duel.status \notin Unplayed /\ duel'.status \notin Unplayed
        BY <1>2, <2>4, AllStatuses DEF Rows, Unplayed
      <4> QED
        BY <1>2, <4>1, Zenon DEF Forgone
    <3>5. usdc[Admin] + Forgone = AdminFloat
      <4>1. Forgone \in Nat /\ Collected \in Nat /\ Len(players) \in Nat
        BY <1>6, EntriesType, <2>2, TypedFields, LenProperties DEF Forgone, Collected
      <4>2. \A m, n \in Nat : m * n = n * m
        OBVIOUS
      <4>3. AllGiven(r) = Collected + Forgone
        BY <2>2, <3>2, <3>3, <4>1, <4>2
      <4> QED
        BY <2>1, <4>1, <4>3, TypedFields, WalletsAssumption
    <3>6. usdc[Admin] + Forgone >= AdminFloat
      BY <3>5, WalletsAssumption
    <3> QED
      BY <1>2, <3>4, <3>6 DEF Solvent
  <2>5. CASE r.target # Refund
    <3>1. \A i \in Rows : Sent(r)[i] = 0
      BY <1>2, <1>7, <2>2, <2>3, <2>5, AllStatuses DEF SentTo, PaidBack, Unplayed
    <3>2. AllGiven(r) = Len(players) * 0
      BY <1>6, <3>1, EqualGiven
    <3>3. Collected \in Nat
      BY <1>6, EntriesType, <2>2 DEF Collected
    <3>4. usdc[Admin] >= AdminFloat /\ usdc[Admin] \in Nat
      BY <1>6, <2>1, <3>2, <3>3, TypedFields, WalletsAssumption
    <3>5. Forgone' \in Nat
      BY <2>2 DEF Forgone, Stake
    <3>6. usdc[Admin] + Forgone' >= AdminFloat
      BY <3>4, <3>5, WalletsAssumption
    <3> QED
      BY <1>2, <3>6 DEF Solvent
  <2> QED
    BY <2>4, <2>5
<1> QED
  BY <1>2, <1>6, <1>8, <1>9, SteadyBooks

LEMMA CancelSeatsBooks ==
  ASSUME BooksInv, OneAtATime, BaseInv', NEW h \in Handlers, CancelSeats(h)
  PROVE  BooksInv'
<1>1. PICK r : r = req[h]
  OBVIOUS
<1>2. /\ r.pc = "cancelSeats" /\ r.target \in Cancelled /\ duel.status = r.target
      /\ req' = [req EXCEPT ![h] = Idle] /\ UNCHANGED <<duel, usdc, room, faultsLeft>>
      /\ SameSeats
  BY <1>1, CancelSeatsAs, BaseRuns
<1>3. Steady(r, Idle)
  <2>1. duel.status # Resolved /\ duel'.status # Resolved
    BY <1>2, AllStatuses
  <2>2. Unrewarded(r) /\ Unrewarded(Idle) /\ \A u : Seated(Idle, u) = Seated(r, u)
    BY <1>2 DEF Unrewarded, Rewarding, Seated, Idle
  <2>3. \A i \in Rows : PaidBack(Idle, i)' <=> PaidBack(r, i)
    <3>1. ~Refunding(r) /\ ~Refunding(Idle)' /\ ~PayingBack(Idle)'
      BY <1>2 DEF Refunding, PayingBack, Idle
    <3>2. CASE r.target = Refund
      BY <1>2, <3>2 DEF PaidBack
    <3>3. CASE r.target # Refund
      <4>1. ~PayingBack(r)
        BY <1>2, <3>3 DEF PayingBack
      <4> QED
        BY <1>2, <3>1, <3>3, <4>1, AllStatuses DEF PaidBack, Unplayed
    <3> QED
      BY <3>2, <3>3
  <2> QED
    BY <1>2, <2>1, <2>2, <2>3, QuietSteady
<1> HIDE DEF Idle
<1> QED
  BY <1>1, <1>2, <1>3, QuietBooks

-----------------------------------------------------------------------------
(* The settlement *)

\* what is divided among the winners are the stakes that were not paid back
LEMMA PoolNow ==
  ASSUME BooksInv, NEW h \in Handlers, NEW r, r = req[h], Faults = 0, FewPlayers, Rewarding(r)
  PROVE  /\ duel.status = InProcess /\ r.snap = duel
         /\ \E n \in Nat : /\ n = duel.playersCount - duel.refundedPlayersCount
                           /\ n + Cardinality(Refunded) = Len(players)
                           /\ PoolOf(r) = Pool(DuelPrice, n)
                           /\ Reward = CryptoCommissionReward(Pool(DuelPrice, n), Commission)
                           /\ OwnerReward(r) = Reward
<1>1. CryptoInv /\ RunInv /\ r \in Request /\ RequestFit(r) /\ SnapNow(r)
  BY KnownOf
<1>2. r.pc \in {"ownerReward", "referrerReward", "settle", "pay", "close"}
  BY DEF Rewarding
<1>3. duel.status = InProcess /\ r.snap = duel
  BY <1>1, <1>2 DEF SnapNow, RequestFit
<1>4. /\ duel.playersCount = Len(players) /\ Len(players) \in Nat
      /\ duel.refundedPlayersCount = Cardinality(Refunded)
  BY <1>1, <1>3, TypedFields, AllStatuses DEF RunInv, RowsNow
<1>5. Cardinality(Refunded) \in Nat /\ Cardinality(Refunded) <= Len(players)
  <2>1. Refunded \in SUBSET Rows /\ IsFiniteSet(Rows) /\ Cardinality(Rows) = Len(players)
    BY <1>1, RowsCounted DEF Refunded
  <2> QED
    BY <2>1, FS_Subset, FS_CardinalityType
<1>6. PICK n : n = duel.playersCount - duel.refundedPlayersCount
  OBVIOUS
<1>7. n \in Nat /\ n + Cardinality(Refunded) = Len(players) /\ n < CountModulus
  BY <1>4, <1>5, <1>6, PriceAssumption DEF FewPlayers
<1>8. PlayersPool(r.snap.playersCount, r.snap.refundedPlayersCount, CountModulus) = n
  <2>1. \A k, f \in Nat, m \in Nat \ {0} : k < m /\ f <= k => (k - f) % m = k - f
    BY Remainder
  <2> QED
    BY <1>3, <1>4, <1>5, <1>6, <2>1, PriceAssumption DEF PlayersPool, FewPlayers
<1>9. PoolOf(r) = Pool(DuelPrice, n)
  BY <1>8, Zenon DEF PoolOf
<1>10. Reward = CryptoCommissionReward(Pool(DuelPrice, n), Commission)
  BY <1>6, Zenon DEF Reward
<1>11. OwnerReward(r) = Reward
  BY <1>9, <1>10, Zenon DEF OwnerReward
<1> QED
  BY <1>3, <1>6, <1>7, <1>9, <1>10, <1>11

\* the winners that are paid are those that were counted, and nobody refunded is
\* among them
LEMMA WinnersNow ==
  ASSUME BooksInv, NEW h \in Handlers, NEW r, r = req[h], Faults = 0, Rewarding(r)
  PROVE  /\ r.list = r.winners /\ r.list \in SUBSET Rows
         /\ r.list \cap Refunded = {}
<1>1. CryptoInv /\ RunInv /\ r \in Request /\ RequestFit(r) /\ SnapNow(r) /\ PlanNow(r) /\ PlanFresh(r)
  BY KnownOf
<1>2. r.pc \in {"ownerReward", "referrerReward", "settle", "pay", "close"}
  BY DEF Rewarding
<1>3. duel.status = InProcess
  BY <1>1, <1>2 DEF SnapNow
<1>4. \A w \in Refunded : Settling(r, w)
  BY <1>3, KnownOf, AllStatuses
<1>5. \A i \in Rows : /\ players[i].finalStatus \in {PlayerActive, PlayerRefunded}
                      /\ players[i].createdAt \in Nat /\ r.cutoff \in Int
  <2>1. \A i \in Rows : players[i] \in PlayerRow
    BY <1>1, TypedFields, LenProperties DEF Rows
  <2>2. \A i \in Rows : players[i].finalStatus \in {PlayerActive, PlayerRefunded}
    BY <1>1, <1>3, AllStatuses DEF RunInv, RowsNow
  <2> QED
    BY <1>1, <2>1, <2>2 DEF PlayerRow, Request
<1>6. r.list = GetCryptoDuelWinners(r.answer)
  BY <1>1 DEF PlanFresh
<1>7. r.winners = GetDuelWinners(r.answer, r.cutoff) /\ \A i \in Rows \ Refunded : ~Late(r, i)
  BY <1>1, <1>2 DEF PlanNow, Resolving
<1>8. \A i \in Rows : i \in Refunded <=> Late(r, i)
  BY <1>4, <1>7 DEF Settling
<1>9. \A i \in Rows : i \in r.list <=> (i \notin Refunded /\ players[i].answer = r.answer)
  BY <1>5, <1>6 DEF GetCryptoDuelWinners, Refunded, PlayerActive, PlayerRefunded
<1>10. \A i \in Rows : i \in r.winners <=> (~Late(r, i) /\ players[i].answer = r.answer)
  BY <1>5, <1>7 DEF GetDuelWinners, Late
<1>11. r.list \in SUBSET Rows /\ r.winners \in SUBSET Rows
  BY <1>6, <1>7, ReadsOfRows
<1>12. r.list = r.winners
  BY <1>8, <1>9, <1>10, <1>11
<1>13. r.list \cap Refunded = {}
  BY <1>9, <1>11
<1> QED
  BY <1>11, <1>12, <1>13

\* stakes paid back and rewards are what a settlement sends
LEMMA SettledSum ==
  ASSUME BooksInv, NEW h \in Handlers, NEW r, r = req[h], Faults = 0, r.pc = "settle"
  PROVE  /\ \A i \in Rows : SentTo(r, i) = IF i \in Refunded THEN Stake
                                           ELSE IF i \in r.list THEN r.amount ELSE 0
         /\ AllGiven(r) = Stake * Cardinality(Refunded) + r.amount * Cardinality(r.list)
<1>1. CryptoInv /\ RunInv /\ r \in Request /\ SnapNow(r) /\ PlanNow(r)
  BY KnownOf
<1>2. Rewarding(r) /\ ~Refunding(r) /\ ~PayingBack(r) /\ r.due = {} /\ duel.status = InProcess
  BY <1>1 DEF Rewarding, Refunding, PayingBack, PlanNow, SnapNow
<1>3. r.list \in SUBSET Rows /\ r.list \cap Refunded = {} /\ Refunded \in SUBSET Rows
  BY <1>2, WinnersNow DEF Refunded
<1>4. \A i \in Rows : SentTo(r, i) = IF i \in Refunded THEN Stake
                                     ELSE IF i \in r.list THEN r.amount ELSE 0
  BY <1>2, AllStatuses DEF SentTo, PaidBack, Won, Unplayed
<1>5. PICK f : f = [i \in Rows |-> IF i \in Refunded THEN Stake ELSE 0]
  OBVIOUS
<1>6. PICK g : g = [i \in Rows |-> IF i \in r.list THEN r.amount ELSE 0]
  OBVIOUS
<1>7. PICK k : k = Sent(r)
  OBVIOUS
<1>8. IsFiniteSet(Rows) /\ Stake \in Int /\ r.amount \in Int
  <2>1. IsFiniteSet(Rows) /\ Stake \in Nat /\ r.amount \in Nat
    BY <1>1, SentType DEF Request
  <2> QED
    BY <2>1
<1>9. \A i \in Rows : f[i] \in Int /\ g[i] \in Int /\ k[i] = f[i] + g[i]
  <2>1. \A i \in Rows : k[i] = SentTo(r, i)
    BY <1>7 DEF Sent
  <2>2. \A i \in Rows : ~(i \in Refunded /\ i \in r.list)
    BY <1>3
  <2> QED
    BY <1>4, <1>5, <1>6, <1>8, <2>1, <2>2
<1>10. SumFunctionOnSet(k, Rows) = SumFunctionOnSet(f, Rows) + SumFunctionOnSet(g, Rows)
  BY <1>8, <1>9, SumOfSum DEF IntOn
<1>11. SumFunctionOnSet(f, Rows) = Cardinality(Refunded) * Stake
  <2>1. (\A i \in Refunded : f[i] = Stake) /\ (\A i \in Rows \ Refunded : f[i] = 0)
    BY <1>3, <1>5
  <2> QED
    BY <1>3, <1>8, <2>1, SumOnPart
<1>12. SumFunctionOnSet(g, Rows) = Cardinality(r.list) * r.amount
  <2>1. (\A i \in r.list : g[i] = r.amount) /\ (\A i \in Rows \ r.list : g[i] = 0)
    BY <1>3, <1>6
  <2> QED
    BY <1>3, <1>8, <2>1, SumOnPart
<1>13. Cardinality(Refunded) \in Nat /\ Cardinality(r.list) \in Nat
  BY <1>3, <1>8, FS_Subset, FS_CardinalityType
<1>14. AllGiven(r) = Cardinality(Refunded) * Stake + Cardinality(r.list) * r.amount
  BY <1>7, <1>10, <1>11, <1>12, Zenon DEF AllGiven
<1> QED
  BY <1>4, <1>8, <1>13, <1>14

\* stakes cover what a settlement pays
LEMMA SettledWithin ==
  ASSUME BooksInv, NEW h \in Handlers, NEW r, r = req[h], Faults = 0, FewPlayers, r.pc = "settle"
  PROVE  usdc[Admin] + Forgone >= AdminFloat
<1>1. CryptoInv /\ r \in Request /\ PlanFresh(r) /\ AccountsNow(r)
  BY KnownOf
<1>2. Rewarding(r)
  BY DEF Rewarding
<1>3. PICK n \in Nat : /\ n + Cardinality(Refunded) = Len(players)
                       /\ PoolOf(r) = Pool(DuelPrice, n)
                       /\ Reward = CryptoCommissionReward(Pool(DuelPrice, n), Commission)
  BY <1>2, PoolNow
<1>4. PICK pool : pool = Pool(DuelPrice, n)
  OBVIOUS
<1>5. pool \in Nat /\ Commission \in 0..100 /\ Stake * n = pool * Micro /\ Stake \in Nat
  <2>1. DuelPrice \in Nat /\ n * DuelPrice \in Nat
    BY PriceAssumption, Product
  <2> QED
    BY <1>4, <2>1, PriceAssumption DEF Pool, Stake, Micro
<1>6. PICK w : w = Cardinality(r.list)
  OBVIOUS
<1>7. r.list = r.winners /\ w \in Nat /\ Cardinality(Refunded) \in Nat
  <2>1. r.list = r.winners /\ r.list \in SUBSET Rows /\ Refunded \in SUBSET Rows
    BY <1>2, WinnersNow DEF Refunded
  <2> QED
    BY <1>1, <1>6, <2>1, RowsFinite
<1>8. /\ Reward \in Nat /\ Reward \div 2 \in Nat /\ r.amount * w \in Nat
      /\ r.amount * w + Reward + Reward \div 2 <= pool * Micro
  <2>1. ASSUME NEW m \in Nat \ {0}, NEW amount, amount = FinalCryptoReward(pool, Commission, m)
        PROVE  /\ amount \in Nat /\ m * amount \in Nat /\ Reward \in Nat /\ Reward \div 2 \in Nat
               /\ m * amount + Reward + Reward \div 2 <= pool * Micro
    <3>1. /\ amount \in Nat
          /\ m * amount + Reward + Reward \div 2 <= pool * Micro
      BY <1>3, <1>4, <1>5, <2>1, CryptoPayoutWithinPool
    <3>2. OwnerReward(r) = Reward
      BY <1>2, PoolNow
    <3>3. Reward \in Nat /\ Reward \div 2 \in Nat
      BY <1>1, <3>2, OwnerRewardType
    <3> QED
      BY <3>1, <3>3, Product
  <2>2. CASE w = 0
    <3>1. PICK amount : amount = FinalCryptoReward(pool, Commission, 1)
      OBVIOUS
    <3>2. /\ amount \in Nat /\ 1 * amount \in Nat /\ Reward \in Nat /\ Reward \div 2 \in Nat
          /\ 1 * amount + Reward + Reward \div 2 <= pool * Micro
      BY <2>1, <3>1
    <3>3. r.amount * w = 0 /\ pool * Micro \in Nat
      BY <1>1, <1>5, <2>2, Product DEF Request, Micro
    <3>4. 0 + Reward + Reward \div 2 <= pool * Micro
      BY <3>2, <3>3
    <3> QED
      BY <3>2, <3>3, <3>4
  <2>3. CASE w # 0
    <3>1. r.amount = FinalCryptoReward(PoolOf(r), Commission, Cardinality(r.winners))
      BY <1>1, <1>2 DEF PlanFresh
    <3>2. r.amount = FinalCryptoReward(pool, Commission, w)
      BY <1>3, <1>4, <1>6, <1>7, <3>1, Zenon
    <3>3. /\ r.amount \in Nat /\ w * r.amount \in Nat /\ Reward \in Nat /\ Reward \div 2 \in Nat
          /\ w * r.amount + Reward + Reward \div 2 <= pool * Micro
      BY <1>7, <2>1, <2>3, <3>2
    <3>4. w * r.amount = r.amount * w
      BY <1>7, <3>3
    <3> QED
      BY <3>3, <3>4
  <2> QED
    BY <2>2, <2>3
<1>9. Collected + Forgone = Stake * Len(players)
  BY <1>2, CollectedAll, PoolNow
<1>10. AllGiven(r) = Stake * Cardinality(Refunded) + r.amount * w
  BY <1>6, SettledSum, Zenon
<1>11. /\ OwnerBonus(r) \in {0, Reward} /\ ReferrerBonus(r) \in {0, Reward \div 2}
       /\ usdc[Admin] = AdminFloat + Collected - AllGiven(r) - OwnerBonus(r) - ReferrerBonus(r)
  BY <1>1 DEF OwnerBonus, ReferrerBonus, AccountsNow, HouseNow
<1>12. PICK c : c = Cardinality(Refunded)
  OBVIOUS
<1>13. Stake * Len(players) = Stake * n + Stake * c
  <2>1. \A s, a, b \in Nat : s * (a + b) = s * a + s * b
    OBVIOUS
  <2>2. Stake \in Nat /\ n \in Nat /\ c \in Nat /\ Len(players) = n + c
    BY <1>3, <1>5, <1>7, <1>12
  <2>3. Stake * (n + c) = Stake * n + Stake * c
    BY <2>1, <2>2
  <2> QED
    BY <2>2, <2>3, Zenon
<1>14. PICK back : back = Stake * c
  OBVIOUS
<1>15. PICK won : won = r.amount * w
  OBVIOUS
<1>16. PICK stakes : stakes = Stake * n
  OBVIOUS
<1>17. PICK owners : owners = OwnerBonus(r)
  OBVIOUS
<1>18. PICK referrers : referrers = ReferrerBonus(r)
  OBVIOUS
<1>19. PICK forgone \in Nat : forgone = Forgone
  BY <1>5 DEF Forgone
<1>20. PICK collected \in Nat : collected = Collected
  BY <1>1, <1>5, EntriesType DEF Collected
<1>21. /\ collected + forgone = stakes + back
       /\ usdc[Admin] = AdminFloat + collected - (back + won) - owners - referrers
  BY <1>9, <1>10, <1>11, <1>12, <1>13, <1>14, <1>15, <1>16, <1>17, <1>18, <1>19, <1>20, Zenon
<1>22. stakes \in Nat /\ back \in Nat
  BY <1>5, <1>7, <1>12, <1>14, <1>16, Product
<1>23. won \in Nat /\ won + Reward + Reward \div 2 <= stakes /\ Reward \in Nat /\ Reward \div 2 \in Nat
  BY <1>5, <1>8, <1>15, <1>16
<1>24. usdc[Admin] \in Int /\ AdminFloat \in Int
  BY <1>1, TypedFields, WalletsAssumption
<1>25. owners \in Nat /\ referrers \in Nat /\ owners <= Reward /\ referrers <= Reward \div 2
  BY <1>11, <1>17, <1>18, <1>23
<1>26. PICK half : half = Reward \div 2
  OBVIOUS
<1>27. won + Reward + half <= stakes /\ half \in Nat /\ referrers <= half
  BY <1>23, <1>25, <1>26, Zenon
<1>28. usdc[Admin] + forgone >= AdminFloat
  BY <1>21, <1>22, <1>23, <1>24, <1>25, <1>27
<1> QED
  BY <1>19, <1>28, Zenon

LEMMA SettleBooks ==
  ASSUME BooksInv, OneAtATime, BaseInv', FewPlayers, NEW h \in Handlers, Settle(h)
  PROVE  BooksInv'
<1>1. PICK r : r = req[h]
  OBVIOUS
<1>2. /\ r.pc = "settle" /\ duel.status = InProcess /\ r.due = {}
      /\ req' = [req EXCEPT ![h] = Idle] /\ UNCHANGED <<usdc, room, faultsLeft>>
      /\ duel'.status = Resolved /\ duel'.playersCount = duel.playersCount
      /\ duel'.refundedPlayersCount = duel.refundedPlayersCount /\ duel'.owner = duel.owner
      /\ SameSeats
      /\ \A i \in Rows : /\ players'[i].finalStatus
                              = (IF i \in r.winners THEN PlayerResolved ELSE players[i].finalStatus)
                         /\ players'[i].winAmount
                              = (IF i \in r.winners THEN r.amount ELSE players[i].winAmount)
  BY <1>1, SettleAs, BaseRuns
<1>3. SUFFICES ASSUME Faults' = 0 PROVE AccountsNow(Idle)'
  BY <1>2, BooksSteps
<1>4. Faults = 0
  BY <1>2, <1>3, NoFaultYet, BaseRuns
<1>5. AccountsNow(r) /\ RowsFresh
  BY <1>1, <1>4, KnownOf
<1>6. Rewarding(r)
  BY <1>2 DEF Rewarding
<1>7. r.list = r.winners /\ r.list \cap Refunded = {}
  BY <1>1, <1>4, <1>6, WinnersNow
<1>8. Steady(r, Idle)
  <2>1. ~Refunding(Idle)' /\ ~PayingBack(Idle)'
    BY DEF Refunding, PayingBack, Idle
  <2>2. \A i \in Rows : i \in Refunded' <=> i \in Refunded
    BY <1>2, <1>7 DEF Refunded, SameSeats, PlayerResolved, PlayerRefunded
  <2>3. \A i \in Rows : PaidBack(Idle, i)' <=> i \in Refunded
    BY <1>2, <2>1, <2>2, AllStatuses DEF PaidBack, Unplayed
  <2>4. \A i \in Rows : Won(Idle, i)' = IF i \in r.winners THEN r.amount ELSE 0
    BY <1>2, <1>5, AllStatuses DEF Won, RowsFresh
  <2>5. \A i \in Rows : SentTo(Idle, i)' = IF i \in Refunded THEN Stake
                                           ELSE IF i \in r.list THEN r.amount ELSE 0
    BY <1>7, <2>3, <2>4 DEF SentTo, Stake
  <2>6. \A i \in Rows : SentTo(Idle, i)' = SentTo(r, i)
    BY <1>1, <1>2, <1>4, <2>5, SettledSum
  <2>7. \A u : Seated(Idle, u) = Seated(r, u)
    BY <1>2 DEF Seated, Idle
  <2>8. Reward' = Reward
    BY <1>2, Zenon DEF Reward
  <2>9. OwnerPaid(r) /\ ReferrerPaid(r) /\ OwnerPaid(Idle)' /\ ReferrerPaid(Idle)'
    BY <1>2, <1>6 DEF OwnerPaid, ReferrerPaid
  <2>10. OwnerBonus(Idle)' = OwnerBonus(r) /\ ReferrerBonus(Idle)' = ReferrerBonus(r)
    BY <1>2, <2>8, <2>9, Zenon DEF OwnerBonus, ReferrerBonus
  <2> QED
    BY <1>2, <2>6, <2>7, <2>10 DEF Steady
<1>9. Solvent'
  <2>1. usdc[Admin] + Forgone >= AdminFloat
    BY <1>1, <1>2, <1>4, SettledWithin
  <2>2. Rows' = Rows /\ duel.status \notin Unplayed /\ duel'.status \notin Unplayed
    BY <1>2, AllStatuses DEF SameSeats, Unplayed
  <2>3. Forgone' = Forgone
    BY <1>2, <2>2, Zenon DEF Forgone
  <2> QED
    BY <1>2, <2>1, <2>3 DEF Solvent
<1> HIDE DEF Idle
<1> QED
  BY <1>2, <1>5, <1>8, <1>9, SteadyBooks

LEMMA RewardInt ==
  ASSUME CryptoInv
  PROVE  Reward \in Int /\ Reward \div 2 \in Int
<1>1. duel.playersCount \in Nat /\ duel.refundedPlayersCount \in Nat
      /\ DuelPrice \in Nat /\ Commission \in Int
  BY TypedFields, PriceAssumption DEF DuelRow
<1>2. \A a, b \in Int : a * b \in Int
  OBVIOUS
<1>3. PICK n \in Int : n = duel.playersCount - duel.refundedPlayersCount
  BY <1>1
<1>4. PICK pool \in Int : pool = Pool(DuelPrice, n)
  BY <1>1, <1>2 DEF Pool
<1>5. PICK x \in Int : x = pool * Commission
  BY <1>1, <1>2
<1>6. Reward = (x * (Micro \div 100)) \div 2
  BY <1>3, <1>4, <1>5, Zenon DEF Reward, CryptoCommissionReward
<1> QED
  BY <1>6 DEF Micro

LEMMA BonusInt ==
  ASSUME CryptoInv
  PROVE  \A r : OwnerBonus(r) \in Int /\ ReferrerBonus(r) \in Int
BY RewardInt DEF OwnerBonus, ReferrerBonus

-----------------------------------------------------------------------------
(* Steps that move money *)

LEMMA CloseBooks ==
  ASSUME BooksInv, OneAtATime, BaseInv', NEW h \in Handlers, CloseResolved(h) \/ CloseCancelled(h)
  PROVE  BooksInv'
<1>1. PICK r : r = req[h]
  OBVIOUS
<1>2. PICK next \in {"settle", "cancelUpdate"} :
           /\ Close(h, next) /\ UNCHANGED <<duel, players>>
           /\ (next = "settle" <=> r.target = NoStatus)
           /\ r.pc = "close" /\ duel.status = InProcess
           /\ \E q : /\ req' = [req EXCEPT ![h] = q]
                     /\ q.pc = next /\ Alike(r, q)
  BY <1>1, CloseAs, BaseRuns
<1>3. PICK q : req' = [req EXCEPT ![h] = q] /\ q.pc = next /\ Alike(r, q)
  BY <1>2
<1>4. PICK o \in Outcomes :
          /\ Attempt(o, Tracked, room.state = "open")
          /\ IF o.landed
               THEN /\ usdc' = [usdc EXCEPT ![Admin] = @ + Stake * Entries]
                    /\ room' = [room EXCEPT !.state = "closed"]
               ELSE UNCHANGED <<usdc, room>>
  BY <1>2 DEF Close, chain
<1>5. SUFFICES ASSUME Faults' = 0 PROVE AccountsNow(q)'
  BY <1>3, BooksSteps
<1>6. /\ Faults = 0
      /\ o = IF room.state = "open" THEN Done ELSE Nothing
  BY <1>4, <1>5, NoFaultThen, BaseRuns
<1>7. CryptoInv /\ r \in Request /\ AccountsNow(r) /\ PlanNow(r)
  BY <1>1, <1>6, KnownOf
<1>8. Steady(r, q)
  <2>1. /\ (Rewarding(q) <=> Rewarding(r)) /\ ~Refunding(q) /\ ~Refunding(r)
        /\ (PayingBack(q) <=> PayingBack(r))
    <3>1. (Rewarding(r) <=> r.target = NoStatus) /\ (PayingBack(r) <=> r.target # NoStatus)
      BY <1>2 DEF Rewarding, PayingBack
    <3>2. r.target # NoStatus => r.target = Refund
      BY <1>7, <3>1 DEF PlanNow
    <3>3. (Rewarding(q) <=> next = "settle")
          /\ (PayingBack(q) <=> next = "cancelUpdate" /\ r.target = Refund)
      BY <1>3 DEF Rewarding, PayingBack, Alike
    <3>4. ~Refunding(q) /\ ~Refunding(r)
      BY <1>2, <1>3 DEF Refunding
    <3> QED
      BY <1>2, <3>1, <3>2, <3>3, <3>4, AllStatuses
  <2>2. \A i : (PaidBack(q, i) <=> PaidBack(r, i)) /\ Won(q, i) = Won(r, i)
    BY <1>3, <2>1 DEF PaidBack, Won, Alike
  <2>3. \A i : SentTo(q, i) = SentTo(r, i)
    BY <2>2, Zenon DEF SentTo
  <2>4. (OwnerPaid(q) <=> OwnerPaid(r)) /\ (ReferrerPaid(q) <=> ReferrerPaid(r))
    <3>1. Rewarding(q) => q.pc = "settle"
      BY <1>3 DEF Rewarding
    <3> QED
      BY <1>2, <2>1, <3>1 DEF OwnerPaid, ReferrerPaid
  <2>5. OwnerBonus(q) = OwnerBonus(r) /\ ReferrerBonus(q) = ReferrerBonus(r)
    BY <2>4, Zenon DEF OwnerBonus, ReferrerBonus
  <2>6. \A u : Seated(q, u) = Seated(r, u)
    BY <1>2, <1>3 DEF Seated
  <2>7. /\ SameSeats /\ \A i : SentTo(q, i)' = SentTo(q, i)
        /\ OwnerBonus(q)' = OwnerBonus(q) /\ ReferrerBonus(q)' = ReferrerBonus(q)
    BY <1>2, SamePaid
  <2> QED
    BY <1>2, <2>3, <2>5, <2>6, <2>7 DEF Steady
<1>9. Solvent'
  BY <1>2, AllStatuses DEF Solvent
<1>10. CASE room.state # "open"
  BY <1>4, <1>6, <1>7, <1>8, <1>9, <1>10, SteadyBooks DEF Nothing
<1>11. CASE room.state = "open"
  <2>1. /\ usdc' = [usdc EXCEPT ![Admin] = @ + Stake * Entries]
        /\ room' = [room EXCEPT !.state = "closed"]
    BY <1>4, <1>6, <1>11 DEF Done
  <2>2. room'.state = "closed" /\ room'.entries = room.entries
    BY <1>7, <2>1, TypedFields
  <2>3. \A u \in Users : usdc'[u] = usdc[u]
    BY <1>7, <2>1, TypedFields, WalletsAssumption
  <2>4. usdc'[Admin] = usdc[Admin] + Stake * Entries
    BY <1>7, <2>1, TypedFields
  <2>5. UsersNow(q)'
    BY <1>7, <1>8, <1>11, <2>2, <2>3, SteadyUsers DEF AccountsNow
  <2>6. Entries' = Entries
    BY <2>2, Zenon DEF Entries
  <2>7. Collected' = Stake * Entries /\ Collected = 0
    <3>1. Collected' = Stake * Entries'
      BY <2>2, Zenon DEF Collected, Stake
    <3> QED
      BY <1>11, <2>6, <3>1 DEF Collected
  <2>8. AllGiven(q)' = AllGiven(r)
    BY <1>8, GivenStays DEF Steady
  <2>9. PICK stakes \in Nat : stakes = Stake * Entries
    <3>1. Stake \in Nat /\ Entries \in Nat
      BY <1>7, EntriesType, SentType DEF Request
    <3> QED
      BY <3>1, Product
  <2>10. PICK given \in Int : given = AllGiven(r)
    BY <1>7, GivenInt DEF Request
  <2>11. OwnerBonus(q)' = OwnerBonus(r) /\ ReferrerBonus(q)' = ReferrerBonus(r)
    BY <1>8 DEF Steady
  <2>12. PICK owners, referrers : owners = OwnerBonus(r) /\ referrers = ReferrerBonus(r)
    OBVIOUS
  <2>13. owners \in Int /\ referrers \in Int
    BY <1>7, <2>12, BonusInt
  <2>14. usdc[Admin] = AdminFloat + 0 - given - owners - referrers
    BY <1>7, <2>7, <2>10, <2>12, Zenon DEF AccountsNow, HouseNow
  <2>15. usdc'[Admin] = AdminFloat + stakes - given - owners - referrers
    BY <2>4, <2>9, <2>13, <2>14, WalletsAssumption
  <2>16. HouseNow(q)'
    BY <2>7, <2>8, <2>9, <2>10, <2>11, <2>12, <2>15, Zenon DEF HouseNow
  <2> QED
    BY <1>9, <2>5, <2>16 DEF AccountsNow
<1> QED
  BY <1>10, <1>11

\* the owner or the referrer gets amount
LEMMA BonusPaid ==
  ASSUME CryptoInv, NEW r \in Request, NEW q, AccountsNow(r), UNCHANGED <<duel, players, room>>,
         duel.status = InProcess, NEW to \in Users \cup {Null}, NEW amount \in Nat,
         usdc' = IF to = Null \/ amount = 0 THEN usdc
                 ELSE [usdc EXCEPT ![Admin] = @ - amount, ![to] = @ + amount],
         \A i : SentTo(q, i) = SentTo(r, i), \A u : Seated(q, u) = Seated(r, u),
         \A u \in Users : Bonus(q, u) = Bonus(r, u) + (IF u = to THEN amount ELSE 0),
         OwnerBonus(q) + ReferrerBonus(q)
           = OwnerBonus(r) + ReferrerBonus(r) + (IF to = Null THEN 0 ELSE amount)
  PROVE  AccountsNow(q)'
<1>1. /\ SameSeats /\ \A i : SentTo(q, i)' = SentTo(r, i)
      /\ OwnerBonus(q)' = OwnerBonus(q) /\ ReferrerBonus(q)' = ReferrerBonus(q)
  BY SamePaid
<1>2. /\ \A u : SeatsOf(u)' = SeatsOf(u) /\ Given(q, u)' = Given(r, u)
      /\ AllGiven(q)' = AllGiven(r)
  BY <1>1, GivenStays
<1>3. /\ \A u \in Users : usdc'[u] = usdc[u] + (IF u = to THEN amount ELSE 0)
      /\ usdc'[Admin] = usdc[Admin] - (IF to = Null THEN 0 ELSE amount)
      /\ usdc[Admin] \in Nat /\ \A u \in Users : usdc[u] \in Nat
  <2>1. usdc \in [Users \cup {Admin} -> Nat] /\ Admin \notin Users /\ Null \notin Users /\ Null # Admin
    BY TypedFields, WalletsAssumption
  <2>2. CASE to = Null \/ amount = 0
    BY <2>1, <2>2
  <2>3. CASE to # Null /\ amount # 0
    BY <2>1, <2>3
  <2> QED
    BY <2>2, <2>3
<1>4. UsersNow(q)'
  <2> SUFFICES ASSUME NEW u \in Users
               PROVE  /\ room'.entries[u] = Staked(q, u)'
                      /\ usdc'[u] = InitialUSDC - Stake * room'.entries[u] + Given(q, u)'
                                      + Bonus(q, u)'
    BY DEF UsersNow
  <2>1. /\ room.entries[u] = Staked(r, u)
        /\ usdc[u] = InitialUSDC - Stake * room.entries[u] + Given(r, u) + Bonus(r, u)
    BY DEF AccountsNow, UsersNow
  <2>2. Bonus(q, u)' = Bonus(q, u)
    BY <1>1, Zenon DEF Bonus
  <2>3. Staked(q, u)' = Staked(r, u)
    <3>1. Seated(q, u)' = Seated(r, u)
      BY DEF Seated
    <3> QED
      BY <1>2, <3>1, Zenon DEF Staked
  <2>4. PICK part \in Nat : part = IF u = to THEN amount ELSE 0
    OBVIOUS
  <2>5. PICK b : b = Bonus(r, u)
    OBVIOUS
  <2>6. PICK base : base = InitialUSDC - Stake * room.entries[u] + Given(r, u)
    OBVIOUS
  <2>7. b \in Int /\ base \in Int
    <3>1. \A a, c \in Int : a * c \in Int
      OBVIOUS
    <3>2. Stake \in Int /\ room.entries[u] \in Int
      BY SentType, TypedFields DEF Request
    <3>3. Given(r, u) \in Int
      BY GivenInt DEF Request
    <3>4. Stake * room.entries[u] \in Int
      BY <3>1, <3>2
    <3>5. OwnerBonus(r) \in Int /\ ReferrerBonus(r) \in Int
      BY BonusInt
    <3>6. b \in Int
      BY <2>5, <3>5 DEF Bonus
    <3> QED
      BY <2>6, <3>3, <3>4, <3>6, WalletsAssumption
  <2>8. Bonus(q, u)' = b + part
    BY <2>2, <2>4, <2>5, Zenon
  <2>9. usdc[u] = base + b
    BY <2>1, <2>5, <2>6, Zenon
  <2>13. PICK x : x = usdc'[u]
    OBVIOUS
  <2>14. x = usdc[u] + part
    BY <1>3, <2>4, <2>13, Zenon
  <2>15. x = base + (b + part)
    BY <2>7, <2>9, <2>14
  <2>10. usdc'[u] = base + (b + part)
    BY <2>13, <2>15, Zenon
  <2>11. room'.entries[u] = room.entries[u]
    OBVIOUS
  <2>12. InitialUSDC - Stake * room'.entries[u] + Given(q, u)' = base
    BY <1>2, <2>6, <2>11, Zenon
  <2> QED
    BY <2>1, <2>3, <2>8, <2>10, <2>11, <2>12, Zenon
<1>5. HouseNow(q)'
  <2>1. Collected' = Collected
    BY Zenon DEF Collected, Entries
  <2>2. PICK part \in Nat : part = IF to = Null THEN 0 ELSE amount
    OBVIOUS
  <2>3. PICK base : base = Collected - AllGiven(r)
    OBVIOUS
  <2>11. PICK a, b : a = OwnerBonus(r) /\ b = ReferrerBonus(r)
    OBVIOUS
  <2>12. PICK c, d : c = OwnerBonus(q) /\ d = ReferrerBonus(q)
    OBVIOUS
  <2>13. HouseNow(r)
    BY DEF AccountsNow
  <2>5. a \in Int /\ b \in Int /\ c \in Int /\ d \in Int
    BY <2>11, <2>12, BonusInt
  <2>6. base \in Int
    <3>1. Stake \in Int /\ Entries \in Int
      BY EntriesType, SentType DEF Request
    <3>2. \A x, y \in Int : x * y \in Int
      OBVIOUS
    <3>3. Collected \in Int
      BY <3>1, <3>2 DEF Collected
    <3>4. AllGiven(r) \in Int
      BY GivenInt DEF Request
    <3> QED
      BY <2>3, <3>3, <3>4, WalletsAssumption
  <2>7. usdc[Admin] = AdminFloat + base - a - b
    BY <2>3, <2>11, <2>13, Zenon DEF HouseNow
  <2>8. c + d = a + b + part
    BY <2>2, <2>11, <2>12, Zenon
  <2>9. usdc'[Admin] = usdc[Admin] - part
    BY <1>3, <2>2, Zenon
  <2>14. PICK x : x = usdc'[Admin]
    OBVIOUS
  <2>15. x = (AdminFloat + base - a - b) - part
    BY <2>7, <2>9, <2>14, Zenon
  <2>16. AdminFloat \in Int
    BY WalletsAssumption
  <2>17. x = AdminFloat + base - c - d
    BY <2>2, <2>5, <2>6, <2>8, <2>15, <2>16
  <2>10. usdc'[Admin] = AdminFloat + base - c - d
    BY <2>14, <2>17, Zenon
  <2> QED
    BY <1>1, <1>2, <2>1, <2>3, <2>10, <2>12, Zenon DEF HouseNow
<1>6. Solvent'
  BY AllStatuses DEF Solvent
<1> QED
  BY <1>4, <1>5, <1>6 DEF AccountsNow

\* a transfer that cannot fail for want of funds
LEMMA RewardStep ==
  ASSUME BooksInv, BaseInv', Faults' = 0, NEW h \in Handlers, NEW to, NEW amount,
         NEW pc \in {"ownerReward", "referrerReward"}, NEW next \in {"referrerReward", "close"},
         Transfer(h, to, amount, pc, next), usdc[Admin] >= amount, NEW r, r = req[h]
  PROVE  /\ Faults = 0 /\ UNCHANGED <<duel, players, room>> /\ r.pc = pc
         /\ usdc' = IF to = Null \/ amount = 0 THEN usdc
                    ELSE [usdc EXCEPT ![Admin] = @ - amount, ![to] = @ + amount]
         /\ \E q : req' = [req EXCEPT ![h] = q] /\ q.pc = next /\ Alike(r, q)
<1>1. r \in Request /\ r.pc = pc
  BY BaseRuns, TypedFields DEF Transfer
<1>2. PICK q : q = [r EXCEPT !.pc = next]
  OBVIOUS
<1>3. q.pc = next /\ Alike(r, q)
  BY <1>1, <1>2 DEF Request, Alike
<1>4. UNCHANGED <<duel, players, room>>
  BY DEF Transfer, db, chain
<1>5. CASE to = Null \/ amount = 0
  <2>1. Go(h, req[h], next) /\ UNCHANGED <<chain, faultsLeft>>
    BY <1>5 DEF Transfer
  <2>2. req' = [req EXCEPT ![h] = q] /\ usdc' = usdc /\ Faults = 0
    BY <1>2, <2>1, NoFaultYet, BaseRuns DEF Go, Become, chain
  <2> QED
    BY <1>1, <1>3, <1>4, <1>5, <2>2
<1>6. CASE ~(to = Null \/ amount = 0)
  <2>1. PICK o \in Outcomes :
          /\ Attempt(o, Untracked, usdc[Admin] >= amount)
          /\ usdc' = IF o.landed
                       THEN [usdc EXCEPT ![Admin] = @ - amount, ![to] = @ + amount]
                       ELSE usdc
          /\ IF o.told THEN Go(h, req[h], next) ELSE Become(h, Idle)
    BY <1>6 DEF Transfer
  <2>2. Faults = 0 /\ o = Done
    BY <2>1, NoFaultThen, BaseRuns
  <2>3. req' = [req EXCEPT ![h] = q]
    BY <1>2, <2>1, <2>2 DEF Done, Go, Become
  <2>4. usdc' = [usdc EXCEPT ![Admin] = @ - amount, ![to] = @ + amount]
    BY <2>1, <2>2 DEF Done
  <2> QED
    BY <1>1, <1>3, <1>4, <1>6, <2>2, <2>3, <2>4
<1> QED
  BY <1>5, <1>6

LEMMA RewardBooks ==
  ASSUME BooksInv, OneAtATime, BaseInv', Funded, FewPlayers, NEW h \in Handlers,
         PayOwner(h) \/ PayReferrer(h)
  PROVE  BooksInv'
<1>1. PICK r : r = req[h]
  OBVIOUS
<1>2. PICK to, amount, pc, next :
        /\ Transfer(h, to, amount, pc, next) /\ usdc[Admin] >= amount
        /\ \/ /\ pc = "ownerReward" /\ next = "referrerReward" /\ amount = OwnerReward(r)
              /\ to = IF r.snap.owner \in Admins THEN Null ELSE r.snap.owner
           \/ /\ pc = "referrerReward" /\ next = "close" /\ amount = OwnerReward(r) \div 2
              /\ to = ReferrerOf[r.snap.owner]
  <2>1. CASE PayOwner(h)
    <3>1. r.pc = "ownerReward"
      BY <1>1, <2>1 DEF PayOwner, Transfer
    <3>2. usdc[Admin] >= OwnerReward(r)
      BY <1>1, <3>1, Zenon DEF Funded
    <3>3. Transfer(h, IF r.snap.owner \in Admins THEN Null ELSE r.snap.owner, OwnerReward(r),
                   "ownerReward", "referrerReward")
      BY <1>1, <2>1, Zenon DEF PayOwner
    <3> QED
      BY <3>2, <3>3, Zenon
  <2>2. CASE PayReferrer(h)
    <3>1. r.pc = "referrerReward"
      BY <1>1, <2>2 DEF PayReferrer, Transfer
    <3>2. usdc[Admin] >= OwnerReward(r) \div 2
      BY <1>1, <3>1, Zenon DEF Funded
    <3>3. Transfer(h, ReferrerOf[r.snap.owner], OwnerReward(r) \div 2, "referrerReward", "close")
      BY <1>1, <2>2, Zenon DEF PayReferrer
    <3> QED
      BY <3>2, <3>3, Zenon
  <2> QED
    BY <2>1, <2>2
<1>3. PICK q : req' = [req EXCEPT ![h] = q]
  BY <1>2 DEF Transfer, Go, Become
<1>4. SUFFICES ASSUME Faults' = 0 PROVE AccountsNow(q)'
  BY <1>3, BooksSteps
<1>5. /\ Faults = 0 /\ UNCHANGED <<duel, players, room>> /\ r.pc = pc
      /\ usdc' = IF to = Null \/ amount = 0 THEN usdc
                 ELSE [usdc EXCEPT ![Admin] = @ - amount, ![to] = @ + amount]
      /\ q.pc = next /\ Alike(r, q)
  <2>1. /\ Faults = 0 /\ UNCHANGED <<duel, players, room>> /\ r.pc = pc
        /\ usdc' = IF to = Null \/ amount = 0 THEN usdc
                   ELSE [usdc EXCEPT ![Admin] = @ - amount, ![to] = @ + amount]
        /\ \E g : req' = [req EXCEPT ![h] = g] /\ g.pc = next /\ Alike(r, g)
    BY <1>1, <1>2, <1>4, RewardStep
  <2>2. PICK g : req' = [req EXCEPT ![h] = g] /\ g.pc = next /\ Alike(r, g)
    BY <2>1
  <2>3. g = q
    BY <1>3, <2>2, TypedFields, BaseRuns
  <2> QED
    BY <2>1, <2>2, <2>3
<1>6. CryptoInv /\ r \in Request /\ AccountsNow(r) /\ PlanNow(r) /\ RowsFresh
  BY <1>1, <1>5, KnownOf
<1>7. Rewarding(r) /\ Rewarding(q) /\ pc \in {"ownerReward", "referrerReward"}
  <2>1. Rewarding(r)
    BY <1>2, <1>5 DEF Rewarding
  <2>2. r.target = NoStatus
    BY <1>6, <2>1 DEF PlanNow, Resolving
  <2> QED
    BY <1>2, <1>5, <2>1, <2>2 DEF Rewarding, Alike
<1>8. /\ duel.status = InProcess /\ r.snap = duel /\ OwnerReward(r) = Reward
      /\ duel.owner \in Users
  <2>1. duel.status = InProcess /\ r.snap = duel /\ OwnerReward(r) = Reward
    BY <1>1, <1>5, <1>7, PoolNow
  <2> QED
    BY <1>6, <2>1, AllStatuses DEF RowsFresh
<1>9. \A i : SentTo(q, i) = SentTo(r, i)
  <2>1. ~Refunding(r) /\ ~PayingBack(r) /\ ~Refunding(q) /\ ~PayingBack(q)
    <3>1. r.target = NoStatus /\ q.target = NoStatus
      BY <1>5, <1>6, <1>7 DEF PlanNow, Resolving, Alike
    <3> QED
      BY <1>2, <1>5, <3>1 DEF Refunding, PayingBack
  <2>2. \A i : PaidBack(q, i) <=> PaidBack(r, i)
    BY <2>1 DEF PaidBack
  <2>3. \A i : Won(q, i) = Won(r, i)
    BY <1>5, <1>7 DEF Won, Alike
  <2> QED
    BY <2>2, <2>3, Zenon DEF SentTo
<1>10. \A u : Seated(q, u) = Seated(r, u)
  BY <1>2, <1>5 DEF Seated
<1>11. duel.status # Resolved /\ Null \notin Users
  BY <1>8, AllStatuses, WalletsAssumption
<1>12. CASE pc = "ownerReward"
  <2>1. /\ next = "referrerReward" /\ amount = Reward
        /\ to = IF duel.owner \in Admins THEN Null ELSE duel.owner
    BY <1>2, <1>8, <1>12
  <2>2. ~OwnerPaid(r) /\ ~ReferrerPaid(r) /\ OwnerPaid(q) /\ ~ReferrerPaid(q)
    BY <1>5, <1>7, <1>11, <1>12, <2>1 DEF OwnerPaid, ReferrerPaid
  <2>3. /\ OwnerBonus(r) = 0 /\ ReferrerBonus(r) = 0 /\ ReferrerBonus(q) = 0
        /\ OwnerBonus(q) = IF to = Null THEN 0 ELSE amount
    BY <1>8, <1>11, <2>1, <2>2 DEF OwnerBonus, ReferrerBonus
  <2>4. to \in Users \cup {Null} /\ amount \in Nat
    BY <1>6, <1>8, <2>1, OwnerRewardType
  <2>5. \A u \in Users : Bonus(q, u) = Bonus(r, u) + (IF u = to THEN amount ELSE 0)
    <3>1. \A u \in Users : Bonus(r, u) = 0
      BY <2>3 DEF Bonus
    <3>2. \A u \in Users : Bonus(q, u) = IF u = to THEN amount ELSE 0
      BY <1>11, <2>1, <2>3, <2>4 DEF Bonus
    <3> QED
      BY <2>4, <3>1, <3>2
  <2>6. OwnerBonus(q) + ReferrerBonus(q)
           = OwnerBonus(r) + ReferrerBonus(r) + (IF to = Null THEN 0 ELSE amount)
    BY <2>3, <2>4
  <2> QED
    BY <1>5, <1>6, <1>8, <1>9, <1>10, <2>4, <2>5, <2>6, BonusPaid
<1>13. CASE pc = "referrerReward"
  <2>1. next = "close" /\ amount = Reward \div 2 /\ to = ReferrerOf[duel.owner]
    BY <1>2, <1>8, <1>13
  <2>2. OwnerPaid(r) /\ ~ReferrerPaid(r) /\ OwnerPaid(q) /\ ReferrerPaid(q)
    BY <1>5, <1>7, <1>11, <1>13, <2>1 DEF OwnerPaid, ReferrerPaid
  <2>3. PICK bonus : bonus = OwnerBonus(r)
    OBVIOUS
  <2>4. /\ OwnerBonus(r) = bonus /\ OwnerBonus(q) = bonus /\ bonus \in Int
        /\ ReferrerBonus(r) = 0
        /\ ReferrerBonus(q) = IF to = Null THEN 0 ELSE amount
    <3>1. OwnerBonus(q) = OwnerBonus(r)
      BY <2>2, Zenon DEF OwnerBonus
    <3>2. bonus \in Int
      BY <1>6, <2>3, BonusInt
    <3> QED
      BY <2>1, <2>2, <2>3, <3>1, <3>2 DEF ReferrerBonus
  <2>5. to \in Users \cup {Null} /\ amount \in Nat
    BY <1>6, <1>8, <2>1, OwnerRewardType, WalletsAssumption
  <2>6. \A u \in Users : Bonus(q, u) = Bonus(r, u) + (IF u = to THEN amount ELSE 0)
    <3>1. ASSUME NEW u \in Users PROVE Bonus(q, u) = Bonus(r, u) + (IF u = to THEN amount ELSE 0)
      <4>1. Bonus(r, u) = (IF u = duel.owner THEN bonus ELSE 0) + 0
        BY <2>4 DEF Bonus
      <4>2. Bonus(q, u) = (IF u = duel.owner THEN bonus ELSE 0) + (IF u = to THEN amount ELSE 0)
        BY <1>11, <2>1, <2>4 DEF Bonus
      <4> QED
        BY <2>4, <2>5, <4>1, <4>2
    <3> QED
      BY <3>1
  <2>7. OwnerBonus(q) + ReferrerBonus(q)
           = OwnerBonus(r) + ReferrerBonus(r) + (IF to = Null THEN 0 ELSE amount)
    BY <2>4, <2>5
  <2> QED
    BY <1>5, <1>6, <1>8, <1>9, <1>10, <2>5, <2>6, <2>7, BonusPaid
<1> QED
  BY <1>7, <1>12, <1>13

\* request r goes on to q, which has the seats of left to pay
Left(r, q, left) ==
    /\ q.pc = (IF left = {} THEN r.next ELSE "pay") /\ q.due = left
    /\ q.list = r.list /\ q.amount = r.amount /\ q.next = r.next /\ q.target = r.target

\* what is sent to the seats of chunk
ChunkPaid(r, q, chunk) ==
    /\ chunk \subseteq Rows /\ q.pc # "record" /\ duel.status = InProcess
    /\ Rewarding(q) => q.pc \in {"pay", "ownerReward"}
    /\ \A i \in Rows : SentTo(q, i)' = SentTo(r, i) + (IF i \in chunk THEN r.amount ELSE 0)

SameStatuses == \A i \in Rows : players'[i].finalStatus = players[i].finalStatus

LEMMA ChunkSent ==
  ASSUME BooksInv, NEW h \in Handlers, NEW r, r = req[h], Faults = 0, r.pc = "pay",
         NEW chunk \in SUBSET r.due, NEW left, left = r.due \ chunk, NEW q, Left(r, q, left),
         duel' = duel, SameSeats, SameStatuses
  PROVE  ChunkPaid(r, q, chunk)
<1>1. /\ CryptoInv /\ r \in Request /\ RequestFit(r) /\ SnapNow(r) /\ PlanNow(r) /\ PlanFresh(r)
      /\ duel.status \notin Terminal => \A w \in Refunded : Settling(r, w)
  BY KnownOf
<1>2. /\ duel.status = InProcess /\ r.due \subseteq Rows
      /\ r.next \in {"recordRefund", "ownerReward", "close"}
      /\ r.next = "close" => r.target = Refund
      /\ r.amount \in Nat /\ Stake \in Nat
  <2>1. r.amount \in Nat /\ Stake \in Nat
    BY <1>1, SentType DEF Request
  <2> QED
    BY <1>1, <2>1 DEF SnapNow, PlanNow, RequestFit, PayingBack, Request
<1>3. /\ q.pc = (IF r.due \ chunk = {} THEN r.next ELSE "pay") /\ q.due = r.due \ chunk
      /\ q.list = r.list /\ q.amount = r.amount /\ q.next = r.next /\ q.target = r.target
  BY DEF Left
<1>4. /\ (Refunding(q) <=> r.next = "recordRefund") /\ (Refunding(r) <=> r.next = "recordRefund")
      /\ (Rewarding(q) <=> r.next = "ownerReward") /\ (Rewarding(r) <=> r.next = "ownerReward")
      /\ (PayingBack(q) <=> r.next = "close") /\ (PayingBack(r) <=> r.next = "close")
  <2>1. /\ (Refunding(r) <=> r.next = "recordRefund") /\ (Rewarding(r) <=> r.next = "ownerReward")
        /\ (PayingBack(r) <=> r.next = "close")
    BY DEF Refunding, Rewarding, PayingBack
  <2>2. /\ (Refunding(q) <=> r.next = "recordRefund") /\ (Rewarding(q) <=> r.next = "ownerReward")
        /\ (PayingBack(q) <=> r.next = "close")
    <3>1. CASE r.due \ chunk = {}
      BY <1>2, <1>3, <3>1, AllStatuses DEF Refunding, Rewarding, PayingBack
    <3>2. CASE r.due \ chunk # {}
      BY <1>2, <1>3, <3>2 DEF Refunding, Rewarding, PayingBack
    <3> QED
      BY <3>1, <3>2
  <2> QED
    BY <2>1, <2>2
<1>5. /\ (Refunding(q)' <=> Refunding(q)) /\ (Rewarding(q)' <=> Rewarding(q))
      /\ (PayingBack(q)' <=> PayingBack(q))
  BY DEF Refunding, Rewarding, PayingBack
<1>6. Rows' = Rows /\ Refunded' = Refunded
  BY SeatsRead DEF SameSeats, SameStatuses
<1>7. \A i \in Rows :
        /\ PaidBack(r, i) <=> \/ r.next = "recordRefund" /\ i \in r.list \ r.due
                              \/ r.next = "close" /\ i \notin r.due
                              \/ i \in Refunded
        /\ PaidBack(q, i)' <=> \/ r.next = "recordRefund" /\ i \in r.list \ (r.due \ chunk)
                               \/ r.next = "close" /\ i \notin r.due \ chunk
                               \/ i \in Refunded
  <2>1. duel.status # Refund /\ duel.status \notin Unplayed
    BY <1>2, AllStatuses DEF Unplayed
  <2>2. ASSUME NEW i \in Rows
        PROVE  PaidBack(r, i) <=> \/ r.next = "recordRefund" /\ i \in r.list \ r.due
                                  \/ r.next = "close" /\ i \notin r.due
                                  \/ i \in Refunded
    BY <1>4, <2>1 DEF PaidBack
  <2>3. ASSUME NEW i \in Rows
        PROVE  PaidBack(q, i)' <=> \/ r.next = "recordRefund" /\ i \in r.list \ (r.due \ chunk)
                                   \/ r.next = "close" /\ i \notin r.due \ chunk
                                   \/ i \in Refunded
    BY <1>3, <1>4, <1>5, <1>6, <2>1 DEF PaidBack
  <2> QED
    BY <2>2, <2>3
<1>8. \A i \in Rows :
        /\ Won(r, i) = IF r.next = "ownerReward" /\ i \in r.list \ r.due THEN r.amount ELSE 0
        /\ Won(q, i)' = IF r.next = "ownerReward" /\ i \in r.list \ (r.due \ chunk)
                          THEN r.amount ELSE 0
  <2>1. duel.status # Resolved /\ duel'.status # Resolved
    BY <1>2, AllStatuses
  <2>2. ASSUME NEW i \in Rows
        PROVE  Won(r, i) = IF r.next = "ownerReward" /\ i \in r.list \ r.due THEN r.amount ELSE 0
    BY <1>4, <2>1 DEF Won
  <2>3. ASSUME NEW i \in Rows
        PROVE  Won(q, i)' = IF r.next = "ownerReward" /\ i \in r.list \ (r.due \ chunk)
                              THEN r.amount ELSE 0
    BY <1>3, <1>4, <1>5, <2>1 DEF Won
  <2> QED
    BY <2>2, <2>3
<1>9. \A i \in chunk : i \notin Refunded
  <2>1. CASE r.next = "recordRefund"
    <3>1. r.list = GetDuelPlayersToRefund(r.cutoff) /\ r.due \subseteq r.list
      BY <1>1, <1>4, <2>1 DEF PlanNow
    <3> QED
      BY <3>1 DEF GetDuelPlayersToRefund, Refunded, PlayerActive, PlayerRefunded
  <2>2. CASE r.next = "ownerReward"
    BY <1>1, <2>2 DEF PlanNow
  <2>3. CASE r.next = "close"
    <3>1. Refunded = {}
      BY <1>1, <1>2, <1>4, <2>3, AllStatuses DEF Settling
    <3> QED
      BY <3>1
  <2> QED
    BY <1>2, <2>1, <2>2, <2>3
<1>10. /\ r.next = "recordRefund" => r.due \subseteq r.list /\ r.amount = Stake
       /\ r.next = "ownerReward" => r.due \subseteq r.list
       /\ r.next = "close" => r.amount = Stake
  BY <1>1, <1>4 DEF PlanNow, PlanFresh
<1>11. ASSUME NEW i \in Rows
       PROVE  SentTo(q, i)' = SentTo(r, i) + (IF i \in chunk THEN r.amount ELSE 0)
  <2>1. /\ SentTo(r, i) = IF PaidBack(r, i) THEN Stake ELSE Won(r, i)
        /\ SentTo(q, i)' = IF PaidBack(q, i)' THEN Stake ELSE Won(q, i)'
    BY DEF SentTo, Stake
  <2>2. CASE i \in chunk
    <3>1. ~PaidBack(r, i) /\ Won(r, i) = 0
      BY <1>2, <1>7, <1>8, <1>9, <1>10, <2>2
    <3>2. CASE r.next = "ownerReward"
      <4>1. ~PaidBack(q, i)' /\ Won(q, i)' = r.amount
        BY <1>7, <1>8, <1>9, <1>10, <2>2, <3>2
      <4> QED
        BY <1>2, <2>1, <2>2, <3>1, <4>1
    <3>3. CASE r.next # "ownerReward"
      <4>1. PaidBack(q, i)' /\ r.amount = Stake
        BY <1>2, <1>7, <1>10, <2>2, <3>3
      <4> QED
        BY <1>2, <2>1, <2>2, <3>1, <4>1
    <3> QED
      BY <3>2, <3>3
  <2>3. CASE i \notin chunk
    <3>1. (PaidBack(q, i)' <=> PaidBack(r, i)) /\ Won(q, i)' = Won(r, i)
      BY <1>7, <1>8, <2>3
    <3>2. SentTo(q, i)' = SentTo(r, i) /\ SentTo(r, i) \in Nat
      BY <1>1, <1>2, <2>1, <3>1, SentType
    <3> QED
      BY <2>3, <3>2
  <2> QED
    BY <2>2, <2>3
<1>12. chunk \subseteq Rows /\ q.pc # "record" /\ (Rewarding(q) => q.pc \in {"pay", "ownerReward"})
  BY <1>2, <1>3, <1>4
<1> QED
  BY <1>2, <1>11, <1>12 DEF ChunkPaid

LEMMA PayBooks ==
  ASSUME BooksInv, OneAtATime, BaseInv', Funded, NEW h \in Handlers, Pay(h)
  PROVE  BooksInv'
<1>1. PICK r \in Request : r = req[h] /\ r.pc = "pay"
  BY Mid, BaseRuns DEF Pay
<1>2. PICK o \in Outcomes, chunk \in SUBSET r.due : Transferred(h, r, o, chunk)
  BY <1>1, PayStep, BaseRuns
<1>3. PICK q : q = IF o.told THEN ToPay(r, r.due \ chunk) ELSE Idle
  OBVIOUS
<1>4. req' = [req EXCEPT ![h] = q]
  BY <1>2, <1>3 DEF Transferred
<1>5. SUFFICES ASSUME Faults' = 0 PROVE AccountsNow(q)'
  BY <1>4, BooksSteps
<1>6. Faults = 0 /\ o = Done
  <2>1. usdc[Admin] >= r.amount * Cardinality(chunk)
    BY <1>1, <1>2 DEF Funded, Transferred
  <2>2. Attempt(o, Untracked, usdc[Admin] >= r.amount * Cardinality(chunk))
    BY <1>2 DEF Transferred
  <2> QED
    BY <1>5, <2>1, <2>2, NoFaultThen, BaseRuns
<1>7. CryptoInv /\ AccountsNow(r)
  BY <1>1, <1>6, KnownOf
<1>8. /\ q = ToPay(r, r.due \ chunk) /\ q.amount = r.amount
      /\ duel' = duel /\ room' = room /\ SameSeats
      /\ \A i \in Rows : players'[i].finalStatus = players[i].finalStatus
  <2>1. q = ToPay(r, r.due \ chunk)
    BY <1>3, <1>6 DEF Done
  <2>2. q.amount = r.amount
    BY <2>1, ToPayFields
  <2>3. \A i \in Rows : players'[i].finalStatus = players[i].finalStatus
    BY <1>2 DEF Transferred
  <2> QED
    BY <1>2, <2>1, <2>2, <2>3 DEF Transferred
<1>9. /\ chunk \subseteq Rows /\ q.pc # "record" /\ duel.status = InProcess
      /\ Rewarding(q) => q.pc \in {"pay", "ownerReward"}
      /\ \A i \in Rows : SentTo(q, i)' = SentTo(r, i) + (IF i \in chunk THEN r.amount ELSE 0)
  <2>1. r = req[h] /\ r.pc = "pay"
    BY <1>1
  <2>2. Faults = 0
    BY <1>6
  <2>8. PICK left : left = r.due \ chunk
    OBVIOUS
  <2>3. Left(r, q, left) /\ duel' = duel /\ SameSeats
    BY <1>8, <2>8, ToPayFields DEF Left
  <2>4. SameStatuses
    BY <1>8 DEF SameStatuses
  <2>5. ChunkPaid(r, q, chunk)
    BY <2>1, <2>2, <2>3, <2>4, <2>8, ChunkSent
  <2> QED
    BY <2>5 DEF ChunkPaid
<1>10. r.amount \in Nat
  BY DEF Request
<1>11. /\ \A u : SeatsOf(u)' = SeatsOf(u) /\ Given(q, u)' = Given(r, u) + Owed(chunk, u, r.amount)
       /\ AllGiven(q)' = AllGiven(r) + r.amount * Cardinality(chunk)
  <2>1. CryptoInv /\ SameSeats /\ q.amount = r.amount /\ chunk \in SUBSET Rows
    BY <1>7, <1>8, <1>9
  <2>2. \A i \in Rows : SentTo(q, i)' = SentTo(r, i) + (IF i \in chunk THEN r.amount ELSE 0)
    BY <1>9
  <2> QED
    BY <1>10, <2>1, <2>2, GivenMore
<1>12. /\ OwnerBonus(r) = 0 /\ ReferrerBonus(r) = 0
       /\ OwnerBonus(q)' = 0 /\ ReferrerBonus(q)' = 0
  <2>1. duel.status # Resolved /\ duel'.status # Resolved
    BY <1>8, <1>9, AllStatuses
  <2> QED
    BY <1>1, <1>9, <2>1, NoBonus, NoBonusThen
<1>13. /\ \A u \in Users : usdc'[u] = usdc[u] + Owed(chunk, u, r.amount)
       /\ usdc'[Admin] = usdc[Admin] - r.amount * Cardinality(chunk)
  <2>1. usdc' = [w \in DOMAIN usdc |->
                   IF w = Admin THEN usdc[w] - r.amount * Cardinality(chunk)
                   ELSE usdc[w] + Owed(chunk, w, r.amount)]
    BY <1>2, <1>6 DEF Transferred, Done
  <2>2. DOMAIN usdc = Users \cup {Admin} /\ Admin \notin Users
    BY <1>7, TypedFields, WalletsAssumption
  <2> QED
    BY <2>1, <2>2
<1>14. UsersNow(q)'
  <2> SUFFICES ASSUME NEW u \in Users
               PROVE  /\ room'.entries[u] = Staked(q, u)'
                      /\ usdc'[u] = InitialUSDC - Stake * room'.entries[u] + Given(q, u)'
                                      + Bonus(q, u)'
    BY DEF UsersNow
  <2>1. /\ room.entries[u] = Staked(r, u)
        /\ usdc[u] = InitialUSDC - Stake * room.entries[u] + Given(r, u) + Bonus(r, u)
    BY <1>7 DEF AccountsNow, UsersNow
  <2>2. Bonus(r, u) = 0 /\ Bonus(q, u)' = 0
    BY <1>12 DEF Bonus
  <2>3. Staked(q, u)' = Staked(r, u)
    <3>1. Seated(q, u)' = Seated(r, u)
      BY <1>1, <1>9 DEF Seated
    <3> QED
      BY <1>8, <1>11, <3>1, Zenon DEF Staked
  <2>4. PICK owed \in Nat : owed = Owed(chunk, u, r.amount)
    <3>1. PICK c : c = Cardinality({i \in chunk : players[i].user = u})
      OBVIOUS
    <3>2. c \in Nat
      <4>1. {i \in chunk : players[i].user = u} \in SUBSET Rows
        BY <1>9
      <4> QED
        BY <1>7, <3>1, <4>1, RowsFinite
    <3>3. Owed(chunk, u, r.amount) = r.amount * c
      BY <3>1, Zenon DEF Owed
    <3> QED
      BY <1>10, <3>2, <3>3, Product
  <2>5. PICK base : base = InitialUSDC - Stake * room.entries[u]
    OBVIOUS
  <2>6. base \in Int
    <3>1. \A a, c \in Int : a * c \in Int
      OBVIOUS
    <3>2. Stake \in Int /\ room.entries[u] \in Int
      BY <1>7, <1>10, SentType, TypedFields
    <3>3. Stake * room.entries[u] \in Int
      BY <3>1, <3>2
    <3> QED
      BY <2>5, <3>3, WalletsAssumption
  <2>7. PICK given \in Int : given = Given(r, u)
    BY <1>7, <1>10, GivenInt
  <2>8. PICK x : x = usdc'[u]
    OBVIOUS
  <2>9. x = (base + given + 0) + owed
    BY <1>13, <2>1, <2>2, <2>4, <2>5, <2>7, <2>8, Zenon
  <2>10. x = base + (given + owed) + 0
    BY <2>4, <2>6, <2>7, <2>9
  <2>11. Given(q, u)' = given + owed
    BY <1>11, <2>4, <2>7, Zenon
  <2>12. InitialUSDC - Stake * room'.entries[u] = base
    BY <1>8, <2>5, Zenon
  <2>13. usdc'[u] = InitialUSDC - Stake * room'.entries[u] + Given(q, u)' + Bonus(q, u)'
    BY <2>2, <2>8, <2>10, <2>11, <2>12, Zenon
  <2>14. room'.entries[u] = Staked(q, u)'
    BY <1>8, <2>1, <2>3, Zenon
  <2> QED
    BY <2>13, <2>14
<1>15. HouseNow(q)'
  <2>1. Collected' = Collected
    BY <1>8, Zenon DEF Collected, Entries
  <2>2. PICK total \in Nat : total = r.amount * Cardinality(chunk)
    <3>1. Cardinality(chunk) \in Nat
      BY <1>2 DEF Transferred
    <3> QED
      BY <1>10, <3>1, Product
  <2>3. PICK given \in Int : given = AllGiven(r)
    BY <1>7, <1>10, GivenInt
  <2>4. PICK all : all = Collected
    OBVIOUS
  <2>5. all \in Int
    <3>1. Stake \in Nat /\ Entries \in Nat
      BY <1>7, <1>10, EntriesType, SentType
    <3>2. Stake * Entries \in Nat
      BY <3>1, Product
    <3> QED
      BY <2>4, <3>2 DEF Collected
  <2>6. usdc[Admin] = AdminFloat + all - given - 0 - 0
    BY <1>7, <1>12, <2>3, <2>4, Zenon DEF AccountsNow, HouseNow
  <2>7. PICK x : x = usdc'[Admin]
    OBVIOUS
  <2>8. x = (AdminFloat + all - given - 0 - 0) - total
    BY <1>13, <2>2, <2>6, <2>7, Zenon
  <2>9. AdminFloat \in Int
    BY WalletsAssumption
  <2>10. x = AdminFloat + all - (given + total) - 0 - 0
    BY <2>2, <2>3, <2>5, <2>8, <2>9
  <2>11. AllGiven(q)' = given + total
    BY <1>11, <2>2, <2>3, Zenon
  <2> QED
    BY <1>12, <2>1, <2>4, <2>7, <2>10, <2>11, Zenon DEF HouseNow
<1>16. Solvent'
  BY <1>8, <1>9, AllStatuses DEF Solvent
<1> QED
  BY <1>14, <1>15, <1>16 DEF AccountsNow

-----------------------------------------------------------------------------
(* The charge *)

\* a stake that lands is a seat's, taken, about to be taken or up for approval
LEMMA ChargeStaked ==
  ASSUME RunInv, NEW h \in Handlers, NEW r, r = req[h], PlaceNow(r), UsersNow(r), r.pc = "charge",
         CanEnter(r), UNCHANGED <<duel, players>>, room'.state = "open",
         room'.entries = [room.entries EXCEPT ![r.user] = @ + 1],
         NEW q, q.pc = "record", q.job = r.job, q.user = r.user, NEW u \in Users
  PROVE  room'.entries[u] = Staked(q, u)'
<1>1. CryptoInv /\ RequestFit(r) /\ SnapNow(r) /\ duel.playersCount = Len(players)
  BY TypedFields DEF RunInv, RowsNow, CryptoInv
<1>2. r.user \in Users /\ r.job \in {"create", "join", "approve"}
  BY <1>1 DEF RequestFit
<1>3. PICK one \in Nat : one = IF u = r.user THEN 1 ELSE 0
  OBVIOUS
<1>4. room.entries[u] \in Nat /\ room'.entries[u] = room.entries[u] + one
  BY <1>1, <1>2, <1>3, TypedFields
<1>5. SeatsOf(u)' = SeatsOf(u)
  BY DEF SeatsOf, Rows
<1>6. PICK seats \in Nat : seats = Cardinality(SeatsOf(u))
  BY <1>1, SeatsFinite, TypedFields
<1>7. Staked(q, u)' = seats + Seated(q, u)
  <2>1. Staked(q, u)' = Cardinality(SeatsOf(u)') + Seated(q, u)'
    BY Zenon DEF Staked
  <2>2. Seated(q, u)' = Seated(q, u)
    BY DEF Seated
  <2> QED
    BY <1>5, <1>6, <2>1, <2>2, Zenon
<1>8. r.job # "approve" => Seated(q, u) = one
  BY <1>3 DEF Seated
<1>9. room.entries[u] = IF room.state = "none" THEN 0 ELSE seats
  <2>1. Seated(r, u) = 0
    BY DEF Seated
  <2> QED
    BY <1>6, <2>1 DEF UsersNow, Staked
<1>10. CASE room.state # "none"
  <2>1. r.job = "join"
    BY <1>10 DEF CanEnter, MakesRoom
  <2> QED
    BY <1>3, <1>4, <1>7, <1>8, <1>9, <1>10, <2>1
<1>11. CASE room.state = "none" /\ r.job = "approve"
  <2>1. duel.status = InReview /\ players # <<>>
    BY <1>11 DEF PlaceNow
  <2>2. Len(players) = 1 /\ players[1].user = duel.owner /\ BareFit(r, players)
    BY <1>1, <1>11, <2>1, NoRoomYet
  <2>3. r.user = duel.owner
    BY <1>11, <2>2 DEF BareFit, ReviewFit, WaivedFit, Approving
  <2>4. SeatsOf(u) = {i \in 1..1 : players[i].user = u}
    BY <1>1, <2>2, SeatsFinite, TypedFields
  <2>5. seats = one
    <3>1. CASE u = r.user
      <4>1. SeatsOf(u) = {1}
        BY <2>2, <2>3, <2>4, <3>1
      <4>2. Cardinality({1}) = 1
        BY FS_Singleton
      <4> QED
        BY <1>3, <1>6, <3>1, <4>1, <4>2, Zenon
    <3>2. CASE u # r.user
      <4>1. SeatsOf(u) = {}
        BY <2>2, <2>3, <2>4, <3>2
      <4>2. Cardinality({}) = 0
        BY FS_EmptySet
      <4> QED
        BY <1>3, <1>6, <3>2, <4>1, <4>2, Zenon
    <3> QED
      BY <3>1, <3>2
  <2>6. Seated(q, u) = 0
    BY <1>11 DEF Seated
  <2> QED
    BY <1>4, <1>7, <1>9, <1>11, <2>5, <2>6
<1>12. CASE room.state = "none" /\ r.job # "approve"
  <2>1. Len(players) = 0
    <3>1. CASE r.job = "create"
      BY <1>1, <3>1 DEF SnapNow
    <3>2. CASE r.job = "join"
      <4>1. MakesRoom(r)
        BY <1>12 DEF CanEnter
      <4> QED
        BY <1>1, <3>2, <4>1 DEF MakesRoom, SnapNow
    <3> QED
      BY <1>2, <1>12, <3>1, <3>2
  <2>2. SeatsOf(u) = {}
    BY <1>1, <2>1, SeatsFinite, TypedFields
  <2>3. seats = 0
    BY <1>6, <2>2, FS_EmptySet, Zenon
  <2> QED
    BY <1>3, <1>4, <1>7, <1>8, <1>9, <1>12, <2>3
<1> QED
  BY <1>10, <1>11, <1>12

LEMMA ChargeBooks ==
  ASSUME BooksInv, OneAtATime, BaseInv', NEW h \in Handlers, Charge(h)
  PROVE  BooksInv'
<1>1. PICK r : r = req[h]
  OBVIOUS
<1>2. PICK on : on = [r EXCEPT !.pc = "record"]
  OBVIOUS
<1>3. PICK o \in Outcomes :
          /\ Attempt(o, Tracked, CanEnter(r))
          /\ IF o.landed
               THEN /\ usdc' = [usdc EXCEPT ![r.user] = @ - Stake]
                    /\ room' = [state |-> "open", seats |-> SeatsAfter(r),
                                entries |-> [room.entries EXCEPT ![r.user] = @ + 1]]
               ELSE UNCHANGED <<usdc, room>>
          /\ req' = [req EXCEPT ![h] = IF o.told THEN on ELSE Idle]
  BY <1>1, <1>2 DEF Charge, Go, Become, chain
<1>4. r.pc = "charge" /\ UNCHANGED <<duel, players>>
  BY <1>1 DEF Charge, db
<1>5. PICK q \in {on, Idle} : q = IF o.told THEN on ELSE Idle
  OBVIOUS
<1>6. SUFFICES ASSUME Faults' = 0 PROVE AccountsNow(q)'
  BY <1>3, <1>5, BooksSteps
<1>7. Faults = 0 /\ o = IF CanEnter(r) THEN Done ELSE Nothing
  BY <1>3, <1>6, NoFaultThen, BaseRuns
<1>8. /\ RunInv /\ CryptoInv /\ r \in Request /\ RequestFit(r) /\ SnapNow(r) /\ PlaceNow(r)
      /\ AccountsNow(r) /\ Refunded = {}
  <2>1. \A w \in Refunded : Settling(r, w)
    <3>1. SnapNow(r)
      BY <1>1, <1>7, KnownOf
    <3>2. duel.status \notin Terminal
      BY <1>4, <3>1 DEF SnapNow
    <3> QED
      BY <1>1, <1>7, <3>2, KnownOf
  <2>2. Refunded = {}
    BY <1>4, <2>1 DEF Settling, Rewarding
  <2> QED
    BY <1>1, <1>7, <2>2, KnownOf
<1>9. duel.status \notin Terminal /\ r.user \in Users
  BY <1>4, <1>8 DEF SnapNow, RequestFit
<1>10. on.pc = "record" /\ on.job = r.job /\ on.user = r.user /\ on.amount = r.amount
  BY <1>2, <1>8 DEF Request
<1>11. q.pc \in {"record", "idle"} /\ (q.pc = "record" => q = on)
  BY <1>5, <1>10 DEF Idle
<1>12. duel.status # Resolved /\ duel.status # Refund
  BY <1>9, AllStatuses
<1>13. Unrewarded(r) /\ Unrewarded(q)
  BY <1>4, <1>11 DEF Unrewarded, Rewarding
<1>14. \A i \in Rows : PaidBack(q, i)' <=> PaidBack(r, i)
  <2>1. ~Refunding(r) /\ ~PayingBack(r) /\ ~Refunding(q)' /\ ~PayingBack(q)'
    BY <1>4, <1>11 DEF Refunding, PayingBack
  <2>2. Refunded' = {}
    BY <1>4, <1>8 DEF Refunded, Rows
  <2> QED
    BY <1>4, <1>8, <1>12, <2>1, <2>2 DEF PaidBack
<1>15. SameSeats
  BY <1>4 DEF SameSeats, Rows
<1>16. Solvent'
  BY <1>4, <1>9 DEF Solvent
<1>17. CASE ~CanEnter(r)
  <2>1. q = Idle /\ UNCHANGED <<usdc, room>>
    BY <1>3, <1>5, <1>7, <1>17 DEF Nothing
  <2>2. \A u \in Users : Seated(q, u) = Seated(r, u)
    BY <1>4, <2>1 DEF Seated, Idle
  <2>3. duel'.status # Resolved
    BY <1>4, <1>12
  <2>4. Steady(r, q)
    BY <1>12, <1>13, <1>14, <1>15, <2>2, <2>3, QuietSteady
  <2> QED
    BY <1>8, <1>16, <2>1, <2>4, SteadyBooks
<1>18. CASE CanEnter(r)
  <2>1. /\ usdc' = [usdc EXCEPT ![r.user] = @ - Stake]
        /\ room' = [state |-> "open", seats |-> SeatsAfter(r),
                    entries |-> [room.entries EXCEPT ![r.user] = @ + 1]]
        /\ q = on
    BY <1>3, <1>5, <1>7, <1>18 DEF Done
  <2>2. /\ room'.state = "open"
        /\ room'.entries = [room.entries EXCEPT ![r.user] = @ + 1]
    BY <2>1
  <2>3. \A i : Won(r, i) = 0 /\ Won(q, i)' = 0
    BY <1>4, <1>12, <1>13, NotWon, NotWonThen DEF Unrewarded
  <2>4. \A i \in Rows : SentTo(q, i)' = SentTo(r, i)
    BY <1>14, <2>3 DEF SentTo, Stake
  <2>5. /\ \A u : SeatsOf(u)' = SeatsOf(u) /\ Given(q, u)' = Given(r, u)
        /\ AllGiven(q)' = AllGiven(r)
    BY <1>15, <2>4, GivenStays
  <2>6. OwnerBonus(r) = 0 /\ ReferrerBonus(r) = 0 /\ OwnerBonus(q)' = 0 /\ ReferrerBonus(q)' = 0
    BY <1>4, <1>12, <1>13, NoBonus, NoBonusThen DEF Unrewarded
  <2>7. \A u : Bonus(r, u) = 0 /\ Bonus(q, u)' = 0
    BY <2>6 DEF Bonus
  <2>8. \A u \in Users : room'.entries[u] = Staked(q, u)'
    BY <1>1, <1>4, <1>8, <1>10, <1>18, <2>1, <2>2, ChargeStaked DEF AccountsNow
  <2>9. UsersNow(q)'
    <3> SUFFICES ASSUME NEW u \in Users
                 PROVE  usdc'[u] = InitialUSDC - Stake * room'.entries[u] + Given(q, u)'
                                     + Bonus(q, u)'
      BY <2>8 DEF UsersNow, Stake
    <3>1. usdc[u] = InitialUSDC - Stake * room.entries[u] + Given(r, u) + Bonus(r, u)
      BY <1>8 DEF AccountsNow, UsersNow
    <3>2. PICK one \in {0, 1} : one = IF u = r.user THEN 1 ELSE 0
      OBVIOUS
    <3>3. PICK given \in Int : given = Given(r, u)
      BY <1>8, GivenInt DEF Request
    <3>4. PICK stake \in Nat : stake = Stake
      BY <1>8, SentType DEF Request
    <3>5. PICK e \in Nat : e = room.entries[u]
      BY <1>8, TypedFields
    <3>6. room'.entries[u] = e + one
      BY <1>8, <1>9, <2>2, <3>2, <3>5, TypedFields
    <3>7. PICK x \in Nat : x = usdc[u]
      BY <1>8, TypedFields
    <3>8. usdc'[u] = x - stake * one
      <4>1. usdc'[u] = IF u = r.user THEN x - stake ELSE x
        BY <1>8, <2>1, <3>4, <3>7, TypedFields
      <4> QED
        BY <3>2, <3>4, <3>7, <4>1
    <3>9. x = InitialUSDC - stake * e + given + 0
      BY <2>7, <3>1, <3>3, <3>4, <3>5, <3>7, Zenon
    <3>10. PICK a \in Int : a = stake * e
      <4>1. \A m, n \in Int : m * n \in Int
        OBVIOUS
      <4> QED
        BY <3>4, <3>5, <4>1
    <3>11. stake * (e + one) = a + stake * one /\ stake * one \in Int
      <4>1. CASE one = 0
        BY <3>10, <4>1
      <4>2. CASE one = 1
        <5>1. \A m, n \in Int : m * (n + 1) = m * n + m
          OBVIOUS
        <5> QED
          BY <3>10, <4>2, <5>1
      <4> QED
        BY <4>1, <4>2
    <3>12. usdc'[u] = InitialUSDC - stake * (e + one) + given + 0
      BY <3>8, <3>9, <3>10, <3>11, WalletsAssumption
    <3> QED
      BY <2>5, <2>7, <3>3, <3>4, <3>6, <3>12, Zenon
  <2>10. HouseNow(q)'
    <3>1. Collected' = 0 /\ Collected = 0
      <4>1. room.state # "closed"
        BY <1>18 DEF CanEnter
      <4> QED
        BY <2>2, <4>1 DEF Collected
    <3>2. usdc'[Admin] = usdc[Admin]
      BY <1>8, <1>9, <2>1, TypedFields, WalletsAssumption
    <3>3. usdc[Admin] = AdminFloat + Collected - AllGiven(r) - OwnerBonus(r) - ReferrerBonus(r)
      BY <1>8 DEF AccountsNow, HouseNow
    <3> QED
      BY <2>5, <2>6, <3>1, <3>2, <3>3, Zenon DEF HouseNow
  <2> QED
    BY <1>16, <2>9, <2>10 DEF AccountsNow
<1> QED
  BY <1>17, <1>18

LEMMA InitBooks == Init => BooksInv
<1> SUFFICES ASSUME Init PROVE BooksInv
  OBVIOUS
<1>1. BaseInv
  BY InitFresh, InitAttempts, InitPlace DEF BaseInv
<1>2. CryptoInv /\ Rows = {}
  BY <1>1 DEF BaseInv, RoomInv, RunInv, Init, Rows
<1>3. duel.status = NoStatus /\ room.state = "none" /\ \A u \in Users : room.entries[u] = 0
  BY DEF Init, NoRoom, NoDuel
<1>4. usdc[Admin] = AdminFloat /\ \A u \in Users : usdc[u] = InitialUSDC
  BY WalletsAssumption DEF Init
<1>5. OwnerBonus(Idle) = 0 /\ ReferrerBonus(Idle) = 0
  BY <1>3, NoBonus, AllStatuses DEF Rewarding, Idle
<1>6. AllGiven(Idle) = 0 /\ \A u : Given(Idle, u) = 0
  <2>1. \A u : SeatsOf(u) = {}
    BY <1>2 DEF SeatsOf
  <2>2. \A f : SumFunctionOnSet(f, {}) = 0
    BY SumOfNothing
  <2> QED
    BY <1>2, <2>1, <2>2, Zenon DEF AllGiven, Given
<1>7. UsersNow(Idle)
  <2> SUFFICES ASSUME NEW u \in Users
               PROVE  /\ room.entries[u] = Staked(Idle, u)
                      /\ usdc[u] = InitialUSDC - Stake * room.entries[u] + Given(Idle, u) + Bonus(Idle, u)
    BY DEF UsersNow
  <2>1. Staked(Idle, u) = 0
    BY <1>3 DEF Staked
  <2>2. Bonus(Idle, u) = 0
    BY <1>5 DEF Bonus
  <2>3. PICK stake \in Nat : stake = Stake
    BY PriceAssumption DEF Stake, Micro
  <2>4. InitialUSDC = InitialUSDC - stake * 0 + 0 + 0
    <3>1. \A m \in Nat : m * 0 = 0
      OBVIOUS
    <3> QED
      BY <2>3, <3>1, WalletsAssumption
  <2> QED
    BY <1>3, <1>4, <1>6, <2>1, <2>2, <2>3, <2>4, Zenon
<1>8. HouseNow(Idle)
  <2>1. Collected = 0
    BY <1>3 DEF Collected
  <2>2. AdminFloat = AdminFloat + 0 - 0 - 0 - 0
    BY WalletsAssumption
  <2> QED
    BY <1>4, <1>5, <1>6, <2>1, <2>2, Zenon DEF HouseNow
<1>9. Solvent
  BY <1>3, AllStatuses DEF Solvent
<1>10. \A h \in Handlers : req[h] = Idle
  BY DEF Init
<1>11. AccountsNow(Idle)
  BY <1>7, <1>8, <1>9 DEF AccountsNow
<1> HIDE DEF Idle
<1> QED
  BY <1>1, <1>10, <1>11 DEF BooksInv

LEMMA ContinueBooks ==
  ASSUME BooksInv, OneAtATime, BaseInv', Funded, FewPlayers, NEW h \in Handlers, Continue(h)
  PROVE  BooksInv'
<1>1. CASE Charge(h) \/ Record(h) \/ PublishUncharged(h)
  BY <1>1, ChargeBooks, ApprovalBooks, SeatBooks, PublishBooks
<1>2. CASE ReadsOn(h) \/ ReadUnpaidWinners(h) \/ RecordRefund(h)
  BY <1>2, ReadsBooks, ReadUnpaidWinnersBooks, RecordRefundBooks
<1>3. CASE Pay(h) \/ PayOwner(h) \/ PayReferrer(h) \/ CloseResolved(h) \/ CloseCancelled(h)
  BY <1>3, PayBooks, RewardBooks, CloseBooks
<1>4. CASE Settle(h) \/ CancelUpdate(h) \/ CancelSeats(h)
  BY <1>4, SettleBooks, CancelUpdateBooks, CancelSeatsBooks
<1> QED
  BY <1>1, <1>2, <1>3, <1>4 DEF Continue, ReadsOn

LEMMA NextBooks ==
  ASSUME OneAtATime PROVE BooksInv /\ Funded /\ FewPlayers /\ [Next]_vars => BooksInv'
<1> SUFFICES ASSUME BooksInv, Funded, FewPlayers, [Next]_vars PROVE BooksInv'
  OBVIOUS
<1>1. BaseInv'
  BY NextFresh, NextAttempts, NextPlace DEF BooksInv, BaseInv
<1>2. CASE Tick \/ UNCHANGED vars
  BY <1>1, <1>2, ClockBooks
<1>3. ASSUME NEW h \in Handlers, UserRequest(h) PROVE BooksInv'
  BY <1>1, <1>3, CreateBooks, OpeningBooks, ArrivedBooks DEF UserRequest, Arrived
<1>4. ASSUME NEW h \in Handlers, ModeratorRequest(h) PROVE BooksInv'
  BY <1>1, <1>4, OpeningBooks, ArrivedBooks DEF ModeratorRequest, Arrived
<1>5. ASSUME NEW h \in Handlers, CronRun(h) PROVE BooksInv'
  BY <1>1, <1>5, ArrivedBooks DEF CronRun, Arrived
<1>6. ASSUME NEW h \in Handlers, Continue(h) \/ Abort(h) PROVE BooksInv'
  BY <1>1, <1>6, ContinueBooks, AbortBooks
<1> QED
  BY <1>2, <1>3, <1>4, <1>5, <1>6 DEF Next

\* between requests, a closed duel's rows say what was sent
LEMMA CreditsNow ==
  ASSUME CryptoInv, NEW u \in Users, duel.status \notin Terminal => Refunded = {}
  PROVE  Credits(u) = Given(Idle, u) + Bonus(Idle, u)
<1>1. Stake \in Nat /\ IsFiniteSet(SeatsOf(u)) /\ SeatsOf(u) \in SUBSET Rows
  BY SentType, IdleType DEF Request
<1>2. PICK f : f = Sent(Idle)
  OBVIOUS
<1>3. \A i \in Rows : f[i] = SentTo(Idle, i) /\ f[i] \in Nat
  <2>1. Idle.amount \in Nat
    BY IdleType DEF Request
  <2> QED
    BY <1>2, <2>1, SentType, Zenon
<1>4. PICK given \in Int : given = Given(Idle, u)
  BY GivenInt, IdleType DEF Request
<1>5. given = SumFunctionOnSet(f, SeatsOf(u))
  BY <1>2, <1>4, Zenon DEF Given
<1>6. ~Rewarding(Idle) /\ ~Refunding(Idle) /\ ~PayingBack(Idle)
  BY DEF Rewarding, Refunding, PayingBack, Idle
<1>7. \A i : Won(Idle, i) = IF duel.status = Resolved THEN players[i].winAmount ELSE 0
  BY <1>6 DEF Won
<1>8. duel.status # Resolved => Bonus(Idle, u) = 0
  BY <1>6, NoBonus DEF Bonus
<1>9. CASE duel.status = Refund
  <2>1. \A i \in SeatsOf(u) : f[i] = Stake
    BY <1>1, <1>3, <1>9 DEF SentTo, PaidBack
  <2>2. given = Cardinality(SeatsOf(u)) * Stake
    BY <1>1, <1>5, <2>1, SumOfConstant
  <2>3. Cardinality(SeatsOf(u)) \in Nat
    BY <1>1, FS_CardinalityType
  <2>4. \A m, n \in Nat : m * n = n * m
    OBVIOUS
  <2>5. Credits(u) = Stake * Cardinality(SeatsOf(u))
    BY <1>9, AllStatuses DEF Credits
  <2>6. Credits(u) = given
    BY <1>1, <2>2, <2>3, <2>4, <2>5
  <2> QED
    BY <1>4, <1>8, <1>9, <2>6, AllStatuses
<1>10. CASE duel.status = Resolved
  <2>1. PICK g : g = [i \in SeatsOf(u) |->
                        CASE players[i].finalStatus = PlayerRefunded -> Stake
                          [] OTHER -> players[i].winAmount]
    OBVIOUS
  <2>2. \A i \in SeatsOf(u) : f[i] = g[i]
    <3> SUFFICES ASSUME NEW i \in SeatsOf(u) PROVE f[i] = g[i]
      OBVIOUS
    <3>1. i \in Rows /\ f[i] = SentTo(Idle, i)
      BY <1>1, <1>3
    <3>2. PaidBack(Idle, i) <=> players[i].finalStatus = PlayerRefunded
      BY <1>6, <1>10, <3>1, AllStatuses DEF PaidBack, Refunded, Unplayed
    <3> QED
      BY <1>7, <1>10, <2>1, <3>1, <3>2 DEF SentTo
  <2>3. IntOn(f, SeatsOf(u))
    BY <1>1, <1>3 DEF IntOn
  <2>4. given = SumFunctionOnSet(g, SeatsOf(u))
    BY <1>1, <1>5, <2>2, <2>3, SumOfEqual
  <2>5. given = SumFunction(g)
    <3>1. DOMAIN g = SeatsOf(u)
      BY <2>1
    <3> QED
      BY <2>4, <3>1, Zenon DEF SumFunction
  <2>6. duel.status # Refund
    BY <1>10, AllStatuses
  <2>7. Credits(u) = SumFunction(g)
                       + (IF u = duel.owner /\ u \notin Admins THEN Reward ELSE 0)
                       + (IF u = ReferrerOf[duel.owner] THEN Reward \div 2 ELSE 0)
    BY <1>10, <2>1, <2>6 DEF Credits, Reward
  <2>8. PICK a : a = IF u = duel.owner /\ u \notin Admins THEN Reward ELSE 0
    OBVIOUS
  <2>9. PICK b : b = IF u = ReferrerOf[duel.owner] THEN Reward \div 2 ELSE 0
    OBVIOUS
  <2>10. a \in Int /\ b \in Int
    BY <2>8, <2>9, RewardInt
  <2>11. a = IF u = duel.owner THEN OwnerBonus(Idle) ELSE 0
    BY <1>10, <2>8 DEF OwnerBonus, OwnerPaid
  <2>12. b = IF u = ReferrerOf[duel.owner] THEN ReferrerBonus(Idle) ELSE 0
    BY <1>10, <2>9, WalletsAssumption DEF ReferrerBonus, ReferrerPaid
  <2>13. Bonus(Idle, u) = a + b
    BY <2>11, <2>12, Zenon DEF Bonus
  <2>14. Credits(u) = given + a + b
    BY <2>5, <2>7, <2>8, <2>9, Zenon
  <2> QED
    BY <1>4, <2>10, <2>13, <2>14
<1>11. CASE duel.status # Refund /\ duel.status # Resolved
  <2>1. \A i : ~PaidBack(Idle, i)
    BY <1>6, <1>11, AllStatuses DEF PaidBack, Unplayed
  <2>2. \A i \in SeatsOf(u) : f[i] = 0
    BY <1>1, <1>3, <1>7, <1>11, <2>1 DEF SentTo
  <2>3. given = Cardinality(SeatsOf(u)) * 0
    BY <1>1, <1>5, <2>2, SumOfConstant
  <2>4. Cardinality(SeatsOf(u)) * 0 = 0
    BY <1>1, FS_CardinalityType
  <2>5. Credits(u) = 0
    BY <1>11 DEF Credits
  <2> QED
    BY <1>4, <1>8, <1>11, <2>3, <2>4, <2>5
<1> QED
  BY <1>9, <1>10, <1>11

LEMMA BooksAccount == ASSUME BooksInv, OneAtATime PROVE MoneyAccounted
<1> SUFFICES ASSUME Faults = 0, Quiet
             PROVE  /\ \A u \in Users :
                         /\ room.entries[u] = (IF duel.status \in Unplayed
                                                 THEN 0 ELSE Cardinality(SeatsOf(u) \ WaivedSeats))
                         /\ usdc[u] = InitialUSDC - Stake * room.entries[u] + Credits(u)
                    /\ duel.status \in Terminal =>
                         usdc[Admin] + Stake * Cardinality(WaivedSeats) >= AdminFloat
  BY DEF MoneyAccounted, WalletsBalance, HouseSolvent, Unplayed
<1>1. PICK h : Handlers = {h}
  BY DEF OneAtATime
<1>2. req[h].pc = "idle"
  BY <1>1 DEF Quiet
<1>3. req[h] = Idle
  <2>1. RequestFit(req[h])
    BY <1>1, KnownOf
  <2> QED
    BY <1>2, <2>1 DEF RequestFit
<1>4. /\ CryptoInv /\ PlaceNow(Idle) /\ AccountsNow(Idle)
      /\ duel.status \notin Terminal => \A w \in Refunded : Settling(Idle, w)
  <2> HIDE DEF Idle
  <2>1. h \in Handlers
    BY <1>1
  <2> QED
    BY <1>3, <2>1, KnownOf
<1>5. duel.status \notin Terminal => Refunded = {}
  BY <1>4 DEF Settling, Rewarding, Idle
<1>6. ASSUME NEW u \in Users
      PROVE  /\ room.entries[u] = (IF duel.status \in Unplayed
                                     THEN 0 ELSE Cardinality(SeatsOf(u) \ WaivedSeats))
             /\ usdc[u] = InitialUSDC - Stake * room.entries[u] + Credits(u)
  <2>1. /\ room.entries[u] = Staked(Idle, u)
        /\ usdc[u] = InitialUSDC - Stake * room.entries[u] + Given(Idle, u) + Bonus(Idle, u)
    BY <1>4 DEF AccountsNow, UsersNow
  <2>2. IsFiniteSet(SeatsOf(u)) /\ SeatsOf(u) \in SUBSET Rows
    BY <1>4, SentType, IdleType DEF Request
  <2>3. Staked(Idle, u)
          = IF duel.status \in Unplayed THEN 0 ELSE Cardinality(SeatsOf(u) \ WaivedSeats)
    <3>1. CASE room.state = "none"
      <4>1. Staked(Idle, u) = 0
        BY <3>1 DEF Staked
      <4>2. SeatsOf(u) \ WaivedSeats = {} \/ duel.status \in Unplayed
        <5>1. CASE players = <<>>
          BY <2>2, <5>1 DEF Rows
        <5>2. CASE players # <<>>
          <6>1. Rows = {1} /\ (duel.status \notin Unplayed => WaivedSeats = {1})
            BY <1>4, <3>1, <5>2, WaivedIs DEF Bare
          <6> QED
            BY <2>2, <6>1
        <5> QED
          BY <5>1, <5>2
      <4> QED
        BY <4>1, <4>2, FS_EmptySet, Zenon
    <3>2. CASE room.state # "none"
      <4>1. duel.status \notin Unplayed
        BY <1>4, <3>2 DEF PlaceNow, Idle
      <4>2. Seated(Idle, u) = 0 /\ Cardinality(SeatsOf(u)) \in Nat
        BY <2>2, FS_CardinalityType DEF Seated, Idle
      <4>3. Staked(Idle, u) = Cardinality(SeatsOf(u)) + 0
        BY <3>2, <4>2, Zenon DEF Staked
      <4>4. SeatsOf(u) \ WaivedSeats = SeatsOf(u)
        BY <3>2 DEF WaivedSeats
      <4>5. Staked(Idle, u) = Cardinality(SeatsOf(u))
        BY <4>2, <4>3
      <4> QED
        BY <4>1, <4>4, <4>5, Zenon
    <3> QED
      BY <3>1, <3>2
  <2>4. Credits(u) = Given(Idle, u) + Bonus(Idle, u)
    BY <1>4, <1>5, CreditsNow
  <2>5. PICK given \in Int : given = Given(Idle, u)
    BY <1>4, GivenInt, IdleType DEF Request
  <2>6. PICK bonus \in Int : bonus = Bonus(Idle, u)
    BY <1>4, BonusInt DEF Bonus
  <2>7. PICK staked \in Int : staked = Stake * room.entries[u]
    <3>1. Stake \in Int /\ room.entries[u] \in Int
      BY <1>4, TypedFields, PriceAssumption DEF Stake, Micro
    <3>2. \A m, n \in Int : m * n \in Int
      OBVIOUS
    <3> QED
      BY <3>1, <3>2
  <2>8. usdc[u] = InitialUSDC - staked + given + bonus
    BY <2>1, <2>5, <2>6, <2>7, Zenon
  <2>9. usdc[u] = InitialUSDC - staked + (given + bonus)
    BY <2>8, WalletsAssumption
  <2>10. usdc[u] = InitialUSDC - Stake * room.entries[u] + Credits(u)
    BY <2>4, <2>5, <2>6, <2>7, <2>9, Zenon
  <2> QED
    BY <2>1, <2>3, <2>10, Zenon
<1>7. ASSUME duel.status \in Terminal
      PROVE  usdc[Admin] + Stake * Cardinality(WaivedSeats) >= AdminFloat
  <2>1. usdc[Admin] + Forgone >= AdminFloat /\ usdc[Admin] \in Nat /\ Stake \in Nat
    BY <1>4, <1>7, TypedFields, WalletsAssumption, PriceAssumption DEF AccountsNow, Solvent, Stake, Micro
  <2>2. PICK waived \in Nat : waived = Cardinality(WaivedSeats)
    <3>1. WaivedSeats \in SUBSET Rows /\ IsFiniteSet(Rows)
      BY <1>4, RowsCounted DEF WaivedSeats
    <3> QED
      BY <3>1, FS_Subset, FS_CardinalityType
  <2>3. Forgone = 0 \/ (Forgone = Stake /\ waived = 1)
    <3>1. CASE room.state = "none" /\ Rows # {} /\ duel.status \notin Unplayed
      <4>1. Bare
        BY <3>1 DEF Bare, Rows
      <4>2. WaivedSeats = {1}
        BY <1>4, <3>1, <4>1, WaivedIs
      <4>3. waived = 1
        BY <2>2, <4>2, FS_Singleton, Zenon
      <4> QED
        BY <3>1, <4>3 DEF Forgone
    <3>2. CASE ~(room.state = "none" /\ Rows # {} /\ duel.status \notin Unplayed)
      BY <3>2, Zenon DEF Forgone
    <3> QED
      BY <3>1, <3>2
  <2>4. PICK asked \in Nat : asked = Stake * waived
    BY <2>1, <2>2, Product
  <2>5. Forgone \in Nat /\ Forgone <= asked
    BY <2>1, <2>3, <2>4
  <2>6. usdc[Admin] + asked >= AdminFloat
    BY <2>1, <2>5, WalletsAssumption
  <2> QED
    BY <2>2, <2>4, <2>6, Zenon
<1> QED
  BY <1>6, <1>7

\* Nobody's USDC is made or lost and no settlement overdraws the house: with the
\* house's wallet covering each transfer, requests not overlapping and fewer seats
\* than a players count can hold, until something fails every wallet holds what the
\* closed duel's rows say and the house is no poorer than before, but for the one
\* stake it pays back when the duel was approved without a charge
\* (resolveCryptoDuel, cancelCryptoDuel, RewardDuelWinners and TransferUSDCBulk).
THEOREM EveryCentIsAccounted ==
  ASSUME OneAtATime PROVE Spec /\ []Funded /\ []FewPlayers => []MoneyAccounted
<1>1. Spec /\ []Funded /\ []FewPlayers => []BooksInv
  BY InitBooks, NextBooks, PTL DEF Spec
<1>2. BooksInv => MoneyAccounted
  BY BooksAccount
<1> QED
  BY <1>1, <1>2, PTL
==============================================================================
