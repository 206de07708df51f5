-------------------------- MODULE CryptoDuelProofs --------------------------
(***************************************************************************)
(* CryptoDuel: its types and that seats and stakes agree, with any number  *)
(* of requests in flight and any failures of the chain, the database and   *)
(* the process; for any users, price, commission and schedules.            *)
(***************************************************************************)
EXTENDS CryptoDuel, ArithmeticProofs, SequenceTheorems, FiniteSetTheorems

-----------------------------------------------------------------------------
(* Rows and columns *)

\* the zero value of a duel is a row
LEMMA NoDuelType == NoDuel \in DuelRow
BY SMT DEF NoDuel, DuelRow, Statuses, NoStatus, Refund, NoResult

\* a new seat is a row of players
LEMMA SeatType ==
  ASSUME NEW u \in Users, NEW answer \in Answers, NEW at \in Nat
  PROVE  Seat(u, answer, at) \in PlayerRow
BY DEF Seat, PlayerRow, PlayerActive, PlayerResolved, PlayerRefunded

\* taking a seat counts it, and gives the duel the status the request read
LEMMA SeatTakenType ==
  ASSUME NEW row \in DuelRow, NEW read \in DuelRow
  PROVE  /\ SeatTaken(row, read) \in DuelRow
         /\ SeatTaken(row, read).playersCount = row.playersCount + 1
         /\ SeatTaken(row, read).status = read.status
         /\ SeatTaken(row, read).owner = row.owner
<1>1. row.playersCount \in Nat /\ read.status \in Statuses
  BY DEF DuelRow
<1>2. row.playersCount + 1 \in Nat
  BY <1>1
<1> QED
  BY <1>1, <1>2, Zenon DEF SeatTaken, DuelRow

\* a new duel is a row and counts nobody
LEMMA CreateReqType ==
  ASSUME NEW u \in Users, NEW crypto \in BOOLEAN, NEW s \in Schedules, now \in Nat
  PROVE  /\ DuelByCreateReq(u, crypto, s) \in DuelRow
         /\ DuelByCreateReq(u, crypto, s).playersCount = 0
         /\ DuelByCreateReq(u, crypto, s).owner = u
         /\ DuelByCreateReq(u, crypto, s).status = IF crypto THEN InProcess ELSE InReview
<1>1. s.deadline \in Nat /\ s.eventDate \in Nat
  BY ClockAssumption
<1>2. InReview \in Statuses /\ InProcess \in Statuses
  BY SMT DEF InReview, InProcess, Statuses, NoStatus, Refund
<1> QED
  BY <1>1, <1>2, NoDuelType DEF DuelByCreateReq, DuelRow, NoDuel

\* an update keeps the columns typed; count and status are of the row or of the copy
LEMMA UpdateType ==
  ASSUME NEW row \in DuelRow, NEW model \in DuelRow
  PROVE  /\ Update(row, model) \in DuelRow
         /\ Update(row, model).playersCount = NonZero(model.playersCount, row.playersCount)
         /\ Update(row, model).status = NonZero(model.status, row.status)
         /\ Update(row, model).refundedPlayersCount
              = NonZero(model.refundedPlayersCount, row.refundedPlayersCount)
         /\ Update(row, model).owner = row.owner
<1>1. /\ NonZero(model.status, row.status) \in Statuses
      /\ NonZero(model.playersCount, row.playersCount) \in Nat
      /\ NonZero(model.winnersCount, row.winnersCount) \in Nat
      /\ NonZero(model.refundedPlayersCount, row.refundedPlayersCount) \in Nat
      /\ NonZero(model.deadline, row.deadline) \in Nat
      /\ NonZero(model.eventDate, row.eventDate) \in Nat
  BY DEF NonZero, DuelRow
<1>2. (IF model.finalResult # NoResult THEN model.finalResult ELSE row.finalResult)
         \in Answers \cup {NoResult}
  BY DEF DuelRow
<1> QED
  BY <1>1, <1>2, Zenon DEF Update, DuelRow

\* the same rows with other columns: nobody changes place, no waived stake is asked for
SameUsers(rows, old) ==
    /\ rows \in Seq(PlayerRow) /\ Len(rows) = Len(old)
    /\ \A i \in 1..Len(old) : rows[i].user = old[i].user /\ (old[i].waived => rows[i].waived)

\* mapping the rows adds and drops none
LEMMA RowsMapped ==
  ASSUME NEW rows \in Seq(PlayerRow), NEW f \in [DOMAIN rows -> PlayerRow],
         \A i \in DOMAIN rows : f[i].user = rows[i].user /\ (rows[i].waived => f[i].waived)
  PROVE  SameUsers(f, rows)
<1>1. Len(rows) \in Nat /\ DOMAIN rows = 1..Len(rows)
  BY LenProperties
<1>2. f \in [1..Len(rows) -> PlayerRow]
  BY <1>1
<1>3. f \in Seq(PlayerRow)
  BY <1>1, <1>2, SeqDef
<1>4. DOMAIN f = 1..Len(f) /\ Len(f) \in Nat
  BY <1>3, LenProperties
<1>5. 1..Len(f) = 1..Len(rows)
  BY <1>2, <1>4
<1> QED
  BY <1>1, <1>3, <1>4, <1>5, SMT DEF SameUsers

\* marking seats adds and drops none
LEMMA SetStatusType ==
  ASSUME NEW rows \in Seq(PlayerRow), NEW which,
         NEW status \in {PlayerActive, PlayerResolved, PlayerRefunded}
  PROVE  SameUsers(SetStatus(rows, which, status), rows)
<1>1. \A i \in DOMAIN rows : rows[i] \in PlayerRow
  BY LenProperties
<1>2. SetStatus(rows, which, status) \in [DOMAIN rows -> PlayerRow]
  BY <1>1 DEF SetStatus, PlayerRow
<1>3. \A i \in DOMAIN rows : /\ SetStatus(rows, which, status)[i].user = rows[i].user
                             /\ rows[i].waived => SetStatus(rows, which, status)[i].waived
  BY <1>1, Zenon DEF SetStatus, PlayerRow
<1> QED
  BY <1>2, <1>3, RowsMapped

\* marking winners adds and drops none
LEMMA UpdateDuelWinnersType ==
  ASSUME NEW rows \in Seq(PlayerRow), NEW winners, NEW amount \in Nat
  PROVE  SameUsers(UpdateDuelWinners(rows, winners, amount), rows)
<1>1. \A i \in DOMAIN rows : rows[i] \in PlayerRow
  BY LenProperties
<1>2. UpdateDuelWinners(rows, winners, amount) \in [DOMAIN rows -> PlayerRow]
  BY <1>1 DEF UpdateDuelWinners, PlayerRow
<1>3. \A i \in DOMAIN rows :
         /\ UpdateDuelWinners(rows, winners, amount)[i].user = rows[i].user
         /\ rows[i].waived => UpdateDuelWinners(rows, winners, amount)[i].waived
  BY <1>1, Zenon DEF UpdateDuelWinners, PlayerRow
<1> QED
  BY <1>2, <1>3, RowsMapped

\* the largest of a finite set of numbers
LEMMA Largest ==
  ASSUME NEW S \in SUBSET Nat, IsFiniteSet(S), S # {}
  PROVE  \E m \in S : \A i \in S : i <= m
<1> DEFINE Good == {T \in SUBSET S : T # {} => \E m \in T : \A i \in T : i <= m}
<1>1. {} \in Good
  OBVIOUS
<1>2. \A T \in SUBSET S : \A x \in S \ T : T \in Good => T \cup {x} \in Good
  <2> SUFFICES ASSUME NEW T \in SUBSET S, NEW x \in S \ T, T \in Good
               PROVE  \E m \in T \cup {x} : \A i \in T \cup {x} : i <= m
    OBVIOUS
  <2>1. CASE T = {}
    BY <2>1
  <2>2. CASE T # {}
    <3>1. PICK m \in T : \A i \in T : i <= m
      BY <2>2
    <3>2. CASE x <= m
      BY <3>1, <3>2
    <3>3. CASE m <= x
      <4>1. \A i \in T \cup {x} : i <= x
        BY <3>1, <3>3
      <4> QED
        BY <4>1
    <3> QED
      BY <3>2, <3>3
  <2> QED
    BY <2>1, <2>2
<1>3. \A T \in SUBSET S : T \in Good
  <2> HIDE DEF Good
  <2> QED
    BY <1>1, <1>2, SetInduction
<1>4. S \in Good
  BY <1>3
<1> QED
  BY <1>4

IsFirst(some, rows, n) ==
    /\ some \in SUBSET rows
    /\ Cardinality(some) = IF Cardinality(rows) < n THEN Cardinality(rows) ELSE n
    /\ \A i \in some, j \in rows \ some : i < j

\* a batch can always be cut from what is due
LEMMA FirstRowsExist ==
  ASSUME NEW S \in SUBSET Nat, IsFiniteSet(S), NEW n \in Nat
  PROVE  \E some : IsFirst(some, S, n)
<1> DEFINE Good == {T \in SUBSET S : \E some : IsFirst(some, T, n)}
<1>1. \A T \in SUBSET S : (\A U \in SUBSET T : U # T => U \in Good) => T \in Good
  <2> SUFFICES ASSUME NEW T \in SUBSET S, \A U \in SUBSET T : U # T => U \in Good
               PROVE  \E some : IsFirst(some, T, n)
    OBVIOUS
  <2>1. IsFiniteSet(T) /\ Cardinality(T) \in Nat
    BY FS_Subset, FS_CardinalityType
  <2>2. CASE Cardinality(T) <= n
    <3>1. IsFirst(T, T, n)
      BY <2>1, <2>2 DEF IsFirst
    <3> QED
      BY <3>1
  <2>3. CASE ~(Cardinality(T) <= n)
    <3>1. T # {}
      <4> SUFFICES ASSUME T = {} PROVE FALSE
        OBVIOUS
      <4>1. Cardinality(T) = 0
        BY FS_EmptySet, Zenon
      <4> QED
        BY <2>3, <4>1
    <3>2. PICK m \in T : \A i \in T : i <= m
      BY <2>1, <3>1, Largest
    <3>3. T \ {m} \in Good
      OBVIOUS
    <3>4. PICK some : IsFirst(some, T \ {m}, n)
      BY <3>3
    <3>5. Cardinality(T \ {m}) = Cardinality(T) - 1
      BY <2>1, <3>2, FS_RemoveElement
    <3>6. Cardinality(some) = n /\ some \in SUBSET (T \ {m})
      BY <2>1, <2>3, <3>4, <3>5 DEF IsFirst
    <3>7. \A i \in some, j \in T \ some : i < j
      <4> SUFFICES ASSUME NEW i \in some, NEW j \in T \ some PROVE i < j
        OBVIOUS
      <4>1. CASE j = m
        BY <3>2, <3>6, <4>1
      <4>2. CASE j # m
        BY <3>4, <4>2 DEF IsFirst
      <4> QED
        BY <4>1, <4>2
    <3>8. IsFirst(some, T, n)
      BY <2>1, <2>3, <3>6, <3>7 DEF IsFirst
    <3> QED
      BY <3>8
  <2> QED
    BY <2>2, <2>3
<1>2. \A T \in SUBSET S : T \in Good
  <2> HIDE DEF Good
  <2> QED
    BY <1>1, PartsInduction
<1>3. S \in Good
  BY <1>2
<1> QED
  BY <1>3

\* FirstRows: a part of what is due, the lowest rows, as many as fit in a transaction
LEMMA Chunk ==
  ASSUME NEW due \in SUBSET Nat, IsFiniteSet(due), NEW n \in Nat \ {0}
  PROVE  /\ FirstRows(due, n) \in SUBSET due
         /\ IsFiniteSet(FirstRows(due, n)) /\ Cardinality(FirstRows(due, n)) \in Nat
         /\ due # {} => FirstRows(due, n) # {}
<1> DEFINE First(some) == /\ Cardinality(some) = IF Cardinality(due) < n THEN Cardinality(due) ELSE n
                          /\ \A i \in some, j \in due \ some : i < j
<1>1. \E some : IsFirst(some, due, n)
  BY FirstRowsExist
<1>2. \E some \in SUBSET due : First(some)
  BY <1>1 DEF IsFirst
<1>3. FirstRows(due, n) = CHOOSE some \in SUBSET due : First(some)
  BY Zenon DEF FirstRows
<1> HIDE DEF First
<1>4. FirstRows(due, n) \in SUBSET due /\ First(FirstRows(due, n))
  BY <1>2, <1>3
<1>5. IsFiniteSet(FirstRows(due, n)) /\ Cardinality(FirstRows(due, n)) \in Nat
  BY <1>4, FS_Subset, FS_CardinalityType
<1>6. due # {} => Cardinality(due) \in Nat \ {0}
  BY FS_CardinalityType, FS_EmptySet
<1>7. due # {} => Cardinality(FirstRows(due, n)) # 0
  BY <1>4, <1>6 DEF First
<1> QED
  BY <1>4, <1>5, <1>7, FS_EmptySet

-----------------------------------------------------------------------------
(* The inductive invariant *)

\* What a request has read is fit for its next step: an amount is divided by winners,
\* and no copy of the duel counts seats the table does not have.
RequestFit(r) ==
    /\ r.pc = "idle" => r = Idle
    /\ r.pc \in {"charge", "record"}
         => r.user \in Users /\ r.job \in {"create", "join", "approve"}
    /\ r.pc = "publish" => r.job = "approveDuel"
    /\ r.pc \notin {"idle", "charge", "record", "publish"}
         => r.job \in {"resolve", "cancel", "autoCancel"}
    /\ r.job \notin {"none", "create"} => duel.status # NoStatus
    /\ r.pc # "idle" => r.snap.status # NoStatus
    /\ r.snap.playersCount <= Len(players)
    /\ IsFiniteSet(r.winners) /\ IsFiniteSet(r.list) /\ IsFiniteSet(r.due)
    /\ r.pc \in {"late", "recordRefund", "unpaid"} => r.winners # {}
    /\ r.pc = "pay" /\ r.next # "close" => r.winners # {} /\ r.next # "idle"

Approving(r) == r.job = "approve" /\ r.user = duel.owner

\* What a request may be doing while there are seats and no room: in review, ...
ReviewFit(r) ==
    /\ r.snap.status = InReview
    /\ \/ r.pc = "charge" /\ Approving(r)
       \/ r.pc \in {"cancelUpdate", "cancelSeats"} /\ r.target \in {AdminCancelled, AutoCancelled}
       \/ r.pc = "publish"

\* ... or once the stake was waived: only an approval on its way makes a room
WaivedFit(r) ==
    /\ r.pc # "record"
    /\ r.pc = "charge" => Approving(r) \/ (r.job = "join" /\ r.snap.playersCount # 0)

Unplayed == {InReview, AutoCancelled, AdminCancelled}

\* fit with the seats in rows
BareFit(r, rows) == r.pc # "idle" => ReviewFit(r) \/ (rows[1].waived /\ WaivedFit(r))

\* The one seat of a duel without a room is its owner's, who has not been charged, and
\* who plays only when the stake was waived.
Uncharged ==
    /\ Len(players) = 1 /\ players[1].user = duel.owner /\ duel.playersCount # 0
    /\ duel.status \in Unplayed \/ players[1].waived
    /\ \A h \in Handlers : BareFit(req[h], players)

\* requests of u that have paid and not yet taken their seat
Paid(u) == {h \in Handlers : req[h].pc = "record" /\ req[h].job # "approve" /\ req[h].user = u}

\* Once there is a room, every seat has its stake, and every request on its way to
\* a seat one of its own.
StakesIn ==
    IF room.state = "none"
      THEN /\ \A u \in Users : room.entries[u] = 0
           /\ \A h \in Handlers : req[h].pc # "record"
           /\ players = <<>> \/ Uncharged
      ELSE \A u \in Users :
              /\ IsFiniteSet(Paid(u))
              /\ Cardinality(SeatsOf(u)) + Cardinality(Paid(u)) <= room.entries[u]

CryptoInv ==
    /\ TypeOK
    /\ \A h \in Handlers : RequestFit(req[h])
    /\ duel.playersCount <= Len(players)
    /\ StakesIn

-----------------------------------------------------------------------------
(* A step that neither charges nor seats anybody *)

LEMMA IdleType == Idle \in Request
BY NoDuelType, SMT DEF Idle, Request, Answers, Statuses, NoStatus, Refund

LEMMA IdleFit ==
  ASSUME players \in Seq(PlayerRow)
  PROVE  RequestFit(Idle)
<1>1. Len(players) \in Nat
  BY LenProperties
<1>2. IsFiniteSet({})
  BY FS_EmptySet
<1> QED
  BY <1>1, <1>2 DEF RequestFit, Idle, NoDuel

\* nobody sits outside the rows
LEMMA SeatsFinite ==
  ASSUME NEW u, players \in Seq(PlayerRow)
  PROVE  /\ IsFiniteSet(SeatsOf(u)) /\ Cardinality(SeatsOf(u)) \in Nat
         /\ SeatsOf(u) = {i \in 1..Len(players) : players[i].user = u}
<1>1. DOMAIN players = 1..Len(players) /\ Len(players) \in Nat
  BY LenProperties
<1>2. IsFiniteSet(1..Len(players))
  BY <1>1, FS_Interval
<1>3. SeatsOf(u) = {i \in 1..Len(players) : players[i].user = u}
  BY <1>1 DEF SeatsOf, Rows
<1>4. SeatsOf(u) \subseteq 1..Len(players)
  BY <1>3
<1>5. IsFiniteSet(SeatsOf(u))
  BY <1>2, <1>4, FS_Subset
<1> QED
  BY <1>3, <1>5, FS_CardinalityType

LEMMA SeatsStay ==
  ASSUME NEW u, players \in Seq(PlayerRow), SameUsers(players', players)
  PROVE  SeatsOf(u)' = SeatsOf(u)
<1>1. DOMAIN players = 1..Len(players) /\ Len(players) \in Nat
  BY LenProperties
<1>2. DOMAIN players' = 1..Len(players')
  BY LenProperties DEF SameUsers
<1>3. DOMAIN players' = 1..Len(players)
  BY <1>2 DEF SameUsers
<1>4. SeatsOf(u)' = {i \in DOMAIN players' : players'[i].user = u}
  BY DEF SeatsOf, Rows
<1>5. SeatsOf(u)' = {i \in 1..Len(players) : players'[i].user = u}
  BY <1>3, <1>4
<1>6. SeatsOf(u) = {i \in 1..Len(players) : players[i].user = u}
  BY <1>1 DEF SeatsOf, Rows
<1> QED
  BY <1>5, <1>6 DEF SameUsers

\* handler h goes on to r
Aside(h, r) ==
    /\ r \in Request /\ RequestFit(r) /\ r.pc # "record"
    /\ req' = [req EXCEPT ![h] = r]
    /\ now' \in 1..Horizon /\ faultsLeft' \in 0..MaxFaults
    /\ usdc' \in [Users \cup {Admin} -> Nat]
    /\ duel' \in DuelRow /\ duel'.playersCount <= Len(players)
    /\ duel.status # NoStatus => duel'.status # NoStatus
    /\ players' \in Seq(PlayerRow) /\ SameUsers(players', players)
    /\ room' \in [state : {"none", "open", "closed"}, seats : Nat, entries : [Users -> Nat]]
    /\ room'.entries = room.entries
    /\ room'.state = "none" <=> room.state = "none"
    /\ room.state = "none" /\ players # <<>> =>
          /\ duel'.owner = duel.owner /\ duel'.playersCount # 0
          /\ duel'.status \in Unplayed \/ players'[1].waived
          /\ BareFit(r, players')

LEMMA FitStays ==
  ASSUME NEW r, RequestFit(r), Len(players') >= Len(players),
         duel.status # NoStatus => duel'.status # NoStatus,
         Len(players) \in Nat, Len(players') \in Nat, r.snap.playersCount \in Nat
  PROVE  RequestFit(r)'
<1>1. r.snap.playersCount <= Len(players')
  BY DEF RequestFit
<1> QED
  BY <1>1 DEF RequestFit

LEMMA AsideKeeps ==
  ASSUME CryptoInv, NEW h \in Handlers, NEW r, Aside(h, r)
  PROVE  CryptoInv'
<1>1. /\ req \in [Handlers -> Request] /\ players \in Seq(PlayerRow)
      /\ room \in [state : {"none", "open", "closed"}, seats : Nat, entries : [Users -> Nat]]
  BY DEF CryptoInv, TypeOK
<1>2. req' \in [Handlers -> Request] /\ req'[h] = r /\ \A g \in Handlers \ {h} : req'[g] = req[g]
  BY <1>1 DEF Aside
<1>3. TypeOK'
  BY <1>2 DEF Aside, TypeOK
<1>4. Len(players') = Len(players) /\ Len(players) \in Nat
  BY <1>1, LenProperties DEF Aside, SameUsers
<1>5. \A g \in Handlers : req[g].snap.playersCount \in Nat /\ req'[g].snap.playersCount \in Nat
  BY <1>1, <1>2 DEF Request, DuelRow
<1>6. \A g \in Handlers : RequestFit(req'[g])
  BY <1>2 DEF Aside, CryptoInv
<1>7. \A g \in Handlers : RequestFit(req[g])'
  <2> SUFFICES ASSUME NEW g \in Handlers PROVE RequestFit(req[g])'
    OBVIOUS
  <2>1. PICK q : q = req'[g]
    OBVIOUS
  <2>2. RequestFit(q) /\ q.snap.playersCount \in Nat
    BY <1>5, <1>6, <2>1
  <2>3. Len(players') >= Len(players) /\ Len(players') \in Nat
    BY <1>4
  <2>4. RequestFit(q)'
    BY <1>4, <2>2, <2>3, FitStays DEF Aside
  <2> QED
    BY <2>1, <2>4 DEF RequestFit
<1>8. (duel.playersCount <= Len(players))'
  BY <1>4 DEF Aside
<1>9. StakesIn'
  <2>1. CASE room.state = "none"
    <3>1. \A u \in Users : room'.entries[u] = 0
      BY <2>1 DEF CryptoInv, StakesIn, Aside
    <3>2. \A g \in Handlers : req'[g].pc # "record"
      BY <1>2, <2>1 DEF CryptoInv, StakesIn, Aside
    <3>3. CASE players = <<>>
      <4>1. Len(players') = 0
        BY <1>4, <3>3, EmptySeq
      <4>2. players' = <<>>
        BY <4>1, EmptySeq DEF Aside
      <4> QED
        BY <2>1, <3>1, <3>2, <4>2 DEF StakesIn, Aside
    <3>4. CASE players # <<>>
      <4>1. Uncharged
        BY <2>1, <3>4 DEF CryptoInv, StakesIn
      <4>2. /\ Len(players') = 1 /\ players'[1].user = duel'.owner /\ duel'.owner = duel.owner
            /\ duel'.playersCount # 0
            /\ duel'.status \in Unplayed \/ players'[1].waived
            /\ players[1].waived => players'[1].waived
        BY <1>4, <2>1, <3>4, <4>1 DEF Uncharged, Aside, SameUsers
      <4>3. \A g \in Handlers : BareFit(req'[g], players')
        BY <1>2, <2>1, <3>4, <4>1, <4>2 DEF Uncharged, Aside, BareFit
      <4>4. \A g \in Handlers : BareFit(req[g], players)'
        BY <4>2, <4>3 DEF BareFit, ReviewFit, WaivedFit, Approving
      <4>5. Uncharged'
        BY <2>1, <3>4, <4>2, <4>4 DEF Uncharged, Aside
      <4> QED
        BY <2>1, <3>1, <3>2, <4>5 DEF StakesIn, Aside
    <3> QED
      BY <3>3, <3>4
  <2>2. CASE room.state # "none"
    <3> SUFFICES ASSUME NEW u \in Users
                 PROVE  /\ IsFiniteSet(Paid(u)')
                        /\ Cardinality(SeatsOf(u)') + Cardinality(Paid(u)') <= room'.entries[u]
      BY <2>2 DEF StakesIn, Aside
    <3>1. /\ IsFiniteSet(Paid(u))
          /\ Cardinality(SeatsOf(u)) + Cardinality(Paid(u)) <= room.entries[u]
      BY <2>2 DEF CryptoInv, StakesIn
    <3>2. Paid(u)' \subseteq Paid(u)
      BY <1>2 DEF Paid, Aside
    <3>3. /\ IsFiniteSet(Paid(u)') /\ Cardinality(Paid(u)') <= Cardinality(Paid(u))
          /\ Cardinality(Paid(u)') \in Nat /\ Cardinality(Paid(u)) \in Nat
      <4>1. IsFiniteSet(Paid(u)') /\ Cardinality(Paid(u)') <= Cardinality(Paid(u))
        BY <3>1, <3>2, FS_Subset
      <4> QED
        BY <3>1, <4>1, FS_CardinalityType
    <3>4. SeatsOf(u)' = SeatsOf(u)
      BY <1>1, SeatsStay DEF Aside
    <3>5. Cardinality(SeatsOf(u)') = Cardinality(SeatsOf(u)) /\ Cardinality(SeatsOf(u)) \in Nat
      BY <1>1, <3>4, SeatsFinite, Zenon
    <3>6. room'.entries[u] = room.entries[u] /\ room.entries[u] \in Nat
      BY <1>1 DEF Aside
    <3> HIDE DEF Paid
    <3> QED
      BY <3>1, <3>3, <3>5, <3>6
  <2> QED
    BY <2>1, <2>2
<1> QED
  BY <1>3, <1>7, <1>8, <1>9 DEF CryptoInv

-----------------------------------------------------------------------------
(* Steps that read *)

LEMMA TypedFields ==
  ASSUME CryptoInv
  PROVE  /\ now \in 1..Horizon /\ now \in Nat /\ faultsLeft \in 0..MaxFaults
         /\ duel \in DuelRow /\ players \in Seq(PlayerRow) /\ Len(players) \in Nat
         /\ usdc \in [Users \cup {Admin} -> Nat]
         /\ room \in [state : {"none", "open", "closed"}, seats : Nat, entries : [Users -> Nat]]
         /\ req \in [Handlers -> Request]
         /\ duel.playersCount <= Len(players)
         /\ \A h \in Handlers : RequestFit(req[h])
BY ClockAssumption, LenProperties DEF CryptoInv, TypeOK

LEMMA SameUsersSame == ASSUME players \in Seq(PlayerRow) PROVE SameUsers(players, players)
BY DEF SameUsers

\* there are seats and no room
Bare == room.state = "none" /\ players # <<>>

\* while there are seats and no room, nobody joins, and who settles or refunds deals
\* with a waived stake
LEMMA NoRoomYet ==
  ASSUME CryptoInv, room.state = "none", players # <<>>
  PROVE  /\ duel.status \in Unplayed \/ players[1].waived
         /\ Len(players) = 1 /\ players[1].user = duel.owner /\ duel.playersCount # 0
         /\ \A h \in Handlers : BareFit(req[h], players)
         /\ \A u \in Users : room.entries[u] = 0
         /\ \A h \in Handlers : req[h].pc # "record"
BY DEF CryptoInv, StakesIn, Uncharged

\* handler h goes on to r, and nothing else changes
Looks(h, r) == req' = [req EXCEPT ![h] = r] /\ UNCHANGED <<now, db, chain, faultsLeft>>

LEMMA LooksKeeps ==
  ASSUME CryptoInv, NEW h \in Handlers, NEW r \in Request, RequestFit(r), r.pc # "record",
         Looks(h, r),
         Bare => BareFit(r, players)
  PROVE  CryptoInv'
<1>1. Aside(h, r)
  BY TypedFields, SameUsersSame, NoRoomYet DEF Aside, Bare, Looks, db, chain
<1> QED
  BY <1>1, AsideKeeps

LEMMA Mid ==
  ASSUME CryptoInv, NEW h \in Handlers
  PROVE  /\ req[h] \in Request /\ RequestFit(req[h]) /\ req[h].snap \in DuelRow
         /\ req[h].snap.status \in Nat /\ req[h].snap.playersCount \in Nat
         /\ Bare /\ req[h].pc \notin {"idle", "charge", "publish", "cancelUpdate", "cancelSeats"}
              => players[1].waived
         /\ Bare => req[h].pc # "record"
<1>1. req[h] \in Request /\ RequestFit(req[h])
  BY TypedFields
<1>2. req[h].snap \in DuelRow
  BY <1>1 DEF Request
<1>3. req[h].snap.status \in Nat /\ req[h].snap.playersCount \in Nat
  BY <1>2 DEF DuelRow, Statuses, NoStatus, Refund
<1> QED
  BY <1>1, <1>2, <1>3, NoRoomYet DEF ReviewFit, BareFit, Bare

\* an arrival: an idle request with a few fields filled in
LEMMA ArrivalKeeps ==
  ASSUME CryptoInv, NEW h \in Handlers, NEW r, Looks(h, r),
         r \in Request, r.pc \in {"charge", "publish", "winners", "everybody", "cancelUpdate"},
         r.snap.status # NoStatus, r.snap.playersCount <= Len(players),
         r.winners = {}, r.list = {}, r.due = {},
         r.pc = "charge" => r.user \in Users /\ r.job \in {"create", "join", "approve"},
         r.pc = "publish" => r.job = "approveDuel",
         r.pc \notin {"charge", "publish"} => r.job \in {"resolve", "cancel", "autoCancel"},
         r.job \notin {"none", "create"} => duel.status # NoStatus,
         Bare => BareFit(r, players)
  PROVE  CryptoInv'
<1>1. IsFiniteSet({})
  BY FS_EmptySet
<1>2. RequestFit(r)
  BY <1>1 DEF RequestFit
<1> QED
  BY <1>2, LooksKeeps

LEMMA CreateKeeps ==
  ASSUME CryptoInv, NEW h \in Handlers, NEW u \in Creators, NEW s \in Schedules,
         NEW answer \in Answers, CreateNewCryptoDuel(h, u, s, answer)
  PROVE  CryptoInv'
<1>1. u \in Users
  BY WalletsAssumption
<1>2. /\ now \in Nat /\ Len(players) \in Nat
  BY TypedFields
<1>3. PICK snap : snap = DuelByCreateReq(u, TRUE, s)
  OBVIOUS
<1>4. snap \in DuelRow /\ snap.playersCount = 0 /\ snap.status = InProcess
  BY <1>1, <1>2, <1>3, CreateReqType
<1>5. PICK r : r = [Idle EXCEPT !.pc = "charge", !.job = "create", !.user = u,
                              !.snap = snap, !.answer = answer, !.since = now]
  OBVIOUS
<1>6. /\ r \in Request
      /\ r.pc = "charge" /\ r.job = "create" /\ r.user = u /\ r.snap = snap
      /\ r.winners = {} /\ r.list = {} /\ r.due = {}
  <2>1. /\ r.pc = "charge" /\ r.job = "create" /\ r.user = u /\ r.snap = snap
        /\ r.winners = {} /\ r.list = {} /\ r.due = {}
    BY <1>5 DEF Idle
  <2>2. r \in Request
    <3>1. u \in Users /\ snap \in DuelRow /\ now \in Nat
      BY <1>1, <1>2, <1>4
    <3> QED
      BY <1>5, <3>1, IdleType DEF Request
  <2> QED
    BY <2>1, <2>2
<1>7. Looks(h, r)
  BY <1>3, <1>5, Zenon DEF CreateNewCryptoDuel, Looks, Become
<1>8. duel = NoDuel
  BY DEF CreateNewCryptoDuel, FreshDuel
<1>9. ~Bare
  BY <1>8, NoRoomYet DEF Bare, NoDuel
<1> QED
  BY <1>1, <1>2, <1>4, <1>6, <1>7, <1>9, ArrivalKeeps DEF InProcess, NoStatus

LEMMA JoinKeeps ==
  ASSUME CryptoInv, NEW h \in Handlers, NEW u \in Users, NEW answer \in Answers,
         JoinCryptoDuel(h, u, answer)
  PROVE  CryptoInv'
<1>1. /\ now \in Nat /\ Len(players) \in Nat /\ duel \in DuelRow /\ duel.playersCount <= Len(players)
      /\ players \in Seq(PlayerRow)
  BY TypedFields
<1>2. PICK r : r = [Idle EXCEPT !.pc = "charge", !.job = "join", !.user = u,
                              !.snap = duel, !.answer = answer, !.since = now]
  OBVIOUS
<1>3. /\ r \in Request
      /\ r.pc = "charge" /\ r.job = "join" /\ r.user = u /\ r.snap = duel
      /\ r.winners = {} /\ r.list = {} /\ r.due = {}
  BY <1>1, <1>2, IdleType DEF Request, Idle
<1>4. Looks(h, r)
  BY <1>2, Zenon DEF JoinCryptoDuel, Looks, Become
<1>5. /\ duel.status # NoStatus
      /\ \/ duel.status = InProcess
         \/ duel.status = InReview /\ duel.owner = u
      /\ ~UserAlreadyParticipant(u)
  BY DEF JoinCryptoDuel, IsAbleToJoinDuel
<1>6. Bare => BareFit(r, players)
  <2> SUFFICES ASSUME Bare PROVE BareFit(r, players)
    OBVIOUS
  <2>1. /\ duel.status \in Unplayed \/ players[1].waived
        /\ Len(players) = 1 /\ players[1].user = duel.owner /\ duel.playersCount # 0
    BY NoRoomYet DEF Bare
  <2>2. 1 \in DOMAIN players
    BY <1>1, <2>1, LenProperties
  <2>3. duel.owner # u
    BY <1>5, <2>1, <2>2 DEF UserAlreadyParticipant, Rows
  <2>4. players[1].waived
    BY <1>5, <2>1, <2>3 DEF Unplayed, InReview, AutoCancelled, AdminCancelled, InProcess
  <2> QED
    BY <1>3, <2>1, <2>4 DEF BareFit, WaivedFit
<1> QED
  BY <1>1, <1>3, <1>4, <1>5, <1>6, ArrivalKeeps

LEMMA ApproveKeeps ==
  ASSUME CryptoInv, NEW h \in Handlers, ApproveCryptoDuel(h)
  PROVE  CryptoInv'
<1>1. /\ now \in Nat /\ Len(players) \in Nat /\ duel \in DuelRow /\ duel.playersCount <= Len(players)
      /\ players \in Seq(PlayerRow)
  BY TypedFields
<1>2. PICK i \in Rows : /\ players[i].user = duel.owner
                        /\ Become(h, [Idle EXCEPT !.pc = "charge", !.job = "approve", !.user = duel.owner,
                                    !.snap = duel, !.answer = players[i].answer,
                                    !.since = now])
  BY DEF ApproveCryptoDuel
<1>3. players[i] \in PlayerRow
  BY <1>1, LenProperties DEF Rows
<1>4. duel.owner \in Users /\ players[i].answer \in Answers
  BY <1>2, <1>3 DEF PlayerRow
<1>5. PICK r : r = [Idle EXCEPT !.pc = "charge", !.job = "approve", !.user = duel.owner,
                                    !.snap = duel, !.answer = players[i].answer,
                                    !.since = now]
  OBVIOUS
<1>6. /\ r \in Request
      /\ r.pc = "charge" /\ r.job = "approve" /\ r.user = duel.owner /\ r.snap = duel
      /\ r.winners = {} /\ r.list = {} /\ r.due = {}
  BY <1>1, <1>4, <1>5, IdleType DEF Request, Idle
<1>7. Looks(h, r)
  BY <1>2, <1>5, Zenon DEF ApproveCryptoDuel, Looks, Become
<1>8. duel.status = InReview
  BY DEF ApproveCryptoDuel
<1>9. BareFit(r, players)
  BY <1>6, <1>8 DEF BareFit, ReviewFit, Approving
<1> QED
  BY <1>1, <1>4, <1>6, <1>7, <1>8, <1>9, ArrivalKeeps DEF InReview, NoStatus

LEMMA ApproveDuelKeeps ==
  ASSUME CryptoInv, NEW h \in Handlers, ApproveDuel(h)
  PROVE  CryptoInv'
<1>1. /\ Len(players) \in Nat /\ duel \in DuelRow /\ duel.playersCount <= Len(players)
  BY TypedFields
<1>2. PICK r : r = [Idle EXCEPT !.pc = "publish", !.job = "approveDuel", !.snap = duel]
  OBVIOUS
<1>3. /\ r \in Request
      /\ r.pc = "publish" /\ r.job = "approveDuel" /\ r.snap = duel
      /\ r.winners = {} /\ r.list = {} /\ r.due = {}
  BY <1>1, <1>2, IdleType DEF Request, Idle
<1>4. Looks(h, r)
  BY <1>2, Zenon DEF ApproveDuel, Looks, Become
<1>5. duel.status = InReview
  BY DEF ApproveDuel
<1>6. BareFit(r, players)
  BY <1>3, <1>5 DEF BareFit, ReviewFit
<1> QED
  BY <1>1, <1>3, <1>4, <1>5, <1>6, ArrivalKeeps DEF InReview, NoStatus

LEMMA ResolveKeeps ==
  ASSUME CryptoInv, NEW h \in Handlers, NEW answer \in Answers, NEW cutoff \in Int,
         duel.status = InProcess, Resolve(h, answer, cutoff)
  PROVE  CryptoInv'
<1>1. /\ Len(players) \in Nat /\ duel \in DuelRow /\ duel.playersCount <= Len(players)
  BY TypedFields
<1>2. PICK r : r = [Idle EXCEPT !.pc = "winners", !.job = "resolve", !.snap = duel,
                              !.answer = answer, !.cutoff = cutoff]
  OBVIOUS
<1>3. /\ r \in Request
      /\ r.pc = "winners" /\ r.job = "resolve" /\ r.snap = duel
      /\ r.winners = {} /\ r.list = {} /\ r.due = {}
  BY <1>1, <1>2, IdleType DEF Request, Idle
<1>4. Looks(h, r)
  BY <1>2, Zenon DEF Resolve, Looks, Become
<1>5. Bare => BareFit(r, players)
  BY <1>3, NoRoomYet
     DEF Bare, BareFit, WaivedFit, Unplayed, InReview, AutoCancelled, AdminCancelled, InProcess
<1> QED
  BY <1>1, <1>3, <1>4, <1>5, ArrivalKeeps DEF InProcess, NoStatus

LEMMA ResolvesKeep ==
  ASSUME CryptoInv, NEW h \in Handlers,
         \/ \E answer \in Answers : ResolveCryptoDuelByAdmin(h, answer)
         \/ ResolveCryptoOnEventDate(h)
         \/ ResolveCryptoBeforeEventDate(h)
  PROVE  CryptoInv'
<1>1. duel.deadline \in Int /\ now - ResolveJoinNotBefore \in Int
  BY TypedFields, ClockAssumption DEF DuelRow
<1>2. 1 \in Answers
  BY DEF Answers
<1>3. duel.status = InProcess
  BY DEF ResolveCryptoDuelByAdmin, ResolveCryptoOnEventDate, ResolveCryptoBeforeEventDate, Overdue
<1>4. \E answer \in Answers, cutoff \in Int : Resolve(h, answer, cutoff)
  BY <1>1, <1>2
     DEF ResolveCryptoDuelByAdmin, ResolveCryptoOnEventDate, ResolveCryptoBeforeEventDate
<1> QED
  BY <1>3, <1>4, ResolveKeeps

LEMMA CancellingKeeps ==
  ASSUME CryptoInv, NEW h \in Handlers, NEW job \in {"cancel", "autoCancel"}, NEW target,
         \/ target \in {AdminCancelled, AutoCancelled} /\ duel.status = InReview
         \/ target = Refund /\ duel.status = InProcess,
         Looks(h, Cancelling([Idle EXCEPT !.job = job, !.snap = duel], target))
  PROVE  CryptoInv'
<1>1. /\ Len(players) \in Nat /\ duel \in DuelRow /\ duel.playersCount <= Len(players)
  BY TypedFields
<1>2. PICK pc : pc = IF HasChargedDuelPriceFromUser(duel.playersCount, duel.status, target)
                       THEN "everybody" ELSE "cancelUpdate"
  OBVIOUS
<1>3. target \in Statuses
  BY DEF Statuses, NoStatus, Refund, AdminCancelled, AutoCancelled
<1>4. PICK r : r = Cancelling([Idle EXCEPT !.job = job, !.snap = duel], target)
  OBVIOUS
<1>5. r = [Idle EXCEPT !.job = job, !.snap = duel, !.target = target, !.pc = pc]
  BY <1>2, <1>4 DEF Cancelling, Idle
<1>6. pc \in {"everybody", "cancelUpdate"} /\ (duel.status = InReview => pc = "cancelUpdate")
  BY <1>2 DEF HasChargedDuelPriceFromUser, InReview, InProcess
<1>7. /\ r \in Request
      /\ r.pc = pc /\ r.job = job /\ r.snap = duel /\ r.target = target
      /\ r.winners = {} /\ r.list = {} /\ r.due = {}
  BY <1>1, <1>3, <1>5, <1>6, IdleType DEF Request, Idle
<1>8. duel.status # NoStatus
  BY DEF InReview, InProcess, NoStatus
<1>9. Bare => BareFit(r, players)
  BY <1>6, <1>7, NoRoomYet
     DEF Bare, BareFit, ReviewFit, WaivedFit, Unplayed, InReview, AutoCancelled, AdminCancelled,
         InProcess
<1>10. Looks(h, r)
  BY <1>4
<1> QED
  BY <1>1, <1>6, <1>7, <1>8, <1>9, <1>10, ArrivalKeeps

LEMMA CancelsKeep ==
  ASSUME CryptoInv, NEW h \in Handlers,
         (\E target \in Statuses : CancelCryptoDuelByAdmin(h, target)) \/ AutoCancelDuels(h)
  PROVE  CryptoInv'
<1>1. CASE AutoCancelDuels(h)
  <2>1. Looks(h, Cancelling([Idle EXCEPT !.job = "autoCancel", !.snap = duel], AutoCancelled))
    BY <1>1, Zenon DEF AutoCancelDuels, Looks, Become
  <2>2. duel.status = InReview
    BY <1>1 DEF AutoCancelDuels
  <2> QED
    BY <2>1, <2>2, CancellingKeeps
<1>2. ASSUME NEW target \in Statuses, CancelCryptoDuelByAdmin(h, target) PROVE CryptoInv'
  <2>1. Looks(h, Cancelling([Idle EXCEPT !.job = "cancel", !.snap = duel], target))
    BY <1>2, Zenon DEF CancelCryptoDuelByAdmin, Looks, Become
  <2>2. \/ target = AdminCancelled /\ duel.status = InReview
        \/ target = Refund /\ duel.status = InProcess
    BY <1>2 DEF CancelCryptoDuelByAdmin, ValidateDuelCancel
  <2> QED
    BY <2>1, <2>2, CancellingKeeps
<1> QED
  BY <1>1, <1>2

\* sets of rows are finite
LEMMA RowsFinite ==
  ASSUME CryptoInv
  PROVE  /\ Rows \in SUBSET Nat /\ IsFiniteSet(Rows)
         /\ \A T \in SUBSET Rows : T \in SUBSET Nat /\ IsFiniteSet(T) /\ Cardinality(T) \in Nat
<1>1. Rows = 1..Len(players) /\ Len(players) \in Nat
  BY TypedFields, LenProperties DEF Rows
<1>2. Rows \in SUBSET Nat
  BY <1>1
<1>3. IsFiniteSet(Rows)
  BY <1>1, FS_Interval
<1> HIDE DEF Rows
<1> QED
  BY <1>2, <1>3, FS_Subset, FS_CardinalityType

LEMMA ReadsOfRows ==
  ASSUME NEW answer, NEW cutoff
  PROVE  /\ GetDuelWinners(answer, cutoff) \in SUBSET Rows
         /\ GetDuelPlayersToRefund(cutoff) \in SUBSET Rows
         /\ GetCryptoDuelWinners(answer) \in SUBSET Rows
BY DEF GetDuelWinners, GetDuelPlayersToRefund, GetCryptoDuelWinners

\* a request past its arrival and charge looks at something
LEMMA MidLooks ==
  ASSUME CryptoInv, NEW h \in Handlers,
         req[h].pc \notin {"idle", "charge", "publish", "cancelUpdate", "cancelSeats"},
         NEW r \in Request, RequestFit(r), r.pc \notin {"charge", "record"}, Looks(h, r)
  PROVE  CryptoInv'
BY Mid, LooksKeeps DEF BareFit, WaivedFit

\* a request that is to pay a list is fit to
LEMMA PayingFit ==
  ASSUME NEW r \in Request, RequestFit(r), r.pc \notin {"idle", "charge", "record", "publish"},
         NEW list \in SUBSET Nat, IsFiniteSet(list), NEW amount \in Nat,
         NEW next \in {"recordRefund", "ownerReward", "close"},
         next # "close" => r.winners # {}
  PROVE  /\ Paying(r, list, amount, next) \in Request
         /\ RequestFit(Paying(r, list, amount, next))
         /\ Paying(r, list, amount, next).pc \in {"pay", next}
<1>1. PICK q : q = Paying(r, list, amount, next)
  OBVIOUS
<1>2. PICK pc : pc = IF list = {} THEN next ELSE "pay"
  OBVIOUS
<1>3. q = [r EXCEPT !.list = list, !.amount = amount, !.next = next, !.pc = pc, !.due = list]
  BY <1>1, <1>2 DEF Paying, ToPay, Request
<1>4. pc \in {"pay", "recordRefund", "ownerReward", "close"} /\ pc \in {"pay", next}
  BY <1>2
<1>5. q \in Request
  BY <1>3, <1>4 DEF Request
<1>6. /\ q.pc = pc /\ q.job = r.job /\ q.snap = r.snap /\ q.winners = r.winners
      /\ q.list = list /\ q.due = list /\ q.next = next
  BY <1>3 DEF Request
<1>7. RequestFit(q)
  BY <1>2, <1>4, <1>6 DEF RequestFit
<1> QED
  BY <1>1, <1>4, <1>5, <1>6, <1>7

LEMMA CancellingFit ==
  ASSUME NEW r \in Request, RequestFit(r), r.pc \notin {"idle", "charge", "record", "publish"}
  PROVE  /\ Cancelling(r, Refund) \in Request /\ RequestFit(Cancelling(r, Refund))
         /\ Cancelling(r, Refund).pc \in {"everybody", "cancelUpdate"}
<1>1. PICK q : q = Cancelling(r, Refund)
  OBVIOUS
<1>2. PICK pc : pc = IF HasChargedDuelPriceFromUser(r.snap.playersCount, r.snap.status, Refund)
                       THEN "everybody" ELSE "cancelUpdate"
  OBVIOUS
<1>3. q = [r EXCEPT !.target = Refund, !.pc = pc]
  BY <1>1, <1>2 DEF Cancelling
<1>4. pc \in {"everybody", "cancelUpdate"}
  BY <1>2
<1>5. Refund \in Statuses
  BY DEF Statuses, NoStatus, Refund
<1>6. q \in Request
  BY <1>3, <1>4, <1>5 DEF Request
<1>7. /\ q.pc = pc /\ q.job = r.job /\ q.snap = r.snap /\ q.winners = r.winners
      /\ q.list = r.list /\ q.due = r.due /\ q.next = r.next
  BY <1>3 DEF Request
<1>8. RequestFit(q)
  BY <1>4, <1>7 DEF RequestFit
<1> QED
  BY <1>1, <1>4, <1>6, <1>7, <1>8

LEMMA ReadWinnersKeeps ==
  ASSUME CryptoInv, NEW h \in Handlers, ReadWinners(h)
  PROVE  CryptoInv'
<1>1. req[h] \in Request /\ RequestFit(req[h]) /\ req[h].pc = "winners"
  BY Mid DEF ReadWinners
<1>2. PICK winners : winners = GetDuelWinners(req[h].answer, req[h].cutoff)
  OBVIOUS
<1>3. winners \in SUBSET Nat /\ IsFiniteSet(winners)
  BY <1>2, ReadsOfRows, RowsFinite
<1>4. PICK r : r = [req[h] EXCEPT !.pc = "refunds", !.winners = winners]
  OBVIOUS
<1>5. r \in Request
  BY <1>1, <1>3, <1>4 DEF Request
<1>6. /\ r.pc = "refunds" /\ r.job = req[h].job /\ r.snap = req[h].snap /\ r.winners = winners
      /\ r.list = req[h].list /\ r.due = req[h].due
  BY <1>1, <1>4 DEF Request
<1>7. RequestFit(r)
  BY <1>1, <1>3, <1>6 DEF RequestFit
<1>8. Looks(h, r)
  BY <1>2, <1>4, Zenon DEF ReadWinners, Looks, Become
<1> QED
  BY <1>1, <1>5, <1>6, <1>7, <1>8, MidLooks

LEMMA ReadRefundsKeeps ==
  ASSUME CryptoInv, NEW h \in Handlers, ReadRefunds(h)
  PROVE  CryptoInv'
<1>1. req[h] \in Request /\ RequestFit(req[h]) /\ req[h].pc = "refunds"
  BY Mid DEF ReadRefunds
<1>2. PICK r : /\ Looks(h, r)
               /\ \/ r = Cancelling(req[h], Refund)
                  \/ /\ req[h].winners # {}
                     /\ \E pc \in {"late", "unpaid"} : r = [req[h] EXCEPT !.pc = pc]
  <2> DEFINE late == Cardinality(GetDuelPlayersToRefund(req[h].cutoff))
             pool == PlayersPool(req[h].snap.playersCount, late, CountModulus)
             none == req[h].winners = {} \/ pool \in {0, Cardinality(req[h].winners)}
             pc   == IF late > 0 THEN "late" ELSE "unpaid"
  <2>1. Looks(h, IF none THEN Cancelling(req[h], Refund) ELSE [req[h] EXCEPT !.pc = pc])
    BY Zenon DEF ReadRefunds, Looks, Become
  <2>2. pc \in {"late", "unpaid"}
    OBVIOUS
  <2>3. ~none => req[h].winners # {}
    OBVIOUS
  <2> HIDE DEF none, pc
  <2> QED
    BY <2>1, <2>2, <2>3
<1>3. CASE r = Cancelling(req[h], Refund)
  BY <1>1, <1>2, <1>3, CancellingFit, MidLooks
<1>4. CASE req[h].winners # {} /\ \E pc \in {"late", "unpaid"} : r = [req[h] EXCEPT !.pc = pc]
  <2>1. PICK pc \in {"late", "unpaid"} : r = [req[h] EXCEPT !.pc = pc]
    BY <1>4
  <2>2. r \in Request
    BY <1>1, <2>1 DEF Request
  <2>3. /\ r.pc = pc /\ r.job = req[h].job /\ r.snap = req[h].snap
        /\ r.winners = req[h].winners
        /\ r.list = req[h].list /\ r.due = req[h].due
    BY <1>1, <2>1 DEF Request
  <2>4. RequestFit(r)
    BY <1>1, <1>4, <2>3 DEF RequestFit
  <2> QED
    BY <1>1, <1>2, <2>2, <2>3, <2>4, MidLooks
<1> QED
  BY <1>2, <1>3, <1>4

LEMMA ReadPlayersToRefundKeeps ==
  ASSUME CryptoInv, NEW h \in Handlers, ReadPlayersToRefund(h)
  PROVE  CryptoInv'
<1>1. req[h] \in Request /\ RequestFit(req[h]) /\ req[h].pc = "late" /\ req[h].winners # {}
  BY Mid DEF ReadPlayersToRefund, RequestFit
<1>2. PICK list : list = GetDuelPlayersToRefund(req[h].cutoff)
  OBVIOUS
<1>3. list \in SUBSET Nat /\ IsFiniteSet(list)
  BY <1>2, ReadsOfRows, RowsFinite
<1>4. Stake \in Nat
  BY PriceAssumption DEF Stake, Micro
<1>5. PICK r : r = Paying(req[h], list, Stake, "recordRefund")
  OBVIOUS
<1>6. Looks(h, r)
  BY <1>2, <1>5, Zenon DEF ReadPlayersToRefund, Looks, Become
<1>7. r \in Request /\ RequestFit(r) /\ r.pc \in {"pay", "recordRefund"}
  BY <1>1, <1>3, <1>4, <1>5, PayingFit
<1> QED
  BY <1>1, <1>6, <1>7, MidLooks

LEMMA PoolType ==
  ASSUME NEW r \in Request
  PROVE  PoolOf(r) \in Nat
<1>1. /\ r.snap.playersCount \in Nat /\ r.snap.refundedPlayersCount \in Nat
      /\ DuelPrice \in Nat /\ CountModulus \in Nat \ {0}
  BY PriceAssumption DEF Request, DuelRow
<1>2. PlayersPool(r.snap.playersCount, r.snap.refundedPlayersCount, CountModulus) \in Nat
  BY <1>1, PlayersPoolType
<1> QED
  BY <1>1, <1>2, Product DEF PoolOf, Pool

LEMMA OwnerRewardType ==
  ASSUME NEW r \in Request
  PROVE  OwnerReward(r) \in Nat /\ OwnerReward(r) \div 2 \in Nat
<1>1. PoolOf(r) \in Nat /\ Commission \in Nat
  BY PoolType, PriceAssumption
<1>2. PICK x \in Nat : x = PoolOf(r) * Commission
  BY <1>1, Product
<1>3. OwnerReward(r) = (x * (Micro \div 100)) \div 2
  BY <1>2 DEF OwnerReward, CryptoCommissionReward
<1> QED
  BY <1>3 DEF Micro

LEMMA ReadUnpaidWinnersKeeps ==
  ASSUME CryptoInv, NEW h \in Handlers, ReadUnpaidWinners(h)
  PROVE  CryptoInv'
<1>1. req[h] \in Request /\ RequestFit(req[h]) /\ req[h].pc = "unpaid" /\ req[h].winners # {}
  BY Mid DEF ReadUnpaidWinners, RequestFit
<1>2. PICK list : list = GetCryptoDuelWinners(req[h].answer)
  OBVIOUS
<1>3. list \in SUBSET Nat /\ IsFiniteSet(list)
  BY <1>2, ReadsOfRows, RowsFinite
<1>4. PICK amount : amount = FinalCryptoReward(PoolOf(req[h]), Commission, Cardinality(req[h].winners))
  OBVIOUS
<1>5. amount \in Nat
  <2>1. IsFiniteSet(req[h].winners)
    BY <1>1 DEF RequestFit
  <2>2. Cardinality(req[h].winners) \in Nat \ {0}
    BY <1>1, <2>1, FS_CardinalityType, FS_EmptySet
  <2>3. PoolOf(req[h]) \in Nat /\ Commission \in 0..100
    BY <1>1, PoolType, PriceAssumption
  <2> QED
    BY <1>4, <2>2, <2>3, CryptoPayoutWithinPool
<1>6. PICK r : r = IF list = {} THEN Idle ELSE Paying(req[h], list, amount, "ownerReward")
  OBVIOUS
<1>7. Looks(h, r)
  BY <1>2, <1>4, <1>6, Zenon DEF ReadUnpaidWinners, Looks, Become
<1>8. r \in Request /\ RequestFit(r) /\ r.pc \in {"idle", "pay", "ownerReward"}
  <2>1. CASE list = {}
    <3>1. r = Idle
      BY <1>6, <2>1
    <3> QED
      BY <3>1, IdleType, IdleFit, TypedFields DEF Idle
  <2>2. CASE list # {}
    BY <1>1, <1>3, <1>5, <1>6, <2>2, PayingFit
  <2> QED
    BY <2>1, <2>2
<1> QED
  BY <1>1, <1>7, <1>8, MidLooks

LEMMA ReadEverybodyKeeps ==
  ASSUME CryptoInv, NEW h \in Handlers, ReadEverybody(h)
  PROVE  CryptoInv'
<1>1. req[h] \in Request /\ RequestFit(req[h]) /\ req[h].pc = "everybody"
  BY Mid DEF ReadEverybody
<1>2. PICK list : list = Rows
  OBVIOUS
<1>3. list \in SUBSET Nat /\ IsFiniteSet(list)
  BY <1>2, RowsFinite
<1>4. Stake \in Nat
  BY PriceAssumption DEF Stake, Micro
<1>5. PICK r : r = Paying(req[h], list, Stake, "close")
  OBVIOUS
<1>6. Looks(h, r)
  BY <1>2, <1>5, Zenon DEF ReadEverybody, Looks, Become
<1>7. r \in Request /\ RequestFit(r) /\ r.pc \in {"pay", "close"}
  BY <1>1, <1>3, <1>4, <1>5, PayingFit
<1> QED
  BY <1>1, <1>6, <1>7, MidLooks

-----------------------------------------------------------------------------
(* Steps that write, seats and stakes aside *)

\* faults are counted down
LEMMA AttemptType ==
  ASSUME CryptoInv, NEW o, NEW failures, NEW possible \in BOOLEAN, Attempt(o, failures, possible)
  PROVE  /\ faultsLeft' \in 0..MaxFaults
         /\ o.landed => possible
BY TypedFields, ClockAssumption DEF Attempt, Done, Nothing

LEMMA AbortKeeps ==
  ASSUME CryptoInv, NEW h \in Handlers, Abort(h)
  PROVE  CryptoInv'
<1>1. faultsLeft' \in 0..MaxFaults
  BY TypedFields, ClockAssumption DEF Abort
<1>2. Aside(h, Idle)
  BY <1>1, TypedFields, SameUsersSame, NoRoomYet, IdleType, IdleFit
     DEF Aside, Abort, Become, BareFit, db, chain, Idle
<1> QED
  BY <1>2, AsideKeeps

LEMMA ClockKeeps ==
  ASSUME CryptoInv, Tick \/ UNCHANGED vars
  PROVE  CryptoInv'
<1>1. now' \in 1..Horizon
  BY TypedFields, ClockAssumption DEF Tick, vars
<1>2. UNCHANGED <<duel, players, usdc, room, req, faultsLeft>>
  BY DEF Tick, vars, db, chain
<1>3. TypeOK'
  BY <1>1, <1>2 DEF CryptoInv, TypeOK
<1>4. \A h \in Handlers : RequestFit(req[h])'
  BY <1>2 DEF CryptoInv, RequestFit
<1>5. StakesIn'
  <2>1. \A u \in Users : SeatsOf(u)' = SeatsOf(u) /\ Paid(u)' = Paid(u)
    BY <1>2 DEF SeatsOf, Rows, Paid
  <2> QED
    BY <1>2, <2>1
       DEF CryptoInv, StakesIn, Uncharged, BareFit, ReviewFit, WaivedFit, Approving
<1> QED
  BY <1>2, <1>3, <1>4, <1>5 DEF CryptoInv

\* an idle handler that answers at once
LEMMA AtOnceKeeps ==
  ASSUME CryptoInv, NEW h \in Handlers, req[h].pc = "idle",
         UNCHANGED <<now, players, usdc, room, req, faultsLeft>>,
         duel' \in DuelRow, duel'.playersCount <= Len(players),
         duel.status # NoStatus => duel'.status # NoStatus,
         Bare => /\ duel'.status = duel.status /\ duel'.owner = duel.owner
                 /\ duel'.playersCount = duel.playersCount
  PROVE  CryptoInv'
<1>1. req[h] = Idle
  BY TypedFields DEF RequestFit
<1>2. req' = [req EXCEPT ![h] = Idle]
  BY <1>1, TypedFields
<1>3. Aside(h, Idle)
  BY <1>2, TypedFields, SameUsersSame, NoRoomYet, IdleType, IdleFit
     DEF Aside, Bare, BareFit, Idle
<1> QED
  BY <1>3, AsideKeeps

LEMMA CreateAdminKeeps ==
  ASSUME CryptoInv, NEW h \in Handlers, NEW u \in Admins, NEW crypto \in BOOLEAN,
         NEW s \in Schedules, CreateNewCryptoDuelAdmin(h, u, crypto, s)
  PROVE  CryptoInv'
<1>1. u \in Users /\ now \in Nat /\ Len(players) \in Nat
  BY WalletsAssumption, TypedFields
<1>2. PICK row : row = DuelByCreateReq(u, crypto, s)
  OBVIOUS
<1>3. row \in DuelRow /\ row.playersCount = 0
  BY <1>1, <1>2, CreateReqType
<1>4. duel' = [row EXCEPT !.status = InProcess]
  BY <1>2 DEF CreateNewCryptoDuelAdmin
<1>5. InProcess \in Statuses /\ InProcess # NoStatus
  BY SMT DEF Statuses, NoStatus, Refund, InProcess
<1>6. duel' \in DuelRow /\ duel'.playersCount = 0 /\ duel'.status = InProcess
  BY <1>3, <1>4, <1>5 DEF DuelRow
<1>7. duel = NoDuel
  BY DEF CreateNewCryptoDuelAdmin, FreshDuel
<1>8. ~Bare
  BY <1>7, NoRoomYet DEF Bare, NoDuel
<1> QED
  BY <1>1, <1>5, <1>6, <1>8, AtOnceKeeps DEF CreateNewCryptoDuelAdmin, Arrives, chain

LEMMA EditKeeps ==
  ASSUME CryptoInv, NEW h \in Handlers, NEW s \in Schedules, EditDuel(h, s)
  PROVE  CryptoInv'
<1>1. duel \in DuelRow /\ duel.playersCount <= Len(players)
  BY TypedFields
<1>2. PICK model : model = [NoDuel EXCEPT !.deadline = s.deadline, !.eventDate = s.eventDate]
  OBVIOUS
<1>3. s.deadline \in Nat /\ s.eventDate \in Nat
  BY ClockAssumption
<1>4. model \in DuelRow /\ model.status = NoDuel.status /\ model.playersCount = NoDuel.playersCount
  BY <1>2, <1>3, NoDuelType DEF DuelRow
<1>5. duel' = Update(duel, model)
  BY <1>2 DEF EditDuel
<1>6. /\ duel' \in DuelRow /\ duel'.owner = duel.owner
      /\ duel'.playersCount = NonZero(model.playersCount, duel.playersCount)
      /\ duel'.status = NonZero(model.status, duel.status)
  BY <1>1, <1>4, <1>5, UpdateType
<1>7. duel'.playersCount = duel.playersCount /\ duel'.status = duel.status
  BY <1>4, <1>6 DEF NonZero, NoDuel, NoStatus
<1> QED
  BY <1>1, <1>6, <1>7, NoRoomYet, AtOnceKeeps DEF EditDuel, Arrives, chain

\* the outcome of a transfer decides where a request goes on, and no more
LEMMA GoesOn ==
  ASSUME NEW r \in Request, RequestFit(r), r.pc \notin {"idle", "charge", "record", "publish"},
         NEW pc \in {"referrerReward", "close", "settle", "cancelUpdate", "cancelSeats"},
         NEW q, q = [r EXCEPT !.pc = pc]
  PROVE  /\ q \in Request /\ RequestFit(q) /\ q.pc = pc
         /\ q.snap = r.snap /\ q.target = r.target /\ q.job = r.job
<1>2. q \in Request
  BY DEF Request
<1>3. /\ q.pc = pc /\ q.job = r.job /\ q.snap = r.snap /\ q.winners = r.winners
      /\ q.list = r.list /\ q.due = r.due /\ q.next = r.next /\ q.target = r.target
  BY DEF Request
<1>4. RequestFit(q)
  BY <1>3 DEF RequestFit
<1> QED
  BY <1>2, <1>3, <1>4

LEMMA TransferKeeps ==
  ASSUME CryptoInv, NEW h \in Handlers, NEW to, NEW amount \in Nat,
         NEW pc \in {"ownerReward", "referrerReward"}, NEW next \in {"referrerReward", "close"},
         Transfer(h, to, amount, pc, next)
  PROVE  CryptoInv'
<1>1. req[h] \in Request /\ RequestFit(req[h]) /\ req[h].pc = pc
      /\ (Bare => players[1].waived)
  BY Mid DEF Transfer
<1>2. PICK on : on = [req[h] EXCEPT !.pc = next]
  OBVIOUS
<1>3. on \in Request /\ RequestFit(on) /\ on.pc = next
  BY <1>1, <1>2, GoesOn
<1>4. PICK r : /\ r \in {Idle, on} /\ req' = [req EXCEPT ![h] = r]
  BY <1>2 DEF Transfer, Go, Become
<1>5. UNCHANGED <<now, duel, players, room>>
  BY DEF Transfer, db, chain
<1>6. usdc' \in [Users \cup {Admin} -> Nat] /\ faultsLeft' \in 0..MaxFaults
  <2>1. CASE UNCHANGED <<chain, faultsLeft>>
    BY <2>1, TypedFields DEF chain
  <2>2. ASSUME NEW o \in Outcomes, Attempt(o, Untracked, usdc[Admin] >= amount),
               usdc' = IF o.landed
                         THEN [usdc EXCEPT ![Admin] = @ - amount, ![to] = @ + amount]
                         ELSE usdc
        PROVE  usdc' \in [Users \cup {Admin} -> Nat] /\ faultsLeft' \in 0..MaxFaults
    <3>1. usdc \in [Users \cup {Admin} -> Nat] /\ usdc[Admin] \in Nat
      BY TypedFields
    <3>2. faultsLeft' \in 0..MaxFaults /\ (o.landed => usdc[Admin] >= amount)
      BY <2>2, TypedFields, ClockAssumption DEF Attempt, Done, Nothing
    <3>3. CASE o.landed
      <4>1. usdc[Admin] - amount \in Nat
        BY <3>1, <3>2, <3>3
      <4>2. usdc' = [usdc EXCEPT ![Admin] = @ - amount, ![to] = @ + amount]
        BY <2>2, <3>3
      <4> DEFINE W == Users \cup {Admin}
      <4>3. to \in W => usdc[to] + amount \in Nat
        BY <3>1
      <4>4. Admin \in W /\ usdc \in [W -> Nat]
        BY <3>1
      <4> HIDE DEF W
      <4>5. usdc' \in [W -> Nat]
        <5>1. CASE to \in W
          BY <4>1, <4>2, <4>3, <4>4, <5>1
        <5>2. CASE to \notin W
          BY <4>1, <4>2, <4>4, <5>2
        <5> QED
          BY <5>1, <5>2
      <4> QED
        BY <3>2, <4>5 DEF W
    <3>4. CASE ~o.landed
      BY <2>2, <3>1, <3>2, <3>4
    <3> QED
      BY <3>3, <3>4
  <2> QED
    BY <2>1, <2>2 DEF Transfer
<1>7. r \in Request /\ RequestFit(r) /\ r.pc \notin {"charge", "record"}
  <2>1. Idle \in Request /\ RequestFit(Idle) /\ Idle.pc = "idle"
    BY IdleType, IdleFit, TypedFields DEF Idle
  <2> QED
    BY <1>3, <1>4, <2>1
<1>8. Aside(h, r)
  BY <1>1, <1>4, <1>5, <1>6, <1>7, TypedFields, SameUsersSame, NoRoomYet
     DEF Aside, Bare, BareFit, WaivedFit
<1> QED
  BY <1>8, AsideKeeps

LEMMA PayRewardsKeep ==
  ASSUME CryptoInv, NEW h \in Handlers, PayOwner(h) \/ PayReferrer(h)
  PROVE  CryptoInv'
<1>1. req[h] \in Request
  BY TypedFields
<1>2. OwnerReward(req[h]) \in Nat /\ OwnerReward(req[h]) \div 2 \in Nat
  BY <1>1, OwnerRewardType
<1>3. CASE PayOwner(h)
  BY <1>2, <1>3, TransferKeeps DEF PayOwner
<1>4. CASE PayReferrer(h)
  BY <1>2, <1>4, TransferKeeps DEF PayReferrer
<1> QED
  BY <1>3, <1>4

\* what is in the room is a number
LEMMA EntriesType ==
  ASSUME CryptoInv
  PROVE  Entries \in Nat
<1>1. room.entries \in [Users -> Nat] /\ IsFiniteSet(Users)
  BY TypedFields, WalletsAssumption
<1>2. PICK f : f = room.entries
  OBVIOUS
<1>3. DOMAIN f = Users /\ \A u \in Users : f[u] \in Nat
  BY <1>1, <1>2
<1>4. PICK zero : zero = [u \in Users |-> 0]
  OBVIOUS
<1>5. /\ SumFunctionOnSet(f, Users) \in Int
      /\ SumFunctionOnSet(zero, Users) <= SumFunctionOnSet(f, Users)
  BY <1>1, <1>3, <1>4, SumInt, SumMonotonic DEF IntOn
<1>6. SumFunctionOnSet(zero, Users) = Cardinality(Users) * 0
  BY <1>1, <1>4, SumOfConstant
<1>7. Cardinality(Users) \in Nat
  BY <1>1, FS_CardinalityType
<1>8. Entries = SumFunctionOnSet(f, Users)
  BY <1>2, <1>3, Zenon DEF Entries, SumFunction
<1> QED
  BY <1>5, <1>6, <1>7, <1>8

LEMMA CloseKeeps ==
  ASSUME CryptoInv, NEW h \in Handlers, NEW next \in {"settle", "cancelUpdate"}, Close(h, next)
  PROVE  CryptoInv'
<1>1. req[h] \in Request /\ RequestFit(req[h]) /\ req[h].pc = "close"
      /\ (Bare => players[1].waived)
  BY Mid DEF Close
<1>2. PICK r : r = [req[h] EXCEPT !.pc = next]
  OBVIOUS
<1>3. r \in Request /\ RequestFit(r) /\ r.pc = next
  BY <1>1, <1>2, GoesOn
<1>4. req' = [req EXCEPT ![h] = r] /\ UNCHANGED <<now, duel, players>>
  BY <1>2 DEF Close, Go, Become, db
<1>5. PICK o \in Outcomes :
          /\ Attempt(o, Tracked, room.state = "open")
          /\ IF o.landed
               THEN /\ usdc' = [usdc EXCEPT ![Admin] = @ + Stake * Entries]
                    /\ room' = [room EXCEPT !.state = "closed"]
               ELSE UNCHANGED chain
  BY DEF Close
<1>6. faultsLeft' \in 0..MaxFaults /\ (o.landed => room.state = "open")
  BY <1>5, AttemptType
<1>7. /\ usdc' \in [Users \cup {Admin} -> Nat]
      /\ room' \in [state : {"none", "open", "closed"}, seats : Nat, entries : [Users -> Nat]]
      /\ room'.entries = room.entries
      /\ room'.state = "none" <=> room.state = "none"
  <2>1. CASE o.landed
    <3>1. Stake \in Nat /\ Entries \in Nat
      BY EntriesType, PriceAssumption DEF Stake, Micro
    <3>2. PICK stakes \in Nat : stakes = Stake * Entries
      BY <3>1, Product
    <3>3. usdc' = [usdc EXCEPT ![Admin] = @ + stakes]
      BY <1>5, <2>1, <3>2
    <3>4. usdc' \in [Users \cup {Admin} -> Nat]
      BY <3>3, TypedFields
    <3>5. room' = [room EXCEPT !.state = "closed"]
      BY <1>5, <2>1
    <3> QED
      BY <1>6, <2>1, <3>4, <3>5, TypedFields
  <2>2. CASE ~o.landed
    BY <1>5, <2>2, TypedFields DEF chain
  <2> QED
    BY <2>1, <2>2
<1>8. Aside(h, r)
  BY <1>1, <1>3, <1>4, <1>6, <1>7, TypedFields, SameUsersSame, NoRoomYet
     DEF Aside, Bare, BareFit, WaivedFit
<1> QED
  BY <1>8, AsideKeeps

LEMMA PayKeeps ==
  ASSUME CryptoInv, NEW h \in Handlers, Pay(h)
  PROVE  CryptoInv'
<1>1. req[h] \in Request /\ RequestFit(req[h]) /\ req[h].pc = "pay"
      /\ (Bare => players[1].waived)
  BY Mid DEF Pay
<1>2. PICK chunk : chunk = FirstRows(req[h].due, TransfersPerTransaction)
  OBVIOUS
<1>3. PICK amount : amount = req[h].amount
  OBVIOUS
<1>4. /\ req[h].due \in SUBSET Nat /\ IsFiniteSet(req[h].due) /\ amount \in Nat
      /\ TransfersPerTransaction \in Nat \ {0}
  BY <1>1, <1>3, BatchAssumption DEF Request, RequestFit
<1>5. chunk \in SUBSET req[h].due /\ IsFiniteSet(chunk) /\ Cardinality(chunk) \in Nat
  BY <1>2, <1>4, Chunk
<1>6. PICK total \in Nat : total = amount * Cardinality(chunk)
  BY <1>4, <1>5, Product
<1>7. PICK o \in Outcomes :
         /\ Attempt(o, Untracked, usdc[Admin] >= total)
         /\ usdc' = IF o.landed
                      THEN [w \in DOMAIN usdc |-> IF w = Admin THEN usdc[w] - total
                                                  ELSE usdc[w] + Owed(chunk, w, amount)]
                      ELSE usdc
         /\ players' = [i \in Rows |->
                           IF i \in chunk /\ o # Nothing
                             THEN [players[i] EXCEPT !.sent = @ + 1] ELSE players[i]]
         /\ Become(h, IF o.told THEN ToPay(req[h], req[h].due \ chunk) ELSE Idle)
  BY <1>2, <1>3, <1>6, Zenon DEF Pay
<1>8. faultsLeft' \in 0..MaxFaults /\ (o.landed => usdc[Admin] >= total)
  BY <1>7, TypedFields, ClockAssumption DEF Attempt, Done, Nothing
<1>9. \A w : Owed(chunk, w, amount) \in Nat
  <2> SUFFICES ASSUME NEW w PROVE Owed(chunk, w, amount) \in Nat
    OBVIOUS
  <2>1. PICK n : n = Cardinality({i \in chunk : players[i].user = w})
    OBVIOUS
  <2>2. IsFiniteSet({i \in chunk : players[i].user = w})
    BY <1>5, FS_Subset
  <2>3. n \in Nat
    BY <2>1, <2>2, FS_CardinalityType
  <2>4. Owed(chunk, w, amount) = amount * n
    BY <2>1, Zenon DEF Owed
  <2> QED
    BY <1>4, <2>3, <2>4, Product
<1>10. usdc' \in [Users \cup {Admin} -> Nat]
  <2>1. usdc \in [Users \cup {Admin} -> Nat]
    BY TypedFields
  <2>2. CASE o.landed
    <3>1. usdc' = [w \in Users \cup {Admin} |-> IF w = Admin THEN usdc[w] - total
                                                  ELSE usdc[w] + Owed(chunk, w, amount)]
      BY <1>7, <2>1, <2>2
    <3>2. \A w \in Users \cup {Admin} : usdc[w] + Owed(chunk, w, amount) \in Nat
      BY <1>9, <2>1
    <3>3. usdc[Admin] - total \in Nat
      BY <1>8, <2>1, <2>2
    <3> QED
      BY <3>1, <3>2, <3>3
  <2>3. CASE ~o.landed
    BY <1>7, <2>1, <2>3
  <2> QED
    BY <2>2, <2>3
<1>11. SameUsers(players', players)
  <2>1. players \in Seq(PlayerRow) /\ \A i \in DOMAIN players : players[i] \in PlayerRow
    BY TypedFields, LenProperties
  <2>2. players' \in [DOMAIN players -> PlayerRow]
    <3>1. \A i \in DOMAIN players : [players[i] EXCEPT !.sent = @ + 1] \in PlayerRow
      <4> SUFFICES ASSUME NEW i \in DOMAIN players
                   PROVE  [players[i] EXCEPT !.sent = @ + 1] \in PlayerRow
        OBVIOUS
      <4>1. PICK row \in PlayerRow : row = players[i]
        BY <2>1
      <4>2. [row EXCEPT !.sent = @ + 1] \in PlayerRow
        BY DEF PlayerRow
      <4> QED
        BY <4>1, <4>2
    <3> QED
      BY <1>7, <2>1, <3>1 DEF Rows
  <2>3. \A i \in DOMAIN players : /\ players'[i].user = players[i].user
                                  /\ players[i].waived => players'[i].waived
    BY <1>7, <2>1, Zenon DEF Rows, PlayerRow
  <2> QED
    BY <2>1, <2>2, <2>3, RowsMapped
<1>12. PICK r : r = IF o.told THEN ToPay(req[h], req[h].due \ chunk) ELSE Idle
  OBVIOUS
<1>13. r \in Request /\ RequestFit(r) /\ r.pc \notin {"charge", "record"}
  <2>1. CASE o.told
    <3>1. PICK left : left = req[h].due \ chunk
      OBVIOUS
    <3>2. left \in SUBSET Nat /\ IsFiniteSet(left)
      BY <1>4, <3>1, FS_Subset
    <3>3. PICK pc : pc = IF left = {} THEN req[h].next ELSE "pay"
      OBVIOUS
    <3>4. r = [req[h] EXCEPT !.pc = pc, !.due = left]
      BY <1>12, <2>1, <3>1, <3>3 DEF ToPay
    <3>5. req[h].next \in {"recordRefund", "ownerReward", "close", "idle"}
      BY <1>1 DEF Request
    <3>6. /\ r.pc = pc /\ r.job = req[h].job /\ r.snap = req[h].snap
          /\ r.winners = req[h].winners /\ r.list = req[h].list /\ r.due = left
          /\ r.next = req[h].next
      BY <1>1, <3>4 DEF Request
    <3>7. r \in Request
      BY <1>1, <3>2, <3>3, <3>4, <3>5 DEF Request
    <3>8. RequestFit(r) /\ r.pc \notin {"charge", "record"}
      BY <1>1, <3>2, <3>3, <3>5, <3>6 DEF RequestFit
    <3> QED
      BY <3>7, <3>8
  <2>2. CASE ~o.told
    <3>1. r = Idle
      BY <1>12, <2>2
    <3> QED
      BY <3>1, IdleType, IdleFit, TypedFields DEF Idle
  <2> QED
    BY <2>1, <2>2
<1>14. req' = [req EXCEPT ![h] = r] /\ UNCHANGED <<now, duel, room>>
  BY <1>7, <1>12, Zenon DEF Pay, Become
<1>15. Aside(h, r)
  <2>1. Bare => /\ players'[1].waived /\ Len(players) = 1 /\ duel.playersCount # 0
    BY <1>1, <1>11, NoRoomYet DEF Bare, SameUsers
  <2> QED
    BY <1>8, <1>10, <1>11, <1>13, <1>14, <2>1, TypedFields
       DEF Aside, SameUsers, Bare, BareFit, WaivedFit
<1> QED
  BY <1>15, AsideKeeps

\* a settlement or a cancellation writes rows
LEMMA WritesKeeps ==
  ASSUME CryptoInv, NEW h \in Handlers, req[h].pc # "idle",
         NEW r \in Request, RequestFit(r), r.pc # "record",
         req' = [req EXCEPT ![h] = r],
         UNCHANGED <<now, chain, faultsLeft>>,
         SameUsers(players', players),
         NEW model \in DuelRow, model.playersCount <= Len(players),
         duel' = Update(duel, model) \/ duel' = duel,
         Bare => model.status \in Unplayed \/ players'[1].waived,
         Bare => BareFit(r, players')
  PROVE  CryptoInv'
<1>1. duel \in DuelRow /\ duel.playersCount <= Len(players)
  BY TypedFields
<1>2. /\ duel' \in DuelRow /\ duel'.owner = duel.owner
      /\ duel'.playersCount \in {duel.playersCount, model.playersCount}
      /\ duel.playersCount # 0 => duel'.playersCount # 0
      /\ duel'.status \in {duel.status, model.status}
      /\ duel.status # NoStatus => duel'.status # NoStatus
  BY <1>1, UpdateType DEF NonZero, NoStatus
<1>3. Bare => duel.playersCount # 0 /\ (duel'.status \in Unplayed \/ players'[1].waived)
  BY <1>2, NoRoomYet DEF SameUsers, Bare
<1>4. duel'.playersCount <= Len(players)
  BY <1>1, <1>2
<1>5. Aside(h, r)
  BY <1>2, <1>3, <1>4, TypedFields DEF Aside, Bare, chain, SameUsers
<1> QED
  BY <1>5, AsideKeeps

\* a seat whose stake was waived stays so
LEMMA StillWaived ==
  ASSUME CryptoInv, SameUsers(players', players), Bare, players[1].waived
  PROVE  players'[1].waived
BY NoRoomYet DEF SameUsers, Bare

LEMMA RecordRefundKeeps ==
  ASSUME CryptoInv, NEW h \in Handlers, RecordRefund(h)
  PROVE  CryptoInv'
<1>1. req[h] \in Request /\ RequestFit(req[h]) /\ req[h].pc = "recordRefund"
      /\ (Bare => players[1].waived)
  BY Mid DEF RecordRefund
<1>2. PICK n : n = Cardinality(req[h].list)
  OBVIOUS
<1>3. n \in Nat
  BY <1>1, <1>2, FS_CardinalityType DEF RequestFit
<1>4. req[h].snap \in DuelRow /\ req[h].snap.playersCount <= Len(players)
  BY <1>1 DEF Request, RequestFit
<1>5. PICK model : model = [req[h].snap EXCEPT !.refundedPlayersCount = @ + n]
  OBVIOUS
<1>6. /\ model \in DuelRow /\ model.playersCount = req[h].snap.playersCount
      /\ model.status = req[h].snap.status
  <2>1. PICK snap \in DuelRow : snap = req[h].snap
    BY <1>4
  <2>2. snap.refundedPlayersCount + n \in Nat
    BY <1>3 DEF DuelRow
  <2> QED
    BY <1>5, <2>1, <2>2 DEF DuelRow
<1>7. PICK r : r = [req[h] EXCEPT !.pc = "unpaid", !.snap = model]
  OBVIOUS
<1>8. /\ req' = [req EXCEPT ![h] = r] /\ duel' = Update(duel, model)
      /\ players' = SetStatus(players, req[h].list, PlayerRefunded)
  BY <1>2, <1>5, <1>7, Zenon DEF RecordRefund, Become
<1>9. r \in Request
  BY <1>1, <1>6, <1>7 DEF Request
<1>10. /\ r.pc = "unpaid" /\ r.job = req[h].job /\ r.snap = model /\ r.winners = req[h].winners
       /\ r.list = req[h].list /\ r.due = req[h].due
  BY <1>1, <1>7 DEF Request
<1>11. RequestFit(r)
  BY <1>1, <1>4, <1>6, <1>10 DEF RequestFit
<1>12. SameUsers(players', players)
  BY <1>8, SetStatusType, TypedFields
<1> QED
  <2>1. Bare => players'[1].waived /\ BareFit(r, players')
    BY <1>1, <1>10, <1>12, StillWaived DEF BareFit, WaivedFit
  <2> QED
    BY <1>1, <1>4, <1>6, <1>8, <1>9, <1>10, <1>11, <1>12, <2>1, WritesKeeps DEF RecordRefund

LEMMA SettleKeeps ==
  ASSUME CryptoInv, NEW h \in Handlers, Settle(h)
  PROVE  CryptoInv'
<1>1. req[h] \in Request /\ RequestFit(req[h]) /\ req[h].pc = "settle"
      /\ (Bare => players[1].waived)
  BY Mid DEF Settle
<1>2. PICK n : n = Cardinality(req[h].winners)
  OBVIOUS
<1>3. n \in Nat /\ Resolved \in Statuses
  BY <1>1, <1>2, FS_CardinalityType DEF RequestFit, Resolved, Statuses, NoStatus, Refund
<1>4. req[h].snap \in DuelRow /\ req[h].snap.playersCount <= Len(players)
      /\ req[h].answer \in Answers /\ req[h].amount \in Nat
  BY <1>1 DEF Request, RequestFit
<1>5. PICK model : model = [req[h].snap EXCEPT !.status = Resolved, !.finalResult = req[h].answer,
                                               !.winnersCount = n]
  OBVIOUS
<1>6. model \in DuelRow /\ model.playersCount = req[h].snap.playersCount
  BY <1>3, <1>4, <1>5 DEF DuelRow
<1>7. /\ req' = [req EXCEPT ![h] = Idle] /\ duel' = Update(duel, model)
      /\ players' = UpdateDuelWinners(players, req[h].winners, req[h].amount)
  BY <1>2, <1>5, Zenon DEF Settle, Become
<1>8. SameUsers(players', players)
  BY <1>4, <1>7, UpdateDuelWinnersType, TypedFields
<1>9. Idle \in Request /\ RequestFit(Idle) /\ Idle.pc = "idle"
  BY IdleType, IdleFit, TypedFields DEF Idle
<1> QED
  <2>1. Bare => players'[1].waived /\ BareFit(Idle, players')
    BY <1>1, <1>8, <1>9, StillWaived DEF BareFit
  <2> QED
    BY <1>1, <1>4, <1>6, <1>7, <1>8, <1>9, <2>1, WritesKeeps DEF Settle

LEMMA CancelUpdateKeeps ==
  ASSUME CryptoInv, NEW h \in Handlers, CancelUpdate(h)
  PROVE  CryptoInv'
<1>1. req[h] \in Request /\ RequestFit(req[h]) /\ req[h].pc = "cancelUpdate"
  BY Mid DEF CancelUpdate
<1>2. req[h].snap \in DuelRow /\ req[h].snap.playersCount <= Len(players)
      /\ req[h].target \in Statuses
  BY <1>1 DEF Request, RequestFit
<1>3. PICK model : model = [req[h].snap EXCEPT !.status = req[h].target]
  OBVIOUS
<1>4. /\ model \in DuelRow /\ model.playersCount = req[h].snap.playersCount
      /\ model.status = req[h].target
  BY <1>2, <1>3 DEF DuelRow
<1>5. PICK r : r = [req[h] EXCEPT !.pc = "cancelSeats"]
  OBVIOUS
<1>6. r \in Request /\ RequestFit(r) /\ r.pc = "cancelSeats"
      /\ r.snap = req[h].snap /\ r.target = req[h].target
  BY <1>1, <1>5, GoesOn
<1>7. req' = [req EXCEPT ![h] = r] /\ duel' = Update(duel, model) /\ players' = players
  BY <1>3, <1>5, Zenon DEF CancelUpdate, Go, Become
<1>8. SameUsers(players', players)
  BY <1>7, SameUsersSame, TypedFields
<1>9. Bare => (model.status \in Unplayed \/ players'[1].waived) /\ BareFit(r, players')
  <2>1. Bare => BareFit(req[h], players) /\ players'[1].waived = players[1].waived
    BY <1>7, NoRoomYet DEF Bare
  <2> QED
    BY <1>1, <1>4, <1>6, <2>1 DEF BareFit, ReviewFit, WaivedFit, Unplayed
<1> QED
  BY <1>1, <1>2, <1>4, <1>6, <1>7, <1>8, <1>9, WritesKeeps DEF CancelUpdate

LEMMA CancelSeatsKeeps ==
  ASSUME CryptoInv, NEW h \in Handlers, CancelSeats(h)
  PROVE  CryptoInv'
<1>1. req' = [req EXCEPT ![h] = Idle] /\ duel' = duel
      /\ players' = SetStatus(players, Rows, PlayerRefunded)
  BY Zenon DEF CancelSeats, Become
<1>2. SameUsers(players', players)
  BY <1>1, SetStatusType, TypedFields
<1>3. Idle \in Request /\ RequestFit(Idle) /\ Idle.pc = "idle"
  BY IdleType, IdleFit, TypedFields DEF Idle
<1> QED
  <2>1. duel \in DuelRow /\ duel.playersCount <= Len(players)
    BY TypedFields
  <2>2. Bare => (duel.status \in Unplayed \/ players'[1].waived) /\ BareFit(Idle, players')
    BY <1>2, <1>3, NoRoomYet DEF BareFit, Bare, SameUsers
  <2> QED
    BY <1>1, <1>2, <1>3, <2>1, <2>2, WritesKeeps DEF CancelSeats

\* an approval that has been paid for: the seat was there
LEMMA ApprovalKeeps ==
  ASSUME CryptoInv, NEW h \in Handlers, Record(h), req[h].job = "approve"
  PROVE  CryptoInv'
<1>1. req[h] \in Request /\ RequestFit(req[h]) /\ req[h].pc = "record"
      /\ ~Bare
  BY Mid DEF Record
<1>2. req[h].snap \in DuelRow /\ req[h].snap.playersCount <= Len(players)
      /\ InProcess \in Statuses
  BY <1>1, SMT DEF Request, RequestFit, InProcess, Statuses, NoStatus, Refund
<1>3. PICK model : model = [req[h].snap EXCEPT !.status = InProcess]
  OBVIOUS
<1>4. model \in DuelRow /\ model.playersCount = req[h].snap.playersCount
  BY <1>2, <1>3 DEF DuelRow
<1>5. req' = [req EXCEPT ![h] = Idle] /\ duel' = Update(duel, model) /\ players' = players
  BY <1>3, Zenon DEF Record, Become
<1>6. SameUsers(players', players)
  BY <1>5, SameUsersSame, TypedFields
<1>7. Idle \in Request /\ RequestFit(Idle) /\ Idle.pc = "idle"
  BY IdleType, IdleFit, TypedFields DEF Idle
<1> QED
  BY <1>1, <1>2, <1>4, <1>5, <1>6, <1>7, WritesKeeps DEF Record

\* waiving the stakes adds and drops no seat
LEMMA WaiveType ==
  ASSUME NEW rows \in Seq(PlayerRow)
  PROVE  /\ SameUsers(Waive(rows), rows)
         /\ \A i \in DOMAIN rows : Waive(rows)[i] = [rows[i] EXCEPT !.waived = TRUE]
         /\ \A i \in DOMAIN rows : Waive(rows)[i].waived
<1>1. \A i \in DOMAIN rows : rows[i] \in PlayerRow
  BY LenProperties
<1>2. Waive(rows) \in [DOMAIN rows -> PlayerRow]
  BY <1>1 DEF Waive, PlayerRow
<1>3. \A i \in DOMAIN rows : /\ Waive(rows)[i] = [rows[i] EXCEPT !.waived = TRUE]
                             /\ Waive(rows)[i].user = rows[i].user
                             /\ Waive(rows)[i].waived
  BY <1>1, Zenon DEF Waive, PlayerRow
<1> QED
  BY <1>2, <1>3, RowsMapped

\* an approval on the route for duck duels: without a room the stake is waived
LEMMA PublishKeeps ==
  ASSUME CryptoInv, NEW h \in Handlers, PublishUncharged(h)
  PROVE  CryptoInv'
<1>1. req[h] \in Request /\ RequestFit(req[h]) /\ req[h].pc = "publish"
  BY Mid DEF PublishUncharged
<1>2. req[h].snap \in DuelRow /\ req[h].snap.playersCount <= Len(players)
      /\ InProcess \in Statuses
  BY <1>1, SMT DEF Request, RequestFit, InProcess, Statuses, NoStatus, Refund
<1>3. PICK model : model = [req[h].snap EXCEPT !.status = InProcess]
  OBVIOUS
<1>4. model \in DuelRow /\ model.playersCount = req[h].snap.playersCount
  BY <1>2, <1>3 DEF DuelRow
<1>5. /\ req' = [req EXCEPT ![h] = Idle] /\ duel' = Update(duel, model)
      /\ players' = IF room.state = "none" THEN Waive(players) ELSE players
  BY <1>3, Zenon DEF PublishUncharged, Become
<1>6. SameUsers(players', players)
  BY <1>5, SameUsersSame, WaiveType, TypedFields
<1>7. Idle \in Request /\ RequestFit(Idle) /\ Idle.pc = "idle"
  BY IdleType, IdleFit, TypedFields DEF Idle
<1>8. Bare => players'[1].waived /\ BareFit(Idle, players')
  <2>1. Bare => 1 \in DOMAIN players
    BY NoRoomYet, TypedFields, LenProperties DEF Bare
  <2> QED
    BY <1>5, <1>7, <2>1, WaiveType, TypedFields DEF Bare, BareFit
<1> QED
  BY <1>1, <1>2, <1>4, <1>5, <1>6, <1>7, <1>8, WritesKeeps DEF PublishUncharged

-----------------------------------------------------------------------------
(* Steps that charge and steps that seat *)

\* nobody is refused for what was written elsewhere
LEMMA OthersFit ==
  ASSUME CryptoInv, NEW h \in Handlers, NEW r \in Request, RequestFit(r),
         req' = [req EXCEPT ![h] = r],
         players' \in Seq(PlayerRow), Len(players') >= Len(players),
         duel.status # NoStatus => duel'.status # NoStatus
  PROVE  /\ req' \in [Handlers -> Request] /\ req'[h] = r
         /\ \A g \in Handlers \ {h} : req'[g] = req[g]
         /\ \A g \in Handlers : RequestFit(req[g])'
<1>1. req \in [Handlers -> Request] /\ Len(players) \in Nat /\ Len(players') \in Nat
  BY TypedFields, LenProperties
<1>2. /\ req' \in [Handlers -> Request] /\ req'[h] = r
      /\ \A g \in Handlers \ {h} : req'[g] = req[g]
  BY <1>1
<1>3. \A g \in Handlers : RequestFit(req'[g])
  BY <1>2, TypedFields
<1>4. \A g \in Handlers : RequestFit(req[g])'
  <2> SUFFICES ASSUME NEW g \in Handlers PROVE RequestFit(req[g])'
    OBVIOUS
  <2>1. PICK q : q = req'[g]
    OBVIOUS
  <2>2. RequestFit(q) /\ q.snap.playersCount \in Nat
    BY <1>2, <1>3, <2>1 DEF Request, DuelRow
  <2>3. RequestFit(q)'
    BY <1>1, <2>2, FitStays
  <2> QED
    BY <2>1, <2>3 DEF RequestFit
<1> QED
  BY <1>2, <1>4

LEMMA ReviewCreateKeeps ==
  ASSUME CryptoInv, NEW h \in Handlers, NEW u \in Creators, NEW s \in Schedules,
         NEW answer \in Answers, CreateInReview(h, u, s, answer)
  PROVE  CryptoInv'
<1>1. u \in Users /\ now \in Nat
  BY WalletsAssumption, TypedFields
<1>2. /\ duel = NoDuel /\ room = NoRoom /\ \A g \in Handlers : req[g].job # "create"
      /\ UNCHANGED <<now, usdc, room, req, faultsLeft>>
  BY DEF CreateInReview, FreshDuel, chain
<1>3. \A g \in Handlers : req[g].pc = "idle" /\ req[g] = Idle
  <2> SUFFICES ASSUME NEW g \in Handlers PROVE req[g].pc = "idle"
    BY TypedFields DEF RequestFit
  <2>1. RequestFit(req[g]) /\ duel.status = NoStatus
    BY <1>2, TypedFields DEF NoDuel
  <2> QED
    BY <1>2, <2>1 DEF RequestFit
<1>4. PICK row : row = DuelByCreateReq(u, FALSE, s)
  OBVIOUS
<1>5. row \in DuelRow /\ row.playersCount = 0 /\ row.owner = u /\ row.status = InReview
  BY <1>1, <1>4, CreateReqType
<1>6. duel' = SeatTaken(row, row) /\ players' = <<Seat(u, answer, now)>>
  BY <1>4, Zenon DEF CreateInReview
<1>7. /\ duel' \in DuelRow /\ duel'.playersCount = 1 /\ duel'.owner = u /\ duel'.status = InReview
  BY <1>5, <1>6, SeatTakenType
<1>8. PICK seat \in PlayerRow : seat = Seat(u, answer, now) /\ seat.user = u
  BY <1>1, SeatType DEF Seat
<1>9. players' \in Seq(PlayerRow) /\ Len(players') = 1 /\ players'[1].user = u
  BY <1>6, <1>8
<1>10. players = <<>>
  BY <1>2, NoRoomYet DEF NoRoom, NoDuel, Unplayed, NoStatus, InReview, AutoCancelled, AdminCancelled
<1>11. TypeOK'
  BY <1>2, <1>7, <1>9, TypedFields DEF TypeOK
<1>12. \A g \in Handlers : RequestFit(req[g])'
  <2>1. RequestFit(Idle)'
    <3>1. IsFiniteSet({}) /\ Len(players') \in Nat
      BY <1>9, FS_EmptySet
    <3> QED
      BY <3>1 DEF RequestFit, Idle, NoDuel
  <2>2. \A g \in Handlers : req'[g] = Idle
    BY <1>2, <1>3
  <2> QED
    BY <2>1, <2>2 DEF RequestFit
<1>13. StakesIn'
  <2>1. room'.state = "none" /\ \A v \in Users : room'.entries[v] = 0
    BY <1>2 DEF NoRoom
  <2>2. \A g \in Handlers : req'[g].pc = "idle"
    BY <1>2, <1>3
  <2>3. Uncharged'
    BY <1>7, <1>9, <2>2 DEF Uncharged, Unplayed, BareFit
  <2> QED
    BY <2>1, <2>2, <2>3 DEF StakesIn
<1> QED
  BY <1>7, <1>9, <1>11, <1>12, <1>13 DEF CryptoInv

LEMMA ChargeKeeps ==
  ASSUME CryptoInv, NEW h \in Handlers, Charge(h)
  PROVE  CryptoInv'
<1>1. req[h] \in Request /\ RequestFit(req[h]) /\ req[h].pc = "charge"
  BY Mid DEF Charge
<1>2. PICK user \in Users : user = req[h].user
  BY <1>1 DEF RequestFit
<1>3. PICK on : on = [req[h] EXCEPT !.pc = "record"]
  OBVIOUS
<1>4. PICK o \in Outcomes :
          /\ Attempt(o, Tracked, CanEnter(req[h]))
          /\ IF o.landed
               THEN /\ usdc' = [usdc EXCEPT ![user] = @ - Stake]
                    /\ room' = [state |-> "open", seats |-> SeatsAfter(req[h]),
                                entries |-> [room.entries EXCEPT ![user] = @ + 1]]
               ELSE UNCHANGED chain
          /\ req' = [req EXCEPT ![h] = IF o.told THEN on ELSE Idle]
  BY <1>2, <1>3 DEF Charge, Go, Become
<1>5. UNCHANGED <<now, duel, players>>
  BY DEF Charge, db
<1>6. Idle \in Request /\ RequestFit(Idle) /\ Idle.pc = "idle"
  BY IdleType, IdleFit, TypedFields DEF Idle
<1>7. on \in Request /\ RequestFit(on) /\ on.pc = "record" /\ on.job = req[h].job /\ on.user = user
  <2>1. on \in Request
    BY <1>1, <1>3 DEF Request
  <2>2. /\ on.pc = "record" /\ on.job = req[h].job /\ on.user = user /\ on.snap = req[h].snap
        /\ on.winners = req[h].winners /\ on.list = req[h].list /\ on.due = req[h].due
    BY <1>1, <1>2, <1>3 DEF Request
  <2> QED
    BY <1>1, <2>1, <2>2 DEF RequestFit
<1>8. faultsLeft' \in 0..MaxFaults
  BY <1>4, TypedFields, ClockAssumption DEF Attempt
<1>9. CASE ~o.landed
  <2>1. o = Nothing
    BY <1>4, <1>9 DEF Attempt, Tracked, Done, Nothing, Unseen
  <2>2. req' = [req EXCEPT ![h] = Idle] /\ UNCHANGED chain
    BY <1>4, <1>9, <2>1 DEF Nothing
  <2>3. Aside(h, Idle)
    BY <1>5, <1>6, <1>8, <2>2, TypedFields, SameUsersSame, NoRoomYet DEF Aside, BareFit, chain
  <2> QED
    BY <2>3, AsideKeeps
<1>10. CASE o.landed
  <2>1. CanEnter(req[h])
    BY <1>4, <1>10 DEF Attempt, Done, Nothing, Tracked, Unseen
  <2>2. PICK r \in {on, Idle} : req' = [req EXCEPT ![h] = r]
    BY <1>4
  <2>3. r \in Request /\ RequestFit(r)
    BY <1>6, <1>7, <2>2
  <2>4. /\ usdc' = [usdc EXCEPT ![user] = @ - Stake] /\ usdc[user] >= Stake
        /\ room'.state = "open" /\ room'.seats = SeatsAfter(req[h])
        /\ room' = [state |-> "open", seats |-> SeatsAfter(req[h]),
                    entries |-> [room.entries EXCEPT ![user] = @ + 1]]
        /\ room'.entries = [room.entries EXCEPT ![user] = @ + 1]
    BY <1>2, <1>4, <1>10, <2>1 DEF CanEnter
  <2>5. usdc' \in [Users \cup {Admin} -> Nat]
    <3>1. Stake \in Nat /\ usdc \in [Users \cup {Admin} -> Nat]
      BY TypedFields, PriceAssumption DEF Stake, Micro
    <3>2. usdc[user] - Stake \in Nat
      BY <2>4, <3>1
    <3> QED
      BY <2>4, <3>1, <3>2
  <2>6. room'.entries \in [Users -> Nat]
    BY <2>4, TypedFields
  <2>7. SeatsAfter(req[h]) \in Nat
    BY TypedFields, BatchAssumption DEF SeatsAfter
  <2>8. room' \in [state : {"none", "open", "closed"}, seats : Nat, entries : [Users -> Nat]]
    BY <2>4, <2>6, <2>7
  <2>9. /\ req' \in [Handlers -> Request] /\ req'[h] = r
        /\ \A g \in Handlers \ {h} : req'[g] = req[g]
        /\ \A g \in Handlers : RequestFit(req[g])'
    <3>1. /\ players' \in Seq(PlayerRow) /\ Len(players') >= Len(players)
          /\ duel.status # NoStatus => duel'.status # NoStatus
      BY <1>5, TypedFields
    <3> QED
      BY <2>2, <2>3, <3>1, OthersFit, Zenon
  <2>10. TypeOK'
    BY <1>5, <1>8, <2>5, <2>8, <2>9, TypedFields DEF TypeOK
  <2>11. StakesIn'
    <3> SUFFICES ASSUME NEW u \in Users
                 PROVE  /\ IsFiniteSet(Paid(u)')
                        /\ Cardinality(SeatsOf(u)') + Cardinality(Paid(u)') <= room'.entries[u]
      BY <2>4 DEF StakesIn
    <3>1. SeatsOf(u)' = SeatsOf(u)
      BY <1>5 DEF SeatsOf, Rows
    <3>2. PICK seats \in Nat : seats = Cardinality(SeatsOf(u)) /\ seats = Cardinality(SeatsOf(u)')
      BY <3>1, SeatsFinite, TypedFields, Zenon
    <3>3. room'.entries[u] = room.entries[u] + (IF u = user THEN 1 ELSE 0) /\ room.entries[u] \in Nat
      BY <2>4, TypedFields
    <3>4. CASE room.state # "none"
      <4>1. IsFiniteSet(Paid(u)) /\ seats + Cardinality(Paid(u)) <= room.entries[u]
        BY <3>2, <3>4 DEF CryptoInv, StakesIn
      <4>2. h \notin Paid(u)
        BY <1>1 DEF Paid
      <4>3. Paid(u)' \subseteq Paid(u) \cup (IF u = user THEN {h} ELSE {})
        BY <1>6, <1>7, <2>2, <2>9 DEF Paid
      <4>4. PICK most : most = Paid(u) \cup (IF u = user THEN {h} ELSE {})
        OBVIOUS
      <4>5. IsFiniteSet(most) /\ Cardinality(most) = Cardinality(Paid(u)) + (IF u = user THEN 1 ELSE 0)
        <5>1. CASE u = user
          <6>1. most = Paid(u) \cup {h}
            BY <4>4, <5>1
          <6>2. IsFiniteSet(Paid(u) \cup {h}) /\ Cardinality(Paid(u) \cup {h}) = Cardinality(Paid(u)) + 1
            BY <4>1, <4>2, FS_AddElement
          <6> QED
            BY <5>1, <6>1, <6>2
        <5>2. CASE u # user
          <6>1. most = Paid(u)
            BY <4>4, <5>2
          <6>2. Cardinality(Paid(u)) \in Nat
            BY <4>1, FS_CardinalityType
          <6> QED
            BY <4>1, <5>2, <6>1, <6>2
        <5> QED
          BY <5>1, <5>2
      <4>6. IsFiniteSet(Paid(u)') /\ Cardinality(Paid(u)') <= Cardinality(most)
        BY <4>3, <4>4, <4>5, FS_Subset
      <4>7. Cardinality(Paid(u)') \in Nat /\ Cardinality(most) \in Nat /\ Cardinality(Paid(u)) \in Nat
        BY <4>1, <4>5, <4>6, FS_CardinalityType
      <4> QED
        BY <3>2, <3>3, <4>1, <4>5, <4>6, <4>7
    <3>5. CASE room.state = "none"
      <4>1. /\ room.entries[u] = 0 /\ \A g \in Handlers : req[g].pc # "record"
            /\ players = <<>> \/ Uncharged
        BY <3>5 DEF CryptoInv, StakesIn
      <4>2. CASE players = <<>>
        <5>1. SeatsOf(u) = {}
          BY <4>2 DEF SeatsOf, Rows
        <5>2. seats = 0
          BY <3>2, <5>1, FS_EmptySet, Zenon
        <5>3. Paid(u)' \subseteq (IF u = user THEN {h} ELSE {})
          BY <1>6, <1>7, <2>2, <2>9, <4>1 DEF Paid
        <5>4. IsFiniteSet({h}) /\ Cardinality({h}) = 1 /\ IsFiniteSet({}) /\ Cardinality({}) = 0
          BY FS_Singleton, FS_EmptySet
        <5>5. /\ IsFiniteSet(Paid(u)') /\ Cardinality(Paid(u)') \in Nat
              /\ Cardinality(Paid(u)') <= IF u = user THEN 1 ELSE 0
          <6>1. CASE u = user
            <7>1. Paid(u)' \subseteq {h}
              BY <5>3, <6>1
            <7>2. IsFiniteSet(Paid(u)') /\ Cardinality(Paid(u)') <= Cardinality({h})
              BY <5>4, <7>1, FS_Subset
            <7> QED
              BY <5>4, <6>1, <7>2, FS_CardinalityType
          <6>2. CASE u # user
            <7>1. Paid(u)' = {}
              BY <5>3, <6>2
            <7>2. IsFiniteSet(Paid(u)') /\ Cardinality(Paid(u)') = 0
              BY <5>4, <7>1, Zenon
            <7> QED
              BY <6>2, <7>2
          <6> QED
            BY <6>1, <6>2
        <5> QED
          BY <3>2, <3>3, <4>1, <5>2, <5>5
      <4>3. CASE players # <<>>
        <5>1. BareFit(req[h], players) /\ Len(players) = 1 /\ players[1].user = duel.owner
          BY <1>1, <3>5, <4>3, NoRoomYet
        <5>2. req[h].job = "approve" /\ user = players[1].user
          BY <1>1, <1>2, <2>1, <3>5, <5>1
             DEF BareFit, ReviewFit, WaivedFit, Approving, CanEnter, MakesRoom
        <5>3. Paid(u)' = {}
          BY <1>6, <1>7, <2>2, <2>9, <4>1, <5>2 DEF Paid
        <5>4. IsFiniteSet(Paid(u)') /\ Cardinality(Paid(u)') = 0
          BY <5>3, FS_EmptySet, Zenon
        <5>5. SeatsOf(u) = IF u = user THEN {1} ELSE {}
          <6>1. SeatsOf(u) = {i \in 1..Len(players) : players[i].user = u}
            BY SeatsFinite, TypedFields
          <6>2. 1..Len(players) = {1}
            BY <5>1
          <6> QED
            BY <5>2, <6>1, <6>2
        <5>6. Cardinality({1}) = 1 /\ Cardinality({}) = 0
          BY FS_Singleton, FS_EmptySet
        <5>7. seats = IF u = user THEN 1 ELSE 0
          BY <3>2, <5>5, <5>6, Zenon
        <5> QED
          BY <3>2, <3>3, <4>1, <5>4, <5>7
      <4> QED
        BY <4>2, <4>3
    <3> QED
      BY <3>4, <3>5
  <2> QED
    BY <1>5, <2>9, <2>10, <2>11, TypedFields DEF CryptoInv
<1> QED
  BY <1>9, <1>10

LEMMA SeatKeeps ==
  ASSUME CryptoInv, NEW h \in Handlers, Record(h), req[h].job # "approve"
  PROVE  CryptoInv'
<1>1. req[h] \in Request /\ RequestFit(req[h]) /\ req[h].pc = "record"
  BY Mid DEF Record
<1>2. PICK user \in Users : user = req[h].user
  BY <1>1 DEF RequestFit
<1>3. /\ req[h].since \in Nat /\ req[h].answer \in Answers /\ req[h].snap \in DuelRow
      /\ req[h].snap.status # NoStatus /\ req[h].snap.playersCount <= Len(players)
  BY <1>1 DEF Request, RequestFit
<1>4. PICK at \in req[h].since..now : players' = Append(players, Seat(user, req[h].answer, at))
  BY <1>2 DEF Record
<1>5. PICK seat \in PlayerRow : seat = Seat(user, req[h].answer, at) /\ seat.user = user
  <2>1. at \in Nat
    BY <1>3, TypedFields
  <2> QED
    BY <1>3, <2>1, SeatType DEF Seat
<1>6. /\ players \in Seq(PlayerRow) /\ Len(players) \in Nat
      /\ players' = Append(players, seat)
  BY <1>4, <1>5, TypedFields
<1>7. /\ players' \in Seq(PlayerRow) /\ Len(players') = Len(players) + 1
      /\ players'[Len(players) + 1] = seat
      /\ \A i \in 1..Len(players) : players'[i] = players[i]
  BY <1>6, AppendProperties
<1>8. PICK row \in {req[h].snap, duel} : duel' = SeatTaken(row, req[h].snap)
  BY DEF Record
<1>9. row \in DuelRow /\ row.playersCount <= Len(players)
  BY <1>3, <1>8, TypedFields
<1>10. /\ duel' \in DuelRow /\ duel'.playersCount = row.playersCount + 1
       /\ duel'.status = req[h].snap.status
  BY <1>3, <1>8, <1>9, SeatTakenType
<1>11. duel'.playersCount <= Len(players')
  BY <1>6, <1>7, <1>9, <1>10 DEF DuelRow
<1>12. req' = [req EXCEPT ![h] = Idle] /\ UNCHANGED <<now, usdc, room, faultsLeft>>
  BY DEF Record, Become, chain
<1>13. Idle \in Request /\ RequestFit(Idle) /\ Idle.pc = "idle"
  BY IdleType, IdleFit, TypedFields DEF Idle
<1>14. /\ req' \in [Handlers -> Request] /\ req'[h] = Idle
       /\ \A g \in Handlers \ {h} : req'[g] = req[g]
       /\ \A g \in Handlers : RequestFit(req[g])'
  <2>1. /\ players' \in Seq(PlayerRow) /\ Len(players') >= Len(players)
        /\ duel.status # NoStatus => duel'.status # NoStatus
    BY <1>3, <1>6, <1>7, <1>10
  <2>2. req' = [req EXCEPT ![h] = Idle]
    BY <1>12
  <2> QED
    BY <1>13, <2>1, <2>2, OthersFit, Zenon
<1>15. TypeOK'
  BY <1>7, <1>10, <1>12, <1>14, TypedFields DEF TypeOK
<1>16. room.state # "none"
  BY <1>1 DEF CryptoInv, StakesIn
<1>17. StakesIn'
  <2> SUFFICES ASSUME NEW u \in Users
               PROVE  /\ IsFiniteSet(Paid(u)')
                      /\ Cardinality(SeatsOf(u)') + Cardinality(Paid(u)') <= room'.entries[u]
    BY <1>12, <1>16 DEF StakesIn
  <2>1. /\ IsFiniteSet(Paid(u))
        /\ Cardinality(SeatsOf(u)) + Cardinality(Paid(u)) <= room.entries[u]
    BY <1>16 DEF CryptoInv, StakesIn
  <2>2. Paid(u)' = Paid(u) \ {h} /\ (u = user => h \in Paid(u)) /\ (u # user => h \notin Paid(u))
    BY <1>1, <1>2, <1>13, <1>14 DEF Paid
  <2>3. /\ Cardinality(Paid(u)) \in Nat /\ IsFiniteSet(Paid(u) \ {h})
        /\ Cardinality(Paid(u) \ {h}) = Cardinality(Paid(u)) - (IF u = user THEN 1 ELSE 0)
    BY <2>1, <2>2, FS_RemoveElement, FS_CardinalityType
  <2>4. /\ IsFiniteSet(Paid(u)')
        /\ Cardinality(Paid(u)') = Cardinality(Paid(u)) - (IF u = user THEN 1 ELSE 0)
    BY <2>2, <2>3
  <2>5. /\ IsFiniteSet(SeatsOf(u)) /\ Cardinality(SeatsOf(u)) \in Nat
        /\ SeatsOf(u) = {i \in 1..Len(players) : players[i].user = u}
    BY <1>6, SeatsFinite
  <2>6. SeatsOf(u)' = {i \in 1..(Len(players) + 1) : players'[i].user = u}
    <3>1. DOMAIN players' = 1..(Len(players) + 1)
      BY <1>7, LenProperties
    <3> QED
      BY <3>1, Zenon DEF SeatsOf, Rows
  <2>7. SeatsOf(u)' = SeatsOf(u) \cup (IF u = user THEN {Len(players) + 1} ELSE {})
    BY <1>5, <1>6, <1>7, <2>5, <2>6
  <2>8. Len(players) + 1 \notin SeatsOf(u)
    BY <1>6, <2>5
  <2>9. Cardinality(SeatsOf(u)') = Cardinality(SeatsOf(u)) + (IF u = user THEN 1 ELSE 0)
    <3>1. CASE u = user
      <4>1. SeatsOf(u)' = SeatsOf(u) \cup {Len(players) + 1}
        BY <2>7, <3>1
      <4>2. Cardinality(SeatsOf(u) \cup {Len(players) + 1}) = Cardinality(SeatsOf(u)) + 1
        BY <2>5, <2>8, FS_AddElement
      <4> QED
        BY <3>1, <4>1, <4>2
    <3>2. CASE u # user
      <4>1. SeatsOf(u)' = SeatsOf(u)
        BY <2>7, <3>2
      <4>2. Cardinality(SeatsOf(u)') = Cardinality(SeatsOf(u))
        BY <4>1, Zenon
      <4> QED
        BY <2>5, <3>2, <4>2
    <3> QED
      BY <3>1, <3>2
  <2>10. room'.entries[u] = room.entries[u] /\ room.entries[u] \in Nat
    BY <1>12, TypedFields
  <2> QED
    BY <2>1, <2>3, <2>4, <2>5, <2>9, <2>10
<1> QED
  BY <1>11, <1>14, <1>15, <1>17 DEF CryptoInv

-----------------------------------------------------------------------------
(* The theorems *)

LEMMA InitKeeps == Init => CryptoInv
<1> SUFFICES ASSUME Init PROVE CryptoInv
  OBVIOUS
<1>1. TypeOK
  <2>1. now \in 1..Horizon /\ faultsLeft \in 0..MaxFaults
    BY ClockAssumption DEF Init
  <2>2. players \in Seq(PlayerRow)
    BY DEF Init
  <2>3. usdc \in [Users \cup {Admin} -> Nat]
    BY WalletsAssumption DEF Init
  <2>4. room \in [state : {"none", "open", "closed"}, seats : Nat, entries : [Users -> Nat]]
    BY DEF Init, NoRoom
  <2> QED
    BY <2>1, <2>2, <2>3, <2>4, NoDuelType, IdleType DEF Init, TypeOK
<1>2. \A h \in Handlers : RequestFit(req[h])
  BY <1>1, IdleFit DEF Init, TypeOK
<1>3. duel.playersCount <= Len(players)
  BY DEF Init, NoDuel
<1>4. StakesIn
  BY DEF Init, StakesIn, NoRoom, Idle
<1> QED
  BY <1>1, <1>2, <1>3, <1>4 DEF CryptoInv

LEMMA ContinueKeeps ==
  ASSUME CryptoInv, NEW h \in Handlers, Continue(h)
  PROVE  CryptoInv'
<1>1. CASE Charge(h)
  BY <1>1, ChargeKeeps
<1>2. CASE Record(h)
  BY <1>2, SeatKeeps, ApprovalKeeps
<1>7. CASE PublishUncharged(h)
  BY <1>7, PublishKeeps
<1>3. CASE ReadWinners(h) \/ ReadRefunds(h) \/ ReadPlayersToRefund(h) \/ RecordRefund(h)
  BY <1>3, ReadWinnersKeeps, ReadRefundsKeeps, ReadPlayersToRefundKeeps, RecordRefundKeeps
<1>4. CASE ReadUnpaidWinners(h) \/ Pay(h) \/ PayOwner(h) \/ PayReferrer(h)
  BY <1>4, ReadUnpaidWinnersKeeps, PayKeeps, PayRewardsKeep
<1>5. CASE CloseResolved(h) \/ CloseCancelled(h)
  BY <1>5, CloseKeeps DEF CloseResolved, CloseCancelled
<1>6. CASE Settle(h) \/ ReadEverybody(h) \/ CancelUpdate(h) \/ CancelSeats(h)
  BY <1>6, SettleKeeps, ReadEverybodyKeeps, CancelUpdateKeeps, CancelSeatsKeeps
<1> QED
  BY <1>1, <1>2, <1>3, <1>4, <1>5, <1>6, <1>7 DEF Continue

LEMMA NextKeeps == CryptoInv /\ [Next]_vars => CryptoInv'
<1> SUFFICES ASSUME CryptoInv, [Next]_vars PROVE CryptoInv'
  OBVIOUS
<1>1. CASE Tick \/ UNCHANGED vars
  BY <1>1, ClockKeeps
<1>2. ASSUME NEW h \in Handlers, UserRequest(h) PROVE CryptoInv'
  BY <1>2, CreateKeeps, ReviewCreateKeeps, JoinKeeps DEF UserRequest
<1>3. ASSUME NEW h \in Handlers, ModeratorRequest(h) PROVE CryptoInv'
  BY <1>3, CreateAdminKeeps, ApproveKeeps, ApproveDuelKeeps, EditKeeps, ResolvesKeep, CancelsKeep
     DEF ModeratorRequest
<1>4. ASSUME NEW h \in Handlers, CronRun(h) PROVE CryptoInv'
  BY <1>4, ResolvesKeep, CancelsKeep DEF CronRun
<1>5. ASSUME NEW h \in Handlers, Continue(h) \/ Abort(h) PROVE CryptoInv'
  BY <1>5, ContinueKeeps, AbortKeeps
<1> QED
  BY <1>1, <1>2, <1>3, <1>4, <1>5 DEF Next

LEMMA AlwaysInv == Spec => []CryptoInv
BY InitKeeps, NextKeeps, PTL DEF Spec

\* Rows keep to their columns, wallets never go below zero, a room holds what was put
\* in, for any number of users, requests in flight and failures (crypto_duel_service.go,
\* wallet_contract.go).
THEOREM CryptoTypeCorrect == Spec => []TypeOK
<1>1. CryptoInv => TypeOK
  BY DEF CryptoInv
<1> QED
  BY <1>1, AlwaysInv, PTL

\* counted user by user or row by row, it is the same number of seats
LEMMA SeatsByUser ==
  ASSUME NEW rows, NEW S, IsFiniteSet(S), \A i \in S : rows[i].user \in Users
  PROVE  SumFunctionOnSet([u \in Users |-> Cardinality({i \in S : rows[i].user = u})], Users)
           = Cardinality(S)
<1> DEFINE of(T, u) == {i \in T : rows[i].user = u}
           f(T) == [u \in Users |-> Cardinality(of(T, u))]
           Good == {T \in SUBSET S : SumFunctionOnSet(f(T), Users) = Cardinality(T)}
<1>1. IsFiniteSet(Users)
  BY WalletsAssumption
<1>2. \A T \in SUBSET S : /\ IsFiniteSet(T) /\ Cardinality(T) \in Nat
                          /\ \A u : IsFiniteSet(of(T, u)) /\ Cardinality(of(T, u)) \in Nat
  <2> SUFFICES ASSUME NEW T \in SUBSET S
               PROVE  /\ IsFiniteSet(T) /\ Cardinality(T) \in Nat
                      /\ \A u : IsFiniteSet(of(T, u)) /\ Cardinality(of(T, u)) \in Nat
    OBVIOUS
  <2>1. IsFiniteSet(T)
    BY FS_Subset
  <2>2. \A u : of(T, u) \subseteq T
    OBVIOUS
  <2> HIDE DEF of
  <2>3. \A u : IsFiniteSet(of(T, u))
    BY <2>1, <2>2, FS_Subset
  <2> QED
    BY <2>1, <2>3, FS_CardinalityType
<1>3. {} \in Good
  <2>1. \A u \in Users : f({})[u] = 0
    <3>1. \A u : of({}, u) = {}
      OBVIOUS
    <3> HIDE DEF of
    <3> QED
      BY <3>1, FS_EmptySet, Zenon
  <2> HIDE DEF f
  <2>2. SumFunctionOnSet(f({}), Users) = Cardinality(Users) * 0
    BY <1>1, <2>1, SumOfConstant
  <2>3. Cardinality(Users) \in Nat /\ Cardinality({}) = 0
    BY <1>1, FS_CardinalityType, FS_EmptySet
  <2> QED
    BY <2>2, <2>3
<1>4. \A T \in SUBSET S : \A x \in S \ T : T \in Good => T \cup {x} \in Good
  <2> SUFFICES ASSUME NEW T \in SUBSET S, NEW x \in S \ T, T \in Good
               PROVE  SumFunctionOnSet(f(T \cup {x}), Users) = Cardinality(T \cup {x})
    OBVIOUS
  <2>1. PICK v \in Users : v = rows[x].user
    OBVIOUS
  <2>2. PICK U \in SUBSET S : U = T \cup {x}
    OBVIOUS
  <2>3. of(U, v) = of(T, v) \cup {x} /\ x \notin of(T, v)
    BY <2>1, <2>2
  <2>4. \A u \in Users \ {v} : of(U, u) = of(T, u)
    BY <2>1, <2>2
  <2>5. SumFunctionOnSet(f(T), Users) = Cardinality(T)
    OBVIOUS
  <2> HIDE DEF of
  <2>6. Cardinality(of(U, v)) = Cardinality(of(T, v)) + 1
    BY <1>2, <2>3, FS_AddElement
  <2>7. /\ f(U)[v] = f(T)[v] + 1
        /\ \A u \in Users \ {v} : f(U)[u] = f(T)[u]
        /\ \A u \in Users : f(U)[u] \in Int /\ f(T)[u] \in Int
    <3>1. f(U)[v] = f(T)[v] + 1
      BY <2>6
    <3>2. \A u \in Users \ {v} : f(U)[u] = f(T)[u]
      BY <2>4, Zenon
    <3>3. \A u \in Users : f(U)[u] \in Int /\ f(T)[u] \in Int
      BY <1>2
    <3> QED
      BY <3>1, <3>2, <3>3
  <2>8. Cardinality(U) = Cardinality(T) + 1 /\ Cardinality(T) \in Nat
    BY <1>2, <2>2, FS_AddElement
  <2> HIDE DEF f
  <2>9. SumFunctionOnSet(f(U), Users) = SumFunctionOnSet(f(T), Users) + f(U)[v] - f(T)[v]
    BY <1>1, <2>7, SumOfChanged DEF IntOn
  <2>10. f(T)[v] \in Int
    BY <2>7
  <2> QED
    BY <2>2, <2>5, <2>7, <2>8, <2>9, <2>10
<1>5. \A T \in SUBSET S : T \in Good
  <2> HIDE DEF Good
  <2> QED
    BY <1>3, <1>4, SetInduction
<1>6. S \in Good
  BY <1>5
<1> QED
  BY <1>6

\* in a room: every seat has its stake
LEMMA RoomPaysSeats ==
  ASSUME CryptoInv, room.state # "none" \/ players = <<>>
  PROVE  /\ \A u \in Users : Cardinality(SeatsOf(u)) <= room.entries[u]
         /\ duel.playersCount <= Entries
<1>1. ASSUME NEW u \in Users PROVE Cardinality(SeatsOf(u)) <= room.entries[u]
  <2>1. /\ IsFiniteSet(SeatsOf(u)) /\ Cardinality(SeatsOf(u)) \in Nat /\ room.entries[u] \in Nat
    BY SeatsFinite, TypedFields
  <2>2. CASE room.state # "none"
    <3>1. IsFiniteSet(Paid(u)) /\ Cardinality(SeatsOf(u)) + Cardinality(Paid(u)) <= room.entries[u]
      BY <2>2 DEF CryptoInv, StakesIn
    <3>2. Cardinality(Paid(u)) \in Nat
      BY <3>1, FS_CardinalityType
    <3> QED
      BY <2>1, <3>1, <3>2
  <2>3. CASE room.state = "none"
    <3>1. players = <<>>
      BY <2>3
    <3>2. SeatsOf(u) = {}
      BY <3>1 DEF SeatsOf, Rows
    <3>3. Cardinality(SeatsOf(u)) = 0
      BY <3>2, FS_EmptySet, Zenon
    <3> QED
      BY <2>1, <3>3
  <2> QED
    BY <2>2, <2>3
<1>2. duel.playersCount <= Entries
  <2> DEFINE seats == [u \in Users |-> Cardinality({i \in 1..Len(players) : players[i].user = u})]
  <2>1. IsFiniteSet(Users) /\ room.entries \in [Users -> Nat] /\ duel.playersCount \in Nat
    BY WalletsAssumption, TypedFields DEF DuelRow
  <2>2. /\ IsFiniteSet(1..Len(players)) /\ Cardinality(1..Len(players)) = Len(players)
    <3>1. Len(players) \in Nat
      BY TypedFields
    <3>2. Cardinality(1..Len(players)) = IF 1 > Len(players) THEN 0 ELSE Len(players) - 1 + 1
      BY <3>1, FS_Interval
    <3>3. IsFiniteSet(1..Len(players))
      BY <3>1, FS_Interval
    <3> QED
      BY <3>1, <3>2, <3>3
  <2>3. \A i \in 1..Len(players) : players[i].user \in Users
    <3>1. \A i \in 1..Len(players) : players[i] \in PlayerRow
      BY TypedFields, LenProperties
    <3> QED
      BY <3>1 DEF PlayerRow
  <2>4. SumFunctionOnSet(seats, Users) = Cardinality(1..Len(players))
    BY <2>2, <2>3, SeatsByUser, Zenon
  <2>5. \A u \in Users : /\ seats[u] = Cardinality(SeatsOf(u)) /\ seats[u] \in Int
                        /\ seats[u] <= room.entries[u] /\ room.entries[u] \in Int
    <3> SUFFICES ASSUME NEW u \in Users
                 PROVE  /\ seats[u] = Cardinality(SeatsOf(u)) /\ seats[u] \in Int
                        /\ seats[u] <= room.entries[u] /\ room.entries[u] \in Int
      OBVIOUS
    <3>1. SeatsOf(u) = {i \in 1..Len(players) : players[i].user = u}
      BY SeatsFinite, TypedFields
    <3>2. seats[u] = Cardinality(SeatsOf(u))
      BY <3>1, Zenon
    <3>3. Cardinality(SeatsOf(u)) \in Nat /\ Cardinality(SeatsOf(u)) <= room.entries[u]
      BY <1>1, SeatsFinite, TypedFields
    <3> HIDE DEF seats
    <3> QED
      BY <2>1, <3>2, <3>3
  <2>6. PICK f : f = room.entries
    OBVIOUS
  <2> HIDE DEF seats
  <2>7. SumFunctionOnSet(seats, Users) <= SumFunctionOnSet(f, Users)
    BY <2>1, <2>5, <2>6, SumMonotonic DEF IntOn
  <2>8. Entries = SumFunctionOnSet(f, Users)
    <3>1. DOMAIN f = Users
      BY <2>1, <2>6
    <3> QED
      BY <2>6, <3>1, Zenon DEF Entries, SumFunction
  <2>9. duel.playersCount <= Len(players) /\ Len(players) \in Nat /\ Entries \in Nat
    BY TypedFields, EntriesType
  <2> QED
    BY <2>1, <2>2, <2>4, <2>7, <2>8, <2>9
<1> QED
  BY <1>1, <1>2

\* without a room: the one seat of a duel that plays is a waived one
LEMMA WaivedIs ==
  ASSUME CryptoInv, Bare
  PROVE  /\ Rows = {1} /\ players[1].user = duel.owner /\ Entries = 0
         /\ duel.status \notin Unplayed => WaivedSeats = {1}
         /\ duel.playersCount <= 1
<1>1. /\ duel.status \in Unplayed \/ players[1].waived
      /\ Len(players) = 1 /\ players[1].user = duel.owner
      /\ \A u \in Users : room.entries[u] = 0
  BY NoRoomYet DEF Bare
<1>2. Rows = {1}
  <2>1. Rows = 1..1
    BY <1>1, TypedFields, LenProperties DEF Rows
  <2> QED
    BY <2>1
<1>3. Entries = 0
  <2>1. PICK f : f = room.entries
    OBVIOUS
  <2>2. IsFiniteSet(Users) /\ f \in [Users -> Nat] /\ Cardinality(Users) \in Nat
    BY <2>1, WalletsAssumption, TypedFields, FS_CardinalityType
  <2>3. f = [u \in Users |-> 0]
    BY <1>1, <2>1, <2>2
  <2>4. SumFunctionOnSet(f, Users) = Cardinality(Users) * 0
    BY <2>2, <2>3, SumOfConstant
  <2>5. DOMAIN f = Users
    BY <2>2
  <2>6. Entries = SumFunctionOnSet(f, Users)
    BY <2>1, <2>5, Zenon DEF Entries, SumFunction
  <2> QED
    BY <2>2, <2>4, <2>6
<1>4. duel.playersCount <= 1
  BY <1>1, TypedFields
<1> QED
  BY <1>1, <1>2, <1>3, <1>4 DEF WaivedSeats, Bare

LEMMA InvPaysSeats == CryptoInv => SeatsArePaid
<1> SUFFICES ASSUME CryptoInv PROVE SeatsArePaid
  OBVIOUS
<1>1. CASE Bare
  <2>1. /\ Rows = {1} /\ players[1].user = duel.owner /\ Entries = 0
        /\ duel.status \notin Unplayed => WaivedSeats = {1}
        /\ duel.playersCount <= 1
    BY <1>1, WaivedIs
  <2>2. Cardinality({}) = 0 /\ Cardinality({1}) = 1
    BY FS_EmptySet, FS_Singleton
  <2>3. ASSUME duel.status \in {InProcess, Resolved, Refund}
        PROVE  WaivedSeats = {1}
    BY <2>1, <2>3
       DEF Unplayed, InReview, AutoCancelled, AdminCancelled, InProcess, Resolved, Refund
  <2>4. NoFreeSeat
    <3> SUFFICES ASSUME duel.status \in {InProcess, Resolved, Refund}, NEW u \in Users
                 PROVE  Cardinality(SeatsOf(u) \ WaivedSeats) <= room.entries[u]
      BY DEF NoFreeSeat
    <3>1. SeatsOf(u) \ WaivedSeats = {}
      BY <2>1, <2>3 DEF SeatsOf
    <3>2. room.entries[u] = 0
      BY <1>1, NoRoomYet DEF Bare
    <3> QED
      BY <2>2, <3>1, <3>2
  <2>5. CountWithinDeposits
    <3> SUFFICES ASSUME duel.status \in {InProcess, Resolved, Refund}
                 PROVE  duel.playersCount <= Entries + Cardinality(WaivedSeats)
      BY DEF CountWithinDeposits
    <3>1. Cardinality(WaivedSeats) = 1
      BY <2>2, <2>3, Zenon
    <3>2. duel.playersCount <= 1 /\ Entries = 0
      BY <2>1
    <3> HIDE DEF WaivedSeats
    <3> QED
      BY <3>1, <3>2
  <2> QED
    BY <2>1, <2>4, <2>5 DEF SeatsArePaid, WaivedSitsAlone
<1>2. CASE ~Bare
  <2>1. WaivedSeats = {}
    BY <1>2 DEF WaivedSeats, Bare, Rows
  <2>2. \A u : SeatsOf(u) \ WaivedSeats = SeatsOf(u)
    BY <2>1
  <2>3. Cardinality(WaivedSeats) = 0
    BY <2>1, FS_EmptySet, Zenon
  <2>4. /\ \A u \in Users : Cardinality(SeatsOf(u)) <= room.entries[u]
        /\ duel.playersCount <= Entries
    BY <1>2, RoomPaysSeats DEF Bare
  <2>5. NoFreeSeat
    BY <2>2, <2>4, Zenon DEF NoFreeSeat
  <2>6. CountWithinDeposits
    BY <2>3, <2>4, EntriesType DEF CountWithinDeposits
  <2> QED
    BY <2>1, <2>5, <2>6 DEF SeatsArePaid, WaivedSitsAlone
<1> QED
  BY <1>1, <1>2

\* Nobody sits for free but the owner of a crypto duel approved on the route for duck
\* duels, and then nobody else sits; players_count counts no stake that is not in the
\* room but that one, whatever fails and however requests interleave
\* (crypto_duel_service.go: the charge comes before the row, the approval's before the
\* status; duel_service.go, ApproveDuel: no charge).
THEOREM EverySeatIsPaid == Spec => []SeatsArePaid
BY AlwaysInv, InvPaysSeats, PTL
=============================================================================
