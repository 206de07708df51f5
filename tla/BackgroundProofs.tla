-------------------------- MODULE BackgroundProofs --------------------------
(***************************************************************************)
(* What runs behind the requests: the verdicts of the tracker, for any     *)
(* number of transactions, forks of the chain and deaths of the process;   *)
(* the priority fees, for any number of overlapping runs; the questions,   *)
(* for any number of persons, moderators and requests; the lists of        *)
(* tokens, for any number of users and mints; and the types of all four.   *)
(***************************************************************************)
EXTENDS MCBackground, FiniteSetTheorems, TLAPS

-----------------------------------------------------------------------------
(***************************************************************************)
(* A verdict of the tracker holds.                                         *)
(*                                                                         *)
(* What a sender is told was in the map, what is in the map was in an      *)
(* answer, and a confirmed status in an answer cannot change after it was  *)
(* given: an answer may be old, but not wrong.  That the map is written    *)
(* once per signature needs where signatures are: every one is subscribed  *)
(* once, into the list, moves from there to the loop and from there to the *)
(* map or back.                                                            *)
(***************************************************************************)
CallerStates ==
    {"new", "subscribing", "waiting", "polling", "foundTrue", "foundFalse",
     "toldTrue", "toldFalse", "timedOut", "died"}

SigTyped ==
    /\ pending \in Seq(Sigs)
    /\ DOMAIN verdict \subseteq Sigs /\ verdict \in [DOMAIN verdict -> BOOLEAN]
    /\ locked \in BOOLEAN
    /\ loop \in [pc : {"rest", "asked", "judge"}, asked : Seq(Sigs),
                 answer : Seq(ChainStatus), kept : Seq(Sigs)]
    /\ caller \in [Sigs -> CallerStates]
    /\ onChain \in [Sigs -> ChainStatus]

\* what the loop holds in each of its places; while it asks, nobody touches the list
LoopShape ==
    /\ locked = (loop.pc = "asked")
    /\ loop.pc = "judge" => Len(loop.answer) = Len(loop.asked)
    /\ loop.pc = "asked" => loop.asked = pending /\ loop.kept = <<>>
    /\ loop.pc = "rest" => loop.asked = <<>> /\ loop.kept = <<>>

\* a confirmed status in an answer is still the transaction's
AnswerStands ==
    loop.pc = "judge" =>
       \A i \in 1..Len(loop.answer) :
          loop.answer[i].level = "confirmed" => onChain[loop.asked[i]] = loop.answer[i]

Succeeded == [level |-> "confirmed", err |-> FALSE]

\* so is what the map says of a success, and what was read from it
VerdictStands ==
    /\ \A s \in DOMAIN verdict : verdict[s] => onChain[s] = Succeeded
    /\ \A s \in Sigs : caller[s] \in {"foundTrue", "toldTrue"} => onChain[s] = Succeeded

Distinct(q) == \A i, j \in 1..Len(q) : q[i] = q[j] => i = j
Among(q, s) == \E i \in 1..Len(q) : q[i] = s
Apart(p, q) == \A i \in 1..Len(p), j \in 1..Len(q) : p[i] # q[j]

\* a signature is in one place, in no other twice, and nowhere before it is subscribed
Places ==
    /\ Distinct(pending) /\ Distinct(loop.asked) /\ Distinct(loop.kept)
    /\ Apart(loop.asked, loop.kept)
    /\ loop.pc # "asked" => Apart(pending, loop.asked) /\ Apart(pending, loop.kept)
    /\ \A s \in Sigs : Among(pending, s) \/ Among(loop.asked, s) \/ Among(loop.kept, s) =>
          s \notin DOMAIN verdict /\ caller[s] \notin {"new", "subscribing"}
    /\ \A s \in DOMAIN verdict : caller[s] \notin {"new", "subscribing"}

TrackerInv == SigTyped /\ LoopShape /\ AnswerStands /\ VerdictStands /\ Places

-----------------------------------------------------------------------------
(* Sequences *)

LEMMA AmongAppend ==
  ASSUME NEW q \in Seq(Sigs), NEW s \in Sigs, NEW t \in Sigs
  PROVE  Among(Append(q, s), t) <=> Among(q, t) \/ t = s
<1>1. Len(Append(q, s)) = Len(q) + 1 /\ Len(q) \in Nat
  OBVIOUS
<1>2. Append(q, s)[Len(q) + 1] = s /\ \A i \in 1..Len(q) : Append(q, s)[i] = q[i]
  OBVIOUS
<1>3. \A i \in 1..(Len(q) + 1) : i \in 1..Len(q) \/ i = Len(q) + 1
  BY <1>1
<1> QED
  BY <1>1, <1>2, <1>3 DEF Among

LEMMA DistinctAppend ==
  ASSUME NEW q \in Seq(Sigs), NEW s \in Sigs, Distinct(q), ~Among(q, s)
  PROVE  Distinct(Append(q, s))
<1>1. Len(Append(q, s)) = Len(q) + 1 /\ Len(q) \in Nat
  OBVIOUS
<1>2. Append(q, s)[Len(q) + 1] = s /\ \A i \in 1..Len(q) : Append(q, s)[i] = q[i]
  OBVIOUS
<1>3. \A i \in 1..(Len(q) + 1) : i \in 1..Len(q) \/ i = Len(q) + 1
  BY <1>1
<1> QED
  BY <1>1, <1>2, <1>3 DEF Distinct, Among

LEMMA AmongTail ==
  ASSUME NEW q \in Seq(Sigs), q # <<>>, Distinct(q), NEW t \in Sigs
  PROVE  /\ Tail(q) \in Seq(Sigs) /\ Head(q) \in Sigs /\ Distinct(Tail(q))
         /\ Among(Tail(q), t) <=> Among(q, t) /\ t # Head(q)
         /\ Among(q, Head(q))
<1>1. /\ Tail(q) \in Seq(Sigs) /\ Head(q) \in Sigs /\ Head(q) = q[1]
      /\ Len(q) \in Nat /\ Len(q) > 0 /\ Len(Tail(q)) = Len(q) - 1
  OBVIOUS
<1>2. \A i \in 1..Len(Tail(q)) : Tail(q)[i] = q[i + 1] /\ i + 1 \in 1..Len(q)
  BY <1>1
<1>3. Distinct(Tail(q))
  BY <1>1, <1>2 DEF Distinct
<1>4. \A i \in 1..Len(q) : i = 1 \/ (i - 1 \in 1..Len(Tail(q)) /\ q[i] = Tail(q)[i - 1])
  BY <1>1, <1>2
<1>5. Among(Tail(q), t) => Among(q, t) /\ t # Head(q)
  BY <1>1, <1>2 DEF Among, Distinct
<1>6. Among(q, t) /\ t # Head(q) => Among(Tail(q), t)
  BY <1>1, <1>4 DEF Among
<1> QED
  BY <1>1, <1>3, <1>5, <1>6 DEF Among

LEMMA ApartAmong ==
  ASSUME NEW p \in Seq(Sigs), NEW q \in Seq(Sigs)
  PROVE  Apart(p, q) <=> \A s \in Sigs : ~(Among(p, s) /\ Among(q, s))
<1>1. \A i \in 1..Len(p) : p[i] \in Sigs
  OBVIOUS
<1> QED
  BY <1>1 DEF Apart, Among

LEMMA EmptySequence ==
  /\ <<>> \in Seq(Sigs) /\ Distinct(<<>>)
  /\ \A s \in Sigs : ~Among(<<>>, s)
  /\ \A q \in Seq(Sigs) : Apart(<<>>, q) /\ Apart(q, <<>>)
<1>1. Len(<<>>) = 0 /\ <<>> \in Seq(Sigs)
  OBVIOUS
<1>2. 1..0 = {}
  OBVIOUS
<1> QED
  BY <1>1, <1>2 DEF Distinct, Among, Apart

\* places, told by membership
PlacesByMember ==
    /\ Distinct(pending) /\ Distinct(loop.asked) /\ Distinct(loop.kept)
    /\ \A s \in Sigs :
          /\ ~(Among(loop.asked, s) /\ Among(loop.kept, s))
          /\ loop.pc # "asked" => ~(Among(pending, s) /\ (Among(loop.asked, s) \/ Among(loop.kept, s)))
          /\ Among(pending, s) \/ Among(loop.asked, s) \/ Among(loop.kept, s) =>
                s \notin DOMAIN verdict /\ caller[s] \notin {"new", "subscribing"}
          /\ s \in DOMAIN verdict => caller[s] \notin {"new", "subscribing"}

LEMMA PlacesMembers ==
  ASSUME SigTyped PROVE Places <=> PlacesByMember
<1>1. /\ pending \in Seq(Sigs) /\ loop.asked \in Seq(Sigs) /\ loop.kept \in Seq(Sigs)
      /\ DOMAIN verdict \subseteq Sigs
  BY DEF SigTyped
<1>2. /\ Apart(loop.asked, loop.kept) <=> \A s \in Sigs : ~(Among(loop.asked, s) /\ Among(loop.kept, s))
      /\ Apart(pending, loop.asked) <=> \A s \in Sigs : ~(Among(pending, s) /\ Among(loop.asked, s))
      /\ Apart(pending, loop.kept) <=> \A s \in Sigs : ~(Among(pending, s) /\ Among(loop.kept, s))
  BY <1>1, ApartAmong
<1> QED
  BY <1>1, <1>2, Zenon DEF Places, PlacesByMember
-----------------------------------------------------------------------------
(* Initially *)

LEMMA InitTracker == Init => TrackerInv
<1> SUFFICES ASSUME Init PROVE TrackerInv
  OBVIOUS
<1>1. /\ pending = <<>> /\ verdict = <<>> /\ locked = FALSE
      /\ loop.pc = "rest" /\ loop.asked = <<>> /\ loop.kept = <<>>
      /\ caller = [s \in Sigs |-> "new"] /\ onChain = [s \in Sigs |-> Unknown]
  BY DEF Init, Resting
<1>2. Unknown \in ChainStatus
  BY DEF Unknown, ChainStatus
<1>3. DOMAIN verdict = {}
  BY <1>1
<1>4. /\ <<>> \in Seq(Sigs) /\ <<>> \in Seq(ChainStatus)
  OBVIOUS
<1>5. loop \in [pc : {"rest", "asked", "judge"}, asked : Seq(Sigs), answer : Seq(ChainStatus), kept : Seq(Sigs)]
  BY <1>4 DEF Init, Resting
<1>6. SigTyped
  <2>1. <<>> \in Seq(BOOLEAN) /\ Len(<<>>) = 0
    OBVIOUS
  <2>2. verdict \in [DOMAIN verdict -> BOOLEAN]
    BY <1>1, <2>1
  <2>3. caller \in [Sigs -> CallerStates]
    BY <1>1 DEF CallerStates
  <2>4. onChain \in [Sigs -> ChainStatus]
    BY <1>1, <1>2
  <2> QED
    BY <1>1, <1>3, <1>4, <1>5, <2>2, <2>3, <2>4 DEF SigTyped
<1>7. LoopShape /\ AnswerStands
  BY <1>1 DEF LoopShape, AnswerStands
<1>8. VerdictStands
  BY <1>1, <1>3 DEF VerdictStands
<1>9. PlacesByMember
  BY <1>1, <1>3, EmptySequence DEF PlacesByMember
<1> QED
  BY <1>6, <1>7, <1>8, <1>9, PlacesMembers DEF TrackerInv

-----------------------------------------------------------------------------
(* The chain *)

\* what is confirmed stays, so nothing that stands on it falls
LEMMA ChainKeepsIInv ==
  ASSUME TrackerInv, NEW s \in Sigs, NEW status \in ChainStatus,
         onChain[s].level # "confirmed", onChain' = [onChain EXCEPT ![s] = status],
         UNCHANGED <<pending, verdict, locked, loop, caller>>
  PROVE  TrackerInv'
<1>1. SigTyped /\ LoopShape /\ AnswerStands /\ VerdictStands /\ Places
  BY DEF TrackerInv
<1>2. \A t \in Sigs : onChain[t].level = "confirmed" => onChain'[t] = onChain[t]
  BY <1>1 DEF SigTyped
<1>3. SigTyped'
  BY <1>1 DEF SigTyped
<1>4. LoopShape' /\ Places'
  BY <1>1 DEF LoopShape, Places
<1>5. AnswerStands'
  <2> SUFFICES ASSUME loop.pc = "judge", NEW i \in 1..Len(loop.answer), loop.answer[i].level = "confirmed"
               PROVE  onChain'[loop.asked[i]] = loop.answer[i]
    BY DEF AnswerStands
  <2>1. onChain[loop.asked[i]] = loop.answer[i]
    BY <1>1 DEF AnswerStands
  <2>2. loop.asked[i] \in Sigs
    BY <1>1 DEF SigTyped, LoopShape
  <2> QED
    BY <1>2, <2>1, <2>2
<1>6. VerdictStands'
  <2>1. Succeeded.level = "confirmed"
    BY DEF Succeeded
  <2> QED
    BY <1>1, <1>2, <2>1 DEF VerdictStands, SigTyped
<1> QED
  BY <1>3, <1>4, <1>5, <1>6 DEF TrackerInv

LEMMA IncludeConfirmForkKeepIInv ==
  ASSUME TrackerInv, NEW s \in Sigs,
         (\E err \in BOOLEAN : Include(s, err)) \/ Confirm(s) \/ ForkAway(s)
  PROVE  TrackerInv'
<1>1. onChain \in [Sigs -> ChainStatus]
  BY DEF TrackerInv, SigTyped
<1>2. ASSUME NEW err \in BOOLEAN, Include(s, err)
      PROVE  TrackerInv'
  <2>1. [level |-> "processed", err |-> err] \in ChainStatus
    BY DEF ChainStatus
  <2>2. onChain[s].level # "confirmed"
    BY <1>2 DEF Include, Unknown
  <2> QED
    BY <1>2, <2>1, <2>2, ChainKeepsIInv DEF Include
<1>3. CASE Confirm(s)
  <2> DEFINE status == [onChain[s] EXCEPT !["level"] = "confirmed"]
  <2>1. onChain' = [onChain EXCEPT ![s] = status] /\ status \in ChainStatus
    BY <1>1, <1>3 DEF Confirm, ChainStatus
  <2>2. onChain[s].level # "confirmed"
    BY <1>3 DEF Confirm
  <2> HIDE DEF status
  <2> QED
    BY <1>3, <2>1, <2>2, ChainKeepsIInv DEF Confirm
<1>4. CASE ForkAway(s)
  <2>1. Unknown \in ChainStatus
    BY DEF Unknown, ChainStatus
  <2>2. onChain[s].level # "confirmed"
    BY <1>4 DEF ForkAway
  <2> QED
    BY <1>4, <2>1, <2>2, ChainKeepsIInv DEF ForkAway
<1> QED
  BY <1>2, <1>3, <1>4

-----------------------------------------------------------------------------
(* The senders *)

\* A sender that moves on, holding nothing it should not: subscribed it stays, and it
\* finds a success only where the map has one.
LEMMA CallerKeepsIInv ==
  ASSUME TrackerInv, NEW s \in Sigs, NEW to \in CallerStates,
         caller' = [caller EXCEPT ![s] = to],
         to \in {"new", "subscribing"} => caller[s] \in {"new", "subscribing"},
         to \in {"foundTrue", "toldTrue"} => onChain[s] = Succeeded,
         UNCHANGED <<pending, verdict, locked, loop, onChain>>
  PROVE  TrackerInv'
<1>1. SigTyped /\ LoopShape /\ AnswerStands /\ VerdictStands /\ PlacesByMember
  BY PlacesMembers DEF TrackerInv
<1>2. /\ \A t \in Sigs \ {s} : caller'[t] = caller[t]
      /\ caller'[s] = to
  BY <1>1 DEF SigTyped
<1>3. SigTyped'
  BY <1>1 DEF SigTyped, CallerStates
<1>4. LoopShape' /\ AnswerStands'
  BY <1>1 DEF LoopShape, AnswerStands
<1>5. VerdictStands'
  BY <1>1, <1>2 DEF VerdictStands
<1>6. \A t \in Sigs : caller'[t] \in {"new", "subscribing"} => caller[t] \in {"new", "subscribing"}
  BY <1>2
<1>7. PlacesByMember'
  BY <1>1, <1>6 DEF PlacesByMember
<1> QED
  BY <1>3, <1>4, <1>5, <1>7, PlacesMembers, PTL DEF TrackerInv
LEMMA SenderKeepsIInv ==
  ASSUME TrackerInv, NEW s \in Sigs, Send(s) \/ TickerFires(s) \/ Poll(s) \/ Timeout(s)
  PROVE  TrackerInv'
<1>1. /\ DOMAIN verdict \subseteq Sigs /\ verdict \in [DOMAIN verdict -> BOOLEAN]
      /\ \A t \in DOMAIN verdict : verdict[t] => onChain[t] = Succeeded
  BY DEF TrackerInv, SigTyped, VerdictStands
<1>2. CASE Send(s)
  <2>1. "subscribing" \in CallerStates
    BY DEF CallerStates
  <2> QED
    BY <1>2, <2>1, CallerKeepsIInv DEF Send, Move
<1>3. CASE TickerFires(s)
  <2>1. "polling" \in CallerStates
    BY DEF CallerStates
  <2> QED
    BY <1>3, <2>1, CallerKeepsIInv DEF TickerFires, Move
<1>4. CASE Timeout(s)
  <2>1. "timedOut" \in CallerStates
    BY DEF CallerStates
  <2> QED
    BY <1>4, <2>1, CallerKeepsIInv DEF Timeout, Move
<1>5. CASE Poll(s)
  <2> DEFINE to == IF s \notin DOMAIN verdict THEN "waiting"
                   ELSE IF verdict[s] THEN "foundTrue" ELSE "foundFalse"
  <2>1. to \in CallerStates /\ to \notin {"new", "subscribing", "toldTrue"}
    BY DEF CallerStates
  <2>2. to = "foundTrue" => onChain[s] = Succeeded
    BY <1>1
  <2>3. /\ caller' = [caller EXCEPT ![s] = to]
        /\ UNCHANGED <<pending, verdict, locked, loop, onChain>>
    BY <1>5 DEF Poll, Move
  <2> HIDE DEF to
  <2> QED
    BY <2>1, <2>2, <2>3, CallerKeepsIInv
<1> QED
  BY <1>2, <1>3, <1>4, <1>5

\* a sender subscribes once: its signature is in no other place
LEMMA SubscribeKeepsIInv ==
  ASSUME TrackerInv, NEW s \in Sigs, Subscribe(s)
  PROVE  TrackerInv'
<1>1. SigTyped /\ LoopShape /\ AnswerStands /\ VerdictStands /\ PlacesByMember
  BY PlacesMembers DEF TrackerInv
<1>2. /\ ~locked /\ caller[s] = "subscribing" /\ caller' = [caller EXCEPT ![s] = "waiting"]
      /\ pending' = Append(pending, s)
      /\ UNCHANGED <<verdict, locked, loop, onChain>>
  BY DEF Subscribe, Move
<1>3. /\ \A t \in Sigs \ {s} : caller'[t] = caller[t]
      /\ caller'[s] = "waiting"
  BY <1>1, <1>2 DEF SigTyped
<1>4. loop.pc # "asked"
  BY <1>1, <1>2 DEF LoopShape
<1>5. /\ ~Among(pending, s) /\ ~Among(loop.asked, s) /\ ~Among(loop.kept, s)
      /\ s \notin DOMAIN verdict
  BY <1>1, <1>2 DEF PlacesByMember
<1>6. SigTyped'
  <2>1. "waiting" \in CallerStates
    BY DEF CallerStates
  <2>2. pending' \in Seq(Sigs)
    BY <1>1, <1>2 DEF SigTyped
  <2> QED
    BY <1>1, <1>2, <2>1, <2>2 DEF SigTyped
<1>7. LoopShape' /\ AnswerStands'
  BY <1>1, <1>2, <1>4 DEF LoopShape, AnswerStands
<1>8. VerdictStands'
  BY <1>1, <1>2, <1>3 DEF VerdictStands
<1>9. PlacesByMember'
  <2>1. pending \in Seq(Sigs)
    BY <1>1 DEF SigTyped
  <2>2. Distinct(pending')
    BY <1>1, <1>2, <1>5, <2>1, DistinctAppend DEF PlacesByMember
  <2>3. \A t \in Sigs : Among(pending', t) <=> Among(pending, t) \/ t = s
    BY <1>2, <2>1, AmongAppend
  <2> QED
    BY <1>1, <1>2, <1>3, <1>4, <1>5, <2>2, <2>3 DEF PlacesByMember
<1> QED
  BY <1>6, <1>7, <1>8, <1>9, PlacesMembers, PTL DEF TrackerInv

\* the verdict leaves the map with the sender
LEMMA TakeVerdictKeepsIInv ==
  ASSUME TrackerInv, NEW s \in Sigs, TakeVerdict(s)
  PROVE  TrackerInv'
<1>1. SigTyped /\ LoopShape /\ AnswerStands /\ VerdictStands /\ PlacesByMember
  BY PlacesMembers DEF TrackerInv
<1>2. /\ verdict' = Without(s)
      /\ UNCHANGED <<pending, locked, loop, onChain>>
  BY DEF TakeVerdict
<1>3. PICK to \in CallerStates :
        /\ caller' = [caller EXCEPT ![s] = to]
        /\ to \notin {"new", "subscribing", "foundTrue"}
        /\ to = "toldTrue" => caller[s] = "foundTrue"
  <2>1. "toldTrue" \in CallerStates /\ "toldFalse" \in CallerStates
    BY DEF CallerStates
  <2> QED
    BY <2>1 DEF TakeVerdict, Move
<1>4. /\ DOMAIN verdict' = DOMAIN verdict \ {s}
      /\ \A t \in DOMAIN verdict' : verdict'[t] = verdict[t]
  BY <1>2 DEF Without
<1>5. /\ \A t \in Sigs \ {s} : caller'[t] = caller[t]
      /\ caller'[s] = to
  BY <1>1, <1>3 DEF SigTyped
<1>6. SigTyped'
  <2>1. verdict' \in [DOMAIN verdict' -> BOOLEAN]
    <3>1. verdict' = [t \in DOMAIN verdict' |-> verdict'[t]]
      BY <1>2 DEF Without
    <3>2. \A t \in DOMAIN verdict' : verdict'[t] \in BOOLEAN
      BY <1>1, <1>4 DEF SigTyped
    <3> QED
      BY <3>1, <3>2
  <2>2. caller' \in [Sigs -> CallerStates]
    BY <1>1, <1>3 DEF SigTyped
  <2> QED
    BY <1>1, <1>2, <1>4, <2>1, <2>2 DEF SigTyped
<1>7. LoopShape' /\ AnswerStands'
  BY <1>1, <1>2 DEF LoopShape, AnswerStands
<1>8. VerdictStands'
  BY <1>1, <1>2, <1>3, <1>4, <1>5 DEF VerdictStands
<1>9. PlacesByMember'
  BY <1>1, <1>2, <1>3, <1>4, <1>5 DEF PlacesByMember
<1> QED
  BY <1>6, <1>7, <1>8, <1>9, PlacesMembers, PTL DEF TrackerInv
-----------------------------------------------------------------------------
(* The loop *)

LoopType == [pc : {"rest", "asked", "judge"}, asked : Seq(Sigs), answer : Seq(ChainStatus), kept : Seq(Sigs)]

LEMMA RestingType == Resting \in LoopType
<1>1. <<>> \in Seq(Sigs) /\ <<>> \in Seq(ChainStatus)
  OBVIOUS
<1> QED
  BY <1>1 DEF Resting, LoopType

LEMMA AskKeepsIInv ==
  ASSUME TrackerInv, Ask
  PROVE  TrackerInv'
<1>1. SigTyped /\ LoopShape /\ VerdictStands /\ PlacesByMember
  BY PlacesMembers DEF TrackerInv
<1>2. /\ loop.pc = "rest" /\ locked' = TRUE
      /\ loop' = [Resting EXCEPT !.pc = "asked", !.asked = pending]
      /\ UNCHANGED <<pending, verdict, caller, onChain>>
  BY DEF Ask
<1>3. /\ loop'.pc = "asked" /\ loop'.asked = pending /\ loop'.kept = <<>> /\ loop'.answer = <<>>
      /\ loop' \in LoopType
  <2>1. pending \in Seq(Sigs)
    BY <1>1 DEF SigTyped
  <2> QED
    BY <1>2, <2>1, RestingType DEF Resting, LoopType
<1>4. SigTyped'
  BY <1>1, <1>2, <1>3 DEF SigTyped, LoopType
<1>5. LoopShape' /\ AnswerStands'
  BY <1>2, <1>3 DEF LoopShape, AnswerStands
<1>6. VerdictStands'
  BY <1>1, <1>2 DEF VerdictStands
<1>7. PlacesByMember'
  BY <1>1, <1>2, <1>3, EmptySequence DEF PlacesByMember
<1> QED
  BY <1>4, <1>5, <1>6, <1>7, PlacesMembers, PTL DEF TrackerInv

\* the three ways out of a status request, and the end of the answer: the loop rests with
\* the list as it was, empty, or what it kept
LEMMA RestKeepsIInv ==
  ASSUME TrackerInv, loop' = Resting, locked' = FALSE,
         pending' \in {pending, <<>>, loop.kept},
         UNCHANGED <<verdict, caller, onChain>>
  PROVE  TrackerInv'
<1>1. SigTyped /\ VerdictStands /\ PlacesByMember
  BY PlacesMembers DEF TrackerInv
<1>2. loop'.pc = "rest" /\ loop'.asked = <<>> /\ loop'.kept = <<>> /\ loop' \in LoopType
  BY RestingType DEF Resting
<1>3. SigTyped'
  <2>1. pending' \in Seq(Sigs)
    BY <1>1, EmptySequence DEF SigTyped
  <2> QED
    BY <1>1, <1>2, <2>1 DEF SigTyped, LoopType
<1>4. LoopShape' /\ AnswerStands'
  BY <1>2 DEF LoopShape, AnswerStands
<1>5. VerdictStands'
  BY <1>1 DEF VerdictStands
<1>6. PlacesByMember'
  <2>1. /\ Distinct(pending')
        /\ \A s \in Sigs : Among(pending', s) => Among(pending, s) \/ Among(loop.kept, s)
    BY <1>1, EmptySequence DEF PlacesByMember
  <2>2. /\ Distinct(loop'.asked) /\ Distinct(loop'.kept)
        /\ \A s \in Sigs : ~Among(loop'.asked, s) /\ ~Among(loop'.kept, s)
    BY <1>2, EmptySequence
  <2> QED
    BY <1>1, <2>1, <2>2 DEF PlacesByMember
<1> QED
  BY <1>3, <1>4, <1>5, <1>6, PlacesMembers, PTL DEF TrackerInv

\* The node answers with what is on the chain at that moment.
LEMMA AnswerKeepsIInv ==
  ASSUME TrackerInv, Answer
  PROVE  TrackerInv'
<1>1. SigTyped /\ LoopShape /\ VerdictStands /\ PlacesByMember
  BY PlacesMembers DEF TrackerInv
<1> DEFINE said == [i \in DOMAIN loop.asked |-> onChain[loop.asked[i]]]
<1>2. /\ loop.pc = "asked" /\ pending' = <<>> /\ locked' = FALSE
      /\ loop' = [loop EXCEPT !.pc = "judge", !.answer = said]
      /\ UNCHANGED <<verdict, caller, onChain>>
  BY DEF Answer
<1>3. loop \in LoopType /\ loop.asked \in Seq(Sigs) /\ loop.kept \in Seq(Sigs) /\ Len(loop.asked) \in Nat
  BY <1>1 DEF SigTyped, LoopType
<1>4. /\ said \in Seq(ChainStatus) /\ Len(said) = Len(loop.asked)
      /\ \A i \in 1..Len(said) : said[i] = onChain[loop.asked[i]]
  <2>1. DOMAIN loop.asked = 1..Len(loop.asked) /\ \A i \in 1..Len(loop.asked) : loop.asked[i] \in Sigs
    BY <1>3
  <2>2. said \in [1..Len(loop.asked) -> ChainStatus]
    BY <1>1, <2>1 DEF SigTyped
  <2> QED
    BY <1>3, <2>1, <2>2
<1> HIDE DEF said
<1>5. /\ loop'.pc = "judge" /\ loop'.asked = loop.asked /\ loop'.kept = loop.kept /\ loop'.answer = said
      /\ loop' \in LoopType
  BY <1>2, <1>3, <1>4 DEF LoopType
<1>6. SigTyped'
  BY <1>1, <1>2, <1>5, EmptySequence DEF SigTyped, LoopType
<1>7. LoopShape'
  BY <1>2, <1>4, <1>5 DEF LoopShape
<1>8. AnswerStands'
  BY <1>2, <1>4, <1>5 DEF AnswerStands
<1>9. VerdictStands'
  BY <1>1, <1>2 DEF VerdictStands
<1>10. PlacesByMember'
  BY <1>1, <1>2, <1>5, EmptySequence DEF PlacesByMember
<1> QED
  BY <1>6, <1>7, <1>8, <1>9, <1>10, PlacesMembers, PTL DEF TrackerInv
\* The head of what was asked goes to the map or to what is kept, and leaves the rest of
\* the answer as it was.
LEMMA JudgeKeepsIInv ==
  ASSUME TrackerInv, Judge
  PROVE  TrackerInv'
<1> DEFINE s == Head(loop.asked)
           status == Head(loop.answer)
<1>1. SigTyped /\ LoopShape /\ AnswerStands /\ VerdictStands /\ PlacesByMember
  BY PlacesMembers DEF TrackerInv
<1>2. /\ loop.pc = "judge" /\ loop.asked # <<>>
      /\ verdict' = IF Judged(status) THEN Put(s, ~status.err) ELSE verdict
      /\ loop' = [loop EXCEPT !.asked = Tail(@), !.answer = Tail(@),
                              !.kept = IF Judged(status) THEN @ ELSE Append(@, s)]
      /\ UNCHANGED <<pending, locked, caller, onChain>>
  BY DEF Judge
<1>3. /\ loop \in LoopType /\ loop.asked \in Seq(Sigs) /\ loop.kept \in Seq(Sigs)
      /\ loop.answer \in Seq(ChainStatus) /\ Len(loop.answer) = Len(loop.asked)
      /\ Distinct(loop.asked) /\ Distinct(loop.kept)
  BY <1>1, <1>2 DEF SigTyped, LoopType, LoopShape, PlacesByMember
<1>4. /\ s \in Sigs /\ s = loop.asked[1] /\ Tail(loop.asked) \in Seq(Sigs)
      /\ status \in ChainStatus /\ status = loop.answer[1] /\ Tail(loop.answer) \in Seq(ChainStatus)
      /\ Len(Tail(loop.asked)) = Len(loop.asked) - 1 /\ Len(Tail(loop.answer)) = Len(loop.answer) - 1
      /\ Len(loop.asked) \in Nat \ {0}
      /\ \A i \in 1..Len(Tail(loop.answer)) :
            /\ i + 1 \in 1..Len(loop.answer)
            /\ Tail(loop.answer)[i] = loop.answer[i + 1] /\ Tail(loop.asked)[i] = loop.asked[i + 1]
  BY <1>2, <1>3
<1>5. \A t \in Sigs : /\ Among(Tail(loop.asked), t) <=> Among(loop.asked, t) /\ t # s
                      /\ Among(loop.asked, s) /\ Distinct(Tail(loop.asked))
  BY <1>2, <1>3, AmongTail
<1> HIDE DEF s, status
<1>6. /\ loop'.pc = "judge" /\ loop'.asked = Tail(loop.asked) /\ loop'.answer = Tail(loop.answer)
      /\ loop'.kept = (IF Judged(status) THEN loop.kept ELSE Append(loop.kept, s))
      /\ loop' \in LoopType
  <2>1. (IF Judged(status) THEN loop.kept ELSE Append(loop.kept, s)) \in Seq(Sigs)
    BY <1>3, <1>4
  <2>2. loop' = [loop EXCEPT !.asked = Tail(loop.asked), !.answer = Tail(loop.answer),
                   !.kept = IF Judged(status) THEN loop.kept ELSE Append(loop.kept, s)]
    BY <1>2
  <2> QED
    BY <1>2, <1>3, <1>4, <2>1, <2>2 DEF LoopType
<1>7. /\ ~Among(loop.kept, s) /\ ~Among(pending, s) /\ s \notin DOMAIN verdict
      /\ caller[s] \notin {"new", "subscribing"}
  BY <1>1, <1>2, <1>4, <1>5 DEF PlacesByMember
<1>8. \A t \in Sigs : Among(loop'.kept, t) <=> Among(loop.kept, t) \/ (~Judged(status) /\ t = s)
  BY <1>3, <1>4, <1>6, AmongAppend
<1>9. Distinct(loop'.kept)
  BY <1>3, <1>4, <1>6, <1>7, DistinctAppend
<1>10. /\ DOMAIN verdict' = IF Judged(status) THEN DOMAIN verdict \cup {s} ELSE DOMAIN verdict
       /\ \A t \in DOMAIN verdict : verdict'[t] = verdict[t]
       /\ Judged(status) => verdict'[s] = ~status.err
  BY <1>2, <1>7 DEF Put
<1>11. SigTyped'
  <2>1. DOMAIN verdict' \subseteq Sigs
    BY <1>1, <1>4, <1>10 DEF SigTyped
  <2>2. verdict' \in [DOMAIN verdict' -> BOOLEAN]
    <3>1. CASE Judged(status)
      <4>1. status.err \in BOOLEAN
        BY <1>4 DEF ChainStatus
      <4>2. verdict' = Put(s, ~status.err)
        BY <1>2, <3>1
      <4>3. verdict' = [t \in DOMAIN verdict' |-> verdict'[t]]
        BY <4>2 DEF Put
      <4>4. \A t \in DOMAIN verdict' : verdict'[t] \in BOOLEAN
        BY <1>1, <1>10, <3>1, <4>1 DEF SigTyped
      <4> QED
        BY <4>3, <4>4
    <3>2. CASE ~Judged(status)
      BY <1>1, <1>2, <3>2 DEF SigTyped
    <3> QED
      BY <3>1, <3>2
  <2> QED
    BY <1>1, <1>2, <1>6, <2>1, <2>2 DEF SigTyped, LoopType
<1>12. LoopShape'
  BY <1>1, <1>2, <1>3, <1>4, <1>6 DEF LoopShape
<1>13. AnswerStands'
  <2> SUFFICES ASSUME NEW i \in 1..Len(loop'.answer), loop'.answer[i].level = "confirmed"
               PROVE  onChain'[loop'.asked[i]] = loop'.answer[i]
    BY DEF AnswerStands
  <2>1. /\ i + 1 \in 1..Len(loop.answer)
        /\ loop'.answer[i] = loop.answer[i + 1] /\ loop'.asked[i] = loop.asked[i + 1]
    BY <1>4, <1>6
  <2>2. onChain[loop.asked[i + 1]] = loop.answer[i + 1]
    BY <1>1, <1>2, <2>1 DEF AnswerStands
  <2> QED
    BY <1>2, <2>1, <2>2
<1>14. VerdictStands'
  <2>1. Judged(status) /\ ~status.err => onChain[s] = Succeeded
    <3> SUFFICES ASSUME Judged(status), ~status.err PROVE onChain[s] = Succeeded
      OBVIOUS
    <3>1. status.level = "confirmed"
      BY DEF Judged, Final
    <3>2. onChain[s] = status
      BY <1>1, <1>2, <1>3, <1>4, <3>1 DEF AnswerStands
    <3>3. status = [level |-> "confirmed", err |-> FALSE]
      BY <1>4, <3>1 DEF ChainStatus
    <3> QED
      BY <3>2, <3>3 DEF Succeeded
  <2> QED
    BY <1>1, <1>2, <1>10, <2>1 DEF VerdictStands
<1>15. PlacesByMember'
  <2>1. /\ pending' = pending /\ caller' = caller /\ loop.pc # "asked" /\ loop'.pc # "asked"
    BY <1>2, <1>6
  <2>2. /\ Distinct(pending') /\ Distinct(loop'.asked) /\ Distinct(loop'.kept)
    BY <1>1, <1>4, <1>5, <1>6, <1>9, <2>1 DEF PlacesByMember
  <2>3. \A t \in Sigs :
          /\ Among(loop'.asked, t) <=> Among(loop.asked, t) /\ t # s
          /\ Among(loop'.kept, t) => Among(loop.kept, t) \/ t = s
          /\ t \in DOMAIN verdict' => t \in DOMAIN verdict \/ (t = s /\ ~Among(loop'.kept, s))
    BY <1>4, <1>5, <1>6, <1>7, <1>8, <1>10
  <2>4. \A t \in Sigs :
          /\ ~(Among(loop.asked, t) /\ Among(loop.kept, t))
          /\ ~(Among(pending, t) /\ (Among(loop.asked, t) \/ Among(loop.kept, t)))
          /\ Among(pending, t) \/ Among(loop.asked, t) \/ Among(loop.kept, t) =>
                t \notin DOMAIN verdict /\ caller[t] \notin {"new", "subscribing"}
          /\ t \in DOMAIN verdict => caller[t] \notin {"new", "subscribing"}
    BY <1>1, <2>1 DEF PlacesByMember
  <2> QED
    BY <1>7, <2>1, <2>2, <2>3, <2>4 DEF PlacesByMember
<1> QED
  BY <1>11, <1>12, <1>13, <1>14, <1>15, PlacesMembers, PTL DEF TrackerInv

\* the next process starts with nothing; whoever was subscribed is gone with the last
LEMMA RestartKeepsIInv ==
  ASSUME TrackerInv, ConcurrentMapAccess
  PROVE  TrackerInv'
<1>1. SigTyped /\ VerdictStands /\ PlacesByMember
  BY PlacesMembers DEF TrackerInv
<1>2. /\ pending' = <<>> /\ verdict' = <<>> /\ locked' = FALSE /\ loop' = Resting
      /\ caller' = [s \in Sigs |-> IF caller[s] \in {"new", "toldTrue", "toldFalse", "timedOut"}
                                     THEN caller[s] ELSE "died"]
      /\ onChain' = onChain
  BY DEF ConcurrentMapAccess
<1>3. loop'.pc = "rest" /\ loop'.asked = <<>> /\ loop'.kept = <<>> /\ loop' \in LoopType
  BY <1>2, RestingType DEF Resting
<1>4. DOMAIN verdict' = {} /\ verdict' \in [DOMAIN verdict' -> BOOLEAN]
  <2>1. <<>> \in Seq(BOOLEAN) /\ Len(<<>>) = 0
    OBVIOUS
  <2> QED
    BY <1>2, <2>1
<1>5. \A s \in Sigs : caller'[s] = caller[s] \/ caller'[s] = "died"
  BY <1>2
<1>6. SigTyped'
  <2>1. caller' \in [Sigs -> CallerStates]
    <3>1. \A s \in Sigs : caller'[s] \in CallerStates
      BY <1>1, <1>5 DEF SigTyped, CallerStates
    <3> QED
      BY <1>2, <3>1
  <2> QED
    BY <1>1, <1>2, <1>3, <1>4, <2>1, EmptySequence DEF SigTyped, LoopType
<1>7. LoopShape' /\ AnswerStands'
  BY <1>2, <1>3 DEF LoopShape, AnswerStands
<1>8. VerdictStands'
  BY <1>1, <1>2, <1>4, <1>5 DEF VerdictStands
<1>9. PlacesByMember'
  BY <1>2, <1>3, <1>4, EmptySequence DEF PlacesByMember
<1> QED
  BY <1>6, <1>7, <1>8, <1>9, PlacesMembers, PTL DEF TrackerInv

-----------------------------------------------------------------------------
(* Every step, and what follows *)

LEMMA TrackerStep == TrackerInv /\ [Next]_vars => TrackerInv'
<1> SUFFICES ASSUME TrackerInv, [Next]_vars PROVE TrackerInv'
  OBVIOUS
<1>1. CASE UNCHANGED vars
  <2>1. UNCHANGED <<pending, verdict, locked, loop, caller, onChain>>
    BY <1>1 DEF vars
  <2> QED
    BY <2>1 DEF TrackerInv, SigTyped, LoopShape, AnswerStands, VerdictStands, Places
<1>2. ASSUME NEW s \in Sigs,
             (\E err \in BOOLEAN : Include(s, err)) \/ Confirm(s) \/ ForkAway(s)
      PROVE  TrackerInv'
  BY <1>2, IncludeConfirmForkKeepIInv
<1>3. ASSUME NEW s \in Sigs, Send(s) \/ TickerFires(s) \/ Poll(s) \/ Timeout(s)
      PROVE  TrackerInv'
  BY <1>3, SenderKeepsIInv
<1>4. ASSUME NEW s \in Sigs, Subscribe(s) PROVE TrackerInv'
  BY <1>4, SubscribeKeepsIInv
<1>5. ASSUME NEW s \in Sigs, TakeVerdict(s) PROVE TrackerInv'
  BY <1>5, TakeVerdictKeepsIInv
<1>6. CASE Ask
  BY <1>6, AskKeepsIInv
<1>7. CASE RequestFails \/ ShortAnswer \/ Store
  <2>1. /\ loop' = Resting /\ pending' \in {pending, <<>>, loop.kept}
        /\ UNCHANGED <<verdict, caller, onChain>>
    BY <1>7 DEF RequestFails, ShortAnswer, Store
  <2>2. locked' = FALSE
    BY <1>7 DEF RequestFails, ShortAnswer, Store, TrackerInv, SigTyped
  <2> QED
    BY <2>1, <2>2, RestKeepsIInv
<1>8. CASE Answer
  BY <1>8, AnswerKeepsIInv
<1>9. CASE Judge
  BY <1>9, JudgeKeepsIInv
<1>10. CASE ConcurrentMapAccess
  BY <1>10, RestartKeepsIInv
<1> QED
  BY <1>1, <1>2, <1>3, <1>4, <1>5, <1>6, <1>7, <1>8, <1>9, <1>10 DEF Next

\* lists that are distinct and apart make one
LEMMA TwoLists ==
  ASSUME NEW p \in Seq(Sigs), NEW a \in Seq(Sigs), Distinct(p), Distinct(a), Apart(p, a)
  PROVE  /\ p \o a \in Seq(Sigs) /\ Distinct(p \o a)
         /\ \A s \in Sigs : Among(p \o a, s) => Among(p, s) \/ Among(a, s)
<1> DEFINE q == p \o a
<1>1. /\ Len(p) \in Nat /\ Len(a) \in Nat
      /\ q \in Seq(Sigs) /\ Len(q) = Len(p) + Len(a)
  OBVIOUS
<1>2. \A i \in 1..Len(q) : \/ i \in 1..Len(p) /\ q[i] = p[i]
                           \/ i - Len(p) \in 1..Len(a) /\ q[i] = a[i - Len(p)]
  OBVIOUS
<1> HIDE DEF q
<1>3. ASSUME NEW i \in 1..Len(q), NEW j \in 1..Len(q), q[i] = q[j]
      PROVE  i = j
  <2>1. i \in Int /\ j \in Int
    BY <1>1
  <2>2. CASE i \in 1..Len(p) /\ q[i] = p[i]
    <3>1. ~(j - Len(p) \in 1..Len(a) /\ q[j] = a[j - Len(p)])
      BY <1>3, <2>2 DEF Apart
    <3>2. j \in 1..Len(p) /\ q[j] = p[j]
      BY <1>2, <3>1
    <3> QED
      BY <1>3, <2>2, <3>2 DEF Distinct
  <2>3. CASE i - Len(p) \in 1..Len(a) /\ q[i] = a[i - Len(p)]
    <3>1. ~(j \in 1..Len(p) /\ q[j] = p[j])
      BY <1>3, <2>3 DEF Apart
    <3>2. j - Len(p) \in 1..Len(a) /\ q[j] = a[j - Len(p)]
      BY <1>2, <3>1
    <3>3. i - Len(p) = j - Len(p)
      BY <1>3, <2>3, <3>2 DEF Distinct
    <3> QED
      BY <1>1, <2>1, <3>3
  <2> QED
    BY <1>2, <2>2, <2>3
<1>4. \A s \in Sigs : Among(q, s) => Among(p, s) \/ Among(a, s)
  BY <1>2 DEF Among
<1> QED
  BY <1>1, <1>3, <1>4 DEF Distinct, q

LEMMA ThreeListsInjective ==
  ASSUME NEW p \in Seq(Sigs), NEW a \in Seq(Sigs), NEW k \in Seq(Sigs),
         Distinct(p), Distinct(a), Distinct(k), Apart(p, a), Apart(p, k), Apart(a, k)
  PROVE  IsInjective(p \o a \o k)
<1>1. /\ p \o a \in Seq(Sigs) /\ Distinct(p \o a)
      /\ \A s \in Sigs : Among(p \o a, s) => Among(p, s) \/ Among(a, s)
  BY TwoLists
<1>2. Apart(p \o a, k)
  BY <1>1, ApartAmong
<1>3. (p \o a) \o k \in Seq(Sigs) /\ Distinct((p \o a) \o k)
  BY <1>1, <1>2, TwoLists
<1>4. DOMAIN ((p \o a) \o k) = 1..Len((p \o a) \o k)
  BY <1>3
<1> QED
  BY <1>3, <1>4 DEF IsInjective, Distinct

LEMMA TrackerInvImplies == TrackerInv => VerdictsHold
<1> SUFFICES ASSUME TrackerInv PROVE VerdictsHold
  OBVIOUS
<1>1. SigTyped /\ LoopShape /\ VerdictStands /\ Places
  BY DEF TrackerInv
<1>2. ToldTrueIsFinal
  BY <1>1 DEF ToldTrueIsFinal, VerdictStands, Succeeded
<1>3. OnePlace
  <2> SUFFICES ASSUME ~locked
               PROVE  /\ IsInjective(pending \o loop.asked \o loop.kept)
                      /\ \A s \in DOMAIN verdict : s \notin ToSet(pending) /\ ~InHand(s)
    BY DEF OnePlace
  <2>1. /\ pending \in Seq(Sigs) /\ loop.asked \in Seq(Sigs) /\ loop.kept \in Seq(Sigs)
        /\ DOMAIN verdict \subseteq Sigs
    BY <1>1 DEF SigTyped
  <2>2. loop.pc # "asked"
    BY <1>1 DEF LoopShape
  <2>3. IsInjective(pending \o loop.asked \o loop.kept)
    BY <1>1, <2>1, <2>2, ThreeListsInjective DEF Places
  <2>4. ASSUME NEW s \in DOMAIN verdict
        PROVE  s \notin ToSet(pending) /\ ~InHand(s)
    <3>1. ~Among(pending, s) /\ ~Among(loop.asked, s) /\ ~Among(loop.kept, s)
      BY <1>1, <2>1, <2>4 DEF Places
    <3> QED
      BY <2>1, <3>1 DEF Among, InHand, ToSet
  <2> QED
    BY <2>3, <2>4
<1> QED
  BY <1>2, <1>3 DEF VerdictsHold

\* A verdict holds, whatever the chain, the node and the scheduler do: who is told that a
\* transaction went through is told the truth for good, and no signature is looked up
\* again once it is judged (confirmSignatures, NotifyForSignatureStatus).
THEOREM VerdictsAlwaysHold == Spec => []VerdictsHold
<1>1. Init => TrackerInv
  BY InitTracker
<1>2. TrackerInv /\ [Next]_vars => TrackerInv'
  BY TrackerStep
<1>3. TrackerInv => VerdictsHold
  BY TrackerInvImplies
<1> QED
  BY <1>1, <1>2, <1>3, PTL DEF Spec

-----------------------------------------------------------------------------
(***************************************************************************)
(* The priority fees come from the node, however many runs of the tracker  *)
(* overlap.                                                                *)
(*                                                                         *)
(* As long as no two runs have overlapped at most one has anything left to *)
(* store, and between its two stores the first value is already its own:   *)
(* the second store makes the pair one estimate again.                     *)
(***************************************************************************)
Estimate == [medium : Nat \ {0}, high : Nat \ {0}]

PriorityTyped ==
    /\ mediumPriority \in Nat \ {0} /\ highPriority \in Nat \ {0}
    /\ estimates \subseteq Estimate
    /\ crossed \in BOOLEAN
    /\ updater \in [Updaters -> {NothingToStore} \cup [at : {"medium", "high"}, cu : estimates]]

\* every value is of an estimate
FromNode ==
    /\ \E e \in estimates : e.medium = mediumPriority
    /\ \E e \in estimates : e.high = highPriority

\* one run at a time: what it has stored is its own, and what it has not is of one estimate
OneEstimate ==
    ~crossed =>
       /\ \A r, s \in Updaters : updater[r].at # "rest" /\ updater[s].at # "rest" => r = s
       /\ \A r \in Updaters : updater[r].at = "high" => mediumPriority = updater[r].cu.medium
       /\ (\A r \in Updaters : updater[r].at # "high") =>
             [medium |-> mediumPriority, high |-> highPriority] \in estimates

PriorityInv == PriorityTyped /\ FromNode /\ OneEstimate

LEMMA InitPriority == CoinsInit => PriorityInv
<1> SUFFICES ASSUME CoinsInit PROVE PriorityInv
  OBVIOUS
<1>1. FallbackMicroLamports \in Nat \ {0}
  BY CoinsAssumption
<1>2. /\ mediumPriority = FallbackMicroLamports /\ highPriority = FallbackMicroLamports
      /\ estimates = {Fallback} /\ crossed = FALSE
      /\ updater = [r \in Updaters |-> NothingToStore]
      /\ Fallback \in Estimate /\ Fallback.medium = FallbackMicroLamports
      /\ Fallback.high = FallbackMicroLamports
      /\ Fallback = [medium |-> mediumPriority, high |-> highPriority]
  BY <1>1 DEF CoinsInit, Fallback, Estimate
<1>3. \A r \in Updaters : updater[r] = NothingToStore /\ updater[r].at = "rest"
  BY <1>2 DEF NothingToStore
<1>4. PriorityTyped
  BY <1>1, <1>2 DEF PriorityTyped
<1>5. FromNode
  BY <1>2 DEF FromNode
<1>6. OneEstimate
  BY <1>2, <1>3 DEF OneEstimate
<1> QED
  BY <1>4, <1>5, <1>6 DEF PriorityInv

\* coins and tokens are no concern of the tracker
LEMMA MarketKeepsPriority ==
  ASSUME PriorityInv, UNCHANGED <<mediumPriority, highPriority, updater, estimates, crossed>>
  PROVE  PriorityInv'
BY DEF PriorityInv, PriorityTyped, FromNode, OneEstimate

\* an answer that is kept is an estimate; a run that meets another says so
LEMMA AnswerKeepsPriority ==
  ASSUME PriorityInv, NEW r \in Updaters, NEW cu \in [medium : Fees, high : Fees], UpdatePriority(r, cu)
  PROVE  PriorityInv'
<1> DEFINE next == [at |-> "medium", cu |-> cu]
<1>1. /\ updater[r].at = "rest"
      /\ updater' = [updater EXCEPT ![r] = next]
      /\ estimates' = estimates \cup {cu}
      /\ crossed' = (crossed \/ \E o \in Updaters \ {r} : updater[o].at # "rest")
      /\ UNCHANGED <<mediumPriority, highPriority>>
      /\ ValidFees(cu)
  BY DEF UpdatePriority
<1>2. cu \in Estimate
  BY <1>1, CoinsAssumption DEF ValidFees, Estimate
<1>3. /\ PriorityTyped /\ FromNode /\ OneEstimate
      /\ \A o \in Updaters : updater[o] \in {NothingToStore} \cup [at : {"medium", "high"}, cu : estimates]
  BY DEF PriorityInv, PriorityTyped
<1>4. estimates \subseteq estimates' /\ next \in [at : {"medium", "high"}, cu : estimates']
  BY <1>1
<1>5. PriorityTyped'
  <2>1. \A o \in Updaters : updater'[o] \in {NothingToStore} \cup [at : {"medium", "high"}, cu : estimates']
    BY <1>1, <1>3, <1>4 DEF PriorityTyped
  <2>2. updater' = [o \in Updaters |-> updater'[o]]
    BY <1>1, <1>3 DEF PriorityTyped
  <2>3. crossed' \in BOOLEAN /\ estimates' \subseteq Estimate
    BY <1>1, <1>2, <1>3 DEF PriorityTyped
  <2>4. mediumPriority' \in Nat \ {0} /\ highPriority' \in Nat \ {0}
    BY <1>1, <1>3 DEF PriorityTyped
  <2>5. NothingToStore' = NothingToStore
    BY DEF NothingToStore
  <2> QED
    BY <2>1, <2>2, <2>3, <2>4, <2>5 DEF PriorityTyped
<1>6. FromNode'
  BY <1>1, <1>3, <1>4 DEF FromNode
<1>7. OneEstimate'
  <2> SUFFICES ASSUME ~crossed'
               PROVE  /\ \A p, s \in Updaters : updater'[p].at # "rest" /\ updater'[s].at # "rest" => p = s
                      /\ \A p \in Updaters : updater'[p].at = "high" => mediumPriority' = updater'[p].cu.medium
                      /\ (\A p \in Updaters : updater'[p].at # "high") =>
                            [medium |-> mediumPriority', high |-> highPriority'] \in estimates'
    BY Zenon DEF OneEstimate
  <2>1. ~crossed /\ \A o \in Updaters \ {r} : updater[o].at = "rest"
    BY <1>1
  <2>2. \A o \in Updaters \ {r} : updater'[o].at = "rest"
    BY <1>1, <1>3, <2>1 DEF PriorityTyped
  <2>3. updater'[r].at = "medium"
    BY <1>1, <1>3 DEF PriorityTyped
  <2>4. [medium |-> mediumPriority, high |-> highPriority] \in estimates
    <3>1. \A o \in Updaters : updater[o].at # "high"
      BY <1>1, <2>1
    <3> QED
      BY <1>3, <2>1, <3>1 DEF OneEstimate
  <2> QED
    BY <1>1, <1>4, <2>2, <2>3, <2>4
<1> QED
  BY <1>5, <1>6, <1>7 DEF PriorityInv

\* the first store: both values are of an estimate, if not of the same
LEMMA StoreMediumKeepsPriority ==
  ASSUME PriorityInv, NEW r \in Updaters, StoreMedium(r)
  PROVE  PriorityInv'
<1> DEFINE cu == updater[r].cu
           next == [at |-> "high", cu |-> cu]
<1>1. /\ updater[r].at = "medium" /\ mediumPriority' = cu.medium
      /\ updater' = [updater EXCEPT ![r].at = "high"]
      /\ UNCHANGED <<highPriority, estimates, crossed>>
  BY DEF StoreMedium
<1>2. PriorityTyped /\ FromNode /\ OneEstimate
  BY DEF PriorityInv
<1>3. updater[r] \in [at : {"medium", "high"}, cu : estimates]
  BY <1>1, <1>2 DEF PriorityTyped, NothingToStore
<1>4. cu \in estimates /\ cu.medium \in Nat \ {0}
  BY <1>2, <1>3 DEF PriorityTyped, Estimate
<1>5. updater' = [updater EXCEPT ![r] = next] /\ next \in [at : {"medium", "high"}, cu : estimates]
  <2>1. [updater[r] EXCEPT !.at = "high"] = next
    BY <1>3
  <2>2. updater' = [updater EXCEPT ![r] = [updater[r] EXCEPT !.at = "high"]]
    BY <1>1
  <2> QED
    BY <1>4, <2>1, <2>2
<1>6. PriorityTyped'
  BY <1>1, <1>2, <1>4, <1>5 DEF PriorityTyped, NothingToStore
<1>7. FromNode'
  BY <1>1, <1>2, <1>4 DEF FromNode
<1>8. OneEstimate'
  <2>1. \A p \in Updaters : updater'[p] = IF p = r THEN next ELSE updater[p]
    BY <1>2, <1>5 DEF PriorityTyped
  <2>2. next.at = "high" /\ next.cu = cu
    OBVIOUS
  <2> HIDE DEF next
  <2>3. ~crossed => \A p \in Updaters \ {r} : updater[p].at = "rest"
    BY <1>1, <1>2 DEF OneEstimate
  <2> QED
    BY <1>1, <2>1, <2>2, <2>3 DEF OneEstimate
<1> QED
  BY <1>6, <1>7, <1>8 DEF PriorityInv

\* the second store: the pair is one estimate, if nobody came between
LEMMA StoreHighKeepsPriority ==
  ASSUME PriorityInv, NEW r \in Updaters, StoreHigh(r)
  PROVE  PriorityInv'
<1> DEFINE cu == updater[r].cu
<1>1. /\ updater[r].at = "high" /\ highPriority' = cu.high
      /\ updater' = [updater EXCEPT ![r] = NothingToStore]
      /\ UNCHANGED <<mediumPriority, estimates, crossed>>
  BY DEF StoreHigh
<1>2. PriorityTyped /\ FromNode /\ OneEstimate
  BY DEF PriorityInv
<1>3. updater[r] \in [at : {"medium", "high"}, cu : estimates]
  BY <1>1, <1>2 DEF PriorityTyped, NothingToStore
<1>4. /\ cu \in estimates /\ cu.high \in Nat \ {0}
      /\ cu = [medium |-> cu.medium, high |-> cu.high]
  BY <1>2, <1>3 DEF PriorityTyped, Estimate
<1>5. PriorityTyped'
  BY <1>1, <1>2, <1>4 DEF PriorityTyped, NothingToStore
<1>6. FromNode'
  BY <1>1, <1>2, <1>4 DEF FromNode
<1>7. OneEstimate'
  <2>1. \A p \in Updaters : updater'[p] = IF p = r THEN NothingToStore ELSE updater[p]
    BY <1>1, <1>2 DEF PriorityTyped
  <2>2. NothingToStore.at = "rest"
    BY DEF NothingToStore
  <2>3. ~crossed => /\ \A p \in Updaters \ {r} : updater[p].at = "rest"
                    /\ mediumPriority = cu.medium
    BY <1>1, <1>2 DEF OneEstimate
  <2>4. ~crossed => [medium |-> mediumPriority, high |-> highPriority'] \in estimates
    BY <1>1, <1>4, <2>3
  <2> QED
    BY <1>1, <2>1, <2>2, <2>3, <2>4 DEF OneEstimate
<1> QED
  BY <1>5, <1>6, <1>7 DEF PriorityInv

LEMMA PriorityStep == PriorityInv /\ [CoinsNext]_coinsVars => PriorityInv'
<1> SUFFICES ASSUME PriorityInv, [CoinsNext]_coinsVars PROVE PriorityInv'
  OBVIOUS
<1>1. CASE \E listing \in Listings(CoinIDs) : UpdateAllCoins(listing)
  BY <1>1, MarketKeepsPriority DEF UpdateAllCoins
<1>2. CASE \E listing \in Listings(TokenMints) : RefreshSolanaTokens(listing)
  BY <1>2, MarketKeepsPriority DEF RefreshSolanaTokens
<1>3. ASSUME NEW r \in Updaters, NEW cu \in [medium : Fees, high : Fees], UpdatePriority(r, cu)
      PROVE  PriorityInv'
  BY <1>3, AnswerKeepsPriority
<1>4. ASSUME NEW r \in Updaters, StoreMedium(r) PROVE PriorityInv'
  BY <1>4, StoreMediumKeepsPriority
<1>5. ASSUME NEW r \in Updaters, StoreHigh(r) PROVE PriorityInv'
  BY <1>5, StoreHighKeepsPriority
<1>6. CASE UNCHANGED coinsVars
  BY <1>6, MarketKeepsPriority DEF coinsVars
<1> QED
  BY <1>1, <1>2, <1>3, <1>4, <1>5, <1>6 DEF CoinsNext

\* Whoever builds a transaction reads fees that are never zero and the node's or the
\* fallback, and a pair of one estimate unless two runs of the tracker overlapped: for any
\* estimates and any number of runs (UpdatePriority).
THEOREM FeesFromNode == CoinsSpec => []PriorityFromNode
<1>1. PriorityInv => PriorityFromNode
  BY DEF PriorityInv, PriorityTyped, FromNode, OneEstimate, PriorityFromNode
<1> QED
  BY <1>1, InitPriority, PriorityStep, PTL DEF CoinsSpec

-----------------------------------------------------------------------------
(***************************************************************************)
(* Questions and answers.  Requests cross each other between what they     *)
(* look for and what they write, and no key refuses the second row.  The   *)
(* invariant says that whoever looked and found nothing still finds        *)
(* nothing as long as no other request on the same person, or reply to     *)
(* the same question, is under way; what he then writes is the first row.  *)
(***************************************************************************)
Persons == FaqUsers \cup Visitors
Question == [by : Persons \X Nat, answered : BOOLEAN, deleted : BOOLEAN]
Reply == [id : Nat, question : Nat, by : Moderators]
Mark == [id : Nat, question : Nat, who : Persons \X Nat, state : {-1, 1}]

\* A user is one person; a visitor is as many as he has rows.
Identity(w) ==
    /\ w \in Persons \X Nat
    /\ w[1] \in FaqUsers => w[2] = 0
    /\ w[1] \notin FaqUsers => w[2] \in 1..anonymous[w[1]]

\* What a request holds at each of its steps.
DeskSound(d) ==
    /\ d.at = "unknown" => d.about \in Visitors
    /\ d.at \in {"known", "mark", "re-mark"} => Identity(d.who) /\ d.who[1] = d.about
    /\ d.at \in {"mark", "re-mark"} => d.question \in DOMAIN questions /\ d.state \in {-1, 1}
    /\ d.at \in {"reply", "add", "change"} => d.about \in DOMAIN questions /\ d.who \in Moderators

FaqTyped ==
    /\ anonymous \in [Visitors -> Nat]
    /\ questions \in Seq(Question)
    /\ replies \in SUBSET Reply /\ marks \in SUBSET Mark /\ serial \in Nat
    /\ \A k \in marks : Identity(k.who)

DesksSound ==
    /\ desk = [h \in Desks |-> desk[h]]
    /\ \A h \in Desks : DeskSound(desk[h])

\* Two requests on one person or question were seen.
OneDesk == \A g, h \in Desks :
    g # h /\ desk[g].at # "rest" /\ desk[h].at # "rest" /\ desk[g].about = desk[h].about
        => desk[h].about \in raced

\* A visitor has one row, and whoever found none is about to write the first.
Unmet(d) == d.at = "unknown" /\ d.about \notin raced => anonymous[d.about] = 0
OneRow ==
    /\ \A p \in Visitors \ raced : anonymous[p] <= 1
    /\ \A h \in Desks : Unmet(desk[h])

\* A person has one mark on a question, and whoever found none is about to write the first.
Unmarked(d) == d.at = "mark" /\ d.about \notin raced =>
    \A k \in marks : k.question # d.question \/ k.who[1] # d.about
OneVoice ==
    /\ \A k1, k2 \in marks :
         k1.question = k2.question /\ k1.who[1] = k2.who[1] /\ k1.who[1] \notin raced => k1 = k2
    /\ \A h \in Desks : Unmarked(desk[h])

\* A question has one answer, and whoever found none is about to write the first.
Unanswered(d) == d.at = "add" /\ d.about \notin raced => \A a \in replies : a.question # d.about
OneAnswer ==
    /\ \A a1, a2 \in replies :
         a1.question = a2.question /\ a1.question \notin raced => a1 = a2
    /\ \A h \in Desks : Unanswered(desk[h])

FaqInv ==
    /\ FaqTyped /\ DesksSound /\ AnsweredIffAnswer
    /\ OneDesk /\ OneRow /\ OneVoice /\ OneAnswer

\* A request at rest is about nothing.
LEMMA RestSound == DeskSound(AtRest) /\ Unmet(AtRest) /\ Unmarked(AtRest) /\ Unanswered(AtRest)
BY DEF DeskSound, Unmet, Unmarked, Unanswered, AtRest

\* Nobody has asked anything.
LEMMA FaqStarts == FaqInit => FaqInv
<1> SUFFICES ASSUME FaqInit PROVE FaqInv
  OBVIOUS
<1>1. FaqTyped
  BY DEF FaqInit, FaqTyped
<1>2. \A h \in Desks : desk[h] = AtRest /\ desk[h].at = "rest"
  BY DEF FaqInit, AtRest
<1>3. DesksSound
  BY <1>2, RestSound DEF FaqInit, DesksSound
<1>4. AnsweredIffAnswer
  BY DEF FaqInit, AnsweredIffAnswer, There, Exists
<1>5. OneDesk
  BY <1>2 DEF OneDesk
<1>6. OneRow
  <2>1. \A p \in Visitors : anonymous[p] <= 1
    BY DEF FaqInit
  <2> QED BY <1>2, <2>1, RestSound DEF OneRow
<1>7. OneVoice /\ OneAnswer
  BY <1>2, RestSound DEF FaqInit, OneVoice, OneAnswer
<1> QED
  BY <1>1, <1>3, <1>4, <1>5, <1>6, <1>7 DEF FaqInv

\* A request that goes on about the same, or comes to rest, crosses no other.
LEMMA OneDeskStays ==
  ASSUME OneDesk, NEW h \in Desks, NEW d, DesksSound, desk' = [desk EXCEPT ![h] = d],
         raced \subseteq raced',
         d.at = "rest" \/ (desk[h].at # "rest" /\ d.about = desk[h].about)
  PROVE  OneDesk'
<1>1. desk'[h] = d /\ \A g \in Desks \ {h} : desk'[g] = desk[g]
  BY DEF DesksSound
<1> QED
  BY <1>1 DEF OneDesk

\* A request that crosses another on its arrival is noted.
LEMMA OneDeskTaken ==
  ASSUME OneDesk, NEW h \in Desks, NEW d, NEW x, DesksSound, desk' = [desk EXCEPT ![h] = d],
         TakesUp(h, x), d.about = x
  PROVE  OneDesk' /\ raced \subseteq raced'
<1>1. desk'[h] = d /\ \A g \in Desks \ {h} : desk'[g] = desk[g]
  BY DEF DesksSound
<1>2. raced \subseteq raced' /\ (Meets(h, x) => x \in raced')
  BY DEF TakesUp
<1>3. ASSUME NEW g \in Desks \ {h}, desk[g].at # "rest", desk[g].about = x PROVE x \in raced'
  BY <1>2, <1>3 DEF Meets
<1> QED
  BY <1>1, <1>2, <1>3 DEF OneDesk

\* A step that writes no row.
LEMMA DeskTurns ==
  ASSUME FaqInv, NEW h \in Desks, NEW d, desk' = [desk EXCEPT ![h] = d],
         UNCHANGED <<anonymous, questions, replies, marks, serial>>, raced \subseteq raced',
         OneDesk', DeskSound(d), Unmet(d), Unmarked(d), Unanswered(d)
  PROVE  FaqInv'
<1>1. desk'[h] = d /\ (\A g \in Desks \ {h} : desk'[g] = desk[g])
      /\ desk' = [g \in Desks |-> desk'[g]]
  BY DEF FaqInv, DesksSound
<1>2. FaqTyped' /\ AnsweredIffAnswer'
  BY DEF FaqInv, FaqTyped, Identity, AnsweredIffAnswer, There, Exists, AnswersTo
<1>3. DesksSound'
  <2>1. ASSUME NEW g \in Desks PROVE DeskSound(desk'[g])
    BY <1>1 DEF FaqInv, DesksSound
  <2>2. ASSUME NEW g \in Desks PROVE DeskSound(desk[g])'
    BY <2>1 DEF DeskSound, Identity
  <2> QED BY <1>1, <2>2 DEF DesksSound
<1>4. OneRow'
  <2>1. ASSUME NEW g \in Desks PROVE Unmet(desk[g])'
    BY <1>1 DEF FaqInv, OneRow, Unmet
  <2> QED BY <2>1 DEF FaqInv, OneRow
<1>5. OneVoice'
  <2>1. ASSUME NEW g \in Desks PROVE Unmarked(desk[g])'
    BY <1>1 DEF FaqInv, OneVoice, Unmarked
  <2> QED BY <2>1 DEF FaqInv, OneVoice
<1>6. OneAnswer'
  <2>1. ASSUME NEW g \in Desks PROVE Unanswered(desk[g])'
    BY <1>1 DEF FaqInv, OneAnswer, Unanswered
  <2> QED BY <2>1 DEF FaqInv, OneAnswer
<1> QED
  BY <1>2, <1>3, <1>4, <1>5, <1>6 DEF FaqInv

-----------------------------------------------------------------------------
(* Steps that write no row *)

LEMMA Recognises ==
  ASSUME FaqInv, NEW h \in Desks, NEW p \in Persons, FAQAuthMiddleware(h, p)
  PROVE  FaqInv'
<1>1. PICK d : /\ desk' = [desk EXCEPT ![h] = d] /\ d.about = p /\ d.at \in {"known", "unknown"}
               /\ d.at = "unknown" => p \in Visitors /\ anonymous[p] = 0
               /\ d.at = "known" => Identity(d.who) /\ d.who[1] = p
  <2>1. CASE p \in FaqUsers
    <3>1. Identity(<<p, 0>>) /\ <<p, 0>>[1] = p
      BY <2>1 DEF Identity, Persons
    <3>2. PICK d : d = [at |-> "known", about |-> p, who |-> <<p, 0>>]
      OBVIOUS
    <3>3. desk' = [desk EXCEPT ![h] = d]
      BY <2>1, <3>2 DEF FAQAuthMiddleware, Sits
    <3>4. d.about = p /\ d.at = "known" /\ Identity(d.who) /\ d.who[1] = p
      BY <3>1, <3>2
    <3> QED BY <3>3, <3>4
  <2>2. CASE p \notin FaqUsers /\ anonymous[p] = 0
    <3>1. PICK d : d = [at |-> "unknown", about |-> p]
      OBVIOUS
    <3>2. desk' = [desk EXCEPT ![h] = d]
      BY <2>2, <3>1 DEF FAQAuthMiddleware, Sits
    <3>3. d.about = p /\ d.at = "unknown" /\ p \in Visitors
      BY <2>2, <3>1 DEF Persons
    <3> QED BY <2>2, <3>2, <3>3
  <2>3. CASE p \notin FaqUsers /\ anonymous[p] # 0
    <3>1. PICK i \in 1..anonymous[p] : Sits(h, [at |-> "known", about |-> p, who |-> <<p, i>>])
      BY <2>3 DEF FAQAuthMiddleware
    <3>2. p \in Visitors /\ anonymous[p] \in Nat
      BY <2>3 DEF Persons, FaqInv, FaqTyped
    <3>3. Identity(<<p, i>>) /\ <<p, i>>[1] = p
      BY <2>3, <3>1, <3>2 DEF Identity, Persons
    <3>4. PICK d : d = [at |-> "known", about |-> p, who |-> <<p, i>>]
      OBVIOUS
    <3>5. desk' = [desk EXCEPT ![h] = d]
      BY <3>1, <3>4 DEF Sits
    <3>6. d.about = p /\ d.at = "known" /\ Identity(d.who) /\ d.who[1] = p
      BY <3>3, <3>4
    <3> QED BY <3>5, <3>6
  <2> QED BY <2>1, <2>2, <2>3
<1>2. OneDesk' /\ raced \subseteq raced'
  BY <1>1, OneDeskTaken DEF FAQAuthMiddleware, FaqInv
<1>3. DeskSound(d) /\ Unmet(d) /\ Unmarked(d) /\ Unanswered(d)
  BY <1>1 DEF DeskSound, Unmet, Unmarked, Unanswered
<1>4. UNCHANGED <<anonymous, questions, replies, marks, serial>>
  BY DEF FAQAuthMiddleware
<1> QED
  BY <1>1, <1>2, <1>3, <1>4, DeskTurns

\* A visitor with one row, and any user, goes by one identity.
LEMMA OneIdentity ==
  ASSUME FaqInv, NEW v, NEW w, Identity(v), Identity(w), v[1] = w[1], v[1] \notin raced
  PROVE  v = w
<1>1. v \in Persons \X Nat /\ w \in Persons \X Nat
  BY DEF Identity
<1>2. v[2] = w[2]
  <2>1. CASE v[1] \in FaqUsers
    BY <2>1 DEF Identity
  <2>2. CASE v[1] \notin FaqUsers
    <3>1. v[1] \in Visitors /\ anonymous[v[1]] \in Nat
      BY <1>1, <2>2 DEF Persons, FaqInv, FaqTyped
    <3>2. anonymous[v[1]] <= 1
      BY <3>1 DEF FaqInv, OneRow
    <3>3. v[2] \in 1..anonymous[v[1]] /\ w[2] \in 1..anonymous[v[1]]
      BY <2>2 DEF Identity
    <3> QED BY <3>1, <3>2, <3>3
  <2> QED BY <2>1, <2>2
<1> QED BY <1>1, <1>2

LEMMA LooksForMark ==
  ASSUME FaqInv, NEW h \in Desks, NEW q \in DOMAIN questions, NEW state \in {-1, 1},
         AddFAQMark(h, q, state)
  PROVE  FaqInv'
<1>1. PICK c : c = desk[h]
  OBVIOUS
<1>2. c.at = "known" /\ Identity(c.who) /\ c.who[1] = c.about
  BY <1>1 DEF AddFAQMark, FaqInv, DesksSound, DeskSound
<1>3. PICK d : /\ desk' = [desk EXCEPT ![h] = d] /\ d.about = c.about /\ d.who = c.who
               /\ d.question = q /\ d.state = state /\ d.at \in {"mark", "re-mark"}
               /\ (d.at = "mark" => MarksBy(q, c.who) = {})
  <2>1. PICK at : at = IF MarksBy(q, c.who) = {} THEN "mark" ELSE "re-mark"
    OBVIOUS
  <2>2. PICK d : d = [at |-> at, about |-> c.about, who |-> c.who, question |-> q, state |-> state]
    OBVIOUS
  <2>3. desk' = [desk EXCEPT ![h] = d]
    BY <1>1, <2>1, <2>2 DEF AddFAQMark, Sits
  <2>4. /\ d.about = c.about /\ d.who = c.who /\ d.question = q /\ d.state = state
        /\ d.at \in {"mark", "re-mark"} /\ (d.at = "mark" => MarksBy(q, c.who) = {})
    BY <2>1, <2>2
  <2> QED BY <2>3, <2>4
<1>4. UNCHANGED <<anonymous, questions, replies, marks, serial, raced>>
  BY DEF AddFAQMark
<1>5. OneDesk'
  BY <1>1, <1>2, <1>3, <1>4, OneDeskStays DEF FaqInv
<1>6. Unmarked(d)
  <2>1. ASSUME d.at = "mark", d.about \notin raced, NEW k \in marks, k.question = q,
               k.who[1] = d.about
        PROVE  FALSE
    <3>1. Identity(k.who)
      BY DEF FaqInv, FaqTyped
    <3>2. k.who = c.who
      BY <1>2, <1>3, <2>1, <3>1, OneIdentity
    <3> QED BY <1>3, <2>1, <3>2 DEF MarksBy
  <2> QED BY <1>3, <2>1 DEF Unmarked
<1>7. DeskSound(d) /\ Unmet(d) /\ Unanswered(d)
  BY <1>2, <1>3 DEF DeskSound, Unmet, Unanswered
<1> QED
  BY <1>3, <1>4, <1>5, <1>6, <1>7, DeskTurns

LEMMA TakesReply ==
  ASSUME FaqInv, NEW h \in Desks, NEW m \in Moderators, NEW q \in DOMAIN questions,
         HandleFAQMessage(h, m, q)
  PROVE  FaqInv'
<1>1. PICK d : d = [at |-> "reply", about |-> q, who |-> m]
  OBVIOUS
<1>2. desk' = [desk EXCEPT ![h] = d] /\ UNCHANGED <<anonymous, questions, replies, marks, serial>>
  BY <1>1 DEF HandleFAQMessage, Sits
<1>3. OneDesk' /\ raced \subseteq raced'
  BY <1>1, <1>2, OneDeskTaken DEF HandleFAQMessage, FaqInv
<1>4. DeskSound(d) /\ Unmet(d) /\ Unmarked(d) /\ Unanswered(d)
  BY <1>1 DEF DeskSound, Unmet, Unmarked, Unanswered
<1> QED
  BY <1>2, <1>3, <1>4, DeskTurns

LEMMA LooksForAnswer ==
  ASSUME FaqInv, NEW h \in Desks, GetFAQAnswerByFAQQuestionID(h)
  PROVE  FaqInv'
<1>1. PICK c : c = desk[h]
  OBVIOUS
<1>2. c.at = "reply" /\ c.about \in DOMAIN questions /\ c.who \in Moderators
  BY <1>1 DEF GetFAQAnswerByFAQQuestionID, FaqInv, DesksSound, DeskSound
<1>3. PICK d : /\ desk' = [desk EXCEPT ![h] = d] /\ d.about = c.about /\ d.who = c.who
               /\ d.at \in {"add", "change"} /\ (d.at = "add" => AnswersTo(c.about) = {})
  <2>1. CASE AnswersTo(c.about) = {}
    <3>1. PICK d : d = [at |-> "add", about |-> c.about, who |-> c.who]
      OBVIOUS
    <3>2. desk' = [desk EXCEPT ![h] = d]
      BY <1>1, <2>1, <3>1 DEF GetFAQAnswerByFAQQuestionID, Sits
    <3>3. d.at = "add" /\ d.about = c.about /\ d.who = c.who
      BY <3>1
    <3> QED BY <2>1, <3>2, <3>3
  <2>2. CASE AnswersTo(c.about) # {}
    <3>1. PICK a \in AnswersTo(c.about) :
             Sits(h, [at |-> "change", about |-> c.about, who |-> c.who, row |-> a.id])
      BY <1>1, <2>2 DEF GetFAQAnswerByFAQQuestionID
    <3>2. PICK d : d = [at |-> "change", about |-> c.about, who |-> c.who, row |-> a.id]
      OBVIOUS
    <3>3. desk' = [desk EXCEPT ![h] = d] /\ d.at = "change" /\ d.about = c.about /\ d.who = c.who
      BY <3>1, <3>2 DEF Sits
    <3> QED BY <3>3
  <2> QED BY <2>1, <2>2
<1>4. UNCHANGED <<anonymous, questions, replies, marks, serial, raced>>
  BY DEF GetFAQAnswerByFAQQuestionID
<1>5. OneDesk'
  BY <1>1, <1>2, <1>3, <1>4, OneDeskStays DEF FaqInv
<1>6. DeskSound(d) /\ Unmet(d) /\ Unmarked(d)
  BY <1>2, <1>3 DEF DeskSound, Unmet, Unmarked
<1>7. Unanswered(d)
  BY <1>3 DEF Unanswered, AnswersTo
<1> QED
  BY <1>3, <1>4, <1>5, <1>6, <1>7, DeskTurns

LEMMA GivesUp ==
  ASSUME FaqInv, NEW h \in Desks, DeskFails(h)
  PROVE  FaqInv'
<1>1. desk' = [desk EXCEPT ![h] = AtRest]
      /\ UNCHANGED <<anonymous, questions, replies, marks, serial, raced>>
  BY DEF DeskFails, Sits
<1>2. OneDesk'
  <2>1. AtRest.at = "rest"
    BY DEF AtRest
  <2> QED BY <1>1, <2>1, OneDeskStays DEF FaqInv
<1> QED
  BY <1>1, <1>2, RestSound, DeskTurns

-----------------------------------------------------------------------------
(* What other requests rely on *)

\* At most some requests have come to rest.
SomeRest ==
    /\ desk' = [g \in Desks |-> desk'[g]]
    /\ \A g \in Desks : desk'[g] = desk[g] \/ desk'[g] = AtRest
    /\ raced' = raced

\* One request has come to rest.
LEMMA OneRests ==
  ASSUME DesksSound, NEW h \in Desks, Sits(h, AtRest), raced' = raced
  PROVE  SomeRest /\ desk'[h] = AtRest /\ \A g \in Desks \ {h} : desk'[g] = desk[g]
BY DEF DesksSound, Sits, SomeRest

\* Rows are only added for those who are under way.
LEMMA DesksStay ==
  ASSUME FaqInv, SomeRest, DOMAIN questions \subseteq DOMAIN questions',
         \A w : Identity(w) => Identity(w)'
  PROVE  DesksSound' /\ OneDesk'
<1>1. AtRest.at = "rest"
  BY DEF AtRest
<1>2. ASSUME NEW g \in Desks PROVE DeskSound(desk[g])'
  <2>1. CASE desk'[g] = AtRest
    BY <1>1, <2>1 DEF DeskSound
  <2>2. CASE desk'[g] = desk[g]
    <3>1. PICK d : d = desk[g]
      OBVIOUS
    <3>2. DeskSound(d)
      BY <3>1 DEF FaqInv, DesksSound
    <3>3. (d.at = "unknown" => d.about \in Visitors)
          /\ (d.at \in {"known", "mark", "re-mark"} => Identity(d.who)' /\ d.who[1] = d.about)
          /\ (d.at \in {"mark", "re-mark"} => d.question \in DOMAIN questions' /\ d.state \in {-1, 1})
          /\ (d.at \in {"reply", "add", "change"} =>
                d.about \in DOMAIN questions' /\ d.who \in Moderators)
      BY <3>2 DEF DeskSound
    <3>4. d = desk'[g]
      BY <2>2, <3>1
    <3>5. (desk[g])' = d
      BY <3>4
    <3> QED BY <3>3, <3>5 DEF DeskSound
  <2> QED BY <2>1, <2>2 DEF SomeRest
<1>3. DesksSound'
  BY <1>2 DEF SomeRest, DesksSound
<1>4. OneDesk'
  BY <1>1 DEF FaqInv, OneDesk, SomeRest
<1> QED BY <1>3, <1>4

LEMMA OneRowStays ==
  ASSUME FaqInv, SomeRest, anonymous' = anonymous
  PROVE  OneRow'
<1>1. ASSUME NEW g \in Desks PROVE Unmet(desk[g])'
  BY DEF FaqInv, OneRow, Unmet, SomeRest, AtRest
<1> QED BY <1>1 DEF FaqInv, OneRow, SomeRest

LEMMA OneVoiceStays ==
  ASSUME FaqInv, SomeRest, marks' \subseteq marks
  PROVE  OneVoice'
<1>1. ASSUME NEW g \in Desks PROVE Unmarked(desk[g])'
  BY DEF FaqInv, OneVoice, Unmarked, SomeRest, AtRest
<1> QED BY <1>1 DEF FaqInv, OneVoice, SomeRest

LEMMA OneAnswerStays ==
  ASSUME FaqInv, SomeRest, replies' \subseteq replies
  PROVE  OneAnswer'
<1>1. ASSUME NEW g \in Desks PROVE Unanswered(desk[g])'
  BY DEF FaqInv, OneAnswer, Unanswered, SomeRest, AtRest
<1> QED BY <1>1 DEF FaqInv, OneAnswer, SomeRest

\* What identities and answers depend on.
LEMMA IdentityStays == anonymous' = anonymous => \A w : Identity(w)' <=> Identity(w)
BY DEF Identity

LEMMA AnsweredStays ==
  ASSUME AnsweredIffAnswer, UNCHANGED <<questions, replies>>, \A k \in marks' : Exists(k.question)
  PROVE  AnsweredIffAnswer'
BY DEF AnsweredIffAnswer, There, Exists, AnswersTo

\* Questions are numbered from 1.
LEMMA QuestionNumbers ==
  ASSUME FaqTyped
  PROVE  /\ Len(questions) \in Nat /\ DOMAIN questions = 1..Len(questions)
         /\ \A q \in DOMAIN questions : q \in Nat /\ questions[q] \in Question
<1>1. PICK type : type = Question
  OBVIOUS
<1>2. questions \in Seq(type)
  BY <1>1 DEF FaqTyped
<1> QED BY <1>1, <1>2

-----------------------------------------------------------------------------
(* Steps that write rows *)

LEMMA Restarts ==
  ASSUME FaqInv, FaqRestarts
  PROVE  FaqInv'
<1>1. SomeRest /\ UNCHANGED <<anonymous, questions, replies, marks, serial>>
  BY DEF FaqRestarts, SomeRest
<1>2. \A w : Identity(w)' <=> Identity(w)
  BY <1>1, IdentityStays
<1>3. DesksSound' /\ OneDesk'
  BY <1>1, <1>2, DesksStay
<1>4. OneRow' /\ OneVoice' /\ OneAnswer'
  BY <1>1, OneRowStays, OneVoiceStays, OneAnswerStays
<1>5. FaqTyped' /\ AnsweredIffAnswer'
  BY <1>1, <1>2, AnsweredStays DEF FaqInv, FaqTyped, AnsweredIffAnswer
<1> QED
  BY <1>3, <1>4, <1>5 DEF FaqInv

LEMMA SavesVisitor ==
  ASSUME FaqInv, NEW h \in Desks, SaveFAQAAnonymousUser(h)
  PROVE  FaqInv'
<1>1. PICK p \in Visitors : p = desk[h].about
  BY DEF SaveFAQAAnonymousUser, FaqInv, DesksSound, DeskSound
<1>2. PICK n \in Nat : n = anonymous[p]
  BY DEF FaqInv, FaqTyped
<1>3. PICK d : d = [at |-> "known", about |-> p, who |-> <<p, n + 1>>]
  OBVIOUS
<1>4. /\ desk[h].at = "unknown" /\ anonymous' = [anonymous EXCEPT ![p] = n + 1]
      /\ desk' = [desk EXCEPT ![h] = d]
      /\ UNCHANGED <<questions, replies, marks, serial, raced>>
  BY <1>1, <1>2, <1>3 DEF SaveFAQAAnonymousUser, Sits
<1>5. /\ anonymous \in [Visitors -> Nat] /\ anonymous' \in [Visitors -> Nat]
      /\ anonymous'[p] = n + 1 /\ \A v \in Visitors \ {p} : anonymous'[v] = anonymous[v]
  BY <1>4 DEF FaqInv, FaqTyped
<1>6. ASSUME NEW w, Identity(w) PROVE Identity(w)'
  <2>1. w \in Persons \X Nat /\ (w[1] \in FaqUsers => w[2] = 0)
    BY <1>6 DEF Identity
  <2>2. ASSUME w[1] \notin FaqUsers PROVE w[2] \in 1..anonymous'[w[1]]
    <3>1. w[1] \in Visitors /\ w[2] \in 1..anonymous[w[1]]
      BY <1>6, <2>1, <2>2 DEF Identity, Persons
    <3>2. anonymous[w[1]] \in Nat /\ anonymous'[w[1]] \in Nat
          /\ anonymous[w[1]] <= anonymous'[w[1]]
      BY <1>2, <1>5, <3>1
    <3> QED BY <3>1, <3>2
  <2> QED BY <2>1, <2>2 DEF Identity
<1>7. /\ d.at = "known" /\ d.about = p /\ d.who = <<p, n + 1>> /\ d.who[1] = p
      /\ desk'[h] = d /\ (\A g \in Desks \ {h} : desk'[g] = desk[g])
      /\ desk' = [g \in Desks |-> desk'[g]]
  BY <1>3, <1>4 DEF FaqInv, DesksSound
<1>8. Identity(d.who)'
  <2>1. p \in Persons /\ p \notin FaqUsers
    BY FaqAssumption DEF Persons
  <2>2. n + 1 \in 1..anonymous'[p]
    BY <1>5
  <2> QED BY <1>7, <2>1, <2>2 DEF Identity
<1>9. DesksSound'
  <2>1. ASSUME NEW g \in Desks \ {h} PROVE DeskSound(desk[g])'
    <3>1. PICK c : c = desk[g] /\ c = desk'[g]
      BY <1>7
    <3>2. DeskSound(c)
      BY <3>1 DEF FaqInv, DesksSound
    <3>3. /\ (c.at = "unknown" => c.about \in Visitors)
          /\ (c.at \in {"known", "mark", "re-mark"} => Identity(c.who)' /\ c.who[1] = c.about)
          /\ (c.at \in {"mark", "re-mark"} => c.question \in DOMAIN questions' /\ c.state \in {-1, 1})
          /\ (c.at \in {"reply", "add", "change"} =>
                c.about \in DOMAIN questions' /\ c.who \in Moderators)
      BY <1>4, <1>6, <3>2 DEF DeskSound
    <3> QED BY <3>1, <3>3 DEF DeskSound
  <2>2. DeskSound(desk[h])'
    <3>1. (desk[h])' = d
      BY <1>7
    <3> QED BY <1>7, <1>8, <3>1 DEF DeskSound
  <2> QED BY <1>7, <2>1, <2>2 DEF DesksSound
<1>10. OneDesk'
  BY <1>1, <1>4, <1>7, OneDeskStays DEF FaqInv
<1>11. OneRow'
  <2>1. ASSUME NEW v \in Visitors \ raced PROVE anonymous'[v] <= 1
    <3>1. CASE v = p
      <4>1. n = 0
        BY <1>1, <1>2, <1>4, <2>1, <3>1 DEF FaqInv, OneRow, Unmet
      <4> QED BY <1>5, <3>1, <4>1
    <3>2. CASE v # p
      BY <1>5, <3>2 DEF FaqInv, OneRow
    <3> QED BY <3>1, <3>2
  <2>2. ASSUME NEW g \in Desks, desk'[g].at = "unknown", desk'[g].about \notin raced
        PROVE  anonymous'[desk'[g].about] = 0
    <3>1. g # h /\ desk'[g] = desk[g]
      BY <1>7, <2>2
    <3>2. desk[g].about # p
      <4>1. desk[g].about = p => desk[h].about \in raced
        BY <1>1, <1>4, <2>2, <3>1 DEF FaqInv, OneDesk
      <4> QED BY <1>1, <2>2, <3>1, <4>1
    <3>3. desk[g].about \in Visitors /\ anonymous[desk[g].about] = 0
      BY <2>2, <3>1 DEF FaqInv, DesksSound, DeskSound, OneRow, Unmet
    <3> QED BY <1>5, <3>1, <3>2, <3>3
  <2>3. \A g \in Desks : Unmet(desk[g])'
    BY <1>4, <2>2 DEF Unmet
  <2> QED BY <1>4, <2>1, <2>3 DEF OneRow
<1>12. FaqTyped' /\ AnsweredIffAnswer'
  <2>1. FaqTyped'
    BY <1>4, <1>5, <1>6 DEF FaqInv, FaqTyped
  <2> QED BY <1>4, <2>1, AnsweredStays DEF FaqInv, AnsweredIffAnswer
<1>13. OneVoice'
  <2>1. ASSUME NEW g \in Desks PROVE Unmarked(desk[g])'
    BY <1>4, <1>7 DEF FaqInv, OneVoice, Unmarked
  <2> QED BY <1>4, <2>1 DEF FaqInv, OneVoice
<1>14. OneAnswer'
  <2>1. ASSUME NEW g \in Desks PROVE Unanswered(desk[g])'
    BY <1>4, <1>7 DEF FaqInv, OneAnswer, Unanswered
  <2> QED BY <1>4, <2>1 DEF FaqInv, OneAnswer
<1> QED
  BY <1>9, <1>10, <1>11, <1>12, <1>13, <1>14 DEF FaqInv

\* A new question has no answer yet.
LEMMA AsksQuestion ==
  ASSUME FaqInv, NEW h \in Desks, AddFAQQuestion(h)
  PROVE  FaqInv'
<1>1. PICK c : c = desk[h]
  OBVIOUS
<1>2. PICK w \in Persons \X Nat : w = c.who
  BY <1>1 DEF AddFAQQuestion, FaqInv, DesksSound, DeskSound, Identity
<1>3. PICK new : new = [by |-> w, answered |-> FALSE, deleted |-> FALSE]
  OBVIOUS
<1>4. new \in Question /\ new.answered = FALSE /\ new.deleted = FALSE
  BY <1>3 DEF Question
<1>5. /\ questions' = Append(questions, new)
      /\ UNCHANGED <<anonymous, replies, marks, serial, raced>> /\ Sits(h, AtRest)
  BY <1>1, <1>2, <1>3 DEF AddFAQQuestion
<1>6. PICK n \in Nat : n = Len(questions)
  BY QuestionNumbers DEF FaqInv
<1>7. /\ questions' \in Seq(Question) /\ DOMAIN questions = 1..n
      /\ DOMAIN questions' = 1..n + 1 /\ questions'[n + 1] = new
      /\ \A q \in 1..n : questions'[q] = questions[q]
  <2>1. PICK type : type = Question
    OBVIOUS
  <2>2. questions \in Seq(type) /\ new \in type
    BY <1>4, <2>1 DEF FaqInv, FaqTyped
  <2>3. /\ questions' \in Seq(type) /\ DOMAIN questions = 1..n
        /\ DOMAIN questions' = 1..n + 1 /\ questions'[n + 1] = new
        /\ \A q \in 1..n : questions'[q] = questions[q]
    BY <1>5, <1>6, <2>2
  <2> QED BY <2>1, <2>3
<1>8. \A v : Identity(v)' <=> Identity(v)
  BY <1>5, IdentityStays
<1>9. SomeRest
  BY <1>5, OneRests DEF FaqInv
<1>10. DesksSound' /\ OneDesk'
  BY <1>7, <1>8, <1>9, DesksStay
<1>11. OneRow' /\ OneVoice' /\ OneAnswer'
  BY <1>5, <1>9, OneRowStays, OneVoiceStays, OneAnswerStays
<1>12. FaqTyped'
  BY <1>5, <1>7, <1>8 DEF FaqInv, FaqTyped
<1>13. \A q : Exists(q) => Exists(q)'
  BY <1>7 DEF Exists
<1>14. AnsweredIffAnswer'
  <2>1. ASSUME NEW q \in There' PROVE (questions[q].answered <=> AnswersTo(q) # {})'
    <3>1. AnswersTo(q)' = AnswersTo(q)
      BY <1>5 DEF AnswersTo
    <3>2. CASE q = n + 1
      <4>1. AnswersTo(q) = {}
        BY <1>7, <3>2 DEF FaqInv, AnsweredIffAnswer, Exists, AnswersTo
      <4> QED BY <1>4, <1>7, <3>1, <3>2, <4>1
    <3>3. CASE q # n + 1
      <4>1. q \in 1..n /\ q \in There
        BY <1>7, <3>3 DEF There, Exists
      <4> QED BY <1>7, <3>1, <4>1 DEF FaqInv, AnsweredIffAnswer
    <3> QED BY <3>2, <3>3
  <2> QED BY <1>5, <1>13, <2>1 DEF FaqInv, AnsweredIffAnswer
<1> QED
  BY <1>10, <1>11, <1>12, <1>14 DEF FaqInv

\* Steps of a request that write marks.
LEMMA MarksWritten ==
  ASSUME FaqInv, NEW h \in Desks, Sits(h, AtRest),
         UNCHANGED <<anonymous, questions, replies, raced>>, marks' \in SUBSET Mark,
         serial' \in Nat, \A k \in marks' : Identity(k.who) /\ Exists(k.question)
  PROVE  FaqTyped' /\ DesksSound' /\ AnsweredIffAnswer' /\ OneDesk' /\ OneRow' /\ OneAnswer'
<1>1. SomeRest
  BY OneRests DEF FaqInv
<1>2. \A v : Identity(v)' <=> Identity(v)
  BY IdentityStays
<1>3. DesksSound' /\ OneDesk'
  BY <1>1, <1>2, DesksStay
<1>4. OneRow' /\ OneAnswer'
  BY <1>1, OneRowStays, OneAnswerStays
<1>5. FaqTyped'
  BY <1>2 DEF FaqInv, FaqTyped
<1>6. AnsweredIffAnswer'
  BY AnsweredStays DEF FaqInv
<1> QED BY <1>3, <1>4, <1>5, <1>6

LEMMA FirstMark ==
  ASSUME FaqInv, NEW h \in Desks, CreateFAQMark(h)
  PROVE  FaqInv'
<1>1. PICK c : c = desk[h]
  OBVIOUS
<1>2. /\ c.at = "mark" /\ Identity(c.who) /\ c.who[1] = c.about /\ Exists(c.question)
      /\ c.question \in DOMAIN questions /\ c.state \in {-1, 1} /\ c.who \in Persons \X Nat
  BY <1>1 DEF CreateFAQMark, FaqInv, DesksSound, DeskSound, Identity
<1>3. PICK n \in Nat : n = serial + 1
  BY DEF FaqInv, FaqTyped
<1>4. PICK new : new = [id |-> n, question |-> c.question, who |-> c.who, state |-> c.state]
  OBVIOUS
<1>5. new \in Mark /\ new.question = c.question /\ new.who = c.who
  <2>1. c.question \in Nat
    BY <1>2, QuestionNumbers DEF FaqInv
  <2> QED BY <1>2, <1>4, <2>1 DEF Mark
<1>6. /\ marks' = marks \cup {new} /\ serial' = n /\ Sits(h, AtRest)
      /\ UNCHANGED <<anonymous, questions, replies, raced>>
  BY <1>1, <1>3, <1>4 DEF CreateFAQMark
<1>7. FaqTyped' /\ DesksSound' /\ AnsweredIffAnswer' /\ OneDesk' /\ OneRow' /\ OneAnswer'
  <2>1. marks' \in SUBSET Mark /\ \A k \in marks' : Identity(k.who) /\ Exists(k.question)
    BY <1>2, <1>5, <1>6 DEF FaqInv, FaqTyped, AnsweredIffAnswer
  <2> QED BY <1>6, <2>1, MarksWritten
<1>8. OneVoice'
  <2>1. c.about \notin raced => \A k \in marks : k.question # c.question \/ k.who[1] # c.about
    BY <1>1, <1>2 DEF FaqInv, OneVoice, Unmarked
  <2>2. ASSUME NEW k1 \in marks', NEW k2 \in marks', k1.question = k2.question,
               k1.who[1] = k2.who[1], k1.who[1] \notin raced
        PROVE  k1 = k2
    BY <1>2, <1>5, <1>6, <2>1, <2>2 DEF FaqInv, OneVoice
  <2>3. ASSUME NEW g \in Desks PROVE Unmarked(desk[g])'
    <3>1. desk'[h] = AtRest /\ \A i \in Desks \ {h} : desk'[i] = desk[i]
      BY <1>6, OneRests DEF FaqInv
    <3>2. CASE g = h
      BY <3>1, <3>2 DEF Unmarked, AtRest
    <3>3. CASE g # h
      <4>1. PICK d : d = desk[g] /\ d = desk'[g]
        BY <3>1, <3>3
      <4>2. ASSUME d.at = "mark", d.about \notin raced, NEW k \in marks',
                   k.question = d.question, k.who[1] = d.about
            PROVE  FALSE
        <5>1. k = new
          BY <1>6, <4>1, <4>2 DEF FaqInv, OneVoice, Unmarked
        <5>2. d.about = c.about
          BY <1>2, <1>5, <4>2, <5>1
        <5> QED BY <1>1, <1>2, <3>3, <4>1, <4>2, <5>2 DEF FaqInv, OneDesk
      <4>3. (desk[g])' = d
        BY <4>1
      <4> QED BY <1>6, <4>2, <4>3 DEF Unmarked
    <3> QED BY <3>2, <3>3
  <2> QED BY <1>6, <2>2, <2>3 DEF OneVoice
<1> QED
  BY <1>7, <1>8 DEF FaqInv

LEMMA OtherMark ==
  ASSUME FaqInv, NEW h \in Desks, UpdateFAQMarkByID(h)
  PROVE  FaqInv'
<1>1. PICK c : c = desk[h]
  OBVIOUS
<1>2. c.at = "re-mark" /\ c.state \in {-1, 1}
  BY <1>1 DEF UpdateFAQMarkByID, FaqInv, DesksSound, DeskSound
<1>3. PICK hit : hit = MarksBy(c.question, c.who)
  OBVIOUS
<1>4. /\ marks' = {IF k \in hit THEN [k EXCEPT !.state = c.state] ELSE k : k \in marks}
      /\ Sits(h, AtRest) /\ UNCHANGED <<anonymous, questions, replies, serial, raced>>
  BY <1>1, <1>3 DEF UpdateFAQMarkByID
<1>5. ASSUME NEW k \in marks'
      PROVE  \E j \in marks : /\ k = IF j \in hit THEN [j EXCEPT !.state = c.state] ELSE j
                              /\ k \in Mark /\ k.question = j.question /\ k.who = j.who
  <2>1. PICK j \in marks : k = IF j \in hit THEN [j EXCEPT !.state = c.state] ELSE j
    BY <1>4, <1>5
  <2>2. j \in Mark
    BY DEF FaqInv, FaqTyped
  <2>3. k \in Mark /\ k.question = j.question /\ k.who = j.who
    BY <1>2, <2>1, <2>2 DEF Mark
  <2> QED BY <2>1, <2>3
<1>6. FaqTyped' /\ DesksSound' /\ AnsweredIffAnswer' /\ OneDesk' /\ OneRow' /\ OneAnswer'
  <2>1. marks' \in SUBSET Mark
    BY <1>5
  <2>2. \A k \in marks' : Identity(k.who) /\ Exists(k.question)
    BY <1>5 DEF FaqInv, FaqTyped, AnsweredIffAnswer
  <2> QED BY <1>4, <2>1, <2>2, MarksWritten DEF FaqInv, FaqTyped
<1>7. OneVoice'
  <2>1. ASSUME NEW k1 \in marks', NEW k2 \in marks', k1.question = k2.question,
               k1.who[1] = k2.who[1], k1.who[1] \notin raced
        PROVE  k1 = k2
    <3>1. PICK j1 \in marks : /\ k1 = IF j1 \in hit THEN [j1 EXCEPT !.state = c.state] ELSE j1
                              /\ k1.question = j1.question /\ k1.who = j1.who
      BY <1>5
    <3>2. PICK j2 \in marks : /\ k2 = IF j2 \in hit THEN [j2 EXCEPT !.state = c.state] ELSE j2
                              /\ k2.question = j2.question /\ k2.who = j2.who
      BY <1>5
    <3>3. j1 = j2
      BY <2>1, <3>1, <3>2 DEF FaqInv, OneVoice
    <3> QED BY <3>1, <3>2, <3>3
  <2>2. ASSUME NEW g \in Desks PROVE Unmarked(desk[g])'
    <3>1. desk'[g] = desk[g] \/ desk'[g] = AtRest
      BY <1>4, OneRests DEF FaqInv
    <3>2. CASE desk'[g] = AtRest
      BY <3>2 DEF Unmarked, AtRest
    <3>3. CASE desk'[g] = desk[g]
      <4>1. PICK d : d = desk[g] /\ d = desk'[g]
        BY <3>3
      <4>2. ASSUME d.at = "mark", d.about \notin raced, NEW k \in marks'
            PROVE  k.question # d.question \/ k.who[1] # d.about
        <5>1. PICK j \in marks : k.question = j.question /\ k.who = j.who
          BY <1>5
        <5> QED BY <4>1, <4>2, <5>1 DEF FaqInv, OneVoice, Unmarked
      <4>3. (desk[g])' = d
        BY <4>1
      <4> QED BY <1>4, <4>2, <4>3 DEF Unmarked
    <3> QED BY <3>1, <3>2, <3>3
  <2> QED BY <1>4, <2>1, <2>2 DEF OneVoice
<1> QED
  BY <1>6, <1>7 DEF FaqInv

LEMMA Rejects ==
  ASSUME FaqInv, NEW m \in Moderators, NEW q \in DOMAIN questions, HandleReject(m, q)
  PROVE  FaqInv'
<1>1. /\ questions' = [questions EXCEPT ![q].deleted = TRUE]
      /\ replies' = {a \in replies : a.question # q} /\ marks' = {k \in marks : k.question # q}
      /\ UNCHANGED <<anonymous, serial, desk, raced>>
  BY DEF HandleReject
<1>2. SomeRest
  BY <1>1 DEF SomeRest, FaqInv, DesksSound
<1>3. /\ questions' \in Seq(Question) /\ DOMAIN questions' = DOMAIN questions
      /\ questions'[q].deleted
      /\ \A x \in DOMAIN questions : questions'[x].answered = questions[x].answered
      /\ \A x \in DOMAIN questions \ {q} : questions'[x] = questions[x]
  <2>1. PICK old \in Question : old = questions[q]
    BY QuestionNumbers DEF FaqInv
  <2>2. PICK new : new = [old EXCEPT !.deleted = TRUE]
    OBVIOUS
  <2>3. new \in Question /\ new.deleted /\ new.answered = old.answered
    BY <2>2 DEF Question
  <2>4. questions' = [questions EXCEPT ![q] = new]
    BY <1>1, <2>1, <2>2
  <2>5. PICK type : type = Question
    OBVIOUS
  <2>6. questions \in Seq(type) /\ new \in type
    BY <2>3, <2>5 DEF FaqInv, FaqTyped
  <2>7. questions' \in Seq(type) /\ DOMAIN questions' = DOMAIN questions
        /\ questions'[q] = new
        /\ \A x \in DOMAIN questions \ {q} : questions'[x] = questions[x]
    BY <2>4, <2>6
  <2> QED BY <2>1, <2>3, <2>5, <2>7
<1>4. \A v : Identity(v)' <=> Identity(v)
  BY <1>1, IdentityStays
<1>5. DesksSound' /\ OneDesk'
  BY <1>2, <1>3, <1>4, DesksStay
<1>6. OneRow' /\ OneVoice' /\ OneAnswer'
  BY <1>1, <1>2, OneRowStays, OneVoiceStays, OneAnswerStays
<1>7. FaqTyped'
  BY <1>1, <1>3, <1>4 DEF FaqInv, FaqTyped
<1>8. \A x : Exists(x)' <=> x # q /\ Exists(x)
  BY <1>3 DEF Exists
<1>9. AnsweredIffAnswer'
  <2>1. ASSUME NEW x \in There' PROVE (questions[x].answered <=> AnswersTo(x) # {})'
    <3>1. x \in There /\ x # q /\ x \in DOMAIN questions
      BY <1>3, <1>8, <2>1 DEF There
    <3>2. AnswersTo(x)' = AnswersTo(x)
      BY <1>1, <3>1 DEF AnswersTo
    <3> QED BY <1>3, <3>1, <3>2 DEF FaqInv, AnsweredIffAnswer
  <2> QED BY <1>1, <1>8, <2>1 DEF FaqInv, AnsweredIffAnswer
<1> QED
  BY <1>5, <1>6, <1>7, <1>9 DEF FaqInv

LEMMA FirstAnswer ==
  ASSUME FaqInv, NEW h \in Desks, AddFAQAnswer(h)
  PROVE  FaqInv'
<1>1. PICK c : c = desk[h]
  OBVIOUS
<1>2. PICK q \in DOMAIN questions : q = c.about
  BY <1>1 DEF AddFAQAnswer, FaqInv, DesksSound, DeskSound
<1>3. c.at = "add" /\ Exists(q) /\ c.who \in Moderators
  BY <1>1, <1>2 DEF AddFAQAnswer, FaqInv, DesksSound, DeskSound
<1>4. PICK n \in Nat : n = serial + 1
  BY DEF FaqInv, FaqTyped
<1>5. PICK new : new = [id |-> n, question |-> q, by |-> c.who]
  OBVIOUS
<1>6. new \in Reply /\ new.question = q
  <2>1. q \in Nat
    BY QuestionNumbers DEF FaqInv
  <2> QED BY <1>3, <1>5, <2>1 DEF Reply
<1>7. /\ questions' = [questions EXCEPT ![q].answered = TRUE]
      /\ replies' = replies \cup {new} /\ serial' = n /\ Sits(h, AtRest)
      /\ UNCHANGED <<anonymous, marks, raced>>
  BY <1>1, <1>2, <1>4, <1>5 DEF AddFAQAnswer
<1>8. SomeRest
  BY <1>7, OneRests DEF FaqInv
<1>9. /\ questions' \in Seq(Question) /\ DOMAIN questions' = DOMAIN questions
      /\ questions'[q].answered = TRUE
      /\ \A x \in DOMAIN questions : questions'[x].deleted = questions[x].deleted
      /\ \A x \in DOMAIN questions \ {q} : questions'[x] = questions[x]
  <2>1. PICK old \in Question : old = questions[q]
    BY QuestionNumbers DEF FaqInv
  <2>2. PICK quest : quest = [old EXCEPT !.answered = TRUE]
    OBVIOUS
  <2>3. quest \in Question /\ quest.answered = TRUE /\ quest.deleted = old.deleted
    BY <2>2 DEF Question
  <2>4. questions' = [questions EXCEPT ![q] = quest]
    BY <1>7, <2>1, <2>2
  <2>5. PICK type : type = Question
    OBVIOUS
  <2>6. questions \in Seq(type) /\ quest \in type
    BY <2>3, <2>5 DEF FaqInv, FaqTyped
  <2>7. questions' \in Seq(type) /\ DOMAIN questions' = DOMAIN questions
        /\ questions'[q] = quest
        /\ \A x \in DOMAIN questions \ {q} : questions'[x] = questions[x]
    BY <2>4, <2>6
  <2> QED BY <2>1, <2>3, <2>5, <2>7
<1>10. \A v : Identity(v)' <=> Identity(v)
  BY <1>7, IdentityStays
<1>11. DesksSound' /\ OneDesk'
  BY <1>8, <1>9, <1>10, DesksStay
<1>12. OneRow' /\ OneVoice'
  BY <1>7, <1>8, OneRowStays, OneVoiceStays
<1>13. FaqTyped'
  <2>1. replies' \in SUBSET Reply
    BY <1>6, <1>7 DEF FaqInv, FaqTyped
  <2> QED BY <1>7, <1>9, <1>10, <2>1 DEF FaqInv, FaqTyped
<1>14. \A x : Exists(x)' <=> Exists(x)
  BY <1>9 DEF Exists
<1>15. AnsweredIffAnswer'
  <2>1. ASSUME NEW x \in There' PROVE (questions[x].answered <=> AnswersTo(x) # {})'
    <3>1. x \in There /\ x \in DOMAIN questions
      BY <1>9, <1>14, <2>1 DEF There
    <3>2. CASE x = q
      <4>1. new \in AnswersTo(x)'
        BY <1>6, <1>7, <3>2 DEF AnswersTo
      <4> QED BY <1>9, <3>2, <4>1
    <3>3. CASE x # q
      <4>1. AnswersTo(x)' = AnswersTo(x)
        BY <1>6, <1>7, <3>3 DEF AnswersTo
      <4> QED BY <1>9, <3>1, <3>3, <4>1 DEF FaqInv, AnsweredIffAnswer
    <3> QED BY <3>2, <3>3
  <2>2. \A a \in replies' : Exists(a.question)'
    BY <1>3, <1>6, <1>7, <1>14 DEF FaqInv, AnsweredIffAnswer
  <2> QED BY <1>7, <1>14, <2>1, <2>2 DEF FaqInv, AnsweredIffAnswer
<1>16. OneAnswer'
  <2>1. q \notin raced => \A a \in replies : a.question # q
    BY <1>1, <1>2, <1>3 DEF FaqInv, OneAnswer, Unanswered
  <2>2. ASSUME NEW a1 \in replies', NEW a2 \in replies', a1.question = a2.question,
               a1.question \notin raced
        PROVE  a1 = a2
    BY <1>6, <1>7, <2>1, <2>2 DEF FaqInv, OneAnswer
  <2>3. ASSUME NEW g \in Desks PROVE Unanswered(desk[g])'
    <3>1. desk'[h] = AtRest /\ \A i \in Desks \ {h} : desk'[i] = desk[i]
      BY <1>7, OneRests DEF FaqInv
    <3>2. CASE g = h
      BY <3>1, <3>2 DEF Unanswered, AtRest
    <3>3. CASE g # h
      <4>1. PICK d : d = desk[g] /\ d = desk'[g]
        BY <3>1, <3>3
      <4>2. ASSUME d.at = "add", d.about \notin raced, NEW a \in replies', a.question = d.about
            PROVE  FALSE
        <5>1. a = new
          BY <1>7, <4>1, <4>2 DEF FaqInv, OneAnswer, Unanswered
        <5>2. d.about = c.about
          BY <1>2, <1>6, <4>2, <5>1
        <5> QED BY <1>1, <1>3, <3>3, <4>1, <4>2, <5>2 DEF FaqInv, OneDesk
      <4>3. (desk[g])' = d
        BY <4>1
      <4> QED BY <1>7, <4>2, <4>3 DEF Unanswered
    <3> QED BY <3>2, <3>3
  <2> QED BY <1>7, <2>2, <2>3 DEF OneAnswer
<1> QED
  BY <1>11, <1>12, <1>13, <1>15, <1>16 DEF FaqInv

LEMMA OtherAnswer ==
  ASSUME FaqInv, NEW h \in Desks, UpdateFAQAnswer(h)
  PROVE  FaqInv'
<1>1. PICK c : c = desk[h]
  OBVIOUS
<1>2. c.at = "change" /\ c.who \in Moderators
  BY <1>1 DEF UpdateFAQAnswer, FaqInv, DesksSound, DeskSound
<1>3. PICK row : row = c.row
  OBVIOUS
<1>4. /\ replies' = {IF a.id = row THEN [a EXCEPT !.by = c.who] ELSE a : a \in replies}
      /\ Sits(h, AtRest) /\ UNCHANGED <<anonymous, questions, marks, serial, raced>>
  BY <1>1, <1>3 DEF UpdateFAQAnswer
<1>5. ASSUME NEW a \in replies'
      PROVE  \E b \in replies : /\ a = IF b.id = row THEN [b EXCEPT !.by = c.who] ELSE b
                                /\ a \in Reply /\ a.question = b.question
  <2>1. PICK b \in replies : a = IF b.id = row THEN [b EXCEPT !.by = c.who] ELSE b
    BY <1>4, <1>5
  <2>2. b \in Reply
    BY DEF FaqInv, FaqTyped
  <2>3. a \in Reply /\ a.question = b.question
    BY <1>2, <2>1, <2>2 DEF Reply
  <2> QED BY <2>1, <2>3
<1>6. ASSUME NEW b \in replies PROVE \E a \in replies' : a.question = b.question
  <2>1. PICK a : a = IF b.id = row THEN [b EXCEPT !.by = c.who] ELSE b
    OBVIOUS
  <2>2. b \in Reply
    BY DEF FaqInv, FaqTyped
  <2>3. a.question = b.question
    BY <2>1, <2>2 DEF Reply
  <2>4. a \in replies'
    BY <1>4, <2>1
  <2> QED BY <2>3, <2>4
<1>7. SomeRest
  BY <1>4, OneRests DEF FaqInv
<1>8. \A v : Identity(v)' <=> Identity(v)
  BY <1>4, IdentityStays
<1>9. DesksSound' /\ OneDesk'
  BY <1>4, <1>7, <1>8, DesksStay
<1>10. OneRow' /\ OneVoice'
  BY <1>4, <1>7, OneRowStays, OneVoiceStays
<1>11. FaqTyped'
  <2>1. replies' \in SUBSET Reply
    BY <1>5
  <2> QED BY <1>4, <1>8, <2>1 DEF FaqInv, FaqTyped
<1>12. \A x : Exists(x)' <=> Exists(x)
  BY <1>4 DEF Exists
<1>13. AnsweredIffAnswer'
  <2>1. ASSUME NEW x PROVE AnswersTo(x)' # {} <=> AnswersTo(x) # {}
    BY <1>5, <1>6 DEF AnswersTo
  <2>2. \A a \in replies' : Exists(a.question)'
    BY <1>5, <1>12 DEF FaqInv, AnsweredIffAnswer
  <2>3. There' = There
    BY <1>4 DEF There, Exists
  <2>4. \A q \in There' : (questions[q].answered <=> AnswersTo(q) # {})'
    BY <1>4, <2>1, <2>3 DEF FaqInv, AnsweredIffAnswer
  <2> QED BY <1>4, <1>12, <2>2, <2>4 DEF FaqInv, AnsweredIffAnswer
<1>14. OneAnswer'
  <2>1. ASSUME NEW a1 \in replies', NEW a2 \in replies', a1.question = a2.question,
               a1.question \notin raced
        PROVE  a1 = a2
    <3>1. PICK b1 \in replies : /\ a1 = IF b1.id = row THEN [b1 EXCEPT !.by = c.who] ELSE b1
                                /\ a1.question = b1.question
      BY <1>5
    <3>2. PICK b2 \in replies : /\ a2 = IF b2.id = row THEN [b2 EXCEPT !.by = c.who] ELSE b2
                                /\ a2.question = b2.question
      BY <1>5
    <3>3. b1 = b2
      BY <2>1, <3>1, <3>2 DEF FaqInv, OneAnswer
    <3> QED BY <3>1, <3>2, <3>3
  <2>2. ASSUME NEW g \in Desks PROVE Unanswered(desk[g])'
    <3>1. desk'[g] = desk[g] \/ desk'[g] = AtRest
      BY <1>4, OneRests DEF FaqInv
    <3>2. CASE desk'[g] = AtRest
      BY <3>2 DEF Unanswered, AtRest
    <3>3. CASE desk'[g] = desk[g]
      <4>1. PICK d : d = desk[g] /\ d = desk'[g]
        BY <3>3
      <4>2. ASSUME d.at = "add", d.about \notin raced, NEW a \in replies'
            PROVE  a.question # d.about
        <5>1. PICK b \in replies : a.question = b.question
          BY <1>5
        <5> QED BY <4>1, <4>2, <5>1 DEF FaqInv, OneAnswer, Unanswered
      <4>3. (desk[g])' = d
        BY <4>1
      <4> QED BY <1>4, <4>2, <4>3 DEF Unanswered
    <3> QED BY <3>1, <3>2, <3>3
  <2> QED BY <1>4, <2>1, <2>2 DEF OneAnswer
<1> QED
  BY <1>9, <1>10, <1>11, <1>13, <1>14 DEF FaqInv

\* Announcing a question touches none of this.
LEMMA Announces ==
  ASSUME FaqInv, UNCHANGED <<anonymous, questions, replies, marks, serial, desk, raced>>
  PROVE  FaqInv'
<1>1. SomeRest
  BY DEF SomeRest, FaqInv, DesksSound
<1>2. \A w : Identity(w)' <=> Identity(w)
  BY IdentityStays
<1>3. DesksSound' /\ OneDesk'
  BY <1>1, <1>2, DesksStay
<1>4. OneRow' /\ OneVoice' /\ OneAnswer'
  BY <1>1, OneRowStays, OneVoiceStays, OneAnswerStays
<1>5. FaqTyped' /\ AnsweredIffAnswer'
  BY <1>2, AnsweredStays DEF FaqInv, FaqTyped, AnsweredIffAnswer
<1> QED
  BY <1>3, <1>4, <1>5 DEF FaqInv

-----------------------------------------------------------------------------
(* Everybody once *)

LEMMA FaqStep ==
  ASSUME FaqInv, [FaqNext]_faqVars
  PROVE  FaqInv'
<1>1. ASSUME NEW h \in Desks, NEW p \in FaqUsers \cup Visitors, FAQAuthMiddleware(h, p)
      PROVE  FaqInv'
  BY <1>1, Recognises DEF Persons
<1>2. ASSUME NEW h \in Desks, SaveFAQAAnonymousUser(h) PROVE FaqInv'
  BY <1>2, SavesVisitor
<1>3. ASSUME NEW h \in Desks, AddFAQQuestion(h) PROVE FaqInv'
  BY <1>3, AsksQuestion
<1>4. ASSUME NEW h \in Desks, NEW q \in DOMAIN questions, NEW state \in {-1, 1},
             AddFAQMark(h, q, state)
      PROVE  FaqInv'
  BY <1>4, LooksForMark
<1>5. ASSUME NEW h \in Desks, CreateFAQMark(h) PROVE FaqInv'
  BY <1>5, FirstMark
<1>6. ASSUME NEW h \in Desks, UpdateFAQMarkByID(h) PROVE FaqInv'
  BY <1>6, OtherMark
<1>7. ASSUME NEW h \in Desks, NEW m \in Moderators, NEW q \in DOMAIN questions,
             HandleFAQMessage(h, m, q)
      PROVE  FaqInv'
  BY <1>7, TakesReply
<1>8. ASSUME NEW h \in Desks, GetFAQAnswerByFAQQuestionID(h) PROVE FaqInv'
  BY <1>8, LooksForAnswer
<1>9. ASSUME NEW h \in Desks, AddFAQAnswer(h) PROVE FaqInv'
  BY <1>9, FirstAnswer
<1>10. ASSUME NEW h \in Desks, UpdateFAQAnswer(h) PROVE FaqInv'
  BY <1>10, OtherAnswer
<1>11. ASSUME NEW h \in Desks, DeskFails(h) PROVE FaqInv'
  BY <1>11, GivesUp
<1>12. ASSUME NEW q \in sending, GoesToChannel(q) PROVE FaqInv'
  BY <1>12, Announces DEF GoesToChannel
<1>13. ASSUME NEW m \in Moderators, NEW q \in DOMAIN questions, HandleReject(m, q) PROVE FaqInv'
  BY <1>13, Rejects
<1>14. CASE SendFAQToModerators
  BY <1>14, Announces DEF SendFAQToModerators
<1>15. CASE FaqRestarts
  BY <1>15, Restarts
<1>16. CASE UNCHANGED faqVars
  BY <1>16, Announces DEF faqVars
<1> QED
  BY <1>1, <1>2, <1>3, <1>4, <1>5, <1>6, <1>7, <1>8, <1>9, <1>10, <1>11, <1>12, <1>13, <1>14,
     <1>15, <1>16 DEF FaqNext

LEMMA AtMostOne ==
  ASSUME NEW S, \A x, y \in S : x = y
  PROVE  IsFiniteSet(S) /\ Cardinality(S) <= 1
<1>1. CASE S = {}
  <2>1. IsFiniteSet(S) /\ Cardinality(S) = 0
    BY <1>1, FS_EmptySet
  <2> QED BY <2>1
<1>2. CASE S # {}
  <2>1. PICK x : S = {x}
    BY <1>2
  <2>2. IsFiniteSet(S) /\ Cardinality(S) = 1
    BY <2>1, FS_Singleton
  <2> QED BY <2>2
<1> QED BY <1>1, <1>2

\* A list of questions has a row for each of them while no question has two answers.
LEMMA ListedOnce ==
  ASSUME FaqInv, raced \cap DOMAIN questions = {},
         NEW who, NEW mine, NEW answered, TRUE \in answered
  PROVE  Cardinality(GetAllFAQ(who, mine, answered)) = GetFAQsTotals(who, mine, answered)
<1>1. PICK n \in Nat : n = Len(questions) /\ DOMAIN questions = 1..n
  BY QuestionNumbers DEF FaqInv
<1>2. PICK S : S = Selected(who, mine, answered)
  OBVIOUS
<1>3. S \subseteq 1..n
  BY <1>1, <1>2 DEF Selected, There
<1>4. IsFiniteSet(S)
  <2>1. IsFiniteSet(1..n)
    BY FS_Interval
  <2>2. S \in SUBSET (1..n)
    BY <1>3
  <2> QED BY <2>1, <2>2, FS_Subset
<1>5. ASSUME NEW q \in S PROVE questions[q].answered \in answered
  <2>1. q \in DOMAIN questions /\ questions[q].answered \in BOOLEAN
    BY <1>1, <1>3, QuestionNumbers DEF FaqInv, Question
  <2>2. CASE mine
    BY <1>2, <2>2 DEF Selected
  <2>3. CASE ~mine
    <3>1. questions[q].answered
      BY <1>2, <2>3 DEF Selected
    <3>2. questions[q].answered = TRUE
      BY <2>1, <3>1
    <3> QED BY <3>2
  <2> QED BY <2>2, <2>3
<1>6. GetFAQsTotals(who, mine, answered) = Cardinality(S)
  <2>1. {q \in S : questions[q].answered \in answered} = S
    BY <1>5
  <2> QED BY <1>2, <2>1 DEF GetFAQsTotals
<1>7. \A q \in S : \A a1, a2 \in AnswersTo(q) : a1 = a2
  BY <1>1, <1>3 DEF FaqInv, OneAnswer, AnswersTo
<1>8. PICK row : row = [q \in S |-> IF AnswersTo(q) = {} THEN <<q, 0>>
                                    ELSE <<q, (CHOOSE a \in AnswersTo(q) : TRUE).id>>]
  OBVIOUS
<1>9. PICK T : T = GetAllFAQ(who, mine, answered)
  OBVIOUS
<1>10. ASSUME NEW q \in S
       PROVE  {row[q]} = IF AnswersTo(q) = {} THEN {<<q, 0>>} ELSE {<<q, a.id>> : a \in AnswersTo(q)}
  <2>1. CASE AnswersTo(q) = {}
    BY <1>8, <2>1
  <2>2. CASE AnswersTo(q) # {}
    <3>1. PICK b \in AnswersTo(q) : b = CHOOSE a \in AnswersTo(q) : TRUE
      BY <2>2
    <3>2. \A a \in AnswersTo(q) : a = b
      BY <1>7
    <3>3. AnswersTo(q) = {b}
      BY <3>2
    <3>4. row[q] = <<q, b.id>>
      BY <1>8, <2>2, <3>1
    <3> QED BY <2>2, <3>3, <3>4
  <2> QED BY <2>1, <2>2
<1>11. T = {row[q] : q \in S}
  BY <1>2, <1>9, <1>10 DEF GetAllFAQ
<1>12. row \in Bijection(S, T)
  <2>1. \A q \in S : row[q][1] = q
    BY <1>8
  <2>2. row \in [S -> T]
    BY <1>8, <1>11
  <2>3. \A x, y \in S : row[x] = row[y] => x = y
    BY <2>1
  <2>4. \A t \in T : \E q \in S : row[q] = t
    BY <1>11
  <2>5. row \in Injection(S, T)
    BY <2>2, <2>3 DEF Injection, IsInjective
  <2>6. row \in Surjection(S, T)
    BY <2>2, <2>4 DEF Surjection
  <2> QED BY <2>5, <2>6 DEF Bijection
<1>13. ExistsBijection(S, T)
  BY <1>12 DEF ExistsBijection
<1>14. Cardinality(T) = Cardinality(S)
  BY <1>4, <1>13, FS_Bijection
<1> QED BY <1>6, <1>9, <1>14

LEMMA FaqCounts == FaqInv => FaqCountsAgree
<1> SUFFICES ASSUME FaqInv PROVE FaqCountsAgree
  OBVIOUS
<1>1. ASSUME NEW p \in Persons \ raced, NEW q \in There
      PROVE  Cardinality(UNION {MarksBy(q, <<p, i>>) : i \in 0..1}) <= 1
  <2>1. PICK S : S = UNION {MarksBy(q, <<p, i>>) : i \in 0..1}
    OBVIOUS
  <2>2. \A k \in S : k \in marks /\ k.question = q /\ k.who[1] = p
    BY <2>1 DEF MarksBy
  <2>3. \A k1, k2 \in S : k1 = k2
    BY <2>2 DEF FaqInv, OneVoice
  <2> QED BY <2>1, <2>3, AtMostOne
<1>2. \A p \in Visitors \ raced : anonymous[p] <= 1
  BY DEF FaqInv, OneRow
<1>3. ASSUME raced \cap DOMAIN questions = {}, NEW p \in FaqUsers,
             NEW o \in BOOLEAN \X {{TRUE}, BOOLEAN}
      PROVE  Cardinality(GetAllFAQ(<<p, 0>>, o[1], o[2])) = GetFAQsTotals(<<p, 0>>, o[1], o[2])
  <2>1. TRUE \in o[2]
    OBVIOUS
  <2> QED BY <1>3, <2>1, ListedOnce
<1>4. EverybodyOnce
  BY <1>1, <1>2, <1>3 DEF EverybodyOnce, Persons
<1> QED
  BY <1>4 DEF FaqInv, FaqCountsAgree

\* A question counts as answered exactly if there is an answer, nothing outlives a rejected
\* question, and whoever comes one request at a time has one voice and is counted once
\* (AddFAQAnswer, handleReject, AddFAQMark, FAQAuthMiddleware, GetAllFAQ, GetFAQsTotals).
THEOREM EverybodyCountedOnce == FaqSpec => []FaqCountsAgree
<1>1. FaqSpec => []FaqInv
  BY FaqStarts, FaqStep, PTL DEF FaqSpec
<1> QED
  BY <1>1, FaqCounts, PTL

-----------------------------------------------------------------------------
(***************************************************************************)
(* Duck points that a user took off the list of tokens stay off it.        *)
(*                                                                         *)
(* Adding a token takes a mint, and duck points are none; editing a row    *)
(* keeps its mint.  A list has one row per mint, which is what a removal   *)
(* and an edit by user and mint rely on.                                   *)
(***************************************************************************)
TokenRow == [mint : Mints \cup {"dpoint"}, visible : BOOLEAN, swappable : BOOLEAN]

TokensInv == listed \in [Bearers -> SUBSET TokenRow] /\ WalletTokensTypeOK

\* An edit of one list that keeps its rows sound, and adds no duck points.
\* what one step may not do (the action of DuckPointsStayRemoved)
NoNewPoints ==
    \A u \in Bearers : "dpoint" \in MintsListed(u)' => "dpoint" \in MintsListed(u)

LEMMA ListEdited ==
  ASSUME TokensInv, NEW u \in Bearers, NEW rows \in SUBSET TokenRow, Edits(u, rows),
         \A r, s \in rows : r.mint = s.mint => r = s,
         \A r \in rows : r.mint = "dpoint" => "dpoint" \in MintsListed(u)
  PROVE  TokensInv' /\ NoNewPoints
<1>1. /\ listed' \in [Bearers -> SUBSET TokenRow] /\ listed'[u] = rows
      /\ \A v \in Bearers \ {u} : listed'[v] = listed[v]
  BY DEF Edits, TokensInv
<1>2. WalletTokensTypeOK'
  BY <1>1 DEF TokensInv, WalletTokensTypeOK
<1>3. ASSUME NEW v \in Bearers, "dpoint" \in MintsListed(v)' PROVE "dpoint" \in MintsListed(v)
  BY <1>1, <1>3 DEF MintsListed
<1> QED BY <1>1, <1>2, <1>3 DEF TokensInv, NoNewPoints

LEMMA TokensStep ==
  ASSUME TokensInv, [WalletTokensNext]_walletTokensVars
  PROVE  TokensInv' /\ NoNewPoints
<1>1. ASSUME NEW u \in Bearers
      PROVE  listed[u] \subseteq TokenRow /\ \A r, s \in listed[u] : r.mint = s.mint => r = s
  BY DEF TokensInv, WalletTokensTypeOK
<1>2. ASSUME NEW u \in Bearers, NEW m \in Mints \cup {"dpoint"}, RemoveTokenFromUserWallet(u, m)
      PROVE  TokensInv' /\ NoNewPoints
  <2>1. PICK rows : rows = {r \in listed[u] : r.mint # m}
    OBVIOUS
  <2>2. rows \in SUBSET TokenRow /\ Edits(u, rows) /\ rows \subseteq listed[u]
    BY <1>1, <1>2, <2>1 DEF RemoveTokenFromUserWallet
  <2>3. \A r \in rows : r.mint = "dpoint" => "dpoint" \in MintsListed(u)
    BY <2>2 DEF MintsListed
  <2>4. \A r, s \in rows : r.mint = s.mint => r = s
    BY <1>1, <2>2
  <2> QED BY <2>2, <2>3, <2>4, ListEdited
<1>3. ASSUME NEW u \in Bearers, NEW m \in Mints \cup {"dpoint"}, NEW seen \in BOOLEAN,
             NEW swap \in BOOLEAN, UpdateToken(u, m, seen, swap)
      PROVE  TokensInv' /\ NoNewPoints
  <2>1. PICK rows : rows = {IF r.mint = m THEN [r EXCEPT !.visible = seen, !.swappable = swap]
                            ELSE r : r \in listed[u]}
    OBVIOUS
  <2>2. ASSUME NEW s \in rows
        PROVE  \E r \in listed[u] :
                  /\ s = IF r.mint = m THEN [r EXCEPT !.visible = seen, !.swappable = swap] ELSE r
                  /\ s \in TokenRow /\ s.mint = r.mint
    <3>1. PICK r \in listed[u] :
             s = IF r.mint = m THEN [r EXCEPT !.visible = seen, !.swappable = swap] ELSE r
      BY <2>1
    <3>2. r \in TokenRow
      BY <1>1
    <3>3. s \in TokenRow /\ s.mint = r.mint
      BY <3>1, <3>2 DEF TokenRow
    <3> QED BY <3>1, <3>3
  <2>3. rows \in SUBSET TokenRow /\ Edits(u, rows)
    BY <1>3, <2>1, <2>2 DEF UpdateToken
  <2>4. \A r \in rows : r.mint = "dpoint" => "dpoint" \in MintsListed(u)
    BY <2>2 DEF MintsListed
  <2>5. ASSUME NEW r \in rows, NEW s \in rows, r.mint = s.mint PROVE r = s
    <3>1. PICK x \in listed[u] :
             /\ r = IF x.mint = m THEN [x EXCEPT !.visible = seen, !.swappable = swap] ELSE x
             /\ r.mint = x.mint
      BY <2>2
    <3>2. PICK y \in listed[u] :
             /\ s = IF y.mint = m THEN [y EXCEPT !.visible = seen, !.swappable = swap] ELSE y
             /\ s.mint = y.mint
      BY <2>2
    <3>3. x = y
      BY <1>1, <2>5, <3>1, <3>2
    <3> QED BY <3>1, <3>2, <3>3
  <2> QED BY <2>3, <2>4, <2>5, ListEdited
<1>4. ASSUME NEW u \in Bearers, NEW m \in Mints \cup {"dpoint"}, NEW seen \in BOOLEAN,
             NEW swap \in BOOLEAN,
             AddTokenToUserWallet(u, [mint |-> m, visible |-> seen, swappable |-> swap])
      PROVE  TokensInv' /\ NoNewPoints
  <2>1. PICK r : r = [mint |-> m, visible |-> seen, swappable |-> swap]
    OBVIOUS
  <2>2. r \in TokenRow /\ r.mint = m
    BY <2>1 DEF TokenRow
  <2>3. m \in Mints /\ m \notin MintsListed(u) /\ Edits(u, listed[u] \cup {r})
    BY <1>4, <2>1, <2>2 DEF AddTokenToUserWallet
  <2>4. m # "dpoint" /\ \A s \in listed[u] : s.mint # m
    BY <2>3, WalletTokensAssumption DEF MintsListed
  <2>5. PICK rows : rows = listed[u] \cup {r}
    OBVIOUS
  <2>6. rows \in SUBSET TokenRow
    BY <1>1, <2>2, <2>5
  <2>7. \A s \in rows : s.mint = "dpoint" => "dpoint" \in MintsListed(u)
    BY <2>2, <2>4, <2>5 DEF MintsListed
  <2>8. \A s, t \in rows : s.mint = t.mint => s = t
    BY <1>1, <2>2, <2>4, <2>5
  <2> QED BY <2>3, <2>5, <2>6, <2>7, <2>8, ListEdited
<1>5. CASE UNCHANGED walletTokensVars
  BY <1>5 DEF walletTokensVars, TokensInv, WalletTokensTypeOK, MintsListed, NoNewPoints
<1> QED
  BY <1>2, <1>3, <1>4, <1>5 DEF WalletTokensNext

LEMMA TokensStart == WalletTokensInit => TokensInv
<1> SUFFICES ASSUME WalletTokensInit PROVE TokensInv
  OBVIOUS
<1>4. ASSUME NEW r \in SignUpTokens
      PROVE  r \in TokenRow /\ r = [mint |-> r.mint, visible |-> TRUE, swappable |-> FALSE]
  <2>1. PICK m \in Mints \cup {"dpoint"} :
           r = [mint |-> m, visible |-> TRUE, swappable |-> FALSE]
    BY DEF SignUpTokens
  <2>2. r.mint = m
    BY <2>1
  <2>3. r \in TokenRow
    BY <2>1 DEF TokenRow
  <2> QED BY <2>1, <2>2, <2>3
<1>1. SignUpTokens \subseteq TokenRow
  BY <1>4
<1>2. ASSUME NEW r \in SignUpTokens, NEW s \in SignUpTokens, r.mint = s.mint PROVE r = s
  BY <1>2, <1>4
<1>3. listed \in [Bearers -> SUBSET TokenRow] /\ \A u \in Bearers : listed[u] = SignUpTokens
  BY <1>1 DEF WalletTokensInit
<1> QED BY <1>2, <1>3 DEF TokensInv, WalletTokensTypeOK

\* A user who took duck points off the list never sees them there again, whatever is added,
\* edited or removed (AddTokenToUserWallet, Update by user and mint).
THEOREM DuckPointsNeverReturn == WalletTokensSpec => DuckPointsStayRemoved
<1>1. WalletTokensSpec => []TokensInv
  BY TokensStart, TokensStep, PTL DEF WalletTokensSpec
<1>2. TokensInv /\ [WalletTokensNext]_walletTokensVars =>
        [\A u \in Bearers : "dpoint" \in MintsListed(u)' => "dpoint" \in MintsListed(u)]_walletTokensVars
  BY TokensStep DEF NoNewPoints
<1> QED
  BY <1>1, <1>2, PTL DEF WalletTokensSpec, DuckPointsStayRemoved
-----------------------------------------------------------------------------
(***************************************************************************)
(* The types of the four side by side.  What is still missing for them is  *)
(* where a question is on its way to the moderators, and that a row comes  *)
(* from a listing.                                                         *)
(***************************************************************************)

-----------------------------------------------------------------------------
(* The channel to the moderators *)

DeskStates == {"rest", "unknown", "known", "mark", "re-mark", "reply", "add", "change"}

\* What waits for the channel, and what is in it, has been asked, and is in one of the two.
ChannelInv ==
    /\ \A h \in Desks : desk[h].at \in DeskStates
    /\ channel \in Seq(Nat) /\ Len(channel) <= ChanFAQBot
    /\ \A i \in 1..Len(channel) : channel[i] \notin sending /\ channel[i] <= Len(questions)
    /\ \A q \in sending : q \in Nat /\ q <= Len(questions)

LEMMA ChannelStarts == FaqInit => ChannelInv
<1> SUFFICES ASSUME FaqInit PROVE ChannelInv
  OBVIOUS
<1>1. \A h \in Desks : desk[h].at = "rest"
  BY DEF FaqInit, AtRest
<1>2. channel = <<>> /\ sending = {} /\ ChanFAQBot \in Nat
  BY FaqAssumption DEF FaqInit
<1>3. channel \in Seq(Nat) /\ Len(channel) = 0
  BY <1>2
<1> QED BY <1>1, <1>2, <1>3 DEF ChannelInv, DeskStates

\* A request goes on; questions are asked, answered and rejected, never fewer.
LEMMA SitsDown ==
  ASSUME ChannelInv, NEW h \in Desks, NEW d, Sits(h, d), d.at \in DeskStates
  PROVE  \A g \in Desks : desk'[g].at \in DeskStates
<1>1. ASSUME NEW g \in Desks, desk'[g] # desk[g] PROVE desk'[g] = d
  BY <1>1 DEF Sits
<1> QED BY <1>1 DEF ChannelInv

LEMMA ChannelStays ==
  ASSUME ChannelInv, UNCHANGED <<sending, channel>>, Len(questions') = Len(questions),
         \A g \in Desks : desk'[g].at \in DeskStates
  PROVE  ChannelInv'
BY DEF ChannelInv

\* A question is asked, takes its place in the channel, is taken out of it.
LEMMA QuestionWaits ==
  ASSUME FaqInv, ChannelInv, NEW h \in Desks, AddFAQQuestion(h)
  PROVE  ChannelInv'
<1>1. \A g \in Desks : desk'[g].at \in DeskStates
  <2>1. AtRest.at \in DeskStates
    BY DEF AtRest, DeskStates
  <2> QED BY <2>1, SitsDown DEF AddFAQQuestion
<1>2. Len(questions) \in Nat /\ Len(questions') = Len(questions) + 1
  <2>1. PICK type : type = Question
    OBVIOUS
  <2>2. questions \in Seq(type)
    BY <2>1 DEF FaqInv, FaqTyped
  <2>3. PICK d : questions' = Append(questions, d)
    BY DEF AddFAQQuestion
  <2> QED BY <2>2, <2>3
<1>3. sending' = sending \cup {Len(questions) + 1} /\ channel' = channel
  BY DEF AddFAQQuestion
<1>4. \A i \in 1..Len(channel) : channel[i] \in Nat
  BY DEF ChannelInv
<1> QED BY <1>1, <1>2, <1>3, <1>4 DEF ChannelInv

LEMMA QuestionEnters ==
  ASSUME FaqInv, ChannelInv, NEW q \in sending, GoesToChannel(q)
  PROVE  ChannelInv'
<1>1. q \in Nat /\ q <= Len(questions) /\ channel \in Seq(Nat) /\ Len(channel) < ChanFAQBot
  BY DEF ChannelInv, GoesToChannel
<1>2. /\ channel' = Append(channel, q) /\ sending' = sending \ {q}
      /\ UNCHANGED <<questions, desk>>
  BY DEF GoesToChannel
<1>3. /\ channel' \in Seq(Nat) /\ Len(channel') = Len(channel) + 1
      /\ \A i \in 1..Len(channel') : (i \in 1..Len(channel) /\ channel'[i] = channel[i]) \/ channel'[i] = q
  BY <1>1, <1>2
<1>4. Len(channel) \in Nat /\ ChanFAQBot \in Nat
  BY <1>1, FaqAssumption
<1>5. Len(channel') <= ChanFAQBot
  BY <1>1, <1>3, <1>4
<1>6. \A i \in 1..Len(channel') : channel'[i] \notin sending' /\ channel'[i] <= Len(questions')
  BY <1>1, <1>2, <1>3 DEF ChannelInv
<1>7. \A p \in sending' : p \in Nat /\ p <= Len(questions')
  BY <1>2 DEF ChannelInv
<1>8. \A h \in Desks : desk'[h].at \in DeskStates
  BY <1>2 DEF ChannelInv
<1> QED BY <1>3, <1>5, <1>6, <1>7, <1>8 DEF ChannelInv

LEMMA QuestionLeaves ==
  ASSUME FaqInv, ChannelInv, SendFAQToModerators
  PROVE  ChannelInv'
<1>1. channel \in Seq(Nat) /\ channel # <<>>
  BY DEF ChannelInv, SendFAQToModerators
<1>2. channel' = Tail(channel) /\ UNCHANGED <<sending, questions, desk>>
  BY DEF SendFAQToModerators
<1>3. /\ channel' \in Seq(Nat) /\ Len(channel') = Len(channel) - 1
      /\ \A i \in 1..Len(channel') : i + 1 \in 1..Len(channel) /\ channel'[i] = channel[i + 1]
  BY <1>1, <1>2
<1>4. Len(channel') <= ChanFAQBot
  BY <1>1, <1>3, FaqAssumption DEF ChannelInv
<1>5. \A i \in 1..Len(channel') : channel'[i] \notin sending' /\ channel'[i] <= Len(questions')
  BY <1>2, <1>3 DEF ChannelInv
<1> QED BY <1>2, <1>3, <1>4, <1>5 DEF ChannelInv

LEMMA ChannelStep ==
  ASSUME FaqInv, ChannelInv, [FaqNext]_faqVars
  PROVE  ChannelInv'
<1> DEFINE DesksStand == \A g \in Desks : desk'[g].at \in DeskStates
<1>0. /\ \A h \in Desks : desk[h].at \in DeskStates
      /\ AtRest.at \in DeskStates
  BY DEF ChannelInv, AtRest, DeskStates
<1>a. ASSUME NEW h \in Desks, NEW d, Sits(h, d), d.at \in DeskStates,
             UNCHANGED <<sending, channel>>, Len(questions') = Len(questions)
      PROVE  ChannelInv'
  BY <1>a, SitsDown, ChannelStays
<1>1. ASSUME NEW h \in Desks, NEW p \in FaqUsers \cup Visitors, FAQAuthMiddleware(h, p)
      PROVE  ChannelInv'
  <2>1. UNCHANGED <<sending, channel, questions>>
    BY <1>1 DEF FAQAuthMiddleware, notices
  <2>2. \E d : Sits(h, d) /\ d.at \in DeskStates
    <3>1. CASE p \in FaqUsers
      BY <1>1, <3>1 DEF FAQAuthMiddleware, DeskStates
    <3>2. CASE p \notin FaqUsers /\ anonymous[p] = 0
      BY <1>1, <3>2 DEF FAQAuthMiddleware, DeskStates
    <3>3. CASE p \notin FaqUsers /\ anonymous[p] # 0
      <4>1. PICK i : Sits(h, [at |-> "known", about |-> p, who |-> <<p, i>>])
        BY <1>1, <3>3 DEF FAQAuthMiddleware
      <4> QED BY <4>1 DEF DeskStates
    <3> QED BY <3>1, <3>2, <3>3
  <2> QED BY <2>1, <2>2, <1>a
<1>2. ASSUME NEW h \in Desks, SaveFAQAAnonymousUser(h) PROVE ChannelInv'
  <2>1. UNCHANGED <<sending, channel, questions>>
    BY <1>2 DEF SaveFAQAAnonymousUser, notices
  <2>2. \E d : Sits(h, d) /\ d.at \in DeskStates
    BY <1>2 DEF SaveFAQAAnonymousUser, DeskStates
  <2> QED BY <2>1, <2>2, <1>a
<1>3. ASSUME NEW h \in Desks, AddFAQQuestion(h) PROVE ChannelInv'
  BY <1>3, QuestionWaits
<1>4. ASSUME NEW h \in Desks, NEW q \in DOMAIN questions, NEW state \in {-1, 1},
             AddFAQMark(h, q, state)
      PROVE  ChannelInv'
  <2>1. UNCHANGED <<sending, channel, questions>>
    BY <1>4 DEF AddFAQMark, notices
  <2>2. \E d : Sits(h, d) /\ d.at \in DeskStates
    BY <1>4 DEF AddFAQMark, DeskStates
  <2> QED BY <2>1, <2>2, <1>a
<1>5. ASSUME NEW h \in Desks, CreateFAQMark(h) \/ UpdateFAQMarkByID(h) \/ UpdateFAQAnswer(h) \/ DeskFails(h)
      PROVE ChannelInv'
  <2>1. UNCHANGED <<sending, channel, questions>>
    BY <1>5 DEF CreateFAQMark, UpdateFAQMarkByID, UpdateFAQAnswer, DeskFails, notices
  <2>2. Sits(h, AtRest)
    BY <1>5 DEF CreateFAQMark, UpdateFAQMarkByID, UpdateFAQAnswer, DeskFails
  <2> QED BY <2>1, <2>2, <1>0, <1>a
<1>6. ASSUME NEW h \in Desks, NEW m \in Moderators, NEW q \in DOMAIN questions,
             HandleFAQMessage(h, m, q)
      PROVE  ChannelInv'
  <2>1. UNCHANGED <<sending, channel, questions>>
    BY <1>6 DEF HandleFAQMessage, notices
  <2>2. \E d : Sits(h, d) /\ d.at \in DeskStates
    BY <1>6 DEF HandleFAQMessage, DeskStates
  <2> QED BY <2>1, <2>2, <1>a
<1>7. ASSUME NEW h \in Desks, GetFAQAnswerByFAQQuestionID(h) PROVE ChannelInv'
  <2>1. UNCHANGED <<sending, channel, questions>>
    BY <1>7 DEF GetFAQAnswerByFAQQuestionID, notices
  <2>2. \E d : Sits(h, d) /\ d.at \in DeskStates
    <3>1. CASE AnswersTo(desk[h].about) = {}
      BY <1>7, <3>1 DEF GetFAQAnswerByFAQQuestionID, DeskStates
    <3>2. CASE AnswersTo(desk[h].about) # {}
      <4>1. PICK i : Sits(h, [at |-> "change", about |-> desk[h].about, who |-> desk[h].who, row |-> i])
        BY <1>7, <3>2 DEF GetFAQAnswerByFAQQuestionID
      <4> QED BY <4>1 DEF DeskStates
    <3> QED BY <3>1, <3>2
  <2> QED BY <2>1, <2>2, <1>a
<1>s. \A x : \A q : Len([questions EXCEPT ![q] = x]) = Len(questions)
  <2>1. PICK type : type = Question
    OBVIOUS
  <2>2. questions \in Seq(type)
    BY <2>1 DEF FaqInv, FaqTyped
  <2> QED BY <2>2
<1>8. ASSUME NEW h \in Desks, AddFAQAnswer(h) PROVE ChannelInv'
  <2>1. UNCHANGED <<sending, channel>> /\ Sits(h, AtRest)
    BY <1>8 DEF AddFAQAnswer, notices
  <2>2. \E q, x : questions' = [questions EXCEPT ![q] = x]
    BY <1>8 DEF AddFAQAnswer
  <2>3. Len(questions') = Len(questions)
    BY <2>2, <1>s
  <2> QED BY <2>1, <2>3, <1>0, <1>a
<1>9. ASSUME NEW q \in sending, GoesToChannel(q) PROVE ChannelInv'
  BY <1>9, QuestionEnters
<1>10. ASSUME NEW m \in Moderators, NEW q \in DOMAIN questions, HandleReject(m, q) PROVE ChannelInv'
  <2>1. UNCHANGED <<sending, channel, desk>>
    BY <1>10 DEF HandleReject, notices
  <2>2. \E x : questions' = [questions EXCEPT ![q] = x]
    BY <1>10 DEF HandleReject
  <2>3. Len(questions') = Len(questions)
    BY <2>2, <1>s
  <2> QED BY <2>1, <2>3, <1>0, ChannelStays
<1>11. CASE SendFAQToModerators
  BY <1>11, QuestionLeaves
<1>12. CASE FaqRestarts
  <2>1. channel' = <<>> /\ sending' = {} /\ desk' = [h \in Desks |-> AtRest]
    BY <1>12 DEF FaqRestarts
  <2>2. channel' \in Seq(Nat) /\ Len(channel') = 0 /\ ChanFAQBot \in Nat
    BY <2>1, FaqAssumption
  <2>3. \A h \in Desks : desk'[h].at \in DeskStates
    BY <2>1, <1>0
  <2> QED BY <2>1, <2>2, <2>3 DEF ChannelInv
<1>13. CASE UNCHANGED faqVars
  BY <1>13, <1>0, ChannelStays DEF faqVars
<1> QED
  BY <1>1, <1>2, <1>3, <1>4, <1>5, <1>6, <1>7, <1>8, <1>9, <1>10, <1>11, <1>12, <1>13 DEF FaqNext

LEMMA FaqTypes == ChannelInv => FaqTypeOK
<1> SUFFICES ASSUME ChannelInv PROVE FaqTypeOK
  OBVIOUS
<1>1. ToSet(channel) \cap sending = {}
  BY DEF ChannelInv, ToSet
<1> QED BY <1>1 DEF ChannelInv, FaqTypeOK, DeskStates
-----------------------------------------------------------------------------
(* What the markets answer *)

\* What is done with a row, and the fold of a listing as FoldLeft chooses it.
PutEither(coin, rows, c) == IF coin THEN PutCoin(rows, c) ELSE PutRow(rows, c)

RowFold(coin, b, q) ==
  CHOOSE g : g = [s \in SUBSET DOMAIN q |->
                    IF s = {} THEN b ELSE PutEither(coin, g[s \ {Max(s)}], q[Max(s)])]

LEMMA CoinsFolded ==
  ASSUME NEW b, NEW q
  PROVE  FoldLeft(PutCoin, b, q) = RowFold(TRUE, b, q)[DOMAIN q]
BY DEF FoldLeft, MapThenFoldSet, RowFold, PutEither

LEMMA TokensFolded ==
  ASSUME NEW b, NEW q
  PROVE  FoldLeft(PutRow, b, q) = RowFold(FALSE, b, q)[DOMAIN q]
BY DEF FoldLeft, MapThenFoldSet, RowFold, PutEither

\* A listing names one coin or two.
LEMMA ListingsShort ==
  ASSUME NEW ids, NEW q \in Listings(ids)
  PROVE  /\ DOMAIN q = {1} \/ DOMAIN q = {1, 2}
         /\ \A i \in DOMAIN q : q[i].id \in ids
BY DEF Listings

LEMMA MaxOfTwo == Max({1}) = 1 /\ Max({2}) = 2 /\ Max({1, 2}) = 2
<1>1. \A S : Max(S) = CHOOSE x \in S : \A y \in S : x >= y
  BY DEF Max
<1>2. 1 \in {1} /\ 2 \in {2} /\ 2 \in {1, 2} /\ 1 \in {1, 2}
  OBVIOUS
<1>3. (CHOOSE x \in {1} : \A y \in {1} : x >= y) = 1
  OBVIOUS
<1>4. (CHOOSE x \in {2} : \A y \in {2} : x >= y) = 2
  OBVIOUS
<1>5. (CHOOSE x \in {1, 2} : \A y \in {1, 2} : x >= y) = 2
  OBVIOUS
<1> QED BY <1>1, <1>3, <1>4, <1>5

\* One row after the other.
LEMMA RowsInOrder ==
  ASSUME NEW coin \in BOOLEAN, NEW b, NEW q, DOMAIN q = {1} \/ DOMAIN q = {1, 2}
  PROVE  RowFold(coin, b, q)[DOMAIN q] = IF DOMAIN q = {1} THEN PutEither(coin, b, q[1])
                                   ELSE PutEither(coin, PutEither(coin, b, q[1]), q[2])
<1> DEFINE g == [s \in SUBSET DOMAIN q |->
                    IF s = {} THEN b ELSE IF s = {1} THEN PutEither(coin, b, q[1])
                    ELSE IF s = {2} THEN PutEither(coin, b, q[2]) ELSE PutEither(coin, PutEither(coin, b, q[1]), q[2])]
           G == RowFold(coin, b, q)
<1>1. ASSUME NEW s \in SUBSET DOMAIN q
      PROVE  g[s] = IF s = {} THEN b ELSE PutEither(coin, g[s \ {Max(s)}], q[Max(s)])
  <2>1. CASE s = {}
    BY <2>1
  <2>2. CASE s = {1}
    <3>1. s \ {Max(s)} = {}
      BY <2>2, MaxOfTwo
    <3> QED BY <2>2, <3>1, MaxOfTwo
  <2>3. CASE s = {2}
    <3>1. s \ {Max(s)} = {}
      BY <2>3, MaxOfTwo
    <3> QED BY <2>3, <3>1, MaxOfTwo
  <2>4. CASE s = {1, 2}
    <3>1. s \ {Max(s)} = {1} /\ {1} \in SUBSET DOMAIN q
      BY <2>4, MaxOfTwo
    <3> QED BY <2>4, <3>1, MaxOfTwo
  <2> QED BY <2>1, <2>2, <2>3, <2>4
<1>2. g = [s \in SUBSET DOMAIN q |-> g[s]]
  OBVIOUS
<1> HIDE DEF g
<1>3. g = [s \in SUBSET DOMAIN q |->
             IF s = {} THEN b ELSE PutEither(coin, g[s \ {Max(s)}], q[Max(s)])]
  BY <1>1, <1>2
<1>4. G = [s \in SUBSET DOMAIN q |->
             IF s = {} THEN b ELSE PutEither(coin, G[s \ {Max(s)}], q[Max(s)])]
  BY <1>3 DEF RowFold
<1> HIDE DEF G
<1>5. \A s \in SUBSET DOMAIN q :
         G[s] = IF s = {} THEN b ELSE PutEither(coin, G[s \ {Max(s)}], q[Max(s)])
  BY <1>4
<1>6. {} \in SUBSET DOMAIN q /\ G[{}] = b
  BY <1>5
<1>7. {1} \in SUBSET DOMAIN q /\ {1} \ {Max({1})} = {} /\ {1} # {}
  BY MaxOfTwo
<1>8. G[{1}] = PutEither(coin, b, q[1])
  BY <1>5, <1>6, <1>7, MaxOfTwo
<1>9. CASE DOMAIN q = {1}
  BY <1>8, <1>9 DEF G
<1>10. CASE DOMAIN q = {1, 2}
  <2>1. {1, 2} \ {Max({1, 2})} = {1} /\ {1, 2} # {} /\ {1, 2} # {1}
    BY MaxOfTwo
  <2>2. G[{1, 2}] = PutEither(coin, G[{1}], q[2])
    BY <1>5, <1>10, <2>1, MaxOfTwo
  <2> QED BY <1>8, <1>10, <2>1, <2>2 DEF G
<1> QED BY <1>9, <1>10

\* Only what was listed gets a row.
LEMMA RowPut ==
  ASSUME NEW coin \in BOOLEAN, NEW rows, NEW c, NEW ids, DOMAIN rows \subseteq ids, c.id \in ids
  PROVE  DOMAIN PutEither(coin, rows, c) \subseteq ids
BY DEF PutEither, PutCoin, PutRow

LEMMA RowsListed ==
  ASSUME NEW coin \in BOOLEAN, NEW ids, NEW b, DOMAIN b \subseteq ids, NEW q \in Listings(ids)
  PROVE  DOMAIN (RowFold(coin, b, q)[DOMAIN q]) \subseteq ids
<1>1. /\ DOMAIN q = {1} \/ DOMAIN q = {1, 2}
      /\ \A i \in DOMAIN q : q[i].id \in ids
  BY ListingsShort
<1>2. DOMAIN PutEither(coin, b, q[1]) \subseteq ids
  <2>1. q[1].id \in ids
    BY <1>1
  <2> QED BY <2>1, RowPut
<1>3. ASSUME DOMAIN q = {1, 2}
      PROVE  DOMAIN PutEither(coin, PutEither(coin, b, q[1]), q[2]) \subseteq ids
  <2>1. q[2].id \in ids
    BY <1>1, <1>3
  <2> QED BY <1>2, <2>1, RowPut
<1> QED BY <1>1, <1>2, <1>3, RowsInOrder

MarketInv == DOMAIN coins \subseteq CoinIDs /\ DOMAIN solanaTokens \subseteq TokenMints

LEMMA MarketStarts == CoinsInit => MarketInv
BY DEF CoinsInit, MarketInv

LEMMA MarketStep ==
  ASSUME MarketInv, [CoinsNext]_coinsVars
  PROVE  MarketInv'
<1>1. ASSUME NEW listing \in Listings(CoinIDs), UpdateAllCoins(listing) PROVE MarketInv'
  <2>1. coins' = RowFold(TRUE, coins, listing)[DOMAIN listing] /\ solanaTokens' = solanaTokens
    BY <1>1, CoinsFolded DEF UpdateAllCoins
  <2> QED BY <2>1, RowsListed DEF MarketInv
<1>2. ASSUME NEW listing \in Listings(TokenMints), RefreshSolanaTokens(listing) PROVE MarketInv'
  <2>1. solanaTokens' = RowFold(FALSE, solanaTokens, listing)[DOMAIN listing] /\ coins' = coins
    BY <1>2, TokensFolded DEF RefreshSolanaTokens
  <2> QED BY <2>1, RowsListed DEF MarketInv
<1>3. CASE UNCHANGED <<coins, solanaTokens>>
  BY <1>3 DEF MarketInv
<1> QED
  BY <1>1, <1>2, <1>3 DEF CoinsNext, UpdatePriority, StoreMedium, StoreHigh, coinsVars

LEMMA CoinTypes == MarketInv /\ PriorityInv => CoinsTypeOK
<1> SUFFICES ASSUME MarketInv, PriorityInv PROVE CoinsTypeOK
  OBVIOUS
<1>1. ASSUME NEW r \in Updaters PROVE updater[r].at \in {"rest", "medium", "high"}
  <2>1. PICK T : T = [at : {"medium", "high"}, cu : estimates]
    OBVIOUS
  <2>2. updater[r] \in {NothingToStore} \cup T
    BY <2>1 DEF PriorityInv, PriorityTyped
  <2>3. CASE updater[r] = NothingToStore
    BY <2>3 DEF NothingToStore
  <2>4. CASE updater[r] \in T
    BY <2>1, <2>4
  <2> QED BY <2>2, <2>3, <2>4
<1> QED BY <1>1 DEF MarketInv, CoinsTypeOK

-----------------------------------------------------------------------------
(* The four side by side *)

LEMMA TrackerTypes == TrackerInv => TypeOK
<1> SUFFICES ASSUME TrackerInv PROVE TypeOK
  OBVIOUS
<1>1. \A s \in DOMAIN verdict : verdict[s] \in BOOLEAN
  <2>1. verdict \in [DOMAIN verdict -> BOOLEAN]
    BY DEF TrackerInv, SigTyped
  <2> QED BY <2>1, Zenon
<1> QED BY <1>1 DEF TrackerInv, SigTyped, LoopShape, TypeOK

BackgroundInv ==
    /\ TrackerInv /\ FaqInv /\ ChannelInv
    /\ TokensInv /\ PriorityInv /\ MarketInv

\* The tracker, the questions, the tokens of wallets and the coins keep their types: the
\* mutex is held exactly while the node is asked, the channel to the moderators holds no
\* more than its capacity and nothing that still waits for it, a mint is on a list once,
\* and only coins and tokens that were listed have a row (confirmSignatures,
\* sendFAQToModerators, AddTokenToUserWallet, UpdateAllCoins, RefreshSolanaTokens).
THEOREM BackgroundTypesKept == BackgroundSpec => []BackgroundTypeOK
<1>1. BackgroundInit => BackgroundInv
  BY InitTracker, FaqStarts, ChannelStarts, TokensStart, InitPriority, MarketStarts
     DEF BackgroundInit, BackgroundInv
<1>2. BackgroundInv /\ [BackgroundNext]_backgroundVars => BackgroundInv'
  <2> SUFFICES ASSUME BackgroundInv, [BackgroundNext]_backgroundVars PROVE BackgroundInv'
    OBVIOUS
  <2>1. [Next]_vars /\ [FaqNext]_faqVars /\ [WalletTokensNext]_walletTokensVars /\ [CoinsNext]_coinsVars
    BY DEF BackgroundNext, backgroundVars
  <2>2. TrackerInv'
    BY <2>1, TrackerStep DEF BackgroundInv
  <2>3. FaqInv' /\ ChannelInv'
    BY <2>1, FaqStep, ChannelStep DEF BackgroundInv
  <2>4. TokensInv'
    BY <2>1, TokensStep DEF BackgroundInv
  <2>5. PriorityInv' /\ MarketInv'
    BY <2>1, PriorityStep, MarketStep DEF BackgroundInv
  <2> QED BY <2>2, <2>3, <2>4, <2>5 DEF BackgroundInv
<1>3. BackgroundInv => BackgroundTypeOK
  BY TrackerTypes, FaqTypes, CoinTypes DEF BackgroundInv, TokensInv, BackgroundTypeOK
<1> QED
  BY <1>1, <1>2, <1>3, PTL DEF BackgroundSpec
=============================================================================
