---------------------------- MODULE AccessProofs ----------------------------
(***************************************************************************)
(* Who may call: the limit of sessions and what it evicts, tokens and      *)
(* links that are used up, for any limit, any number of requests in flight *)
(* and any time to live; the rate limiter, for any keys, limit, expiration *)
(* and horizon; that a service is called only on behalf of who is entitled *)
(* to it, on every route; and the types of the three side by side.         *)
(***************************************************************************)
EXTENDS MCAccess, ArithmeticProofs, FiniteSetTheorems, SequenceTheorems,
        NaturalsInduction, WellFoundedInduction, TLAPS

-----------------------------------------------------------------------------
(***************************************************************************)
(* The sliding window keeps its limit, however the clock moves and         *)
(* whatever the sweeper deletes.                                           *)
(*                                                                         *)
(* An entry in the store outlives its window by one expiration at most,    *)
(* and it has counted at least the requests its window let through: that   *)
(* is what the store must never forget, and what LimiterInv says of it.    *)
(***************************************************************************)
ItemRow == [currHits : Nat, prevHits : Nat, exp : Nat, drop : Nat]
EntryRow == [currHits : Nat, prevHits : Nat, exp : Nat]
PassedRow == [at : [1..LimitHorizon -> Nat], window : Nat, end : Nat]

LimiterTyped ==
    /\ second \in 1..LimitHorizon
    /\ hits \in [LimitKeys -> ItemRow]
    /\ sweep \in [ts : Nat, keys : SUBSET LimitKeys] /\ sweep.ts <= second
    /\ passed \in [LimitKeys -> PassedRow]
    /\ seen \in [LimitKeys -> Nat]
    /\ answer \in [ok : BOOLEAN, quiet : Int]

\* what an entry in the store says of its key: until when it is kept ...
EntryFresh(k) ==
    /\ seen[k] <= second
    /\ hits[k].exp <= seen[k] + Expiration
    /\ hits[k].drop <= seen[k] + 2 * Expiration

\* ... and that it is kept until its window has ended, with every hit let through
EntryCounts(k) ==
    /\ passed[k].window <= LimitMax
    /\ hits[k].drop # 0 => /\ passed[k].window <= hits[k].currHits
                           /\ passed[k].end = hits[k].exp /\ hits[k].exp < hits[k].drop
    /\ hits[k].drop = 0 => passed[k].end <= second

LimiterInv ==
    /\ LimiterTyped
    /\ \A k \in LimitKeys : EntryFresh(k) /\ EntryCounts(k)
    /\ QuietIsAdmitted

-----------------------------------------------------------------------------
(* The window of one entry *)

\* what the store gives back is an entry, and a new one when it has been quiet
LEMMA FetchedEntry ==
  ASSUME LimiterTyped, NEW k \in LimitKeys, NEW ts \in Nat
  PROVE  /\ Fetched(k, ts) \in EntryRow
         /\ hits[k].drop <= ts => Fetched(k, ts) = NewEntry
         /\ Fetched(k, ts) # NewEntry => /\ hits[k].drop # 0
                                         /\ Fetched(k, ts).currHits = hits[k].currHits
                                         /\ Fetched(k, ts).exp = hits[k].exp
<1>1. hits[k] \in ItemRow
  BY DEF LimiterTyped
<1>2. NewEntry \in EntryRow
  BY DEF NewEntry, EntryRow
<1> QED
  BY <1>1, <1>2 DEF Fetched, ItemRow, EntryRow

\* a rolled entry ends after the second it was rolled in, at most a window later; it has
\* kept its hits or has none
LEMMA RolledEntry ==
  ASSUME NEW e \in EntryRow, NEW ts \in Nat, e.exp <= ts + Expiration
  PROVE  /\ Rolled(e, ts) \in EntryRow
         /\ Rolled(e, ts).exp > ts /\ Rolled(e, ts).exp <= ts + Expiration
         /\ Rolled(e, ts).currHits \in {e.currHits, 0}
<1>1. Expiration \in Nat \ {0}
  BY LimiterAssumption
<1>2. e.currHits \in Nat /\ e.prevHits \in Nat /\ e.exp \in Nat
  BY DEF EntryRow
<1>3. CASE e.exp = 0
  <2>1. Rolled(e, ts) = [e EXCEPT !.exp = ts + Expiration]
    BY <1>3 DEF Rolled
  <2> QED
    BY <1>1, <1>2, <2>1 DEF EntryRow
<1>4. CASE e.exp # 0 /\ ts < e.exp
  BY <1>1, <1>2, <1>4 DEF Rolled
<1>5. CASE e.exp # 0 /\ ~(ts < e.exp)
  <2> DEFINE x == IF ts - e.exp >= Expiration THEN ts + Expiration ELSE e.exp + Expiration
  <2>1. Rolled(e, ts) = [currHits |-> 0, prevHits |-> e.currHits, exp |-> x]
    BY <1>5 DEF Rolled
  <2>2. x \in Nat /\ x > ts /\ x <= ts + Expiration
    BY <1>1, <1>2, <1>5
  <2> QED
    BY <1>2, <2>1, <2>2 DEF EntryRow
<1> QED
  BY <1>3, <1>4, <1>5

\* the hit is counted on top
LEMMA CountedEntry ==
  ASSUME LimiterTyped, NEW k \in LimitKeys, NEW ts \in Nat, second <= ts, EntryFresh(k)
  PROVE  LET e == CountedHit(k, ts)
         IN /\ e \in EntryRow
            /\ e.exp > ts /\ e.exp <= ts + Expiration
            /\ e.currHits >= 1
            /\ second < hits[k].drop /\ ts < hits[k].exp =>
                  e.currHits = hits[k].currHits + 1 /\ e.exp = hits[k].exp
            /\ hits[k].drop <= second => e.currHits = 1 /\ e.prevHits = 0
<1> DEFINE f == Fetched(k, second)
           r == Rolled(f, ts)
<1>1. Expiration \in Nat \ {0} /\ second \in Nat /\ seen[k] \in Nat /\ hits[k] \in ItemRow
  BY LimiterAssumption DEF LimiterTyped
<1>2. /\ f \in EntryRow
      /\ hits[k].drop <= second => f = NewEntry
      /\ f # NewEntry => hits[k].drop # 0 /\ f.currHits = hits[k].currHits /\ f.exp = hits[k].exp
  BY <1>1, FetchedEntry
<1>3. f.exp <= ts + Expiration
  <2>1. CASE f = NewEntry
    BY <1>1, <2>1 DEF NewEntry
  <2>2. CASE f # NewEntry
    BY <1>1, <1>2, <2>2 DEF EntryFresh, ItemRow
  <2> QED
    BY <2>1, <2>2
<1>4. /\ r \in EntryRow
      /\ r.exp > ts /\ r.exp <= ts + Expiration
      /\ r.currHits \in {f.currHits, 0}
  BY <1>2, <1>3, RolledEntry
<1>5. CountedHit(k, ts) = [r EXCEPT !.currHits = @ + 1]
  BY DEF CountedHit
<1> HIDE DEF r
<1>6. /\ CountedHit(k, ts) = [currHits |-> r.currHits + 1, prevHits |-> r.prevHits, exp |-> r.exp]
      /\ r.currHits \in Nat /\ r.prevHits \in Nat /\ r.exp \in Nat
  BY <1>4, <1>5 DEF EntryRow
<1>7. ASSUME second < hits[k].drop, ts < hits[k].exp
      PROVE  r.currHits = hits[k].currHits /\ r.exp = hits[k].exp
  <2>1. hits[k].drop \in Nat /\ hits[k].exp \in Nat
    BY <1>1 DEF ItemRow
  <2>2. hits[k].drop # 0 /\ ~(hits[k].drop <= second) /\ hits[k].exp # 0
    BY <1>1, <1>7, <2>1
  <2>3. f = [currHits |-> hits[k].currHits, prevHits |-> hits[k].prevHits, exp |-> hits[k].exp]
    BY <2>2 DEF Fetched
  <2>4. r = f
    BY <1>7, <2>2, <2>3 DEF r, Rolled
  <2> QED
    BY <2>3, <2>4
<1>8. ASSUME hits[k].drop <= second
      PROVE  r.currHits = 0 /\ r.prevHits = 0
  <2>1. f = NewEntry
    BY <1>2, <1>8
  <2> QED
    BY <2>1 DEF r, Rolled, NewEntry
<1> DEFINE c == CountedHit(k, ts)
<1>9. c \in EntryRow
  BY <1>6 DEF EntryRow
<1>10. c.exp = r.exp /\ c.currHits = r.currHits + 1 /\ c.prevHits = r.prevHits
  BY <1>6
<1> HIDE DEF c
<1>11. c.exp > ts /\ c.exp <= ts + Expiration /\ c.currHits >= 1
  BY <1>4, <1>6, <1>10
<1>12. second < hits[k].drop /\ ts < hits[k].exp =>
         c.currHits = hits[k].currHits + 1 /\ c.exp = hits[k].exp
  BY <1>7, <1>10
<1>13. hits[k].drop <= second => c.currHits = 1 /\ c.prevHits = 0
  BY <1>8, <1>10
<1> QED
  BY <1>9, <1>11, <1>12, <1>13 DEF c

\* the hits of the window before only add to the rate
LEMMA RateBound ==
  ASSUME NEW e \in EntryRow, NEW ts \in Nat, e.exp > ts
  PROVE  /\ Rate(e, ts) \in Nat /\ Rate(e, ts) >= e.currHits
         /\ e.prevHits = 0 => Rate(e, ts) = e.currHits
<1>1. Expiration \in Nat \ {0} /\ e.currHits \in Nat /\ e.prevHits \in Nat /\ e.exp - ts \in Nat
  BY LimiterAssumption DEF EntryRow
<1> DEFINE weighted == e.prevHits * (e.exp - ts)
<1>2. weighted \in Nat /\ (e.prevHits = 0 => weighted = 0)
  BY <1>1, SMT
<1> HIDE DEF weighted
<1>3. weighted \div Expiration \in Nat /\ (weighted = 0 => weighted \div Expiration = 0)
  BY <1>1, <1>2, SMT
<1>4. Rate(e, ts) = (weighted \div Expiration) + e.currHits
  BY DEF Rate, ResetInSec, weighted
<1> QED
  BY <1>1, <1>2, <1>3, <1>4

-----------------------------------------------------------------------------
(* The invariant *)

LEMMA InitLimiter == LimiterInit => LimiterInv
<1> SUFFICES ASSUME LimiterInit PROVE LimiterInv
  OBVIOUS
<1> USE LimiterAssumption
<1>1. NoItem \in ItemRow /\ NoItem.exp = 0 /\ NoItem.drop = 0
  BY DEF NoItem, ItemRow
<1>2. NotSweeping \in [ts : Nat, keys : SUBSET LimitKeys] /\ NotSweeping.ts = 0
  BY DEF NotSweeping
<1> DEFINE none == [at |-> [t \in 1..LimitHorizon |-> 0], window |-> 0, end |-> 0]
<1>3. none \in PassedRow /\ none.window = 0 /\ none.end = 0
  BY DEF PassedRow
<1>4. hits \in [LimitKeys -> ItemRow] /\ passed \in [LimitKeys -> PassedRow]
      /\ seen \in [LimitKeys -> Nat] /\ answer \in [ok : BOOLEAN, quiet : Int]
      /\ second \in 1..LimitHorizon
  BY <1>1, <1>3 DEF LimiterInit
<1>5. ASSUME NEW k \in LimitKeys PROVE EntryFresh(k) /\ EntryCounts(k)
  <2>1. hits[k] = NoItem /\ passed[k] = none /\ seen[k] = 0 /\ second = 1
    BY DEF LimiterInit
  <2> QED
    BY <1>1, <1>3, <2>1 DEF EntryFresh, EntryCounts
<1> QED
  BY <1>2, <1>4, <1>5 DEF LimiterInv, LimiterInit, LimiterTyped, QuietIsAdmitted

\* a hit lets its key through within the limit, and after two quiet windows always
LEMMA HitKeepsLimiter ==
  ASSUME LimiterInv, NEW k \in LimitKeys, Hit(k)
  PROVE  LimiterInv'
<1> USE LimiterAssumption
<1>1. PICK ts \in {second, second + 1}, stored \in {second, second + 1, second + 2} :
        /\ stored \in {ts, ts + 1} /\ stored <= LimitHorizon
        /\ LET e == CountedHit(k, ts)
               ok == LimitMax - Rate(e, ts) >= 0
           IN /\ hits' = [hits EXCEPT ![k] =
                    [currHits |-> e.currHits, prevHits |-> e.prevHits, exp |-> e.exp,
                     drop |-> stored + ResetInSec(e, ts) + Expiration]]
              /\ passed' = [passed EXCEPT ![k] = LetThrough(k, e, ts, ok)]
              /\ answer' = [ok |-> ok, quiet |-> second - seen[k]]
              /\ seen' = [seen EXCEPT ![k] = stored]
              /\ second' = stored
              /\ UNCHANGED sweep
  BY Zenon DEF Hit
<1> DEFINE e == CountedHit(k, ts)
           ok == LimitMax - Rate(e, ts) >= 0
           row == [currHits |-> e.currHits, prevHits |-> e.prevHits, exp |-> e.exp,
                   drop |-> stored + ResetInSec(e, ts) + Expiration]
           through == LetThrough(k, e, ts, ok)
<1>2. /\ LimiterTyped /\ EntryFresh(k) /\ EntryCounts(k)
      /\ \A j \in LimitKeys : EntryFresh(j) /\ EntryCounts(j)
  BY DEF LimiterInv
<1>3. /\ second \in Nat /\ second >= 1 /\ ts \in Nat /\ stored \in Nat
      /\ second <= ts /\ ts <= stored /\ stored \in 1..LimitHorizon /\ ts \in 1..LimitHorizon
  BY <1>1, <1>2 DEF LimiterTyped
<1>4. /\ e \in EntryRow
      /\ e.exp > ts /\ e.exp <= ts + Expiration
      /\ e.currHits >= 1
      /\ second < hits[k].drop /\ ts < hits[k].exp =>
            e.currHits = hits[k].currHits + 1 /\ e.exp = hits[k].exp
      /\ hits[k].drop <= second => e.currHits = 1 /\ e.prevHits = 0
  BY <1>2, <1>3, CountedEntry
<1>5. /\ hits' = [hits EXCEPT ![k] = row]
      /\ passed' = [passed EXCEPT ![k] = through]
      /\ answer' = [ok |-> ok, quiet |-> second - seen[k]]
      /\ seen' = [seen EXCEPT ![k] = stored]
      /\ second' = stored
      /\ sweep' = sweep
  BY <1>1
<1> HIDE DEF e
<1>6. /\ Rate(e, ts) \in Nat /\ Rate(e, ts) >= e.currHits
      /\ e.prevHits = 0 => Rate(e, ts) = e.currHits
  BY <1>3, <1>4, RateBound
<1>7. /\ hits \in [LimitKeys -> ItemRow] /\ passed \in [LimitKeys -> PassedRow]
      /\ seen \in [LimitKeys -> Nat]
  BY <1>2 DEF LimiterTyped
<1>8. e.currHits \in Nat /\ e.prevHits \in Nat /\ e.exp \in Nat
  BY <1>4 DEF EntryRow
<1>9. /\ row \in ItemRow /\ row.currHits = e.currHits /\ row.exp = e.exp
      /\ row.drop <= stored + 2 * Expiration /\ row.drop > row.exp
  BY <1>3, <1>4, <1>8 DEF ItemRow, ResetInSec
<1>10. /\ through \in PassedRow /\ through.window <= LimitMax
       /\ through.window <= e.currHits /\ through.end = e.exp
  <2> DEFINE before == IF ts >= passed[k].end THEN 0 ELSE passed[k].window
  <2>1. /\ passed[k] \in PassedRow /\ passed[k].window \in Nat /\ passed[k].end \in Nat
        /\ passed[k].at \in [1..LimitHorizon -> Nat]
        /\ hits[k].drop \in Nat /\ hits[k].currHits \in Nat
    BY <1>7 DEF PassedRow, ItemRow
  <2>2. before \in Nat /\ before <= e.currHits - 1 /\ before <= LimitMax
    <3>1. CASE ts >= passed[k].end
      BY <1>4, <1>8, <3>1
    <3>2. CASE ~(ts >= passed[k].end)
      <4>1. hits[k].drop # 0 /\ ts < hits[k].exp /\ second < hits[k].drop
        BY <1>2, <1>3, <2>1, <3>2 DEF EntryCounts
      <4>2. e.currHits = hits[k].currHits + 1 /\ passed[k].window <= hits[k].currHits
        BY <1>2, <1>4, <4>1 DEF EntryCounts
      <4> QED
        BY <1>2, <2>1, <3>2, <4>2 DEF EntryCounts
    <3> QED
      BY <3>1, <3>2
  <2>3. ok => e.currHits <= LimitMax
    BY <1>6, <1>8
  <2>4. through = [at |-> IF ok THEN [passed[k].at EXCEPT ![ts] = @ + 1] ELSE passed[k].at,
                   window |-> before + (IF ok THEN 1 ELSE 0), end |-> e.exp]
    BY DEF LetThrough
  <2>5. [passed[k].at EXCEPT ![ts] = @ + 1] \in [1..LimitHorizon -> Nat]
    <3> DEFINE times == 1..LimitHorizon
               at == passed[k].at
    <3>1. ts \in times /\ at \in [times -> Nat]
      BY <1>3, <2>1
    <3> HIDE DEF times, at
    <3>2. at[ts] + 1 \in Nat
      BY <3>1
    <3>3. [at EXCEPT ![ts] = @ + 1] \in [times -> Nat]
      BY <3>1, <3>2
    <3> QED
      BY <3>3, Zenon DEF times, at
  <2> HIDE DEF before, ok
  <2>6. CASE ok
    <3>1. through = [at |-> [passed[k].at EXCEPT ![ts] = @ + 1], window |-> before + 1, end |-> e.exp]
      BY <2>4, <2>6
    <3>2. e.currHits <= LimitMax
      BY <2>3, <2>6, Zenon
    <3>3. before + 1 \in Nat /\ before + 1 <= e.currHits /\ before + 1 <= LimitMax
      BY <1>8, <2>2, <3>2
    <3> QED
      BY <1>8, <2>5, <3>1, <3>3 DEF PassedRow
  <2>7. CASE ~ok
    <3>1. through = [at |-> passed[k].at, window |-> before, end |-> e.exp]
      BY <2>2, <2>4, <2>7
    <3> QED
      BY <1>8, <2>1, <2>2, <3>1 DEF PassedRow
  <2> QED
    BY <2>6, <2>7
<1>11. ASSUME second - seen[k] >= 2 * Expiration
       PROVE  ok
  <2>1. hits[k].drop <= second
    <3>1. hits[k].drop \in Nat /\ seen[k] \in Nat
      BY <1>7 DEF ItemRow
    <3> QED
      BY <1>2, <1>3, <1>11, <3>1 DEF EntryFresh
  <2>2. Rate(e, ts) = 1
    BY <1>4, <1>6, <2>1
  <2> QED
    BY <2>2
<1> HIDE DEF row, through, ok
<1>12. LimiterTyped'
  <2>1. hits' \in [LimitKeys -> ItemRow]
    BY <1>5, <1>7, <1>9
  <2>2. passed' \in [LimitKeys -> PassedRow]
    BY <1>5, <1>7, <1>10
  <2>3. seen' \in [LimitKeys -> Nat] /\ second' \in 1..LimitHorizon
    BY <1>3, <1>5, <1>7
  <2>4. ok \in BOOLEAN /\ second - seen[k] \in Int
    BY <1>3, <1>7 DEF ok
  <2>5. answer' \in [ok : BOOLEAN, quiet : Int]
    BY <1>5, <2>4
  <2>6. sweep' \in [ts : Nat, keys : SUBSET LimitKeys] /\ sweep'.ts <= second'
    BY <1>2, <1>3, <1>5 DEF LimiterTyped
  <2> QED
    BY <2>1, <2>2, <2>3, <2>5, <2>6 DEF LimiterTyped, ItemRow, PassedRow
<1>13. ASSUME NEW j \in LimitKeys
       PROVE  EntryFresh(j)' /\ EntryCounts(j)'
  <2>1. CASE j = k
    <3>1. hits'[k] = row /\ passed'[k] = through /\ seen'[k] = stored
      BY <1>5, <1>7
    <3> QED
      BY <1>3, <1>4, <1>5, <1>8, <1>9, <1>10, <2>1, <3>1 DEF EntryFresh, EntryCounts
  <2>2. CASE j # k
    <3>1. /\ hits'[j] = hits[j] /\ passed'[j] = passed[j] /\ seen'[j] = seen[j]
          /\ seen[j] \in Nat /\ passed[j].end \in Nat
      BY <1>5, <1>7, <2>2 DEF PassedRow
    <3> QED
      BY <1>2, <1>3, <1>5, <3>1 DEF EntryFresh, EntryCounts
  <2> QED
    BY <2>1, <2>2
<1>14. QuietIsAdmitted'
  <2>1. answer'.ok = ok /\ answer'.quiet = second - seen[k] /\ second - seen[k] \in Int
    BY <1>3, <1>5, <1>7
  <2>2. CASE ok
    BY <2>1, <2>2, Zenon DEF QuietIsAdmitted
  <2>3. CASE ~ok
    <3>1. second - seen[k] < 2 * Expiration
      BY <1>11, <2>1, <2>3
    <3> QED
      BY <2>1, <3>1 DEF QuietIsAdmitted
  <2> QED
    BY <2>2, <2>3
<1> QED
  BY <1>12, <1>13, <1>14 DEF LimiterInv

\* time only makes entries older
LEMMA SecondKeepsLimiter == LimiterInv /\ SecondPasses => LimiterInv'
<1> SUFFICES ASSUME LimiterInv, SecondPasses PROVE LimiterInv'
  OBVIOUS
<1>1. /\ second \in 1..LimitHorizon /\ LimitHorizon \in Nat /\ second < LimitHorizon
      /\ second' = second + 1
      /\ UNCHANGED <<hits, sweep, passed, seen, answer>>
  BY LimiterAssumption DEF LimiterInv, LimiterTyped, SecondPasses
<1>2. LimiterTyped'
  BY <1>1 DEF LimiterInv, LimiterTyped
<1>3. ASSUME NEW k \in LimitKeys PROVE EntryFresh(k)' /\ EntryCounts(k)'
  <2>1. EntryFresh(k) /\ EntryCounts(k) /\ seen[k] \in Nat /\ passed[k].end \in Nat
    BY DEF LimiterInv, LimiterTyped, PassedRow
  <2> QED
    BY <1>1, <2>1 DEF EntryFresh, EntryCounts
<1> QED
  BY <1>1, <1>2, <1>3 DEF LimiterInv, QuietIsAdmitted

\* the sweeper's list is a set of keys, which it only remembers
LEMMA ListKeepsLimiter == LimiterInv /\ SweepLists => LimiterInv'
<1> SUFFICES ASSUME LimiterInv, SweepLists PROVE LimiterInv'
  OBVIOUS
<1>1. /\ sweep' = [ts |-> second, keys |-> ExpiredKeys(second)]
      /\ UNCHANGED <<second, hits, passed, seen, answer>>
      /\ second \in 1..LimitHorizon
  BY DEF LimiterInv, LimiterTyped, SweepLists
<1>2. ExpiredKeys(second) \in SUBSET LimitKeys
  BY DEF ExpiredKeys
<1>3. LimiterTyped'
  BY <1>1, <1>2 DEF LimiterInv, LimiterTyped
<1> QED
  BY <1>1, <1>3 DEF LimiterInv, EntryFresh, EntryCounts, QuietIsAdmitted

\* a deleted entry claims nothing, and the others are as they were
LEMMA DeleteKeepsLimiter == LimiterInv /\ SweepDeletes => LimiterInv'
<1> SUFFICES ASSUME LimiterInv, SweepDeletes PROVE LimiterInv'
  OBVIOUS
<1> USE LimiterAssumption
<1>1. /\ hits' = [k \in LimitKeys |->
                    IF k \in sweep.keys \cap ExpiredKeys(sweep.ts) THEN NoItem ELSE hits[k]]
      /\ sweep' = NotSweeping
      /\ UNCHANGED <<second, passed, seen, answer>>
  BY DEF SweepDeletes
<1>2. LimiterTyped
  BY DEF LimiterInv
<1>3. NoItem \in ItemRow /\ NoItem.exp = 0 /\ NoItem.drop = 0
  BY DEF NoItem, ItemRow
<1>4. NotSweeping \in [ts : Nat, keys : SUBSET LimitKeys] /\ NotSweeping.ts = 0
  BY DEF NotSweeping
<1>5. hits' \in [LimitKeys -> ItemRow]
  BY <1>1, <1>2, <1>3 DEF LimiterTyped
<1>6. LimiterTyped'
  BY <1>1, <1>2, <1>4, <1>5 DEF LimiterTyped
<1>7. ASSUME NEW k \in LimitKeys PROVE EntryFresh(k)' /\ EntryCounts(k)'
  <2>1. EntryFresh(k) /\ EntryCounts(k) /\ seen[k] \in Nat /\ passed[k].end \in Nat
    BY <1>2 DEF LimiterInv, LimiterTyped, PassedRow
  <2>2. \/ hits'[k] = hits[k]
        \/ hits'[k] = NoItem /\ hits[k].drop # 0 /\ hits[k].drop <= second
    <3>1. hits[k].drop \in Nat /\ sweep.ts \in Nat /\ sweep.ts <= second /\ second \in Nat
      BY <1>2 DEF LimiterTyped, ItemRow
    <3> QED
      BY <1>1, <3>1 DEF ExpiredKeys
  <2>3. CASE hits'[k] = hits[k]
    BY <1>1, <2>1, <2>3 DEF EntryFresh, EntryCounts
  <2>4. CASE hits'[k] = NoItem /\ hits[k].drop # 0 /\ hits[k].drop <= second
    <3>1. hits[k].drop \in Nat /\ hits[k].exp \in Nat /\ second \in Nat
      BY <1>2 DEF LimiterTyped, ItemRow
    <3> QED
      BY <1>1, <1>3, <2>1, <2>4, <3>1 DEF EntryFresh, EntryCounts
  <2> QED
    BY <2>2, <2>3, <2>4
<1> QED
  BY <1>1, <1>6, <1>7 DEF LimiterInv, QuietIsAdmitted

LEMMA LimiterStep == LimiterInv /\ [LimiterNext]_limiterVars => LimiterInv'
<1> SUFFICES ASSUME LimiterInv, [LimiterNext]_limiterVars PROVE LimiterInv'
  OBVIOUS
<1>1. ASSUME NEW k \in LimitKeys, Hit(k) PROVE LimiterInv'
  BY <1>1, HitKeepsLimiter
<1>2. CASE SecondPasses
  BY <1>2, SecondKeepsLimiter
<1>3. CASE SweepLists
  BY <1>3, ListKeepsLimiter
<1>4. CASE SweepDeletes
  BY <1>4, DeleteKeepsLimiter
<1>5. CASE UNCHANGED limiterVars
  BY <1>5 DEF limiterVars, LimiterInv, LimiterTyped, EntryFresh, EntryCounts, QuietIsAdmitted
<1> QED
  BY <1>1, <1>2, <1>3, <1>4, <1>5 DEF LimiterNext

-----------------------------------------------------------------------------
(* Theorems *)

\* Entries keep their types, and none ends more than one expiration after its key was
\* last hit (newSlidingWindow, memory/storage.go).
THEOREM LimiterTypes == LimiterSpec => []LimiterTypeOK
<1>1. LimiterInv => LimiterTypeOK
  <2> SUFFICES ASSUME LimiterInv PROVE LimiterTypeOK
    OBVIOUS
  <2>1. second \in Nat
    BY LimiterAssumption DEF LimiterInv, LimiterTyped
  <2> QED
    BY <2>1 DEF LimiterInv, LimiterTyped, LimiterTypeOK, ItemRow, EntryFresh
<1> QED
  BY <1>1, InitLimiter, LimiterStep, PTL DEF LimiterSpec

\* Whatever the clock and the sweeper do, at most Max requests are let through in one
\* window of a key's entry, and a key that was quiet for two windows is let through.
THEOREM LimitKept == LimiterSpec => []LimiterKeeps
<1>1. LimiterInv => LimiterKeeps
  BY DEF LimiterInv, LimiterKeeps, WindowLimit, EntryCounts
<1> QED
  BY <1>1, InitLimiter, LimiterStep, PTL DEF LimiterSpec

-----------------------------------------------------------------------------
(***************************************************************************)
(* In windows of one second, as the code uses, or of two, what was let     *)
(* through in the last second of a window weighs fully on the first of the *)
(* next: no window's length in a row has more than Max.                    *)
(***************************************************************************)
ShortWindows == Expiration \in {1, 2}

Times == 1..LimitHorizon

\* what was let through, p, and the entry i of a key last hit at last: the window that is
\* open, the second before it, and an entry kept for one window more
EntryRecent(p, i, last, moment) ==
    /\ \A t \in Times : /\ p.at[t] # 0 => t <= last /\ t < p.end
                        /\ p.at[t] <= LimitMax
                        /\ t >= p.end - Expiration => p.at[t] <= p.window
                        /\ i.drop # 0 /\ t = p.end - 3 /\ Expiration = 2 => p.at[t] <= i.prevHits
    /\ Expiration = 2 => \A t \in Times : t + 1 \in Times =>
          /\ p.at[t] + p.at[t + 1] <= LimitMax
          /\ t = p.end - 2 => p.at[t] + p.at[t + 1] <= p.window
    /\ i.drop # 0 => i.exp + Expiration <= i.drop
    /\ i.drop = 0 => p.end = 0 \/ p.end + Expiration <= moment

RecentInv ==
    /\ LimiterInv
    /\ \A k \in LimitKeys : EntryRecent(passed[k], hits[k], seen[k], second)

\* an entry stays in its window, begins one, or rolls into the next
LEMMA RolledHow ==
  ASSUME NEW e \in EntryRow, NEW ts \in Nat
  PROVE  \/ e.exp # 0 /\ ts < e.exp /\ Rolled(e, ts) = e
         \/ ts >= e.exp /\ Rolled(e, ts).exp = ts + Expiration
              /\ (e.exp = 0 \/ e.exp + Expiration <= ts)
         \/ ts >= e.exp /\ ts < e.exp + Expiration /\ Rolled(e, ts).exp = e.exp + Expiration
              /\ Rolled(e, ts).prevHits = e.currHits
<1>1. /\ Expiration \in Nat \ {0} /\ e.exp \in Nat
      /\ e = [currHits |-> e.currHits, prevHits |-> e.prevHits, exp |-> e.exp]
  BY LimiterAssumption DEF EntryRow
<1>2. CASE e.exp = 0
  <2>1. Rolled(e, ts) = [currHits |-> e.currHits, prevHits |-> e.prevHits,
                         exp |-> ts + Expiration]
    BY <1>1, <1>2 DEF Rolled
  <2> QED
    BY <1>2, <2>1
<1>3. CASE e.exp # 0 /\ ts < e.exp
  BY <1>3 DEF Rolled
<1>4. CASE e.exp # 0 /\ ~(ts < e.exp) /\ ts - e.exp >= Expiration
  <2>1. Rolled(e, ts) = [currHits |-> 0, prevHits |-> e.currHits, exp |-> ts + Expiration]
    BY <1>4 DEF Rolled
  <2>2. ts >= e.exp /\ e.exp + Expiration <= ts
    BY <1>1, <1>4
  <2> QED
    BY <2>1, <2>2
<1>5. CASE e.exp # 0 /\ ~(ts < e.exp) /\ ~(ts - e.exp >= Expiration)
  <2>1. Rolled(e, ts) = [currHits |-> 0, prevHits |-> e.currHits, exp |-> e.exp + Expiration]
    BY <1>5 DEF Rolled
  <2>2. ts >= e.exp /\ ts < e.exp + Expiration
    BY <1>1, <1>5
  <2> QED
    BY <2>1, <2>2
<1> QED
  BY <1>2, <1>3, <1>4, <1>5

\* what a hit finds: the window open, a window to begin that has nothing in the second
\* before it, or the next window, with the hits of the one before
LEMMA CountedHow ==
  ASSUME RecentInv, NEW k \in LimitKeys, NEW ts \in Nat, second <= ts
  PROVE  LET c == CountedHit(k, ts)
             p == passed[k]
         IN /\ c \in EntryRow
            /\ \/ /\ hits[k].drop # 0 /\ ts < p.end
                  /\ c.exp = p.end /\ c.prevHits = hits[k].prevHits
               \/ /\ ts >= p.end /\ c.exp = ts + Expiration
                  /\ p.end = 0 \/ p.end + Expiration <= ts
               \/ /\ ts >= p.end /\ ts < p.end + Expiration /\ c.exp = p.end + Expiration
                  /\ c.prevHits >= p.window
<1>1. /\ Expiration \in Nat \ {0} /\ second \in Nat /\ hits[k] \in ItemRow
      /\ passed[k] \in PassedRow /\ LimiterTyped /\ EntryFresh(k) /\ EntryCounts(k)
      /\ EntryRecent(passed[k], hits[k], seen[k], second)
  BY LimiterAssumption DEF RecentInv, LimiterInv, LimiterTyped
<1>2. /\ hits[k].drop \in Nat /\ hits[k].exp \in Nat /\ hits[k].currHits \in Nat
      /\ hits[k].prevHits \in Nat /\ passed[k].end \in Nat /\ passed[k].window \in Nat
  BY <1>1 DEF ItemRow, PassedRow
<1>3. Fetched(k, second) \in EntryRow
  BY <1>1, FetchedEntry
<1>4. PICK f \in EntryRow : f = Fetched(k, second)
  BY <1>3
<1>5. CountedHit(k, ts) \in EntryRow
  BY <1>1, CountedEntry
<1>6. PICK r : r = Rolled(f, ts)
  OBVIOUS
<1>7. f.exp <= ts + Expiration
  <2>1. CASE hits[k].drop = 0 \/ hits[k].drop <= second
    <3>1. f = NewEntry
      BY <1>4, <2>1 DEF Fetched
    <3> QED
      BY <1>1, <3>1 DEF NewEntry
  <2>2. CASE ~(hits[k].drop = 0 \/ hits[k].drop <= second)
    <3>1. f.exp = hits[k].exp
      BY <1>4, <2>2 DEF Fetched
    <3>2. hits[k].exp <= seen[k] + Expiration /\ seen[k] <= second /\ seen[k] \in Nat
      BY <1>1 DEF EntryFresh, LimiterTyped
    <3> QED
      BY <1>1, <1>2, <3>1, <3>2
  <2> QED
    BY <2>1, <2>2
<1>8. r \in EntryRow
  BY <1>4, <1>6, <1>7, RolledEntry
<1>9. CountedHit(k, ts) = [r EXCEPT !.currHits = @ + 1]
  BY <1>4, <1>6 DEF CountedHit
<1>10. CountedHit(k, ts).exp = r.exp /\ CountedHit(k, ts).prevHits = r.prevHits
  BY <1>8, <1>9 DEF EntryRow
<1>11. \/ f.exp # 0 /\ ts < f.exp /\ r = f
       \/ ts >= f.exp /\ r.exp = ts + Expiration /\ (f.exp = 0 \/ f.exp + Expiration <= ts)
       \/ ts >= f.exp /\ ts < f.exp + Expiration /\ r.exp = f.exp + Expiration
            /\ r.prevHits = f.currHits
  <2>1. \/ f.exp # 0 /\ ts < f.exp /\ Rolled(f, ts) = f
        \/ ts >= f.exp /\ Rolled(f, ts).exp = ts + Expiration
             /\ (f.exp = 0 \/ f.exp + Expiration <= ts)
        \/ ts >= f.exp /\ ts < f.exp + Expiration /\ Rolled(f, ts).exp = f.exp + Expiration
             /\ Rolled(f, ts).prevHits = f.currHits
    BY RolledHow
  <2> QED
    BY <1>6, <2>1
<1>12. CASE hits[k].drop = 0 \/ hits[k].drop <= second
  <2>1. f = NewEntry
    BY <1>4, <1>12 DEF Fetched
  <2>2. r = [currHits |-> 0, prevHits |-> 0, exp |-> ts + Expiration]
    BY <1>6, <2>1 DEF Rolled, NewEntry
  <2>3. passed[k].end = 0 \/ passed[k].end + Expiration <= second
    <3>1. hits[k].drop = 0 => passed[k].end = 0 \/ passed[k].end + Expiration <= second
      BY <1>1 DEF EntryRecent
    <3>2. hits[k].drop # 0 =>
            passed[k].end = hits[k].exp /\ hits[k].exp + Expiration <= hits[k].drop
      BY <1>1 DEF EntryRecent, EntryCounts
    <3> QED
      BY <1>1, <1>2, <1>12, <3>1, <3>2
  <2>4. ts >= passed[k].end /\ (passed[k].end = 0 \/ passed[k].end + Expiration <= ts)
    BY <1>1, <1>2, <2>3
  <2>5. CountedHit(k, ts).exp = ts + Expiration
    BY <1>10, <2>2
  <2> QED
    BY <1>5, <2>4, <2>5
<1>13. CASE ~(hits[k].drop = 0 \/ hits[k].drop <= second)
  <2>1. f = [currHits |-> hits[k].currHits, prevHits |-> hits[k].prevHits, exp |-> hits[k].exp]
    BY <1>4, <1>13 DEF Fetched
  <2>2. /\ f.currHits = hits[k].currHits /\ f.prevHits = hits[k].prevHits
        /\ f.exp = passed[k].end /\ passed[k].window <= f.currHits
    BY <1>1, <1>13, <2>1 DEF EntryCounts
  <2>3. CASE f.exp # 0 /\ ts < f.exp /\ r = f
    BY <1>5, <1>10, <1>13, <2>2, <2>3
  <2>4. CASE /\ ts >= f.exp /\ r.exp = ts + Expiration
             /\ (f.exp = 0 \/ f.exp + Expiration <= ts)
    BY <1>5, <1>10, <2>2, <2>4
  <2>5. CASE ts >= f.exp /\ ts < f.exp + Expiration /\ r.exp = f.exp + Expiration
               /\ r.prevHits = f.currHits
    BY <1>2, <1>5, <1>10, <2>2, <2>5
  <2> QED
    BY <1>11, <2>3, <2>4, <2>5
<1> QED
  BY <1>12, <1>13

\* in the first of two seconds the hits of the window before weigh fully
LEMMA FullWeight ==
  ASSUME NEW e \in EntryRow, NEW ts \in Nat, e.exp = ts + Expiration
  PROVE  Rate(e, ts) = e.prevHits + e.currHits
<1>1. PICK n \in Nat, m \in Nat \ {0} : n = e.prevHits /\ m = Expiration
  BY LimiterAssumption DEF EntryRow
<1>2. (n * m) \div m = n
  BY <1>1, SMT
<1>3. e.exp - ts = m
  BY <1>1
<1> QED
  BY <1>1, <1>2, <1>3 DEF Rate, ResetInSec

\* a counted hit keeps what is let through within Max for any window's length
LEMMA HitStaysRecent ==
  ASSUME ShortWindows,
         NEW p \in PassedRow, NEW q \in PassedRow, NEW i \in ItemRow, NEW j \in ItemRow,
         NEW last \in Nat, NEW moment \in Nat, NEW ts \in Times, NEW stored \in Nat,
         NEW e \in EntryRow, NEW ok \in BOOLEAN,
         last <= moment, moment <= ts, ts <= stored,
         EntryRecent(p, i, last, moment),
         \/ /\ i.drop # 0 /\ ts < p.end
            /\ e.exp = p.end /\ e.prevHits = i.prevHits
         \/ /\ ts >= p.end /\ e.exp = ts + Expiration
            /\ p.end = 0 \/ p.end + Expiration <= ts
         \/ /\ ts >= p.end /\ ts < p.end + Expiration /\ e.exp = p.end + Expiration
            /\ e.prevHits >= p.window,
         ok => Rate(e, ts) <= LimitMax,
         e.exp > ts, e.exp <= ts + Expiration,
         q.at = IF ok THEN [p.at EXCEPT ![ts] = @ + 1] ELSE p.at,
         q.window = (IF ts >= p.end THEN 0 ELSE p.window) + (IF ok THEN 1 ELSE 0),
         q.end = e.exp, q.window <= LimitMax, q.window <= e.currHits,
         j.currHits = e.currHits, j.prevHits = e.prevHits, j.exp = e.exp,
         j.drop = stored + ResetInSec(e, ts) + Expiration
  PROVE  EntryRecent(q, j, stored, stored)
<1>1. /\ Expiration \in {1, 2} /\ LimitMax \in Nat /\ LimitHorizon \in Nat /\ ts \in Nat
      /\ p.window \in Nat /\ p.end \in Nat /\ q.window \in Nat /\ q.end \in Nat
      /\ p.at \in [Times -> Nat] /\ q.at \in [Times -> Nat]
      /\ e.currHits \in Nat /\ e.prevHits \in Nat /\ e.exp \in Nat /\ i.prevHits \in Nat
  <2>1. Expiration \in {1, 2} /\ LimitMax \in Nat /\ LimitHorizon \in Nat /\ ts \in Nat
    BY LimiterAssumption DEF ShortWindows, Times
  <2>2. /\ p.window \in Nat /\ p.end \in Nat /\ q.window \in Nat /\ q.end \in Nat
        /\ p.at \in [Times -> Nat] /\ q.at \in [Times -> Nat]
    BY DEF PassedRow, Times
  <2>3. e.currHits \in Nat /\ e.prevHits \in Nat /\ e.exp \in Nat /\ i.prevHits \in Nat
    BY DEF ItemRow, EntryRow
  <2> QED
    BY <2>1, <2>2, <2>3
<1>2. PICK before \in Nat, at \in [Times -> Nat], to \in [Times -> Nat], one \in {0, 1} :
        /\ before = (IF ts >= p.end THEN 0 ELSE p.window) /\ at = p.at /\ to = q.at
        /\ one = (IF ok THEN 1 ELSE 0)
  BY <1>1
<1>3. /\ q.window = before + one
      /\ to[ts] = at[ts] + one /\ \A t \in Times : t # ts => to[t] = at[t]
  BY <1>1, <1>2
<1>4. \A t \in Times : /\ at[t] # 0 => t <= last /\ t < p.end
                       /\ at[t] <= LimitMax
                       /\ t >= p.end - Expiration => at[t] <= p.window
                       /\ i.drop # 0 /\ t = p.end - 3 /\ Expiration = 2 => at[t] <= i.prevHits
  BY <1>2 DEF EntryRecent
<1>5. Expiration = 2 => \A t \in Times : t + 1 \in Times =>
          /\ at[t] + at[t + 1] <= LimitMax
          /\ t = p.end - 2 => at[t] + at[t + 1] <= p.window
  BY <1>2 DEF EntryRecent
<1>6. p.end <= q.end
  BY <1>1, <1>2
<1>7. ASSUME NEW t \in Times
      PROVE  /\ to[t] # 0 => t <= stored /\ t < q.end
             /\ to[t] <= LimitMax
             /\ t >= q.end - Expiration => to[t] <= q.window
             /\ t = q.end - 3 /\ Expiration = 2 => to[t] <= j.prevHits
  <2>1. t \in Nat /\ at[t] \in Nat /\ to[t] \in Nat
    <3>1. t \in Nat
      BY DEF Times
    <3>2. at \in [Times -> Nat] /\ to \in [Times -> Nat]
      BY <1>1, <1>2
    <3> QED
      BY <3>1, <3>2
  <2>2. t >= q.end - Expiration => to[t] <= q.window
    <3>1. CASE ts >= p.end
      <4>1. q.end - Expiration >= p.end
        BY <1>1, <3>1
      <4>2. t >= q.end - Expiration => at[t] = 0
        BY <1>1, <1>4, <2>1, <4>1
      <4> QED
        BY <1>2, <1>3, <2>1, <4>2
    <3>2. CASE ts < p.end
      <4>1. q.end = p.end /\ before = p.window
        BY <1>1, <1>2, <3>2
      <4>2. t >= q.end - Expiration => at[t] <= before
        BY <1>4, <4>1
      <4> QED
        BY <1>2, <1>3, <2>1, <4>2
    <3> QED
      BY <1>1, <3>1, <3>2
  <2>3. to[t] <= LimitMax
    <3>1. CASE t = ts
      <4>1. t >= q.end - Expiration
        BY <1>1, <3>1
      <4> QED
        BY <1>1, <2>1, <2>2, <4>1
    <3>2. CASE t # ts
      BY <1>3, <1>4, <3>2
    <3> QED
      BY <3>1, <3>2
  <2>4. to[t] # 0 => t <= stored /\ t < q.end
    <3>1. CASE t = ts
      BY <1>1, <3>1
    <3>2. CASE t # ts
      BY <1>1, <1>3, <1>4, <1>6, <2>1, <3>2
    <3> QED
      BY <3>1, <3>2
  <2>5. t = q.end - 3 /\ Expiration = 2 => to[t] <= j.prevHits
    <3> SUFFICES ASSUME t = q.end - 3, Expiration = 2 PROVE to[t] <= e.prevHits
      OBVIOUS
    <3>1. t # ts /\ to[t] = at[t]
      BY <1>1, <1>3, <2>1
    <3>2. CASE ts < p.end
      BY <1>1, <1>4, <3>1, <3>2
    <3>3. CASE ts >= p.end /\ e.exp = ts + Expiration
                 /\ (p.end = 0 \/ p.end + Expiration <= ts)
      <4>1. t >= p.end
        BY <1>1, <2>1, <3>3
      <4>2. at[t] = 0
        BY <1>1, <1>4, <2>1, <4>1
      <4> QED
        BY <1>1, <3>1, <4>2
    <3>4. CASE ts >= p.end /\ e.exp = p.end + Expiration /\ e.prevHits >= p.window
      <4>1. at[t] <= p.window
        BY <1>1, <1>4, <2>1, <3>4
      <4> QED
        BY <1>1, <2>1, <3>1, <3>4, <4>1
    <3> QED
      BY <1>1, <3>2, <3>3, <3>4
  <2> QED
    BY <2>2, <2>3, <2>4, <2>5
<1>8. ASSUME Expiration = 2, NEW t \in Times, t + 1 \in Times
      PROVE  /\ to[t] + to[t + 1] <= LimitMax
             /\ t = q.end - 2 => to[t] + to[t + 1] <= q.window
  <2>1. /\ t \in Nat /\ at[t] \in Nat /\ to[t] \in Nat
        /\ at[t + 1] \in Nat /\ to[t + 1] \in Nat
    <3>1. t \in Nat
      BY DEF Times
    <3>2. at \in [Times -> Nat] /\ to \in [Times -> Nat]
      BY <1>1, <1>2
    <3> QED
      BY <1>8, <3>1, <3>2
  <2>2. t = q.end - 2 => to[t] + to[t + 1] <= q.window
    <3> SUFFICES ASSUME t = q.end - 2 PROVE to[t] + to[t + 1] <= q.window
      OBVIOUS
    <3>1. t = ts \/ t + 1 = ts
      BY <1>1, <1>8, <2>1
    <3>2. to[t] + to[t + 1] = at[t] + at[t + 1] + one
      BY <1>2, <1>3, <1>8, <2>1, <3>1
    <3>3. at[t] + at[t + 1] <= before
      <4>1. CASE ts < p.end
        BY <1>1, <1>2, <1>5, <1>8, <4>1
      <4>2. CASE ts >= p.end
        <5>1. t >= p.end
          BY <1>1, <1>8, <2>1, <4>2
        <5>2. at[t] = 0 /\ at[t + 1] = 0
          BY <1>1, <1>4, <1>8, <2>1, <5>1
        <5> QED
          BY <1>2, <5>2
      <4> QED
        BY <1>1, <4>1, <4>2
    <3> QED
      BY <1>2, <1>3, <2>1, <3>2, <3>3
  <2>3. to[t] + to[t + 1] <= LimitMax
    <3>1. CASE t # ts /\ t + 1 # ts
      <4>1. to[t] = at[t] /\ to[t + 1] = at[t + 1]
        BY <1>3, <1>8, <3>1
      <4> QED
        BY <1>5, <1>8, <4>1
    <3>2. CASE t = q.end - 2
      BY <1>1, <2>1, <2>2, <3>2
    <3>3. CASE t = ts /\ t # q.end - 2
      <4>1. t + 1 >= q.end
        BY <1>1, <1>8, <2>1, <3>3
      <4>2. to[t + 1] = 0
        BY <1>1, <1>7, <1>8, <2>1, <4>1
      <4> QED
        BY <1>1, <1>7, <2>1, <4>2
    <3>4. CASE t + 1 = ts /\ t # q.end - 2
      <4>1. q.end = ts + Expiration /\ t = q.end - 3
        BY <1>1, <1>8, <2>1, <3>4
      <4>2. to[t] = at[t] /\ to[t] <= e.prevHits /\ to[t + 1] <= q.window
        <5>1. t # ts
          BY <1>1, <2>1, <3>4
        <5>2. to[t] <= j.prevHits
          BY <1>7, <1>8, <4>1
        <5>3. t + 1 >= q.end - Expiration
          BY <1>1, <1>8, <2>1, <4>1
        <5>4. to[t + 1] <= q.window
          BY <1>7, <1>8, <5>3
        <5> QED
          BY <1>3, <5>1, <5>2, <5>4
      <4>3. CASE ok
        <5>1. ts \in Nat /\ e.exp = ts + Expiration
          BY <1>1, <4>1
        <5>2. Rate(e, ts) = e.prevHits + e.currHits
          BY <5>1, FullWeight
        <5> QED
          BY <1>1, <2>1, <4>2, <4>3, <5>2
      <4>4. CASE ~ok
        <5>1. to[t + 1] = at[t + 1]
          BY <1>2, <1>3, <3>4, <4>4
        <5> QED
          BY <1>5, <1>8, <4>2, <5>1
      <4> QED
        BY <4>3, <4>4
    <3> QED
      BY <3>1, <3>2, <3>3, <3>4
  <2> QED
    BY <2>2, <2>3
<1>9. j.drop # 0 /\ j.exp + Expiration <= j.drop
  BY <1>1 DEF ResetInSec
<1> QED
  BY <1>2, <1>7, <1>8, <1>9 DEF EntryRecent

LEMMA InitRecent == LimiterInit => RecentInv
<1> SUFFICES ASSUME LimiterInit PROVE RecentInv
  OBVIOUS
<1>1. LimiterInv
  BY InitLimiter
<1>2. ASSUME NEW k \in LimitKeys PROVE EntryRecent(passed[k], hits[k], seen[k], second)
  <2>1. /\ passed[k] = [at |-> [t \in Times |-> 0], window |-> 0, end |-> 0]
        /\ hits[k].drop = 0
    BY DEF LimiterInit, NoItem, Times
  <2>2. passed[k].end = 0 /\ passed[k].window = 0 /\ \A t \in Times : passed[k].at[t] = 0
    BY <2>1
  <2> QED
    BY <2>1, <2>2, LimiterAssumption DEF EntryRecent
<1> QED
  BY <1>1, <1>2 DEF RecentInv

LEMMA HitKeepsRecent ==
  ASSUME ShortWindows, RecentInv, LimiterInv', NEW k \in LimitKeys, Hit(k)
  PROVE  RecentInv'
<1>1. PICK ts \in {second, second + 1}, stored \in {second, second + 1, second + 2} :
        /\ stored \in {ts, ts + 1} /\ stored <= LimitHorizon
        /\ LET e == CountedHit(k, ts)
               ok == LimitMax - Rate(e, ts) >= 0
           IN /\ hits' = [hits EXCEPT ![k] =
                    [currHits |-> e.currHits, prevHits |-> e.prevHits, exp |-> e.exp,
                     drop |-> stored + ResetInSec(e, ts) + Expiration]]
              /\ passed' = [passed EXCEPT ![k] = LetThrough(k, e, ts, ok)]
              /\ answer' = [ok |-> ok, quiet |-> second - seen[k]]
              /\ seen' = [seen EXCEPT ![k] = stored]
              /\ second' = stored
              /\ UNCHANGED sweep
  BY Zenon DEF Hit
<1>2. /\ second \in Times /\ second \in Nat /\ LimitHorizon \in Nat
      /\ LimitMax \in Nat /\ hits \in [LimitKeys -> ItemRow]
      /\ passed \in [LimitKeys -> PassedRow] /\ seen \in [LimitKeys -> Nat]
      /\ hits' \in [LimitKeys -> ItemRow] /\ passed' \in [LimitKeys -> PassedRow]
      /\ seen[k] <= second
      /\ \A j \in LimitKeys : EntryRecent(passed[j], hits[j], seen[j], second)
  BY LimiterAssumption DEF RecentInv, LimiterInv, LimiterTyped, EntryFresh, Times
<1>3. ts \in Times /\ ts \in Nat /\ stored \in Nat /\ second <= ts /\ ts <= stored
  BY <1>1, <1>2 DEF Times
<1>4. /\ CountedHit(k, ts) \in EntryRow
      /\ \/ /\ hits[k].drop # 0 /\ ts < passed[k].end
            /\ CountedHit(k, ts).exp = passed[k].end
            /\ CountedHit(k, ts).prevHits = hits[k].prevHits
         \/ /\ ts >= passed[k].end /\ CountedHit(k, ts).exp = ts + Expiration
            /\ passed[k].end = 0 \/ passed[k].end + Expiration <= ts
         \/ /\ ts >= passed[k].end /\ ts < passed[k].end + Expiration
            /\ CountedHit(k, ts).exp = passed[k].end + Expiration
            /\ CountedHit(k, ts).prevHits >= passed[k].window
  BY <1>3, CountedHow
<1>5. PICK e \in EntryRow : e = CountedHit(k, ts)
  BY <1>4
<1>6. e.exp > ts /\ e.exp <= ts + Expiration
  <2>1. LimiterTyped /\ EntryFresh(k)
    BY DEF RecentInv, LimiterInv
  <2> QED
    BY <1>3, <1>5, <2>1, CountedEntry
<1> DEFINE ok == LimitMax - Rate(e, ts) >= 0
<1>7. ok \in BOOLEAN
  OBVIOUS
<1>8. ok => Rate(e, ts) <= LimitMax
  <2>1. Rate(e, ts) \in Nat
    BY <1>3, <1>6, RateBound
  <2> QED
    BY <1>2, <2>1
<1>9. PICK j \in ItemRow, q \in PassedRow : j = hits'[k] /\ q = passed'[k]
  BY <1>2
<1>10. /\ j = [currHits |-> e.currHits, prevHits |-> e.prevHits, exp |-> e.exp,
               drop |-> stored + ResetInSec(e, ts) + Expiration]
       /\ q = LetThrough(k, e, ts, ok)
       /\ seen' = [seen EXCEPT ![k] = stored] /\ second' = stored
       /\ \A m \in LimitKeys \ {k} : hits'[m] = hits[m] /\ passed'[m] = passed[m]
  BY <1>1, <1>2, <1>5, <1>9
<1> HIDE DEF ok
<1>11. /\ q.at = IF ok THEN [passed[k].at EXCEPT ![ts] = @ + 1] ELSE passed[k].at
       /\ q.window = (IF ts >= passed[k].end THEN 0 ELSE passed[k].window)
                        + (IF ok THEN 1 ELSE 0)
       /\ q.end = e.exp
  BY <1>10, Zenon DEF LetThrough
<1>12. q.window <= LimitMax /\ q.window <= e.currHits
  <2>1. /\ passed'[k].window <= LimitMax
        /\ hits'[k].drop # 0 => passed'[k].window <= hits'[k].currHits
    BY DEF LimiterInv, EntryCounts
  <2>2. j.drop # 0 /\ j.currHits = e.currHits
    BY <1>3, <1>6, <1>10, LimiterAssumption DEF ResetInSec, EntryRow
  <2> QED
    BY <1>9, <2>1, <2>2
<1>13. EntryRecent(q, j, stored, stored)
  <2>1. /\ j.currHits = e.currHits /\ j.prevHits = e.prevHits /\ j.exp = e.exp
        /\ j.drop = stored + ResetInSec(e, ts) + Expiration
    BY <1>10
  <2>2. PICK p \in PassedRow, i \in ItemRow, last \in Nat, moment \in Nat :
          p = passed[k] /\ i = hits[k] /\ last = seen[k] /\ moment = second
    BY <1>2
  <2>3. EntryRecent(p, i, last, moment) /\ last <= moment /\ moment <= ts
    BY <1>2, <1>3, <2>2
  <2>4. \/ /\ i.drop # 0 /\ ts < p.end
           /\ e.exp = p.end /\ e.prevHits = i.prevHits
        \/ /\ ts >= p.end /\ e.exp = ts + Expiration
           /\ p.end = 0 \/ p.end + Expiration <= ts
        \/ /\ ts >= p.end /\ ts < p.end + Expiration /\ e.exp = p.end + Expiration
           /\ e.prevHits >= p.window
    BY <1>4, <1>5, <2>2
  <2>5. /\ q.at = IF ok THEN [p.at EXCEPT ![ts] = @ + 1] ELSE p.at
        /\ q.window = (IF ts >= p.end THEN 0 ELSE p.window) + (IF ok THEN 1 ELSE 0)
    BY <1>11, <2>2, Zenon
  <2> QED
    BY <1>3, <1>6, <1>7, <1>8, <1>11, <1>12, <2>1, <2>3, <2>4, <2>5, HitStaysRecent
<1>14. ASSUME NEW m \in LimitKeys, m # k
       PROVE  EntryRecent(passed'[m], hits'[m], seen'[m], second')
  <2>1. /\ passed'[m] = passed[m] /\ hits'[m] = hits[m] /\ seen'[m] = seen[m]
        /\ second' \in Nat /\ second <= second'
    BY <1>2, <1>3, <1>10, <1>14
  <2>2. passed[m].end \in Nat /\ EntryRecent(passed[m], hits[m], seen[m], second)
    BY <1>2 DEF PassedRow
  <2> QED
    BY <1>2, <2>1, <2>2, LimiterAssumption DEF EntryRecent
<1>15. EntryRecent(passed'[k], hits'[k], seen'[k], second')
  <2>1. seen'[k] = stored /\ second' = stored
    BY <1>2, <1>10
  <2> QED
    BY <1>9, <1>13, <2>1
<1> QED
  BY <1>14, <1>15 DEF RecentInv

LEMMA RestKeepsRecent ==
  ASSUME RecentInv, LimiterInv',
         SecondPasses \/ SweepLists \/ SweepDeletes \/ UNCHANGED limiterVars
  PROVE  RecentInv'
<1>1. /\ second \in Nat /\ second' \in Nat /\ second <= second'
      /\ passed' = passed /\ seen' = seen
  BY DEF RecentInv, LimiterInv, LimiterTyped, SecondPasses, SweepLists, SweepDeletes, limiterVars
<1>2. ASSUME NEW k \in LimitKeys
      PROVE  \/ hits'[k] = hits[k]
             \/ /\ hits'[k].drop = 0
                /\ hits[k].drop # 0 /\ hits[k].drop <= second
  <2>1. CASE SweepDeletes
    <3>1. hits'[k] = hits[k] \/ (hits'[k] = NoItem /\ k \in ExpiredKeys(sweep.ts))
      BY <2>1 DEF SweepDeletes
    <3>2. sweep.ts \in Nat /\ sweep.ts <= second /\ hits[k].drop \in Nat
      BY DEF RecentInv, LimiterInv, LimiterTyped, ItemRow
    <3> QED
      BY <1>1, <3>1, <3>2 DEF ExpiredKeys, NoItem
  <2>2. CASE ~SweepDeletes
    BY <2>2 DEF SecondPasses, SweepLists, limiterVars
  <2> QED
    BY <2>1, <2>2
<1>3. ASSUME NEW k \in LimitKeys
      PROVE  EntryRecent(passed'[k], hits'[k], seen'[k], second')
  <2>1. /\ EntryRecent(passed[k], hits[k], seen[k], second) /\ EntryCounts(k)
        /\ passed[k].end \in Nat /\ hits[k].exp \in Nat /\ hits[k].drop \in Nat
    BY DEF RecentInv, LimiterInv, LimiterTyped, ItemRow, PassedRow
  <2>2. CASE hits'[k] = hits[k]
    BY <1>1, <2>1, <2>2, LimiterAssumption DEF EntryRecent
  <2>3. CASE hits'[k].drop = 0 /\ hits[k].drop # 0 /\ hits[k].drop <= second
    <3>1. passed[k].end + Expiration <= hits[k].drop
      BY <2>1, <2>3 DEF EntryRecent, EntryCounts
    <3>2. passed[k].end + Expiration <= second'
      BY <1>1, <2>1, <2>3, <3>1, LimiterAssumption
    <3> QED
      BY <1>1, <2>1, <2>3, <3>2 DEF EntryRecent
  <2> QED
    BY <1>2, <2>2, <2>3
<1> QED
  BY <1>3 DEF RecentInv

\* what is let through in one second, or in two
LEMMA RecentWindows ==
  ASSUME ShortWindows, RecentInv
  PROVE  RecentLimit
<1> SUFFICES ASSUME NEW k \in LimitKeys, NEW t \in 1..LimitHorizon
             PROVE  SumFunctionOnSet(passed[k].at,
                       (t..(t + Expiration - 1)) \cap (1..LimitHorizon)) <= LimitMax
  BY DEF RecentLimit
<1>1. PICK at \in [1..LimitHorizon -> Nat] : at = passed[k].at
  BY DEF RecentInv, LimiterInv, LimiterTyped, PassedRow
<1>2. LimitHorizon \in Nat /\ LimitMax \in Nat /\ t \in Nat /\ Expiration \in {1, 2}
  BY LimiterAssumption DEF ShortWindows
<1>3. /\ at[t] <= LimitMax
      /\ Expiration = 2 /\ t + 1 \in 1..LimitHorizon => at[t] + at[t + 1] <= LimitMax
  BY <1>1 DEF RecentInv, EntryRecent, Times
<1>4. at[t] \in Int
  OBVIOUS
<1>5. CASE Expiration = 2 /\ t + 1 \in 1..LimitHorizon
  <2>1. (t..(t + Expiration - 1)) \cap (1..LimitHorizon) = {t} \cup {t + 1}
    BY <1>2, <1>5
  <2>2. SumFunctionOnSet(at, {t} \cup {t + 1}) = SumFunctionOnSet(at, {t}) + at[t + 1]
    <3>1. IsFiniteSet({t})
      BY FS_Singleton
    <3>2. t + 1 \notin {t}
      BY <1>2
    <3>3. IntOn(at, {t}) /\ at[t + 1] \in Int
      BY <1>5 DEF IntOn
    <3> QED
      BY <3>1, <3>2, <3>3, SumWith
  <2>3. SumFunctionOnSet(at, {t}) = at[t]
    BY <1>4, SumOfOne
  <2> QED
    BY <1>1, <1>3, <1>5, <2>1, <2>2, <2>3
<1>6. CASE ~(Expiration = 2 /\ t + 1 \in 1..LimitHorizon)
  <2>1. (t..(t + Expiration - 1)) \cap (1..LimitHorizon) = {t}
    BY <1>2, <1>6
  <2>2. SumFunctionOnSet(at, {t}) = at[t]
    BY <1>4, SumOfOne
  <2> QED
    BY <1>1, <1>3, <2>1, <2>2
<1> QED
  BY <1>5, <1>6

\* In windows of one second, as the limiter is configured, or of two, at most Max requests
\* of a key are let through in any window's length in a row, whatever the clock and the
\* sweeper do between and during requests ("Max number of recent connections").
THEOREM RecentLimitKept ==
  ASSUME ShortWindows
  PROVE  LimiterSpec => []RecentLimit
<1>1. RecentInv /\ [LimiterNext]_limiterVars => RecentInv'
  <2> SUFFICES ASSUME RecentInv, [LimiterNext]_limiterVars PROVE RecentInv'
    OBVIOUS
  <2>1. LimiterInv'
    BY LimiterStep DEF RecentInv
  <2>2. ASSUME NEW k \in LimitKeys, Hit(k) PROVE RecentInv'
    BY <2>1, <2>2, HitKeepsRecent
  <2>3. CASE SecondPasses \/ SweepLists \/ SweepDeletes \/ UNCHANGED limiterVars
    BY <2>1, <2>3, RestKeepsRecent
  <2> QED
    BY <2>2, <2>3 DEF LimiterNext
<1> QED
  BY <1>1, InitRecent, RecentWindows, PTL DEF LimiterSpec

-----------------------------------------------------------------------------
(* Sessions *)

USE LimitsAssumption, BoundsAssumption

Fields == DOMAIN sessions
Making == {"drop", "count", "list", "evict", "save"}
Token == [field : Nat, handed : BOOLEAN, begun : BOOLEAN, renewed : Nat]
Link == [code : Nat, reads : Nat]
Request == [pc : Making \cup {"idle", "link", "forget"}, token : Nat, prev : Nat,
            fields : SUBSET Nat, code : Nat, read : Link]

Saving == {h \in Handlers : req[h].pc = "save"}
Evicting == {h \in Handlers : req[h].pc = "evict"}
Listed(A) == UNION {req[h].fields : h \in A}

-----------------------------------------------------------------------------
(* The invariant *)

Typed ==
    /\ now \in Nat
    /\ tokens \in Seq(Token) /\ uses \in Seq([reads : Nat, accepted : Nat]) /\ link \in Link
    /\ req \in [Handlers -> Request] /\ overlapped \in BOOLEAN
    /\ IsFiniteSet(Fields) /\ Fields \subseteq Nat
    /\ \A f \in Fields : sessions[f] \in DOMAIN tokens /\ tokens[sessions[f]].field = f

\* Session ids grow with time.
InOrder ==
    \A s, t \in DOMAIN tokens : /\ tokens[t].field <= now
                                /\ s < t => tokens[s].field <= tokens[t].field

\* What a request makes is nobody's yet; until requests overlap there is one, with the
\* youngest token.
OwnToken ==
    \A h \in Handlers : req[h].pc \in Making =>
        /\ req[h].token \in DOMAIN tokens
        /\ \A f \in Fields : sessions[f] # req[h].token
        /\ \A g \in Handlers : g # h /\ req[g].pc \in Making => req[g].token # req[h].token
        /\ req[h].pc = "drop" => req[h].prev \in DOMAIN tokens /\ tokens[req[h].prev].begun

Alone ==
    ~overlapped =>
        \A h \in Handlers :
            /\ req[h].pc # "idle" => \A g \in Handlers : req[g].pc # "idle" => g = h
            /\ req[h].pc \in Making => req[h].token = Len(tokens)

\* Why a token need not be among the sessions, for good.
Shares(t) == \E s \in DOMAIN tokens \ {t} : tokens[s].field = tokens[t].field
Outlived(t) ==
    Len(tokens) - t >= IF overlapped THEN UserSessionsLimit - 1 ELSE UserSessionsLimit

\* What a request is about to evict are sessions that outlived their turn.
Doomed ==
    \A h \in Evicting : \A f \in req[h].fields :
        /\ \E s \in DOMAIN tokens : tokens[s].field = f
        /\ \A t \in DOMAIN tokens : tokens[t].field = f => Shares(t) \/ Outlived(t)

\* However many of the requests that evict have their way, the sessions left, those that
\* others are about to save and these requests' own are within the bound.
Room ==
    \A A \in SUBSET Evicting :
        Cardinality(Fields \ Listed(A)) + Cardinality(Saving) + Cardinality(A)
            <= UserSessionsLimit - 1 + Cardinality(Handlers)

SessionsInv == Typed /\ InOrder /\ OwnToken /\ Alone /\ Doomed /\ Room /\ HeldTokenStays

-----------------------------------------------------------------------------
(* Counting *)

\* Of any set of fields the limit leaves one less than it allows.
LEMMA Survivors ==
    ASSUME NEW F \in SUBSET Nat, IsFiniteSet(F)
    PROVE  Cardinality(F \ FieldsToDelete(F)) <= UserSessionsLimit - 1
<1> DEFINE Y == F \ FieldsToDelete(F)
           above(f) == {g \in F : g > f}
           rank == [f \in Y |-> Cardinality(above(f))]
<1>1. ASSUME NEW f \in F
      PROVE  IsFiniteSet(above(f)) /\ Cardinality(above(f)) \in Nat
  BY FS_Subset, FS_CardinalityType
<1>2. ASSUME NEW f \in Y PROVE rank[f] \in 0..(UserSessionsLimit - 2)
  <2>1. ~(Cardinality(above(f)) >= UserSessionsLimit - 1)
    BY DEF FieldsToDelete
  <2> QED
    BY <1>1, <2>1
<1>3. ASSUME NEW x \in Y, NEW y \in Y, x < y PROVE rank[x] # rank[y]
  <2>1. above(y) \in SUBSET above(x) /\ y \in above(x) /\ y \notin above(y)
    <3>1. x \in F /\ y \in F /\ x \in Nat /\ y \in Nat
      OBVIOUS
    <3>2. \A g \in F : g > y => g > x
      BY <1>3, <3>1
    <3>3. y > x /\ ~(y > y)
      BY <1>3, <3>1
    <3> QED
      BY <3>1, <3>2, <3>3
  <2>2. Cardinality(above(x)) # Cardinality(above(y))
    BY <1>1, <2>1, FS_Subset
  <2> QED
    BY <2>2
<1>4. rank \in [Y -> 0..(UserSessionsLimit - 2)]
  BY <1>2
<1>5. \A x, y \in Y : rank[x] = rank[y] => x = y
  BY <1>3
<1> HIDE DEF rank, Y
<1>6. rank \in Injection(Y, 0..(UserSessionsLimit - 2))
  BY <1>4, <1>5 DEF Injection, IsInjective
<1>7. /\ IsFiniteSet(0..(UserSessionsLimit - 2))
      /\ Cardinality(0..(UserSessionsLimit - 2)) = UserSessionsLimit - 1
  <2>1. 0 \in Int /\ UserSessionsLimit - 2 \in Int
    OBVIOUS
  <2>2. Cardinality(0..(UserSessionsLimit - 2)) =
          IF 0 > UserSessionsLimit - 2 THEN 0 ELSE (UserSessionsLimit - 2) - 0 + 1
    BY <2>1, FS_Interval
  <2>3. IsFiniteSet(0..(UserSessionsLimit - 2))
    BY <2>1, FS_Interval, Zenon
  <2>4. UserSessionsLimit \in Nat \ {0}
    OBVIOUS
  <2> QED
    BY <2>2, <2>3, <2>4
<1>8. Cardinality(Y) <= UserSessionsLimit - 1
  BY <1>6, <1>7, FS_Injection
<1> QED
  BY <1>8 DEF Y

LEMMA Above ==
    ASSUME NEW a \in Int, NEW b \in Int, a <= b
    PROVE  IsFiniteSet((a + 1)..b) /\ Cardinality((a + 1)..b) = b - a
<1>1. a + 1 \in Int
  OBVIOUS
<1>2. Cardinality((a + 1)..b) = IF a + 1 > b THEN 0 ELSE b - (a + 1) + 1
  BY <1>1, FS_Interval
<1>3. IsFiniteSet((a + 1)..b)
  BY <1>1, FS_Interval
<1> QED
  BY <1>2, <1>3

\* Requests do one thing at a time.
LEMMA Disjoint ==
    ASSUME NEW A \in SUBSET Handlers, NEW B \in SUBSET Handlers, B \cap A = {}
    PROVE  /\ IsFiniteSet(A) /\ IsFiniteSet(B) /\ Cardinality(A) \in Nat
           /\ Cardinality(B) \in Nat /\ Cardinality(Handlers) \in Nat
           /\ Cardinality(B) + Cardinality(A) <= Cardinality(Handlers)
<1>1. IsFiniteSet(A) /\ IsFiniteSet(B)
  BY FS_Subset
<1>2. Cardinality(A \cup B) = Cardinality(A) + Cardinality(B) - Cardinality(A \cap B)
  BY <1>1, FS_Union
<1>3. Cardinality(A \cap B) = 0
  BY FS_EmptySet
<1>4. Cardinality(A \cup B) <= Cardinality(Handlers)
  BY FS_Subset
<1>5. Cardinality(A) \in Nat /\ Cardinality(B) \in Nat /\ Cardinality(Handlers) \in Nat
  BY <1>1, FS_CardinalityType
<1> QED
  BY <1>1, <1>2, <1>3, <1>4, <1>5

LEMMA SavingAndEvicting ==
    ASSUME NEW A \in SUBSET Evicting
    PROVE  /\ IsFiniteSet(A) /\ IsFiniteSet(Saving) /\ Cardinality(A) \in Nat
           /\ Cardinality(Saving) \in Nat /\ Cardinality(Handlers) \in Nat
           /\ Cardinality(Saving) + Cardinality(A) <= Cardinality(Handlers)
<1>1. A \subseteq Handlers /\ Saving \subseteq Handlers /\ Saving \cap A = {}
  BY DEF Evicting, Saving
<1> QED
  BY <1>1, Disjoint

\* Fewer sessions, requests that save and requests that evict leave room.
LEMMA RoomKept ==
    ASSUME Typed, Room, Fields' \subseteq Fields, Saving' \subseteq Saving,
           \A h \in Evicting' : h \in Evicting /\ req'[h].fields = req[h].fields
    PROVE  Room'
<1> SUFFICES ASSUME NEW A \in SUBSET Evicting'
             PROVE  Cardinality(Fields' \ Listed(A)') + Cardinality(Saving') + Cardinality(A)
                      <= UserSessionsLimit - 1 + Cardinality(Handlers)
  BY DEF Room
<1>1. A \in SUBSET Evicting /\ Listed(A)' = Listed(A)
  BY DEF Listed
<1>2. /\ IsFiniteSet(Fields \ Listed(A)) /\ IsFiniteSet(Saving)
      /\ Cardinality(A) \in Nat /\ Cardinality(Handlers) \in Nat
  BY <1>1, SavingAndEvicting, FS_Subset DEF Typed
<1>3. Cardinality(Fields' \ Listed(A)') <= Cardinality(Fields \ Listed(A))
  <2>1. Fields' \ Listed(A)' \in SUBSET (Fields \ Listed(A))
    BY <1>1
  <2> QED
    BY <1>2, <2>1, FS_Subset
<1>4. Cardinality(Saving') <= Cardinality(Saving)
  BY <1>2, FS_Subset
<1>5. /\ Cardinality(Fields' \ Listed(A)') \in Nat /\ Cardinality(Fields \ Listed(A)) \in Nat
      /\ Cardinality(Saving') \in Nat /\ Cardinality(Saving) \in Nat
  <2>1. IsFiniteSet(Fields' \ Listed(A)') /\ IsFiniteSet(Saving')
    BY <1>1, <1>2, FS_Subset
  <2> QED
    BY <1>2, <2>1, FS_CardinalityType
<1>6. Cardinality(Fields \ Listed(A)) + Cardinality(Saving) + Cardinality(A)
        <= UserSessionsLimit - 1 + Cardinality(Handlers)
  BY <1>1 DEF Room
<1> QED
  BY <1>2, <1>3, <1>4, <1>5, <1>6

-----------------------------------------------------------------------------
(* What lasts *)

\* Tokens are only added, and only ever marked.
Grows ==
    /\ tokens' \in Seq(Token) /\ Len(tokens') >= Len(tokens)
    /\ \A t \in DOMAIN tokens : /\ tokens'[t].field = tokens[t].field
                                /\ tokens[t].begun => tokens'[t].begun
    /\ overlapped' \in BOOLEAN /\ (overlapped => overlapped')
    /\ now' \in Nat /\ now' >= now

Excused(t) == tokens[t].begun \/ Expired(t) \/ Shares(t) \/ Outlived(t)

LEMMA TokensDomain ==
    ASSUME Typed
    PROVE  Len(tokens) \in Nat /\ DOMAIN tokens = 1..Len(tokens)
  BY DEF Typed

LEMMA GrownDomain ==
    ASSUME Typed, Grows
    PROVE  /\ Len(tokens') \in Nat /\ DOMAIN tokens' = 1..Len(tokens')
           /\ DOMAIN tokens \subseteq DOMAIN tokens'
<1>1. Len(tokens') \in Nat /\ DOMAIN tokens' = 1..Len(tokens')
  BY DEF Grows
<1> QED
  BY <1>1, TokensDomain DEF Grows

LEMMA SharesLasts ==
    ASSUME Typed, Grows, NEW t \in DOMAIN tokens, Shares(t)
    PROVE  Shares(t)'
<1>1. PICK s \in DOMAIN tokens \ {t} : tokens[s].field = tokens[t].field
  BY DEF Shares
<1>2. s \in DOMAIN tokens' \ {t} /\ tokens'[s].field = tokens'[t].field
  BY <1>1, GrownDomain DEF Grows
<1> QED
  BY <1>2 DEF Shares

LEMMA OutlivedLasts ==
    ASSUME Typed, Grows, NEW t \in DOMAIN tokens, Outlived(t)
    PROVE  Outlived(t)'
<1>1. t \in Int /\ Len(tokens) \in Int /\ Len(tokens') \in Int
  BY TokensDomain, GrownDomain
<1>2. Len(tokens') - t >= Len(tokens) - t
  BY <1>1 DEF Grows
<1>3. overlapped \in BOOLEAN /\ overlapped' \in BOOLEAN /\ (overlapped => overlapped')
  BY DEF Typed, Grows
<1>4. CASE overlapped
  BY <1>1, <1>2, <1>3, <1>4 DEF Outlived
<1>5. CASE ~overlapped
  BY <1>1, <1>2, <1>3, <1>5 DEF Outlived
<1> QED
  BY <1>4, <1>5

LEMMA ExcuseLasts ==
    ASSUME Typed, Grows, NEW t \in DOMAIN tokens, Excused(t)
    PROVE  Excused(t)'
<1>1. Expired(t) => Expired(t)'
  <2>1. tokens[t].field \in Nat /\ tokens'[t].field = tokens[t].field
    <3>1. tokens[t] \in Token
      BY DEF Typed
    <3> QED
      BY <3>1 DEF Grows, Token
  <2>2. now \in Nat /\ now' \in Nat /\ now' >= now
    BY DEF Typed, Grows
  <2> QED
    BY <2>1, <2>2 DEF Expired
<1>2. tokens[t].begun => tokens'[t].begun
  BY DEF Grows
<1> QED
  BY <1>1, <1>2, SharesLasts, OutlivedLasts DEF Excused

LEMMA HeldTokenIs ==
    HeldTokenStays <=> \A t \in Handed : Excused(t) \/ Matches(t)
  BY DEF HeldTokenStays, Excused, Shares, Outlived

LEMMA HeldKept ==
    ASSUME Typed, HeldTokenStays, Grows,
           \A t \in Handed' : t \in Handed \/ Matches(t)' \/ Excused(t)',
           \A t \in Handed : Matches(t) => Matches(t)' \/ Excused(t)'
    PROVE  HeldTokenStays'
<1>1. \A t \in Handed : Excused(t) \/ Matches(t)
  BY HeldTokenIs
<1>2. ASSUME NEW t \in Handed' PROVE Excused(t)' \/ Matches(t)'
  <2>1. CASE t \in Handed
    <3>1. t \in DOMAIN tokens
      BY <2>1 DEF Handed
    <3> QED
      BY <1>1, <2>1, <3>1, ExcuseLasts
  <2>2. CASE t \notin Handed
    BY <1>2, <2>2
  <2> QED
    BY <2>1, <2>2
<1> QED
  BY <1>2 DEF HeldTokenStays, Excused, Shares, Outlived

LEMMA DoomedKept ==
    ASSUME Typed, Doomed, Grows,
           \A h \in Evicting' : h \in Evicting /\ req'[h].fields = req[h].fields
    PROVE  Doomed'
<1> SUFFICES ASSUME NEW h \in Evicting', NEW f \in req'[h].fields
             PROVE  /\ \E s \in DOMAIN tokens' : tokens'[s].field = f
                    /\ \A t \in DOMAIN tokens' :
                         tokens'[t].field = f => Shares(t)' \/ Outlived(t)'
  BY DEF Doomed
<1>1. h \in Evicting /\ f \in req[h].fields
  OBVIOUS
<1>2. PICK s \in DOMAIN tokens : tokens[s].field = f
  BY <1>1 DEF Doomed
<1>3. s \in DOMAIN tokens' /\ tokens'[s].field = f
  BY <1>2, GrownDomain DEF Grows
<1>4. ASSUME NEW t \in DOMAIN tokens', tokens'[t].field = f
      PROVE  Shares(t)' \/ Outlived(t)'
  <2>1. CASE t \in DOMAIN tokens
    <3>1. tokens[t].field = f
      BY <1>4, <2>1 DEF Grows
    <3>2. Shares(t) \/ Outlived(t)
      BY <1>1, <2>1, <3>1 DEF Doomed
    <3> QED
      BY <2>1, <3>2, SharesLasts, OutlivedLasts
  <2>2. CASE t \notin DOMAIN tokens
    <3>1. s # t
      BY <1>2, <2>2
    <3> QED
      BY <1>3, <1>4, <3>1 DEF Shares
  <2> QED
    BY <2>1, <2>2
<1> QED
  BY <1>3, <1>4

-----------------------------------------------------------------------------
(* Requests that leave the sessions alone *)

LEMMA NothingMade ==
    ASSUME Typed, UNCHANGED <<now, tokens>>, overlapped' \in BOOLEAN, overlapped => overlapped'
    PROVE  Grows
  BY DEF Typed, Grows

LEMMA BotKeeps ==
    ASSUME SessionsInv, UNCHANGED <<now, tokens, sessions, req, overlapped>>,
           link' \in Link, uses' \in Seq([reads : Nat, accepted : Nat])
    PROVE  SessionsInv'
<1>1. Typed /\ Doomed /\ Room /\ HeldTokenStays /\ overlapped \in BOOLEAN
  BY DEF SessionsInv, Typed
<1>2. Grows
  BY <1>1, NothingMade
<1>3. Typed' /\ InOrder' /\ OwnToken' /\ Alone'
  BY DEF SessionsInv, Typed, InOrder, OwnToken, Alone, Fields
<1>4. /\ Saving' \subseteq Saving /\ Fields' = Fields
      /\ \A g \in Evicting' : g \in Evicting /\ req'[g].fields = req[g].fields
  BY DEF Saving, Evicting, Fields
<1>5. Doomed' /\ Room'
  BY <1>1, <1>2, <1>4, DoomedKept, RoomKept
<1>6. HeldTokenStays'
  BY <1>1, <1>2, HeldKept DEF Handed, Matches
<1> QED
  BY <1>3, <1>5, <1>6 DEF SessionsInv

LEMMA AsideKeeps ==
    ASSUME SessionsInv, NEW h \in Handlers, NEW r \in Request, r.pc \in {"idle", "link", "forget"},
           req' = [req EXCEPT ![h] = r], UNCHANGED <<now, tokens, sessions>>,
           link' \in Link, uses' \in Seq([reads : Nat, accepted : Nat]),
           (overlapped' = overlapped /\ req[h].pc # "idle") \/ Arrives(h)
    PROVE  SessionsInv'
<1>1. /\ Typed /\ Doomed /\ Room /\ HeldTokenStays /\ Alone /\ OwnToken
      /\ overlapped \in BOOLEAN /\ req \in [Handlers -> Request]
  BY DEF SessionsInv, Typed
<1>2. overlapped' \in BOOLEAN /\ (overlapped => overlapped')
  BY <1>1 DEF Arrives
<1>3. Grows
  BY <1>1, <1>2, NothingMade
<1>4. req' \in [Handlers -> Request] /\ req'[h] = r /\ \A g \in Handlers \ {h} : req'[g] = req[g]
  BY <1>1
<1>5. /\ Saving' \subseteq Saving
      /\ \A g \in Evicting' : g \in Evicting /\ req'[g].fields = req[g].fields
  BY <1>4 DEF Saving, Evicting
<1>6. Typed' /\ InOrder'
  BY <1>2, <1>4 DEF SessionsInv, Typed, InOrder, Fields
<1>7. OwnToken'
  BY <1>1, <1>4 DEF OwnToken, Fields, Making
<1>8. Alone'
  <2>1. CASE overlapped' = overlapped /\ req[h].pc # "idle"
    BY <1>1, <1>4, <2>1 DEF Alone, Making
  <2>2. CASE Arrives(h)
    BY <1>1, <1>4, <2>2 DEF Alone, Arrives, Making
  <2> QED
    BY <2>1, <2>2
<1>9. Doomed' /\ Room'
  BY <1>1, <1>3, <1>5, DoomedKept, RoomKept DEF Fields
<1>10. HeldTokenStays'
  BY <1>1, <1>3, HeldKept DEF Handed, Matches
<1> QED
  BY <1>6, <1>7, <1>8, <1>9, <1>10 DEF SessionsInv

-----------------------------------------------------------------------------
(* Requests that make a token *)

LEMMA BeginsKeeps ==
    ASSUME SessionsInv, NEW h \in Handlers, NEW T \in Seq(Token), Len(T) = Len(tokens),
           \A t \in DOMAIN tokens :
               /\ T[t].field = tokens[t].field /\ T[t].handed = tokens[t].handed
               /\ tokens[t].begun => T[t].begun,
           tokens' = Append(T, NewToken), UNCHANGED <<now, sessions>>,
           NEW r \in Request, r.pc \in {"count", "drop"}, r.token = Len(tokens) + 1,
           r.pc = "drop" => r.prev \in DOMAIN tokens /\ T[r.prev].begun,
           req' = [req EXCEPT ![h] = r],
           link' \in Link, uses' \in Seq([reads : Nat, accepted : Nat]),
           (overlapped' = overlapped /\ req[h].pc = "link") \/ Arrives(h)
    PROVE  SessionsInv'
<1>1. /\ Typed /\ InOrder /\ Doomed /\ Room /\ HeldTokenStays /\ Alone /\ OwnToken
      /\ overlapped \in BOOLEAN /\ req \in [Handlers -> Request] /\ now \in Nat
  BY DEF SessionsInv, Typed
<1>2. overlapped' \in BOOLEAN /\ (overlapped => overlapped')
  BY <1>1 DEF Arrives
<1>3. NewToken \in Token /\ NewToken.field = now /\ ~NewToken.handed
  BY <1>1 DEF NewToken, Token
<1>4. /\ Len(tokens) \in Nat /\ DOMAIN tokens = 1..Len(tokens) /\ DOMAIN T = DOMAIN tokens
  BY <1>1, TokensDomain
<1>5. /\ tokens' \in Seq(Token) /\ Len(tokens') = Len(tokens) + 1
      /\ DOMAIN tokens' = 1..(Len(tokens) + 1)
      /\ \A t \in DOMAIN tokens : tokens'[t] = T[t]
      /\ tokens'[Len(tokens) + 1] = NewToken
  BY <1>3, <1>4, AppendProperties
<1>10. ASSUME NEW t \in DOMAIN tokens
       PROVE  /\ t \in DOMAIN tokens' /\ tokens'[t].field = tokens[t].field
              /\ tokens'[t].handed = tokens[t].handed
              /\ tokens[t].begun => tokens'[t].begun
  <2>1. t \in DOMAIN tokens' /\ tokens'[t] = T[t]
    BY <1>4, <1>5
  <2> QED
    BY <2>1
<1>6. Grows
  <2>1. Len(tokens') >= Len(tokens)
    BY <1>4, <1>5
  <2> QED
    BY <1>1, <1>2, <1>5, <1>10, <2>1 DEF Grows
<1>7. /\ req' \in [Handlers -> Request] /\ req'[h] = r
      /\ \A g \in Handlers \ {h} : req'[g] = req[g]
  BY <1>1
<1>8. req[h].pc \in {"idle", "link"}
  BY DEF Arrives
<1>9. /\ Saving' \subseteq Saving
      /\ \A g \in Evicting' : g \in Evicting /\ req'[g].fields = req[g].fields
  BY <1>7 DEF Saving, Evicting
<1>11. Typed'
  BY <1>1, <1>2, <1>5, <1>7, <1>10 DEF Typed, Fields
<1>12. InOrder'
  <2>1. ASSUME NEW t \in DOMAIN tokens' PROVE tokens'[t].field <= now'
    <3>1. CASE t \in DOMAIN tokens
      BY <1>1, <1>10, <3>1 DEF InOrder
    <3>2. CASE t \notin DOMAIN tokens
      <4>1. t = Len(tokens) + 1
        BY <1>4, <1>5, <3>2
      <4> QED
        BY <1>1, <1>3, <1>5, <4>1
    <3> QED
      BY <3>1, <3>2
  <2>2. ASSUME NEW s \in DOMAIN tokens', NEW t \in DOMAIN tokens', s < t
        PROVE  tokens'[s].field <= tokens'[t].field
    <3>1. s \in DOMAIN tokens
      BY <1>4, <1>5, <2>2
    <3>2. CASE t \in DOMAIN tokens
      BY <1>1, <1>10, <2>2, <3>1, <3>2 DEF InOrder
    <3>3. CASE t \notin DOMAIN tokens
      <4>1. t = Len(tokens) + 1
        BY <1>4, <1>5, <3>3
      <4>2. tokens'[t].field = now
        BY <1>3, <1>5, <4>1
      <4> QED
        BY <1>1, <1>10, <3>1, <4>2 DEF InOrder
    <3> QED
      BY <3>2, <3>3
  <2> QED
    BY <2>1, <2>2 DEF InOrder
<1>13. OwnToken'
  <2>1. r.token \in DOMAIN tokens' /\ r.token \notin DOMAIN tokens
    BY <1>4, <1>5
  <2>2. \A f \in Fields : sessions[f] # r.token
    BY <1>1, <2>1 DEF Typed
  <2>3. \A g \in Handlers \ {h} : req[g].pc \in Making => req[g].token # r.token
    BY <1>1, <2>1 DEF OwnToken
  <2>4. r.pc = "drop" => r.prev \in DOMAIN tokens' /\ tokens'[r.prev].begun
    BY <1>5, <1>10
  <2>5. ASSUME NEW g \in Handlers \ {h}, req[g].pc \in Making
        PROVE  /\ req[g].token \in DOMAIN tokens'
               /\ \A f \in Fields : sessions[f] # req[g].token
               /\ \A k \in Handlers \ {h} :
                    k # g /\ req[k].pc \in Making => req[k].token # req[g].token
               /\ req[g].pc = "drop" =>
                    req[g].prev \in DOMAIN tokens' /\ tokens'[req[g].prev].begun
    BY <1>1, <1>6, <1>10, <2>5 DEF OwnToken, Grows
  <2> QED
    BY <1>7, <2>1, <2>2, <2>3, <2>4, <2>5 DEF OwnToken, Fields
<1>14. Alone'
  <2>1. ~overlapped' => \A g \in Handlers : req[g].pc # "idle" => g = h
    <3>1. CASE overlapped' = overlapped /\ req[h].pc = "link"
      BY <1>1, <3>1 DEF Alone
    <3>2. CASE Arrives(h)
      BY <3>2 DEF Arrives
    <3> QED
      BY <3>1, <3>2
  <2> QED
    BY <1>5, <1>7, <2>1 DEF Alone, Making
<1>15. Doomed' /\ Room'
  BY <1>1, <1>6, <1>9, DoomedKept, RoomKept DEF Fields
<1>16. HeldTokenStays'
  <2>1. ASSUME NEW t \in Handed' PROVE t \in Handed
    <3>1. t \in DOMAIN tokens' /\ tokens'[t].handed
      BY DEF Handed
    <3>2. t # Len(tokens) + 1
      BY <1>3, <1>5, <3>1
    <3>3. t \in DOMAIN tokens
      BY <1>4, <1>5, <3>1, <3>2
    <3> QED
      BY <1>10, <3>1, <3>3 DEF Handed
  <2>2. \A t \in Handed : Matches(t) => Matches(t)'
    BY <1>10 DEF Handed, Matches
  <2> QED
    BY <1>1, <1>6, <2>1, <2>2, HeldKept
<1> QED
  BY <1>11, <1>12, <1>13, <1>14, <1>15, <1>16 DEF SessionsInv

-----------------------------------------------------------------------------
(* Requests that proceed towards their session *)

LEMMA ProceedsKeeps ==
    ASSUME SessionsInv, NEW h \in Handlers, NEW r \in Request, req[h].pc \in Making,
           r.pc \in Making \ {"drop"}, r.token = req[h].token,
           req' = [req EXCEPT ![h] = r],
           UNCHANGED <<now, tokens, link, uses, overlapped>>,
           Fields' \subseteq Fields, \A f \in Fields' : sessions'[f] = sessions[f],
           \A t \in Handed : Matches(t) /\ tokens[t].field \notin Fields' => Excused(t)
    PROVE  /\ Typed' /\ InOrder' /\ OwnToken' /\ Alone' /\ HeldTokenStays'
           /\ r.pc # "evict" => Doomed'
           /\ r.pc \notin {"save", "evict"} => Room'
<1>1. /\ Typed /\ InOrder /\ Doomed /\ Room /\ HeldTokenStays /\ Alone /\ OwnToken
      /\ overlapped \in BOOLEAN /\ req \in [Handlers -> Request]
  BY DEF SessionsInv, Typed
<1>2. Grows
  BY <1>1, NothingMade
<1>3. req' \in [Handlers -> Request] /\ req'[h] = r /\ \A g \in Handlers \ {h} : req'[g] = req[g]
  BY <1>1
<1>4. Typed'
  <2>1. IsFiniteSet(Fields') /\ Fields' \subseteq Nat
    BY <1>1, FS_Subset DEF Typed
  <2> QED
    BY <1>1, <1>3, <2>1 DEF Typed, Fields
<1>5. InOrder'
  BY <1>1 DEF InOrder
<1>6. OwnToken'
  BY <1>1, <1>3 DEF OwnToken, Fields
<1>7. Alone'
  BY <1>1, <1>3 DEF Alone, Making
<1>8. HeldTokenStays'
  <2>1. \A t \in Handed : Matches(t) => Matches(t)' \/ Excused(t)
    BY DEF Matches, Fields
  <2>2. \A t \in Handed : Excused(t) => Excused(t)'
    BY <1>1, <1>2, ExcuseLasts DEF Handed
  <2> QED
    BY <1>1, <1>2, <2>1, <2>2, HeldKept DEF Handed
<1>9. ASSUME r.pc # "evict" PROVE Doomed'
  BY <1>1, <1>2, <1>3, <1>9, DoomedKept DEF Evicting
<1>10. ASSUME r.pc \notin {"save", "evict"} PROVE Room'
  <2>1. /\ Saving' \subseteq Saving
        /\ \A g \in Evicting' : g \in Evicting /\ req'[g].fields = req[g].fields
    BY <1>3, <1>10 DEF Saving, Evicting
  <2> QED
    BY <1>1, <2>1, RoomKept
<1> QED
  BY <1>4, <1>5, <1>6, <1>7, <1>8, <1>9, <1>10

\* A request that has seen less sessions than the limit may save.
LEMMA MaySave ==
    ASSUME Typed, Room, NEW h \in Handlers, UNCHANGED sessions,
           req'[h].pc = "save", \A g \in Handlers \ {h} : req'[g] = req[g],
           Cardinality(Fields) <= UserSessionsLimit - 1
    PROVE  Room'
<1> SUFFICES ASSUME NEW A \in SUBSET Evicting'
             PROVE  Cardinality(Fields' \ Listed(A)') + Cardinality(Saving') + Cardinality(A)
                      <= UserSessionsLimit - 1 + Cardinality(Handlers)
  BY DEF Room
<1>1. A \subseteq Handlers /\ Saving' \subseteq Handlers /\ A \cap Saving' = {}
  BY DEF Evicting, Saving
<1>2. IsFiniteSet(Fields) /\ Fields' = Fields
  BY DEF Typed, Fields
<1>3. Cardinality(Fields' \ Listed(A)') <= Cardinality(Fields)
  BY <1>2, FS_Subset
<1>4. /\ Cardinality(Saving') + Cardinality(A) <= Cardinality(Handlers)
      /\ Cardinality(Saving') \in Nat /\ Cardinality(A) \in Nat
      /\ Cardinality(Handlers) \in Nat
  BY <1>1, Disjoint
<1>5. Cardinality(Fields' \ Listed(A)') \in Nat /\ Cardinality(Fields) \in Nat
  BY <1>2, FS_Subset, FS_CardinalityType
<1> QED
  BY <1>3, <1>4, <1>5

LEMMA CountSessionsKeeps ==
    ASSUME SessionsInv, NEW h \in Handlers, CountSessions(h)
    PROVE  SessionsInv'
<1> DEFINE full == Cardinality(DOMAIN sessions) >= UserSessionsLimit
           r == [req[h] EXCEPT !.pc = IF full THEN "list" ELSE "save"]
<1>1. /\ req[h].pc = "count" /\ req' = [req EXCEPT ![h] = r]
      /\ UNCHANGED <<now, tokens, sessions, link, uses, overlapped>>
  BY DEF CountSessions, Become
<1>2. /\ Typed /\ Room /\ req \in [Handlers -> Request] /\ req[h] \in Request
      /\ IsFiniteSet(Fields)
  BY DEF SessionsInv, Typed
<1>3. r \in Request /\ r.pc = (IF full THEN "list" ELSE "save") /\ r.token = req[h].token
  BY <1>2 DEF Request, Making
<1>4. Fields' = Fields /\ \A f \in Fields' : sessions'[f] = sessions[f]
  BY <1>1 DEF Fields
<1> HIDE DEF r
<1>5. \A t \in Handed : Matches(t) /\ tokens[t].field \notin Fields' => Excused(t)
  BY <1>4 DEF Matches, Fields
<1>6. /\ Typed' /\ InOrder' /\ OwnToken' /\ Alone' /\ HeldTokenStays' /\ Doomed'
      /\ full => Room'
  BY <1>1, <1>3, <1>4, <1>5, ProceedsKeeps DEF Making
<1>7. CASE ~full
  <2>1. Cardinality(Fields) \in Nat
    BY <1>2, FS_CardinalityType
  <2>2. Cardinality(Fields) <= UserSessionsLimit - 1
    BY <1>7, <2>1 DEF Fields
  <2>3. req'[h].pc = "save" /\ \A g \in Handlers \ {h} : req'[g] = req[g]
    BY <1>1, <1>2, <1>3, <1>7
  <2>4. Room'
    BY <1>1, <1>2, <2>2, <2>3, MaySave
  <2> QED
    BY <1>6, <2>4 DEF SessionsInv
<1> QED
  BY <1>6, <1>7 DEF SessionsInv

\* Whoever is listed to go has as many sessions above as the limit leaves.
LEMMA ListedHaveYounger ==
    ASSUME SessionsInv, NEW h \in Handlers, req[h].pc = "list",
           NEW f \in FieldsToDelete(Fields), NEW t \in DOMAIN tokens, tokens[t].field = f
    PROVE  Shares(t) \/ Outlived(t)
<1> DEFINE K == {g \in Fields : g > f}
           young == [g \in K |-> sessions[g]]
<1>1. /\ Typed /\ InOrder /\ Fields \subseteq Nat /\ IsFiniteSet(Fields)
      /\ f \in Fields /\ f \in Nat
      /\ \A g \in Fields : sessions[g] \in DOMAIN tokens /\ tokens[sessions[g]].field = g
  BY DEF SessionsInv, Typed, FieldsToDelete
<1>2. Len(tokens) \in Nat /\ DOMAIN tokens = 1..Len(tokens)
  BY <1>1, TokensDomain
<1>3. IsFiniteSet(K) /\ Cardinality(K) \in Nat /\ Cardinality(K) >= UserSessionsLimit - 1
  BY <1>1, FS_Subset, FS_CardinalityType DEF FieldsToDelete
<1>4. ASSUME NEW g \in K PROVE young[g] \in (t + 1)..Len(tokens)
  <2>1. young[g] \in DOMAIN tokens /\ tokens[young[g]].field = g /\ g > f /\ g \in Nat
    BY <1>1
  <2>2. ~(young[g] < t)
    BY <1>1, <2>1 DEF InOrder
  <2>3. young[g] # t
    BY <1>1, <2>1
  <2> HIDE DEF young
  <2> QED
    BY <1>2, <2>1, <2>2, <2>3
<1>5. \A x, y \in K : young[x] = young[y] => x = y
  BY <1>1
<1>6. CASE overlapped
  <2>1. young \in Injection(K, (t + 1)..Len(tokens))
    BY <1>4, <1>5 DEF Injection, IsInjective
  <2>2. t \in Int /\ t <= Len(tokens)
    BY <1>2
  <2>3. /\ IsFiniteSet((t + 1)..Len(tokens))
        /\ Cardinality((t + 1)..Len(tokens)) = Len(tokens) - t
    BY <1>2, <2>2, Above
  <2>4. Cardinality(K) <= Len(tokens) - t
    BY <2>1, <2>3, FS_Injection
  <2> QED
    BY <1>2, <1>3, <1>6, <2>2, <2>4 DEF Outlived
<1>7. CASE ~overlapped
  <2>1. req[h].token = Len(tokens) /\ \A g \in Fields : sessions[g] # Len(tokens)
    BY <1>7 DEF SessionsInv, Alone, OwnToken, Making
  <2>2. CASE t = Len(tokens)
    <3>1. sessions[f] \in DOMAIN tokens \ {t} /\ tokens[sessions[f]].field = f
      BY <1>1, <2>1, <2>2
    <3> QED
      BY <3>1 DEF Shares
  <2>3. CASE t # Len(tokens)
    <3>1. t \in Int /\ t <= Len(tokens) - 1
      BY <1>2, <2>3
    <3>2. ASSUME NEW g \in K PROVE young[g] \in (t + 1)..(Len(tokens) - 1)
      <4>1. young[g] \in (t + 1)..Len(tokens) /\ young[g] # Len(tokens)
        BY <1>4, <2>1
      <4> HIDE DEF young
      <4> QED
        BY <1>2, <3>1, <4>1
    <3>3. young \in Injection(K, (t + 1)..(Len(tokens) - 1))
      BY <1>5, <3>2 DEF Injection, IsInjective
    <3>4. /\ IsFiniteSet((t + 1)..(Len(tokens) - 1))
          /\ Cardinality((t + 1)..(Len(tokens) - 1)) = Len(tokens) - 1 - t
      <4>1. Len(tokens) - 1 \in Int
        BY <1>2
      <4> QED
        BY <3>1, <4>1, Above
    <3>5. Cardinality(K) <= Len(tokens) - 1 - t
      BY <3>3, <3>4, FS_Injection
    <3> QED
      BY <1>2, <1>3, <1>7, <3>1, <3>5 DEF Outlived
  <2> QED
    BY <2>2, <2>3
<1> QED
  BY <1>6, <1>7

LEMMA ListSessionsKeeps ==
    ASSUME SessionsInv, NEW h \in Handlers, ListSessions(h)
    PROVE  SessionsInv'
<1> DEFINE full == Cardinality(Fields) >= UserSessionsLimit
           D == FieldsToDelete(Fields)
           r == IF full THEN [req[h] EXCEPT !.pc = "evict", !.fields = D]
                ELSE [req[h] EXCEPT !.pc = "save"]
<1>1. /\ req[h].pc = "list" /\ req' = [req EXCEPT ![h] = r]
      /\ UNCHANGED <<now, tokens, sessions, link, uses, overlapped>>
  BY DEF ListSessions, Become, Fields
<1>2. /\ Typed /\ Room /\ Doomed /\ req \in [Handlers -> Request] /\ req[h] \in Request
      /\ IsFiniteSet(Fields) /\ Fields \subseteq Nat /\ Cardinality(Fields) \in Nat
  BY FS_CardinalityType DEF SessionsInv, Typed
<1>3. D \in SUBSET Fields
  BY DEF FieldsToDelete
<1>4. /\ r \in Request /\ r.pc = (IF full THEN "evict" ELSE "save") /\ r.token = req[h].token
      /\ full => r.fields = D
  <2> HIDE DEF full, D
  <2>1. D \in SUBSET Nat
    BY <1>2, <1>3
  <2> QED
    BY <1>2, <2>1 DEF Request, Making
<1>5. Fields' = Fields /\ \A f \in Fields' : sessions'[f] = sessions[f]
  BY <1>1 DEF Fields
<1> HIDE DEF r
<1>6. \A t \in Handed : Matches(t) /\ tokens[t].field \notin Fields' => Excused(t)
  BY <1>5 DEF Matches, Fields
<1>7. /\ Typed' /\ InOrder' /\ OwnToken' /\ Alone' /\ HeldTokenStays'
      /\ ~full => Doomed'
  BY <1>1, <1>4, <1>5, <1>6, ProceedsKeeps DEF Making
<1>8. req'[h] = r /\ \A g \in Handlers \ {h} : req'[g] = req[g]
  BY <1>1, <1>2
<1>9. CASE ~full
  <2>1. Cardinality(Fields) <= UserSessionsLimit - 1
    BY <1>2, <1>9
  <2>2. Room'
    BY <1>1, <1>2, <1>4, <1>8, <1>9, <2>1, MaySave
  <2> QED
    BY <1>7, <1>9, <2>2 DEF SessionsInv
<1>10. CASE full
  <2>1. /\ Saving' = Saving /\ Evicting' = Evicting \cup {h} /\ h \notin Evicting
        /\ req'[h].fields = D
    BY <1>1, <1>4, <1>8, <1>10 DEF Saving, Evicting
  <2>2. Doomed'
    <3> SUFFICES ASSUME NEW g \in Evicting', NEW f \in req'[g].fields
                 PROVE  /\ \E s \in DOMAIN tokens : tokens[s].field = f
                        /\ \A t \in DOMAIN tokens :
                             tokens[t].field = f => Shares(t) \/ Outlived(t)
      BY <1>1 DEF Doomed, Shares, Outlived
    <3>1. CASE g = h
      <4>1. f \in D
        BY <2>1, <3>1
      <4>2. sessions[f] \in DOMAIN tokens /\ tokens[sessions[f]].field = f
        BY <1>2, <1>3, <4>1 DEF Typed
      <4>3. \A t \in DOMAIN tokens : tokens[t].field = f => Shares(t) \/ Outlived(t)
        BY <1>1, <4>1, ListedHaveYounger
      <4> QED
        BY <4>2, <4>3
    <3>2. CASE g # h
      BY <1>2, <1>8, <2>1, <3>2 DEF Doomed, Evicting
    <3> QED
      BY <3>1, <3>2
  <2>3. Room'
    <3> SUFFICES ASSUME NEW A \in SUBSET Evicting'
                 PROVE  Cardinality(Fields \ Listed(A)') + Cardinality(Saving) + Cardinality(A)
                          <= UserSessionsLimit - 1 + Cardinality(Handlers)
      BY <1>5, <2>1 DEF Room
    <3>1. CASE h \in A
      <4>1. Fields \ Listed(A)' \in SUBSET (Fields \ D)
        BY <2>1, <3>1 DEF Listed
      <4>2. Cardinality(Fields \ D) <= UserSessionsLimit - 1
        BY <1>2, Survivors
      <4>3. IsFiniteSet(Fields \ D) /\ IsFiniteSet(Fields \ Listed(A)')
        BY <1>2, FS_Subset
      <4>4. Cardinality(Fields \ Listed(A)') <= Cardinality(Fields \ D)
        BY <4>1, <4>3, FS_Subset
      <4>5. Cardinality(Fields \ D) \in Nat /\ Cardinality(Fields \ Listed(A)') \in Nat
        BY <4>3, FS_CardinalityType
      <4>6. A \subseteq Handlers /\ Saving \subseteq Handlers /\ Saving \cap A = {}
        BY <1>1, <2>1 DEF Evicting, Saving
      <4>7. /\ Cardinality(Saving) + Cardinality(A) <= Cardinality(Handlers)
            /\ Cardinality(Saving) \in Nat /\ Cardinality(A) \in Nat
            /\ Cardinality(Handlers) \in Nat
        BY <4>6, Disjoint
      <4> HIDE DEF D
      <4> QED
        BY <4>2, <4>4, <4>5, <4>7
    <3>2. CASE h \notin A
      <4>1. A \in SUBSET Evicting /\ Listed(A)' = Listed(A)
        BY <1>8, <2>1, <3>2 DEF Listed, Evicting
      <4> QED
        BY <1>2, <4>1 DEF Room
    <3> QED
      BY <3>1, <3>2
  <2> QED
    BY <1>7, <2>2, <2>3 DEF SessionsInv
<1> QED
  BY <1>9, <1>10

LEMMA EvictSessionsKeeps ==
    ASSUME SessionsInv, NEW h \in Handlers, EvictSessions(h)
    PROVE  SessionsInv'
<1> DEFINE gone == req[h].fields
           r == [req[h] EXCEPT !.pc = "save", !.fields = {}]
<1>1. /\ req[h].pc = "evict" /\ req' = [req EXCEPT ![h] = r]
      /\ sessions' = Restrict(sessions, Fields \ gone)
      /\ UNCHANGED <<now, tokens, link, uses, overlapped>>
  BY DEF EvictSessions, Become, Fields
<1>2. /\ Typed /\ Room /\ Doomed /\ req \in [Handlers -> Request] /\ req[h] \in Request
      /\ IsFiniteSet(Fields)
  BY DEF SessionsInv, Typed
<1>3. r \in Request /\ r.pc = "save" /\ r.token = req[h].token /\ r.fields = {}
  BY <1>2 DEF Request, Making
<1>4. Fields' = Fields \ gone /\ \A f \in Fields' : sessions'[f] = sessions[f]
  BY <1>1 DEF Fields, Restrict
<1> HIDE DEF r
<1>5. h \in Evicting
  BY <1>1 DEF Evicting
<1>6. ASSUME NEW t \in Handed, Matches(t), tokens[t].field \notin Fields'
      PROVE  Excused(t)
  <2>1. t \in DOMAIN tokens /\ tokens[t].field \in gone
    BY <1>4, <1>6 DEF Handed, Matches, Fields
  <2>2. Shares(t) \/ Outlived(t)
    BY <1>2, <1>5, <2>1 DEF Doomed
  <2> QED
    BY <2>2 DEF Excused
<1>7. Typed' /\ InOrder' /\ OwnToken' /\ Alone' /\ HeldTokenStays' /\ Doomed'
  BY <1>1, <1>3, <1>4, <1>6, ProceedsKeeps DEF Making
<1>8. req'[h] = r /\ \A g \in Handlers \ {h} : req'[g] = req[g]
  BY <1>1, <1>2
<1>9. /\ Saving' = Saving \cup {h} /\ h \notin Saving
      /\ Evicting' = Evicting \ {h}
  BY <1>1, <1>3, <1>8 DEF Saving, Evicting
<1>10. Room'
  <2> SUFFICES ASSUME NEW A \in SUBSET Evicting'
               PROVE  Cardinality(Fields' \ Listed(A)') + Cardinality(Saving') + Cardinality(A)
                        <= UserSessionsLimit - 1 + Cardinality(Handlers)
    BY DEF Room
  <2>1. A \cup {h} \in SUBSET Evicting /\ A \in SUBSET Evicting /\ h \notin A
    BY <1>5, <1>9
  <2>2. Cardinality(Fields \ Listed(A \cup {h})) + Cardinality(Saving)
          + Cardinality(A \cup {h}) <= UserSessionsLimit - 1 + Cardinality(Handlers)
    BY <1>2, <2>1 DEF Room
  <2>3. Fields' \ Listed(A)' = Fields \ Listed(A \cup {h})
    <3>1. Listed(A)' = Listed(A)
      BY <1>8, <2>1 DEF Listed, Evicting
    <3>2. Listed(A \cup {h}) = Listed(A) \cup gone
      BY DEF Listed
    <3> QED
      BY <1>4, <3>1, <3>2
  <2>4. /\ IsFiniteSet(A) /\ IsFiniteSet(Saving) /\ Cardinality(A) \in Nat
        /\ Cardinality(Saving) \in Nat /\ Cardinality(Handlers) \in Nat
    BY <2>1, SavingAndEvicting
  <2>5. Cardinality(A \cup {h}) = Cardinality(A) + 1
    BY <2>1, <2>4, FS_AddElement
  <2>6. Cardinality(Saving') = Cardinality(Saving) + 1
    BY <1>9, <2>4, FS_AddElement
  <2>7. Cardinality(Fields \ Listed(A \cup {h})) \in Nat
    BY <1>2, FS_Subset, FS_CardinalityType
  <2>8. Cardinality(Fields' \ Listed(A)') = Cardinality(Fields \ Listed(A \cup {h}))
    BY <2>3
  <2> QED
    BY <2>2, <2>4, <2>5, <2>6, <2>7, <2>8
<1> QED
  BY <1>7, <1>10 DEF SessionsInv

LEMMA DeleteUserSessionKeeps ==
    ASSUME SessionsInv, NEW h \in Handlers, DeleteUserSession(h)
    PROVE  SessionsInv'
<1> DEFINE gone == DroppedField(req[h])
           r == [req[h] EXCEPT !.pc = "count"]
<1>1. /\ req[h].pc = "drop" /\ req' = [req EXCEPT ![h] = r]
      /\ sessions' = Restrict(sessions, Fields \ {gone})
      /\ UNCHANGED <<now, tokens, link, uses, overlapped>>
  BY DEF DeleteUserSession, Become, Fields
<1>2. Typed /\ OwnToken /\ req[h] \in Request
  BY DEF SessionsInv, Typed
<1>3. r \in Request /\ r.pc = "count" /\ r.token = req[h].token
  BY <1>2 DEF Request, Making
<1>4. Fields' \subseteq Fields /\ \A f \in Fields' : sessions'[f] = sessions[f]
  BY <1>1 DEF Fields, Restrict
<1> HIDE DEF r
<1>5. req[h].prev \in DOMAIN tokens /\ tokens[req[h].prev].begun
  BY <1>1, <1>2 DEF OwnToken, Making
<1>6. ASSUME NEW t \in Handed, Matches(t), tokens[t].field \notin Fields'
      PROVE  Excused(t)
  <2>1. tokens[t].field = gone /\ t \in DOMAIN tokens
    BY <1>1, <1>6 DEF Matches, Handed, Fields, Restrict
  <2>2. CASE t = req[h].prev
    BY <1>5, <2>2 DEF Excused
  <2>3. CASE t # req[h].prev
    BY <1>5, <2>1, <2>3 DEF Excused, Shares, DroppedField
  <2> QED
    BY <2>2, <2>3
<1>7. /\ Typed' /\ InOrder' /\ OwnToken' /\ Alone' /\ HeldTokenStays' /\ Doomed' /\ Room'
  BY <1>1, <1>3, <1>4, <1>6, ProceedsKeeps DEF Making
<1> QED
  BY <1>7 DEF SessionsInv

LEMMA IdleIsRequest == Idle \in Request /\ Idle.pc = "idle" /\ NoLink \in Link
  BY DEF Idle, NoLink, Request, Link

LEMMA SaveSessionKeeps ==
    ASSUME SessionsInv, NEW h \in Handlers, SaveSession(h)
    PROVE  SessionsInv'
<1>a. PICK t : t = req[h].token
  OBVIOUS
<1>b. PICK f : f = tokens[t].field
  OBVIOUS
<1>1. /\ req[h].pc = "save" /\ req' = [req EXCEPT ![h] = Idle]
      /\ UNCHANGED <<now, link, uses, overlapped>>
      /\ tokens' = [s \in DOMAIN tokens |->
                       [tokens[s] EXCEPT
                           !.handed = @ \/ s = t,
                           !.renewed = IF s = req[h].prev /\ ~overlapped THEN @ + 1 ELSE @]]
      /\ sessions' = IF Expired(t) THEN sessions
                     ELSE [g \in Fields \cup {f} |-> IF g = f THEN t ELSE sessions[g]]
  BY <1>a, <1>b DEF SaveSession, Become, Fields
<1>2. /\ Typed /\ InOrder /\ Doomed /\ Room /\ HeldTokenStays /\ Alone /\ OwnToken
      /\ overlapped \in BOOLEAN /\ req \in [Handlers -> Request] /\ now \in Nat
      /\ tokens \in Seq(Token) /\ IsFiniteSet(Fields) /\ Fields \subseteq Nat
  BY DEF SessionsInv, Typed
<1>3. /\ Len(tokens) \in Nat /\ DOMAIN tokens = 1..Len(tokens)
      /\ t \in DOMAIN tokens /\ \A g \in Fields : sessions[g] # t
      /\ \A g \in Handlers \ {h} : req[g].pc \in Making => req[g].token # t
  BY <1>1, <1>2, <1>a, TokensDomain DEF OwnToken, Making
<1>4. ASSUME NEW s \in DOMAIN tokens
      PROVE  /\ tokens'[s] \in Token /\ tokens'[s].field = tokens[s].field
             /\ tokens'[s].begun = tokens[s].begun
             /\ tokens'[s].handed <=> (tokens[s].handed \/ s = t)
  <2>1. tokens[s] \in Token
    BY <1>2
  <2>2. PICK n \in Nat :
          tokens'[s] = [tokens[s] EXCEPT !.handed = @ \/ s = t, !.renewed = n]
    <3>1. tokens'[s] = [tokens[s] EXCEPT
                           !.handed = @ \/ s = t,
                           !.renewed = IF s = req[h].prev /\ ~overlapped
                                       THEN tokens[s].renewed + 1 ELSE tokens[s].renewed]
      BY <1>1
    <3>2. (IF s = req[h].prev /\ ~overlapped
           THEN tokens[s].renewed + 1 ELSE tokens[s].renewed) \in Nat
      BY <2>1 DEF Token
    <3> QED
      BY <3>1, <3>2
  <2>3. (tokens[s].handed \/ s = t) \in BOOLEAN
    BY <2>1 DEF Token
  <2>4. PICK v \in BOOLEAN : v = (tokens[s].handed \/ s = t)
    BY <2>3
  <2>5. tokens'[s] = [tokens[s] EXCEPT !.handed = v, !.renewed = n]
    BY <2>2, <2>4
  <2> QED
    BY <2>1, <2>4, <2>5 DEF Token
<1>5. /\ tokens' \in Seq(Token) /\ Len(tokens') = Len(tokens)
      /\ DOMAIN tokens' = DOMAIN tokens
  <2>1. DOMAIN tokens' = 1..Len(tokens)
    BY <1>1, <1>3
  <2>2. tokens' \in [1..Len(tokens) -> Token]
    BY <1>1, <1>3, <1>4
  <2> QED
    BY <1>3, <2>1, <2>2
<1>c. now' = now /\ overlapped' = overlapped
  BY <1>1
<1>6. Grows
  BY <1>2, <1>3, <1>4, <1>5, <1>c DEF Grows
<1>7. req' \in [Handlers -> Request] /\ req'[h] = Idle /\ Idle.pc = "idle"
      /\ \A g \in Handlers \ {h} : req'[g] = req[g]
  BY <1>1, <1>2, IdleIsRequest
<1>8. f \in Nat
  <2>1. tokens[t] \in Token
    BY <1>2, <1>3
  <2> QED
    BY <1>b, <2>1 DEF Token
<1>9. /\ Fields' \in SUBSET (Fields \cup {f})
      /\ \A g \in Fields' : (g \in Fields /\ sessions'[g] = sessions[g])
                               \/ (g = f /\ sessions'[g] = t)
      /\ \A g \in Fields : g # f => g \in Fields' /\ sessions'[g] = sessions[g]
  BY <1>1 DEF Fields
<1>10. Expired(t) \/ (f \in Fields' /\ sessions'[f] = t)
  BY <1>1 DEF Fields
<1>11. Typed'
  <2>1. IsFiniteSet(Fields \cup {f})
    BY <1>2, FS_AddElement
  <2>2. IsFiniteSet(Fields') /\ Fields' \subseteq Nat
    BY <1>2, <1>8, <1>9, <2>1, FS_Subset
  <2>3. \A g \in Fields' : sessions'[g] \in DOMAIN tokens' /\ tokens'[sessions'[g]].field = g
    <3> SUFFICES ASSUME NEW g \in Fields'
                 PROVE  sessions'[g] \in DOMAIN tokens' /\ tokens'[sessions'[g]].field = g
      OBVIOUS
    <3>1. CASE g \in Fields /\ sessions'[g] = sessions[g]
      <4>1. sessions[g] \in DOMAIN tokens /\ tokens[sessions[g]].field = g
        BY <1>2, <3>1 DEF Typed
      <4> QED
        BY <1>4, <1>5, <3>1, <4>1
    <3>2. CASE g = f /\ sessions'[g] = t
      BY <1>3, <1>4, <1>5, <1>b, <3>2
    <3> QED
      BY <1>9, <3>1, <3>2
  <2> QED
    BY <1>1, <1>2, <1>5, <1>7, <2>2, <2>3 DEF Typed
<1>12. InOrder'
  BY <1>2, <1>4, <1>5, <1>c DEF InOrder
<1>13. OwnToken'
  <2> SUFFICES ASSUME NEW g \in Handlers \ {h}, req[g].pc \in Making
               PROVE  /\ req[g].token \in DOMAIN tokens'
                      /\ \A x \in Fields' : sessions'[x] # req[g].token
                      /\ \A k \in Handlers \ {h} :
                           k # g /\ req[k].pc \in Making => req[k].token # req[g].token
                      /\ req[g].pc = "drop" =>
                           req[g].prev \in DOMAIN tokens' /\ tokens'[req[g].prev].begun
    BY <1>7 DEF OwnToken, Making
  <2> QED
    BY <1>2, <1>3, <1>4, <1>5, <1>9 DEF OwnToken
<1>14. Alone'
  BY <1>1, <1>2, <1>5, <1>7 DEF Alone, Making
<1>15. /\ Evicting' = Evicting /\ \A g \in Evicting : req'[g].fields = req[g].fields
       /\ Saving' = Saving \ {h} /\ h \in Saving
  BY <1>1, <1>7 DEF Evicting, Saving
<1>16. Doomed'
  BY <1>2, <1>6, <1>15, DoomedKept
<1>17. Room'
  <2> SUFFICES ASSUME NEW A \in SUBSET Evicting
               PROVE  Cardinality(Fields' \ Listed(A)') + Cardinality(Saving') + Cardinality(A)
                        <= UserSessionsLimit - 1 + Cardinality(Handlers)
    BY <1>15 DEF Room
  <2> DEFINE rest == Fields \ Listed(A)
  <2>1. Listed(A)' = Listed(A)
    BY <1>15 DEF Listed
  <2>2. /\ IsFiniteSet(A) /\ IsFiniteSet(Saving) /\ Cardinality(A) \in Nat
        /\ Cardinality(Saving) \in Nat /\ Cardinality(Handlers) \in Nat
    BY SavingAndEvicting
  <2>3. Cardinality(Saving') = Cardinality(Saving) - 1
    BY <1>15, <2>2, FS_RemoveElement
  <2>4. IsFiniteSet(rest) /\ Cardinality(rest) \in Nat
    BY <1>2, FS_Subset, FS_CardinalityType
  <2>5. /\ IsFiniteSet(rest \cup {f})
        /\ Cardinality(rest \cup {f}) = Cardinality(rest)
             \/ Cardinality(rest \cup {f}) = Cardinality(rest) + 1
    BY <2>4, FS_AddElement
  <2>6. Fields' \ Listed(A)' \in SUBSET (rest \cup {f})
    BY <1>9, <2>1
  <2>7. /\ IsFiniteSet(Fields' \ Listed(A)')
        /\ Cardinality(Fields' \ Listed(A)') <= Cardinality(rest \cup {f})
    BY <2>5, <2>6, FS_Subset
  <2>8. Cardinality(Fields' \ Listed(A)') \in Nat
    BY <2>7, FS_CardinalityType
  <2>9. Cardinality(rest) + Cardinality(Saving) + Cardinality(A)
          <= UserSessionsLimit - 1 + Cardinality(Handlers)
    BY <1>2 DEF Room
  <2> HIDE DEF rest
  <2>10. Cardinality(Fields' \ Listed(A)') <= Cardinality(rest) + 1
    BY <2>4, <2>5, <2>7, <2>8
  <2> QED
    BY <2>2, <2>3, <2>4, <2>8, <2>9, <2>10
<1>18. HeldTokenStays'
  <2>1. ASSUME NEW s \in Handed' PROVE s \in Handed \/ Matches(s)' \/ Excused(s)'
    <3>1. s \in DOMAIN tokens /\ (s \in Handed \/ s = t)
      BY <1>4, <1>5 DEF Handed
    <3>2. CASE s = t
      <4>1. Expired(t) => Excused(t)'
        BY <1>2, <1>3, <1>6, ExcuseLasts DEF Excused
      <4>2. tokens'[t].field = f
        BY <1>3, <1>4, <1>b
      <4> QED
        BY <1>10, <3>2, <4>1, <4>2 DEF Matches, Fields
    <3> QED
      BY <3>1, <3>2
  <2>2. ASSUME NEW s \in Handed, Matches(s) PROVE Matches(s)' \/ Excused(s)'
    <3>1. /\ s \in DOMAIN tokens /\ s # t /\ tokens[s].field \in Fields
          /\ sessions[tokens[s].field] = s /\ tokens'[s].field = tokens[s].field
      BY <1>3, <1>4, <2>2 DEF Handed, Matches, Fields
    <3>2. CASE tokens[s].field = f
      <4>1. Shares(s)
        BY <1>3, <1>b, <3>1, <3>2 DEF Shares
      <4> QED
        BY <1>2, <1>6, <3>1, <4>1, ExcuseLasts DEF Excused
    <3>3. CASE tokens[s].field # f
      BY <1>9, <3>1, <3>3 DEF Matches, Fields
    <3> QED
      BY <3>2, <3>3
  <2> QED
    BY <1>2, <1>6, <2>1, <2>2, HeldKept
<1> QED
  BY <1>11, <1>12, <1>13, <1>14, <1>16, <1>17, <1>18 DEF SessionsInv

LEMMA TickKeeps ==
    ASSUME SessionsInv, Tick
    PROVE  SessionsInv'
<1>1. /\ Typed /\ InOrder /\ Doomed /\ Room /\ HeldTokenStays /\ OwnToken
      /\ now \in Nat /\ IsFiniteSet(Fields) /\ tokens \in Seq(Token) /\ overlapped \in BOOLEAN
  BY DEF SessionsInv, Typed
<1>2. /\ now' = now + 1 /\ UNCHANGED <<tokens, link, uses, req, overlapped>>
      /\ sessions' = Restrict(sessions, {f \in Fields : f + RefreshTokenTTL > now + 1})
  BY DEF Tick, Fields
<1>3. /\ Fields' = {f \in Fields : f + RefreshTokenTTL > now + 1}
      /\ \A f \in Fields' : sessions'[f] = sessions[f]
  BY <1>2 DEF Fields, Restrict
<1>4. Grows
  BY <1>1, <1>2 DEF Grows
<1>5. Typed'
  <2>1. IsFiniteSet(Fields') /\ Fields' \subseteq Nat /\ now' \in Nat
    <3>1. Fields' \in SUBSET Fields
      BY <1>3
    <3>2. IsFiniteSet(Fields')
      BY <1>1, <3>1, FS_Subset
    <3> QED
      BY <1>1, <1>2, <3>1, <3>2 DEF Typed
  <2>2. \A f \in Fields' : sessions'[f] \in DOMAIN tokens' /\ tokens'[sessions'[f]].field = f
    BY <1>1, <1>2, <1>3 DEF Typed
  <2> QED
    BY <1>1, <1>2, <2>1, <2>2 DEF Typed
<1>6. InOrder'
  <2>1. ASSUME NEW t \in DOMAIN tokens PROVE tokens[t].field <= now + 1
    <3>1. tokens[t] \in Token
      BY <1>1
    <3>2. tokens[t].field \in Nat /\ tokens[t].field <= now
      BY <1>1, <3>1 DEF InOrder, Token
    <3> QED
      BY <1>1, <3>2
  <2> QED
    BY <1>1, <1>2, <2>1 DEF InOrder
<1>7. OwnToken' /\ Alone'
  BY <1>1, <1>2, <1>3 DEF SessionsInv, OwnToken, Alone
<1>8. /\ Saving' \subseteq Saving /\ Fields' \subseteq Fields
      /\ \A g \in Evicting' : g \in Evicting /\ req'[g].fields = req[g].fields
  BY <1>2, <1>3 DEF Saving, Evicting
<1>9. Doomed' /\ Room'
  BY <1>1, <1>4, <1>8, DoomedKept, RoomKept
<1>10. HeldTokenStays'
  <2>1. ASSUME NEW t \in Handed, Matches(t) PROVE Matches(t)' \/ Excused(t)'
    <3>1. /\ tokens[t].field \in Fields /\ sessions[tokens[t].field] = t
      BY <2>1 DEF Matches, Fields
    <3>2. CASE tokens[t].field \in Fields'
      BY <1>2, <1>3, <3>1, <3>2 DEF Matches, Fields
    <3>3. CASE tokens[t].field \notin Fields'
      <4>1. ~(tokens[t].field + RefreshTokenTTL > now + 1) /\ tokens[t].field \in Nat
        BY <1>1, <1>3, <3>1, <3>3 DEF Typed
      <4>2. tokens[t].field + RefreshTokenTTL <= now + 1
        BY <1>1, <4>1
      <4> QED
        BY <1>2, <4>2 DEF Excused, Expired
    <3> QED
      BY <3>2, <3>3
  <2>2. Handed' = Handed
    BY <1>2 DEF Handed
  <2> QED
    BY <1>1, <1>4, <2>1, <2>2, HeldKept
<1> QED
  BY <1>5, <1>6, <1>7, <1>9, <1>10 DEF SessionsInv

-----------------------------------------------------------------------------
(* One lemma per action left *)

LEMMA FunctionIsSeq ==
    ASSUME NEW S, NEW n \in Nat, NEW f \in [1..n -> S]
    PROVE  f \in Seq(S) /\ Len(f) = n
  OBVIOUS

LEMMA MadeRequest ==
    ASSUME Len(tokens) \in Nat
    PROVE  /\ MakeToken(Idle) \in Request /\ MakeToken(Idle).pc = "count"
           /\ MakeToken(Idle).token = Len(tokens) + 1
<1>1. Idle \in Request
  BY IdleIsRequest
<1>2. MakeToken(Idle) = [Idle EXCEPT !.pc = "count", !.token = Len(tokens) + 1]
  BY DEF MakeToken
<1>3. Len(tokens) + 1 \in Nat
  OBVIOUS
<1> QED
  BY <1>1, <1>2, <1>3 DEF Request, Making

LEMMA GenerateTokenPairKeeps ==
    ASSUME SessionsInv, NEW h \in Handlers, GenerateTokenPair(h)
    PROVE  SessionsInv'
<1>1. /\ tokens \in Seq(Token) /\ Len(tokens) \in Nat /\ link' \in Link
      /\ uses' \in Seq([reads : Nat, accepted : Nat])
  BY DEF SessionsInv, Typed, GenerateTokenPair
<1>2. PICK r : r = MakeToken(Idle)
  OBVIOUS
<1>3. r \in Request /\ r.pc = "count" /\ r.token = Len(tokens) + 1
  BY <1>1, <1>2, MadeRequest
<1>4. /\ tokens' = Append(tokens, NewToken) /\ req' = [req EXCEPT ![h] = r]
      /\ UNCHANGED <<now, sessions>> /\ Arrives(h)
  BY <1>2 DEF GenerateTokenPair, Become
<1> QED
  BY <1>1, <1>3, <1>4, BeginsKeeps

LEMMA RefreshSessionKeeps ==
    ASSUME SessionsInv, NEW h \in Handlers, NEW t \in Handed, RefreshSession(h, t)
    PROVE  SessionsInv'
<1>1. /\ tokens \in Seq(Token) /\ Len(tokens) \in Nat /\ link' \in Link
      /\ uses' \in Seq([reads : Nat, accepted : Nat])
      /\ DOMAIN tokens = 1..Len(tokens)
  BY DEF SessionsInv, Typed, RefreshSession
<1>2. PICK r : r = [MakeToken(Idle) EXCEPT !.pc = "drop", !.prev = t]
  OBVIOUS
<1>3. t \in DOMAIN tokens /\ t \in Nat
  BY <1>1 DEF Handed
<1>4. /\ r \in Request /\ r.pc = "drop" /\ r.token = Len(tokens) + 1 /\ r.prev = t
  <2>1. PICK m \in Request : m = MakeToken(Idle) /\ m.token = Len(tokens) + 1
    BY <1>1, MadeRequest
  <2>2. r = [m EXCEPT !.pc = "drop", !.prev = t]
    BY <1>2, <2>1
  <2> QED
    BY <1>3, <2>1, <2>2 DEF Request, Making
<1>5. PICK T : T = [tokens EXCEPT ![t].begun = TRUE]
  OBVIOUS
<1>6. ASSUME NEW s \in DOMAIN tokens
      PROVE  /\ T[s] \in Token /\ T[s].field = tokens[s].field
             /\ T[s].handed = tokens[s].handed
             /\ tokens[s].begun => T[s].begun
             /\ s = t => T[s].begun
  <2>1. tokens[s] \in Token
    BY <1>1
  <2>2. CASE s = t
    <3>1. T[s] = [tokens[s] EXCEPT !.begun = TRUE]
      BY <1>5, <2>2
    <3> QED
      BY <2>1, <3>1 DEF Token
  <2>3. CASE s # t
    <3>1. T[s] = tokens[s]
      BY <1>5, <2>3
    <3> QED
      BY <2>1, <2>3, <3>1
  <2> QED
    BY <2>2, <2>3
<1>7. T \in Seq(Token) /\ Len(T) = Len(tokens)
  <2>1. DOMAIN T = 1..Len(tokens)
    BY <1>1, <1>5
  <2>2. T \in [1..Len(tokens) -> Token]
    <3>1. T = [s \in DOMAIN T |-> T[s]]
      BY <1>5
    <3> QED
      BY <1>1, <1>6, <2>1, <3>1
  <2> QED
    BY <1>1, <2>2, FunctionIsSeq
<1>8. /\ tokens' = Append(T, NewToken) /\ req' = [req EXCEPT ![h] = r]
      /\ UNCHANGED <<now, sessions>> /\ Arrives(h)
  BY <1>2, <1>5 DEF RefreshSession, Become
<1> QED
  BY <1>1, <1>3, <1>4, <1>6, <1>7, <1>8, BeginsKeeps

\* The counter of a link and what is known of its reads.
LEMMA LinkTyped ==
    ASSUME SessionsInv, NEW h \in Handlers
    PROVE  /\ req[h] \in Request /\ Counted(req[h].read) \in Link
           /\ \A c : /\ [uses EXCEPT ![c].reads = @ + 1] \in Seq([reads : Nat, accepted : Nat])
                     /\ [uses EXCEPT ![c].accepted = @ + 1]
                           \in Seq([reads : Nat, accepted : Nat])
                     /\ [uses EXCEPT ![c].accepted = @] \in Seq([reads : Nat, accepted : Nat])
<1> DEFINE OneUse == [reads : Nat, accepted : Nat]
<1>1. req[h] \in Request /\ uses \in Seq(OneUse)
  BY DEF SessionsInv, Typed
<1> HIDE DEF OneUse
<1>2. Counted(req[h].read) \in Link
  <2>1. req[h].read \in Link
    BY <1>1 DEF Request
  <2> QED
    BY <2>1 DEF Counted, Link
<1>3. ASSUME NEW U, DOMAIN U = DOMAIN uses, U = [c \in DOMAIN U |-> U[c]],
             \A c \in DOMAIN uses : U[c] \in OneUse
      PROVE  U \in Seq(OneUse)
  <2>1. DOMAIN uses = 1..Len(uses) /\ Len(uses) \in Nat
    BY <1>1
  <2>2. U \in [1..Len(uses) -> OneUse]
    BY <1>3, <2>1
  <2> QED
    BY <2>1, <2>2, FunctionIsSeq
<1>4. ASSUME NEW c, NEW d \in DOMAIN uses
      PROVE  /\ [uses EXCEPT ![c].reads = @ + 1][d] \in OneUse
             /\ [uses EXCEPT ![c].accepted = @ + 1][d] \in OneUse
             /\ [uses EXCEPT ![c].accepted = @][d] \in OneUse
  <2>1. uses[d] \in OneUse
    BY <1>1
  <2> QED
    BY <2>1 DEF OneUse
<1>5. ASSUME NEW c
      PROVE  /\ [uses EXCEPT ![c].reads = @ + 1] \in Seq(OneUse)
             /\ [uses EXCEPT ![c].accepted = @ + 1] \in Seq(OneUse)
             /\ [uses EXCEPT ![c].accepted = @] \in Seq(OneUse)
  BY <1>3, <1>4
<1> QED
  BY <1>1, <1>2, <1>5 DEF OneUse

LEMMA CountAndAcceptKeeps ==
    ASSUME SessionsInv, NEW h \in Handlers, CountAndAccept(h)
    PROVE  SessionsInv'
<1>1. tokens \in Seq(Token) /\ Len(tokens) \in Nat
  BY DEF SessionsInv, Typed
<1>2. PICK r : r = MakeToken(Idle)
  OBVIOUS
<1>3. r \in Request /\ r.pc = "count" /\ r.token = Len(tokens) + 1
  BY <1>1, <1>2, MadeRequest
<1>4. /\ tokens' = Append(tokens, NewToken) /\ req' = [req EXCEPT ![h] = r]
      /\ UNCHANGED <<now, sessions, overlapped>> /\ req[h].pc = "link"
      /\ link' = Counted(req[h].read)
      /\ uses' = [uses EXCEPT ![req[h].code].accepted = IF overlapped THEN @ ELSE @ + 1]
  BY <1>2 DEF CountAndAccept, Become
<1>5. link' \in Link /\ uses' \in Seq([reads : Nat, accepted : Nat])
  <2>1. CASE overlapped
    BY <1>4, <2>1, LinkTyped
  <2>2. CASE ~overlapped
    BY <1>4, <2>2, LinkTyped
  <2> QED
    BY <2>1, <2>2
<1> QED
  BY <1>1, <1>3, <1>4, <1>5, BeginsKeeps

LEMMA AsideActionsKeep ==
    ASSUME SessionsInv, NEW h \in Handlers,
           \/ \E code \in 0..Len(uses) : GetCodeTelegramID(h, code)
           \/ CountAndRefuse(h) \/ DeleteCodeByTelegramID(h) \/ Fails(h)
    PROVE  SessionsInv'
<1>1. /\ link \in Link /\ uses \in Seq([reads : Nat, accepted : Nat]) /\ Len(uses) \in Nat
  BY DEF SessionsInv, Typed
<1>2. ASSUME NEW code \in 0..Len(uses), GetCodeTelegramID(h, code)
      PROVE  SessionsInv'
  <2>1. PICK r : r = [Idle EXCEPT !.pc = "link", !.code = code, !.read = link]
    OBVIOUS
  <2>2. r \in Request /\ r.pc = "link"
    <3>1. PICK i \in Request : i = Idle
      BY IdleIsRequest
    <3>2. code \in Nat /\ r = [i EXCEPT !.pc = "link", !.code = code, !.read = link]
      BY <1>1, <2>1, <3>1
    <3> QED
      BY <1>1, <3>2 DEF Request
  <2>3. /\ req' = [req EXCEPT ![h] = r] /\ UNCHANGED <<now, tokens, sessions, link>>
        /\ Arrives(h) /\ uses' = [uses EXCEPT ![link.code].reads = @ + 1]
    BY <1>2, <2>1 DEF GetCodeTelegramID, Become
  <2>4. uses' \in Seq([reads : Nat, accepted : Nat])
    BY <2>3, LinkTyped
  <2> QED
    BY <1>1, <2>2, <2>3, <2>4, AsideKeeps
<1>3. ASSUME CountAndRefuse(h) PROVE SessionsInv'
  <2>1. PICK r : r = IF req[h].read.code = req[h].code THEN [Idle EXCEPT !.pc = "forget"]
                     ELSE Idle
    OBVIOUS
  <2>2. r \in Request /\ r.pc \in {"idle", "forget"}
    BY <2>1 DEF Idle, NoLink, Request, Link
  <2>3. /\ req' = [req EXCEPT ![h] = r] /\ UNCHANGED <<now, tokens, sessions, uses, overlapped>>
        /\ req[h].pc = "link" /\ link' = Counted(req[h].read)
    BY <1>3, <2>1 DEF CountAndRefuse, Become
  <2> QED
    BY <1>1, <2>2, <2>3, LinkTyped, AsideKeeps
<1>4. ASSUME DeleteCodeByTelegramID(h) PROVE SessionsInv'
  <2>1. /\ req' = [req EXCEPT ![h] = Idle]
        /\ UNCHANGED <<now, tokens, sessions, uses, overlapped>>
        /\ req[h].pc # "idle" /\ link' = NoLink
    BY <1>4 DEF DeleteCodeByTelegramID, Become
  <2> QED
    BY <1>1, <2>1, IdleIsRequest, AsideKeeps
<1>5. ASSUME Fails(h) PROVE SessionsInv'
  <2>1. /\ req' = [req EXCEPT ![h] = Idle] /\ req[h].pc # "idle"
        /\ UNCHANGED <<now, tokens, sessions, link, uses, overlapped>>
    BY <1>5 DEF Fails, Become
  <2> QED
    BY <1>1, <2>1, IdleIsRequest, AsideKeeps
<1> QED
  BY <1>2, <1>3, <1>4, <1>5

LEMMA BotActionsKeep ==
    ASSUME SessionsInv, SaveTelegramCode \/ LinkExpires \/ UNCHANGED vars
    PROVE  SessionsInv'
<1>1. link \in Link /\ uses \in Seq([reads : Nat, accepted : Nat]) /\ Len(uses) \in Nat
  BY DEF SessionsInv, Typed
<1>2. CASE SaveTelegramCode
  <2>1. link' \in Link /\ [reads |-> 0, accepted |-> 0] \in [reads : Nat, accepted : Nat]
    BY <1>1, <1>2 DEF SaveTelegramCode, Link
  <2>2. uses' \in Seq([reads : Nat, accepted : Nat])
    BY <1>1, <1>2, <2>1, AppendProperties DEF SaveTelegramCode
  <2> QED
    BY <1>2, <2>1, <2>2, BotKeeps DEF SaveTelegramCode
<1>3. CASE LinkExpires
  BY <1>1, <1>3, IdleIsRequest, BotKeeps DEF LinkExpires
<1>4. CASE UNCHANGED vars
  BY <1>1, <1>4, BotKeeps DEF vars
<1> QED
  BY <1>2, <1>3, <1>4

-----------------------------------------------------------------------------

LEMMA InitSessions == Init => SessionsInv
<1> SUFFICES ASSUME Init PROVE SessionsInv
  OBVIOUS
<1>1. /\ now = 1 /\ tokens = <<>> /\ sessions = <<>> /\ link = NoLink /\ uses = <<>>
      /\ req = [h \in Handlers |-> Idle] /\ overlapped = FALSE
  BY DEF Init
<1>2. /\ \A h \in Handlers : req[h] = Idle /\ req[h].pc = "idle"
      /\ req \in [Handlers -> Request]
  BY <1>1, IdleIsRequest
<1>3. Fields = {} /\ Saving = {} /\ Evicting = {} /\ DOMAIN tokens = {}
  BY <1>1, <1>2 DEF Fields, Saving, Evicting
<1>4. Typed
  <2>1. tokens \in Seq(Token) /\ uses \in Seq([reads : Nat, accepted : Nat])
    BY <1>1, EmptySeq
  <2>2. IsFiniteSet(Fields) /\ Fields \subseteq Nat
    BY <1>3, FS_EmptySet
  <2> QED
    BY <1>1, <1>2, <1>3, <2>1, <2>2, IdleIsRequest DEF Typed
<1>5. InOrder /\ OwnToken /\ Alone /\ Doomed
  BY <1>2, <1>3 DEF InOrder, OwnToken, Alone, Doomed, Making
<1>6. Room
  <2>1. Cardinality(Handlers) \in Nat /\ Cardinality({}) = 0
    BY FS_CardinalityType, FS_EmptySet
  <2>2. \A A \in SUBSET Evicting : A = {} /\ Fields \ Listed(A) = {}
    BY <1>3
  <2>3. 0 + 0 + 0 <= UserSessionsLimit - 1 + Cardinality(Handlers)
    BY <2>1
  <2> SUFFICES ASSUME NEW A \in SUBSET Evicting
               PROVE  Cardinality(Fields \ Listed(A)) + Cardinality(Saving) + Cardinality(A)
                        <= UserSessionsLimit - 1 + Cardinality(Handlers)
    BY DEF Room
  <2>4. /\ Cardinality(Fields \ Listed(A)) = 0 /\ Cardinality(Saving) = 0
        /\ Cardinality(A) = 0
    BY <1>3, <2>1, <2>2
  <2> QED
    BY <2>3, <2>4
<1>7. HeldTokenStays
  BY <1>3 DEF HeldTokenStays, Handed
<1> QED
  BY <1>4, <1>5, <1>6, <1>7 DEF SessionsInv

LEMMA SessionsStep == SessionsInv /\ [Next]_vars => SessionsInv'
<1> SUFFICES ASSUME SessionsInv, [Next]_vars PROVE SessionsInv'
  OBVIOUS
<1>1. CASE Tick
  BY <1>1, TickKeeps
<1>2. CASE SaveTelegramCode \/ LinkExpires \/ UNCHANGED vars
  BY <1>2, BotActionsKeep
<1>3. ASSUME NEW h \in Handlers, GenerateTokenPair(h) PROVE SessionsInv'
  BY <1>3, GenerateTokenPairKeeps
<1>4. ASSUME NEW h \in Handlers,
             CountSessions(h) \/ ListSessions(h) \/ EvictSessions(h) \/ SaveSession(h)
      PROVE  SessionsInv'
  BY <1>4, CountSessionsKeeps, ListSessionsKeeps, EvictSessionsKeeps, SaveSessionKeeps
<1>5. ASSUME NEW h \in Handlers, NEW t \in Handed, RefreshSession(h, t) PROVE SessionsInv'
  BY <1>5, RefreshSessionKeeps
<1>6. ASSUME NEW h \in Handlers, DeleteUserSession(h) PROVE SessionsInv'
  BY <1>6, DeleteUserSessionKeeps
<1>7. ASSUME NEW h \in Handlers, CountAndAccept(h) PROVE SessionsInv'
  BY <1>7, CountAndAcceptKeeps
<1>8. ASSUME NEW h \in Handlers,
             \/ \E code \in 0..Len(uses) : GetCodeTelegramID(h, code)
             \/ CountAndRefuse(h) \/ DeleteCodeByTelegramID(h) \/ Fails(h)
      PROVE  SessionsInv'
  BY <1>8, AsideActionsKeep
<1> QED
  BY <1>1, <1>2, <1>3, <1>4, <1>5, <1>6, <1>7, <1>8 DEF Next

LEMMA SessionsInvImplies == SessionsInv => SessionsKept
<1> SUFFICES ASSUME SessionsInv PROVE SessionsBounded
  BY DEF SessionsInv, SessionsKept
<1>1. Cardinality(Fields \ Listed({})) + Cardinality(Saving) + Cardinality({})
        <= UserSessionsLimit - 1 + Cardinality(Handlers)
  BY DEF SessionsInv, Room
<1>2. Fields \ Listed({}) = Fields
  BY DEF Listed
<1>3. Cardinality(Saving) \in Nat /\ Cardinality(Handlers) \in Nat /\ Cardinality({}) = 0
  BY SavingAndEvicting, FS_EmptySet
<1>4. Cardinality(Fields) \in Nat
  BY FS_CardinalityType DEF SessionsInv, Typed
<1>7. Cardinality(Fields \ Listed({})) = Cardinality(Fields)
  BY <1>2
<1>5. Cardinality(Fields) + Cardinality(Saving) <= UserSessionsLimit - 1 + Cardinality(Handlers)
  BY <1>1, <1>3, <1>4, <1>7
<1>6. Cardinality(Fields) <= UserSessionsLimit + Cardinality(Handlers) - 1
  BY <1>3, <1>4, <1>5
<1> QED
  BY <1>6 DEF SessionsBounded, Fields

\* Whatever the limit, the time to live and the number of requests in flight: the sessions
\* stay within the limit and one more for each request that runs beside another, and a
\* token somebody holds is dropped only when it expired, was exchanged or younger sessions
\* filled the limit (JWTStorage.Save, RefreshSession).
THEOREM SessionsAlwaysKept == Spec => []SessionsKept
<1>1. Init => SessionsInv
  BY InitSessions
<1>2. SessionsInv /\ [Next]_vars => SessionsInv'
  BY SessionsStep
<1>3. SessionsInv => SessionsKept
  BY SessionsInvImplies
<1> QED
  BY <1>1, <1>2, <1>3, PTL DEF Spec
-----------------------------------------------------------------------------
(***************************************************************************)
(* A token and a link are used up by their use, as long as requests do not *)
(* overlap.                                                                *)
(***************************************************************************)

\* Overlaps are never forgotten; where there are none, who arrives finds all idle, and who
\* goes on finds all others idle.
LEMMA OneInFlight ==
    ASSUME SessionsInv, [Next]_vars, ~overlapped'
    PROVE  /\ ~overlapped
           /\ \A h \in Handlers : Arrives(h) => \A g \in Handlers : req[g].pc = "idle"
           /\ \A h \in Handlers : req[h].pc # "idle" =>
                 \A g \in Handlers \ {h} : req[g].pc = "idle"
<1>1. overlapped \in BOOLEAN
  BY DEF SessionsInv, Typed
<1>2. \A h \in Handlers : Arrives(h) => ~overlapped /\ \A g \in Handlers : req[g].pc = "idle"
  BY <1>1 DEF Arrives
<1>3. ~overlapped
  <2>1. CASE \E h \in Handlers : Arrives(h)
    BY <1>2, <2>1
  <2>2. CASE ~\E h \in Handlers : Arrives(h)
    BY <1>1, <2>2 DEF Next, vars, Tick, SaveTelegramCode, LinkExpires, GenerateTokenPair,
        CountSessions, ListSessions, EvictSessions, SaveSession, RefreshSession,
        DeleteUserSession, GetCodeTelegramID, CountAndAccept, CountAndRefuse,
        DeleteCodeByTelegramID, Fails
  <2> QED
    BY <2>1, <2>2
<1> QED
  BY <1>2, <1>3 DEF SessionsInv, Alone

\* What a request leaves when the others are idle.
LEMMA OthersIdle ==
    ASSUME SessionsInv, NEW h \in Handlers, NEW r, Become(h, r),
           \A g \in Handlers \ {h} : req[g].pc = "idle"
    PROVE  req'[h] = r /\ \A g \in Handlers \ {h} : req'[g].pc = "idle"
  BY DEF SessionsInv, Typed, Become

-----------------------------------------------------------------------------
(* A token is refreshed once *)

InSessions(t) == \E f \in Fields : sessions[f] = t

\* a token that was exchanged is out of the sessions
ExchangedAreOut ==
    \A t \in DOMAIN tokens :
        /\ tokens[t].renewed \in {0, 1}
        /\ tokens[t].renewed = 1 => tokens[t].handed /\ ~InSessions(t)

\* a request makes a token nobody holds, in exchange for one not exchanged before, which
\* it has taken out of the sessions first
Exchanges(r) ==
    r.pc \in Making =>
        /\ r.token \in DOMAIN tokens /\ ~tokens[r.token].handed
        /\ r.prev # 0 => /\ r.prev \in DOMAIN tokens
                         /\ tokens[r.prev].handed /\ tokens[r.prev].renewed = 0
                         /\ r.pc # "drop" => ~InSessions(r.prev)
        /\ r.pc = "drop" => r.prev # 0

RefreshInv ==
    ~overlapped => ExchangedAreOut /\ \A h \in Handlers : Exchanges(req[h])

LEMMA RefreshStep ==
    ASSUME SessionsInv, NEW h \in Handlers, NEW r, Become(h, r),
           \A g \in Handlers \ {h} : req[g].pc = "idle", ExchangedAreOut', Exchanges(r)'
    PROVE  RefreshInv'
<1>1. req'[h] = r /\ \A g \in Handlers \ {h} : req'[g].pc = "idle"
  BY OthersIdle
<1>2. \A g \in Handlers \ {h} : Exchanges(req[g])'
  BY <1>1 DEF Exchanges, Making
<1>3. Exchanges(req[h])'
  BY <1>1 DEF Exchanges
<1> QED
  BY <1>2, <1>3 DEF RefreshInv

\* Tokens as they were, and fewer sessions: nothing that was out comes in.
FewerSessions ==
    /\ Fields' \subseteq Fields
    /\ \A f \in Fields' : sessions'[f] = sessions[f]

LEMMA FewerKeeps ==
    ASSUME SessionsInv, RefreshInv, ~overlapped, FewerSessions, tokens' = tokens
    PROVE  /\ ExchangedAreOut'
           /\ \A t : ~InSessions(t) => ~InSessions(t)'
           /\ \A r : Exchanges(r) => Exchanges(r)'
<1>1. ASSUME NEW t, ~InSessions(t) PROVE ~InSessions(t)'
  BY <1>1 DEF FewerSessions, InSessions, Fields
<1>2. ExchangedAreOut'
  BY <1>1 DEF RefreshInv, ExchangedAreOut
<1>3. ASSUME NEW r, Exchanges(r) PROVE Exchanges(r)'
  BY <1>1, <1>3 DEF Exchanges
<1> QED
  BY <1>1, <1>2, <1>3

\* Sessions as they were, and one token more.
LEMMA NewTokenKeeps ==
    ASSUME SessionsInv, RefreshInv, ~overlapped, NEW T, DOMAIN T = DOMAIN tokens,
           T \in Seq(Token),
           \A s \in DOMAIN tokens : /\ T[s].handed = tokens[s].handed
                                    /\ T[s].renewed = tokens[s].renewed,
           tokens' = Append(T, NewToken), sessions' = sessions
    PROVE  /\ ExchangedAreOut'
           /\ Len(tokens) + 1 \in DOMAIN tokens'
           /\ ~tokens'[Len(tokens) + 1].handed
           /\ \A s \in DOMAIN tokens : /\ s \in DOMAIN tokens'
                                       /\ tokens'[s].handed = tokens[s].handed
                                       /\ tokens'[s].renewed = tokens[s].renewed
<1>1. tokens \in Seq(Token) /\ \A f \in Fields : sessions[f] \in DOMAIN tokens
  BY DEF SessionsInv, Typed
<1>2. Len(T) = Len(tokens)
  BY <1>1
<1>3. /\ DOMAIN tokens' = 1..(Len(tokens) + 1)
      /\ tokens'[Len(tokens) + 1] = NewToken
      /\ \A s \in DOMAIN tokens : tokens'[s] = T[s]
  BY <1>1, <1>2
<1>4. NewToken.handed = FALSE /\ NewToken.renewed = 0
  BY DEF NewToken
<1>5. \A t : InSessions(t)' <=> InSessions(t)
  BY DEF InSessions, Fields
<1>6. \A s \in DOMAIN tokens : /\ s \in DOMAIN tokens'
                               /\ tokens'[s].handed = tokens[s].handed
                               /\ tokens'[s].renewed = tokens[s].renewed
  BY <1>1, <1>3
<1>7. ASSUME NEW t \in DOMAIN tokens'
      PROVE  /\ tokens'[t].renewed \in {0, 1}
             /\ tokens'[t].renewed = 1 => tokens'[t].handed /\ ~InSessions(t)'
  <2>1. CASE t \in DOMAIN tokens
    BY <1>5, <1>6, <2>1 DEF RefreshInv, ExchangedAreOut
  <2>2. CASE t \notin DOMAIN tokens
    <3>1. t = Len(tokens) + 1
      BY <1>1, <1>3, <2>2
    <3> QED
      BY <1>3, <1>4, <3>1
  <2> QED
    BY <2>1, <2>2
<1>8. ExchangedAreOut'
  BY <1>7 DEF ExchangedAreOut
<1>9. Len(tokens) + 1 \in DOMAIN tokens' /\ ~tokens'[Len(tokens) + 1].handed
  BY <1>1, <1>3, <1>4
<1> QED
  BY <1>6, <1>8, <1>9

\* A request that goes on with the same tokens, or that makes none.
LEMMA AsideRefresh ==
    ASSUME SessionsInv, RefreshInv, ~overlapped, FewerSessions, tokens' = tokens,
           NEW h \in Handlers, \A g \in Handlers \ {h} : req[g].pc = "idle",
           NEW r, Become(h, r),
           r.pc \in Making => /\ req[h].pc \in Making \ {"drop"} /\ r.pc # "drop"
                              /\ r.token = req[h].token /\ r.prev = req[h].prev
    PROVE  RefreshInv'
<1>1. Exchanges(req[h])
  BY DEF RefreshInv
<1>2. Exchanges(r)
  BY <1>1 DEF Exchanges
<1> QED
  BY <1>2, FewerKeeps, RefreshStep

LEMMA BotRefresh ==
    ASSUME SessionsInv, RefreshInv, ~overlapped, FewerSessions, tokens' = tokens, req' = req
    PROVE  RefreshInv'
  BY FewerKeeps DEF RefreshInv

LEMMA AsideActionsRefresh ==
    ASSUME SessionsInv, RefreshInv, ~overlapped,
           NEW h \in Handlers, \A g \in Handlers \ {h} : req[g].pc = "idle",
           \/ CountSessions(h) \/ ListSessions(h) \/ EvictSessions(h) \/ Fails(h)
           \/ \E code \in 0..Len(uses) : GetCodeTelegramID(h, code)
           \/ CountAndRefuse(h) \/ DeleteCodeByTelegramID(h)
    PROVE  RefreshInv'
<1>0. req[h] \in Request
  BY DEF SessionsInv, Typed
<1>1. PICK q : q = req[h]
  OBVIOUS
<1>2. CASE CountSessions(h)
  <2>1. PICK r : r = [q EXCEPT !.pc = IF Cardinality(DOMAIN sessions) >= UserSessionsLimit
                                     THEN "list" ELSE "save"]
    OBVIOUS
  <2>2. r.pc \in {"list", "save"} /\ r.token = q.token /\ r.prev = q.prev
    BY <1>0, <1>1, <2>1 DEF Request
  <2>3. Become(h, r) /\ FewerSessions /\ tokens' = tokens /\ q.pc = "count"
    BY <1>1, <1>2, <2>1 DEF CountSessions, FewerSessions, Fields
  <2> QED
    BY <1>1, <2>2, <2>3, AsideRefresh DEF Making
<1>3. CASE ListSessions(h)
  <2>1. PICK r : r = IF Cardinality(DOMAIN sessions) >= UserSessionsLimit
                     THEN [q EXCEPT !.pc = "evict", !.fields = FieldsToDelete(DOMAIN sessions)]
                     ELSE [q EXCEPT !.pc = "save"]
    OBVIOUS
  <2>2. r.pc \in {"evict", "save"} /\ r.token = q.token /\ r.prev = q.prev
    BY <1>0, <1>1, <2>1 DEF Request
  <2>3. Become(h, r) /\ FewerSessions /\ tokens' = tokens /\ q.pc = "list"
    BY <1>1, <1>3, <2>1 DEF ListSessions, FewerSessions, Fields
  <2> QED
    BY <1>1, <2>2, <2>3, AsideRefresh DEF Making
<1>4. CASE EvictSessions(h)
  <2>1. PICK r : r = [q EXCEPT !.pc = "save", !.fields = {}]
    OBVIOUS
  <2>2. r.pc = "save" /\ r.token = q.token /\ r.prev = q.prev
    BY <1>0, <1>1, <2>1 DEF Request
  <2>3. Become(h, r) /\ tokens' = tokens /\ q.pc = "evict"
    BY <1>1, <1>4, <2>1 DEF EvictSessions
  <2>4. FewerSessions
    BY <1>4 DEF EvictSessions, FewerSessions, Fields, Restrict
  <2> QED
    BY <1>1, <2>2, <2>3, <2>4, AsideRefresh DEF Making
<1>5. CASE Fails(h) \/ DeleteCodeByTelegramID(h)
  <2>1. Become(h, Idle) /\ FewerSessions /\ tokens' = tokens /\ Idle.pc \notin Making
    BY <1>5, IdleIsRequest DEF Fails, DeleteCodeByTelegramID, FewerSessions, Fields, Making
  <2> QED
    BY <2>1, AsideRefresh
<1>6. ASSUME NEW code \in 0..Len(uses), GetCodeTelegramID(h, code) PROVE RefreshInv'
  <2>1. PICK r : r = [Idle EXCEPT !.pc = "link", !.code = code, !.read = link]
    OBVIOUS
  <2>2. r.pc = "link"
    BY <2>1 DEF Idle
  <2>3. Become(h, r) /\ FewerSessions /\ tokens' = tokens /\ r.pc \notin Making
    BY <1>6, <2>1, <2>2 DEF GetCodeTelegramID, FewerSessions, Fields, Making
  <2> QED
    BY <2>3, AsideRefresh
<1>7. CASE CountAndRefuse(h)
  <2>1. PICK r : r = IF q.read.code = q.code THEN [Idle EXCEPT !.pc = "forget"] ELSE Idle
    OBVIOUS
  <2>2. r.pc \in {"idle", "forget"}
    BY <2>1 DEF Idle
  <2>3. Become(h, r) /\ FewerSessions /\ tokens' = tokens /\ r.pc \notin Making
    BY <1>1, <1>7, <2>1, <2>2 DEF CountAndRefuse, FewerSessions, Fields, Making
  <2> QED
    BY <2>3, AsideRefresh
<1> QED
  BY <1>2, <1>3, <1>4, <1>5, <1>6, <1>7

\* A sign-in, with a link or without, makes a token in exchange for nothing.
LEMMA SignInRefresh ==
    ASSUME SessionsInv, RefreshInv, ~overlapped,
           NEW h \in Handlers, \A g \in Handlers \ {h} : req[g].pc = "idle",
           GenerateTokenPair(h) \/ CountAndAccept(h)
    PROVE  RefreshInv'
<1>1. PICK r : r = MakeToken(Idle)
  OBVIOUS
<1>2. r.pc = "count" /\ r.token = Len(tokens) + 1 /\ r.prev = 0
  BY <1>1 DEF MakeToken, Idle
<1>3. Become(h, r) /\ tokens' = Append(tokens, NewToken) /\ sessions' = sessions
  BY <1>1 DEF GenerateTokenPair, CountAndAccept
<1>4. tokens \in Seq(Token)
  BY DEF SessionsInv, Typed
<1>5. /\ ExchangedAreOut' /\ Len(tokens) + 1 \in DOMAIN tokens'
      /\ ~tokens'[Len(tokens) + 1].handed
  BY <1>3, <1>4, NewTokenKeeps
<1>6. Exchanges(r)'
  BY <1>2, <1>5 DEF Exchanges
<1> QED
  BY <1>3, <1>5, <1>6, RefreshStep

\* A refresh begins with a token that is in the sessions: one not exchanged so far.
LEMMA RefreshSessionRefresh ==
    ASSUME SessionsInv, RefreshInv, ~overlapped,
           NEW h \in Handlers, \A g \in Handlers \ {h} : req[g].pc = "idle",
           NEW t \in Handed, RefreshSession(h, t)
    PROVE  RefreshInv'
<1>1. PICK r : r = [MakeToken(Idle) EXCEPT !.pc = "drop", !.prev = t]
  OBVIOUS
<1>2. r.pc = "drop" /\ r.token = Len(tokens) + 1 /\ r.prev = t
  BY <1>1 DEF MakeToken, Idle
<1>3. PICK T : T = [tokens EXCEPT ![t].begun = TRUE]
  OBVIOUS
<1>4. Become(h, r) /\ tokens' = Append(T, NewToken) /\ sessions' = sessions /\ Matches(t)
  BY <1>1, <1>3 DEF RefreshSession
<1>5. tokens \in Seq(Token) /\ t \in DOMAIN tokens /\ tokens[t].handed
  BY DEF SessionsInv, Typed, Handed
<1>6. /\ DOMAIN T = DOMAIN tokens
      /\ \A s \in DOMAIN tokens : /\ T[s] \in Token
                                  /\ T[s].handed = tokens[s].handed
                                  /\ T[s].renewed = tokens[s].renewed
  <2>1. DOMAIN T = DOMAIN tokens
    BY <1>3
  <2>2. ASSUME NEW s \in DOMAIN tokens
        PROVE  /\ T[s] \in Token
               /\ T[s].handed = tokens[s].handed
               /\ T[s].renewed = tokens[s].renewed
    <3>1. PICK x \in Token : x = tokens[s]
      BY <1>5
    <3>2. T[s] = IF s = t THEN [x EXCEPT !.begun = TRUE] ELSE x
      BY <1>3, <1>5, <3>1
    <3> QED
      BY <3>1, <3>2 DEF Token
  <2> QED
    BY <2>1, <2>2
<1>7. T \in Seq(Token)
  <2>1. DOMAIN tokens = 1..Len(tokens) /\ Len(tokens) \in Nat
    BY <1>5
  <2>2. T \in [1..Len(tokens) -> Token]
    BY <1>3, <1>6, <2>1
  <2> QED
    BY <2>1, <2>2, FunctionIsSeq
<1>8. /\ ExchangedAreOut' /\ Len(tokens) + 1 \in DOMAIN tokens'
      /\ ~tokens'[Len(tokens) + 1].handed
      /\ t \in DOMAIN tokens' /\ tokens'[t].handed = tokens[t].handed
      /\ tokens'[t].renewed = tokens[t].renewed
  BY <1>4, <1>5, <1>6, <1>7, NewTokenKeeps
<1>9. tokens[t].renewed = 0
  <2>1. InSessions(t)
    BY <1>4 DEF Matches, InSessions, Fields
  <2> QED
    BY <1>5, <2>1 DEF RefreshInv, ExchangedAreOut
<1>10. Exchanges(r)'
  BY <1>2, <1>5, <1>8, <1>9 DEF Exchanges
<1> QED
  BY <1>4, <1>8, <1>10, RefreshStep

\* What is refreshed leaves the sessions with its field.
LEMMA DeleteUserSessionRefresh ==
    ASSUME SessionsInv, RefreshInv, ~overlapped,
           NEW h \in Handlers, \A g \in Handlers \ {h} : req[g].pc = "idle",
           DeleteUserSession(h)
    PROVE  RefreshInv'
<1>1. PICK q : q = req[h]
  OBVIOUS
<1>2. PICK r : r = [q EXCEPT !.pc = "count"]
  OBVIOUS
<1>3. q \in Request /\ q.pc = "drop" /\ Exchanges(q)
  BY <1>1 DEF SessionsInv, Typed, RefreshInv, DeleteUserSession
<1>4. r.pc = "count" /\ r.token = q.token /\ r.prev = q.prev
  BY <1>2, <1>3 DEF Request
<1>5. /\ Become(h, r) /\ tokens' = tokens
      /\ sessions' = Restrict(sessions, Fields \ {tokens[q.prev].field})
  BY <1>1, <1>2 DEF DeleteUserSession, DroppedField, Fields
<1>6. FewerSessions
  BY <1>5 DEF FewerSessions, Fields, Restrict
<1>7. /\ q.token \in DOMAIN tokens /\ ~tokens[q.token].handed
      /\ q.prev \in DOMAIN tokens /\ tokens[q.prev].handed /\ tokens[q.prev].renewed = 0
  BY <1>3 DEF Exchanges, Making
<1>8. ~InSessions(q.prev)'
  <2>1. ASSUME NEW f \in Fields', sessions'[f] = q.prev PROVE FALSE
    <3>1. f \in Fields /\ f # tokens[q.prev].field /\ sessions[f] = q.prev
      BY <1>5, <1>6, <2>1 DEF Fields, Restrict, FewerSessions
    <3>2. tokens[sessions[f]].field = f
      BY <3>1 DEF SessionsInv, Typed
    <3> QED
      BY <3>1, <3>2
  <2> QED
    BY <2>1 DEF InSessions
<1>9. ExchangedAreOut'
  BY <1>5, <1>6, FewerKeeps
<1>10. Exchanges(r)'
  BY <1>4, <1>5, <1>7, <1>8 DEF Exchanges
<1> QED
  BY <1>5, <1>9, <1>10, RefreshStep

\* The token saved was nobody's, so it was never exchanged; the one it was made for is
\* exchanged now, and out of the sessions.
LEMMA SaveSessionRefresh ==
    ASSUME SessionsInv, RefreshInv, ~overlapped,
           NEW h \in Handlers, \A g \in Handlers \ {h} : req[g].pc = "idle",
           SaveSession(h)
    PROVE  RefreshInv'
<1>1. PICK t, p, f : t = req[h].token /\ p = req[h].prev /\ f = tokens[t].field
  OBVIOUS
<1>2. req[h].pc = "save" /\ Exchanges(req[h]) /\ ExchangedAreOut
  BY DEF SaveSession, RefreshInv
<1>3. /\ t \in DOMAIN tokens /\ ~tokens[t].handed
      /\ p # 0 => /\ p \in DOMAIN tokens /\ tokens[p].handed /\ tokens[p].renewed = 0
                  /\ ~InSessions(p)
  BY <1>1, <1>2 DEF Exchanges, Making
<1>4. tokens \in Seq(Token) /\ 0 \notin DOMAIN tokens
  BY DEF SessionsInv, Typed
<1>5. /\ DOMAIN tokens' = DOMAIN tokens
      /\ \A s \in DOMAIN tokens :
            tokens'[s] = [tokens[s] EXCEPT !.handed = @ \/ s = t,
                                           !.renewed = IF s = p /\ ~overlapped THEN @ + 1 ELSE @]
      /\ sessions' = IF Expired(t) THEN sessions
                     ELSE [g \in Fields \cup {f} |-> IF g = f THEN t ELSE sessions[g]]
      /\ Become(h, Idle)
  BY <1>1 DEF SaveSession, Fields
<1>6. ASSUME NEW s \in DOMAIN tokens
      PROVE  /\ tokens'[s].handed = (tokens[s].handed \/ s = t)
             /\ tokens'[s].renewed = IF s = p THEN tokens[s].renewed + 1 ELSE tokens[s].renewed
  <2>1. PICK x \in Token : x = tokens[s]
    BY <1>4
  <2>2. tokens'[s] = [x EXCEPT !.handed = @ \/ s = t,
                               !.renewed = IF s = p /\ ~overlapped THEN @ + 1 ELSE @]
    BY <1>5, <2>1
  <2> QED
    BY <2>1, <2>2 DEF Token
<1>7. ASSUME NEW s, s # t, ~InSessions(s) PROVE ~InSessions(s)'
  BY <1>5, <1>7 DEF InSessions, Fields
<1>8. ASSUME NEW s \in DOMAIN tokens
      PROVE  /\ tokens'[s].renewed \in {0, 1}
             /\ tokens'[s].renewed = 1 => tokens'[s].handed /\ ~InSessions(s)'
  <2>1. /\ tokens[s].renewed \in {0, 1}
        /\ tokens[s].renewed = 1 => tokens[s].handed /\ ~InSessions(s)
    BY <1>2 DEF ExchangedAreOut
  <2>2. CASE s = p
    <3>1. s # 0 /\ tokens[s].renewed = 0 /\ tokens[s].handed /\ ~InSessions(s) /\ s # t
      BY <1>3, <1>4, <2>2
    <3>2. ~InSessions(s)'
      BY <1>7, <3>1
    <3>3. tokens'[s].renewed = 1
      BY <1>6, <2>2, <3>1
    <3>4. tokens'[s].handed
      BY <1>6, <3>1, Zenon
    <3> QED
      BY <3>2, <3>3, <3>4
  <2>3. CASE s # p
    BY <1>3, <1>6, <1>7, <2>1, <2>3
  <2> QED
    BY <2>2, <2>3
<1>9. ExchangedAreOut'
  BY <1>5, <1>8 DEF ExchangedAreOut
<1>10. Exchanges(Idle)'
  BY IdleIsRequest DEF Exchanges, Making
<1> QED
  BY <1>5, <1>9, <1>10, RefreshStep

LEMMA RefreshInductive ==
    ASSUME SessionsInv, RefreshInv, [Next]_vars
    PROVE  RefreshInv'
<1> SUFFICES ASSUME ~overlapped' PROVE RefreshInv'
  BY DEF RefreshInv
<1>1. ~overlapped
  BY OneInFlight
<1>2. ASSUME NEW h \in Handlers, Arrives(h) \/ req[h].pc # "idle"
      PROVE  \A g \in Handlers \ {h} : req[g].pc = "idle"
  BY <1>2, OneInFlight
<1>3. CASE Tick \/ SaveTelegramCode \/ LinkExpires \/ UNCHANGED vars
  <2>1. tokens' = tokens /\ req' = req
    BY <1>3 DEF Tick, SaveTelegramCode, LinkExpires, vars
  <2>2. FewerSessions
    BY <1>3 DEF Tick, SaveTelegramCode, LinkExpires, vars, FewerSessions, Fields, Restrict
  <2> QED
    BY <1>1, <2>1, <2>2, BotRefresh
<1>4. ASSUME NEW h \in Handlers, GenerateTokenPair(h) \/ CountAndAccept(h) PROVE RefreshInv'
  <2>1. Arrives(h) \/ req[h].pc # "idle"
    BY <1>4 DEF GenerateTokenPair, CountAndAccept
  <2> QED
    BY <1>1, <1>2, <1>4, <2>1, SignInRefresh
<1>5. ASSUME NEW h \in Handlers, NEW t \in Handed, RefreshSession(h, t) PROVE RefreshInv'
  <2>1. Arrives(h)
    BY <1>5 DEF RefreshSession
  <2> QED
    BY <1>1, <1>2, <1>5, <2>1, RefreshSessionRefresh
<1>6. ASSUME NEW h \in Handlers, DeleteUserSession(h) PROVE RefreshInv'
  <2>1. req[h].pc # "idle"
    BY <1>6 DEF DeleteUserSession
  <2> QED
    BY <1>1, <1>2, <1>6, <2>1, DeleteUserSessionRefresh
<1>7. ASSUME NEW h \in Handlers, SaveSession(h) PROVE RefreshInv'
  <2>1. req[h].pc # "idle"
    BY <1>7 DEF SaveSession
  <2> QED
    BY <1>1, <1>2, <1>7, <2>1, SaveSessionRefresh
<1>8. ASSUME NEW h \in Handlers,
             \/ CountSessions(h) \/ ListSessions(h) \/ EvictSessions(h) \/ Fails(h)
             \/ \E code \in 0..Len(uses) : GetCodeTelegramID(h, code)
             \/ CountAndRefuse(h) \/ DeleteCodeByTelegramID(h)
      PROVE  RefreshInv'
  <2>1. Arrives(h) \/ req[h].pc # "idle"
    BY <1>8 DEF CountSessions, ListSessions, EvictSessions, Fails, GetCodeTelegramID,
        CountAndRefuse, DeleteCodeByTelegramID
  <2> QED
    BY <1>1, <1>2, <1>8, <2>1, AsideActionsRefresh
<1> QED
  BY <1>3, <1>4, <1>5, <1>6, <1>7, <1>8 DEF Next

-----------------------------------------------------------------------------
(* A link opens two sessions a turn of its counter *)

\* The sessions a link may have opened when it was read so often: all those of the turns
\* its counter has completed, and those of the turn it is in.
Opened(n) ==
    MaxTGBotLoginLinkUsages * (n \div CounterModulus) +
    (IF n % CounterModulus < MaxTGBotLoginLinkUsages THEN n % CounterModulus
     ELSE MaxTGBotLoginLinkUsages)
TurnsOf(n) == (n + CounterModulus - 1) \div CounterModulus

LEMMA QuotientRemainder ==
    ASSUME NEW a \in Nat, NEW b \in Nat \ {0}
    PROVE  \E q \in Nat, r \in Nat :
              q = a \div b /\ r = a % b /\ r < b /\ a = b * q + r
<1>1. /\ a \div b \in Nat /\ a % b \in Nat /\ a % b < b
      /\ a = b * (a \div b) + (a % b)
  OBVIOUS
<1> WITNESS a \div b \in Nat, a % b \in Nat
<1> QED
  BY <1>1

\* A multiple of the divisor within a number counts within its quotient.
LEMMA MultipleWithin ==
    ASSUME NEW a \in Nat, NEW b \in Nat \ {0}, NEW n \in Nat, b * n <= a
    PROVE  n <= a \div b
<1>1. PICK q \in Nat, r \in Nat : q = a \div b /\ r < b /\ a = b * q + r
  BY QuotientRemainder
<1>2. ASSUME n >= q + 1 PROVE FALSE
  <2>1. PICK d \in Nat : n = q + 1 + d
    BY <1>2
  <2>2. b * n = b * q + b + b * d /\ b * d >= 0
    BY <2>1
  <2> QED
    BY <1>1, <2>2
<1> QED
  BY <1>1, <1>2

\* The turn of a counter that goes one further.
LEMMA NextTurn ==
    ASSUME NEW n \in Nat, NEW b \in Nat \ {0}
    PROVE  \/ /\ n % b = b - 1 /\ (n + 1) % b = 0
              /\ (n + 1) \div b = (n \div b) + 1
           \/ /\ (n + 1) % b = (n % b) + 1
              /\ (n + 1) \div b = n \div b
<1>1. PICK q \in Nat, r \in Nat : q = n \div b /\ r = n % b /\ r < b /\ n = b * q + r
  BY QuotientRemainder
<1>2. PICK p \in Nat, s \in Nat :
        p = (n + 1) \div b /\ s = (n + 1) % b /\ s < b /\ n + 1 = b * p + s
  <2>1. n + 1 \in Nat
    OBVIOUS
  <2> QED
    BY <2>1, QuotientRemainder
<1>3. q <= p
  <2>1. b * q <= n + 1 /\ n + 1 \in Nat
    BY <1>1
  <2> QED
    BY <1>2, <2>1, MultipleWithin
<1>4. PICK d \in Nat : p = q + d
  BY <1>3
<1>5. b * p = b * q + b * d
  BY <1>4
<1>6. b * d + s = r + 1
  BY <1>1, <1>2, <1>5
<1>7. CASE d = 0
  BY <1>1, <1>2, <1>4, <1>6, <1>7
<1>8. CASE d = 1
  BY <1>1, <1>2, <1>4, <1>6, <1>8
<1>9. ASSUME d >= 2 PROVE FALSE
  <2>1. PICK e \in Nat : d = 2 + e
    BY <1>9
  <2>2. b * d = b + b + b * e /\ b * e >= 0
    BY <2>1
  <2> QED
    BY <1>1, <1>6, <2>2
<1> QED
  BY <1>7, <1>8, <1>9

\* A read that is accepted opens one more, any other takes nothing back.
LEMMA OpenedNext ==
    ASSUME NEW n \in Nat
    PROVE  /\ Opened(n) \in Nat /\ Opened(n) <= Opened(n + 1)
           /\ n % CounterModulus < MaxTGBotLoginLinkUsages => Opened(n + 1) = Opened(n) + 1
<1>1. PICK M \in Nat, b \in Nat \ {0} :
        M = MaxTGBotLoginLinkUsages /\ b = CounterModulus /\ M < b
  OBVIOUS
<1>2. PICK q \in Nat, r \in Nat : q = n \div b /\ r = n % b /\ r < b
  BY QuotientRemainder
<1>3. M * q \in Nat /\ M * (q + 1) = M * q + M
  BY <1>1, <1>2
<1>4. Opened(n) = M * q + (IF r < M THEN r ELSE M)
  BY <1>1, <1>2 DEF Opened
<1>5. Opened(n + 1) = M * ((n + 1) \div b) + (IF (n + 1) % b < M THEN (n + 1) % b ELSE M)
  BY <1>1 DEF Opened
<1>6. CASE r = b - 1 /\ (n + 1) % b = 0 /\ (n + 1) \div b = q + 1
  <2>1. Opened(n + 1) = M * q + M /\ Opened(n) = M * q + M /\ ~(r < M)
    BY <1>1, <1>2, <1>3, <1>4, <1>5, <1>6
  <2> QED
    BY <1>1, <1>2, <1>3, <2>1
<1>7. CASE (n + 1) % b = r + 1 /\ (n + 1) \div b = q
  <2>1. Opened(n + 1) = M * q + (IF r + 1 < M THEN r + 1 ELSE M)
    BY <1>5, <1>7
  <2> QED
    BY <1>1, <1>2, <1>3, <1>4, <2>1
<1> QED
  BY <1>2, <1>6, <1>7, NextTurn

LEMMA OpenedWithin ==
    ASSUME NEW n \in Nat, NEW k \in Nat, n <= k
    PROVE  Opened(n) <= MaxTGBotLoginLinkUsages * TurnsOf(k)
<1>1. PICK M \in Nat, b \in Nat \ {0} :
        M = MaxTGBotLoginLinkUsages /\ b = CounterModulus /\ M < b
  OBVIOUS
<1>2. PICK q \in Nat, r \in Nat : q = n \div b /\ r = n % b /\ r < b /\ n = b * q + r
  BY QuotientRemainder
<1>3. Opened(n) = M * q + (IF r < M THEN r ELSE M)
  BY <1>1, <1>2 DEF Opened
<1>4. PICK Q \in Nat : Q = IF r = 0 THEN q ELSE q + 1
  BY <1>2
<1>5. Opened(n) <= M * Q
  <2>1. M * (q + 1) = M * q + M /\ M * q \in Nat
    BY <1>1, <1>2
  <2> QED
    BY <1>1, <1>2, <1>3, <1>4, <2>1
<1>6. b * Q <= k + b - 1
  <2>1. b * (q + 1) = b * q + b /\ b * q \in Nat
    BY <1>1, <1>2
  <2> QED
    BY <1>1, <1>2, <1>4, <2>1
<1>7. k + b - 1 \in Nat
  OBVIOUS
<1>8. PICK T \in Nat : T = (k + b - 1) \div b
  BY <1>7, QuotientRemainder
<1>9. Q <= T
  BY <1>6, <1>7, <1>8, MultipleWithin
<1>10. M * Q <= M * T
  <2>1. PICK d \in Nat : T = Q + d
    BY <1>9
  <2>2. M * T = M * Q + M * d /\ M * d \in Nat /\ M * Q \in Nat
    BY <1>1, <1>4, <2>1
  <2> QED
    BY <2>2
<1>11. TurnsOf(k) = T
  BY <1>1, <1>8 DEF TurnsOf
<1> QED
  <2>1. M * Q \in Int /\ M * T \in Int /\ Opened(n) \in Int
    BY <1>1, <1>4, <1>8, OpenedNext
  <2> QED
    BY <1>1, <1>5, <1>10, <1>11, <2>1

\* A link, as it is or as it was read: its counter is not ahead of its reads, and the
\* sessions it opened are within its counter's turns.
OneUse == [reads : Nat, accepted : Nat]
CountsUses(l) ==
    /\ l.code \in DOMAIN uses /\ l.reads <= uses[l.code].reads
    /\ uses[l.code].accepted <= Opened(l.reads)

\* a link read was read by this request as well
ReadCounts(r) ==
    r.pc = "link" => CountsUses(r.read) /\ r.read.reads < uses[r.read.code].reads

LinkInv ==
    ~overlapped => /\ link # NoLink => CountsUses(link)
                   /\ \A h \in Handlers : ReadCounts(req[h])
                   /\ LinkOpensTwo

\* Codes as they were; some may be new, and nobody has read these.
CodesKept ==
    /\ \A c \in DOMAIN uses : c \in DOMAIN uses' /\ uses'[c] = uses[c]
    /\ \A c \in DOMAIN uses' \ DOMAIN uses : uses'[c].reads = 0 /\ uses'[c].accepted = 0

LEMMA NothingTurned == TurnsOf(0) \in Nat /\ Opened(0) = 0
<1>1. /\ (0 + CounterModulus - 1) \div CounterModulus \in Nat
      /\ 0 \div CounterModulus = 0 /\ 0 % CounterModulus = 0
  OBVIOUS
<1>2. MaxTGBotLoginLinkUsages * 0 = 0
  OBVIOUS
<1> QED
  BY <1>1, <1>2 DEF TurnsOf, Opened

LEMMA CodesKeptKeeps ==
    ASSUME SessionsInv, LinkInv, ~overlapped, ~overlapped', CodesKept
    PROVE  /\ \A l : CountsUses(l) => CountsUses(l)'
           /\ \A r : ReadCounts(r) => ReadCounts(r)'
           /\ LinkOpensTwo'
<1>1. ASSUME NEW l, CountsUses(l)
      PROVE  CountsUses(l)' /\ uses'[l.code].reads = uses[l.code].reads
  BY <1>1 DEF CountsUses, CodesKept
<1>2. ASSUME NEW r, ReadCounts(r) PROVE ReadCounts(r)'
  BY <1>1, <1>2 DEF ReadCounts
<1>3. ASSUME NEW c \in DOMAIN uses'
      PROVE  uses'[c].accepted <= MaxTGBotLoginLinkUsages * TurnsOf(uses'[c].reads)
  <2>1. CASE c \in DOMAIN uses
    <3>1. uses'[c] = uses[c]
      BY <2>1 DEF CodesKept
    <3>2. uses[c].accepted <= MaxTGBotLoginLinkUsages * TurnsOf(uses[c].reads)
      BY <2>1 DEF LinkInv, LinkOpensTwo, TurnsOf
    <3> QED
      BY <3>1, <3>2
  <2>2. CASE c \notin DOMAIN uses
    <3>1. uses'[c].reads = 0 /\ uses'[c].accepted = 0
      BY <2>2 DEF CodesKept
    <3>2. 0 <= MaxTGBotLoginLinkUsages * TurnsOf(0)
      BY NothingTurned, OpenedWithin
    <3> QED
      BY <3>1, <3>2
  <2> QED
    BY <2>1, <2>2
<1>4. LinkOpensTwo'
  BY <1>3 DEF LinkOpensTwo, TurnsOf
<1> QED
  BY <1>1, <1>2, <1>4

\* Whoever does not read the link or count its use.
LEMMA AsideLink ==
    ASSUME SessionsInv, LinkInv, ~overlapped, ~overlapped', CodesKept,
           link' # NoLink => link' = link \/ CountsUses(link'),
           \A g \in Handlers : req'[g] = req[g] \/ req'[g].pc # "link"
    PROVE  LinkInv'
<1>1. link' # NoLink => CountsUses(link)'
  <2>1. ASSUME link' # NoLink PROVE CountsUses(link')
    BY <2>1 DEF LinkInv
  <2>2. PICK l : l = link'
    OBVIOUS
  <2>3. CountsUses(l) => CountsUses(l)'
    BY CodesKeptKeeps
  <2> QED
    BY <2>1, <2>2, <2>3 DEF CountsUses
<1>2. ASSUME NEW g \in Handlers PROVE ReadCounts(req[g])'
  <2>1. CASE req'[g] = req[g]
    <3>1. PICK r : r = req[g]
      OBVIOUS
    <3>2. ReadCounts(r)'
      BY <3>1, CodesKeptKeeps DEF LinkInv
    <3> QED
      BY <2>1, <3>1, <3>2 DEF ReadCounts
  <2>2. CASE req'[g].pc # "link"
    BY <2>2 DEF ReadCounts
  <2> QED
    BY <2>1, <2>2
<1>3. LinkOpensTwo'
  BY CodesKeptKeeps
<1> QED
  BY <1>1, <1>2, <1>3 DEF LinkInv

\* A read counts at once, what it opens only with its answer.
LEMMA GetCodeLink ==
    ASSUME SessionsInv, LinkInv, ~overlapped, ~overlapped',
           NEW h \in Handlers, \A g \in Handlers \ {h} : req[g].pc = "idle",
           NEW code \in 0..Len(uses), GetCodeTelegramID(h, code)
    PROVE  LinkInv'
<1>1. PICK c, r : c = link.code /\ r = [Idle EXCEPT !.pc = "link", !.code = code, !.read = link]
  OBVIOUS
<1>2. r.pc = "link" /\ r.read = link
  BY <1>1 DEF Idle
<1>3. /\ Become(h, r) /\ link # NoLink /\ link' = link
      /\ uses' = [uses EXCEPT ![c].reads = @ + 1]
  BY <1>1 DEF GetCodeTelegramID
<1>4. req'[h] = r /\ \A g \in Handlers \ {h} : req'[g].pc = "idle"
  BY <1>3, OthersIdle
<1>5. /\ c \in DOMAIN uses /\ link.reads <= uses[c].reads
      /\ uses[c].accepted <= Opened(link.reads)
  BY <1>1, <1>3 DEF LinkInv, CountsUses
<1>6. link \in Link /\ uses \in Seq(OneUse)
  BY DEF SessionsInv, Typed, OneUse
<1>7. PICK u \in OneUse : u = uses[c]
  BY <1>5, <1>6
<1>8. /\ DOMAIN uses' = DOMAIN uses
      /\ uses'[c].reads = u.reads + 1 /\ uses'[c].accepted = u.accepted
      /\ \A d \in DOMAIN uses \ {c} : uses'[d] = uses[d]
  <2>1. uses'[c] = [u EXCEPT !.reads = @ + 1]
    BY <1>3, <1>5, <1>7
  <2> QED
    BY <1>3, <1>7, <2>1 DEF OneUse
<1>9. link.reads < uses'[c].reads /\ uses'[c].accepted <= Opened(link.reads)
  BY <1>5, <1>6, <1>7, <1>8 DEF OneUse, Link
<1>10. CountsUses(link)'
  BY <1>1, <1>3, <1>5, <1>6, <1>7, <1>8, <1>9 DEF CountsUses, OneUse, Link
<1>11. ASSUME NEW g \in Handlers PROVE ReadCounts(req[g])'
  <2>1. CASE g = h
    BY <1>1, <1>2, <1>3, <1>4, <1>9, <1>10, <2>1 DEF ReadCounts, CountsUses
  <2>2. CASE g # h
    BY <1>4, <2>2 DEF ReadCounts
  <2> QED
    BY <2>1, <2>2
<1>12. ASSUME NEW d \in DOMAIN uses'
       PROVE  uses'[d].accepted <= MaxTGBotLoginLinkUsages * TurnsOf(uses'[d].reads)
  <2>1. CASE d = c
    <3>1. PICK n \in Nat, k \in Nat : n = link.reads /\ k = uses'[c].reads
      BY <1>6, <1>7, <1>8 DEF Link, OneUse
    <3>2. Opened(n) <= MaxTGBotLoginLinkUsages * TurnsOf(k) /\ Opened(n) \in Nat
      <4>1. n <= k
        BY <1>9, <3>1
      <4> QED
        BY <4>1, OpenedWithin, OpenedNext
    <3>3. MaxTGBotLoginLinkUsages * TurnsOf(k) \in Int
      <4>1. k + CounterModulus - 1 \in Nat
        BY <3>1
      <4>2. TurnsOf(k) \in Nat
        BY <4>1, QuotientRemainder DEF TurnsOf
      <4> QED
        BY <4>2
    <3>4. uses'[c].accepted \in Nat /\ uses'[c].accepted <= Opened(n)
      BY <1>7, <1>8, <1>9, <3>1 DEF OneUse
    <3> HIDE DEF TurnsOf, Opened
    <3>5. uses'[c].accepted <= MaxTGBotLoginLinkUsages * TurnsOf(k)
      BY <3>2, <3>3, <3>4
    <3> QED
      BY <2>1, <3>1, <3>5
  <2>2. CASE d # c
    BY <1>8, <2>2 DEF LinkInv, LinkOpensTwo, TurnsOf
  <2> QED
    BY <2>1, <2>2
<1>13. LinkOpensTwo'
  BY <1>12 DEF LinkOpensTwo, TurnsOf
<1> QED
  BY <1>10, <1>11, <1>13 DEF LinkInv

\* The counter goes one further, and what it accepted is within its turns again.
LEMMA CountLink ==
    ASSUME SessionsInv, LinkInv, ~overlapped, ~overlapped',
           NEW h \in Handlers, \A g \in Handlers \ {h} : req[g].pc = "idle",
           CountAndAccept(h) \/ CountAndRefuse(h)
    PROVE  LinkInv'
<1>1. PICK l, c : l = req[h].read /\ c = l.code
  OBVIOUS
<1>2. req[h].pc = "link" /\ link' = Counted(l)
  BY <1>1 DEF CountAndAccept, CountAndRefuse
<1>3. /\ c \in DOMAIN uses /\ l.reads < uses[c].reads
      /\ uses[c].accepted <= Opened(l.reads)
  BY <1>1, <1>2 DEF LinkInv, ReadCounts, CountsUses
<1>4. req[h] \in Request /\ uses \in Seq(OneUse)
  BY DEF SessionsInv, Typed, OneUse
<1>5. l \in Link
  BY <1>1, <1>4 DEF Request
<1>6. PICK u \in OneUse, n \in Nat : u = uses[c] /\ n = l.reads
  BY <1>3, <1>4, <1>5 DEF Link
<1>7. link'.code = c /\ link'.reads = n + 1
  BY <1>1, <1>2, <1>5, <1>6 DEF Counted, Link
<1>8. \A g \in Handlers : req'[g].pc # "link"
  <2>1. PICK r : Become(h, r) /\ r.pc # "link"
    <3>1. CASE CountAndAccept(h)
      <4>1. PICK r : r = MakeToken(Idle)
        OBVIOUS
      <4>2. r.pc = "count"
        BY <4>1 DEF MakeToken, Idle
      <4> QED
        BY <3>1, <4>1, <4>2 DEF CountAndAccept
    <3>2. CASE CountAndRefuse(h)
      <4>1. PICK r : r = IF req[h].read.code = req[h].code
                         THEN [Idle EXCEPT !.pc = "forget"] ELSE Idle
        OBVIOUS
      <4>2. r.pc \in {"forget", "idle"}
        BY <4>1 DEF Idle
      <4> QED
        BY <3>2, <4>1, <4>2 DEF CountAndRefuse
    <3> QED
      BY <3>1, <3>2
  <2> QED
    BY <2>1, OthersIdle
<1>9. /\ DOMAIN uses' = DOMAIN uses
      /\ \A d \in DOMAIN uses \ {c} : uses'[d] = uses[d]
      /\ uses'[c].reads = u.reads
      /\ uses'[c].accepted \in Nat /\ uses'[c].accepted <= Opened(n + 1)
  <2>1. CASE CountAndAccept(h)
    <3>1. n % CounterModulus < MaxTGBotLoginLinkUsages /\ req[h].code = c
      BY <1>1, <1>6, <2>1 DEF CountAndAccept, Accepts, ReadCounter
    <3>2. Opened(n + 1) = Opened(n) + 1 /\ Opened(n) \in Nat
      BY <3>1, OpenedNext
    <3>3. uses' = [uses EXCEPT ![c].accepted = @ + 1]
      BY <2>1, <3>1 DEF CountAndAccept
    <3>4. uses'[c] = [u EXCEPT !.accepted = @ + 1]
      BY <1>3, <1>6, <3>3
    <3>5. uses'[c].reads = u.reads /\ uses'[c].accepted = u.accepted + 1 /\ u.accepted \in Nat
      BY <3>4 DEF OneUse
    <3>6. DOMAIN uses' = DOMAIN uses /\ \A d \in DOMAIN uses \ {c} : uses'[d] = uses[d]
      BY <3>3
    <3> QED
      BY <1>3, <1>6, <3>2, <3>5, <3>6
  <2>2. CASE CountAndRefuse(h)
    <3>1. uses' = uses /\ u.accepted \in Nat /\ n + 1 \in Nat
      BY <1>6, <2>2 DEF CountAndRefuse, OneUse
    <3>2. Opened(n) <= Opened(n + 1) /\ Opened(n) \in Nat /\ Opened(n + 1) \in Nat
      BY <3>1, OpenedNext
    <3> QED
      BY <1>3, <1>6, <3>1, <3>2
  <2> QED
    BY <2>1, <2>2
<1>10. n + 1 <= u.reads /\ u.reads \in Nat /\ n + 1 \in Nat
  BY <1>3, <1>6 DEF OneUse
<1>11. CountsUses(link)'
  BY <1>3, <1>7, <1>9, <1>10 DEF CountsUses
<1>12. ASSUME NEW d \in DOMAIN uses'
       PROVE  uses'[d].accepted <= MaxTGBotLoginLinkUsages * TurnsOf(uses'[d].reads)
  <2>1. CASE d = c
    <3>1. Opened(n + 1) <= MaxTGBotLoginLinkUsages * TurnsOf(u.reads) /\ Opened(n + 1) \in Nat
      BY <1>10, OpenedWithin, OpenedNext
    <3>2. u.reads + CounterModulus - 1 \in Nat
      BY <1>10
    <3>3. TurnsOf(u.reads) \in Nat
      BY <3>2, QuotientRemainder DEF TurnsOf
    <3>4. MaxTGBotLoginLinkUsages * TurnsOf(u.reads) \in Int
      BY <3>3
    <3>5. uses'[c].accepted <= MaxTGBotLoginLinkUsages * TurnsOf(u.reads)
      BY <1>9, <3>1, <3>4
    <3> QED
      BY <1>9, <2>1, <3>5
  <2>2. CASE d # c
    BY <1>9, <2>2 DEF LinkInv, LinkOpensTwo, TurnsOf
  <2> QED
    BY <2>1, <2>2
<1>13. LinkOpensTwo'
  BY <1>12 DEF LinkOpensTwo, TurnsOf
<1>14. \A g \in Handlers : ReadCounts(req[g])'
  BY <1>8 DEF ReadCounts
<1> QED
  BY <1>11, <1>13, <1>14 DEF LinkInv

\* A new code takes the place of the one before; one that is used up or expired takes none.
LEMMA BotLink ==
    ASSUME SessionsInv, LinkInv, ~overlapped, ~overlapped',
           SaveTelegramCode \/ LinkExpires
    PROVE  LinkInv'
<1>1. CASE LinkExpires
  BY <1>1, AsideLink DEF LinkExpires, CodesKept
<1>2. CASE SaveTelegramCode
  <2>1. uses \in Seq(OneUse) /\ Len(uses) \in Nat /\ DOMAIN uses = 1..Len(uses)
    BY DEF SessionsInv, Typed, OneUse
  <2>2. PICK n : n = Len(uses) + 1
    OBVIOUS
  <2>3. /\ DOMAIN uses' = 1..n
        /\ uses'[n] = [reads |-> 0, accepted |-> 0]
        /\ \A c \in DOMAIN uses : uses'[c] = uses[c]
    BY <1>2, <2>1, <2>2 DEF SaveTelegramCode
  <2>4. CodesKept
    <3>1. \A c \in DOMAIN uses : c \in DOMAIN uses'
      BY <2>1, <2>2, <2>3
    <3>2. ASSUME NEW c \in DOMAIN uses' \ DOMAIN uses
          PROVE  uses'[c].reads = 0 /\ uses'[c].accepted = 0
      <4>1. c = n
        BY <2>1, <2>2, <2>3, <3>2
      <4> QED
        BY <2>3, <4>1
    <3> QED
      BY <2>3, <3>1, <3>2 DEF CodesKept
  <2>5. link' = [code |-> n, reads |-> 0] /\ req' = req
    BY <1>2, <2>2 DEF SaveTelegramCode
  <2>6. CountsUses(link)'
    BY <2>1, <2>2, <2>3, <2>5, NothingTurned DEF CountsUses
  <2>7. ASSUME NEW g \in Handlers PROVE ReadCounts(req[g])'
    <3>1. PICK r : r = req[g]
      OBVIOUS
    <3>2. ReadCounts(r)'
      BY <2>4, <3>1, CodesKeptKeeps DEF LinkInv
    <3> QED
      BY <2>5, <3>1, <3>2 DEF ReadCounts
  <2> QED
    BY <2>4, <2>6, <2>7, CodesKeptKeeps DEF LinkInv
<1> QED
  BY <1>1, <1>2

LEMMA LinkInductive ==
    ASSUME SessionsInv, LinkInv, [Next]_vars
    PROVE  LinkInv'
<1> SUFFICES ASSUME ~overlapped' PROVE LinkInv'
  BY DEF LinkInv
<1>1. ~overlapped
  BY OneInFlight
<1>2. ASSUME NEW h \in Handlers, Arrives(h) \/ req[h].pc # "idle"
      PROVE  \A g \in Handlers \ {h} : req[g].pc = "idle"
  BY <1>2, OneInFlight
<1>3. CASE SaveTelegramCode \/ LinkExpires
  BY <1>1, <1>3, BotLink
<1>4. CASE Tick \/ UNCHANGED vars
  BY <1>1, <1>4, AsideLink DEF Tick, vars, CodesKept
<1>5. ASSUME NEW h \in Handlers, NEW code \in 0..Len(uses), GetCodeTelegramID(h, code)
      PROVE  LinkInv'
  <2>1. Arrives(h)
    BY <1>5 DEF GetCodeTelegramID
  <2> QED
    BY <1>1, <1>2, <1>5, <2>1, GetCodeLink
<1>6. ASSUME NEW h \in Handlers, CountAndAccept(h) \/ CountAndRefuse(h) PROVE LinkInv'
  <2>1. req[h].pc # "idle"
    BY <1>6 DEF CountAndAccept, CountAndRefuse
  <2> QED
    BY <1>1, <1>2, <1>6, <2>1, CountLink
<1>7. ASSUME NEW h \in Handlers,
             \/ GenerateTokenPair(h) \/ CountSessions(h) \/ ListSessions(h)
             \/ EvictSessions(h) \/ SaveSession(h) \/ DeleteUserSession(h)
             \/ \E t \in Handed : RefreshSession(h, t)
             \/ DeleteCodeByTelegramID(h) \/ Fails(h)
      PROVE  LinkInv'
  <2>1. uses' = uses /\ link' \in {link, NoLink}
    BY <1>7 DEF GenerateTokenPair, CountSessions, ListSessions, EvictSessions, SaveSession,
        DeleteUserSession, RefreshSession, DeleteCodeByTelegramID, Fails
  <2>2. PICK r : Become(h, r) /\ r.pc # "link"
    <3>1. req[h] \in Request
      BY DEF SessionsInv, Typed
    <3>2. ASSUME CountSessions(h) \/ ListSessions(h) \/ EvictSessions(h) \/ DeleteUserSession(h)
          PROVE  \E r : Become(h, r) /\ r.pc # "link"
      <4>1. CASE CountSessions(h)
        <5>1. PICK r : r = [req[h] EXCEPT
                              !.pc = IF Cardinality(DOMAIN sessions) >= UserSessionsLimit
                                     THEN "list" ELSE "save"]
          OBVIOUS
        <5>2. r.pc \in {"list", "save"}
          BY <3>1, <5>1 DEF Request
        <5> QED
          BY <4>1, <5>1, <5>2 DEF CountSessions
      <4>2. CASE ListSessions(h)
        <5>1. PICK r : r = IF Cardinality(DOMAIN sessions) >= UserSessionsLimit
                           THEN [req[h] EXCEPT !.pc = "evict",
                                               !.fields = FieldsToDelete(DOMAIN sessions)]
                           ELSE [req[h] EXCEPT !.pc = "save"]
          OBVIOUS
        <5>2. r.pc \in {"evict", "save"}
          BY <3>1, <5>1 DEF Request
        <5> QED
          BY <4>2, <5>1, <5>2 DEF ListSessions
      <4>3. CASE EvictSessions(h)
        <5>1. PICK r : r = [req[h] EXCEPT !.pc = "save", !.fields = {}]
          OBVIOUS
        <5>2. r.pc = "save"
          BY <3>1, <5>1 DEF Request
        <5> QED
          BY <4>3, <5>1, <5>2 DEF EvictSessions
      <4>4. CASE DeleteUserSession(h)
        <5>1. PICK r : r = [req[h] EXCEPT !.pc = "count"]
          OBVIOUS
        <5>2. r.pc = "count"
          BY <3>1, <5>1 DEF Request
        <5> QED
          BY <4>4, <5>1, <5>2 DEF DeleteUserSession
      <4> QED
        BY <3>2, <4>1, <4>2, <4>3, <4>4
    <3>3. CASE SaveSession(h) \/ DeleteCodeByTelegramID(h) \/ Fails(h)
      BY <3>3, IdleIsRequest DEF SaveSession, DeleteCodeByTelegramID, Fails
    <3>4. CASE GenerateTokenPair(h)
      <4>1. PICK r : r = MakeToken(Idle)
        OBVIOUS
      <4>2. r.pc = "count"
        BY <4>1 DEF MakeToken, Idle
      <4> QED
        BY <3>4, <4>1, <4>2 DEF GenerateTokenPair
    <3>5. ASSUME NEW t \in Handed, RefreshSession(h, t)
          PROVE  \E r : Become(h, r) /\ r.pc # "link"
      <4>1. PICK r : r = [MakeToken(Idle) EXCEPT !.pc = "drop", !.prev = t]
        OBVIOUS
      <4>2. r.pc = "drop"
        BY <4>1 DEF MakeToken, Idle
      <4> QED
        BY <3>5, <4>1, <4>2 DEF RefreshSession
    <3> QED
      BY <1>7, <3>2, <3>3, <3>4, <3>5
  <2>3. \A g \in Handlers : req'[g] = req[g] \/ req'[g].pc # "link"
    BY <2>2 DEF Become, SessionsInv, Typed
  <2>4. CodesKept
    BY <2>1 DEF CodesKept
  <2> QED
    BY <1>1, <2>1, <2>3, <2>4, AsideLink
<1> QED
  BY <1>3, <1>4, <1>5, <1>6, <1>7 DEF Next

LEMMA InitUsedOnce == Init => RefreshInv /\ LinkInv
<1> SUFFICES ASSUME Init PROVE RefreshInv /\ LinkInv
  OBVIOUS
<1>1. /\ DOMAIN tokens = {} /\ DOMAIN uses = {} /\ link = NoLink
      /\ \A h \in Handlers : req[h] = Idle
  BY DEF Init
<1>2. Idle.pc = "idle"
  BY IdleIsRequest
<1>3. RefreshInv
  BY <1>1, <1>2 DEF RefreshInv, ExchangedAreOut, Exchanges, Making
<1>4. LinkInv
  BY <1>1, <1>2 DEF LinkInv, ReadCounts, LinkOpensTwo
<1> QED
  BY <1>3, <1>4

\* As long as requests do not overlap, whatever fails half way and is tried again, expires
\* or is evicted: a token is refreshed once, and a link opens as many sessions as it may,
\* for every turn of its counter (RefreshSession, GetCodeTelegramID).
THEOREM UsedUpByTheirUse == Spec => []UsedOnce
<1>1. Init => SessionsInv /\ RefreshInv /\ LinkInv
  BY InitSessions, InitUsedOnce
<1>2. /\ SessionsInv /\ [Next]_vars => SessionsInv'
      /\ SessionsInv /\ RefreshInv /\ [Next]_vars => RefreshInv'
      /\ SessionsInv /\ LinkInv /\ [Next]_vars => LinkInv'
  BY SessionsStep, RefreshInductive, LinkInductive
<1>3. RefreshInv /\ LinkInv => UsedOnce
  <2> SUFFICES ASSUME RefreshInv, LinkInv, ~overlapped PROVE UsedOnce
    BY DEF UsedOnce, RefreshedOnce, LinkOpensTwo
  <2>1. RefreshedOnce
    BY DEF RefreshInv, ExchangedAreOut, RefreshedOnce
  <2>2. LinkOpensTwo
    BY DEF LinkInv
  <2> QED
    BY <2>1, <2>2 DEF UsedOnce
<1> QED
  BY <1>1, <1>2, <1>3, PTL DEF Spec

-----------------------------------------------------------------------------
(***************************************************************************)
(* Calls are entitled.                                                     *)
(*                                                                         *)
(* That a handler takes claims, and that its service is a moderator's, is  *)
(* said in one list; that a layer sees to it, in another. TableGuarded     *)
(* says for one table of routes that the two agree; it is proved row by    *)
(* row. The invariant then follows a request through the layers of its     *)
(* table: each one passed has left what it must (LayersBehind), none ahead *)
(* of a handler that runs was skipped (AllBehind).                         *)
(***************************************************************************)
(* The two lists *)

Serves(h) == Len(h.calls) \in Nat \ {0}

\* no moderator's call
Unprivileged(h) ==
    Serves(h) /\ \A k \in 1..Len(h.calls) : h.calls[k] \notin ModeratorCalls

Anonymous(h) == Unprivileged(h) /\ ~h.claims

\* A handler's claims and moderators' calls have a layer ahead that sees to them.
RouteGuarded(G, i) ==
    LET h == G[i].handler
        Behind(layer) == \E j \in 1..(i - 1) : G[j].layer = layer
    IN
    /\ Serves(h)
    /\ h.claims => Behind("auth") \/ (G = FAQRoutes /\ Behind("faq"))
    /\ ~Unprivileged(h) => Behind("admin")

TableGuarded(G) == \A i \in DOMAIN G : G[i].layer = "route" => RouteGuarded(G, i)

\* Handlers of one call.
LEMMA OneCall ==
  ASSUME NEW op
  PROVE  /\ Serves(Mine(op)) /\ Serves(Own(op)) /\ Serves(Public(op)) /\ Serves(Open(op))
         /\ op \notin ModeratorCalls =>
               /\ Unprivileged(Mine(op)) /\ Unprivileged(Own(op))
               /\ Anonymous(Public(op)) /\ Anonymous(Open(op))
<1>1. PICK calls : calls = <<op>>
  OBVIOUS
<1>2. Len(calls) = 1 /\ calls[1] = op
  BY <1>1
<1>3. ASSUME NEW b \in BOOLEAN, NEW c \in BOOLEAN
      PROVE  /\ Serves(Handler(<<op>>, b, c))
             /\ op \notin ModeratorCalls => Unprivileged(Handler(<<op>>, b, c))
             /\ Handler(<<op>>, b, c).claims = c
  <2>1. PICK h : h = Handler(<<op>>, b, c)
    OBVIOUS
  <2>2. h.calls = calls /\ h.claims = c
    BY <1>1, <2>1 DEF Handler
  <2>3. Serves(h)
    <3>1. Len(h.calls) = 1
      BY <1>2, <2>2
    <3> QED BY <3>1 DEF Serves
  <2>5. ASSUME NEW k \in 1..Len(h.calls) PROVE h.calls[k] = op
    <3>1. Len(h.calls) = 1
      BY <1>2, <2>2
    <3>2. k = 1
      BY <3>1
    <3> QED BY <1>2, <2>2, <3>2
  <2>4. op \notin ModeratorCalls => Unprivileged(h)
    BY <2>3, <2>5 DEF Unprivileged
  <2> QED BY <2>1, <2>2, <2>3, <2>4
<1> QED
  BY <1>3 DEF Mine, Own, Public, Open, Anonymous

LEMMA Entries ==
  ASSUME NEW h, NEW layer
  PROVE  /\ Get(h).layer = "route" /\ Get(h).handler = h
         /\ Guarded(h, layer).layer = "route" /\ Guarded(h, layer).handler = h
         /\ Use(layer).layer = layer
BY DEF Get, Guarded, Use

LEMMA AuthRoutesHandlers ==
  /\ Anonymous(SendCode)
  /\ Anonymous(RefreshTokens)
BY OneCall DEF ModeratorCalls, SendCode, RefreshTokens

LEMMA CryptoDuelRoutesHandlers ==
  /\ Anonymous(GetTransactionTypes)
  /\ Unprivileged(CreateCryptoDuel)
  /\ Unprivileged(JoinCryptoDuelHandler)
  /\ Unprivileged(GetTransactionHistory)
  /\ Unprivileged(GetTokenAccountBalances)
BY OneCall DEF ModeratorCalls, CreateCryptoDuel, JoinCryptoDuelHandler, GetTransactionTypes,
       GetTransactionHistory, GetTokenAccountBalances

LEMMA DuelRoutesHandlers ==
  /\ Anonymous(GetAllDuelsHandler)
  /\ Anonymous(CountAllDuels)
  /\ Anonymous(GetDuelsCountByTopic)
  /\ Anonymous(FindAllEntities)
  /\ Anonymous(FindAllSubtopics)
  /\ Anonymous(GetLeaderboard)
  /\ Anonymous(GetDuelByIDUnauthorized)
  /\ Unprivileged(CreateDuel)
  /\ Unprivileged(GetMyDuels)
  /\ Unprivileged(GetAllDuelsAuthorized)
  /\ Unprivileged(GetIndividualDuelsCountByTopic)
  /\ Unprivileged(GetAllDuelsWhereParticipant)
  /\ Unprivileged(GetMyHistoryDuels)
  /\ Unprivileged(JoinDuelHandler)
  /\ Unprivileged(GetUserRank)
  /\ Unprivileged(GetDuelByIDHandler)
BY OneCall DEF ModeratorCalls, GetAllDuelsHandler, CountAllDuels, GetDuelsCountByTopic,
       FindAllEntities, FindAllSubtopics, GetLeaderboard, GetDuelByIDUnauthorized, CreateDuel,
       GetMyDuels, GetAllDuelsAuthorized, GetIndividualDuelsCountByTopic,
       GetAllDuelsWhereParticipant, GetMyHistoryDuels, JoinDuelHandler, GetUserRank,
       GetDuelByIDHandler

LEMMA TaskRoutesHandlers ==
  /\ Unprivileged(GetTasks)
  /\ Unprivileged(ClaimRewardHandler)
BY OneCall DEF ModeratorCalls, GetTasks, ClaimRewardHandler

LEMMA FAQRoutesHandlers ==
  /\ Unprivileged(GetAllFAQHandler)
  /\ Unprivileged(CreateFAQ)
  /\ Unprivileged(AddFAQMarkHandler)
BY OneCall DEF ModeratorCalls, GetAllFAQHandler, CreateFAQ, AddFAQMarkHandler

LEMMA StatsRoutesHandlers ==
  /\ Anonymous(GetUsersCount)
  /\ Unprivileged(UserReferralStats)
  /\ Unprivileged(UserReferralsHandler)
BY OneCall DEF ModeratorCalls, GetUsersCount, UserReferralStats, UserReferralsHandler

LEMMA AdminRoutesHandlers ==
  /\ Serves(UploadImage)
  /\ Serves(DeleteImage)
  /\ Serves(AdminCreateCryptoDuel)
  /\ Serves(ApproveCryptoDuelHandler)
  /\ Serves(ResolveCryptoDuel)
  /\ Serves(CancelCryptoDuel)
  /\ Serves(AdminCreateDuel)
  /\ Serves(EditDuelHandler)
  /\ Serves(AssignDuelToTournament)
  /\ Serves(ResolveDuel)
  /\ Serves(ApproveDuelHandler)
  /\ Serves(CancelDuel)
  /\ Serves(CreateDuelEntity)
  /\ Serves(CreateDuelSubtopic)
  /\ Serves(UpdateDuelEntity)
  /\ Serves(UpdateDuelSubtopic)
  /\ Serves(GetModeratorStats)
BY OneCall DEF ModeratorCalls, UploadImage, DeleteImage, AdminCreateCryptoDuel,
       ApproveCryptoDuelHandler, ResolveCryptoDuel, CancelCryptoDuel, AdminCreateDuel,
       EditDuelHandler, AssignDuelToTournament, ResolveDuel, ApproveDuelHandler, CancelDuel,
       CreateDuelEntity, CreateDuelSubtopic, UpdateDuelEntity, UpdateDuelSubtopic,
       GetModeratorStats

LEMMA UserRoutesHandlers ==
  /\ Anonymous(FindUserByUsername)
  /\ Unprivileged(GetUser)
  /\ Unprivileged(EditUser)
  /\ Unprivileged(SetProfilePicture)
  /\ Unprivileged(ChangeUsernameHandler)
BY OneCall DEF ModeratorCalls, FindUserByUsername, GetUser, EditUser, SetProfilePicture,
       ChangeUsernameHandler

LEMMA WalletRoutesHandlers ==
  /\ Unprivileged(ShowWallet)
  /\ Unprivileged(TransferHandler)
  /\ Unprivileged(TransferDuckPointsHandler)
  /\ Unprivileged(DuckPointsTransferHistoryHandler)
  /\ Unprivileged(SwapCurrencies)
  /\ Unprivileged(GetUserWalletTokens)
  /\ Unprivileged(AddTokenHandler)
  /\ Unprivileged(EditUserWalletToken)
  /\ Unprivileged(RemoveTokenHandler)
BY OneCall DEF ModeratorCalls, ShowWallet, TransferHandler, TransferDuckPointsHandler,
       DuckPointsTransferHistoryHandler, SwapCurrencies, GetUserWalletTokens, AddTokenHandler,
       EditUserWalletToken, RemoveTokenHandler

LEMMA TournamentRoutesHandlers ==
  /\ Anonymous(Tournaments)
  /\ Anonymous(RewardsHandler)
  /\ Anonymous(LeaderboardHandler)
  /\ Unprivileged(TournamentRankHandler)
  /\ Unprivileged(UserTournamentsHandler)
  /\ Serves(CreateTournamentHandler)
  /\ Serves(UpdateRewardsHandler)
BY OneCall DEF ModeratorCalls, Tournaments, RewardsHandler, LeaderboardHandler,
       TournamentRankHandler, UserTournamentsHandler, CreateTournamentHandler,
       UpdateRewardsHandler

LEMMA CoinRoutesHandlers ==
  /\ Anonymous(GetAllCoinsHandler)
  /\ Anonymous(GetSolanaPrice)
  /\ Anonymous(GetTokenByMint)
  /\ Anonymous(GetTokenByName)
BY OneCall DEF ModeratorCalls, GetAllCoinsHandler, GetSolanaPrice, GetTokenByMint, GetTokenByName

\* Handlers of several calls, or that check a code.
LEMMA ManyCalls ==
  /\ Anonymous(OfferHandler) /\ Anonymous(SignInWithGoogle)
  /\ Anonymous(SignInWithTelegramMiniApp) /\ Anonymous(SignInWithTelegramWeb)
  /\ Anonymous(SignInWithEmail) /\ Unprivileged(CompleteAttachEmailHandler)
<1>1. ASSUME NEW h, NEW a, NEW b, h.calls = <<a, b>>, ~h.claims,
             a \notin ModeratorCalls, b \notin ModeratorCalls
      PROVE  Anonymous(h)
  BY <1>1 DEF Anonymous, Unprivileged, Serves
<1>2. ASSUME NEW h, NEW a, NEW b, NEW c, h.calls = <<a, b, c>>, ~h.claims,
             a \notin ModeratorCalls, b \notin ModeratorCalls, c \notin ModeratorCalls
      PROVE  Anonymous(h)
  BY <1>2 DEF Anonymous, Unprivileged, Serves
<1>3. /\ "CreateOffer" \notin ModeratorCalls /\ "Notify" \notin ModeratorCalls
      /\ "SignInWithEmail" \notin ModeratorCalls /\ "SignInWithTelegram" \notin ModeratorCalls
      /\ "GenerateTokenPair" \notin ModeratorCalls /\ "FindByTelegramID" \notin ModeratorCalls
      /\ "CheckUsersTelegramCode" \notin ModeratorCalls
  BY DEF ModeratorCalls
<1>4. Anonymous(OfferHandler)
  BY <1>1, <1>3 DEF OfferHandler, Handler
<1>5. Anonymous(SignInWithGoogle)
  BY <1>1, <1>3 DEF SignInWithGoogle, Handler
<1>6. Anonymous(SignInWithTelegramMiniApp)
  BY <1>1, <1>3 DEF SignInWithTelegramMiniApp, Handler
<1>7. Anonymous(SignInWithTelegramWeb)
  BY <1>2, <1>3 DEF SignInWithTelegramWeb, Handler
<1>8. Anonymous(SignInWithEmail)
  BY <1>1, <1>3 DEF SignInWithEmail, Handler
<1>9. Unprivileged(CompleteAttachEmailHandler)
  <2>1. Unprivileged(Mine("CompleteSignInEmail"))
    BY OneCall DEF ModeratorCalls
  <2>2. CompleteAttachEmailHandler.calls = Mine("CompleteSignInEmail").calls
    BY DEF CompleteAttachEmailHandler, Mine, Handler
  <2> QED BY <2>1, <2>2 DEF Unprivileged, Serves
<1> QED BY <1>4, <1>5, <1>6, <1>7, <1>8, <1>9

\* What stands ahead of a route, by who may call its handler.
LEMMA AnyonesRow ==
  ASSUME NEW G, NEW i \in Nat, Anonymous(G[i].handler)
  PROVE  RouteGuarded(G, i)
BY DEF RouteGuarded, Anonymous, Unprivileged

LEMMA UsersRow ==
  ASSUME NEW G, NEW i \in Nat, Unprivileged(G[i].handler), NEW j \in 1..(i - 1),
         G[j].layer = "auth" \/ (G = FAQRoutes /\ G[j].layer = "faq")
  PROVE  RouteGuarded(G, i)
BY DEF RouteGuarded, Unprivileged

LEMMA ModeratorsRow ==
  ASSUME NEW G, NEW i \in Nat, Serves(G[i].handler), NEW j \in 1..(i - 1), NEW k \in 1..(i - 1),
         G[j].layer = "auth", G[k].layer = "admin"
  PROVE  RouteGuarded(G, i)
BY DEF RouteGuarded

LEMMA AuthRoutesGuarded == TableGuarded(AuthRoutes)
<1>1. DOMAIN AuthRoutes = 1..6
  BY DEF AuthRoutes
<1>2. /\ AuthRoutes[1].handler = SendCode
      /\ AuthRoutes[2].handler = SignInWithEmail
      /\ AuthRoutes[3].handler = SignInWithGoogle
      /\ AuthRoutes[4].handler = SignInWithTelegramMiniApp
      /\ AuthRoutes[5].handler = SignInWithTelegramWeb
      /\ AuthRoutes[6].handler = RefreshTokens
  BY Entries DEF AuthRoutes, Limited
<1>3. RouteGuarded(AuthRoutes, 1)
  BY <1>2, AuthRoutesHandlers, AnyonesRow
<1>4. RouteGuarded(AuthRoutes, 2)
  BY <1>2, ManyCalls, AnyonesRow
<1>5. RouteGuarded(AuthRoutes, 3)
  BY <1>2, ManyCalls, AnyonesRow
<1>6. RouteGuarded(AuthRoutes, 4)
  BY <1>2, ManyCalls, AnyonesRow
<1>7. RouteGuarded(AuthRoutes, 5)
  BY <1>2, ManyCalls, AnyonesRow
<1>8. RouteGuarded(AuthRoutes, 6)
  BY <1>2, AuthRoutesHandlers, AnyonesRow
<1>9. ASSUME NEW i \in 1..6, AuthRoutes[i].layer = "route"
      PROVE  RouteGuarded(AuthRoutes, i)
  BY <1>9, <1>3, <1>4, <1>5, <1>6, <1>7, <1>8
<1> QED BY <1>1, <1>9 DEF TableGuarded

LEMMA CryptoDuelRoutesGuarded == TableGuarded(CryptoDuelRoutes)
<1>1. DOMAIN CryptoDuelRoutes = 1..6
  BY DEF CryptoDuelRoutes
<1>2. /\ CryptoDuelRoutes[1].layer = "auth"
      /\ CryptoDuelRoutes[2].handler = CreateCryptoDuel
      /\ CryptoDuelRoutes[3].handler = JoinCryptoDuelHandler
      /\ CryptoDuelRoutes[4].handler = GetTransactionTypes
      /\ CryptoDuelRoutes[5].handler = GetTransactionHistory
      /\ CryptoDuelRoutes[6].handler = GetTokenAccountBalances
  BY Entries DEF CryptoDuelRoutes, Limited
<1>3. ~(CryptoDuelRoutes[1].layer = "route")
  BY <1>2
<1>4. RouteGuarded(CryptoDuelRoutes, 2)
  BY <1>2, CryptoDuelRoutesHandlers, UsersRow
<1>5. RouteGuarded(CryptoDuelRoutes, 3)
  BY <1>2, CryptoDuelRoutesHandlers, UsersRow
<1>6. RouteGuarded(CryptoDuelRoutes, 4)
  BY <1>2, CryptoDuelRoutesHandlers, AnyonesRow
<1>7. RouteGuarded(CryptoDuelRoutes, 5)
  BY <1>2, CryptoDuelRoutesHandlers, UsersRow
<1>8. RouteGuarded(CryptoDuelRoutes, 6)
  BY <1>2, CryptoDuelRoutesHandlers, UsersRow
<1>9. ASSUME NEW i \in 1..6, CryptoDuelRoutes[i].layer = "route"
      PROVE  RouteGuarded(CryptoDuelRoutes, i)
  BY <1>3, <1>9, <1>4, <1>5, <1>6, <1>7, <1>8
<1> QED BY <1>1, <1>9 DEF TableGuarded

LEMMA DuelRoutesGuarded == TableGuarded(DuelRoutes)
<1>1. DOMAIN DuelRoutes = 1..17
  BY DEF DuelRoutes
<1>2. /\ DuelRoutes[1].handler = GetAllDuelsHandler
      /\ DuelRoutes[2].handler = CountAllDuels
      /\ DuelRoutes[3].handler = GetDuelsCountByTopic
      /\ DuelRoutes[4].handler = FindAllEntities
      /\ DuelRoutes[5].handler = FindAllSubtopics
      /\ DuelRoutes[6].handler = GetLeaderboard
  BY Entries DEF DuelRoutes, Limited
<1>3. /\ DuelRoutes[7].handler = GetDuelByIDUnauthorized
      /\ DuelRoutes[8].layer = "auth"
      /\ DuelRoutes[9].handler = CreateDuel
      /\ DuelRoutes[10].handler = GetMyDuels
      /\ DuelRoutes[11].handler = GetAllDuelsAuthorized
      /\ DuelRoutes[12].handler = GetIndividualDuelsCountByTopic
  BY Entries DEF DuelRoutes, Limited
<1>4. /\ DuelRoutes[13].handler = GetAllDuelsWhereParticipant
      /\ DuelRoutes[14].handler = GetMyHistoryDuels
      /\ DuelRoutes[15].handler = JoinDuelHandler
      /\ DuelRoutes[16].handler = GetUserRank
      /\ DuelRoutes[17].handler = GetDuelByIDHandler
  BY Entries DEF DuelRoutes, Limited
<1>5. ~(DuelRoutes[8].layer = "route")
  BY <1>3
<1>6. RouteGuarded(DuelRoutes, 1)
  BY <1>2, DuelRoutesHandlers, AnyonesRow
<1>7. RouteGuarded(DuelRoutes, 2)
  BY <1>2, DuelRoutesHandlers, AnyonesRow
<1>8. RouteGuarded(DuelRoutes, 3)
  BY <1>2, DuelRoutesHandlers, AnyonesRow
<1>9. RouteGuarded(DuelRoutes, 4)
  BY <1>2, DuelRoutesHandlers, AnyonesRow
<1>10. RouteGuarded(DuelRoutes, 5)
  BY <1>2, DuelRoutesHandlers, AnyonesRow
<1>11. RouteGuarded(DuelRoutes, 6)
  BY <1>2, DuelRoutesHandlers, AnyonesRow
<1>12. RouteGuarded(DuelRoutes, 7)
  BY <1>3, DuelRoutesHandlers, AnyonesRow
<1>13. RouteGuarded(DuelRoutes, 9)
  BY <1>3, DuelRoutesHandlers, UsersRow
<1>14. RouteGuarded(DuelRoutes, 10)
  BY <1>3, DuelRoutesHandlers, UsersRow
<1>15. RouteGuarded(DuelRoutes, 11)
  BY <1>3, DuelRoutesHandlers, UsersRow
<1>16. RouteGuarded(DuelRoutes, 12)
  BY <1>3, DuelRoutesHandlers, UsersRow
<1>17. RouteGuarded(DuelRoutes, 13)
  BY <1>3, <1>4, DuelRoutesHandlers, UsersRow
<1>18. RouteGuarded(DuelRoutes, 14)
  BY <1>3, <1>4, DuelRoutesHandlers, UsersRow
<1>19. RouteGuarded(DuelRoutes, 15)
  BY <1>3, <1>4, DuelRoutesHandlers, UsersRow
<1>20. RouteGuarded(DuelRoutes, 16)
  BY <1>3, <1>4, DuelRoutesHandlers, UsersRow
<1>21. RouteGuarded(DuelRoutes, 17)
  BY <1>3, <1>4, DuelRoutesHandlers, UsersRow
<1>22. ASSUME NEW i \in 1..17, DuelRoutes[i].layer = "route"
      PROVE  RouteGuarded(DuelRoutes, i)
  BY <1>5, <1>22, <1>6, <1>7, <1>8, <1>9, <1>10, <1>11, <1>12, <1>13, <1>14, <1>15, <1>16,
     <1>17, <1>18, <1>19, <1>20, <1>21
<1> QED BY <1>1, <1>22 DEF TableGuarded

LEMMA TaskRoutesGuarded == TableGuarded(TaskRoutes)
<1>1. DOMAIN TaskRoutes = 1..4
  BY DEF TaskRoutes
<1>2. /\ TaskRoutes[1].layer = "auth"
      /\ TaskRoutes[2].handler = GetTasks
      /\ TaskRoutes[3].handler = ClaimRewardHandler
      /\ TaskRoutes[4].handler = CompleteAttachEmailHandler
  BY Entries DEF TaskRoutes, Limited
<1>3. ~(TaskRoutes[1].layer = "route")
  BY <1>2
<1>4. RouteGuarded(TaskRoutes, 2)
  BY <1>2, TaskRoutesHandlers, UsersRow
<1>5. RouteGuarded(TaskRoutes, 3)
  BY <1>2, TaskRoutesHandlers, UsersRow
<1>6. RouteGuarded(TaskRoutes, 4)
  BY <1>2, ManyCalls, UsersRow
<1>7. ASSUME NEW i \in 1..4, TaskRoutes[i].layer = "route"
      PROVE  RouteGuarded(TaskRoutes, i)
  BY <1>3, <1>7, <1>4, <1>5, <1>6
<1> QED BY <1>1, <1>7 DEF TableGuarded

LEMMA FAQRoutesGuarded == TableGuarded(FAQRoutes)
<1>1. DOMAIN FAQRoutes = 1..4
  BY DEF FAQRoutes
<1>2. /\ FAQRoutes[1].layer = "faq"
      /\ FAQRoutes[2].handler = GetAllFAQHandler
      /\ FAQRoutes[3].handler = CreateFAQ
      /\ FAQRoutes[4].handler = AddFAQMarkHandler
  BY Entries DEF FAQRoutes, Limited
<1>3. ~(FAQRoutes[1].layer = "route")
  BY <1>2
<1>4. RouteGuarded(FAQRoutes, 2)
  BY <1>2, FAQRoutesHandlers, UsersRow
<1>5. RouteGuarded(FAQRoutes, 3)
  BY <1>2, FAQRoutesHandlers, UsersRow
<1>6. RouteGuarded(FAQRoutes, 4)
  BY <1>2, FAQRoutesHandlers, UsersRow
<1>7. ASSUME NEW i \in 1..4, FAQRoutes[i].layer = "route"
      PROVE  RouteGuarded(FAQRoutes, i)
  BY <1>3, <1>7, <1>4, <1>5, <1>6
<1> QED BY <1>1, <1>7 DEF TableGuarded

LEMMA StatsRoutesGuarded == TableGuarded(StatsRoutes)
<1>1. DOMAIN StatsRoutes = 1..4
  BY DEF StatsRoutes
<1>2. /\ StatsRoutes[1].handler = GetUsersCount
      /\ StatsRoutes[2].layer = "auth"
      /\ StatsRoutes[3].handler = UserReferralStats
      /\ StatsRoutes[4].handler = UserReferralsHandler
  BY Entries DEF StatsRoutes, Limited
<1>3. ~(StatsRoutes[2].layer = "route")
  BY <1>2
<1>4. RouteGuarded(StatsRoutes, 1)
  BY <1>2, StatsRoutesHandlers, AnyonesRow
<1>5. RouteGuarded(StatsRoutes, 3)
  BY <1>2, StatsRoutesHandlers, UsersRow
<1>6. RouteGuarded(StatsRoutes, 4)
  BY <1>2, StatsRoutesHandlers, UsersRow
<1>7. ASSUME NEW i \in 1..4, StatsRoutes[i].layer = "route"
      PROVE  RouteGuarded(StatsRoutes, i)
  BY <1>3, <1>7, <1>4, <1>5, <1>6
<1> QED BY <1>1, <1>7 DEF TableGuarded

LEMMA AdminRoutesGuarded == TableGuarded(AdminRoutes)
<1>1. DOMAIN AdminRoutes = 1..19
  BY DEF AdminRoutes
<1>2. /\ AdminRoutes[1].layer = "auth"
      /\ AdminRoutes[2].layer = "admin"
      /\ AdminRoutes[3].handler = UploadImage
      /\ AdminRoutes[4].handler = DeleteImage
      /\ AdminRoutes[5].handler = AdminCreateCryptoDuel
      /\ AdminRoutes[6].handler = ApproveCryptoDuelHandler
  BY Entries DEF AdminRoutes, Limited
<1>3. /\ AdminRoutes[7].handler = ResolveCryptoDuel
      /\ AdminRoutes[8].handler = CancelCryptoDuel
      /\ AdminRoutes[9].handler = AdminCreateDuel
      /\ AdminRoutes[10].handler = EditDuelHandler
      /\ AdminRoutes[11].handler = AssignDuelToTournament
      /\ AdminRoutes[12].handler = ResolveDuel
  BY Entries DEF AdminRoutes, Limited
<1>4. /\ AdminRoutes[13].handler = ApproveDuelHandler
      /\ AdminRoutes[14].handler = CancelDuel
      /\ AdminRoutes[15].handler = CreateDuelEntity
      /\ AdminRoutes[16].handler = CreateDuelSubtopic
      /\ AdminRoutes[17].handler = UpdateDuelEntity
      /\ AdminRoutes[18].handler = UpdateDuelSubtopic
  BY Entries DEF AdminRoutes, Limited
<1>5. /\ AdminRoutes[19].handler = GetModeratorStats
  BY Entries DEF AdminRoutes, Limited
<1>6. ~(AdminRoutes[1].layer = "route") /\ ~(AdminRoutes[2].layer = "route")
  BY <1>2
<1>7. RouteGuarded(AdminRoutes, 3)
  BY <1>2, AdminRoutesHandlers, ModeratorsRow
<1>8. RouteGuarded(AdminRoutes, 4)
  BY <1>2, AdminRoutesHandlers, ModeratorsRow
<1>9. RouteGuarded(AdminRoutes, 5)
  BY <1>2, AdminRoutesHandlers, ModeratorsRow
<1>10. RouteGuarded(AdminRoutes, 6)
  BY <1>2, AdminRoutesHandlers, ModeratorsRow
<1>11. RouteGuarded(AdminRoutes, 7)
  BY <1>2, <1>3, AdminRoutesHandlers, ModeratorsRow
<1>12. RouteGuarded(AdminRoutes, 8)
  BY <1>2, <1>3, AdminRoutesHandlers, ModeratorsRow
<1>13. RouteGuarded(AdminRoutes, 9)
  BY <1>2, <1>3, AdminRoutesHandlers, ModeratorsRow
<1>14. RouteGuarded(AdminRoutes, 10)
  BY <1>2, <1>3, AdminRoutesHandlers, ModeratorsRow
<1>15. RouteGuarded(AdminRoutes, 11)
  BY <1>2, <1>3, AdminRoutesHandlers, ModeratorsRow
<1>16. RouteGuarded(AdminRoutes, 12)
  BY <1>2, <1>3, AdminRoutesHandlers, ModeratorsRow
<1>17. RouteGuarded(AdminRoutes, 13)
  BY <1>2, <1>4, AdminRoutesHandlers, ModeratorsRow
<1>18. RouteGuarded(AdminRoutes, 14)
  BY <1>2, <1>4, AdminRoutesHandlers, ModeratorsRow
<1>19. RouteGuarded(AdminRoutes, 15)
  BY <1>2, <1>4, AdminRoutesHandlers, ModeratorsRow
<1>20. RouteGuarded(AdminRoutes, 16)
  BY <1>2, <1>4, AdminRoutesHandlers, ModeratorsRow
<1>21. RouteGuarded(AdminRoutes, 17)
  BY <1>2, <1>4, AdminRoutesHandlers, ModeratorsRow
<1>22. RouteGuarded(AdminRoutes, 18)
  BY <1>2, <1>4, AdminRoutesHandlers, ModeratorsRow
<1>23. RouteGuarded(AdminRoutes, 19)
  BY <1>2, <1>5, AdminRoutesHandlers, ModeratorsRow
<1>24. ASSUME NEW i \in 1..19, AdminRoutes[i].layer = "route"
      PROVE  RouteGuarded(AdminRoutes, i)
  BY <1>6, <1>24, <1>7, <1>8, <1>9, <1>10, <1>11, <1>12, <1>13, <1>14, <1>15, <1>16, <1>17,
     <1>18, <1>19, <1>20, <1>21, <1>22, <1>23
<1> QED BY <1>1, <1>24 DEF TableGuarded

LEMMA UserRoutesGuarded == TableGuarded(UserRoutes)
<1>1. DOMAIN UserRoutes = 1..6
  BY DEF UserRoutes
<1>2. /\ UserRoutes[1].handler = FindUserByUsername
      /\ UserRoutes[2].layer = "auth"
      /\ UserRoutes[3].handler = GetUser
      /\ UserRoutes[4].handler = EditUser
      /\ UserRoutes[5].handler = SetProfilePicture
      /\ UserRoutes[6].handler = ChangeUsernameHandler
  BY Entries DEF UserRoutes, Limited
<1>3. ~(UserRoutes[2].layer = "route")
  BY <1>2
<1>4. RouteGuarded(UserRoutes, 1)
  BY <1>2, UserRoutesHandlers, AnyonesRow
<1>5. RouteGuarded(UserRoutes, 3)
  BY <1>2, UserRoutesHandlers, UsersRow
<1>6. RouteGuarded(UserRoutes, 4)
  BY <1>2, UserRoutesHandlers, UsersRow
<1>7. RouteGuarded(UserRoutes, 5)
  BY <1>2, UserRoutesHandlers, UsersRow
<1>8. RouteGuarded(UserRoutes, 6)
  BY <1>2, UserRoutesHandlers, UsersRow
<1>9. ASSUME NEW i \in 1..6, UserRoutes[i].layer = "route"
      PROVE  RouteGuarded(UserRoutes, i)
  BY <1>3, <1>9, <1>4, <1>5, <1>6, <1>7, <1>8
<1> QED BY <1>1, <1>9 DEF TableGuarded

LEMMA WalletRoutesGuarded == TableGuarded(WalletRoutes)
<1>1. DOMAIN WalletRoutes = 1..10
  BY DEF WalletRoutes
<1>2. /\ WalletRoutes[1].layer = "auth"
      /\ WalletRoutes[2].handler = ShowWallet
      /\ WalletRoutes[3].handler = TransferHandler
      /\ WalletRoutes[4].handler = TransferDuckPointsHandler
      /\ WalletRoutes[5].handler = DuckPointsTransferHistoryHandler
      /\ WalletRoutes[6].handler = SwapCurrencies
  BY Entries DEF WalletRoutes, Limited
<1>3. /\ WalletRoutes[7].handler = GetUserWalletTokens
      /\ WalletRoutes[8].handler = AddTokenHandler
      /\ WalletRoutes[9].handler = EditUserWalletToken
      /\ WalletRoutes[10].handler = RemoveTokenHandler
  BY Entries DEF WalletRoutes, Limited
<1>4. ~(WalletRoutes[1].layer = "route")
  BY <1>2
<1>5. RouteGuarded(WalletRoutes, 2)
  BY <1>2, WalletRoutesHandlers, UsersRow
<1>6. RouteGuarded(WalletRoutes, 3)
  BY <1>2, WalletRoutesHandlers, UsersRow
<1>7. RouteGuarded(WalletRoutes, 4)
  BY <1>2, WalletRoutesHandlers, UsersRow
<1>8. RouteGuarded(WalletRoutes, 5)
  BY <1>2, WalletRoutesHandlers, UsersRow
<1>9. RouteGuarded(WalletRoutes, 6)
  BY <1>2, WalletRoutesHandlers, UsersRow
<1>10. RouteGuarded(WalletRoutes, 7)
  BY <1>2, <1>3, WalletRoutesHandlers, UsersRow
<1>11. RouteGuarded(WalletRoutes, 8)
  BY <1>2, <1>3, WalletRoutesHandlers, UsersRow
<1>12. RouteGuarded(WalletRoutes, 9)
  BY <1>2, <1>3, WalletRoutesHandlers, UsersRow
<1>13. RouteGuarded(WalletRoutes, 10)
  BY <1>2, <1>3, WalletRoutesHandlers, UsersRow
<1>14. ASSUME NEW i \in 1..10, WalletRoutes[i].layer = "route"
      PROVE  RouteGuarded(WalletRoutes, i)
  BY <1>4, <1>14, <1>5, <1>6, <1>7, <1>8, <1>9, <1>10, <1>11, <1>12, <1>13
<1> QED BY <1>1, <1>14 DEF TableGuarded

LEMMA TournamentRoutesGuarded == TableGuarded(TournamentRoutes)
<1>1. DOMAIN TournamentRoutes = 1..10
  BY DEF TournamentRoutes
<1>2. /\ TournamentRoutes[1].handler = Tournaments
      /\ TournamentRoutes[2].handler = RewardsHandler
      /\ TournamentRoutes[3].handler = LeaderboardHandler
      /\ TournamentRoutes[4].handler = OfferHandler
      /\ TournamentRoutes[5].layer = "auth"
      /\ TournamentRoutes[6].handler = TournamentRankHandler
  BY Entries DEF TournamentRoutes, Limited
<1>3. /\ TournamentRoutes[7].handler = UserTournamentsHandler
      /\ TournamentRoutes[8].layer = "admin"
      /\ TournamentRoutes[9].handler = CreateTournamentHandler
      /\ TournamentRoutes[10].handler = UpdateRewardsHandler
  BY Entries DEF TournamentRoutes, Limited
<1>4. ~(TournamentRoutes[5].layer = "route") /\ ~(TournamentRoutes[8].layer = "route")
  BY <1>2, <1>3
<1>5. RouteGuarded(TournamentRoutes, 1)
  BY <1>2, TournamentRoutesHandlers, AnyonesRow
<1>6. RouteGuarded(TournamentRoutes, 2)
  BY <1>2, TournamentRoutesHandlers, AnyonesRow
<1>7. RouteGuarded(TournamentRoutes, 3)
  BY <1>2, TournamentRoutesHandlers, AnyonesRow
<1>8. RouteGuarded(TournamentRoutes, 4)
  BY <1>2, ManyCalls, AnyonesRow
<1>9. RouteGuarded(TournamentRoutes, 6)
  BY <1>2, TournamentRoutesHandlers, UsersRow
<1>10. RouteGuarded(TournamentRoutes, 7)
  BY <1>2, <1>3, TournamentRoutesHandlers, UsersRow
<1>11. RouteGuarded(TournamentRoutes, 9)
  BY <1>2, <1>3, TournamentRoutesHandlers, ModeratorsRow
<1>12. RouteGuarded(TournamentRoutes, 10)
  BY <1>2, <1>3, TournamentRoutesHandlers, ModeratorsRow
<1>13. ASSUME NEW i \in 1..10, TournamentRoutes[i].layer = "route"
      PROVE  RouteGuarded(TournamentRoutes, i)
  BY <1>4, <1>13, <1>5, <1>6, <1>7, <1>8, <1>9, <1>10, <1>11, <1>12
<1> QED BY <1>1, <1>13 DEF TableGuarded

LEMMA CoinRoutesGuarded == TableGuarded(CoinRoutes)
<1>1. DOMAIN CoinRoutes = 1..4
  BY DEF CoinRoutes
<1>2. /\ CoinRoutes[1].handler = GetAllCoinsHandler
      /\ CoinRoutes[2].handler = GetSolanaPrice
      /\ CoinRoutes[3].handler = GetTokenByMint
      /\ CoinRoutes[4].handler = GetTokenByName
  BY Entries DEF CoinRoutes, Limited
<1>3. RouteGuarded(CoinRoutes, 1)
  BY <1>2, CoinRoutesHandlers, AnyonesRow
<1>4. RouteGuarded(CoinRoutes, 2)
  BY <1>2, CoinRoutesHandlers, AnyonesRow
<1>5. RouteGuarded(CoinRoutes, 3)
  BY <1>2, CoinRoutesHandlers, AnyonesRow
<1>6. RouteGuarded(CoinRoutes, 4)
  BY <1>2, CoinRoutesHandlers, AnyonesRow
<1>7. ASSUME NEW i \in 1..4, CoinRoutes[i].layer = "route"
      PROVE  RouteGuarded(CoinRoutes, i)
  BY <1>7, <1>3, <1>4, <1>5, <1>6
<1> QED BY <1>1, <1>7 DEF TableGuarded

LEMMA GroupsGuarded ==
  /\ DOMAIN Groups = 1..11
  /\ \A g \in DOMAIN Groups : TableGuarded(Groups[g])
<1>1. DOMAIN Groups = 1..11
  BY DEF Groups
<1>2. ASSUME NEW g \in 1..11 PROVE TableGuarded(Groups[g])
  BY AuthRoutesGuarded, CryptoDuelRoutesGuarded, DuelRoutesGuarded, TaskRoutesGuarded,
         FAQRoutesGuarded, StatsRoutesGuarded, AdminRoutesGuarded, UserRoutesGuarded,
         WalletRoutesGuarded, TournamentRoutesGuarded, CoinRoutesGuarded DEF Groups
<1> QED BY <1>1, <1>2

-----------------------------------------------------------------------------
(* A request between its layers *)

VisitRow ==
    [pc : {"idle", "layers", "code", "claims", "calling"}, group : DOMAIN Groups,
     target : Nat, at : Nat, token : TokenClaims \cup {NoClaims},
     claims : TokenClaims \cup {NoClaims}, caller : {"nobody", "user", "anonymous"},
     who : Clients \cup {NoClient}, step : Nat, told : Nat, was : BOOLEAN, proved : BOOLEAN]

OnRoute(v) ==
    v.pc # "idle" =>
        v.who \in Clients /\ v.target \in DOMAIN Groups[v.group] /\ Route(v).layer = "route"

\* claims are the token's
Claimed(v) ==
    /\ v.claims \in {NoClaims, v.token}
    /\ v.caller = "user" => v.claims = v.token /\ v.token # NoClaims

\* the role is noticed whenever it is there
Noticed(v, admins) == v.pc # "idle" /\ v.token.user \in admins => v.was

\* what a layer leaves behind
Left(v, layer) ==
    /\ layer = "auth" => v.caller = "user"
    /\ layer = "faq" => v.caller # "nobody"
    /\ layer = "admin" => v.was /\ v.claims.user = v.token.user

LayersBehind(v) ==
    v.pc # "idle" =>
        \A j \in 1..(v.target - 1) : j <= v.at => Left(v, Groups[v.group][j].layer)

\* a handler runs with every layer ahead of its route behind it
AllBehind(v) ==
    v.pc \in {"code", "claims", "calling"} =>
        \A j \in 1..(v.target - 1) : Groups[v.group][j].layer # "route" => j <= v.at

Stepping(v) ==
    /\ v.pc \in {"claims", "calling"} /\ HandlerOf(v).mail => v.proved
    /\ v.pc = "calling" => v.step \in 1..Len(HandlerOf(v).calls)

Sound(v, admins) ==
    /\ v \in VisitRow
    /\ OnRoute(v) /\ Claimed(v) /\ Noticed(v, admins)
    /\ LayersBehind(v) /\ AllBehind(v) /\ Stepping(v)

ApiInv == admin \subseteq Clients /\ held \subseteq TokenClaims /\ Sound(visit, admin)

-----------------------------------------------------------------------------
LEMMA FirstAhead ==
  ASSUME NEW S \in SUBSET Nat, S # {}
  PROVE  Min(S) \in S /\ \A m \in S : Min(S) <= m
<1>1. PICK n \in S : \A m \in S : ~ (<<m, n>> \in OpToRel(<, Nat))
  BY NatLessThanWellFounded, WFMin, Zenon
<1>2. ASSUME NEW m \in S PROVE n <= m
  <2>1. ~ (m < n)
    BY <1>1 DEF OpToRel
  <2> QED BY <2>1
<1>3. \E x \in S : \A y \in S : x =< y
  BY <1>2
<1> QED BY <1>3 DEF Min

LEMMA NoOne == NoClaims.user = NoClient /\ \A t \in TokenClaims : t.user \in Clients /\ t #
       NoClaims
BY ApiAssumption DEF NoClaims, TokenClaims

\* No request is under way.
LEMMA Rests ==
  ASSUME NEW n \in Nat, NEW admins
  PROVE  Sound([NoVisit EXCEPT !.told = n], admins)
<1>1. PICK v : v = [NoVisit EXCEPT !.told = n]
  OBVIOUS
<1>2. v = [pc |-> "idle", group |-> 1, target |-> 1, at |-> 0, token |-> NoClaims,
           claims |-> NoClaims, caller |-> "nobody", who |-> NoClient, step |-> 0,
           told |-> n, was |-> FALSE, proved |-> FALSE]
  BY <1>1 DEF NoVisit
<1>3. 1 \in DOMAIN Groups
  BY GroupsGuarded
<1>4. v \in VisitRow
  BY <1>2, <1>3 DEF VisitRow
<1>5. v.pc = "idle" /\ v.claims = NoClaims /\ v.caller = "nobody"
  BY <1>2
<1>6. Sound(v, admins)
  BY <1>4, <1>5 DEF Sound, OnRoute, Claimed, Noticed, LayersBehind, AllBehind, Stepping
<1> QED BY <1>1, <1>6

LEMMA RoleStep ==
  ASSUME ApiInv, NEW u \in Clients, RoleChanges(u)
  PROVE  ApiInv'
<1>1. PICK v \in VisitRow : v = visit
  BY DEF ApiInv, Sound
<1>2. PICK more \in SUBSET Clients : more = admin'
  BY DEF ApiInv, RoleChanges
<1>3. PICK saw \in BOOLEAN : saw = (v.was \/ (v.token.user = u /\ u \in more))
  OBVIOUS
<1>4. PICK w : w = [v EXCEPT !.was = saw]
  OBVIOUS
<1>5. visit' = w
  BY <1>1, <1>2, <1>3, <1>4 DEF RoleChanges
<1>6. /\ w \in VisitRow /\ w.pc = v.pc /\ w.group = v.group /\ w.target = v.target /\ w.at = v.at
      /\ w.token = v.token /\ w.who = v.who /\ w.claims = v.claims /\ w.caller = v.caller
      /\ w.step = v.step
      /\ w.proved = v.proved /\ w.was = saw
  BY <1>4 DEF VisitRow
<1>7. Sound(v, admin)
  BY <1>1 DEF ApiInv
<1>8. \A x \in more : x \in admin \/ x = u
  BY <1>2 DEF RoleChanges
<1>9. Noticed(w, more)
  BY <1>3, <1>6, <1>7, <1>8 DEF Sound, Noticed
<1>10. OnRoute(w) /\ Claimed(w) /\ LayersBehind(w) /\ AllBehind(w) /\ Stepping(w)
  <2>1. v.was => saw
    BY <1>3
  <2>2. LayersBehind(w)
    BY <1>6, <1>7, <2>1 DEF Sound, LayersBehind, Left
  <2> QED
    BY <1>6, <1>7, <2>2 DEF Sound, OnRoute, Claimed, AllBehind, Stepping, HandlerOf, Route
<1>11. Sound(w, more)
  BY <1>6, <1>9, <1>10 DEF Sound
<1> QED BY <1>2, <1>5, <1>11 DEF ApiInv, RoleChanges

LEMMA Arrival ==
  ASSUME ApiInv, NEW g \in DOMAIN Groups, NEW i \in DOMAIN Groups[g],
         NEW t \in held \cup {NoClaims},
         NEW u \in Clients, UserArrives(g, i, t, u)
  PROVE  ApiInv'
<1>1. PICK saw \in BOOLEAN : saw = (t.user \in admin)
  <2>1. (t.user \in admin) \in BOOLEAN
    OBVIOUS
  <2> QED BY <2>1, Zenon
<1>2. PICK w : w = [NoVisit EXCEPT !.pc = "layers", !.group = g, !.target = i, !.token = t,
                                   !.who = u, !.was = saw]
  OBVIOUS
<1>3. w = [pc |-> "layers", group |-> g, target |-> i, at |-> 0, token |-> t,
           claims |-> NoClaims, caller |-> "nobody", who |-> u, step |-> 0,
           told |-> 200, was |-> saw, proved |-> FALSE]
  BY <1>2 DEF NoVisit
<1>4. i \in Nat
  <2>1. \A h \in 1..11 : DOMAIN Groups[h] \subseteq Nat
    BY DEF Groups, AuthRoutes, CryptoDuelRoutes, DuelRoutes, TaskRoutes, FAQRoutes, StatsRoutes,
           AdminRoutes, UserRoutes, WalletRoutes, TournamentRoutes, CoinRoutes
  <2> QED BY <2>1, GroupsGuarded
<1>5. t \in TokenClaims \cup {NoClaims}
  BY DEF ApiInv
<1>6. w \in VisitRow
  BY <1>3, <1>4, <1>5 DEF VisitRow
<1>7. /\ w.pc = "layers" /\ w.group = g /\ w.target = i /\ w.at = 0 /\ w.token = t /\ w.who = u
      /\ w.claims = NoClaims /\ w.caller = "nobody" /\ w.was = saw
  BY <1>3
<1>8. Groups[g][i].layer = "route" /\ visit' = w /\ UNCHANGED <<admin, held>>
  BY <1>1, <1>2 DEF UserArrives
<1>9. OnRoute(w) /\ Claimed(w) /\ Noticed(w, admin) /\ AllBehind(w) /\ Stepping(w)
  BY <1>1, <1>7, <1>8 DEF OnRoute, Claimed, Noticed, AllBehind, Stepping, Route
<1>10. LayersBehind(w)
  <2>1. \A j \in 1..(i - 1) : ~(j <= 0)
    BY <1>4
  <2> QED BY <1>7, <2>1 DEF LayersBehind
<1>11. Sound(w, admin)
  BY <1>6, <1>9, <1>10 DEF Sound
<1> QED BY <1>8, <1>11 DEF ApiInv

\* Where a request is after a layer.
LEMMA PastLayer ==
  ASSUME NEW v \in VisitRow, v.at # v.target, NEW layer, LayersOf(v) = <<layer>>,
         v.target \in DOMAIN Groups[v.group]
  PROVE  /\ Past(v) = [v EXCEPT !.at = Past(v).at] /\ Past(v).at \in Nat
         /\ \A j \in 1..(v.target - 1) :
               j <= Past(v).at =>
                  j <= v.at \/ Groups[v.group][j].layer \in {"route", layer}
<1>1. CASE Ahead(v) = {}
  <2>1. Past(v) = [v EXCEPT !.at = v.target]
    BY <1>1 DEF Past
  <2>2. Past(v).at = v.target /\ v.target \in Nat
    BY <2>1 DEF VisitRow
  <2>3. \A j \in 1..(v.target - 1) : j <= v.at \/ Groups[v.group][j].layer = "route"
    BY <1>1 DEF Ahead, VisitRow
  <2> QED BY <2>1, <2>2, <2>3
<1>2. CASE Ahead(v) # {}
  <2>1. Ahead(v) \in SUBSET Nat
    BY DEF Ahead, VisitRow
  <2>2. PICK m : m = Min(Ahead(v))
    OBVIOUS
  <2>3. m \in Ahead(v) /\ \A n \in Ahead(v) : m <= n
    BY <1>2, <2>1, <2>2, FirstAhead
  <2>4. Past(v) = [v EXCEPT !.at = m]
    BY <1>2, <2>2 DEF Past
  <2>5. Past(v).at = m /\ m \in Nat
    BY <2>1, <2>3, <2>4 DEF VisitRow
  <2>6. <<Groups[v.group][m].layer>> = <<layer>>
    BY <1>2, <2>2 DEF LayersOf
  <2>7. Groups[v.group][m].layer = layer
    BY <2>6
  <2>8. ASSUME NEW j \in 1..(v.target - 1), j <= m
        PROVE  j <= v.at \/ Groups[v.group][j].layer \in {"route", layer}
    <3>1. ~(j <= v.at) /\ Groups[v.group][j].layer # "route" => j \in Ahead(v)
      BY DEF Ahead, VisitRow
    <3>2. j \in Ahead(v) => j = m
      BY <2>1, <2>3, <2>8
    <3> QED BY <2>7, <3>1, <3>2
  <2> QED BY <2>4, <2>5, <2>8
<1> QED BY <1>1, <1>2

\* A layer lets the request pass and leaves what it must.
LEMMA LayerPassed ==
  ASSUME NEW v, NEW w, NEW admins, NEW layer, Sound(v, admins),
         v.pc = "layers", v.at # v.target, LayersOf(v) = <<layer>>,
         NEW claims \in {NoClaims, v.token}, NEW caller \in {"nobody", "user", "anonymous"},
         w = [Past(v) EXCEPT !.claims = claims, !.caller = caller],
         Claimed(w), Left(w, layer),
         v.caller = "user" => caller = "user", v.caller # "nobody" => caller # "nobody",
         v.claims.user = v.token.user => claims.user = v.token.user
  PROVE  Sound(w, admins)
<1>1. v \in VisitRow /\ v.target \in DOMAIN Groups[v.group] /\ Route(v).layer = "route"
  BY DEF Sound, OnRoute
<1>2. PICK n : n = Past(v).at
  OBVIOUS
<1>3. /\ Past(v) = [v EXCEPT !.at = n] /\ n \in Nat
      /\ \A j \in 1..(v.target - 1) :
            j <= n => j <= v.at \/ Groups[v.group][j].layer \in {"route", layer}
  BY <1>1, <1>2, PastLayer
<1>4. w = [v EXCEPT !.at = n, !.claims = claims, !.caller = caller]
  BY <1>1, <1>3 DEF VisitRow
<1>5. /\ w \in VisitRow /\ w.pc = "layers" /\ w.group = v.group /\ w.target = v.target /\ w.at = n
      /\ w.token = v.token /\ w.who = v.who /\ w.claims = claims /\ w.caller = caller
      /\ w.was = v.was
  BY <1>1, <1>3, <1>4 DEF VisitRow
<1>6. OnRoute(w) /\ Noticed(w, admins) /\ AllBehind(w) /\ Stepping(w)
  BY <1>1, <1>5 DEF Sound, OnRoute, Noticed, AllBehind, Stepping, Route
<1>7. ASSUME NEW j \in 1..(v.target - 1), j <= n PROVE Left(w, Groups[v.group][j].layer)
  <2>1. CASE j <= v.at
    <3>1. Left(v, Groups[v.group][j].layer)
      BY <2>1 DEF Sound, LayersBehind
    <3> QED BY <1>5, <3>1 DEF Left
  <2>2. CASE Groups[v.group][j].layer = "route"
    BY <2>2 DEF Left
  <2>3. CASE Groups[v.group][j].layer = layer
    BY <2>3
  <2> QED BY <1>3, <1>7, <2>1, <2>2, <2>3
<1>8. LayersBehind(w)
  BY <1>5, <1>7 DEF LayersBehind
<1> QED BY <1>5, <1>6, <1>8 DEF Sound

LEMMA LayerSteps ==
  ASSUME ApiInv,
         AuthMiddleware \/ FAQLayer \/ CheckForAdminPermissions \/ LimitReached \/ LimitPassed
           \/ SignInWithGoogleMiddleware
  PROVE  ApiInv'
<1>1. PICK v \in VisitRow : v = visit
  BY DEF ApiInv, Sound
<1>2. Sound(v, admin) /\ admin \subseteq Clients /\ held \subseteq TokenClaims
  BY <1>1 DEF ApiInv
<1>3. /\ v.claims \in {NoClaims, v.token} /\ v.token \in TokenClaims \cup {NoClaims}
      /\ v.caller \in {"nobody", "user", "anonymous"}
      /\ v.caller = "user" => v.claims = v.token /\ v.token # NoClaims
  BY <1>2 DEF Sound, Claimed, VisitRow
<1>4. UNCHANGED <<admin, held>>
  BY DEF AuthMiddleware, FAQLayer, CheckForAdminPermissions, LimitReached, LimitPassed,
         SignInWithGoogleMiddleware
<1>5. ASSUME NEW n \in Nat, Answered(n) PROVE ApiInv'
  <2>1. visit' = [NoVisit EXCEPT !.told = n]
    BY <1>5 DEF Answered
  <2>2. Sound(visit', admin)
    BY <2>1, Rests
  <2> QED BY <1>2, <1>4, <2>2 DEF ApiInv
<1>6. ASSUME NEW layer, InLayer(layer), NEW claims \in {NoClaims, v.token},
             NEW caller \in {"nobody", "user", "anonymous"},
             visit' = [Past(v) EXCEPT !.claims = claims, !.caller = caller],
             caller = "user" => claims = v.token /\ v.token # NoClaims,
             layer = "auth" => caller = "user", layer = "faq" => caller # "nobody",
             layer = "admin" => v.was /\ claims.user = v.token.user,
             v.caller = "user" => caller = "user", v.caller # "nobody" => caller # "nobody",
             v.claims.user = v.token.user => claims.user = v.token.user
      PROVE  ApiInv'
  <2>1. v.pc = "layers" /\ v.at # v.target /\ LayersOf(v) = <<layer>>
    BY <1>1, <1>6 DEF InLayer
  <2>2. PICK w : w = [Past(v) EXCEPT !.claims = claims, !.caller = caller]
    OBVIOUS
  <2>3. PICK n : n = Past(v).at
    OBVIOUS
  <2>4. v.target \in DOMAIN Groups[v.group]
    BY <1>2, <2>1 DEF Sound, OnRoute
  <2>5. Past(v) = [v EXCEPT !.at = n]
    BY <2>1, <2>3, <2>4, PastLayer
  <2>6. w.claims = claims /\ w.caller = caller /\ w.token = v.token /\ w.was = v.was
    BY <2>2, <2>5 DEF VisitRow
  <2>7. Claimed(w)
    BY <1>6, <2>6 DEF Claimed
  <2>8. Left(w, layer)
    BY <1>6, <2>6 DEF Left
  <2>9. Sound(w, admin)
    BY <1>2, <1>6, <2>1, <2>2, <2>7, <2>8, LayerPassed
  <2> QED BY <1>2, <1>4, <1>6, <2>2, <2>9 DEF ApiInv
<1>7. ASSUME NEW layer, layer \notin {"auth", "faq"}, InLayer(layer), visit' = Past(v),
             layer = "admin" => v.was /\ v.claims.user = v.token.user
      PROVE  ApiInv'
  <2>1. v.pc = "layers" /\ v.at # v.target /\ LayersOf(v) = <<layer>>
    BY <1>1, <1>7 DEF InLayer
  <2>2. v.target \in DOMAIN Groups[v.group]
    BY <1>2, <2>1 DEF Sound, OnRoute
  <2>3. PICK n : n = Past(v).at
    OBVIOUS
  <2>4. Past(v) = [v EXCEPT !.at = n]
    BY <2>1, <2>2, <2>3, PastLayer
  <2>5. Past(v) = [Past(v) EXCEPT !.claims = v.claims, !.caller = v.caller]
    BY <2>4 DEF VisitRow
  <2> QED BY <1>3, <1>6, <1>7, <2>5
<1>8. CASE AuthMiddleware
  <2>1. CASE visit.token = NoClaims
    BY <1>5, <1>8, <2>1 DEF AuthMiddleware
  <2>2. CASE visit.token # NoClaims
    <3>1. visit' = [Past(v) EXCEPT !.claims = v.token, !.caller = "user"] /\ InLayer("auth")
      BY <1>1, <1>8, <2>2 DEF AuthMiddleware
    <3> QED BY <1>1, <1>6, <2>2, <3>1
  <2> QED BY <2>1, <2>2
<1>9. CASE FAQLayer
  <2>1. CASE visit.token # NoClaims
    <3>1. visit' = [Past(v) EXCEPT !.claims = v.token, !.caller = "user"] /\ InLayer("faq")
      BY <1>1, <1>9, <2>1 DEF FAQLayer
    <3> QED BY <1>1, <1>6, <2>1, <3>1
  <2>2. CASE visit.token = NoClaims /\ visit' = [Past(visit) EXCEPT !.caller = "anonymous"]
    <3>1. InLayer("faq") /\ v.caller # "user"
      BY <1>1, <1>3, <1>9, <2>2 DEF FAQLayer
    <3>2. v.at # v.target /\ LayersOf(v) = <<"faq">> /\ v.pc = "layers"
      BY <1>1, <3>1 DEF InLayer
    <3>3. v.target \in DOMAIN Groups[v.group]
      BY <1>2, <3>2 DEF Sound, OnRoute
    <3>4. PICK n : n = Past(v).at
      OBVIOUS
    <3>5. Past(v) = [v EXCEPT !.at = n]
      BY <3>2, <3>3, <3>4, PastLayer
    <3>6. visit' = [Past(v) EXCEPT !.claims = v.claims, !.caller = "anonymous"]
      BY <1>1, <2>2, <3>5 DEF VisitRow
    <3>7. PICK caller : caller = "anonymous"
      OBVIOUS
    <3>8. caller \in {"nobody", "user", "anonymous"} /\ caller # "user" /\ caller # "nobody"
      BY <3>7
    <3>10. PICK claims \in {NoClaims, v.token} : claims = v.claims
      BY <1>3
    <3>9. visit' = [Past(v) EXCEPT !.claims = claims, !.caller = caller]
      BY <3>6, <3>7, <3>10
    <3>11. PICK layer : layer = "faq"
      OBVIOUS
    <3>12. InLayer(layer) /\ layer # "auth" /\ layer # "admin"
      BY <3>1, <3>11
    <3>13. v.claims.user = v.token.user => claims.user = v.token.user
      BY <3>10
    <3>14. v.caller # "user"
      BY <3>1
    <3> HIDE DEF InLayer
    <3> QED BY <1>6, <3>8, <3>9, <3>12, <3>13, <3>14
  <2>3. CASE \E status \in {401, 500} : Answered(status)
    BY <1>5, <2>3
  <2> QED BY <1>9, <2>1, <2>2, <2>3 DEF FAQLayer
<1>10. CASE CheckForAdminPermissions
  <2>1. CASE PermittedAdmin(visit) /\ visit' = Past(visit)
    <3>1. v.claims.user \in Clients /\ v.claims.user \in admin
      BY <1>1, <1>2, <2>1 DEF PermittedAdmin
    <3>2. v.claims # NoClaims
      BY <3>1, NoOne, ApiAssumption
    <3>3. v.claims = v.token
      BY <1>3, <3>2
    <3>4. v.pc # "idle" /\ InLayer("admin")
      BY <1>1, <1>10 DEF CheckForAdminPermissions, InLayer
    <3>5. v.was
      BY <1>2, <3>1, <3>3, <3>4 DEF Sound, Noticed
    <3> QED BY <1>1, <1>7, <2>1, <3>3, <3>4, <3>5
  <2>2. CASE Answered(401)
    BY <1>5, <2>2
  <2> QED BY <1>10, <2>1, <2>2 DEF CheckForAdminPermissions
<1>11. CASE LimitReached
  BY <1>5, <1>11 DEF LimitReached
<1>12. CASE LimitPassed
  BY <1>1, <1>7, <1>12 DEF LimitPassed
<1>13. CASE SignInWithGoogleMiddleware
  <2>1. CASE visit' = Past(visit)
    BY <1>1, <1>7, <1>13, <2>1 DEF SignInWithGoogleMiddleware
  <2>2. CASE Answered(401)
    BY <1>5, <2>2
  <2> QED BY <1>13, <2>1, <2>2 DEF SignInWithGoogleMiddleware
<1> QED BY <1>8, <1>9, <1>10, <1>11, <1>12, <1>13

\* The handler: its place changes, and what it has proved.
LEMMA HandlerMoves ==
  ASSUME NEW v, NEW admins, Sound(v, admins), AllBehind([v EXCEPT !.pc = "claims"]),
         v.pc # "idle", NEW pc \in {"code", "claims", "calling"}, NEW step \in Nat,
         NEW proved \in BOOLEAN,
         pc \in {"claims", "calling"} /\ HandlerOf(v).mail => proved,
         pc = "calling" => step \in 1..Len(HandlerOf(v).calls),
         NEW w, w = [v EXCEPT !.pc = pc, !.step = step, !.proved = proved]
  PROVE  Sound(w, admins)
<1>1. v \in VisitRow
  BY DEF Sound
<1>2. /\ w \in VisitRow /\ w.pc = pc /\ w.group = v.group /\ w.target = v.target /\ w.at = v.at
      /\ w.token = v.token /\ w.who = v.who /\ w.claims = v.claims /\ w.caller = v.caller
      /\ w.was = v.was
      /\ w.step = step /\ w.proved = proved
  BY <1>1 DEF VisitRow
<1>3. PICK x : x = [v EXCEPT !.pc = "claims"]
  OBVIOUS
<1>4. x.pc = "claims" /\ x.group = v.group /\ x.target = v.target /\ x.at = v.at /\ AllBehind(x)
  BY <1>1, <1>3 DEF VisitRow
<1>5. AllBehind(w)
  BY <1>2, <1>4 DEF AllBehind
<1>6. OnRoute(w) /\ Claimed(w) /\ Noticed(w, admins) /\ LayersBehind(w)
  <2>1. LayersBehind(w)
    BY <1>2 DEF Sound, LayersBehind, Left
  <2> QED BY <1>2, <2>1 DEF Sound, OnRoute, Claimed, Noticed, Route
<1>7. Stepping(w)
  BY <1>2 DEF Stepping, HandlerOf, Route
<1> QED BY <1>2, <1>5, <1>6, <1>7 DEF Sound

\* The route of a request under way is guarded.
LEMMA RouteOf ==
  ASSUME NEW v, NEW admins, Sound(v, admins), v.pc # "idle"
  PROVE  /\ RouteGuarded(Groups[v.group], v.target) /\ v.target \in Nat
         /\ HandlerOf(v) = Groups[v.group][v.target].handler
         /\ Len(HandlerOf(v).calls) \in Nat \ {0}
<1>1. /\ v.group \in DOMAIN Groups /\ v.target \in DOMAIN Groups[v.group] /\ v.target \in Nat
      /\ Groups[v.group][v.target].layer = "route"
  BY DEF Sound, OnRoute, VisitRow, Route
<1>2. TableGuarded(Groups[v.group])
  BY <1>1, GroupsGuarded
<1>3. RouteGuarded(Groups[v.group], v.target)
  BY <1>1, <1>2 DEF TableGuarded
<1> QED BY <1>1, <1>3 DEF RouteGuarded, HandlerOf, Route, Serves

LEMMA HandlerSteps ==
  ASSUME ApiInv, Bind \/ CheckUsersEmailCode \/ TakeClaims \/ CallRefused \/ CallReturns
  PROVE  ApiInv'
<1>1. PICK v \in VisitRow : v = visit
  BY DEF ApiInv, Sound
<1>2. Sound(v, admin) /\ admin \subseteq Clients /\ held \subseteq TokenClaims
  BY <1>1 DEF ApiInv
<1>3. v.step \in Nat /\ v.proved \in BOOLEAN /\ v.pc # "idle"
  BY <1>1 DEF VisitRow, Bind, CheckUsersEmailCode, TakeClaims, CallRefused, CallReturns
<1>4. ASSUME NEW n \in Nat, Answered(n) PROVE Sound(visit', admin)
  <2>1. visit' = [NoVisit EXCEPT !.told = n]
    BY <1>4 DEF Answered
  <2> QED BY <2>1, Rests
<1>5. ASSUME NEW w, visit' = w, Sound(w, admin), UNCHANGED <<admin, held>> PROVE ApiInv'
  BY <1>2, <1>5 DEF ApiInv
<1>6. v.pc \in {"code", "claims", "calling"} => AllBehind([v EXCEPT !.pc = "claims"])
  <2>1. PICK x : x = [v EXCEPT !.pc = "claims"]
    OBVIOUS
  <2>2. x.pc = "claims" /\ x.group = v.group /\ x.target = v.target /\ x.at = v.at
    BY <2>1 DEF VisitRow
  <2>3. v.pc \in {"code", "claims", "calling"} => AllBehind(x)
    BY <1>2, <2>2 DEF Sound, AllBehind
  <2> QED BY <2>1, <2>3
<1>7. CASE Bind
  <2>1. UNCHANGED <<admin, held>> /\ v.pc = "layers"
    BY <1>1, <1>7 DEF Bind
  <2>2. CASE Answered(400)
    BY <1>4, <1>5, <2>1, <2>2
  <2>3. CASE visit' = [visit EXCEPT !.pc = IF HandlerOf(visit).mail THEN "code" ELSE "claims"]
    <3>1. PICK pc : pc = IF HandlerOf(v).mail THEN "code" ELSE "claims"
      OBVIOUS
    <3>2. pc \in {"code", "claims"} /\ (pc = "claims" => ~HandlerOf(v).mail)
      BY <3>1
    <3>3. PICK w : w = [v EXCEPT !.pc = pc, !.step = v.step, !.proved = v.proved]
      OBVIOUS
    <3>4. visit' = w
      BY <1>1, <2>3, <3>1, <3>3 DEF VisitRow
    <3>5. v.at = v.target \/ Ahead(v) = {}
      <4>1. v.at = v.target \/ LayersOf(v) = <<>>
        BY <1>1, <1>7 DEF Bind
      <4>2. Ahead(v) # {} => LayersOf(v) # <<>>
        BY DEF LayersOf
      <4> QED BY <4>1, <4>2
    <3>6. \A j \in 1..(v.target - 1) : Groups[v.group][j].layer # "route" => j <= v.at
      BY <3>5 DEF Ahead, VisitRow
    <3>7. AllBehind([v EXCEPT !.pc = "claims"])
      <4>1. PICK x : x = [v EXCEPT !.pc = "claims"]
        OBVIOUS
      <4>2. x.group = v.group /\ x.target = v.target /\ x.at = v.at
        BY <4>1 DEF VisitRow
      <4>3. AllBehind(x)
        BY <3>6, <4>2 DEF AllBehind
      <4> QED BY <4>1, <4>3
    <3>8. Sound(w, admin)
      BY <1>2, <1>3, <3>2, <3>3, <3>7, HandlerMoves
    <3> QED BY <1>5, <2>1, <3>4, <3>8
  <2> QED BY <1>7, <2>2, <2>3 DEF Bind
<1>8. CASE CheckUsersEmailCode
  <2>1. UNCHANGED <<admin, held>> /\ v.pc = "code"
    BY <1>1, <1>8 DEF CheckUsersEmailCode
  <2>2. CASE visit' = [visit EXCEPT !.pc = "claims", !.proved = TRUE]
    <3>1. PICK w : w = [v EXCEPT !.pc = "claims", !.step = v.step, !.proved = TRUE]
      OBVIOUS
    <3>2. visit' = w
      BY <1>1, <2>2, <3>1 DEF VisitRow
    <3>3. Sound(w, admin)
      BY <1>2, <1>3, <1>6, <2>1, <3>1, HandlerMoves
    <3> QED BY <1>5, <2>1, <3>2, <3>3
  <2>3. CASE Answered(401)
    BY <1>4, <1>5, <2>1, <2>3
  <2> QED BY <1>8, <2>2, <2>3 DEF CheckUsersEmailCode
<1>9. CASE TakeClaims
  <2>1. UNCHANGED <<admin, held>> /\ v.pc = "claims"
    BY <1>1, <1>9 DEF TakeClaims
  <2>2. CASE Answered(401)
    BY <1>4, <1>5, <2>1, <2>2
  <2>3. CASE visit' = [visit EXCEPT !.pc = "calling", !.step = 1]
    <3>1. PICK w : w = [v EXCEPT !.pc = "calling", !.step = 1, !.proved = v.proved]
      OBVIOUS
    <3>2. visit' = w
      BY <1>1, <2>3, <3>1 DEF VisitRow
    <3>3. 1 \in 1..Len(HandlerOf(v).calls)
      BY <1>2, <1>3, RouteOf
    <3>4. HandlerOf(v).mail => v.proved
      BY <1>2, <2>1 DEF Sound, Stepping
    <3>5. Sound(w, admin)
      BY <1>2, <1>3, <1>6, <2>1, <3>1, <3>3, <3>4, HandlerMoves
    <3> QED BY <1>5, <2>1, <3>2, <3>5
  <2> QED BY <1>9, <2>2, <2>3 DEF TakeClaims
<1>10. CASE CallRefused
  <2>1. UNCHANGED <<admin, held>> /\ \E status \in {400, 401, 404, 409, 500} : Answered(status)
    BY <1>10 DEF CallRefused
  <2> QED BY <1>4, <1>5, <2>1
<1>11. CASE CallReturns
  <2>1. v.pc = "calling" /\ UNCHANGED admin
    BY <1>1, <1>11 DEF CallReturns
  <2>2. held' \subseteq TokenClaims
    <3>1. PICK t : t = NewTokenClaimsByUser(visit.who)
      OBVIOUS
    <3>2. v.who \in Clients
      BY <1>2, <2>1 DEF Sound, OnRoute
    <3>3. t \in TokenClaims
      BY <1>1, <3>1, <3>2 DEF NewTokenClaimsByUser, TokenClaims
    <3>4. held' = held \cup {t} \/ held' = held
      BY <1>11, <3>1 DEF CallReturns
    <3> QED BY <1>2, <3>3, <3>4
  <2>3. CASE visit.step < Len(HandlerOf(visit).calls)
    <3>1. PICK w : w = [v EXCEPT !.pc = "calling", !.step = v.step + 1, !.proved = v.proved]
      OBVIOUS
    <3>2. visit' = w
      BY <1>1, <1>11, <2>1, <2>3, <3>1 DEF CallReturns, VisitRow
    <3>3. v.step + 1 \in 1..Len(HandlerOf(v).calls)
      BY <1>1, <1>2, <1>3, <2>3, RouteOf
    <3>4. HandlerOf(v).mail => v.proved
      BY <1>2, <2>1 DEF Sound, Stepping
    <3>6. PICK n \in Nat : n = v.step + 1
      BY <1>3
    <3>7. AllBehind([v EXCEPT !.pc = "claims"])
      BY <1>6, <2>1
    <3>8. w = [v EXCEPT !.pc = "calling", !.step = n, !.proved = v.proved]
      BY <3>1, <3>6
    <3>9. n \in 1..Len(HandlerOf(v).calls)
      BY <3>3, <3>6
    <3>5. Sound(w, admin)
      BY <1>2, <1>3, <3>4, <3>7, <3>8, <3>9, HandlerMoves
    <3> QED BY <1>2, <2>1, <2>2, <3>2, <3>5 DEF ApiInv
  <2>4. CASE ~(visit.step < Len(HandlerOf(visit).calls))
    <3>1. visit' = [NoVisit EXCEPT !.told = 200]
      BY <1>11, <2>4 DEF CallReturns
    <3>2. Sound(visit', admin)
      BY <3>1, Rests
    <3> QED BY <1>2, <2>1, <2>2, <3>2 DEF ApiInv
  <2> QED BY <2>3, <2>4
<1> QED BY <1>7, <1>8, <1>9, <1>10, <1>11

LEMMA ApiStart == ApiInit => ApiInv
<1> SUFFICES ASSUME ApiInit PROVE ApiInv
  OBVIOUS
<1>1. visit = [NoVisit EXCEPT !.told = 200]
  <2>1. PICK n : n = 200
    OBVIOUS
  <2>2. PICK v : v = [NoVisit EXCEPT !.told = n]
    OBVIOUS
  <2>3. v = [pc |-> "idle", group |-> 1, target |-> 1, at |-> 0, token |-> NoClaims,
             claims |-> NoClaims, caller |-> "nobody", who |-> NoClient, step |-> 0,
             told |-> n, was |-> FALSE, proved |-> FALSE]
    BY <2>2 DEF NoVisit
  <2>4. v = NoVisit
    BY <2>1, <2>3 DEF NoVisit
  <2> QED BY <2>1, <2>2, <2>4 DEF ApiInit
<1>2. Sound(visit, admin)
  BY <1>1, Rests
<1> QED BY <1>2 DEF ApiInit, ApiInv

LEMMA ApiStep == ApiInv /\ [ApiNext]_apiVars => ApiInv'
<1> SUFFICES ASSUME ApiInv, [ApiNext]_apiVars PROVE ApiInv'
  OBVIOUS
<1>1. ASSUME NEW u \in Clients, CodeExpires(u) PROVE ApiInv'
  BY <1>1 DEF ApiInv, CodeExpires
<1>2. ASSUME NEW t \in held, TokenExpires(t) PROVE ApiInv'
  BY <1>2 DEF ApiInv, TokenExpires
<1>3. CASE UNCHANGED apiVars
  BY <1>3 DEF ApiInv, apiVars
<1> QED
  BY <1>1, <1>2, <1>3, RoleStep, Arrival, LayerSteps, HandlerSteps DEF ApiNext

\* What the invariant says of a call, and of the claims a handler takes.
LEMMA Entitled == ApiInv => EntitledCalls
<1> SUFFICES ASSUME ApiInv PROVE EntitledCalls
  OBVIOUS
<1>1. PICK v \in VisitRow : v = visit
  BY DEF ApiInv, Sound
<1>2. Sound(v, admin)
  BY <1>1 DEF ApiInv
<1>3. ASSUME v.pc \in {"claims", "calling"}, NEW layer,
             \E j \in 1..(v.target - 1) : Groups[v.group][j].layer = layer, layer # "route"
      PROVE  Left(v, layer)
  BY <1>2, <1>3 DEF Sound, LayersBehind, AllBehind
<1>4. ASSUME v.pc = "calling", Op(v) \in ModeratorCalls
      PROVE  v.was /\ v.claims.user = v.token.user
  <2>1. RouteGuarded(Groups[v.group], v.target) /\ HandlerOf(v) =
         Groups[v.group][v.target].handler
    BY <1>2, <1>4, RouteOf
  <2>2. v.step \in 1..Len(HandlerOf(v).calls)
    BY <1>2, <1>4 DEF Sound, Stepping
  <2>3. ~Unprivileged(HandlerOf(v))
    BY <1>4, <2>2 DEF Unprivileged, Op
  <2>4. \E j \in 1..(v.target - 1) : Groups[v.group][j].layer = "admin"
    BY <2>1, <2>3 DEF RouteGuarded
  <2>5. Left(v, "admin")
    BY <1>3, <1>4, <2>4
  <2> QED BY <2>5 DEF Left
<1>5. ASSUME v.pc = "claims", HandlerOf(v).claims
      PROVE  \/ v.caller = "user" /\ v.claims = v.token
             \/ v.caller = "anonymous" /\ Groups[v.group] = FAQRoutes
  <2>1. RouteGuarded(Groups[v.group], v.target) /\ HandlerOf(v) =
         Groups[v.group][v.target].handler
    BY <1>2, <1>5, RouteOf
  <2>2. \/ \E j \in 1..(v.target - 1) : Groups[v.group][j].layer = "auth"
        \/ /\ Groups[v.group] = FAQRoutes
           /\ \E j \in 1..(v.target - 1) : Groups[v.group][j].layer = "faq"
    BY <1>5, <2>1 DEF RouteGuarded
  <2>3. Left(v, "auth") \/ (Groups[v.group] = FAQRoutes /\ Left(v, "faq"))
    BY <1>3, <1>5, <2>2
  <2>4. v.caller \in {"nobody", "user", "anonymous"} /\ (v.caller = "user" => v.claims = v.token)
    BY <1>2 DEF Sound, Claimed, VisitRow
  <2> QED BY <2>3, <2>4 DEF Left
<1>6. v.pc = "calling" /\ HandlerOf(v).mail => v.proved
  BY <1>2 DEF Sound, Stepping
<1> QED
  BY <1>1, <1>4, <1>5, <1>6 DEF EntitledCalls, CallsAreEntitled, ClaimsAreThere

\* A moderator's call is made only for a user whose row had the role during the request,
\* whatever his token says; a handler that takes claims has them; and a code sent by mail was
\* live when it was used: for any users, tokens and changes of roles, on every route
\* (RegisterRoutes, AuthMiddleware, CheckForAdminPermissions, FAQAuthMiddleware).
THEOREM OnlyWhoIsEntitled == ApiSpec => []EntitledCalls
<1>1. ApiSpec => []ApiInv
  BY ApiStart, ApiStep, PTL DEF ApiSpec
<1> QED
  BY <1>1, Entitled, PTL
-----------------------------------------------------------------------------
(* Types of sessions, links and requests *)

\* no link counts more reads than there were, a request's is one short
SeenAtMost(l) == l = NoLink \/ (l.code \in DOMAIN uses /\ l.reads <= uses[l.code].reads)
CountsRead(l) == l.code \in DOMAIN uses /\ l.reads < uses[l.code].reads

RequestTyped(r) ==
    /\ r.pc = "link" => CountsRead(r.read)
    /\ r.token \in 0..Len(tokens) /\ r.prev \in 0..Len(tokens)

SessionsTyped ==
    /\ now >= 1
    /\ \A t \in DOMAIN tokens : tokens[t].field >= 1
    /\ SeenAtMost(link)
    /\ \A h \in Handlers : RequestTyped(req[h])

\* reads are never taken back, tokens never forgotten
UsesGrow ==
    /\ DOMAIN uses \subseteq DOMAIN uses'
    /\ \A c \in DOMAIN uses : uses'[c].reads >= uses[c].reads

TokensGrow ==
    /\ Len(tokens') >= Len(tokens)
    /\ \A t \in DOMAIN tokens' : tokens'[t].field >= 1

LEMMA InitTyped == Init => SessionsTyped
<1> SUFFICES ASSUME Init PROVE SessionsTyped
  OBVIOUS
<1>1. Idle.pc = "idle" /\ Idle.token = 0 /\ Idle.prev = 0
  BY DEF Idle
<1>2. \A h \in Handlers : req[h] = Idle
  BY DEF Init
<1>3. Len(tokens) = 0 /\ DOMAIN tokens = {}
  BY DEF Init
<1> QED
  BY <1>1, <1>2, <1>3 DEF SessionsTyped, RequestTyped, SeenAtMost, Init

LEMMA ReadsAreNumbers ==
  ASSUME SessionsInv, SessionsInv'
  PROVE  /\ \A c \in DOMAIN uses : uses[c].reads \in Nat
         /\ \A c \in DOMAIN uses' : uses'[c].reads \in Nat
<1>1. PICK q \in Seq([reads : Nat, accepted : Nat]), p \in Seq([reads : Nat, accepted : Nat]) :
        q = uses /\ p = uses'
  BY DEF SessionsInv, Typed
<1>2. ASSUME NEW s \in Seq([reads : Nat, accepted : Nat]), NEW c \in DOMAIN s
      PROVE  s[c].reads \in Nat
  <2>1. ASSUME NEW S, NEW q1 \in Seq(S), NEW d \in DOMAIN q1 PROVE q1[d] \in S
    OBVIOUS
  <2>2. PICK x \in [reads : Nat, accepted : Nat] : x = s[c]
    BY <2>1, Zenon
  <2> QED
    BY <2>2
<1>3. (\A c \in DOMAIN q : q[c].reads \in Nat) /\ \A c \in DOMAIN p : p[c].reads \in Nat
  BY <1>2
<1> QED
  BY <1>1, <1>3

LEMMA RequestsStayTyped ==
  ASSUME SessionsInv, SessionsInv', UsesGrow, TokensGrow, NEW r \in Request, RequestTyped(r)
  PROVE  RequestTyped(r)'
<1>1. Len(tokens) \in Nat /\ Len(tokens') \in Nat /\ Len(tokens') >= Len(tokens)
  BY DEF SessionsInv, Typed, TokensGrow
<1>2. r.token \in 0..Len(tokens') /\ r.prev \in 0..Len(tokens')
  BY <1>1 DEF RequestTyped
<1>3. ASSUME r.pc = "link" PROVE CountsRead(r.read)'
  <2>1. /\ r.read.code \in DOMAIN uses /\ r.read.code \in DOMAIN uses'
        /\ r.read.reads < uses[r.read.code].reads
        /\ uses'[r.read.code].reads >= uses[r.read.code].reads
    BY <1>3 DEF RequestTyped, CountsRead, UsesGrow
  <2>2. /\ r.read.reads \in Nat /\ uses[r.read.code].reads \in Nat
        /\ uses'[r.read.code].reads \in Nat
    BY <2>1, ReadsAreNumbers DEF Request, Link
  <2> QED
    BY <2>1, <2>2 DEF CountsRead
<1> QED
  BY <1>2, <1>3 DEF RequestTyped

LEMMA LinksStaySeen ==
  ASSUME SessionsInv, SessionsInv', UsesGrow, NEW l \in Link, SeenAtMost(l)
  PROVE  SeenAtMost(l)'
<1>1. CASE l = NoLink
  BY <1>1 DEF SeenAtMost
<1>2. CASE l # NoLink
  <2>1. /\ l.code \in DOMAIN uses /\ l.code \in DOMAIN uses'
        /\ l.reads <= uses[l.code].reads /\ uses'[l.code].reads >= uses[l.code].reads
    BY <1>2 DEF SeenAtMost, UsesGrow
  <2>2. l.reads \in Nat /\ uses[l.code].reads \in Nat /\ uses'[l.code].reads \in Nat
    BY <2>1, ReadsAreNumbers DEF Link
  <2> QED
    BY <2>1, <2>2 DEF SeenAtMost
<1> QED
  BY <1>1, <1>2

\* A step keeps the types when the link and the requests it leaves have them.
LEMMA StepStaysTyped ==
  ASSUME SessionsInv, SessionsInv', SessionsTyped, UsesGrow, TokensGrow, now' >= now,
         link' = link \/ SeenAtMost(link)',
         \A h \in Handlers : req'[h] = req[h] \/ RequestTyped(req[h])'
  PROVE  SessionsTyped'
<1>1. SeenAtMost(link)'
  <2>1. CASE link' = link
    <3>1. PICK l \in Link : l = link
      BY DEF SessionsInv, Typed
    <3>2. SeenAtMost(l)
      BY <3>1 DEF SessionsTyped
    <3>3. SeenAtMost(l)'
      BY <3>2, LinksStaySeen
    <3> QED
      BY <2>1, <3>1, <3>3 DEF SeenAtMost
  <2> QED
    BY <2>1
<1>2. ASSUME NEW h \in Handlers PROVE RequestTyped(req[h])'
  <2>1. CASE req'[h] = req[h]
    <3>1. PICK r \in Request : r = req[h]
      BY DEF SessionsInv, Typed
    <3>2. RequestTyped(r)
      BY <3>1 DEF SessionsTyped
    <3>3. RequestTyped(r)'
      BY <3>2, RequestsStayTyped
    <3> QED
      BY <2>1, <3>1, <3>3 DEF RequestTyped, CountsRead
  <2> QED
    BY <2>1
<1>3. now' >= 1
  BY DEF SessionsTyped, SessionsInv, Typed
<1> QED
  BY <1>1, <1>2, <1>3 DEF SessionsTyped, TokensGrow

\* Nothing happens to the link, and a request goes on with a token it has or may have.
LEMMA AsideStaysTyped ==
  ASSUME SessionsInv, SessionsInv', SessionsTyped, NEW h \in Handlers, NEW r,
         now' >= now, uses' = uses, TokensGrow, link' = link \/ link' = NoLink,
         Become(h, r), r.pc # "link",
         r.token \in 0..Len(tokens'), r.prev \in 0..Len(tokens')
  PROVE  SessionsTyped'
<1>1. UsesGrow
  BY ReadsAreNumbers DEF UsesGrow
<1>2. req \in [Handlers -> Request]
  BY DEF SessionsInv, Typed
<1>3. \A g \in Handlers : req'[g] = IF g = h THEN r ELSE req[g]
  BY <1>2 DEF Become
<1>4. RequestTyped(r)'
  BY DEF RequestTyped
<1>5. \A g \in Handlers : req'[g] = req[g] \/ RequestTyped(req[g])'
  BY <1>3, <1>4 DEF RequestTyped
<1>6. link' = link \/ SeenAtMost(link)'
  BY DEF SeenAtMost
<1> QED
  BY <1>1, <1>5, <1>6, StepStaysTyped

LEMMA TokensStay ==
  ASSUME SessionsInv, SessionsTyped,
         \/ tokens' = tokens
         \/ tokens' = Append(tokens, NewToken)
         \/ \E t \in DOMAIN tokens : tokens' = Append([tokens EXCEPT ![t].begun = TRUE], NewToken)
  PROVE  TokensGrow
<1>1. PICK q \in Seq(Token), x \in Nat : q = tokens /\ x = now
  BY DEF SessionsInv, Typed
<1>2. x >= 1 /\ \A t \in DOMAIN q : q[t].field >= 1
  BY <1>1 DEF SessionsTyped
<1>3. CASE tokens' = tokens
  BY <1>1, <1>2, <1>3 DEF TokensGrow
<1>4. NewToken.field = x
  BY <1>1 DEF NewToken
<1>5. PICK new : new = NewToken /\ new.field = x
  BY <1>4
<1>6. ASSUME NEW p \in Seq(Token), Len(p) = Len(q), \A t \in DOMAIN p : p[t].field >= 1,
             tokens' = Append(p, new)
      PROVE  TokensGrow
  <2>1. /\ Len(Append(p, new)) = Len(p) + 1 /\ DOMAIN Append(p, new) = 1..(Len(p) + 1)
        /\ Append(p, new)[Len(p) + 1] = new /\ Len(p) \in Nat /\ DOMAIN p = 1..Len(p)
        /\ \A t \in DOMAIN p : Append(p, new)[t] = p[t]
    OBVIOUS
  <2>2. \A t \in 1..(Len(p) + 1) : t \in DOMAIN p \/ t = Len(p) + 1
    BY <2>1
  <2>3. \A t \in DOMAIN tokens' : tokens'[t].field >= 1
    BY <1>2, <1>5, <1>6, <2>1, <2>2
  <2>4. Len(tokens') >= Len(tokens)
    <3>1. Len(tokens') = Len(p) + 1 /\ Len(tokens) = Len(p)
      BY <1>1, <1>6, <2>1
    <3> QED
      BY <2>1, <3>1
  <2> QED
    BY <2>3, <2>4 DEF TokensGrow
<1>7. CASE tokens' = Append(tokens, NewToken)
  BY <1>1, <1>2, <1>5, <1>6, <1>7
<1>8. CASE \E t \in DOMAIN tokens : tokens' = Append([tokens EXCEPT ![t].begun = TRUE], NewToken)
  <2>1. PICK t \in DOMAIN q : tokens' = Append([q EXCEPT ![t].begun = TRUE], new)
    BY <1>1, <1>5, <1>8
  <2>2. PICK y \in Token : y = [q[t] EXCEPT !.begun = TRUE] /\ y.field = q[t].field
    <3>1. PICK x0 \in Token : x0 = q[t]
      BY <1>1
    <3>2. /\ [x0 EXCEPT !.begun = TRUE] \in Token
          /\ [x0 EXCEPT !.begun = TRUE].field = x0.field
      BY DEF Token
    <3> QED
      BY <3>1, <3>2
  <2>3. [q EXCEPT ![t].begun = TRUE] = [q EXCEPT ![t] = y]
    BY <2>2
  <2>4. PICK p : p = [q EXCEPT ![t] = y]
    OBVIOUS
  <2>5. /\ p \in Seq(Token) /\ Len(p) = Len(q)
        /\ \A s \in DOMAIN p : p[s].field = q[s].field /\ s \in DOMAIN q
    BY <1>1, <2>2, <2>4
  <2>6. \A s \in DOMAIN p : p[s].field >= 1
    BY <1>2, <2>5
  <2> QED
    BY <1>6, <2>1, <2>3, <2>4, <2>5, <2>6
<1> QED
  BY <1>3, <1>7, <1>8

\* The clock, and the life of a link.
LEMMA ClockAndLinkStayTyped ==
  ASSUME SessionsInv, SessionsInv', SessionsTyped, Tick \/ LinkExpires \/ UNCHANGED vars
  PROVE  SessionsTyped'
<1>1. uses' = uses /\ tokens' = tokens /\ req' = req
  BY DEF Tick, LinkExpires, vars
<1>2. now' >= now
  <2>1. now \in Nat /\ (now' = now + 1 \/ now' = now)
    BY DEF Tick, LinkExpires, vars, SessionsInv, Typed
  <2> QED
    BY <2>1
<1>3. link' = link \/ SeenAtMost(link)'
  BY DEF Tick, LinkExpires, vars, SeenAtMost
<1>4. UsesGrow
  BY <1>1, ReadsAreNumbers DEF UsesGrow
<1>5. TokensGrow
  BY <1>1, TokensStay
<1>6. \A h \in Handlers : req'[h] = req[h] \/ RequestTyped(req[h])'
  BY <1>1
<1> QED
  BY <1>2, <1>3, <1>4, <1>5, <1>6, StepStaysTyped

\* A new code, not read so far.
LEMMA SaveTelegramCodeStaysTyped ==
  ASSUME SessionsInv, SessionsInv', SessionsTyped, SaveTelegramCode
  PROVE  SessionsTyped'
<1>1. PICK q \in Seq([reads : Nat, accepted : Nat]), x \in {[reads |-> 0, accepted |-> 0]} :
         q = uses /\ x = [reads |-> 0, accepted |-> 0]
  BY DEF SessionsInv, Typed
<1>2. /\ uses' = Append(q, x) /\ link'.code = Len(q) + 1 /\ link'.reads = 0 /\ x.reads = 0
      /\ now' = now /\ tokens' = tokens /\ req' = req
  BY <1>1 DEF SaveTelegramCode
<1>3. /\ Len(q) \in Nat /\ DOMAIN q = 1..Len(q) /\ DOMAIN Append(q, x) = 1..(Len(q) + 1)
      /\ Append(q, x)[Len(q) + 1] = x /\ \A c \in DOMAIN q : Append(q, x)[c] = q[c]
  OBVIOUS
<1>4. SeenAtMost(link)'
  BY <1>2, <1>3 DEF SeenAtMost
<1>5. UsesGrow
  <2>1. \A c \in DOMAIN uses : uses'[c] = uses[c] /\ uses[c].reads \in Nat
    BY <1>1, <1>2, <1>3, ReadsAreNumbers
  <2> QED
    BY <1>1, <1>2, <1>3, <2>1 DEF UsesGrow
<1>6. TokensGrow
  BY <1>2, TokensStay
<1>7. now' >= now
  BY <1>2 DEF SessionsInv, Typed
<1>8. \A h \in Handlers : req'[h] = req[h] \/ RequestTyped(req[h])'
  BY <1>2
<1> QED
  BY <1>4, <1>5, <1>6, <1>7, <1>8, StepStaysTyped


\* A sign-in's token is the next one.
LEMMA SignInStaysTyped ==
  ASSUME SessionsInv, SessionsInv', SessionsTyped, NEW h \in Handlers, GenerateTokenPair(h)
  PROVE  SessionsTyped'
<1>1. PICK r : r = MakeToken(Idle)
  OBVIOUS
<1>2. /\ Become(h, r) /\ tokens' = Append(tokens, NewToken)
      /\ uses' = uses /\ link' = link /\ now' = now
  BY <1>1 DEF GenerateTokenPair
<1>3. r.pc = "count" /\ r.token = Len(tokens) + 1 /\ r.prev = 0
  BY <1>1 DEF MakeToken, Idle
<1>4. TokensGrow
  BY <1>2, TokensStay
<1>5. Len(tokens) \in Nat /\ Len(tokens') = Len(tokens) + 1
  <2>1. PICK q \in Seq(Token), new \in {NewToken} : q = tokens /\ new = NewToken
    BY DEF SessionsInv, Typed
  <2>2. Len(q) \in Nat /\ Len(Append(q, new)) = Len(q) + 1
    OBVIOUS
  <2> QED
    BY <1>2, <2>1, <2>2
<1>6. r.token \in 0..Len(tokens') /\ r.prev \in 0..Len(tokens')
  BY <1>3, <1>5
<1>7. now' >= now
  BY <1>2 DEF SessionsInv, Typed
<1> QED
  BY <1>2, <1>3, <1>4, <1>6, <1>7, AsideStaysTyped

\* So is a refresh's, and the one it exchanges exists.
LEMMA RefreshStaysTyped ==
  ASSUME SessionsInv, SessionsInv', SessionsTyped, NEW h \in Handlers, NEW t \in Handed,
         RefreshSession(h, t)
  PROVE  SessionsTyped'
<1>1. PICK r : r = [MakeToken(Idle) EXCEPT !.pc = "drop", !.prev = t]
  OBVIOUS
<1>2. /\ Become(h, r) /\ tokens' = Append([tokens EXCEPT ![t].begun = TRUE], NewToken)
      /\ uses' = uses /\ link' = link /\ now' = now
  BY <1>1 DEF RefreshSession
<1>3. r.pc = "drop" /\ r.token = Len(tokens) + 1 /\ r.prev = t
  BY <1>1 DEF MakeToken, Idle
<1>4. t \in DOMAIN tokens
  BY DEF Handed
<1>5. TokensGrow
  BY <1>2, <1>4, TokensStay
<1>6. Len(tokens) \in Nat /\ Len(tokens') = Len(tokens) + 1 /\ t \in 1..Len(tokens)
  <2>1. PICK q \in Seq(Token), new \in {NewToken}, e \in {TRUE} : q = tokens /\ new = NewToken /\ e = TRUE
    BY DEF SessionsInv, Typed
  <2>2. PICK y : y = [q[t] EXCEPT !.begun = TRUE]
    OBVIOUS
  <2>3. Len(q) \in Nat /\ DOMAIN q = 1..Len(q)
    OBVIOUS
  <2>4. Len([q EXCEPT ![t] = y]) = Len(q) /\ [q EXCEPT ![t] = y] \in Seq(Token \cup {y})
    <3>1. q \in Seq(Token \cup {y}) /\ y \in Token \cup {y}
      OBVIOUS
    <3> QED
      BY <1>4, <2>1, <3>1
  <2>5. Len(Append([q EXCEPT ![t] = y], new)) = Len(q) + 1
    BY <2>3, <2>4
  <2>6. tokens' = Append([q EXCEPT ![t] = y], new)
    BY <1>2, <2>1, <2>2
  <2> QED
    BY <1>4, <2>1, <2>3, <2>5, <2>6
<1>7. r.token \in 0..Len(tokens') /\ r.prev \in 0..Len(tokens')
  BY <1>3, <1>6
<1>8. now' >= now
  BY <1>2 DEF SessionsInv, Typed
<1> QED
  BY <1>2, <1>3, <1>5, <1>7, <1>8, AsideStaysTyped

\* A request that counts, lists, evicts or drops keeps its token; one that is gone has none.
LEMMA MakingStaysTyped ==
  ASSUME SessionsInv, SessionsInv', SessionsTyped, NEW h \in Handlers,
         \/ CountSessions(h) \/ ListSessions(h) \/ EvictSessions(h) \/ DeleteUserSession(h)
         \/ DeleteCodeByTelegramID(h) \/ Fails(h)
  PROVE  SessionsTyped'
<1>1. PICK x \in Request : x = req[h]
  BY DEF SessionsInv, Typed
<1>2. x.token \in 0..Len(tokens) /\ x.prev \in 0..Len(tokens) /\ Len(tokens) \in Nat
  BY <1>1 DEF SessionsTyped, RequestTyped, SessionsInv, Typed
<1>3. /\ uses' = uses /\ tokens' = tokens /\ now' = now /\ (link' = link \/ link' = NoLink)
  BY DEF CountSessions, ListSessions, EvictSessions, DeleteUserSession,
         DeleteCodeByTelegramID, Fails
<1>4. PICK r : /\ Become(h, r) /\ r.pc # "link"
               /\ (r = Idle \/ (r.token = x.token /\ r.prev = x.prev))
  <2>1. CASE DeleteCodeByTelegramID(h) \/ Fails(h)
    BY <2>1 DEF DeleteCodeByTelegramID, Fails, Idle
  <2>2. CASE CountSessions(h)
    <3>1. PICK p, r : p \in {"list", "save"} /\ Become(h, r) /\ r = [x EXCEPT !.pc = p]
      BY <1>1, <2>2 DEF CountSessions
    <3>2. p \in {"list", "save"} /\ r.pc = p /\ r.token = x.token /\ r.prev = x.prev
      BY <3>1 DEF Request
    <3> QED
      BY <3>1, <3>2
  <2>3. CASE ListSessions(h)
    <3>1. PICK r, e : /\ Become(h, r)
                      /\ \/ r = [x EXCEPT !.pc = "evict", !.fields = e]
                         \/ r = [x EXCEPT !.pc = "save"]
      BY <1>1, <2>3 DEF ListSessions
    <3>2. r.pc # "link" /\ r.token = x.token /\ r.prev = x.prev
      BY <3>1 DEF Request
    <3> QED
      BY <3>1, <3>2
  <2>4. CASE EvictSessions(h)
    <3>1. PICK r : Become(h, r) /\ r = [x EXCEPT !.pc = "save", !.fields = {}]
      BY <1>1, <2>4 DEF EvictSessions
    <3>2. r.pc = "save" /\ r.token = x.token /\ r.prev = x.prev
      BY <3>1 DEF Request
    <3> QED
      BY <3>1, <3>2
  <2>5. CASE DeleteUserSession(h)
    <3>1. PICK r : Become(h, r) /\ r = [x EXCEPT !.pc = "count"]
      BY <1>1, <2>5 DEF DeleteUserSession
    <3>2. r.pc = "count" /\ r.token = x.token /\ r.prev = x.prev
      BY <3>1 DEF Request
    <3> QED
      BY <3>1, <3>2
  <2> QED
    BY <2>1, <2>2, <2>3, <2>4, <2>5
<1>5. r.token \in 0..Len(tokens') /\ r.prev \in 0..Len(tokens')
  <2>1. Idle.token = 0 /\ Idle.prev = 0
    BY DEF Idle
  <2> QED
    BY <1>2, <1>3, <1>4, <2>1
<1>6. TokensGrow
  BY <1>3, TokensStay
<1>7. now' >= now
  BY <1>3 DEF SessionsInv, Typed
<1> QED
  BY <1>3, <1>4, <1>5, <1>6, <1>7, AsideStaysTyped

\* A session is saved: its token is handed out, a field of the others is not touched.
LEMMA SaveSessionStaysTyped ==
  ASSUME SessionsInv, SessionsInv', SessionsTyped, NEW h \in Handlers, SaveSession(h)
  PROVE  SessionsTyped'
<1>1. /\ Become(h, Idle) /\ uses' = uses /\ link' = link /\ now' = now
      /\ tokens' = [s \in DOMAIN tokens |->
                       [tokens[s] EXCEPT !.handed = @ \/ s = req[h].token,
                                         !.renewed = IF s = req[h].prev /\ ~overlapped
                                                     THEN @ + 1 ELSE @]]
  BY DEF SaveSession
<1>2. PICK q \in Seq(Token), p \in Seq(Token) : q = tokens /\ p = tokens'
  BY DEF SessionsInv, Typed
<1>3. DOMAIN p = DOMAIN q
  BY <1>1, <1>2
<1>4. Len(p) \in Nat /\ Len(q) \in Nat /\ Len(p) = Len(q)
  <2>1. Len(p) \in Nat /\ Len(q) \in Nat /\ DOMAIN p = 1..Len(p) /\ DOMAIN q = 1..Len(q)
    OBVIOUS
  <2>2. ASSUME NEW a \in Nat, NEW b \in Nat, 1..a = 1..b PROVE a <= b
    <3>1. CASE a = 0
      BY <3>1
    <3>2. CASE a # 0
      <4>1. a \in 1..a
        BY <3>2
      <4>2. a \in 1..b
        BY <2>2, <4>1
      <4> QED
        BY <4>2
    <3> QED
      BY <3>1, <3>2
  <2>3. Len(p) <= Len(q) /\ Len(q) <= Len(p)
    BY <1>3, <2>1, <2>2
  <2>4. \A a, b \in Nat : a <= b /\ b <= a => a = b
    OBVIOUS
  <2> QED
    BY <2>1, <2>3, <2>4, Zenon
<1>5. ASSUME NEW s \in DOMAIN q PROVE p[s].field = q[s].field
  <2>1. PICK x \in Token : x = q[s]
    <3>1. ASSUME NEW S, NEW q1 \in Seq(S), NEW d \in DOMAIN q1 PROVE q1[d] \in S
      OBVIOUS
    <3> QED
      BY <3>1, Zenon
  <2>2. PICK yes, n : p[s] = [x EXCEPT !.handed = yes, !.renewed = n]
    BY <1>1, <1>2, <2>1
  <2>3. [x EXCEPT !.handed = yes, !.renewed = n].field = x.field
    BY DEF Token
  <2> QED
    BY <2>1, <2>2, <2>3
<1>6. TokensGrow
  <2>1. \A s \in DOMAIN q : q[s].field >= 1
    BY <1>2 DEF SessionsTyped
  <2>2. \A s \in DOMAIN p : p[s].field >= 1
    BY <1>3, <1>5, <2>1
  <2> QED
    BY <1>2, <1>4, <2>2 DEF TokensGrow
<1>7. Idle.pc # "link" /\ Idle.token \in 0..Len(tokens') /\ Idle.prev \in 0..Len(tokens')
  BY <1>2, <1>4 DEF Idle
<1>8. now' >= now
  <2>1. now' = now /\ now \in Nat
    BY DEF SaveSession, SessionsInv, Typed
  <2> QED
    BY <2>1
<1> QED
  BY <1>1, <1>6, <1>7, <1>8, AsideStaysTyped

\* A read is counted before anything is compared: the request is one short.
LEMMA GetCodeStaysTyped ==
  ASSUME SessionsInv, SessionsInv', SessionsTyped, NEW h \in Handlers,
         NEW code \in 0..Len(uses), GetCodeTelegramID(h, code)
  PROVE  SessionsTyped'
<1>1. PICK c, r : c = link.code /\ r = [Idle EXCEPT !.pc = "link", !.code = code, !.read = link]
  OBVIOUS
<1>2. r.pc = "link" /\ r.read = link /\ r.token = 0 /\ r.prev = 0
  BY <1>1 DEF Idle
<1>3. /\ Become(h, r) /\ link # NoLink /\ link' = link /\ tokens' = tokens /\ now' = now
      /\ uses' = [uses EXCEPT ![c].reads = @ + 1]
  BY <1>1 DEF GetCodeTelegramID
<1>4. c \in DOMAIN uses /\ link.reads <= uses[c].reads
  BY <1>1, <1>3 DEF SessionsTyped, SeenAtMost
<1>5. link \in Link /\ uses \in Seq(OneUse)
  BY DEF SessionsInv, Typed, OneUse
<1>6. PICK u \in OneUse : u = uses[c]
  BY <1>4, <1>5
<1>7. /\ DOMAIN uses' = DOMAIN uses /\ uses'[c].reads = u.reads + 1
      /\ \A d \in DOMAIN uses \ {c} : uses'[d] = uses[d]
  <2>1. uses'[c] = [u EXCEPT !.reads = @ + 1]
    BY <1>3, <1>4, <1>6
  <2> QED
    BY <1>3, <1>6, <2>1 DEF OneUse
<1>8. UsesGrow
  <2>1. u.reads \in Nat
    BY DEF OneUse
  <2>2. \A d \in DOMAIN uses : uses'[d].reads >= uses[d].reads
    BY <1>6, <1>7, <2>1, ReadsAreNumbers
  <2> QED
    BY <1>7, <2>2 DEF UsesGrow
<1>9. RequestTyped(r)'
  <2>1. link.reads < uses'[c].reads
    BY <1>4, <1>5, <1>6, <1>7 DEF OneUse, Link
  <2>2. Len(tokens) \in Nat
    BY DEF SessionsInv, Typed
  <2> QED
    BY <1>1, <1>2, <1>3, <1>4, <1>7, <2>1, <2>2 DEF RequestTyped, CountsRead
<1>10. \A g \in Handlers : req'[g] = req[g] \/ RequestTyped(req[g])'
  <2>1. \A g \in Handlers : req'[g] = IF g = h THEN r ELSE req[g]
    BY <1>3 DEF Become, SessionsInv, Typed
  <2> QED
    BY <1>9, <2>1 DEF RequestTyped, CountsRead
<1>11. TokensGrow
  BY <1>3, TokensStay
<1>12. now' >= now
  BY <1>3 DEF SessionsInv, Typed
<1> QED
  BY <1>3, <1>8, <1>10, <1>11, <1>12, StepStaysTyped

\* The link that comes back counts the read the request stands for.
LEMMA CountStaysTyped ==
  ASSUME SessionsInv, SessionsInv', SessionsTyped, NEW h \in Handlers,
         CountAndAccept(h) \/ CountAndRefuse(h)
  PROVE  SessionsTyped'
<1>1. PICK x \in Request, l \in Link : x = req[h] /\ l = x.read /\ x.pc = "link"
  <2>1. req[h] \in Request /\ req[h].pc = "link"
    BY DEF SessionsInv, Typed, CountAndAccept, CountAndRefuse
  <2> QED
    BY <2>1 DEF Request
<1>2. l.code \in DOMAIN uses /\ l.reads < uses[l.code].reads
  BY <1>1 DEF SessionsTyped, RequestTyped, CountsRead
<1>3. /\ link' = Counted(l) /\ now' = now
  BY <1>1 DEF CountAndAccept, CountAndRefuse
<1>4. Counted(l).code = l.code /\ Counted(l).reads = l.reads + 1 /\ l.reads \in Nat
  BY DEF Counted, Link
<1>5. /\ DOMAIN uses' = DOMAIN uses
      /\ \A d \in DOMAIN uses : uses'[d].reads = uses[d].reads
  <2>1. CASE CountAndRefuse(h)
    BY <2>1 DEF CountAndRefuse
  <2>2. CASE CountAndAccept(h)
    <3>1. uses \in Seq(OneUse)
      BY DEF SessionsInv, Typed, OneUse
    <3>2. PICK c, n : uses' = [uses EXCEPT ![c].accepted = n] /\ c \in DOMAIN uses
      BY <1>1, <1>2, <2>2 DEF CountAndAccept, Accepts
    <3>3. PICK u \in OneUse : u = uses[c]
      BY <3>1, <3>2
    <3>4. uses'[c] = [u EXCEPT !.accepted = n] /\ [u EXCEPT !.accepted = n].reads = u.reads
      BY <3>2, <3>3 DEF OneUse
    <3>5. DOMAIN uses' = DOMAIN uses /\ \A d \in DOMAIN uses \ {c} : uses'[d] = uses[d]
      BY <3>2
    <3> QED
      BY <3>3, <3>4, <3>5
  <2> QED
    BY <2>1, <2>2
<1>6. UsesGrow
  <2>1. \A d \in DOMAIN uses : uses'[d].reads >= uses[d].reads
    BY <1>5, ReadsAreNumbers
  <2> QED
    BY <1>5, <2>1 DEF UsesGrow
<1>7. SeenAtMost(link)'
  <2>1. uses'[l.code].reads \in Nat /\ uses'[l.code].reads = uses[l.code].reads
    BY <1>2, <1>5, ReadsAreNumbers
  <2>2. link'.reads <= uses'[link'.code].reads /\ link'.code \in DOMAIN uses'
    BY <1>2, <1>3, <1>4, <1>5, <2>1
  <2> QED
    BY <2>2 DEF SeenAtMost
<1>8. tokens' = tokens \/ tokens' = Append(tokens, NewToken)
  BY DEF CountAndAccept, CountAndRefuse
<1>9. TokensGrow
  BY <1>8, TokensStay
<1>10. PICK r : Become(h, r) /\ RequestTyped(r)'
  <2>1. Len(tokens) \in Nat /\ Len(tokens') \in Nat
    BY DEF SessionsInv, Typed
  <2>2. CASE CountAndRefuse(h)
    <3>1. PICK r : /\ Become(h, r)
                   /\ (r = Idle \/ r = [Idle EXCEPT !.pc = "forget"])
      BY <2>2 DEF CountAndRefuse
    <3>2. r.pc # "link" /\ r.token = 0 /\ r.prev = 0
      BY <3>1 DEF Idle
    <3> QED
      BY <2>1, <3>1, <3>2 DEF RequestTyped
  <2>3. CASE CountAndAccept(h)
    <3>1. PICK r : Become(h, r) /\ r = MakeToken(Idle)
      BY <2>3 DEF CountAndAccept
    <3>2. r.pc = "count" /\ r.token = Len(tokens) + 1 /\ r.prev = 0
      BY <3>1 DEF MakeToken, Idle
    <3>3. Len(tokens') = Len(tokens) + 1
      <4>1. PICK q \in Seq(Token), new \in {NewToken} : q = tokens /\ new = NewToken
        BY DEF SessionsInv, Typed
      <4>2. Len(Append(q, new)) = Len(q) + 1
        OBVIOUS
      <4> QED
        BY <2>3, <4>1, <4>2 DEF CountAndAccept
    <3> QED
      BY <2>1, <3>1, <3>2, <3>3 DEF RequestTyped
  <2> QED
    BY <2>2, <2>3
<1>11. \A g \in Handlers : req'[g] = req[g] \/ RequestTyped(req[g])'
  <2>1. \A g \in Handlers : req'[g] = IF g = h THEN r ELSE req[g]
    BY <1>10 DEF Become, SessionsInv, Typed
  <2> QED
    BY <1>10, <2>1 DEF RequestTyped, CountsRead
<1>12. now' >= now
  BY <1>3 DEF SessionsInv, Typed
<1> QED
  BY <1>6, <1>7, <1>9, <1>11, <1>12, StepStaysTyped

LEMMA SessionsStayTyped == SessionsInv /\ SessionsTyped /\ [Next]_vars => SessionsTyped'
<1> SUFFICES ASSUME SessionsInv, SessionsTyped, [Next]_vars PROVE SessionsTyped'
  OBVIOUS
<1>1. SessionsInv'
  BY SessionsStep
<1>2. CASE Tick \/ LinkExpires \/ UNCHANGED vars
  BY <1>1, <1>2, ClockAndLinkStayTyped
<1>3. CASE SaveTelegramCode
  BY <1>1, <1>3, SaveTelegramCodeStaysTyped
<1>4. ASSUME NEW h \in Handlers, GenerateTokenPair(h) PROVE SessionsTyped'
  BY <1>1, <1>4, SignInStaysTyped
<1>5. ASSUME NEW h \in Handlers, NEW t \in Handed, RefreshSession(h, t) PROVE SessionsTyped'
  BY <1>1, <1>5, RefreshStaysTyped
<1>6. ASSUME NEW h \in Handlers,
             \/ CountSessions(h) \/ ListSessions(h) \/ EvictSessions(h)
             \/ DeleteUserSession(h) \/ DeleteCodeByTelegramID(h) \/ Fails(h)
      PROVE  SessionsTyped'
  BY <1>1, <1>6, MakingStaysTyped
<1>7. ASSUME NEW h \in Handlers, SaveSession(h) PROVE SessionsTyped'
  BY <1>1, <1>7, SaveSessionStaysTyped
<1>8. ASSUME NEW h \in Handlers, NEW code \in 0..Len(uses), GetCodeTelegramID(h, code)
      PROVE  SessionsTyped'
  BY <1>1, <1>8, GetCodeStaysTyped
<1>9. ASSUME NEW h \in Handlers, CountAndAccept(h) \/ CountAndRefuse(h)
      PROVE  SessionsTyped'
  BY <1>1, <1>9, CountStaysTyped
<1> QED
  BY <1>2, <1>3, <1>4, <1>5, <1>6, <1>7, <1>8, <1>9, Zenon DEF Next

\* What a field points to was made in its second, which is one the clock has shown.
LEMMA TypedSessions == SessionsInv /\ SessionsTyped => TypeOK
<1> SUFFICES ASSUME SessionsInv, SessionsTyped PROVE TypeOK
  OBVIOUS
<1>1. ASSUME NEW f \in DOMAIN sessions
      PROVE  /\ sessions[f] \in DOMAIN tokens /\ tokens[sessions[f]].field = f
             /\ f \in 1..now
  <2>1. sessions[f] \in DOMAIN tokens /\ tokens[sessions[f]].field = f /\ f \in Nat /\ now \in Nat
    BY DEF SessionsInv, Typed, Fields
  <2>2. f >= 1 /\ f <= now
    BY <2>1 DEF SessionsTyped, SessionsInv, InOrder
  <2> QED
    BY <2>1, <2>2
<1>2. /\ link.code \in 0..Len(uses)
      /\ link.reads \in 0..(IF link = NoLink THEN 0 ELSE uses[link.code].reads)
  <2>1. PICK l \in Link : l = link
    BY DEF SessionsInv, Typed
  <2>2. l.code \in Nat /\ l.reads \in Nat /\ Len(uses) \in Nat /\ DOMAIN uses = 1..Len(uses)
    BY DEF SessionsInv, Typed, Link
  <2>3. CASE l = NoLink
    BY <2>1, <2>2, <2>3 DEF NoLink
  <2>4. CASE l # NoLink
    <3>1. l.code \in DOMAIN uses /\ l.reads <= uses[l.code].reads
      BY <2>1, <2>4 DEF SessionsTyped, SeenAtMost
    <3>2. uses[l.code].reads \in Nat
      <4>1. PICK q \in Seq(OneUse) : q = uses
        BY DEF SessionsInv, Typed, OneUse
      <4>2. PICK u \in OneUse : u = q[l.code]
        BY <3>1, <4>1
      <4> QED
        BY <4>1, <4>2 DEF OneUse
    <3> QED
      BY <2>1, <2>2, <2>4, <3>1, <3>2
  <2> QED
    BY <2>3, <2>4
<1>3. \A h \in Handlers : {req[h].token, req[h].prev} \subseteq 0..Len(tokens)
  BY DEF SessionsTyped, RequestTyped
<1> QED
  BY <1>1, <1>2, <1>3 DEF TypeOK

\* A caller is told 200 or the status of an error; codes go to users who have a row.
Statuses == {200, 400, 401, 404, 409, 429, 500}
MailTyped == mailed \subseteq Clients /\ visit.told \in Statuses

LEMMA VisitorsStayTyped == ApiInv /\ MailTyped /\ [ApiNext]_apiVars => MailTyped'
<1> SUFFICES ASSUME ApiInv, MailTyped, [ApiNext]_apiVars PROVE MailTyped'
  OBVIOUS
<1>1. PICK v \in VisitRow : v = visit /\ v.told \in Statuses
  BY DEF ApiInv, Sound, MailTyped
<1>2. ASSUME NEW status \in Statuses, Answered(status) PROVE visit'.told \in Statuses
  BY <1>2 DEF Answered, NoVisit
<1>3. ASSUME visit' = Past(v) PROVE visit'.told \in Statuses
  <2>1. PICK n : visit' = [v EXCEPT !.at = n]
    BY <1>3 DEF Past
  <2> QED
    BY <1>1, <2>1 DEF VisitRow
<1>4. visit'.told \in Statuses
  <2>1. ASSUME NEW u \in Clients, RoleChanges(u) PROVE visit'.told \in Statuses
    <3>1. PICK saw : visit' = [v EXCEPT !.was = saw]
      BY <1>1, <2>1 DEF RoleChanges
    <3> QED
      BY <1>1, <3>1 DEF VisitRow
  <2>2. ASSUME NEW g, NEW i, NEW t, NEW u, UserArrives(g, i, t, u) PROVE visit'.told \in Statuses
    <3>1. PICK saw : visit' = [NoVisit EXCEPT !.pc = "layers", !.group = g, !.target = i,
                                              !.token = t, !.who = u, !.was = saw]
      BY <2>2 DEF UserArrives
    <3> QED
      BY <3>1 DEF NoVisit, Statuses
  <2>3. CASE AuthMiddleware \/ FAQLayer
    <3>1. CASE \E status \in Statuses : Answered(status)
      BY <1>2, <3>1
    <3>2. CASE ~ \E status \in Statuses : Answered(status)
      <4>1. \/ visit' = [Past(v) EXCEPT !.claims = v.token, !.caller = "user"]
            \/ visit' = [Past(v) EXCEPT !.caller = "anonymous"]
        BY <1>1, <2>3, <3>2 DEF AuthMiddleware, FAQLayer, Statuses
      <4>2. PICK w : w = Past(v)
        OBVIOUS
      <4>3. PICK n : w = [v EXCEPT !.at = n]
        BY <4>2 DEF Past
      <4>4. "told" \in DOMAIN w /\ w.told = v.told
        BY <4>3 DEF VisitRow
      <4>5. /\ [w EXCEPT !.claims = v.token, !.caller = "user"].told = w.told
            /\ [w EXCEPT !.caller = "anonymous"].told = w.told
        BY <4>4
      <4> QED
        BY <1>1, <4>1, <4>2, <4>4, <4>5
    <3> QED
      BY <3>1, <3>2
  <2>4. CASE CheckForAdminPermissions \/ LimitReached \/ LimitPassed \/ SignInWithGoogleMiddleware
    <3>1. visit' = Past(v) \/ \E status \in Statuses : Answered(status)
      BY <1>1, <2>4 DEF CheckForAdminPermissions, LimitReached, LimitPassed,
                        SignInWithGoogleMiddleware, Statuses
    <3> QED
      BY <1>2, <1>3, <3>1
  <2>5. CASE Bind \/ CheckUsersEmailCode \/ TakeClaims \/ CallRefused \/ CallReturns
    <3>1. \/ \E status \in Statuses : Answered(status)
          \/ visit' = [NoVisit EXCEPT !.told = 200]
          \/ \E pc : visit' = [v EXCEPT !.pc = pc]
          \/ visit' = [v EXCEPT !.pc = "claims", !.proved = TRUE]
          \/ visit' = [v EXCEPT !.pc = "calling", !.step = 1]
          \/ \E n : visit' = [v EXCEPT !.step = n]
      <4>1. Bind => Answered(400) \/ \E pc : visit' = [v EXCEPT !.pc = pc]
        BY <1>1, Zenon DEF Bind
      <4>2. CheckUsersEmailCode =>
              \/ visit' = [v EXCEPT !.pc = "claims", !.proved = TRUE]
              \/ Answered(401)
        BY <1>1, Zenon DEF CheckUsersEmailCode
      <4>3. TakeClaims => Answered(401) \/ visit' = [v EXCEPT !.pc = "calling", !.step = 1]
        BY <1>1, Zenon DEF TakeClaims
      <4>4. CallRefused => \E status \in Statuses : Answered(status)
        BY DEF CallRefused, Statuses
      <4>5. CallReturns => \/ visit' = [NoVisit EXCEPT !.told = 200]
                          \/ \E n : visit' = [v EXCEPT !.step = n]
        BY <1>1, Zenon DEF CallReturns
      <4>6. 400 \in Statuses /\ 401 \in Statuses
        BY DEF Statuses
      <4> QED
        BY <2>5, <4>1, <4>2, <4>3, <4>4, <4>5, <4>6, Zenon
    <3>2. CASE \E status \in Statuses : Answered(status)
      BY <1>2, <3>2
    <3>3. CASE visit' = [NoVisit EXCEPT !.told = 200]
      BY <3>3 DEF NoVisit, Statuses
    <3>4. CASE \/ \E pc : visit' = [v EXCEPT !.pc = pc]
               \/ visit' = [v EXCEPT !.pc = "claims", !.proved = TRUE]
               \/ visit' = [v EXCEPT !.pc = "calling", !.step = 1]
               \/ \E n : visit' = [v EXCEPT !.step = n]
      BY <1>1, <3>4 DEF VisitRow
    <3> QED
      BY <3>1, <3>2, <3>3, <3>4
  <2>6. CASE \/ \E u \in Clients : CodeExpires(u)
             \/ \E t \in held : TokenExpires(t)
             \/ UNCHANGED apiVars
    BY <1>1, <2>6 DEF CodeExpires, TokenExpires, apiVars
  <2> QED
    BY <2>1, <2>2, <2>3, <2>4, <2>5, <2>6, Zenon DEF ApiNext
<1>5. mailed' \subseteq Clients
  <2>1. CASE CallRefused \/ CallReturns
    <3>1. v.who \in Clients
      <4>1. v.pc = "calling"
        BY <1>1, <2>1 DEF CallRefused, CallReturns
      <4> QED
        BY <1>1, <4>1 DEF ApiInv, Sound, OnRoute
    <3> QED
      BY <1>1, <2>1, <3>1 DEF CallRefused, CallReturns, MailTyped
  <2>2. CASE ~(CallRefused \/ CallReturns)
    <3>1. mailed' = mailed \/ \E u \in Clients : mailed' = mailed \ {u}
      BY <2>2 DEF ApiNext, apiVars, RoleChanges, CodeExpires, TokenExpires, UserArrives,
                  AuthMiddleware, FAQLayer, CheckForAdminPermissions, LimitReached, LimitPassed,
                  SignInWithGoogleMiddleware, Bind, CheckUsersEmailCode, TakeClaims
    <3> QED
      BY <3>1 DEF MailTyped
  <2> QED
    BY <2>1, <2>2
<1> QED
  BY <1>4, <1>5 DEF MailTyped

LEMMA TypedVisits == ApiInv /\ MailTyped => ApiTypeOK
BY DEF ApiInv, Sound, VisitRow, MailTyped, Statuses, ApiTypeOK

-----------------------------------------------------------------------------
(***************************************************************************)
(* The three components side by side.                                      *)
(***************************************************************************)
\* Every component keeps its types while the others rest: a session's field is the second
\* its token was made in, requests refer to tokens that exist, no link counts more reads than
\* there were, and an entry of the limiter outlives its last hit by one expiration at most.
THEOREM AccessTypesKept == AccessSpec => []AccessTypeOK
<1> DEFINE TypedInv == /\ SessionsInv /\ SessionsTyped
                       /\ LimiterInv
                       /\ ApiInv /\ MailTyped
<1>1. AccessInit => TypedInv
  <2> SUFFICES ASSUME AccessInit PROVE TypedInv
    OBVIOUS
  <2>1. Init /\ LimiterInit /\ ApiInit
    BY DEF AccessInit
  <2>2. MailTyped
    BY <2>1 DEF ApiInit, MailTyped, NoVisit, Statuses
  <2> QED
    BY <2>1, <2>2, InitSessions, InitTyped, InitLimiter, ApiStart
<1>2. TypedInv /\ [AccessNext]_accessVars => TypedInv'
  <2> SUFFICES ASSUME TypedInv, [AccessNext]_accessVars PROVE TypedInv'
    OBVIOUS
  <2>1. [Next]_vars /\ [LimiterNext]_limiterVars /\ [ApiNext]_apiVars
    BY DEF AccessNext, accessVars
  <2> QED
    BY <2>1, SessionsStep, SessionsStayTyped, LimiterStep, ApiStep, VisitorsStayTyped
<1>3. TypedInv => AccessTypeOK
  <2> SUFFICES ASSUME TypedInv PROVE AccessTypeOK
    OBVIOUS
  <2>1. TypeOK /\ ApiTypeOK
    BY TypedSessions, TypedVisits
  <2>2. LimiterTypeOK
    <3>1. second \in Nat
      BY LimiterAssumption DEF LimiterInv, LimiterTyped
    <3> QED
      BY <3>1 DEF LimiterInv, LimiterTyped, LimiterTypeOK, ItemRow, EntryFresh
  <2> QED
    BY <2>1, <2>2 DEF AccessTypeOK
<1> QED
  BY <1>1, <1>2, <1>3, PTL DEF AccessSpec
=============================================================================
