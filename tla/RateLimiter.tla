---------------------------- MODULE RateLimiter ----------------------------
(***************************************************************************)
(* The rate limiter before duel creation and joining:                      *)
(* pkg/middleware/limiter and internal/handler/middleware/limit.go.        *)
(*                                                                         *)
(* One handler counts the hits of every key (address and path) under one   *)
(* lock, in a store whose entries expire and are swept by a goroutine.     *)
(* Time is read several times per request, in whole seconds, and may move  *)
(* between two readings.                                                   *)
(*                                                                         *)
(* The branch that takes a hit back when Skip holds is left out: Skip      *)
(* looks for the status 401, and handlers answer with an error that        *)
(* becomes a status only in LogErrors, after the limiter has looked.       *)
(***************************************************************************)
EXTENDS Integers, FiniteSets, Functions

CONSTANTS
    LimitKeys,    \* what KeyGenerator makes of requests
    LimitMax,     \* cfg.Max: 1 in the code
    Expiration,   \* cfg.Expiration in seconds: 1 in the code
    LimitHits,    \* bound: hits of a key in one window
    LimitHorizon  \* bound: the last second

ASSUME LimiterAssumption ==
    /\ LimitMax \in Nat \ {0}
    /\ Expiration \in Nat \ {0}
    /\ LimitHits \in Nat
    /\ LimitHorizon \in Nat \ {0}

VARIABLES
    second,   \* utils.Timestamp()
    hits,     \* the store's map: [currHits, prevHits, exp, drop] by key, or no entry
    sweep,    \* the sweeper: the time it read and the keys it will look at again
    passed,   \* history: requests let through, by second and in the window that ends at end
    seen,     \* history: when each key was last hit
    answer    \* history: the last answer, and how long its key had been quiet

limiterVars == <<second, hits, sweep, passed, seen, answer>>

\* an entry new from the pool
NewEntry == [currHits |-> 0, prevHits |-> 0, exp |-> 0]
NoItem == [currHits |-> 0, prevHits |-> 0, exp |-> 0, drop |-> 0]

NotSweeping == [ts |-> 0, keys |-> {}]

LimiterInit ==
    /\ second = 1
    /\ hits = [k \in LimitKeys |-> NoItem]
    /\ sweep = NotSweeping
    /\ passed = [k \in LimitKeys |-> [at |-> [t \in 1..LimitHorizon |-> 0], window |-> 0, end |-> 0]]
    /\ seen = [k \in LimitKeys |-> 0]
    /\ answer = [ok |-> TRUE, quiet |-> 0]

Mutant_Fetched(k, ts) ==
    IF hits[k].drop = 0 THEN NewEntry
    ELSE [currHits |-> hits[k].currHits, prevHits |-> hits[k].prevHits, exp |-> hits[k].exp]

\* an item is gone from the second it expires in, swept or not
Fetched(k, ts) ==
    IF hits[k].drop = 0 \/ hits[k].drop <= ts THEN NewEntry
    ELSE [currHits |-> hits[k].currHits, prevHits |-> hits[k].prevHits, exp |-> hits[k].exp]

\* one window forgets the one before
Mutant_Rolled(e, ts) ==
    IF e.exp = 0 THEN [e EXCEPT !.exp = ts + Expiration]
    ELSE IF ts < e.exp THEN e
    ELSE [currHits |-> 0, prevHits |-> 0,
          exp |-> IF ts - e.exp >= Expiration THEN ts + Expiration ELSE e.exp + Expiration]

Rolled(e, ts) ==
    IF e.exp = 0 THEN [e EXCEPT !.exp = ts + Expiration]
    ELSE IF ts < e.exp THEN e
    ELSE [currHits |-> 0, prevHits |-> e.currHits,
          exp |-> IF ts - e.exp >= Expiration THEN ts + Expiration ELSE e.exp + Expiration]

ResetInSec(e, ts) == e.exp - ts

\* hits of the window before count by what is left of this one
Rate(e, ts) == (e.prevHits * ResetInSec(e, ts)) \div Expiration + e.currHits

CountedHit(k, ts) == [Rolled(Fetched(k, second), ts) EXCEPT !.currHits = @ + 1]

LetThrough(k, e, ts, ok) ==
    [at |-> IF ok THEN [passed[k].at EXCEPT ![ts] = @ + 1] ELSE passed[k].at,
     window |-> (IF ts >= passed[k].end THEN 0 ELSE passed[k].window) + (IF ok THEN 1 ELSE 0),
     end |-> e.exp]

\* a request: the clock is read for the store, for the window, and to store again
Hit(k) ==
    /\ Fetched(k, second).currHits < LimitHits
    /\ \E ts \in {second, second + 1}, stored \in {second, second + 1, second + 2} :
        /\ stored \in {ts, ts + 1} /\ stored <= LimitHorizon
        /\ LET e == CountedHit(k, ts)
               ok == LimitMax - Rate(e, ts) >= 0
           IN /\ hits' = [hits EXCEPT ![k] =
                    [currHits |-> e.currHits, prevHits |-> e.prevHits, exp |-> e.exp,
                     drop |-> stored + ResetInSec(e, ts) + Expiration]]
              /\ passed' = [passed EXCEPT ![k] = LetThrough(k, e, ts, ok)]
              /\ answer' = [ok |-> ok, quiet |-> second - seen[k]]
              /\ seen' = [seen EXCEPT ![k] = stored]
              /\ second' = stored
              /\ UNCHANGED sweep

SecondPasses ==
    /\ second < LimitHorizon
    /\ second' = second + 1
    /\ UNCHANGED <<hits, sweep, passed, seen, answer>>

ExpiredKeys(ts) == {k \in LimitKeys : hits[k].drop # 0 /\ hits[k].drop <= ts}

\* the sweeper lists what has expired ...
SweepLists ==
    /\ sweep = NotSweeping
    /\ ExpiredKeys(second) # {}
    /\ sweep' = [ts |-> second, keys |-> ExpiredKeys(second)]
    /\ UNCHANGED <<second, hits, passed, seen, answer>>

\* deletes what it listed without a second look
Mutant_SweepDeletes ==
    /\ sweep # NotSweeping
    /\ hits' = [k \in LimitKeys |-> IF k \in sweep.keys THEN NoItem ELSE hits[k]]
    /\ sweep' = NotSweeping
    /\ UNCHANGED <<second, passed, seen, answer>>

\* ... lets go of the lock, and deletes what is still as expired as it was then
SweepDeletes ==
    /\ sweep # NotSweeping
    /\ hits' = [k \in LimitKeys |->
                  IF k \in sweep.keys \cap ExpiredKeys(sweep.ts) THEN NoItem ELSE hits[k]]
    /\ sweep' = NotSweeping
    /\ UNCHANGED <<second, passed, seen, answer>>

LimiterNext ==
    \/ \E k \in LimitKeys : Hit(k)
    \/ SecondPasses
    \/ SweepLists
    \/ SweepDeletes

LimiterSpec == LimiterInit /\ [][LimiterNext]_limiterVars

-----------------------------------------------------------------------------
(* Properties *)

LimiterTypeOK ==
    /\ second \in Nat
    /\ hits \in [LimitKeys -> [currHits : Nat, prevHits : Nat, exp : Nat, drop : Nat]]
    /\ \A k \in LimitKeys : hits[k].exp <= seen[k] + Expiration /\ seen[k] <= second
    /\ sweep \in [ts : Nat, keys : SUBSET LimitKeys]

\* Until the window ends that a key's first hit began, at most Max requests are let through,
\* whatever the clock and the sweeper do between and during requests: the store does not
\* forget a window that has not ended (newSlidingWindow, memory/storage.go).
WindowLimit == \A k \in LimitKeys : passed[k].window <= LimitMax

\* "Max number of recent connections during Expiration seconds" (config.go:44): in any
\* Expiration seconds in a row at most Max requests are let through.  True of windows of
\* one second, which the code uses, and of two; the weight assumes that the hits of the
\* window before were spread evenly, and for 4 in 3 seconds it lets 5 through.
RecentLimit ==
    \A k \in LimitKeys : \A t \in 1..LimitHorizon :
        SumFunctionOnSet(passed[k].at, (t..(t + Expiration - 1)) \cap (1..LimitHorizon))
            <= LimitMax

\* Who has been quiet for two windows is let through: hits of a window long over, left in
\* the store by a sweeper that is late, no longer count.
QuietIsAdmitted == answer.ok \/ answer.quiet < 2 * Expiration

\* The limiter keeps its limit and lets go of who has been quiet (newSlidingWindow).
LimiterKeeps == WindowLimit /\ QuietIsAdmitted
=============================================================================
