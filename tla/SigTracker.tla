----------------------------- MODULE SigTracker -----------------------------
(***************************************************************************)
(* The transaction tracker: pkg/sigtracker/sigtracker.go.                  *)
(*                                                                         *)
(* One goroutine asks the node once a second for the status of every       *)
(* pending signature; every sender subscribes its signature and polls for  *)
(* the verdict until a timeout.  They share a list and a map under one     *)
(* mutex, except that verdicts are written into the map without it.        *)
(***************************************************************************)
EXTENDS Integers, Sequences, SequencesExt

CONSTANT
    Sigs   \* signatures, each sent once and subscribed by its sender

VARIABLES
    pending,    \* pendingSignatures
    verdict,    \* confirmedSignatures: signature to TRUE or FALSE
    locked,     \* the loop holds the mutex
    loop,       \* where confirmSignatures is, what it asked, got and keeps
    caller,     \* where each sender is in SubscribeForSignatureStatus
    onChain     \* what has become of each transaction

vars == <<pending, verdict, locked, loop, caller, onChain>>

\* how far a transaction got, and whether it failed; what is only processed may
\* be on a fork and come back differently
ChainStatus == [level : {"none", "processed", "confirmed"}, err : BOOLEAN]
Unknown == [level |-> "none", err |-> FALSE]

Resting == [pc |-> "rest", asked |-> <<>>, answer |-> <<>>, kept |-> <<>>]

Put(s, v) == [t \in DOMAIN verdict \cup {s} |-> IF t = s THEN v ELSE verdict[t]]

Without(s) == [t \in DOMAIN verdict \ {s} |-> verdict[t]]

Init ==
    /\ pending = <<>>
    /\ verdict = <<>>
    /\ locked = FALSE
    /\ loop = Resting
    /\ caller = [s \in Sigs |-> "new"]
    /\ onChain = [s \in Sigs |-> Unknown]

-----------------------------------------------------------------------------
(* The chain *)

Include(s, err) ==
    /\ caller[s] # "new" /\ onChain[s] = Unknown
    /\ onChain' = [onChain EXCEPT ![s] = [level |-> "processed", err |-> err]]
    /\ UNCHANGED <<pending, verdict, locked, loop, caller>>

Confirm(s) ==
    /\ onChain[s].level = "processed"
    /\ onChain' = [onChain EXCEPT ![s].level = "confirmed"]
    /\ UNCHANGED <<pending, verdict, locked, loop, caller>>

ForkAway(s) ==
    /\ onChain[s].level = "processed"
    /\ onChain' = [onChain EXCEPT ![s] = Unknown]
    /\ UNCHANGED <<pending, verdict, locked, loop, caller>>

-----------------------------------------------------------------------------
(* SubscribeForSignatureStatus, NotifyForSignatureStatus *)

Move(s, from, to) == caller[s] = from /\ caller' = [caller EXCEPT ![s] = to]

Send(s) ==
    /\ Move(s, "new", "subscribing")
    /\ UNCHANGED <<pending, verdict, locked, loop, onChain>>

Subscribe(s) ==
    /\ ~locked
    /\ Move(s, "subscribing", "waiting")
    /\ pending' = Append(pending, s)
    /\ UNCHANGED <<verdict, locked, loop, onChain>>

\* the ticker fires; from here on the timeout is not looked at
TickerFires(s) ==
    /\ Move(s, "waiting", "polling")
    /\ UNCHANGED <<pending, verdict, locked, loop, onChain>>

Poll(s) ==
    /\ ~locked
    /\ Move(s, "polling", IF s \notin DOMAIN verdict THEN "waiting"
                          ELSE IF verdict[s] THEN "foundTrue" ELSE "foundFalse")
    /\ UNCHANGED <<pending, verdict, locked, loop, onChain>>

TakeVerdict(s) ==
    /\ ~locked
    /\ Move(s, "foundTrue", "toldTrue") \/ Move(s, "foundFalse", "toldFalse")
    /\ verdict' = Without(s)
    /\ UNCHANGED <<pending, locked, loop, onChain>>

\* ErrNotConfirmed
Timeout(s) ==
    /\ Move(s, "waiting", "timedOut")
    /\ UNCHANGED <<pending, verdict, locked, loop, onChain>>

-----------------------------------------------------------------------------
(* confirmSignatures: the status request is made with the mutex held *)

Ask ==
    /\ loop.pc = "rest" /\ ~locked
    /\ pending # <<>>
    /\ locked' = TRUE
    /\ loop' = [Resting EXCEPT !.pc = "asked", !.asked = pending]
    /\ UNCHANGED <<pending, verdict, caller, onChain>>

\* returns without Unlock
Mutant_RequestFails ==
    /\ loop.pc = "asked"
    /\ loop' = Resting
    /\ UNCHANGED <<pending, verdict, locked, caller, onChain>>

RequestFails ==
    /\ loop.pc = "asked"
    /\ locked' = FALSE
    /\ loop' = Resting
    /\ UNCHANGED <<pending, verdict, caller, onChain>>

\* an answer of another length is thrown away, the list has been emptied before
ShortAnswer ==
    /\ loop.pc = "asked"
    /\ pending' = <<>>
    /\ locked' = FALSE
    /\ loop' = Resting
    /\ UNCHANGED <<verdict, caller, onChain>>

\* forgets to empty the list
Mutant_Answer ==
    /\ loop.pc = "asked"
    /\ locked' = FALSE
    /\ loop' = [loop EXCEPT !.pc = "judge",
                            !.answer = [i \in DOMAIN loop.asked |-> onChain[loop.asked[i]]]]
    /\ UNCHANGED <<pending, verdict, caller, onChain>>

Answer ==
    /\ loop.pc = "asked"
    /\ pending' = <<>>
    /\ locked' = FALSE
    /\ loop' = [loop EXCEPT !.pc = "judge",
                            !.answer = [i \in DOMAIN loop.asked |-> onChain[loop.asked[i]]]]
    /\ UNCHANGED <<verdict, caller, onChain>>

\* takes a processed transaction for a confirmed one
Mutant_Final(status) == status.level # "none"
Final(status) == status.level = "confirmed"

\* a failure is a verdict at any level
Judged(status) == status.level # "none" /\ (status.err \/ Final(status))

\* the next signature of the answer
Judge ==
    /\ loop.pc = "judge" /\ loop.asked # <<>>
    /\ LET s      == Head(loop.asked)
           status == Head(loop.answer)
       IN  /\ verdict' = IF Judged(status) THEN Put(s, ~status.err) ELSE verdict
           /\ loop' = [loop EXCEPT !.asked = Tail(@), !.answer = Tail(@),
                                   !.kept = IF Judged(status) THEN @ ELSE Append(@, s)]
    /\ UNCHANGED <<pending, locked, caller, onChain>>

\* overwrites what was subscribed since the list was emptied
Store ==
    /\ loop.pc = "judge" /\ loop.asked = <<>> /\ ~locked
    /\ pending' = loop.kept
    /\ loop' = Resting
    /\ UNCHANGED <<verdict, locked, caller, onChain>>

\* Judge writes the map without the mutex: the runtime ends the process when it
\* sees a reader or another writer at the same moment
Racing(s) == caller[s] \in {"polling", "foundTrue", "foundFalse"}

ConcurrentMapAccess ==
    /\ loop.pc = "judge" /\ loop.answer # <<>> /\ Judged(Head(loop.answer))
    /\ \E s \in Sigs : Racing(s)
    /\ pending' = <<>>
    /\ verdict' = <<>>
    /\ locked' = FALSE
    /\ loop' = Resting
    /\ caller' = [s \in Sigs |-> IF caller[s] \in {"new", "toldTrue", "toldFalse", "timedOut"}
                                   THEN caller[s] ELSE "died"]
    /\ UNCHANGED onChain

Next ==
    \/ \E s \in Sigs :
          \/ Confirm(s) \/ ForkAway(s) \/ \E err \in BOOLEAN : Include(s, err)
          \/ Send(s) \/ Subscribe(s) \/ TickerFires(s) \/ Poll(s)
          \/ TakeVerdict(s) \/ Timeout(s)
    \/ Ask \/ RequestFails \/ ShortAnswer \/ Answer \/ Judge \/ Store
    \/ ConcurrentMapAccess

Spec == Init /\ [][Next]_vars

\* the node answers for every signature it is asked about: what is lost then is
\* lost by Store
FullAnswersSpec == Init /\ [][Next /\ ~ShortAnswer]_vars

\* The request has a deadline of its own; the mutex does not starve a goroutine;
\* a timer that has fired stays ready and select picks among what is ready.
TrackerFairness ==
    /\ WF_vars(RequestFails \/ ShortAnswer \/ Answer)
    /\ WF_vars(Judge) /\ SF_vars(Store)
    /\ \A s \in Sigs : /\ SF_vars(Subscribe(s) \/ Poll(s) \/ TakeVerdict(s))
                       /\ SF_vars(Timeout(s))

FairSpec == Spec /\ TrackerFairness

-----------------------------------------------------------------------------
(* Properties *)

Unjudged(s) == caller[s] \in {"waiting", "polling"} /\ s \notin DOMAIN verdict

InHand(s) == s \in ToSet(loop.asked) \cup ToSet(loop.kept)

\* The mutex is held exactly while a status request is out, and an answer lists
\* what was asked.
TypeOK ==
    /\ pending \in Seq(Sigs)
    /\ DOMAIN verdict \subseteq Sigs /\ \A s \in DOMAIN verdict : verdict[s] \in BOOLEAN
    /\ locked = (loop.pc = "asked")
    /\ loop.pc = "judge" => Len(loop.answer) = Len(loop.asked)
    /\ onChain \in [Sigs -> ChainStatus]

\* A sender is told that its transaction went through only when it cannot be
\* undone: a merely processed one does not count (the commented-out
\* ConfirmationStatusProcessed).
ToldTrueIsFinal ==
    \A s \in Sigs : caller[s] = "toldTrue" =>
       onChain[s] = [level |-> "confirmed", err |-> FALSE]

\* Outside a status request, a signature is in one place at most - pending, in the
\* loop's hands or judged - so no verdict is overwritten by a later, older answer.
OnePlace ==
    ~locked => /\ IsInjective(pending \o loop.asked \o loop.kept)
               /\ \A s \in DOMAIN verdict : s \notin ToSet(pending) /\ ~InHand(s)

\* "Keep unconfirmed signatures in the pending list": a signature somebody waits
\* for and nobody has judged is pending or being looked up.
UnconfirmedKept == \A s \in Sigs : Unjudged(s) => s \in ToSet(pending) \/ InHand(s)

\* Whoever subscribes gets an answer: a verdict or the timeout (or the process
\* dies); nobody hangs on the mutex.
EveryCallerReturns ==
    \A s \in Sigs : caller[s] = "subscribing"
                      ~> caller[s] \in {"toldTrue", "toldFalse", "timedOut", "died"}

\* A verdict holds: what a sender is told is final, and no signature is judged twice, by
\* an answer and by an older one that comes late.
VerdictsHold == ToldTrueIsFinal /\ OnePlace
=============================================================================
