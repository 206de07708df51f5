--------------------------------- MODULE Faq ---------------------------------
(***************************************************************************)
(* Questions and answers: service/faq_service.go, repository/faq.go,       *)
(* telegram/faq_bot.go and the middleware that recognises who asks.        *)
(*                                                                         *)
(* A question is announced to the moderators through a channel that lives  *)
(* in memory only; they answer or reject it from Telegram.  Requests and   *)
(* updates of the bot are handled side by side, a statement at a time.     *)
(* Texts and pictures are left out.                                        *)
(***************************************************************************)
EXTENDS Integers, Sequences, FiniteSets, SequencesExt

CONSTANTS
    FaqUsers,        \* who comes with a token
    Visitors,        \* who does not: an address and an agent
    Moderators,      \* the bot's allowOrigins
    Desks,           \* requests and updates in flight
    ChanFAQBot,      \* capacity of the channel, 50 in the code
    MaxQuestions, MaxCalls, MaxRestarts   \* bounds: questions, requests and updates, stops

ASSUME FaqAssumption ==
    /\ FaqUsers \cap Visitors = {}
    /\ {ChanFAQBot, MaxQuestions, MaxCalls, MaxRestarts} \subseteq Nat

VARIABLES
    anonymous, \* faq_anonymous_users: rows of each visitor
    questions, \* faq_questions by id: who asked, answered, deleted since
    replies,   \* faq_answers
    marks,     \* faq_marks; they have no key, a number tells them apart
    serial,    \* numbers given to answers and marks
    desk,      \* what each request or update is doing
    sending,   \* questions whose goroutine waits for the channel
    channel,
    told,      \* who got the message about each question, with its buttons
    gone,      \* history: questions that a restart found not yet announced
    raced,     \* history: persons and questions with two requests at once
    calls, restarts \* so far

faqVars == <<anonymous, questions, replies, marks, serial, desk, sending, channel, told, gone,
             raced, calls, restarts>>

notices == <<sending, channel, told, gone>>

AtRest == [at |-> "rest"]

FaqInit ==
    /\ anonymous = [v \in Visitors |-> 0]
    /\ questions = <<>> /\ replies = {} /\ marks = {} /\ serial = 0
    /\ desk = [h \in Desks |-> AtRest]
    /\ sending = {} /\ channel = <<>> /\ told = <<>>
    /\ gone = {} /\ raced = {}
    /\ calls = 0 /\ restarts = 0

\* rows: who answered which, and who thinks what of which
Exists(q) == q \in DOMAIN questions /\ ~questions[q].deleted
AnswersTo(q) == {a \in replies : a.question = q}
MarksBy(q, who) == {k \in marks : k.question = q /\ k.who = who}

Sits(h, d) == desk' = [desk EXCEPT ![h] = d]

\* is another request on this person or question in flight?
Meets(h, x) == \E g \in Desks \ {h} : desk[g].at # "rest" /\ desk[g].about = x
TakesUp(h, x) ==
    /\ desk[h].at = "rest"
    /\ calls < MaxCalls /\ calls' = calls + 1
    /\ raced' = IF Meets(h, x) THEN raced \cup {x} ELSE raced

\* an error on the way: nothing is undone, nothing more is done
DeskFails(h) ==
    /\ desk[h].at # "rest"
    /\ Sits(h, AtRest)
    /\ UNCHANGED <<anonymous, questions, replies, marks, serial, notices, raced, calls, restarts>>

-----------------------------------------------------------------------------
(* Who asks: FAQAuthMiddleware *)

\* a user by the token; a visitor by any row with the address and the agent
FAQAuthMiddleware(h, p) ==
    /\ TakesUp(h, p)
    /\ IF p \in FaqUsers
       THEN Sits(h, [at |-> "known", about |-> p, who |-> <<p, 0>>])
       ELSE IF anonymous[p] = 0
       THEN Sits(h, [at |-> "unknown", about |-> p])
       ELSE \E i \in 1..anonymous[p] : Sits(h, [at |-> "known", about |-> p, who |-> <<p, i>>])
    /\ UNCHANGED <<anonymous, questions, replies, marks, serial, notices, restarts>>

\* no constraint on address and agent
SaveFAQAAnonymousUser(h) ==
    LET p == desk[h].about
    IN  /\ desk[h].at = "unknown"
        /\ anonymous' = [anonymous EXCEPT ![p] = @ + 1]
        /\ Sits(h, [at |-> "known", about |-> p, who |-> <<p, anonymous[p] + 1>>])
        /\ UNCHANGED <<questions, replies, marks, serial, notices, raced, calls, restarts>>

-----------------------------------------------------------------------------
(* Asking and marking *)

\* the pictures are saved, the row is written, a goroutine takes it to the channel
AddFAQQuestion(h) ==
    /\ desk[h].at = "known"
    /\ Len(questions) < MaxQuestions
    /\ questions' = Append(questions, [by |-> desk[h].who, answered |-> FALSE, deleted |-> FALSE])
    /\ told' = Append(told, {})
    /\ sending' = sending \cup {Len(questions) + 1}
    /\ Sits(h, AtRest)
    /\ UNCHANGED <<anonymous, replies, marks, serial, channel, gone, raced, calls, restarts>>

\* the question is there; is there a mark of the same person?  one way or the other
AddFAQMark(h, q, state) ==
    /\ desk[h].at = "known"
    /\ Exists(q)
    /\ Sits(h, [at |-> IF MarksBy(q, desk[h].who) = {} THEN "mark" ELSE "re-mark",
                about |-> desk[h].about, who |-> desk[h].who, question |-> q, state |-> state])
    /\ UNCHANGED <<anonymous, questions, replies, marks, serial, notices, raced, calls, restarts>>

\* refused when the question is gone, by the foreign key
CreateFAQMark(h) ==
    LET d == desk[h]
    IN  /\ d.at = "mark" /\ Exists(d.question)
        /\ marks' = marks \cup {[id |-> serial + 1, question |-> d.question, who |-> d.who,
                                state |-> d.state]}
        /\ serial' = serial + 1
        /\ Sits(h, AtRest)
        /\ UNCHANGED <<anonymous, questions, replies, notices, raced, calls, restarts>>

\* adds instead
Mutant_UpdateFAQMarkByID(h) ==
    LET d == desk[h]
    IN  /\ d.at = "re-mark" /\ Exists(d.question)
        /\ marks' = marks \cup {[id |-> serial + 1, question |-> d.question, who |-> d.who,
                                state |-> d.state]}
        /\ serial' = serial + 1
        /\ Sits(h, AtRest)
        /\ UNCHANGED <<anonymous, questions, replies, notices, raced, calls, restarts>>

\* whatever rows there are
UpdateFAQMarkByID(h) ==
    LET d == desk[h]
    IN  /\ d.at = "re-mark"
        /\ marks' = {IF k \in MarksBy(d.question, d.who) THEN [k EXCEPT !.state = d.state] ELSE k :
                        k \in marks}
        /\ Sits(h, AtRest)
        /\ UNCHANGED <<anonymous, questions, replies, serial, notices, raced, calls, restarts>>

-----------------------------------------------------------------------------
(* The way to the moderators *)

\* gives up when there is no place
Mutant_GoesToChannel(q) ==
    /\ q \in sending
    /\ sending' = sending \ {q}
    /\ channel' = IF Len(channel) < ChanFAQBot THEN Append(channel, q) ELSE channel
    /\ UNCHANGED <<anonymous, questions, replies, marks, serial, desk, told, gone, raced, calls,
                   restarts>>

\* as soon as there is place
GoesToChannel(q) ==
    /\ q \in sending /\ Len(channel) < ChanFAQBot
    /\ sending' = sending \ {q}
    /\ channel' = Append(channel, q)
    /\ UNCHANGED <<anonymous, questions, replies, marks, serial, desk, told, gone, raced, calls,
                   restarts>>

\* one question at a time to every moderator; a message that fails is not sent again
SendFAQToModerators ==
    /\ channel # <<>>
    /\ channel' = Tail(channel)
    /\ \E got \in SUBSET Moderators : told' = [told EXCEPT ![Head(channel)] = {"all"} \cup got]
    /\ UNCHANGED <<anonymous, questions, replies, marks, serial, desk, sending, gone, raced, calls,
                   restarts>>

\* the channel is closed on the way down: what waits for it, or is in it, is not told again
FaqRestarts ==
    /\ restarts < MaxRestarts
    /\ restarts' = restarts + 1
    /\ gone' = gone \cup sending \cup ToSet(channel)
    /\ sending' = {} /\ channel' = <<>>
    /\ desk' = [h \in Desks |-> AtRest]
    /\ UNCHANGED <<anonymous, questions, replies, marks, serial, told, raced, calls>>

-----------------------------------------------------------------------------
(* Moderators *)

\* the reject button: answers and marks go with the question, their pictures stay, since
\* they are looked for under the address they are shown at
HandleReject(m, q) ==
    /\ q \in DOMAIN questions /\ m \in told[q] /\ Exists(q)
    /\ questions' = [questions EXCEPT ![q].deleted = TRUE]
    /\ replies' = {a \in replies : a.question # q}
    /\ marks' = {k \in marks : k.question # q}
    /\ UNCHANGED <<anonymous, serial, desk, notices, raced, calls, restarts>>

\* a reply to the bot's prompt, which the approve button brought; the question is looked
\* up, the picture fetched and saved
HandleFAQMessage(h, m, q) ==
    /\ q \in DOMAIN questions /\ m \in told[q] /\ Exists(q)
    /\ TakesUp(h, q)
    /\ Sits(h, [at |-> "reply", about |-> q, who |-> m])
    /\ UNCHANGED <<anonymous, questions, replies, marks, serial, notices, restarts>>

\* is there an answer?  read outside the transaction
GetFAQAnswerByFAQQuestionID(h) ==
    LET d == desk[h]
        there == AnswersTo(d.about)
    IN  /\ d.at = "reply"
        /\ IF there = {} THEN Sits(h, [at |-> "add", about |-> d.about, who |-> d.who])
           ELSE \E a \in there :
                    Sits(h, [at |-> "change", about |-> d.about, who |-> d.who, row |-> a.id])
        /\ UNCHANGED <<anonymous, questions, replies, marks, serial, notices, raced, calls,
                       restarts>>

\* no foreign key
Mutant_AddFAQAnswer(h) ==
    LET d == desk[h]
    IN  /\ d.at = "add"
        /\ questions' = [questions EXCEPT ![d.about].answered = TRUE]
        /\ replies' = replies \cup {[id |-> serial + 1, question |-> d.about, by |-> d.who]}
        /\ serial' = serial + 1
        /\ Sits(h, AtRest)
        /\ UNCHANGED <<anonymous, marks, notices, raced, calls, restarts>>

\* both statements or, when the question is gone, none
AddFAQAnswer(h) ==
    LET d == desk[h]
    IN  /\ d.at = "add" /\ Exists(d.about)
        /\ questions' = [questions EXCEPT ![d.about].answered = TRUE]
        /\ replies' = replies \cup {[id |-> serial + 1, question |-> d.about, by |-> d.who]}
        /\ serial' = serial + 1
        /\ Sits(h, AtRest)
        /\ UNCHANGED <<anonymous, marks, notices, raced, calls, restarts>>

\* the row read, if it is there still
UpdateFAQAnswer(h) ==
    LET d == desk[h]
    IN  /\ d.at = "change"
        /\ replies' = {IF a.id = d.row THEN [a EXCEPT !.by = d.who] ELSE a : a \in replies}
        /\ Sits(h, AtRest)
        /\ UNCHANGED <<anonymous, questions, marks, serial, notices, raced, calls, restarts>>

-----------------------------------------------------------------------------
(* The list *)

There == {q \in DOMAIN questions : Exists(q)}

\* answered: the values asked for, both when the option is not given
Selected(who, mine, answered) ==
    {q \in There : IF mine THEN questions[q].by = who /\ questions[q].answered \in answered
                   ELSE questions[q].answered}

\* a row for every answer, or one for none; who's own marks are grouped
GetAllFAQ(who, mine, answered) ==
    UNION {IF AnswersTo(q) = {} THEN {<<q, 0>>} ELSE {<<q, a.id>> : a \in AnswersTo(q)} :
              q \in Selected(who, mine, answered)}

\* here what is answered counts in either case
GetFAQsTotals(who, mine, answered) ==
    Cardinality({q \in Selected(who, mine, answered) : questions[q].answered \in answered})

-----------------------------------------------------------------------------
FaqNext ==
    \/ \E h \in Desks :
        \/ \E p \in FaqUsers \cup Visitors : FAQAuthMiddleware(h, p)
        \/ SaveFAQAAnonymousUser(h)
        \/ AddFAQQuestion(h)
        \/ \E q \in DOMAIN questions, state \in {-1, 1} : AddFAQMark(h, q, state)
        \/ CreateFAQMark(h) \/ UpdateFAQMarkByID(h)
        \/ \E m \in Moderators, q \in DOMAIN questions : HandleFAQMessage(h, m, q)
        \/ GetFAQAnswerByFAQQuestionID(h) \/ AddFAQAnswer(h) \/ UpdateFAQAnswer(h)
        \/ DeskFails(h)
    \/ \E q \in sending : GoesToChannel(q)
    \/ \E m \in Moderators, q \in DOMAIN questions : HandleReject(m, q)
    \/ SendFAQToModerators \/ FaqRestarts

\* A goroutine that waits for the channel goes on when there is place for good; a message
\* to Telegram is delivered or fails.
FaqFairness ==
    /\ \A q \in 1..MaxQuestions : WF_faqVars(GoesToChannel(q))
    /\ WF_faqVars(SendFAQToModerators)

FaqSpec == FaqInit /\ [][FaqNext]_faqVars /\ FaqFairness

Announced(q) == q \in DOMAIN told /\ "all" \in told[q]

-----------------------------------------------------------------------------
(* Properties *)

FaqTypeOK ==
    /\ \A h \in Desks : desk[h].at \in {"rest", "unknown", "known", "mark", "re-mark",
                                        "reply", "add", "change"}
    /\ Len(channel) <= ChanFAQBot /\ ToSet(channel) \cap sending = {}

\* A question is marked as answered exactly if there is an answer to it, and no answer or
\* mark outlives its question, though it may be rejected while one is being written
\* (createOrUpdateFAQAnswer, AddFAQAnswer, the foreign keys).
AnsweredIffAnswer ==
    /\ \A q \in There : questions[q].answered <=> AnswersTo(q) # {}
    /\ \A a \in replies : Exists(a.question)
    /\ \A k \in marks : Exists(k.question)

\* As long as a person's requests, and the replies to a question, do not overlap, a person
\* has one voice on a question, and an answered question is listed once and counted once
\* (AddFAQMark, FAQAuthMiddleware, GetAllFAQ, GetFAQsTotals).
EverybodyOnce ==
    /\ \A p \in (FaqUsers \cup Visitors) \ raced : \A q \in There :
         Cardinality(UNION {MarksBy(q, <<p, i>>) : i \in 0..1}) <= 1
    /\ \A p \in Visitors \ raced : anonymous[p] <= 1
    /\ raced \cap DOMAIN questions = {} =>
         \A p \in FaqUsers : \A o \in BOOLEAN \X {{TRUE}, BOOLEAN} :
            Cardinality(GetAllFAQ(<<p, 0>>, o[1], o[2])) = GetFAQsTotals(<<p, 0>>, o[1], o[2])

\* Every question is announced, however many are asked at once, unless the process was
\* stopped before (AddFAQQuestion's goroutine, sendFAQToModerators).
EveryQuestionAnnounced ==
    \A q \in 1..MaxQuestions :
       q \in sending ~> (q \in gone \/ Announced(q))

\* The counts and marks that lists of questions show are those of its answers and users.
FaqCountsAgree == AnsweredIffAnswer /\ EverybodyOnce
=============================================================================
