------------------------------ MODULE Sessions ------------------------------
(***************************************************************************)
(* Sessions of one user and the link of the Telegram bot, both in Redis:   *)
(* internal/service/jwt_service.go, auth_service.go and                    *)
(* internal/storage/cache/jwt_storage.go, telegram_storage.go.             *)
(*                                                                         *)
(* Each call to Redis is a step.  A session is a field of the user's hash, *)
(* named by the millisecond of its id (a version 7 UUID), with the refresh *)
(* token as its value; tokens are numbered as they are made.               *)
(***************************************************************************)
EXTENDS Integers, Sequences, FiniteSets, FiniteSetsExt, Functions

CONSTANTS
    UserSessionsLimit,      \* 5 in the code
    MaxTGBotLoginLinkUsages, \* 2 in the code
    CounterModulus,         \* 2^8 in the code: the counter is read as a uint8
    RefreshTokenTTL,        \* in ticks of the clock
    Handlers,               \* requests in flight
    MaxTokens,              \* bound: tokens that are made
    MaxReads,               \* bound: reads of a code
    MaxCodes,               \* bound: codes the bot makes
    LastTick                \* bound: the clock stops here

ASSUME LimitsAssumption ==
    /\ UserSessionsLimit \in Nat \ {0} /\ MaxTGBotLoginLinkUsages \in Nat
    /\ CounterModulus \in Nat /\ CounterModulus > MaxTGBotLoginLinkUsages
    /\ RefreshTokenTTL \in Nat \ {0}
ASSUME BoundsAssumption ==
    /\ IsFiniteSet(Handlers) /\ Handlers # {}
    /\ {MaxTokens, MaxReads, MaxCodes, LastTick} \subseteq Nat

VARIABLES
    now,       \* the clock
    tokens,    \* refresh tokens, in the order of their session ids
    sessions,  \* the hash user:<id>:session: token by field
    link,      \* the value under the Telegram id
    uses,      \* history: reads of each code, acceptances before any overlap
    req,       \* what each request is doing
    overlapped \* history: two requests have been in flight at once

vars == <<now, tokens, sessions, link, uses, req, overlapped>>

NoLink == [code |-> 0, reads |-> 0]
Idle == [pc |-> "idle", token |-> 0, prev |-> 0, fields |-> {}, code |-> 0, read |-> NoLink]

Init ==
    /\ now = 1
    /\ tokens = <<>>
    /\ sessions = <<>>
    /\ link = NoLink
    /\ uses = <<>>
    /\ req = [h \in Handlers |-> Idle]
    /\ overlapped = FALSE

Become(h, r) == req' = [req EXCEPT ![h] = r]

Arrives(h) ==
    /\ req[h].pc = "idle"
    /\ overlapped' = (overlapped \/ \E g \in Handlers : req[g].pc # "idle")

\* fields expire with their tokens
Tick ==
    /\ now < LastTick
    /\ now' = now + 1
    /\ sessions' = Restrict(sessions, {f \in DOMAIN sessions : f + RefreshTokenTTL > now + 1})
    /\ UNCHANGED <<tokens, link, uses, req, overlapped>>

\* a call to Redis fails, or the process dies
Fails(h) ==
    /\ req[h].pc # "idle"
    /\ Become(h, Idle)
    /\ UNCHANGED <<now, tokens, sessions, link, uses, overlapped>>

\* the bot's link, and the answer of a request, are in somebody's hands
Handed == {t \in DOMAIN tokens : tokens[t].handed}
Expired(t) == tokens[t].field + RefreshTokenTTL <= now

\* history: handed out, accepted by a refresh, exchanged so often before any overlap
NewToken == [field |-> now, handed |-> FALSE, begun |-> FALSE, renewed |-> 0]

-----------------------------------------------------------------------------
(* JWTStorage.Save, for a sign-in and for a refresh *)

\* NewV7: the session's id
MakeToken(r) == [r EXCEPT !.pc = "count", !.token = Len(tokens) + 1]

\* HLEN
CountSessions(h) ==
    /\ req[h].pc = "count"
    /\ Become(h, [req[h] EXCEPT
                    !.pc = IF Cardinality(DOMAIN sessions) >= UserSessionsLimit
                           THEN "list" ELSE "save"])
    /\ UNCHANGED <<now, tokens, sessions, link, uses, overlapped>>

\* deletes the youngest
Mutant_FieldsToDelete(fields) ==
    {f \in fields : Cardinality({g \in fields : g < f}) >= UserSessionsLimit - 1}
\* all but the youngest UserSessionsLimit - 1
FieldsToDelete(fields) ==
    {f \in fields : Cardinality({g \in fields : g > f}) >= UserSessionsLimit - 1}

\* HKEYS
ListSessions(h) ==
    LET fields == DOMAIN sessions
    IN  /\ req[h].pc = "list"
        /\ Become(h, IF Cardinality(fields) >= UserSessionsLimit
                     THEN [req[h] EXCEPT !.pc = "evict", !.fields = FieldsToDelete(fields)]
                     ELSE [req[h] EXCEPT !.pc = "save"])
        /\ UNCHANGED <<now, tokens, sessions, link, uses, overlapped>>

\* HDEL of the fields listed
EvictSessions(h) ==
    /\ req[h].pc = "evict"
    /\ sessions' = Restrict(sessions, DOMAIN sessions \ req[h].fields)
    /\ Become(h, [req[h] EXCEPT !.pc = "save", !.fields = {}])
    /\ UNCHANGED <<now, tokens, link, uses, overlapped>>

\* HSET, and the answer
SaveSession(h) ==
    LET t == req[h].token
        f == tokens[t].field
        p == req[h].prev
    IN  /\ req[h].pc = "save"
        /\ sessions' = IF Expired(t) THEN sessions
                       ELSE [g \in DOMAIN sessions \cup {f} |-> IF g = f THEN t ELSE sessions[g]]
        /\ tokens' = [s \in DOMAIN tokens |->
                         [tokens[s] EXCEPT !.handed = @ \/ s = t,
                                           !.renewed = IF s = p /\ ~overlapped THEN @ + 1 ELSE @]]
        /\ Become(h, Idle)
        /\ UNCHANGED <<now, link, uses, overlapped>>

-----------------------------------------------------------------------------
(* Signing in with an email, a wallet, Google or the mini app *)

GenerateTokenPair(h) ==
    /\ Arrives(h)
    /\ Len(tokens) < MaxTokens
    /\ tokens' = Append(tokens, NewToken)
    /\ Become(h, MakeToken(Idle))
    /\ UNCHANGED <<now, sessions, link, uses>>

-----------------------------------------------------------------------------
(* RefreshSession *)

\* the stored token is this one
Matches(t) == tokens[t].field \in DOMAIN sessions /\ sessions[tokens[t].field] = t

\* HGET, a new session id
RefreshSession(h, t) ==
    /\ Arrives(h)
    /\ t \in Handed /\ ~Expired(t) /\ Matches(t)
    /\ Len(tokens) < MaxTokens
    /\ tokens' = Append([tokens EXCEPT ![t].begun = TRUE], NewToken)
    /\ Become(h, [MakeToken(Idle) EXCEPT !.pc = "drop", !.prev = t])
    /\ UNCHANGED <<now, sessions, link, uses>>

\* deletes the new session's field
Mutant_DroppedField(r) == tokens[r.token].field
DroppedField(r) == tokens[r.prev].field

\* HDEL of the session refreshed
DeleteUserSession(h) ==
    /\ req[h].pc = "drop"
    /\ sessions' = Restrict(sessions, DOMAIN sessions \ {DroppedField(req[h])})
    /\ Become(h, [req[h] EXCEPT !.pc = "count"])
    /\ UNCHANGED <<now, tokens, link, uses, overlapped>>

-----------------------------------------------------------------------------
(* The link of the Telegram bot *)

\* LoginCommandHandler: a new code, not read so far
SaveTelegramCode ==
    /\ Len(uses) < MaxCodes
    /\ link' = [code |-> Len(uses) + 1, reads |-> 0]
    /\ uses' = Append(uses, [reads |-> 0, accepted |-> 0])
    /\ UNCHANGED <<now, tokens, sessions, req, overlapped>>

\* its time to live is over
LinkExpires ==
    /\ link # NoLink
    /\ link' = NoLink
    /\ UNCHANGED <<now, tokens, sessions, uses, req, overlapped>>

\* GET; code 0 is one the bot never made
GetCodeTelegramID(h, code) ==
    /\ Arrives(h)
    /\ link # NoLink
    /\ uses[link.code].reads < MaxReads
    /\ uses' = [uses EXCEPT ![link.code].reads = @ + 1]
    /\ Become(h, [Idle EXCEPT !.pc = "link", !.code = code, !.read = link])
    /\ UNCHANGED <<now, tokens, sessions, link>>

\* the counter as the code compares it
ReadCounter(l) == l.reads % CounterModulus

\* the next reader finds the counter where this one did
Mutant_Counted(l) == l
\* counts before and after the comparison
MutantAgain_Counted(l) == [l EXCEPT !.reads = @ + 2]
Counted(l) == [l EXCEPT !.reads = @ + 1]

Accepts(r) == r.read.code = r.code /\ ReadCounter(r.read) < MaxTGBotLoginLinkUsages

\* SET of the link read, counted; then CheckUsersTelegramCode
CountAndAccept(h) ==
    LET r == req[h]
    IN  /\ r.pc = "link" /\ Accepts(r)
        /\ Len(tokens) < MaxTokens
        /\ link' = Counted(r.read)
        /\ uses' = [uses EXCEPT ![r.code].accepted = IF overlapped THEN @ ELSE @ + 1]
        /\ tokens' = Append(tokens, NewToken)
        /\ Become(h, MakeToken(Idle))
        /\ UNCHANGED <<now, sessions, overlapped>>

CountAndRefuse(h) ==
    LET r == req[h]
    IN  /\ r.pc = "link" /\ ~Accepts(r)
        /\ link' = Counted(r.read)
        /\ Become(h, IF r.read.code = r.code THEN [Idle EXCEPT !.pc = "forget"] ELSE Idle)
        /\ UNCHANGED <<now, tokens, sessions, uses, overlapped>>

\* DEL of a link that was used up
DeleteCodeByTelegramID(h) ==
    /\ req[h].pc = "forget"
    /\ link' = NoLink
    /\ Become(h, Idle)
    /\ UNCHANGED <<now, tokens, sessions, uses, overlapped>>

-----------------------------------------------------------------------------
Next ==
    \/ Tick \/ SaveTelegramCode \/ LinkExpires
    \/ \E h \in Handlers :
          \/ GenerateTokenPair(h)
          \/ CountSessions(h) \/ ListSessions(h) \/ EvictSessions(h) \/ SaveSession(h)
          \/ \E t \in Handed : RefreshSession(h, t)
          \/ DeleteUserSession(h)
          \/ \E code \in 0..Len(uses) : GetCodeTelegramID(h, code)
          \/ CountAndAccept(h) \/ CountAndRefuse(h) \/ DeleteCodeByTelegramID(h)
          \/ Fails(h)

Spec == Init /\ [][Next]_vars

-----------------------------------------------------------------------------
(* Properties *)

\* A field names the millisecond its session was made in, requests refer to tokens that
\* exist, and the counter of a link never runs ahead of its reads.
TypeOK ==
    /\ DOMAIN sessions \subseteq 1..now
    /\ \A f \in DOMAIN sessions : sessions[f] \in DOMAIN tokens /\ tokens[sessions[f]].field = f
    /\ link.code \in 0..Len(uses)
    /\ link.reads \in 0..(IF link = NoLink THEN 0 ELSE uses[link.code].reads)
    /\ \A h \in Handlers : {req[h].token, req[h].prev} \subseteq 0..Len(tokens)

\* The session limit is checked, enforced and used up in separate calls to Redis.  Each
\* request that runs beside another adds at most one session to the limit, however many
\* come and go.
SessionsBounded ==
    Cardinality(DOMAIN sessions) <= UserSessionsLimit + Cardinality(Handlers) - 1

\* A token somebody holds and has not tried to refresh stays good until it expires or
\* a limit of younger sessions is made, whatever fails or is refreshed meanwhile; when
\* requests overlap, a slow one may count its own older session for the last of these.
\* Two sessions of one millisecond share a field: of those the property says nothing.
HeldTokenStays ==
    \A t \in Handed :
       \/ tokens[t].begun \/ Expired(t)
       \/ \E s \in DOMAIN tokens \ {t} : tokens[s].field = tokens[t].field
       \/ Len(tokens) - t >= IF overlapped THEN UserSessionsLimit - 1 ELSE UserSessionsLimit
       \/ Matches(t)

\* As long as requests do not overlap, a token is refreshed once, though a refresh may
\* fail half way and be tried again.
RefreshedOnce ==
    ~overlapped => \A t \in DOMAIN tokens : tokens[t].renewed <= 1

\* As long as requests do not overlap, a link opens two sessions for every turn of its
\* counter, begun or complete; wrong codes turn the counter as well.
LinkOpensTwo ==
    ~overlapped =>
       \A c \in DOMAIN uses :
          LET turns == (uses[c].reads + CounterModulus - 1) \div CounterModulus
          IN  uses[c].accepted <= MaxTGBotLoginLinkUsages * turns

\* Sessions are kept and bounded: the limit evicts old ones and only old ones.
SessionsKept == SessionsBounded /\ HeldTokenStays

\* A token and a link are used up by their use (RefreshSession, GetCodeTelegramID).
UsedOnce == RefreshedOnce /\ LinkOpensTwo
=============================================================================
