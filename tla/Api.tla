-------------------------------- MODULE Api --------------------------------
(***************************************************************************)
(* A request on its way through the layers to the services                 *)
(* (internal/handler), while the rows behind its token change: the claims  *)
(* of a token are copied from the user's row once, at sign-in, and carried *)
(* over by every refresh.                                                  *)
(***************************************************************************)
EXTENDS ApiRoutes, FiniteSets, FiniteSetsExt

CONSTANTS
    Clients,    \* rows of users that call
    NoClient    \* no claims, no token

ASSUME ApiAssumption == NoClient \notin Clients

VARIABLES
    admin,      \* users whose row has the admin role
    held,       \* the claims of the tokens in circulation
    mailed,     \* users with a live code sent by mail, and whether it left
    visit       \* the request on its way

apiVars == <<admin, held, mailed, visit>>

TokenClaims == [user : Clients, admin : BOOLEAN]
NoClaims == [user |-> NoClient, admin |-> FALSE]

\* was: admin since the request arrived, proved: its mail code was live (history)
NoVisit == [pc |-> "idle", group |-> 1, target |-> 1, at |-> 0, token |-> NoClaims,
            claims |-> NoClaims, caller |-> "nobody", who |-> NoClient, step |-> 0,
            told |-> 200, was |-> FALSE, proved |-> FALSE]

\* the route a request is for, and its handler
Route(v) == Groups[v.group][v.target]
HandlerOf(v) == Route(v).handler

ApiInit ==
    /\ admin = {}
    /\ held = {}
    /\ mailed = {}
    /\ visit = NoVisit

-----------------------------------------------------------------------------
(* Around the requests *)

\* roles are changed in the database
RoleChanges(u) ==
    /\ admin' = IF u \in admin THEN admin \ {u} ELSE admin \cup {u}
    /\ visit' = [visit EXCEPT !.was = @ \/ (visit.token.user = u /\ u \in admin')]
    /\ UNCHANGED <<held, mailed>>

\* the code's time to live
CodeExpires(u) == mailed' = mailed \ {u} /\ UNCHANGED <<admin, held, visit>>

TokenExpires(t) == held' = held \ {t} /\ UNCHANGED <<admin, mailed, visit>>

-----------------------------------------------------------------------------
(* The layers *)

\* apperrors, seen by LogErrors: an error of the application keeps its status,
\* however often it was wrapped the outermost counts; any other is a 500
Answered(status) == visit' = [NoVisit EXCEPT !.told = status]

\* u: the user it is about, of whom a request without a token still has to convince
UserArrives(g, i, t, u) ==
    /\ visit.pc = "idle"
    /\ t # NoClaims => u = t.user
    /\ Groups[g][i].layer = "route"
    /\ visit' = [NoVisit EXCEPT !.pc = "layers", !.group = g, !.target = i, !.token = t,
                                !.who = u, !.was = t.user \in admin]
    /\ UNCHANGED <<admin, held, mailed>>

\* Use entries registered before the route
Ahead(v) == {j \in (v.at + 1)..(v.target - 1) : Groups[v.group][j].layer # "route"}

\* then what stands before the handler on its own route
LayersOf(v) ==
    IF Ahead(v) # {} THEN <<Groups[v.group][Min(Ahead(v))].layer>> ELSE Route(v).before

InLayer(layer) ==
    /\ visit.pc = "layers"
    /\ visit.at # visit.target
    /\ LayersOf(visit) = <<layer>>

\* past a layer, with what it leaves for the handler
Past(v) == [v EXCEPT !.at = IF Ahead(v) # {} THEN Min(Ahead(v)) ELSE v.target]

AuthMiddleware ==
    /\ InLayer("auth")
    /\ IF visit.token = NoClaims THEN Answered(401)
       ELSE visit' = [Past(visit) EXCEPT !.claims = visit.token, !.caller = "user"]
    /\ UNCHANGED <<admin, held, mailed>>

\* a visitor without a token gets the identity stored for its address
FAQLayer ==
    /\ InLayer("faq")
    /\ \/ visit.token # NoClaims
          /\ visit' = [Past(visit) EXCEPT !.claims = visit.token, !.caller = "user"]
       \/ visit.token = NoClaims /\ visit' = [Past(visit) EXCEPT !.caller = "anonymous"]
       \/ visit.token = NoClaims /\ \E status \in {401, 500} : Answered(status)
    /\ UNCHANGED <<admin, held, mailed>>

\* believes the token
Mutant_PermittedAdmin(v) == v.claims.admin
PermittedAdmin(v) == v.claims.user \in admin

\* the row is read for every request; when that fails the answer is 401 too
CheckForAdminPermissions ==
    /\ InLayer("admin")
    /\ \/ PermittedAdmin(visit) /\ visit' = Past(visit)
       \/ Answered(401)
    /\ UNCHANGED <<admin, held, mailed>>

LimitReached == InLayer("limiter") /\ Answered(429) /\ UNCHANGED <<admin, held, mailed>>
LimitPassed == InLayer("limiter") /\ visit' = Past(visit) /\ UNCHANGED <<admin, held, mailed>>

\* Firebase verifies the token and tells the address
SignInWithGoogleMiddleware ==
    /\ InLayer("google")
    /\ visit' = Past(visit) \/ Answered(401)
    /\ UNCHANGED <<admin, held, mailed>>

-----------------------------------------------------------------------------
(* The handler *)

Bind ==
    /\ visit.pc = "layers"
    /\ visit.at = visit.target \/ LayersOf(visit) = <<>>
    /\ LET h == HandlerOf(visit) IN
       \/ h.bind /\ Answered(400)
       \/ visit' = [visit EXCEPT !.pc = IF h.mail THEN "code" ELSE "claims"]
    /\ UNCHANGED <<admin, held, mailed>>

\* the code in the request is the stored one, or it is not; a live code stays
CheckUsersEmailCode ==
    /\ visit.pc = "code"
    /\ \/ visit.who \in mailed /\ visit' = [visit EXCEPT !.pc = "claims", !.proved = TRUE]
       \/ Answered(401)
    /\ UNCHANGED <<admin, held, mailed>>

\* "claims not found"
TakeClaims ==
    /\ visit.pc = "claims"
    /\ IF HandlerOf(visit).claims /\ visit.caller = "nobody" THEN Answered(401)
       ELSE visit' = [visit EXCEPT !.pc = "calling", !.step = 1]
    /\ UNCHANGED <<admin, held, mailed>>

Op(v) == HandlerOf(v).calls[v.step]

\* the service refuses, or something behind it fails
CallRefused ==
    /\ visit.pc = "calling"
    /\ \E status \in {400, 401, 404, 409, 500} : Answered(status)
    /\ UNCHANGED <<admin, held>>
    /\ mailed' = IF Op(visit) = "SendCodeOnEmail" THEN mailed \cup {visit.who} ELSE mailed

\* NewTokenClaimsByUser copies the row the service returned
NewTokenClaimsByUser(u) == [user |-> u, admin |-> u \in admin]

CallReturns ==
    /\ visit.pc = "calling"
    /\ visit' = IF visit.step < Len(HandlerOf(visit).calls)
                  THEN [visit EXCEPT !.step = @ + 1] ELSE [NoVisit EXCEPT !.told = 200]
    /\ held' = CASE Op(visit) = "GenerateTokenPair" -> held \cup {NewTokenClaimsByUser(visit.who)}
                 [] OTHER -> held
    /\ mailed' = IF Op(visit) = "SendCodeOnEmail" THEN mailed \cup {visit.who} ELSE mailed
    /\ UNCHANGED admin

-----------------------------------------------------------------------------
ApiNext ==
    \/ \E u \in Clients : RoleChanges(u) \/ CodeExpires(u)
    \/ \E t \in held : TokenExpires(t)
    \/ \E g \in DOMAIN Groups : \E i \in DOMAIN Groups[g] :
          \E t \in held \cup {NoClaims}, u \in Clients : UserArrives(g, i, t, u)
    \/ AuthMiddleware \/ FAQLayer \/ CheckForAdminPermissions
    \/ LimitReached \/ LimitPassed \/ SignInWithGoogleMiddleware
    \/ Bind \/ CheckUsersEmailCode \/ TakeClaims \/ CallRefused \/ CallReturns

ApiSpec == ApiInit /\ [][ApiNext]_apiVars

-----------------------------------------------------------------------------
(* Properties *)

\* Every value keeps to its domain.
ApiTypeOK ==
    /\ admin \subseteq Clients /\ mailed \subseteq Clients
    /\ held \subseteq TokenClaims
    /\ visit.pc \in {"idle", "layers", "code", "claims", "calling"}
    /\ visit.claims \in TokenClaims \cup {NoClaims}
    /\ visit.told \in {200, 400, 401, 404, 409, 429, 500}

\* what only moderators may ask for
ModeratorCalls ==
    {"CreateNewDuelAdmin", "CreateNewCryptoDuelAdmin", "ResolveDuckPointDuelByAdmin",
     "ResolveCryptoDuelByAdmin", "ApproveDuel", "ApproveCryptoDuel",
     "CancelDuckPointDuelByAdmin", "CancelCryptoDuelByAdmin", "EditDuel", "SetTournamentID",
     "CreateDuelEntity", "UpdateDuelEntity", "CreateDuelSubtopic", "UpdateDuelSubtopic",
     "SaveAdminsFile", "RemoveFileAdmin", "GetModeratorStats", "CreateTournament", "UpdateRewards"}

\* A service is called on behalf of somebody entitled to it, whatever became of
\* the row since the token was made: moderators' calls only by a user whose row
\* had the role during this request (CheckForAdminPermissions reads it, the claim
\* is not asked), a handler that takes claims always has them (RegisterRoutes and
\* the handlers are two lists), and a code sent by mail was live when it was used.
CallsAreEntitled ==
    visit.pc = "calling" =>
       /\ Op(visit) \in ModeratorCalls => visit.was /\ visit.claims.user = visit.token.user
       /\ HandlerOf(visit).mail => visit.proved

\* ... and no request is refused for claims its route should have seen to.
ClaimsAreThere ==
    visit.pc = "claims" /\ HandlerOf(visit).claims =>
       \/ visit.caller = "user" /\ visit.claims = visit.token
       \/ visit.caller = "anonymous" /\ Groups[visit.group] = FAQRoutes

EntitledCalls == CallsAreEntitled /\ ClaimsAreThere
=============================================================================
