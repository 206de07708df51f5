------------------------------ MODULE MCAccess ------------------------------
(***************************************************************************)
(* Who gets in, for TLC: sessions and the link of the bot, the rate        *)
(* limiter, and a request on its way through the layers.  They share no    *)
(* state; a behaviour is one component's, the others rest.                 *)
(***************************************************************************)
EXTENDS Sessions, RateLimiter, Api, TLC

VARIABLE focus

accessVars == <<focus, vars, limiterVars, apiVars>>

AccessInit ==
    /\ focus \in {"sessions", "limiter", "api"}
    /\ Init /\ LimiterInit /\ ApiInit

AccessNext ==
    \/ focus = "sessions" /\ Next /\ UNCHANGED <<focus, limiterVars, apiVars>>
    \/ focus = "limiter" /\ LimiterNext /\ UNCHANGED <<focus, vars, apiVars>>
    \/ focus = "api" /\ ApiNext /\ UNCHANGED <<focus, vars, limiterVars>>

AccessSpec == AccessInit /\ [][AccessNext]_accessVars

\* Every component keeps its types.
AccessTypeOK == TypeOK /\ LimiterTypeOK /\ ApiTypeOK

\* two requests differ in name only, and so do two users; one permutation swaps both
\* pairs, since all components but one are where they began
Twins == {Handlers, Clients}
MCSymmetry ==
    {p \in Permutations(UNION Twins) :
       \/ \A x \in UNION Twins : p[x] = x
       \/ \A pair \in Twins : \A x \in pair : p[x] \in pair \ {x}}
=============================================================================
