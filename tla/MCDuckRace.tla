----------------------------- MODULE MCDuckRace -----------------------------
(***************************************************************************)
(* Instances of DuckDuel in which two requests interleave.                 *)
(***************************************************************************)
EXTENDS DuckDuel, TLC

CONSTANTS ann, bob, h1, h2

\* requests that race with each other around the moment the duel closes
MCRaceSchedules == {[deadline |-> 2, eventDate |-> 3]}

MCRace == {"create", "createAdmin", "join", "approve", "cancel", "beforeEvent"}

\* a user who joins twice at once, two moderators who resolve at once
MCJoins == {"create", "join"}
MCResolves == {"create", "join", "resolve"}

\* the two players differ in name only, and so do the two handlers
MCSymmetry == Permutations({ann, bob}) \cup Permutations({h1, h2})
=============================================================================
