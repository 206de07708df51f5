---------------------------- MODULE MCCryptoDuel ----------------------------
(***************************************************************************)
(* Instances of CryptoDuel for TLC.                                        *)
(***************************************************************************)
EXTENDS CryptoDuel, TLC

CONSTANTS ann, bob, moderator, h1, h2

\* ann was brought in by bob
MCReferrerOf == [u \in Users |-> IF u = ann THEN bob ELSE Null]

\* A stake charged in time may be recorded after the deadline; for the cron that
\* runs before the event it is then in time, for the one that runs after it late.
MCSchedules == {[deadline |-> 1, eventDate |-> 3]}

MCRaceSchedules == {[deadline |-> 1, eventDate |-> 2], [deadline |-> 2, eventDate |-> 2]}

MCEverything == {"create", "createAdmin", "join", "approve", "approveDuel", "resolve", "cancel",
                 "onEvent", "beforeEvent", "autoCancel"}

MCRace == {"create", "createAdmin", "join", "approve", "approveDuel", "edit", "cancel",
           "resolve"}

MCReview == {"create", "approve", "cancel"}

MCSymmetry == Permutations({h1, h2})
=============================================================================
