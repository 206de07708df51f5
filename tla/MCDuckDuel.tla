----------------------------- MODULE MCDuckDuel -----------------------------
(***************************************************************************)
(* Instances of DuckDuel for TLC.                                          *)
(***************************************************************************)
EXTENDS DuckDuel

\* one duel that stops taking seats before its event, one whose event comes first
MCSchedules == {[deadline |-> 1, eventDate |-> 2], [deadline |-> 3, eventDate |-> 2]}

MCEverything == {"create", "createAdmin", "createCron", "join", "approve", "edit",
                 "resolve", "cancel", "onEvent", "beforeEvent", "autoCancel"}

\* two duels worked through from one list
MCCronSchedules == {[deadline |-> 2, eventDate |-> 2]}

MCCron == {"create", "createCron", "join", "edit", "resolve", "onEvent", "beforeEvent",
           "autoCancel"}
=============================================================================
