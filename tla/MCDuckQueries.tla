--------------------------- MODULE MCDuckQueries ---------------------------
(***************************************************************************)
(* DuckDuel with what is shown of it and with the escrow it implements,    *)
(* for TLC.                                                                *)
(***************************************************************************)
EXTENDS MCDuckDuel, DuckDuelEscrow, DuelQueries
============================================================================
