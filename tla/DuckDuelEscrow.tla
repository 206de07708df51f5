--------------------------- MODULE DuckDuelEscrow ---------------------------
(***************************************************************************)
(* One request at a time, DuckDuel keeps the promises of DuelEscrow.       *)
(***************************************************************************)
EXTENDS DuckDuel

Phase(d) ==
    CASE duels[d].status = NoStatus -> "none"
      [] duels[d].status = Resolved -> "paid"
      [] duels[d].status \in Cancelled -> "returned"
      [] OTHER -> "open"

\* the status column of the seat means something once the duel is closed
SeatOf(d, u) ==
    LET mine == {i \in Rows(d) : players[d][i].user = u} IN
    CASE mine = {} -> "none"
      [] mine # {} /\ Phase(d) = "open" -> "held"
      [] mine # {} /\ Phase(d) = "returned" -> "back"
      [] OTHER -> CASE mine \cap RowsWith(d, PlayerResolved) # {} -> "won"
                    [] mine \cap RowsWith(d, PlayerRefunded) # {} -> "back"
                    [] OTHER -> "lost"

Escrow == INSTANCE DuelEscrow WITH
    Price <- DuelPrice,
    Consolation <- PremiumPlayersConsolationReward,
    phase <- [d \in Duels |-> Phase(d)],
    owner <- [d \in Duels |-> IF Phase(d) = "none" THEN "nobody" ELSE duels[d].owner],
    seat  <- [d \in Duels |-> [u \in Users |-> SeatOf(d, u)]],
    purse <- balance

\* Every duel closes once, pays winners and owner no more than the stakes that
\* played and returns the others: the settlement and cancellation transactions,
\* run one at a time, implement the escrow.
KeepsEscrow == Escrow!EscrowSpec
=============================================================================
