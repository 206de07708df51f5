----------------------------- MODULE DuelEscrow -----------------------------
(***************************************************************************)
(* What a duck-point duel promises, with nothing of how it is done: a seat *)
(* costs Price, a duel closes once, and when it closes either everybody    *)
(* gets the price back, or winners and owner share no more than the stakes *)
(* of the seats that played, losers get at most a consolation and latecomers *)
(* get their price back.                                                   *)
(***************************************************************************)
EXTENDS Integers, FiniteSets, Functions

CONSTANTS Users, Duels, Price, Premium, Consolation

VARIABLES
    phase,   \* of every duel
    owner,   \* of every duel
    seat,    \* what became of each user's seat in each duel
    purse    \* points of every user

escrow == <<phase, owner, seat, purse>>

SeatsIn(d, what) == {u \in Users : seat[d][u] = what}

EscrowInit ==
    /\ phase = [d \in Duels |-> "none"]
    /\ owner \in [Duels -> {"nobody"}]
    /\ seat = [d \in Duels |-> [u \in Users |-> "none"]]
    /\ purse \in [Users -> Nat]

Take(d, u) ==
    /\ seat[d][u] = "none"
    /\ seat' = [seat EXCEPT ![d][u] = "held"]

\* the house opens duels without paying
Open(d, u, charge) ==
    /\ phase[d] = "none"
    /\ phase' = [phase EXCEPT ![d] = "open"]
    /\ owner' = [owner EXCEPT ![d] = u]
    /\ Take(d, u)
    /\ purse' = [purse EXCEPT ![u] = @ - charge]

Join(d, u) ==
    /\ phase[d] = "open"
    /\ Take(d, u)
    /\ purse' = [purse EXCEPT ![u] = @ - Price]
    /\ UNCHANGED <<phase, owner>>

\* what a user receives beyond a returned stake or a consolation
Gain(d, u) ==
    purse'[u] - purse[u]
      - (IF seat'[d][u] = "back" THEN Price ELSE 0)
      - (IF seat'[d][u] = "lost" /\ u \in Premium THEN Consolation ELSE 0)

Pay(d) ==
    LET Now(what) == {u \in Users : seat'[d][u] = what} IN
    /\ phase[d] = "open"
    /\ phase' = [phase EXCEPT ![d] = "paid"]
    /\ \A u \in Users : IF seat[d][u] = "held"
                          THEN seat'[d][u] \in {"won", "lost", "back"}
                          ELSE seat'[d][u] = seat[d][u]
    /\ \A e \in Duels \ {d} : seat'[e] = seat[e]
    /\ Now("won") # {} /\ Now("lost") # {}
    /\ \A u, w \in Now("won") \ {owner[d]} : Gain(d, u) = Gain(d, w)
    /\ \A u \in Users : Gain(d, u) >= 0
    /\ \A u \in Users \ (Now("won") \cup {owner[d]}) : Gain(d, u) = 0
    /\ SumFunction([u \in Users |-> Gain(d, u)])
         <= Price * Cardinality(Now("won") \cup Now("lost"))
    /\ UNCHANGED owner

GiveBack(d) ==
    /\ phase[d] = "open"
    /\ phase' = [phase EXCEPT ![d] = "returned"]
    /\ seat' = [seat EXCEPT ![d] = [u \in Users |->
                                      IF @[u] = "held" THEN "back" ELSE @[u]]]
    /\ purse' = [u \in Users |-> IF seat[d][u] = "held" THEN purse[u] + Price ELSE purse[u]]
    /\ UNCHANGED owner

EscrowNext ==
    \E d \in Duels :
       \/ \E u \in Users : Join(d, u) \/ \E charge \in {0, Price} : Open(d, u, charge)
       \/ Pay(d)
       \/ GiveBack(d)

EscrowSpec == EscrowInit /\ [][EscrowNext]_escrow
=============================================================================
