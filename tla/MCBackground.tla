---------------------------- MODULE MCBackground ----------------------------
(***************************************************************************)
(* What runs beside the duels, for TLC: the transaction tracker, questions *)
(* to the moderators, the tokens of a wallet, and coins with their prices. *)
(* They share no state; a behaviour is one component's, the others rest.   *)
(***************************************************************************)
EXTENDS SigTracker, Faq, WalletTokens, Coins

VARIABLE focus

backgroundVars == <<focus, vars, faqVars, walletTokensVars, coinsVars>>

BackgroundInit ==
    /\ focus \in {"tracker", "faq", "tokens", "coins"}
    /\ Init /\ FaqInit /\ WalletTokensInit /\ CoinsInit

BackgroundNext ==
    \/ /\ focus = "tracker" /\ Next
       /\ UNCHANGED <<focus, faqVars, walletTokensVars, coinsVars>>
    \/ /\ focus = "faq" /\ FaqNext
       /\ UNCHANGED <<focus, vars, walletTokensVars, coinsVars>>
    \/ /\ focus = "tokens" /\ WalletTokensNext
       /\ UNCHANGED <<focus, vars, faqVars, coinsVars>>
    \/ /\ focus = "coins" /\ CoinsNext
       /\ UNCHANGED <<focus, vars, faqVars, walletTokensVars>>

\* A component at rest has no action that fairness would ask for: in its initial state
\* all of them are disabled.
BackgroundSpec ==
    /\ BackgroundInit /\ [][BackgroundNext]_backgroundVars
    /\ TrackerFairness /\ FaqFairness

\* Every component keeps its types.
BackgroundTypeOK == TypeOK /\ FaqTypeOK /\ WalletTokensTypeOK /\ CoinsTypeOK
=============================================================================
