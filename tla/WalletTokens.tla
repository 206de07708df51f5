---------------------------- MODULE WalletTokens ----------------------------
(***************************************************************************)
(* The tokens a wallet shows: the wallet_tokens rows of a user, through    *)
(* internal/service/wallet_service.go and repository/wallet_token.go.      *)
(***************************************************************************)
EXTENDS Naturals

CONSTANTS
    Bearers,   \* users
    Mints,     \* mints that decode
    MaxEdits   \* bound: calls in all

ASSUME WalletTokensAssumption == "dpoint" \notin Mints /\ MaxEdits \in Nat

VARIABLES listed, edits

walletTokensVars == <<listed, edits>>

\* what sign-up left, duck points among it under a name that is no mint
SignUpTokens == {[mint |-> m, visible |-> TRUE, swappable |-> FALSE] : m \in Mints \cup {"dpoint"}}

WalletTokensInit == listed = [u \in Bearers |-> SignUpTokens] /\ edits = 0

Edits(u, rows) ==
    /\ edits < MaxEdits /\ edits' = edits + 1
    /\ listed' = [listed EXCEPT ![u] = rows]

MintsListed(u) == {r.mint : r \in listed[u]}

\* the mint must decode, and a row of the user and mint must not be there
AddTokenToUserWallet(u, r) ==
    /\ r.mint \in Mints \ MintsListed(u)
    /\ Edits(u, listed[u] \cup {r})

Mutant_UpdateToken(u, m, seen, swap) ==
    Edits(u, {r \in listed[u] : r.mint # m} \cup {[mint |-> m, visible |-> seen, swappable |-> swap]})

\* the flags given; of a mint that is not there nothing
UpdateToken(u, m, seen, swap) ==
    Edits(u, {IF r.mint = m THEN [r EXCEPT !.visible = seen, !.swappable = swap] ELSE r : r \in listed[u]})

RemoveTokenFromUserWallet(u, m) == Edits(u, {r \in listed[u] : r.mint # m})

WalletTokensNext ==
    \E u \in Bearers, m \in Mints \cup {"dpoint"} :
        \/ RemoveTokenFromUserWallet(u, m)
        \/ \E seen, swap \in BOOLEAN :
            \/ UpdateToken(u, m, seen, swap)
            \/ AddTokenToUserWallet(u, [mint |-> m, visible |-> seen, swappable |-> swap])

WalletTokensSpec == WalletTokensInit /\ [][WalletTokensNext]_walletTokensVars

-----------------------------------------------------------------------------
\* One row per mint (unique_user_per_token, and edits that never insert).
WalletTokensTypeOK == \A u \in Bearers : \A r, s \in listed[u] : r.mint = s.mint => r = s

\* Duck points taken off the list stay off it: their name is no mint, so adding them is
\* refused and editing them edits nothing (AddTokenToUserWallet, Update by user and mint).
DuckPointsStayRemoved ==
    [][\A u \in Bearers : "dpoint" \in MintsListed(u)' => "dpoint" \in MintsListed(u)]_walletTokensVars
=============================================================================
