------------------------------ MODULE Wallets ------------------------------
(***************************************************************************)
(* Wallets: USDC transfers and swaps through Jupiter.                      *)
(* internal/service/wallet_transfer.go, the building of transactions in    *)
(* wallet_contract.go, client/jupiter.                                     *)
(*                                                                         *)
(* A transaction is known to the service by its signature only: the chain  *)
(* executes it later, or never, and the answer to a send may be lost after *)
(* the node took it. Transfers wait for the tracker, whose answer is true  *)
(* only of a transaction that is confirmed and did not fail (SigTracker);  *)
(* swaps do not wait, and try again when sending fails.                    *)
(***************************************************************************)
EXTENDS Integers, FiniteSets, Functions

CONSTANTS
    Owners,             \* users with a key in the vault
    Foreign,            \* addresses of no user
    Coin,               \* mints besides USDC
    AskedSums,          \* amounts asked for
    Endowment,          \* what an owner holds of each mint at first
    TransferAsks,       \* transfer requests, each made once
    SwapAsks,           \* swap requests, each made once
    SwapMaxRetryCount

ASSUME WalletsAssumption ==
    /\ AskedSums \subseteq Nat /\ Endowment \in Nat
    /\ SwapMaxRetryCount \in Nat \ {0}
    /\ "usdc" \notin Coin /\ "pool" \notin Owners \cup Foreign
    /\ TransferAsks \cap SwapAsks = {}

VARIABLES
    held,    \* chain: what an address holds of a mint
    opened,  \* chain: token accounts that exist, by address and mint
    asks,    \* requests: where they are and what they have read
    wires    \* transactions given to a node, by request and attempt

walletsVars == <<held, opened, asks, wires>>

Asks == TransferAsks \cup SwapAsks
Money == Coin \cup {"usdc"}
Addresses == Owners \cup Foreign
Holders == Addresses \cup {"pool", "house"}
Attempts == 1..SwapMaxRetryCount
NewAsk == [at |-> "new", try |-> 1, lostAnswers |-> 0]

\* the code of a transaction: how often it has each instruction, in no order
Budget == {"price", "limit"}
Instructions == Budget \cup {"open", "transfer", "route", "init", "join", "close", "reallocate"}
Once(some) == [i \in Instructions |-> IF i \in some THEN 1 ELSE 0]
NoWire == [net |-> "unsent", code |-> Once({})]

WalletsInit ==
    /\ held = [h \in Holders |-> [m \in Money |-> IF h \in Owners THEN Endowment ELSE 0]]
    /\ opened = Owners \X Money
    /\ asks = [q \in Asks |-> NewAsk]
    /\ wires = [w \in Asks \X Attempts |-> NoWire]

-----------------------------------------------------------------------------
(* Building a transaction *)

Mutant_RemoveComputeBudgetInstructionsFromTx(code) == code
RemoveComputeBudgetInstructionsFromTx(code) ==
    [i \in Instructions |-> IF i \in Budget THEN 0 ELSE code[i]]

\* a price and a limit in front of the instructions, whether the limit is what the
\* simulation consumed or, when that fails, an average (transfers only)
TransferCode(init) == Once(Budget \cup {"transfer"} \cup (IF init THEN {"open"} ELSE {}))

\* Jupiter's transaction without its budget, a price and a limit behind it
WithBudget(code) == [i \in Instructions |-> code[i] + Once(Budget)[i]]
SwapCode(quoted) == WithBudget(RemoveComputeBudgetInstructionsFromTx(quoted))

\* transactions of the contract service, one after the other; none brings a budget
GetTxInstructions(txs) == [i \in Instructions |-> SumFunction([n \in DOMAIN txs |-> txs[n][i]])]
RoomCode(txs) == WithBudget(GetTxInstructions(txs))
RoomTxs == {<< {"init"} >>, << {"join"} >>, << {"close"} >>,
            << {"init"}, {"join"} >>, << {"reallocate"}, {"join"} >>}
RoomCodes == {RoomCode([n \in DOMAIN txs |-> Once(txs[n])]) : txs \in RoomTxs}

QuotedCodes == {Once(Budget \cup {"route"}), Once({"route"})}

-----------------------------------------------------------------------------
(* Transfers *)

\* of the chain as it is now
HasEnoughTokenBalance(u, m, amount) == <<u, m>> \in opened /\ held[u][m] >= amount

Asked(q, u, to, from, amount) ==
    /\ asks[q].at = "new"
    /\ asks' = [asks EXCEPT ![q] =
         [at |-> "checked", try |-> 1, lostAnswers |-> 0, user |-> u, to |-> to, from |-> from,
          amount |-> amount, code |-> Once({})]]

Goes(q, from, to) == asks[q].at = from /\ asks' = [asks EXCEPT ![q].at = to]
Built(q, code) == asks' = [asks EXCEPT ![q].at = "built", ![q].code = code]

\* the recipient is an address; the sender exists, has a key, and has enough
Transfer(q, u, to, amount) ==
    /\ HasEnoughTokenBalance(u, "usdc", amount)
    /\ Asked(q, u, to, "usdc", amount)
    /\ UNCHANGED <<held, opened, wires>>

Mutant_RecipientInfo(to) == {FALSE}

\* the node may not know yet that the recipient's account exists
RecipientInfo(to) == IF <<to, "usdc">> \in opened THEN {FALSE, TRUE} ELSE {TRUE}

\* the account is opened with the transfer unless it was there
ProceedTransfer(q) ==
    /\ asks[q].at = "checked"
    /\ \E init \in RecipientInfo(asks[q].to) : Built(q, TransferCode(init))
    /\ UNCHANGED <<held, opened, wires>>

-----------------------------------------------------------------------------
(* Swaps *)

\* the balance is looked at once, before the first attempt
Swap(q, u, from, amount) ==
    /\ HasEnoughTokenBalance(u, from, amount)
    /\ Asked(q, u, "pool", from, amount)
    /\ UNCHANGED <<held, opened, wires>>

\* quote, transaction, lookups and two simulations; each may fail
SwapBuilt(q) ==
    /\ asks[q].at = "checked"
    /\ \E quoted \in QuotedCodes : Built(q, SwapCode(quoted))
    /\ UNCHANGED <<held, opened, wires>>

\* four attempts, whatever failed
NextAttempt(a) ==
    IF a.try < SwapMaxRetryCount THEN [a EXCEPT !.try = @ + 1, !.at = "checked"]
    ELSE [a EXCEPT !.at = "refused"]

SwapAttemptFails(q) ==
    /\ asks[q].at \in {"checked", "built"}
    /\ asks' = [asks EXCEPT ![q] = NextAttempt(@)]
    /\ UNCHANGED <<held, opened, wires>>

-----------------------------------------------------------------------------
(* Sending *)

Wire(q) == <<q, asks[q].try>>
Taken(q) == wires' = [wires EXCEPT ![Wire(q)] = [net |-> "flying", code |-> asks[q].code]]

\* the node takes it and answers its signature
SendTransaction(q) ==
    /\ Goes(q, "built", IF q \in TransferAsks THEN "tracking" ELSE "told")
    /\ Taken(q)
    /\ UNCHANGED <<held, opened>>

\* it takes it and the answer is lost
SendAnswerLost(q) ==
    /\ asks[q].at = "built"
    /\ Taken(q)
    /\ LET a == [asks[q] EXCEPT !.lostAnswers = @ + 1]
       IN asks' = [asks EXCEPT ![q] =
            IF q \in TransferAsks THEN [a EXCEPT !.at = "refused"] ELSE NextAttempt(a)]
    /\ UNCHANGED <<held, opened>>

\* whatever the tracker says, the error being only a timeout
Mutant_SendTxWithTracker(q) ==
    /\ Goes(q, "tracking", "told")
    /\ UNCHANGED <<held, opened, wires>>

\* told, when the tracker says so
SendTxWithTracker(q) ==
    /\ Goes(q, "tracking", "told")
    /\ wires[Wire(q)].net = "landed"
    /\ UNCHANGED <<held, opened, wires>>

\* every error before the sending, and a timeout after it
TransferFails(q) ==
    /\ asks[q].at \in {"checked", "built", "tracking"}
    /\ asks' = [asks EXCEPT ![q].at = "refused"]
    /\ UNCHANGED <<held, opened, wires>>

-----------------------------------------------------------------------------
(* The chain *)

Runs(w) ==
    LET a == asks[w[1]]
    IN /\ held[a.user][a.from] >= a.amount
       /\ w[1] \in TransferAsks => (wires[w].code["open"] = 1 <=> <<a.to, "usdc">> \notin opened)

\* all its instructions, or none
Lands(w, mint) ==
    LET a == asks[w[1]]
        paid == [held EXCEPT ![a.user][a.from] = @ - a.amount]
        got == [paid EXCEPT ![a.to][a.from] = @ + a.amount]
    IN
    /\ wires[w].net = "flying" /\ Runs(w)
    /\ wires' = [wires EXCEPT ![w].net = "landed"]
    /\ held' = IF w[1] \in TransferAsks THEN got ELSE [got EXCEPT ![a.user][mint] = @ + 1]
    /\ opened' = opened \cup
         {IF w[1] \in TransferAsks THEN <<a.to, "usdc">> ELSE <<a.user, mint>>}
    /\ UNCHANGED <<asks>>

Reverts(w) ==
    /\ wires[w].net = "flying" /\ ~Runs(w)
    /\ wires' = [wires EXCEPT ![w].net = "failed"]
    /\ UNCHANGED <<held, opened, asks>>

\* its block hash is too old
Expires(w) ==
    /\ wires[w].net = "flying"
    /\ wires' = [wires EXCEPT ![w].net = "expired"]
    /\ UNCHANGED <<held, opened, asks>>

-----------------------------------------------------------------------------
WalletsNext ==
    \/ \E q \in TransferAsks :
        \/ \E u \in Owners, to \in Addresses, amount \in AskedSums : Transfer(q, u, to, amount)
        \/ ProceedTransfer(q) \/ SendTxWithTracker(q) \/ TransferFails(q)
    \/ \E q \in SwapAsks :
        \/ \E u \in Owners, m \in Money, amount \in AskedSums : Swap(q, u, m, amount)
        \/ SwapBuilt(q) \/ SwapAttemptFails(q)
    \/ \E q \in Asks : SendTransaction(q) \/ SendAnswerLost(q)
    \/ \E w \in Asks \X Attempts : Reverts(w) \/ Expires(w) \/ \E m \in Money : Lands(w, m)

WalletsSpec == WalletsInit /\ [][WalletsNext]_walletsVars

-----------------------------------------------------------------------------
(* Properties *)

WalletsTypeOK ==
    /\ \A h \in Holders : \A m \in Money : held[h][m] \in Nat
    /\ \A q \in Asks : asks[q].at \in {"new", "checked", "built", "tracking", "told", "refused"}
    /\ \A w \in Asks \X Attempts :
        wires[w].net \in {"unsent", "flying", "landed", "failed", "expired"}

WiresOf(q) == {n \in Attempts : wires[<<q, n>>].net # "unsent"}

\* What a request is told. A transfer answered with a signature moved the money, and a
\* swap's signature was taken by a node. A request puts out no second transaction unless
\* the answer to the first was lost, so one refused put out none but those, and a transfer
\* at most one, whatever it is told (sendTxWithTracker, the retry loop of Swap).
AnswersTrue ==
    \A q \in Asks :
        LET sent == Cardinality(WiresOf(q))
        IN
        /\ asks[q].at = "told" =>
            /\ wires[Wire(q)].net # "unsent"
            /\ q \in TransferAsks => wires[Wire(q)].net = "landed"
        /\ sent <= asks[q].lostAnswers
                      + (IF asks[q].at \in {"told", "tracking", "refused"} THEN 1 ELSE 0)
        /\ q \in SwapAsks /\ asks[q].at # "told" => sent = asks[q].lostAnswers
        /\ q \in TransferAsks => sent <= 1

\* Every transaction that is sent, of a transfer, a swap or a duel's room, sets its price
\* and its limit once (twice is refused by the chain), and one that does not open the
\* recipient's account finds it open: no transfer fails for want of it
\* (RemoveComputeBudgetInstructionsFromTx, GetTxInstructions, proceedTransfer).
WiresWellFormed ==
    /\ \A code \in RoomCodes \cup
            {wires[w].code : w \in {v \in Asks \X Attempts : wires[v].net # "unsent"}} :
        \A b \in Budget : code[b] = 1
    /\ \A q \in TransferAsks : \A n \in WiresOf(q) :
        wires[<<q, n>>].code["open"] = 1 \/ <<asks[q].to, "usdc">> \in opened

\* A transfer or a swap answers what became of it, and what it signs is well formed.
WalletsTell == AnswersTrue /\ WiresWellFormed
=============================================================================
