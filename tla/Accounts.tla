------------------------------ MODULE Accounts ------------------------------
(***************************************************************************)
(* Accounts: signing up with and without a referrer, transfers of duck     *)
(* points, profile pictures and names.  internal/service/user_service.go   *)
(* and helper.go, file_service.go, TransferDuckPoints, the repositories    *)
(* user.go and referral.go.                                                *)
(*                                                                         *)
(* A person has one way to sign in and, with it, one name to start with    *)
(* (the local part of the address, or the Telegram name).  Requests run    *)
(* side by side; a step is one call to Vault, to the disk or to Postgres,  *)
(* and the statements of a short transaction, which hold their rows, are   *)
(* one step.  How a person proves who he is, is in Sessions.               *)
(***************************************************************************)
EXTENDS Integers, FiniteSets, Functions

CONSTANTS
    Persons,         \* who may sign up
    Names,           \* usernames
    Wanted,          \* the local part of a person's address or his Telegram name, if valid
    ByTelegram,      \* who signs in with Telegram, not with an address
    Strangers,       \* referral tokens nobody has
    InvitationReward,\* referrerInvitationRewardDP
    Amounts,         \* amounts sent; a uint64 from 2^63 on is negative as an int
    Calls,           \* requests that may be in flight at once
    MaxRequests      \* bound: requests in all

ASSUME AccountsAssumption ==
    /\ IsFiniteSet(Persons) /\ "none" \notin Persons \cup Names
    /\ Wanted \in [Persons -> Names \cup {"none"}] /\ ByTelegram \subseteq Persons
    /\ Strangers \cap Persons = {}
    /\ InvitationReward \in Nat
    /\ Amounts \subseteq Int
    /\ MaxRequests \in Nat

VARIABLES
    accounts,   \* users: id, name, balance, image; and what its transaction makes with it
    keys,       \* Vault: ids that have a private key
    ids,        \* ids given out
    referrals,  \* user_referrals, by referral
    income,     \* users.referral_count, referral_income_dp, referral_income_usdc
    transfers,  \* duck_points_transactions: points sent, by sender and recipient
    pictures,   \* files under storage/user_uploads
    uploads,    \* files ever saved
    joined,     \* duels a person has joined
    friendTask, \* completions of TaskReferAFriend
    call,       \* what each request is doing and has read
    served,     \* requests so far
    rewound,    \* history: persons whose balance a stale copy has overwritten
    spoiled     \* history: persons whose picture was removed and not replaced

accountsVars == <<accounts, keys, ids, referrals, income, transfers, pictures, uploads,
                  joined, friendTask, call, served, rewound, spoiled>>

NoName == "none"
DefaultIcon == 0
\* SOL, USDC and duck points
DefaultWalletTokens == 3

NoAccount == [id |-> 0, name |-> NoName, balance |-> 0, image |-> DefaultIcon,
              tokens |-> 0, tutorial |-> FALSE]
NoReferral == [referrer |-> NoName, dp |-> 0, usdc |-> 0, open |-> FALSE]
NoCall == [at |-> "free"]

AccountsInit ==
    /\ accounts = [p \in Persons |-> NoAccount]
    /\ keys = {} /\ ids = 0
    /\ referrals = [p \in Persons |-> NoReferral]
    /\ income = [p \in Persons |-> [count |-> 0, dp |-> 0, usdc |-> 0]]
    /\ transfers = [s \in Persons |-> [t \in Persons |-> 0]]
    /\ pictures = {} /\ uploads = 0
    /\ joined = [p \in Persons |-> 0]
    /\ friendTask = [p \in Persons |-> 0]
    /\ call = [r \in Calls |-> NoCall] /\ served = 0
    /\ rewound = {} /\ spoiled = {}

\* the row found by the person's address, or by his Telegram id
HasAccount(p) == accounts[p].id # 0
NameFree(p, n) == \A q \in Persons \ {p} : accounts[q].name # n

\* Update with OmitZero writes every column of the copy that is not zero
OmitZero(row, copy) ==
    [row EXCEPT !.name = copy.name, !.image = copy.image,
                !.balance = IF copy.balance = 0 THEN @ ELSE copy.balance]

Counts == served < MaxRequests /\ served' = served + 1
Begins(r, next) == call[r] = NoCall /\ call' = [call EXCEPT ![r] = next] /\ Counts
Continues(r, at, next) == call[r].at = at /\ call' = [call EXCEPT ![r] = next] /\ UNCHANGED served
AtOnce == Counts /\ UNCHANGED call

-----------------------------------------------------------------------------
(* Signing up *)

\* an address whose local part is no username cannot sign up
EmailName(p) == {Wanted[p]} \ {NoName}

\* a Telegram account without a valid name is called after its id
TelegramName(p) == {IF Wanted[p] = NoName THEN p ELSE Wanted[p]}

FirstName(p) == IF p \in ByTelegram THEN TelegramName(p) ELSE EmailName(p)

\* nobody is found under this address or Telegram id
SignIn(r, p, token) ==
    /\ ~HasAccount(p)
    /\ FirstName(p) # {}
    /\ Begins(r, [at |-> "referrer", p |-> p, token |-> token])
    /\ UNCHANGED <<accounts, keys, ids, referrals, income, transfers, pictures, uploads,
                   joined, friendTask, rewound, spoiled>>

FindByReferralToken(token) == {q \in Persons : q = token /\ HasAccount(q)}

\* Vault keeps a key by user id
StoredKeys(id) == keys \cup {id}

\* the referrer is looked up, the id and its key are made
WritePrivateKey(r) ==
    /\ Continues(r, "referrer",
         [at |-> "create", p |-> call[r].p, id |-> ids + 1,
          referrer |-> FindByReferralToken(call[r].token)])
    /\ ids' = ids + 1
    /\ keys' = StoredKeys(ids + 1)
    /\ UNCHANGED <<accounts, referrals, income, transfers, pictures, uploads,
                   joined, friendTask, rewound, spoiled>>

NewUser(p, id, isReferral) ==
    [id |-> id, name |-> CHOOSE n \in FirstName(p) : TRUE,
     balance |-> IF isReferral THEN InvitationReward ELSE 0,
     image |-> DefaultIcon, tokens |-> DefaultWalletTokens, tutorial |-> TRUE]

\* the row starts at nothing, the referrer's column with the reward
Mutant_CreateReferral(p, q) ==
    /\ income' = [income EXCEPT ![q].count = @ + 1, ![q].dp = @ + InvitationReward]
    /\ referrals' = [referrals EXCEPT ![p] =
         [referrer |-> q, dp |-> 0, usdc |-> 0, open |-> TRUE]]

NewUserReferral(q) == [referrer |-> q, dp |-> InvitationReward, usdc |-> 0, open |-> TRUE]

CreateReferral(p, q) ==
    /\ income' = [income EXCEPT ![q].count = @ + 1, ![q].dp = @ + InvitationReward]
    /\ referrals' = [referrals EXCEPT ![p] = NewUserReferral(q)]

\* one transaction: the user, three tokens, the referral, the task of the tutorial
CreateUser(r) ==
    LET p == call[r].p
        R == call[r].referrer
        new == NewUser(p, call[r].id, R # {})
    IN
    /\ Continues(r, "create", NoCall)
    /\ ~HasAccount(p) /\ NameFree(p, new.name)
    /\ accounts' = [q \in Persons |->
         IF q = p THEN new
         ELSE IF q \in R THEN [accounts[q] EXCEPT !.balance = @ + InvitationReward]
         ELSE accounts[q]]
    /\ IF R = {} THEN UNCHANGED <<referrals, income>>
       ELSE \E q \in R : CreateReferral(p, q)
    /\ UNCHANGED <<keys, ids, transfers, pictures, uploads, joined, friendTask, rewound, spoiled>>

-----------------------------------------------------------------------------
(* Points *)

LessThan(p, n) == accounts[p].balance < n

\* the sender's balance is compared before the transaction
TransferDuckPoints(r, s, t, n) ==
    /\ HasAccount(s) /\ HasAccount(t)
    /\ ~LessThan(s, n)
    /\ Begins(r, [at |-> "transfer", s |-> s, t |-> t, n |-> n])
    /\ UNCHANGED <<accounts, keys, ids, referrals, income, transfers, pictures, uploads,
                   joined, friendTask, rewound, spoiled>>

\* from the balance the request has seen
Mutant_AlterBalance(A, p, n) == [A EXCEPT ![p].balance = accounts[p].balance + n]

\* AlterBalanceByID in place
AlterBalance(A, p, n) == [A EXCEPT ![p].balance = @ + n]

\* the constraint on amount, an INTEGER
HistoryRow(n) == n > 0

TransferCommit(r) ==
    LET s == call[r].s  t == call[r].t  n == call[r].n
    IN
    /\ Continues(r, "transfer", NoCall)
    /\ LET debited == AlterBalance(accounts, s, -n)
           credited == AlterBalance(debited, t, n)
       IN /\ debited[s].balance >= 0 /\ credited[t].balance >= 0
          /\ accounts' = credited
    /\ HistoryRow(n)
    /\ transfers' = [transfers EXCEPT ![s][t] = @ + n]
    /\ UNCHANGED <<keys, ids, referrals, income, pictures, uploads, joined, friendTask,
                   rewound, spoiled>>

-----------------------------------------------------------------------------
(* Referrers: what a duel's commission leaves in their columns *)

\* the row of this referral, and from it the referrer
UpdateReferrerDPIncome(p) ==
    /\ AtOnce
    /\ referrals[p].open
    /\ referrals' = [referrals EXCEPT ![p].dp = @ + 1]
    /\ income' = [income EXCEPT ![referrals[p].referrer].dp = @ + 1]
    /\ UNCHANGED <<accounts, keys, ids, transfers, pictures, uploads, joined, friendTask,
                   rewound, spoiled>>

\* ReferrerWalletByUserID, before the payouts of a crypto duel
ReferrerWallet(r, p) ==
    /\ referrals[p].open
    /\ Begins(r, [at |-> "usdc", q |-> referrals[p].referrer])
    /\ UNCHANGED <<accounts, keys, ids, referrals, income, transfers, pictures, uploads,
                   joined, friendTask, rewound, spoiled>>

\* after them: the referrer's column, and every referral of his that is still open
UpdateReferrerUSDCIncome(r) ==
    LET q == call[r].q IN
    /\ Continues(r, "usdc", NoCall)
    /\ income' = [income EXCEPT ![q].usdc = @ + 1]
    /\ referrals' = [p \in Persons |->
         IF referrals[p].referrer = q /\ referrals[p].open
         THEN [referrals[p] EXCEPT !.usdc = @ + 1]
         ELSE referrals[p]]
    /\ UNCHANGED <<accounts, keys, ids, transfers, pictures, uploads, joined, friendTask,
                   rewound, spoiled>>

\* six months have passed
CommissionEnds(p) ==
    /\ AtOnce
    /\ referrals[p].open
    /\ referrals' = [referrals EXCEPT ![p].open = FALSE]
    /\ UNCHANGED <<accounts, keys, ids, income, transfers, pictures, uploads, joined, friendTask,
                   rewound, spoiled>>

\* a join has committed; the tasks that come with it are still to do
JoinsDuel(r, p) ==
    /\ HasAccount(p)
    /\ joined' = [joined EXCEPT ![p] = @ + 1]
    /\ Begins(r, [at |-> "friend", p |-> p])
    /\ UNCHANGED <<accounts, keys, ids, referrals, income, transfers, pictures, uploads,
                   friendTask, rewound, spoiled>>

HasUserJoinedMoreThanOneDuel(p) == joined[p] > 1

GetReferrerID(p) == referrals[p].referrer

CompleteReferAFriendTask(r) ==
    LET p == call[r].p
        q == GetReferrerID(p)
    IN
    /\ Continues(r, "friend", NoCall)
    /\ IF HasUserJoinedMoreThanOneDuel(p) \/ q = NoName THEN UNCHANGED friendTask
       ELSE friendTask' = [friendTask EXCEPT ![q] = @ + 1]
    /\ UNCHANGED <<accounts, keys, ids, referrals, income, transfers, pictures, uploads, joined,
                   rewound, spoiled>>

-----------------------------------------------------------------------------
(* Names and pictures *)

ChangeUsername(p, n) ==
    /\ AtOnce
    /\ HasAccount(p) /\ accounts[p].name # n
    /\ NameFree(p, n)
    /\ accounts' = [accounts EXCEPT ![p].name = n]
    /\ UNCHANGED <<keys, ids, referrals, income, transfers, pictures, uploads, joined, friendTask,
                   rewound, spoiled>>

IsDefaultUserIcon(image) == image = DefaultIcon

\* the whole row is read, the old picture removed unless it is an icon
UpdateProfilePicture(r, p) ==
    /\ HasAccount(p)
    /\ Begins(r, [at |-> IF IsDefaultUserIcon(accounts[p].image) THEN "save" ELSE "remove",
                  p |-> p, row |-> accounts[p], saved |-> FALSE])
    /\ UNCHANGED <<accounts, keys, ids, referrals, income, transfers, pictures, uploads,
                   joined, friendTask, rewound, spoiled>>

\* a file that is not there ends the request
RemoveUserFile(r) ==
    /\ Continues(r, "remove", [call[r] EXCEPT !.at = "save"])
    /\ call[r].row.image \in pictures
    /\ pictures' = pictures \ {call[r].row.image}
    /\ UNCHANGED <<accounts, keys, ids, referrals, income, transfers, uploads, joined, friendTask,
                   rewound, spoiled>>

\* an error of the disk is not looked at
Mutant_SaveUserProfilePicture(r) ==
    /\ Continues(r, "save", [call[r] EXCEPT !.at = "write", !.row.image = uploads + 1, !.saved = TRUE])
    /\ uploads' = uploads + 1
    /\ UNCHANGED <<accounts, keys, ids, referrals, income, transfers, pictures, joined, friendTask,
                   rewound, spoiled>>

SaveUserProfilePicture(r) ==
    /\ Continues(r, "save", [call[r] EXCEPT !.at = "write", !.row.image = uploads + 1, !.saved = TRUE])
    /\ uploads' = uploads + 1
    /\ pictures' = pictures \cup {uploads + 1}
    /\ UNCHANGED <<accounts, keys, ids, referrals, income, transfers, joined, friendTask,
                   rewound, spoiled>>

\* completeDailyStreakTask reads the row to write it back later
ReadWholeUser(r, p) ==
    /\ HasAccount(p)
    /\ Begins(r, [at |-> "write", p |-> p, row |-> accounts[p], saved |-> FALSE])
    /\ UNCHANGED <<accounts, keys, ids, referrals, income, transfers, pictures, uploads,
                   joined, friendTask, rewound, spoiled>>

\* the whole row goes back: picture, name and balance as they were read
WriteUser(r) ==
    LET p == call[r].p
        row == OmitZero(accounts[p], call[r].row)
    IN
    /\ Continues(r, "write", NoCall)
    /\ NameFree(p, row.name)
    /\ accounts' = [accounts EXCEPT ![p] = row]
    /\ rewound' = IF row.balance # accounts[p].balance THEN rewound \cup {p} ELSE rewound
    /\ spoiled' = IF call[r].saved \/ row.image \in pictures \cup {DefaultIcon} THEN spoiled
                  ELSE spoiled \cup {p}
    /\ UNCHANGED <<keys, ids, referrals, income, transfers, pictures, uploads, joined, friendTask>>

Removed(r) ==
    call[r].at \in {"save", "write"} /\ accounts[call[r].p].image \notin pictures \cup {DefaultIcon}

\* Vault, the disk or the database answers with an error, or a constraint does; what
\* a transaction did is undone, what was done outside stays
CallFails(r) ==
    /\ call[r] # NoCall
    /\ call' = [call EXCEPT ![r] = NoCall] /\ UNCHANGED served
    /\ spoiled' = IF Removed(r) THEN spoiled \cup {call[r].p} ELSE spoiled
    /\ UNCHANGED <<accounts, keys, ids, referrals, income, transfers, pictures, uploads, joined,
                   friendTask, rewound>>

AccountsNext ==
    \/ \E p \in Persons, r \in Calls :
        \/ \E token \in Persons \cup Strangers : SignIn(r, p, token)
        \/ \E t \in Persons, n \in Amounts : TransferDuckPoints(r, p, t, n)
        \/ ReferrerWallet(r, p)
        \/ JoinsDuel(r, p)
        \/ UpdateProfilePicture(r, p)
        \/ ReadWholeUser(r, p)
    \/ \E r \in Calls :
        \/ WritePrivateKey(r) \/ CreateUser(r)
        \/ TransferCommit(r)
        \/ UpdateReferrerUSDCIncome(r)
        \/ CompleteReferAFriendTask(r)
        \/ RemoveUserFile(r) \/ SaveUserProfilePicture(r)
        \/ WriteUser(r)
        \/ CallFails(r)
    \/ \E p \in Persons :
        \/ UpdateReferrerDPIncome(p)
        \/ CommissionEnds(p)
        \/ \E n \in Names : ChangeUsername(p, n)

AccountsSpec == AccountsInit /\ [][AccountsNext]_accountsVars

-----------------------------------------------------------------------------
(* Properties *)

\* what the queries show: a referrer's columns, the list of his referrals, the transfers
\* to and from an address
ReferralStats(q) == income[q]

UserReferrals(q) == {p \in Persons : referrals[p].referrer = q}

DuckPointsTransferHistory(p) ==
    [received |-> SumFunctionOnSet([s \in Persons |-> transfers[s][p]], Persons),
     sent |-> SumFunctionOnSet(transfers[p], Persons)]

Granted(p) == InvitationReward * (income[p].count + (IF referrals[p] = NoReferral THEN 0 ELSE 1))

AccountsTypeOK ==
    /\ \A p \in Persons :
        /\ accounts[p].balance \in Nat /\ accounts[p].name \in Names \cup Persons \cup {NoName}
        /\ HasAccount(p) => accounts[p].id \in keys
        /\ \A q \in Persons \ {p} : accounts[p].name = accounts[q].name => ~HasAccount(p)
    /\ keys \subseteq 1..ids /\ pictures \subseteq 1..uploads

\* A balance is what was granted for invitations, plus what the history of transfers says
\* was received, minus what it says was sent (TransferDuckPoints, createUser), except of a
\* person whose row a picture or a streak wrote back with a balance read earlier.
PointsMatchHistory ==
    \A p \in Persons \ rewound :
        LET h == DuckPointsTransferHistory(p)
        IN accounts[p].balance = Granted(p) + h.received - h.sent

\* What ReferralStats shows a referrer is what the list of his referrals adds up to: their
\* number, their duck points, and in USDC at least what any one row says; and a friend
\* counts once for the task, if he has joined a duel (the two queries of referral.go,
\* completeReferAFriendTask).
ReferralsAddUp ==
    \A q \in Persons :
        LET R == UserReferrals(q)
            stats == ReferralStats(q)
        IN /\ stats.count = Cardinality(R)
           /\ stats.dp = SumFunctionOnSet([p \in Persons |-> referrals[p].dp], R)
           /\ \A p \in R : referrals[p].usdc <= stats.usdc
           /\ friendTask[q] <= Cardinality({p \in R : joined[p] > 0})

\* An account shows an icon or a picture that is on the disk, unless an upload is between
\* removing the old one and naming the new one, failed there, or an older row was written
\* back (UpdateProfilePicture).
PicturesShown ==
    \A p \in Persons \ spoiled :
        \/ accounts[p].image \in pictures \cup {DefaultIcon}
        \/ \E r \in Calls : call[r].at \in {"save", "write"} /\ call[r].p = p

\* Points, invitations and pictures of an account agree with what happened to it.
AccountsHold == PointsMatchHistory /\ ReferralsAddUp /\ PicturesShown
=============================================================================
