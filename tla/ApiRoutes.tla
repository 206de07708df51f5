----------------------------- MODULE ApiRoutes -----------------------------
(***************************************************************************)
(* The endpoints of internal/handler/v1: what each handler asks of a       *)
(* request and which service it calls, and what RegisterRoutes puts before *)
(* it.  A handler binds the request, takes the claims the middleware left, *)
(* and makes its calls in order; bodies and answers are abstracted.        *)
(***************************************************************************)
EXTENDS Integers, Sequences

\* calls, in order; whether something of the request is bound, claims are
\* taken, a code sent by mail is checked first
Handler(calls, bind, claims) == [calls |-> calls, bind |-> bind, claims |-> claims, mail |-> FALSE]

Open(op) == Handler(<<op>>, FALSE, FALSE)    \* takes nothing
Public(op) == Handler(<<op>>, TRUE, FALSE)   \* binds
Own(op) == Handler(<<op>>, FALSE, TRUE)      \* takes the claims
Mine(op) == Handler(<<op>>, TRUE, TRUE)      \* binds, takes the claims

-----------------------------------------------------------------------------
(* duel_handler.go *)
CreateDuel == Mine("CreateNewDuel")
CreateCryptoDuel == Mine("CreateNewCryptoDuel")
JoinDuelHandler == Mine("JoinDuel")
JoinCryptoDuelHandler == Mine("JoinCryptoDuel")
GetAllDuelsHandler == Public("GetAllDuelsUnauthorized")
CountAllDuels == Public("CountAllDuels")
GetAllDuelsWhereParticipant == Mine("GetAllDuelsWhereParticipant")
GetAllDuelsAuthorized == Mine("GetAllDuels")
GetMyHistoryDuels == Mine("GetMyHistoryDuels")
GetDuelsCountByTopic == Public("GetDuelsCounterByTopic")
GetIndividualDuelsCountByTopic == Mine("GetIndividualDuelsCounterByTopic")
GetMyDuels == Mine("GetMyDuels")
GetDuelByIDUnauthorized == Public("GetDuelByIDUnauthorized")
GetDuelByIDHandler == Mine("GetDuelByID")
FindAllEntities == Public("FindEntities")
FindAllSubtopics == Public("FindSubtopics")
GetLeaderboard == Public("GetLeaderboard")
GetUserRank == Mine("GetUserLeaderboardRank")
GetTransactionTypes == Public("GetTransactionsBySignatures")
GetTransactionHistory == Mine("GetTransactionsByPublicAddress")
GetTokenAccountBalances == Mine("GetTokenAccounts")

(* admin_handler.go *)
AdminCreateDuel == Mine("CreateNewDuelAdmin")
AdminCreateCryptoDuel == Mine("CreateNewCryptoDuelAdmin")
ResolveDuel == Mine("ResolveDuckPointDuelByAdmin")
ResolveCryptoDuel == Mine("ResolveCryptoDuelByAdmin")
ApproveDuelHandler == Mine("ApproveDuel")
ApproveCryptoDuelHandler == Mine("ApproveCryptoDuel")
CancelDuel == Mine("CancelDuckPointDuelByAdmin")
CancelCryptoDuel == Mine("CancelCryptoDuelByAdmin")
EditDuelHandler == Public("EditDuel")
AssignDuelToTournament == Public("SetTournamentID")
CreateDuelEntity == Public("CreateDuelEntity")
UpdateDuelEntity == Public("UpdateDuelEntity")
CreateDuelSubtopic == Public("CreateDuelSubtopic")
UpdateDuelSubtopic == Public("UpdateDuelSubtopic")
UploadImage == Public("SaveAdminsFile")
DeleteImage == Public("RemoveFileAdmin")
GetModeratorStats == Mine("GetModeratorStats")

(* wallet_handler.go *)
ShowWallet == Mine("ShowWallet")
TransferHandler == Mine("Transfer")
TransferDuckPointsHandler == Mine("TransferDuckPoints")
DuckPointsTransferHistoryHandler == Mine("DuckPointsTransferHistory")
SwapCurrencies == Mine("Swap")
GetUserWalletTokens == Mine("FindUserWalletTokens")
EditUserWalletToken == Mine("EditUserWalletToken")
AddTokenHandler == Mine("AddTokenToUserWallet")
RemoveTokenHandler == Mine("RemoveTokenFromUserWallet")

(* tournament_handler.go *)
LeaderboardHandler == Public("Leaderboard")
Tournaments == Public("GetAll")
TournamentRankHandler == Mine("TournamentRank")
UserTournamentsHandler == Mine("UserTournaments")
OfferHandler == Handler(<<"CreateOffer", "Notify">>, TRUE, FALSE)
CreateTournamentHandler == Mine("CreateTournament")
RewardsHandler == Public("Rewards")
UpdateRewardsHandler == Mine("UpdateRewards")

(* user_handler.go, stats_handler.go, task_handler.go *)
GetUser == Own("GetByID")
EditUser == Mine("EditByID")
ChangeUsernameHandler == Mine("ChangeUsername")
SetProfilePicture == Mine("UpdateProfilePicture")
FindUserByUsername == Public("GetByUsername")
UserReferralStats == Own("ReferralStatsByID")
UserReferralsHandler == Mine("UserReferralsByID")
GetUsersCount == Open("CountAllUsers")
ClaimRewardHandler == Mine("ClaimReward")
CompleteAttachEmailHandler == [Mine("CompleteSignInEmail") EXCEPT !.mail = TRUE]
GetTasks == Own("GetTasksByUserID")

(* faq_handler.go: the user is the caller or an anonymous visitor *)
GetAllFAQHandler == Mine("GetAllFAQ")
CreateFAQ == Mine("AddFAQQuestion")
AddFAQMarkHandler == Mine("AddFAQMark")

(* coin_handler.go *)
GetAllCoinsHandler == Public("GetAllCoins")
GetTokenByName == Public("GetSolanaTokenByName")
GetTokenByMint == Public("GetSolanaTokenByMint")
GetSolanaPrice == Open("GetCurrentSolanaPrice")

(* auth_handler.go, auth_handler_sign_in.go: the last call makes the tokens *)
SendCode == Public("SendCodeOnEmail")
SignInWithEmail == [Handler(<<"SignInWithEmail", "GenerateTokenPair">>, TRUE, FALSE)
                      EXCEPT !.mail = TRUE]
SignInWithGoogle == Handler(<<"SignInWithEmail", "GenerateTokenPair">>, TRUE, FALSE)
SignInWithTelegramMiniApp == Handler(<<"SignInWithTelegram", "GenerateTokenPair">>, TRUE, FALSE)
SignInWithTelegramWeb ==
    Handler(<<"CheckUsersTelegramCode", "FindByTelegramID", "GenerateTokenPair">>, TRUE, FALSE)
RefreshTokens == Open("RefreshSession")

-----------------------------------------------------------------------------
(* RegisterRoutes: what Use registers holds for the routes registered after it *)

Use(layer) == [layer |-> layer]
Get(handler) == [layer |-> "route", before |-> <<>>, handler |-> handler]
Guarded(handler, layer) == [layer |-> "route", before |-> <<layer>>, handler |-> handler]
Limited(handler) == Guarded(handler, "limiter")

CryptoDuelRoutes ==
    <<Use("auth"), Limited(CreateCryptoDuel), Limited(JoinCryptoDuelHandler),
      Get(GetTransactionTypes), Get(GetTransactionHistory), Get(GetTokenAccountBalances)>>

DuelRoutes ==
    <<Get(GetAllDuelsHandler), Get(CountAllDuels), Get(GetDuelsCountByTopic),
      Get(FindAllEntities), Get(FindAllSubtopics), Get(GetLeaderboard),
      Get(GetDuelByIDUnauthorized), Use("auth"), Limited(CreateDuel), Get(GetMyDuels),
      Get(GetAllDuelsAuthorized), Get(GetIndividualDuelsCountByTopic),
      Get(GetAllDuelsWhereParticipant), Get(GetMyHistoryDuels), Limited(JoinDuelHandler),
      Get(GetUserRank), Get(GetDuelByIDHandler)>>

AdminRoutes ==
    <<Use("auth"), Use("admin"), Get(UploadImage), Get(DeleteImage),
      Get(AdminCreateCryptoDuel), Get(ApproveCryptoDuelHandler), Get(ResolveCryptoDuel),
      Get(CancelCryptoDuel), Get(AdminCreateDuel), Get(EditDuelHandler),
      Get(AssignDuelToTournament), Get(ResolveDuel), Get(ApproveDuelHandler), Get(CancelDuel),
      Get(CreateDuelEntity), Get(CreateDuelSubtopic), Get(UpdateDuelEntity),
      Get(UpdateDuelSubtopic), Get(GetModeratorStats)>>

WalletRoutes ==
    <<Use("auth"), Get(ShowWallet), Get(TransferHandler), Get(TransferDuckPointsHandler),
      Get(DuckPointsTransferHistoryHandler), Get(SwapCurrencies), Get(GetUserWalletTokens),
      Get(AddTokenHandler), Get(EditUserWalletToken), Get(RemoveTokenHandler)>>

\* admin-only routes registered before the role is checked
Mutant_TournamentRoutes ==
    <<Get(Tournaments), Get(RewardsHandler), Get(LeaderboardHandler), Get(OfferHandler),
      Use("auth"), Get(TournamentRankHandler), Get(UserTournamentsHandler),
      Get(CreateTournamentHandler), Use("admin"), Get(UpdateRewardsHandler)>>

TournamentRoutes ==
    <<Get(Tournaments), Get(RewardsHandler), Get(LeaderboardHandler), Get(OfferHandler),
      Use("auth"), Get(TournamentRankHandler), Get(UserTournamentsHandler),
      Use("admin"), Get(CreateTournamentHandler), Get(UpdateRewardsHandler)>>

UserRoutes ==
    <<Get(FindUserByUsername), Use("auth"), Get(GetUser), Get(EditUser),
      Get(SetProfilePicture), Get(ChangeUsernameHandler)>>

StatsRoutes == <<Get(GetUsersCount), Use("auth"), Get(UserReferralStats), Get(UserReferralsHandler)>>

TaskRoutes ==
    <<Use("auth"), Get(GetTasks), Get(ClaimRewardHandler), Get(CompleteAttachEmailHandler)>>

FAQRoutes == <<Use("faq"), Get(GetAllFAQHandler), Get(CreateFAQ), Get(AddFAQMarkHandler)>>

CoinRoutes ==
    <<Get(GetAllCoinsHandler), Get(GetSolanaPrice), Get(GetTokenByMint), Get(GetTokenByName)>>

AuthRoutes ==
    <<Get(SendCode), Get(SignInWithEmail), Guarded(SignInWithGoogle, "google"),
      Get(SignInWithTelegramMiniApp), Get(SignInWithTelegramWeb), Get(RefreshTokens)>>

\* in the order Module invokes them
Groups == <<AuthRoutes, CryptoDuelRoutes, DuelRoutes, TaskRoutes, FAQRoutes, StatsRoutes,
            AdminRoutes, UserRoutes, WalletRoutes, TournamentRoutes, CoinRoutes>>
=============================================================================
