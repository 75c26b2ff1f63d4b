--------------------------- MODULE BillingSession ---------------------------
(***************************************************************************)
(* Billing of concurrent relay requests of one user through one API token: *)
(* service/billing_session.go over service/funding_source.go, with the     *)
(* wallet of model/quota_gift.go and the token quota of model/token.go.    *)
(*                                                                         *)
(* The deployment is the one without Redis and without batch updates: each *)
(* quota read or write is one database statement or transaction, so each   *)
(* is one step here, and any of them may fail.  Between two of them other  *)
(* requests run, and the process may crash.  What a subscription does with *)
(* its calls is left to SubscriptionQuota; here only their outcomes count. *)
(***************************************************************************)
EXTENDS Integers, FiniteSets, Functions

CONSTANTS
    Requests,       \* the relay requests
    Amounts,        \* estimated and actual costs a request may have
    Kinds,          \* the request kinds that occur (a subset of AllKinds)
    TrustQuota,     \* common.GetTrustQuota()
    TokenUnlimited, \* token.UnlimitedQuota
    InitQuota,      \* users.quota at the start, gift part included
    InitGift,       \* users.gift_quota at the start
    InitToken,      \* tokens.remain_quota at the start
    MaxCredited     \* bound on the sum of top-ups and gifts in a behaviour

Prefs == {"wallet_only", "wallet_first", "subscription_only",
          "subscription_first"}

AllKinds == [playground : BOOLEAN, force : BOOLEAN, pref : Prefs]

ASSUME BillingAssumption ==
    /\ Amounts \subseteq Nat
    /\ Kinds \subseteq AllKinds
    /\ TrustQuota \in Int
    /\ TokenUnlimited \in BOOLEAN
    /\ InitQuota \in Int
    /\ InitGift \in Nat
    /\ InitToken \in Int
    /\ MaxCredited \in Nat

ASSUME RequestsAssumption == IsFiniteSet(Requests)

VARIABLES
    quota,        \* users.quota
    gift,         \* users.gift_quota
    credited,     \* sum of what top-ups and grants added to quota
    granted,      \* the part of it that grants added to gift as well
    tokenRemain,  \* tokens.remain_quota
    tokenStatus,  \* tokens.status
    writtenOff,   \* sum of the amounts in "error rolling back token quota"
    info,         \* info[r]: the fields of RelayInfo that billing reads
    sess,         \* sess[r]: the BillingSession with its FundingSource
    pc,           \* pc[r]: where the request's handler is
    job,          \* job[r]: where the goroutine started by Refund is
    logged,       \* logged[r]: the database errors that were only logged
    dead          \* the requests whose process crashed

walletVars  == <<quota, gift>>
creditVars  == <<credited, granted>>
tokenVars   == <<tokenRemain, tokenStatus>>
requestVars == <<info, sess, pc, job, logged>>
vars == <<walletVars, creditVars, tokenVars, writtenOff, requestVars, dead>>

-----------------------------------------------------------------------------
(* A session before anything was consumed.  code is the error that ended   *)
(* the last attempt to open it, kept until the token is rolled back.       *)
NoSession ==
    [src |-> "none", eff |-> 0, preConsumed |-> 0, tokenConsumed |-> 0,
     consumed |-> 0, giftConsumed |-> 0, subPreConsumed |-> 0, actual |-> 0,
     fundingSettled |-> FALSE, settled |-> FALSE, refunded |-> FALSE,
     code |-> "none"]

Session ==
    [src : {"none", "wallet", "subscription"}, eff : Nat, preConsumed : Nat,
     tokenConsumed : Nat, consumed : Nat, giftConsumed : Nat,
     subPreConsumed : Nat, actual : Nat, fundingSettled : BOOLEAN,
     settled : BOOLEAN, refunded : BOOLEAN,
     code : {"none", "insufficient", "dbError"}]

NoInfo == [playground |-> FALSE, force |-> FALSE, pref |-> "wallet_only",
           est |-> 0, tokenSeen |-> 0]

Opening == {"checkSub", "checkWallet", "readToken", "takeToken",
            "takeFunding", "returnToken"}

HandlerSteps ==
    Opening \cup {"idle", "rejected", "open", "settleToken", "closed"}

LoggedErrors == {"settleFunding", "settleToken", "refundFunding",
                 "refundToken"}

TypeOK ==
    /\ quota \in Int /\ gift \in Nat
    /\ credited \in Nat /\ granted \in Nat
    /\ tokenRemain \in Int /\ tokenStatus \in {"enabled", "exhausted"}
    /\ writtenOff \in Nat
    /\ info \in [Requests -> [playground : BOOLEAN, force : BOOLEAN,
                              pref : Prefs, est : Nat, tokenSeen : Int]]
    /\ sess \in [Requests -> Session]
    /\ pc \in [Requests -> HandlerSteps]
    /\ job \in [Requests -> {"none", "refundFunding", "refundToken", "done"}]
    /\ logged \in [Requests -> SUBSET LoggedErrors]
    /\ dead \subseteq Requests

Init ==
    /\ quota = InitQuota /\ gift = InitGift
    /\ credited = 0 /\ granted = 0
    /\ tokenRemain = InitToken /\ tokenStatus = "enabled"
    /\ writtenOff = 0
    /\ info = [r \in Requests |-> NoInfo]
    /\ sess = [r \in Requests |-> NoSession]
    /\ pc = [r \in Requests |-> "idle"]
    /\ job = [r \in Requests |-> "none"]
    /\ logged = [r \in Requests |-> {}]
    /\ dead = {}

-----------------------------------------------------------------------------
(* The decisions of the code, as operators on a session s and its info i.  *)

(* Faulty variants of the decisions below; each breaks a property. *)
GiftPartUncapped(amount, available) == amount
RestoredGiftWhole(total, giftPart) == total
TrustsForced(i, userQuota) ==
    /\ TrustQuota > 0 /\ userQuota > TrustQuota
    /\ (TokenUnlimited /\ ~ i.playground) \/ i.tokenSeen > TrustQuota
NeedsRefundAgain(s) == ~ s.settled /\ ~ s.fundingSettled /\ s.tokenConsumed > 0
NeedsRefundAfterSettle(s) == ~ s.refunded /\ s.tokenConsumed > 0
NeedsRefundOfSubscription(s) ==
    ~ s.settled /\ ~ s.refunded /\ ~ s.fundingSettled /\ s.subPreConsumed > 0
FallbackBothWays(i, src, code) ==
    IF code # "insufficient" THEN "none"
    ELSE IF src = "wallet" THEN "subscription" ELSE "wallet"
HoldsTokenAlways(s, i) == s.tokenConsumed > 0
HoldsTokenNever(s, i) == FALSE

(* The part of an amount taken from the gift balance: gift first. *)
GiftPart(amount, available) == IF amount > available THEN available ELSE amount

(* The part of a full refund that goes back to the gift balance. *)
RestoredGift(total, giftPart) ==
    IF giftPart < 0 THEN 0 ELSE IF giftPart > total THEN total ELSE giftPart

(* shouldTrust for the wallet; a playground token has no quota at all. *)
TrustsWallet(i, userQuota) ==
    /\ ~ i.force
    /\ TrustQuota > 0
    /\ \/ TokenUnlimited /\ ~ i.playground
       \/ i.tokenSeen > TrustQuota
    /\ userQuota > TrustQuota

NeedsRefund(s) ==
    /\ ~ s.settled /\ ~ s.refunded /\ ~ s.fundingSettled
    /\ s.tokenConsumed > 0 \/ (s.src = "subscription" /\ s.subPreConsumed > 0)

(* The source tried first. *)
FirstSource(pref) ==
    CASE pref = "subscription_first" -> "either"
      [] pref = "subscription_only"  -> "subscription"
      [] OTHER                       -> "wallet"

(* The source tried next when a session on src failed with code. *)
Fallback(i, src, code) ==
    IF code # "insufficient" THEN "none"
    ELSE IF i.pref = "wallet_first" /\ src = "wallet" THEN "subscription"
    ELSE IF i.pref = "subscription_first" /\ src = "subscription" THEN "wallet"
    ELSE "none"

(* Whether the token row holds something for this session. *)
HoldsToken(s, i) == s.tokenConsumed > 0 /\ ~ i.playground

NewSubscriptionSession(i) ==
    [NoSession EXCEPT !.src = "subscription",
                      !.eff = IF i.est > 0 THEN i.est ELSE 1]

(***************************************************************************)
(* The handler of r goes on to step, with session s.                       *)
(***************************************************************************)
GoTo(r, step, s) ==
    /\ pc' = [pc EXCEPT ![r] = step]
    /\ sess' = [sess EXCEPT ![r] = s]

(* NewBillingSession goes on with source src, asks whether there is a      *)
(* subscription ("either"), or gives up ("none").                          *)
TryNext(r, i, src) ==
    GoTo(r, CASE src = "wallet"       -> "checkWallet"
              [] src = "subscription" -> "readToken"
              [] src = "either"       -> "checkSub"
              [] OTHER                -> "rejected",
            IF src = "subscription" THEN NewSubscriptionSession(i)
            ELSE NoSession)

At(r, step) == pc[r] = step /\ r \notin dead

-----------------------------------------------------------------------------
(* Opening a session. *)

(***************************************************************************)
(* Authentication reads the token once; a token seen without quota is      *)
(* marked exhausted, if that write succeeds.  The playground signs in with *)
(* the user's session and has no token to validate.  An admitted request   *)
(* starts NewBillingSession with its estimate.                             *)
(***************************************************************************)
Authenticate(r) ==
    /\ At(r, "idle")
    /\ \E k \in Kinds, n \in Amounts :
       /\ k.playground \/ (tokenStatus = "enabled" /\ (TokenUnlimited \/ tokenRemain > 0))
       /\ LET i == [playground |-> k.playground, force |-> k.force,
                    pref |-> k.pref, est |-> n,
                    tokenSeen |-> IF k.playground \/ TokenUnlimited
                                  THEN 0 ELSE tokenRemain]
          IN /\ info' = [info EXCEPT ![r] = i]
             /\ TryNext(r, i, FirstSource(k.pref))
    /\ UNCHANGED <<walletVars, creditVars, tokenVars, writtenOff, job, logged,
                   dead>>

Unauthorized(r) ==
    /\ At(r, "idle")
    /\ \/ tokenStatus = "exhausted" /\ UNCHANGED tokenStatus
       \/ /\ tokenStatus = "enabled" /\ ~ TokenUnlimited /\ tokenRemain <= 0
          /\ tokenStatus' \in {"exhausted", "enabled"}
    /\ TryNext(r, info[r], "none")
    /\ UNCHANGED <<walletVars, creditVars, tokenRemain, writtenOff, info, job,
                   logged, dead>>

(* HasActiveUserSubscription: some, none, or a database error. *)
CheckSub(r) ==
    /\ At(r, "checkSub")
    /\ \E next \in {"subscription", "wallet", "none"} : TryNext(r, info[r], next)
    /\ UNCHANGED <<walletVars, creditVars, tokenVars, writtenOff, info, job,
                   logged, dead>>

(* tryWallet up to the trust decision; nothing is reserved by the check. *)
CheckWallet(r) ==
    /\ At(r, "checkWallet")
    /\ \/ TryNext(r, info[r], "none")
       \/ /\ quota <= 0 \/ quota - info[r].est < 0
          /\ TryNext(r, info[r], Fallback(info[r], "wallet", "insufficient"))
       \/ /\ quota > 0 /\ quota - info[r].est >= 0
          /\ LET eff == IF TrustsWallet(info[r], quota) THEN 0 ELSE info[r].est
             IN GoTo(r, IF eff > 0 THEN "readToken" ELSE "takeFunding",
                     [NoSession EXCEPT !.src = "wallet", !.eff = eff])
    /\ UNCHANGED <<walletVars, creditVars, tokenVars, writtenOff, info, job,
                   logged, dead>>

(***************************************************************************)
(* PreConsumeTokenQuota reads the token row, then decrements it.  For a    *)
(* playground request it does neither, and tokenConsumed is set all the    *)
(* same: it also tells NeedsRefund that something was consumed.            *)
(***************************************************************************)
ReadToken(r) ==
    /\ At(r, "readToken")
    /\ \/ /\ info[r].playground
          /\ GoTo(r, "takeFunding",
                  [sess[r] EXCEPT !.tokenConsumed = sess[r].eff])
       \/ ~ info[r].playground /\ TryNext(r, info[r], "none")
       \/ /\ ~ info[r].playground
          /\ TokenUnlimited \/ tokenRemain >= sess[r].eff
          /\ GoTo(r, "takeToken", sess[r])
    /\ UNCHANGED <<walletVars, creditVars, tokenVars, writtenOff, info, job,
                   logged, dead>>

TakeToken(r) ==
    /\ At(r, "takeToken")
    /\ \/ /\ tokenRemain' = tokenRemain - sess[r].eff
          /\ GoTo(r, "takeFunding",
                  [sess[r] EXCEPT !.tokenConsumed = sess[r].eff])
       \/ TryNext(r, info[r], "none") /\ UNCHANGED tokenRemain
    /\ UNCHANGED <<walletVars, creditVars, tokenStatus, writtenOff, info, job,
                   logged, dead>>

(* What preConsume does when the funding source returned an error. *)
PreConsumeFailed(r, code) ==
    IF HoldsToken(sess[r], info[r])
    THEN GoTo(r, "returnToken", [sess[r] EXCEPT !.code = code])
    ELSE TryNext(r, info[r], Fallback(info[r], sess[r].src, code))

TakeWallet(r) ==
    /\ At(r, "takeFunding") /\ sess[r].src = "wallet"
    /\ LET n == sess[r].eff
           g == GiftPart(n, gift)
       IN \/ /\ quota' = quota - n
             /\ gift' = gift - g
             /\ GoTo(r, "open", [sess[r] EXCEPT !.preConsumed = n,
                                                !.consumed = n,
                                                !.giftConsumed = g])
          \/ /\ n > 0
             /\ PreConsumeFailed(r, "dbError")
             /\ UNCHANGED walletVars
    /\ UNCHANGED <<creditVars, tokenVars, writtenOff, info, job, logged, dead>>

TakeSubscription(r) ==
    /\ At(r, "takeFunding") /\ sess[r].src = "subscription"
    /\ \/ GoTo(r, "open", [sess[r] EXCEPT !.preConsumed = sess[r].eff,
                                          !.subPreConsumed = sess[r].eff])
       \/ \E code \in {"insufficient", "dbError"} : PreConsumeFailed(r, code)
    /\ UNCHANGED <<walletVars, creditVars, tokenVars, writtenOff, info, job,
                   logged, dead>>

ReturnToken(r) ==
    /\ At(r, "returnToken")
    /\ \/ /\ tokenRemain' = tokenRemain + sess[r].tokenConsumed
          /\ UNCHANGED writtenOff
       \/ /\ writtenOff' = writtenOff + sess[r].tokenConsumed
          /\ UNCHANGED tokenRemain
    /\ TryNext(r, info[r], Fallback(info[r], sess[r].src, sess[r].code))
    /\ UNCHANGED <<walletVars, creditVars, tokenStatus, info, job, logged, dead>>

-----------------------------------------------------------------------------
(* Settling. *)

(***************************************************************************)
(* Settle, first half: the upstream answered and the request costs actual. *)
(* A surplus goes back to quota only, an extra charge takes gift first.    *)
(* An error is logged by the handler and leaves the session as it was.     *)
(***************************************************************************)
SettleFunding(r) ==
    /\ At(r, "open")
    /\ \E actual \in Amounts :
          LET s == [sess[r] EXCEPT !.actual = actual]
              delta == actual - s.preConsumed
              g == IF s.src = "wallet" /\ delta > 0
                   THEN GiftPart(delta, gift) ELSE 0
              next == IF info[r].playground THEN "closed" ELSE "settleToken"
          IN \/ /\ delta = 0
                /\ GoTo(r, "closed", [s EXCEPT !.settled = TRUE])
                /\ UNCHANGED <<walletVars, logged>>
             \/ /\ delta # 0
                /\ quota' = IF s.src = "wallet" THEN quota - delta ELSE quota
                /\ gift' = gift - g
                /\ GoTo(r, next, [s EXCEPT !.fundingSettled = TRUE,
                                           !.settled = info[r].playground,
                                           !.giftConsumed = @ + g])
                /\ UNCHANGED logged
             \/ /\ delta # 0
                /\ GoTo(r, "closed", sess[r])
                /\ logged' = [logged EXCEPT ![r] = @ \cup {"settleFunding"}]
                /\ UNCHANGED walletVars
    /\ UNCHANGED <<creditVars, tokenVars, writtenOff, info, job, dead>>

(* Settle, second half; an error here is logged and settles all the same. *)
SettleToken(r) ==
    /\ At(r, "settleToken")
    /\ GoTo(r, "closed", [sess[r] EXCEPT !.settled = TRUE])
    /\ \/ /\ tokenRemain' = tokenRemain - (sess[r].actual - sess[r].preConsumed)
          /\ UNCHANGED logged
       \/ /\ logged' = [logged EXCEPT ![r] = @ \cup {"settleToken"}]
          /\ UNCHANGED tokenRemain
    /\ UNCHANGED <<walletVars, creditVars, tokenStatus, writtenOff, info, job,
                   dead>>

-----------------------------------------------------------------------------
(* Refunding. *)

(***************************************************************************)
(* Refund, called because the relay failed, and possibly again by a        *)
(* recover() after a panic that follows Settle or Refund.                  *)
(***************************************************************************)
Refund(r) ==
    /\ At(r, "open") \/ At(r, "closed")
    /\ \/ /\ NeedsRefund(sess[r])
          /\ GoTo(r, "closed", [sess[r] EXCEPT !.refunded = TRUE])
          /\ job' = [job EXCEPT ![r] = "refundFunding"]
       \/ /\ ~ NeedsRefund(sess[r])
          /\ GoTo(r, "closed", sess[r])
          /\ UNCHANGED job
    /\ UNCHANGED <<walletVars, creditVars, tokenVars, writtenOff, info, logged,
                   dead>>

(* Faulty variant: the goroutine returns at the first error. *)
RefundFundingGivesUp(r) ==
    /\ job[r] = "refundFunding" /\ r \notin dead
    /\ \/ job' = [job EXCEPT ![r] = "done"] /\ UNCHANGED logged
       \/ /\ job' = [job EXCEPT ![r] = "none"]
          /\ logged' = [logged EXCEPT ![r] = @ \cup {"refundFunding"}]
    /\ UNCHANGED <<walletVars, creditVars, tokenVars, writtenOff, info, sess, pc,
                   dead>>

(* The goroutine: funding.Refund(), whose error is only logged. *)
RefundFunding(r) ==
    /\ job[r] = "refundFunding" /\ r \notin dead
    /\ LET s == sess[r]
           n == IF s.src = "wallet" THEN s.consumed ELSE 0
       IN \/ /\ quota' = quota + n
             /\ gift' = gift + RestoredGift(n, s.giftConsumed)
             /\ UNCHANGED logged
          \/ /\ logged' = [logged EXCEPT ![r] = @ \cup {"refundFunding"}]
             /\ UNCHANGED walletVars
    /\ job' = [job EXCEPT ![r] = IF HoldsToken(sess[r], info[r])
                                 THEN "refundToken" ELSE "done"]
    /\ UNCHANGED <<creditVars, tokenVars, writtenOff, info, sess, pc, dead>>

(* The goroutine: IncreaseTokenQuota, whose error is only logged. *)
RefundToken(r) ==
    /\ job[r] = "refundToken" /\ r \notin dead
    /\ \/ /\ tokenRemain' = tokenRemain + sess[r].tokenConsumed
          /\ UNCHANGED logged
       \/ /\ logged' = [logged EXCEPT ![r] = @ \cup {"refundToken"}]
          /\ UNCHANGED tokenRemain
    /\ job' = [job EXCEPT ![r] = "done"]
    /\ UNCHANGED <<walletVars, creditVars, tokenStatus, writtenOff, info, sess,
                   pc, dead>>

-----------------------------------------------------------------------------
(* The environment. *)

(* IncreaseUserQuota(id, n, true) of a paid order. *)
TopUp(n) ==
    /\ n > 0 /\ credited + n <= MaxCredited
    /\ quota' = quota + n /\ credited' = credited + n
    /\ UNCHANGED <<gift, granted, tokenVars, writtenOff, requestVars, dead>>

GrantUserGiftQuota(n) ==
    /\ n > 0 /\ credited + n <= MaxCredited
    /\ quota' = quota + n /\ credited' = credited + n
    /\ gift' = gift + n /\ granted' = granted + n
    /\ UNCHANGED <<tokenVars, writtenOff, requestVars, dead>>

(* The process dies: sessions and goroutines live in memory only. *)
Crash ==
    /\ dead' = {r \in Requests : pc[r] # "idle"}
    /\ dead' # dead
    /\ UNCHANGED <<walletVars, creditVars, tokenVars, writtenOff, requestVars>>

PreConsume(r) ==
    \/ CheckSub(r) \/ CheckWallet(r) \/ ReadToken(r) \/ TakeToken(r)
    \/ TakeWallet(r) \/ TakeSubscription(r) \/ ReturnToken(r)

RefundJob(r) == RefundFunding(r) \/ RefundToken(r)

Next ==
    \/ \E r \in Requests :
          \/ Authenticate(r) \/ Unauthorized(r)
          \/ PreConsume(r)
          \/ SettleFunding(r) \/ SettleToken(r)
          \/ Refund(r) \/ RefundJob(r)
    \/ \E n \in Amounts : TopUp(n) \/ GrantUserGiftQuota(n)
    \/ Crash

Spec == Init /\ [][Next]_vars

(***************************************************************************)
(* Goroutines are scheduled and database calls return.  Nothing is assumed *)
(* of the upstream: a session may stay open for ever.                      *)
(***************************************************************************)
FairSpec ==
    /\ Spec
    /\ \A r \in Requests : WF_vars(PreConsume(r)) /\ WF_vars(SettleToken(r))
                                                  /\ WF_vars(RefundJob(r))

-----------------------------------------------------------------------------
(* What a request has taken from each balance, read off the session, the   *)
(* refund goroutine and the logged errors.                                 *)

FundingReturned(r) ==
    job[r] \in {"refundToken", "done"} /\ "refundFunding" \notin logged[r]

WalletState(r) ==
    IF sess[r].src # "wallet" THEN "idle"
    ELSE IF FundingReturned(r) THEN "released"
    ELSE IF sess[r].fundingSettled \/ sess[r].settled THEN "charged"
    ELSE IF sess[r].consumed > 0 THEN "held" ELSE "idle"

WalletAccount(r) ==
    [state |-> WalletState(r),
     amount |-> IF WalletState(r) = "held" THEN sess[r].consumed
                ELSE IF WalletState(r) = "charged" THEN sess[r].actual ELSE 0]

GiftAccount(r) ==
    [state |-> WalletState(r),
     amount |-> IF WalletState(r) \in {"held", "charged"}
                THEN sess[r].giftConsumed ELSE 0]

TokenState(r) ==
    IF info[r].playground THEN "idle"
    ELSE IF /\ job[r] = "done" /\ sess[r].tokenConsumed > 0
            /\ "refundToken" \notin logged[r] THEN "released"
    ELSE IF sess[r].settled THEN "charged"
    ELSE IF sess[r].tokenConsumed > 0 THEN "held" ELSE "idle"

(* A token adjustment that failed leaves the token charged what was held.  *)
TokenAccount(r) ==
    [state |-> TokenState(r),
     amount |-> IF TokenState(r) = "held" THEN sess[r].tokenConsumed
                ELSE IF TokenState(r) # "charged" THEN 0
                ELSE IF "settleToken" \in logged[r] THEN sess[r].preConsumed
                ELSE sess[r].actual]

Wallet == INSTANCE Ledger WITH
    balance <- quota, credited <- credited, lost <- 0,
    account <- [r \in Requests |-> WalletAccount(r)]

Gift == INSTANCE Ledger WITH
    balance <- gift, credited <- granted, lost <- 0,
    account <- [r \in Requests |-> GiftAccount(r)]

Token == INSTANCE Ledger WITH
    balance <- tokenRemain, credited <- 0, lost <- writtenOff,
    account <- [r \in Requests |-> TokenAccount(r)]

(***************************************************************************)
(* Properties.                                                             *)
(***************************************************************************)

(* Every movement of users.quota is a credit or one request holding, being *)
(* charged once or being released once, by exactly that amount: whatever   *)
(* the order of pre-consumption, Settle, repeated Refund calls, their      *)
(* goroutines and their failures, nothing is charged or returned twice.    *)
WalletLedger == Wallet!LedgerSpec

(* The same of users.gift_quota: a full refund restores the gift part that *)
(* the pre-consumption of that very request took, and a settled request    *)
(* never gives gift quota back.                                            *)
GiftLedger == Gift!LedgerSpec

(* The same of tokens.remain_quota, where a hold may also be withdrawn     *)
(* when the funding source refuses and another one is tried, or be given   *)
(* up when that rollback fails.                                            *)
TokenLedger == Token!LedgerSpec

(* A refund in flight returns what the pre-consumption took, and its gift  *)
(* part never exceeds it: the caps of RestoreUserWalletQuota never hide a  *)
(* settlement that a refund follows.                                       *)
RefundSplitFits ==
    \A r \in Requests : job[r] = "refundFunding" =>
        /\ ~ sess[r].settled /\ ~ sess[r].fundingSettled
        /\ sess[r].giftConsumed <= sess[r].consumed
        /\ sess[r].src = "wallet" => sess[r].consumed = sess[r].preConsumed

Finished(r) == pc[r] = "closed" /\ job[r] \in {"none", "done"}

(* What all requests together have taken from a balance. *)
Total(amounts) == SumFunctionOnSet(amounts, Requests)
WalletAmounts == [r \in Requests |-> WalletAccount(r).amount]
GiftAmounts == [r \in Requests |-> GiftAccount(r).amount]
TokenAmounts == [r \in Requests |-> TokenAccount(r).amount]

(* Conservation: what is stored plus what all requests have taken is what  *)
(* there was plus what was credited, on each of the three balances; a      *)
(* token amount is missing only if its rollback error was logged.          *)
MoneyConserved ==
    /\ quota + Total(WalletAmounts) = InitQuota + credited
    /\ gift + Total(GiftAmounts) = InitGift + granted
    /\ tokenRemain + writtenOff + Total(TokenAmounts) = InitToken

(* When every admitted request is finished, was paid by the wallet and had *)
(* a token, the wallet and the token have lost the same amount, except for *)
(* what failed token rollbacks were logged to keep.  A failed settlement   *)
(* of the funding source does not matter: the token is then left alone.    *)
TokenMatchesFunding ==
    (\A r \in Requests :
        \/ pc[r] \in {"idle", "rejected"}
        \/ /\ Finished(r) /\ logged[r] \subseteq {"settleFunding"}
           /\ sess[r].src = "wallet" /\ ~ info[r].playground)
    => InitQuota + credited - quota = InitToken - tokenRemain - writtenOff

(* A request that is over without a database error holds nothing any more, *)
(* on any balance: its handler either settled it, or had its refund run,   *)
(* or had consumed nothing.  NeedsRefund reads tokenConsumed for this even *)
(* where no token exists.                                                  *)
NothingLeftHeld ==
    \A r \in Requests :
        Finished(r) /\ logged[r] = {} =>
            WalletState(r) # "held" /\ TokenState(r) # "held"

(* An asynchronous task (ForcePreConsume) is admitted only once its whole  *)
(* estimate is held, on the funding source and on the token: the trust     *)
(* bypass of shouldTrust never applies to it.                              *)
ForcedHoldsEstimate ==
    \A r \in Requests : pc[r] = "open" /\ info[r].force =>
        /\ sess[r].preConsumed >= info[r].est
        /\ sess[r].src = "wallet" => WalletAccount(r).amount = info[r].est
        /\ ~ info[r].playground => TokenAccount(r).amount = sess[r].preConsumed

(***************************************************************************)
(* What a session has taken follows from the step its handler is at, from  *)
(* whether it was settled, and from its refund: the inductive invariant of *)
(* the proofs.                                                             *)
(***************************************************************************)
NothingTaken(s) ==
    /\ s.preConsumed = 0 /\ s.consumed = 0 /\ s.giftConsumed = 0
    /\ s.subPreConsumed = 0
    /\ ~ s.fundingSettled /\ ~ s.settled /\ ~ s.refunded

OpeningInv(r) ==
    /\ pc[r] \in {"idle", "checkSub", "checkWallet", "rejected"} =>
          sess[r] = NoSession
    /\ pc[r] \in {"readToken", "takeToken", "takeFunding", "returnToken"} =>
          sess[r].src # "none" /\ NothingTaken(sess[r])
    /\ pc[r] \in {"readToken", "takeToken"} =>
          sess[r].eff > 0 /\ sess[r].tokenConsumed = 0
    /\ pc[r] \in {"takeFunding", "returnToken"} =>
          sess[r].tokenConsumed = sess[r].eff
    /\ pc[r] = "takeToken" => ~ info[r].playground
    /\ pc[r] = "returnToken" => HoldsToken(sess[r], info[r])

AdmittedInv(r) ==
    LET s == sess[r]
    IN pc[r] \in {"open", "settleToken", "closed"} =>
          /\ s.src # "none"
          /\ s.preConsumed = s.eff /\ s.tokenConsumed = s.eff
          /\ s.consumed = (IF s.src = "wallet" THEN s.eff ELSE 0)
          /\ s.subPreConsumed = (IF s.src = "subscription" THEN s.eff ELSE 0)
          /\ ~ s.fundingSettled /\ ~ s.settled => s.giftConsumed <= s.consumed

EstimateInv(r) ==
    LET s == sess[r]
    IN /\ s.src = "wallet" /\ info[r].force => s.eff = info[r].est
       /\ s.src = "subscription" => s.eff >= info[r].est /\ s.eff > 0

ClosingInv(r) ==
    LET s == sess[r]
    IN /\ pc[r] = "open" => ~ s.fundingSettled /\ ~ s.settled /\ ~ s.refunded
       /\ pc[r] = "settleToken" =>
             s.fundingSettled /\ ~ s.settled /\ ~ s.refunded
             /\ ~ info[r].playground
       /\ pc[r] = "closed" =>
             /\ s.fundingSettled => s.settled
             /\ s.settled => ~ s.refunded
             /\ s.settled /\ ~ s.fundingSettled => s.actual = s.preConsumed
             /\ ~ s.settled /\ ~ s.refunded => "settleFunding" \in logged[r]
                                              \/ s.tokenConsumed = 0

JobInv(r) ==
    LET s == sess[r]
    IN /\ s.refunded <=> job[r] # "none"
       /\ s.refunded => s.tokenConsumed > 0
       /\ job[r] = "refundToken" => HoldsToken(s, info[r])
       /\ logged[r] # {} => pc[r] = "closed"
       /\ "settleToken" \in logged[r] => s.settled
       /\ "refundFunding" \in logged[r] => job[r] \in {"refundToken", "done"}
       /\ "refundToken" \in logged[r] => job[r] = "done"

SessionInv ==
    \A r \in Requests : /\ OpeningInv(r) /\ AdmittedInv(r) /\ EstimateInv(r)
                         /\ ClosingInv(r) /\ JobInv(r)

(* The goroutine of a Refund call runs to its end unless the process dies. *)
RefundCompletes ==
    \A r \in Requests :
        sess[r].refunded ~> (job[r] = "done" \/ r \in dead)

(* NewBillingSession returns, whatever fallbacks between the wallet and    *)
(* the subscription it goes through.                                       *)
OpeningTerminates ==
    \A r \in Requests :
        pc[r] \in Opening ~> (pc[r] \notin Opening \/ r \in dead)
=============================================================================
