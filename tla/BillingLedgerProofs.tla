------------------------- MODULE BillingLedgerProofs ------------------------
(***************************************************************************)
(* BillingSession implements the ledger of each balance: every step of a   *)
(* request moves its own account as the ledger allows, and the balance by  *)
(* exactly the difference.                                                 *)
(***************************************************************************)
EXTENDS BillingSessionProofs, SumTheorems

Idle == [state |-> "idle", amount |-> 0]

(* A move of one account from a to b, as Ledger allows it. *)
AccountMove(a, b) ==
    \/ a.state = "idle" /\ b.state = "held"
    \/ a.state \in {"idle", "held"} /\ b.state = "charged"
    \/ a.state = "held" /\ b = [state |-> "released", amount |-> 0]
    \/ a.state = "held" /\ b = Idle

(* SettleToken and Refund set one flag of the session. *)
FlagOnly(r) ==
    LET s == sess[r]
        t == sess'[r]
    IN /\ t.src = s.src /\ t.preConsumed = s.preConsumed
       /\ t.tokenConsumed = s.tokenConsumed /\ t.consumed = s.consumed
       /\ t.giftConsumed = s.giftConsumed /\ t.actual = s.actual
       /\ t.fundingSettled = s.fundingSettled

LEMMA SettleTokenFlag ==
    ASSUME TypeOK, NEW r \in Requests, SettleToken(r)
    PROVE  FlagOnly(r) /\ pc'[r] = "closed" /\ sess'[r].settled
  <1>. DEFINE s == [sess[r] EXCEPT !.settled = TRUE]
  <1>1. pc'[r] = "closed" /\ sess'[r] = s
    BY GoToOwn DEF SettleToken
  <1>. QED
    BY <1>1, RequestType DEF Session, FlagOnly

LEMMA RefundFlag ==
    ASSUME TypeOK, NEW r \in Requests, Refund(r)
    PROVE  /\ FlagOnly(r) /\ sess'[r].settled = sess[r].settled
           /\ \/ NeedsRefund(sess[r]) /\ job'[r] = "refundFunding"
              \/ job'[r] = job[r]
  <1>. DEFINE s == [sess[r] EXCEPT !.refunded = TRUE]
  <1>1. /\ s.src = sess[r].src /\ s.preConsumed = sess[r].preConsumed
        /\ s.tokenConsumed = sess[r].tokenConsumed
        /\ s.consumed = sess[r].consumed
        /\ s.giftConsumed = sess[r].giftConsumed /\ s.actual = sess[r].actual
        /\ s.fundingSettled = sess[r].fundingSettled
        /\ s.settled = sess[r].settled
    BY RequestType DEF Session
  <1>2. \/ NeedsRefund(sess[r]) /\ sess'[r] = s /\ job'[r] = "refundFunding"
        \/ sess'[r] = sess[r] /\ job'[r] = job[r]
    BY GoToOwn DEF Refund, TypeOK
  <1>. HIDE DEF s
  <1>. QED
    BY <1>1, <1>2 DEF FlagOnly

LEMMA TryNextPc ==
    ASSUME TypeOK, NEW r \in Requests, NEW i, NEW src, TryNext(r, i, src)
    PROVE  pc'[r] \in Opening \cup {"rejected"}
  BY GoToOwn DEF TryNext, Opening

(* The steps of NewBillingSession that are not TakeWallet leave the wallet *)
(* alone; they end before the session is open, or with one that is paid by *)
(* a subscription.                                                         *)
LEMMA OpeningStep ==
    ASSUME TypeOK, NEW r \in Requests,
           \/ Authenticate(r) \/ Unauthorized(r) \/ CheckSub(r)
           \/ CheckWallet(r) \/ ReadToken(r) \/ TakeToken(r) \/ ReturnToken(r)
    PROVE  /\ pc[r] \in Opening \cup {"idle"}
           /\ pc'[r] \in Opening \cup {"rejected"}
           /\ UNCHANGED <<quota, gift, credited, granted>>
  <1>1. pc'[r] \in Opening \cup {"rejected"}
    <2>1. CASE \E i, src : TryNext(r, i, src)
      BY <2>1, TryNextPc
    <2>2. CASE \A i, src : ~ TryNext(r, i, src)
      BY <2>2, GoToOwn
      DEF Authenticate, Unauthorized, CheckSub, CheckWallet, ReadToken,
          TakeToken, ReturnToken, Opening
    <2>. QED
      BY <2>1, <2>2
  <1>. QED
    BY <1>1
    DEF Authenticate, Unauthorized, CheckSub, CheckWallet, ReadToken,
        TakeToken, ReturnToken, At, Opening, walletVars, creditVars

LEMMA PreConsumeFailedPc ==
    ASSUME TypeOK, NEW r \in Requests, NEW code, PreConsumeFailed(r, code)
    PROVE  pc'[r] \in Opening \cup {"rejected"}
  BY GoToOwn, TryNextPc DEF PreConsumeFailed, Opening

(* A step of one request, or one that leaves all of them alone. *)
QuietStep ==
    /\ UNCHANGED requestVars
    /\ \/ \E n \in Amounts : TopUp(n) \/ GrantUserGiftQuota(n)
       \/ UNCHANGED <<quota, gift, credited, granted, tokenRemain, tokenStatus,
                      writtenOff>>

LEMMA QuietCases ==
    ASSUME [Next]_vars
    PROVE  (\E r \in Requests : RequestStep(r)) \/ QuietStep
  BY DEF QuietStep, Next, RequestStep, TopUp, GrantUserGiftQuota, Crash, vars, walletVars,
         creditVars, tokenVars

-----------------------------------------------------------------------------
(* The wallet. *)

WalletMove(r) ==
    \/ WalletAccount(r)' = WalletAccount(r) /\ quota' = quota
    \/ /\ AccountMove(WalletAccount(r), WalletAccount(r)')
       /\ quota' = quota + WalletAccount(r).amount - WalletAccount(r)'.amount

LEMMA WalletNotOpened ==
    ASSUME TypeOK, NEW r \in Requests, RequestInv(r),
           pc[r] \in Opening \cup {"idle", "rejected"}
    PROVE  WalletAccount(r) = Idle
  BY DEF RequestInv, OpeningInv, JobInv, NothingTaken, NoSession, Opening,
         WalletAccount, WalletState, FundingReturned, Idle

LEMMA WalletNotOpenedNext ==
    ASSUME NEW r \in Requests, RequestInv(r)',
           pc'[r] \in Opening \cup {"idle", "rejected"}
    PROVE  WalletAccount(r)' = Idle
  BY DEF RequestInv, OpeningInv, JobInv, NothingTaken, NoSession, Opening,
         WalletAccount, WalletState, FundingReturned, Idle

LEMMA WalletTake ==
    ASSUME TypeOK, NEW r \in Requests, RequestInv(r), RequestInv(r)',
           TakeWallet(r) \/ TakeSubscription(r)
    PROVE  WalletMove(r)
  <1>1. WalletAccount(r) = Idle
    BY WalletNotOpened DEF TakeWallet, TakeSubscription, At, Opening
  <1>2. CASE pc'[r] \in Opening \cup {"rejected"} /\ quota' = quota
    BY <1>1, <1>2, WalletNotOpenedNext DEF WalletMove
  <1>3. CASE TakeWallet(r) /\ ~ (pc'[r] \in Opening \cup {"rejected"})
    <2>. DEFINE n == sess[r].eff
                g == GiftPart(n, gift)
                s == [sess[r] EXCEPT !.preConsumed = n, !.consumed = n,
                                     !.giftConsumed = g]
    <2>1. GoTo(r, "open", s) /\ quota' = quota - n
      BY <1>3, PreConsumeFailedPc DEF TakeWallet
    <2>2. s.src = "wallet" /\ s.consumed = n
      BY <1>3, RequestType DEF TakeWallet, Session
    <2>3. pc'[r] = "open" /\ sess'[r] = s
      BY <2>1, GoToOwn
    <2>4. n \in Nat /\ quota \in Int
      BY RequestType DEF TypeOK
    <2>. HIDE DEF s, n
    <2>5. WalletAccount(r)' =
             [state |-> IF n > 0 THEN "held" ELSE "idle",
              amount |-> IF n > 0 THEN n ELSE 0]
      BY <2>2, <2>3
      DEF RequestInv, ClosingInv, JobInv, WalletAccount, WalletState,
          FundingReturned
    <2>. QED
      BY <1>1, <2>1, <2>4, <2>5 DEF WalletMove, AccountMove, Idle
  <1>4. CASE TakeSubscription(r) /\ ~ (pc'[r] \in Opening \cup {"rejected"})
    <2>. DEFINE n == sess[r].eff
                s == [sess[r] EXCEPT !.preConsumed = n, !.subPreConsumed = n]
    <2>1. GoTo(r, "open", s) /\ quota' = quota
      BY <1>4, PreConsumeFailedPc DEF TakeSubscription, walletVars
    <2>2. s.src = "subscription"
      BY <1>4, RequestType DEF TakeSubscription, Session
    <2>3. sess'[r] = s
      BY <2>1, GoToOwn
    <2>. HIDE DEF s
    <2>. QED
      BY <1>1, <2>1, <2>2, <2>3
      DEF WalletMove, WalletAccount, WalletState, FundingReturned, Idle
  <1>5. quota' = quota \/ (TakeWallet(r) /\ ~ (pc'[r] \in Opening \cup {"rejected"}))
    BY GoToOwn DEF TakeWallet, TakeSubscription, walletVars, Opening
  <1>. QED
    BY <1>2, <1>3, <1>4, <1>5

LEMMA WalletSettle ==
    ASSUME TypeOK, NEW r \in Requests, RequestInv(r), RequestInv(r)',
           SettleFunding(r)
    PROVE  WalletMove(r)
  <1>1. PICK a \in Nat, g \in Nat :
           /\ SettleKeeps(r)
           /\ \/ NothingToSettle(r, a, g)
              \/ FundingAdjusted(r, a, g)
              \/ SettleFailed(r)
    BY SettleFundingCases
  <1>2. /\ pc[r] = "open" /\ job[r] = "none" /\ job' = job
        /\ ~ sess[r].settled /\ ~ sess[r].fundingSettled
        /\ sess[r].consumed = IF sess[r].src = "wallet"
                              THEN sess[r].preConsumed ELSE 0
    BY OpeningQuiet
    DEF SettleFunding, At, RequestInv, ClosingInv, AdmittedInv
  <1>3. sess[r].preConsumed \in Nat /\ quota \in Int
    BY RequestType DEF TypeOK
  <1>4. CASE sess[r].src # "wallet"
    <2>1. WalletAccount(r) = Idle /\ WalletAccount(r)' = Idle
      BY <1>1, <1>4
      DEF SettleKeeps, SettleFailed, WalletAccount, WalletState,
          FundingReturned, Idle
    <2>. QED
      BY <1>1, <1>4, <2>1
      DEF WalletMove, NothingToSettle, FundingAdjusted, SettleFailed
  <1>5. CASE sess[r].src = "wallet"
    <2>. DEFINE n == sess[r].preConsumed
    <2>1. WalletAccount(r) = [state |-> IF n > 0 THEN "held" ELSE "idle",
                              amount |-> IF n > 0 THEN n ELSE 0]
      BY <1>2, <1>5 DEF WalletAccount, WalletState, FundingReturned
    <2>2. CASE NothingToSettle(r, a, g) \/ FundingAdjusted(r, a, g)
      <3>1. WalletAccount(r)' = [state |-> "charged", amount |-> a]
        BY <1>1, <1>2, <1>5, <2>2
        DEF SettleKeeps, NothingToSettle, FundingAdjusted, WalletAccount,
            WalletState, FundingReturned
      <3>2. quota' = quota - (a - n)
        BY <1>3, <1>5, <2>2 DEF NothingToSettle, FundingAdjusted
      <3>. QED
        BY <1>3, <2>1, <3>1, <3>2 DEF WalletMove, AccountMove
    <2>3. CASE SettleFailed(r)
      BY <1>2, <2>3
      DEF SettleFailed, WalletMove, WalletAccount, WalletState, FundingReturned
    <2>. QED
      BY <1>1, <2>2, <2>3
  <1>. QED
    BY <1>4, <1>5

LEMMA WalletClose ==
    ASSUME TypeOK, NEW r \in Requests, RequestInv(r), RequestInv(r)',
           SettleToken(r) \/ Refund(r) \/ RefundToken(r)
    PROVE  WalletMove(r)
  <1>. USE DEF WalletMove, WalletAccount, WalletState, FundingReturned
  <1>1. CASE SettleToken(r)
    <2>1. /\ job[r] = "none" /\ job' = job /\ sess[r].fundingSettled
          /\ quota' = quota
      BY <1>1, OpeningQuiet
      DEF SettleToken, At, RequestInv, ClosingInv, walletVars
    <2>. QED
      BY <1>1, <2>1, SettleTokenFlag DEF FlagOnly
  <1>2. CASE Refund(r)
    <2>1. /\ quota' = quota /\ logged' = logged
          /\ NeedsRefund(sess[r]) => job[r] = "none"
      BY <1>2 DEF Refund, walletVars, NeedsRefund, RequestInv, JobInv
    <2>. QED
      BY <1>2, <2>1, RefundFlag DEF FlagOnly
  <1>3. CASE RefundToken(r)
    <2>1. /\ quota' = quota /\ sess' = sess
          /\ job[r] = "refundToken" /\ job'[r] = "done"
          /\ "refundFunding" \in logged'[r] <=> "refundFunding" \in logged[r]
      BY <1>3 DEF RefundToken, walletVars, TypeOK
    <2>. QED
      BY <2>1
  <1>. QED
    BY <1>1, <1>2, <1>3

LEMMA RefundFundingState ==
    ASSUME TypeOK, NEW r \in Requests, RequestInv(r), RefundFunding(r)
    PROVE  /\ job[r] = "refundFunding" /\ "refundFunding" \notin logged[r]
           /\ job'[r] \in {"refundToken", "done"} /\ sess' = sess /\ info' = info
           /\ ~ sess[r].settled /\ ~ sess[r].fundingSettled
           /\ sess[r].giftConsumed <= sess[r].consumed
           /\ sess[r].src = "wallet" => sess[r].consumed > 0
  <1>1. /\ job[r] = "refundFunding" /\ sess[r].refunded
        /\ job'[r] \in {"refundToken", "done"} /\ sess' = sess /\ info' = info
    BY DEF RefundFunding, RequestInv, JobInv, TypeOK
  <1>2. pc[r] = "closed"
    BY <1>1, OpeningQuiet
    DEF RequestInv, JobInv, OpeningInv, TypeOK, HandlerSteps, NoSession
  <1>. QED
    BY <1>1, <1>2 DEF RequestInv, AdmittedInv, ClosingInv, JobInv

LEMMA WalletRefund ==
    ASSUME TypeOK, NEW r \in Requests, RequestInv(r), RefundFunding(r)
    PROVE  WalletMove(r)
  <1>. DEFINE n == IF sess[r].src = "wallet" THEN sess[r].consumed ELSE 0
  <1>1. \/ quota' = quota + n /\ logged' = logged
        \/ quota' = quota /\ "refundFunding" \in logged'[r]
    BY DEF RefundFunding, walletVars, TypeOK
  <1>2. quota \in Int /\ sess[r].consumed \in Nat
    BY RequestType DEF TypeOK
  <1>3. CASE sess[r].src # "wallet"
    BY <1>1, <1>2, <1>3, RefundFundingState
    DEF WalletMove, WalletAccount, WalletState, FundingReturned
  <1>4. CASE sess[r].src = "wallet"
    <2>1. WalletAccount(r) = [state |-> "held", amount |-> sess[r].consumed]
      BY <1>4, RefundFundingState
      DEF WalletAccount, WalletState, FundingReturned
    <2>2. CASE quota' = quota + n /\ logged' = logged
      <3>1. WalletAccount(r)' = [state |-> "released", amount |-> 0]
        BY <1>4, <2>2, RefundFundingState
        DEF WalletAccount, WalletState, FundingReturned
      <3>. QED
        BY <1>2, <1>4, <2>1, <2>2, <3>1 DEF WalletMove, AccountMove
    <2>3. CASE quota' = quota /\ "refundFunding" \in logged'[r]
      <3>1. WalletAccount(r)' = [state |-> "held", amount |-> sess[r].consumed]
        BY <1>4, <2>3, RefundFundingState
        DEF WalletAccount, WalletState, FundingReturned
      <3>. QED
        BY <2>1, <2>3, <3>1 DEF WalletMove
    <2>. QED
      BY <1>1, <2>2, <2>3
  <1>. QED
    BY <1>3, <1>4

LEMMA WalletStep ==
    ASSUME TypeOK, NEW r \in Requests, RequestInv(r), RequestInv(r)',
           RequestStep(r)
    PROVE  WalletMove(r) /\ UNCHANGED credited
  <1>1. UNCHANGED credited
    BY DEF RequestStep, PreConsume, RefundJob, Authenticate, Unauthorized,
           CheckSub, CheckWallet, ReadToken, TakeToken, TakeWallet,
           TakeSubscription, ReturnToken, SettleFunding, SettleToken, Refund,
           RefundFunding, RefundToken, creditVars
  <1>2. CASE \/ Authenticate(r) \/ Unauthorized(r) \/ CheckSub(r)
             \/ CheckWallet(r) \/ ReadToken(r) \/ TakeToken(r)
             \/ ReturnToken(r)
    <2>1. WalletAccount(r) = Idle /\ WalletAccount(r)' = Idle
      BY <1>2, OpeningStep, WalletNotOpened, WalletNotOpenedNext
    <2>. QED
      BY <1>1, <1>2, <2>1, OpeningStep DEF WalletMove
  <1>. QED
    BY <1>1, <1>2, WalletTake, WalletSettle, WalletClose, WalletRefund
    DEF RequestStep, PreConsume, RefundJob

(* An account's move and the others' rest are a step of the ledger. *)
LEMMA WalletLedgerStep ==
    ASSUME NEW r \in Requests, WalletMove(r), UNCHANGED credited,
           \A q \in Requests \ {r} : Same(q)
    PROVE  [Wallet!LedgerNext]_(Wallet!ledgerVars)
  <1>. DEFINE acct == [q \in Requests |-> WalletAccount(q)]
  <1>1. \A q \in Requests \ {r} : WalletAccount(q)' = WalletAccount(q)
    BY DEF Same, WalletAccount, WalletState, FundingReturned
  <1>2. acct' = [acct EXCEPT ![r] = WalletAccount(r)']
    BY <1>1
  <1>3. acct[r] = WalletAccount(r) /\ acct'[r] = WalletAccount(r)'
    OBVIOUS
  <1>4. CASE WalletAccount(r)' = WalletAccount(r) /\ quota' = quota
    <2>1. acct' = acct
      BY <1>1, <1>4
    <2>. QED
      BY <1>4, <2>1 DEF Wallet!ledgerVars
  <1>5. CASE /\ AccountMove(WalletAccount(r), WalletAccount(r)')
             /\ quota' = quota + WalletAccount(r).amount
                               - WalletAccount(r)'.amount
    <2>. HIDE DEF acct
    <2>. QED
      BY <1>2, <1>3, <1>5
      DEF AccountMove, Idle, Wallet!LedgerNext, Wallet!Hold, Wallet!Charge,
          Wallet!Release, Wallet!Cancel, Wallet!Becomes, Wallet!IdleAccount,
          acct
  <1>. QED
    BY <1>4, <1>5 DEF WalletMove

(* Every behaviour of the code's steps is one of the ledger of users.quota *)
(* (WalletLedger): each movement of the wallet is a credit or one request  *)
(* holding, charged once or released once, by exactly that amount.         *)
THEOREM WalletRefinement == Spec => WalletLedger
  <1>1. Init => Wallet!LedgerInit
    BY DEF Init, Wallet!LedgerInit, Wallet!IdleAccount, WalletAccount,
           WalletState, FundingReturned, NoSession
  <1>2. /\ TypeOK /\ SessionInv /\ SessionInv' /\ [Next]_vars
        => [Wallet!LedgerNext]_(Wallet!ledgerVars)
    <2>. SUFFICES ASSUME TypeOK, SessionInv, SessionInv', [Next]_vars
                  PROVE  [Wallet!LedgerNext]_(Wallet!ledgerVars)
      OBVIOUS
    <2>1. CASE \E r \in Requests : RequestStep(r)
      <3>1. PICK r \in Requests : RequestStep(r)
        BY <2>1
      <3>2. RequestInv(r) /\ RequestInv(r)'
        BY DEF SessionInv, RequestInv
      <3>. QED
        BY <3>1, <3>2, WalletStep, RequestStepOwn, WalletLedgerStep
    <2>2. CASE QuietStep
      <3>1. \A q \in Requests : WalletAccount(q)' = WalletAccount(q)
        BY <2>2 DEF QuietStep, requestVars, WalletAccount, WalletState, FundingReturned
      <3>2. CASE UNCHANGED <<quota, credited>>
        BY <3>1, <3>2 DEF Wallet!ledgerVars
      <3>3. CASE \E n \in Amounts : TopUp(n) \/ GrantUserGiftQuota(n)
        BY <3>1, <3>3, BillingAssumption
        DEF TopUp, GrantUserGiftQuota, Wallet!LedgerNext, Wallet!Credit, TypeOK
      <3>. QED
        BY <2>2, <3>2, <3>3 DEF QuietStep
    <2>. QED
      BY <2>1, <2>2, QuietCases
  <1>. QED
    BY <1>1, <1>2, TypeCorrect, SessionInvariant, PTL
    DEF Spec, WalletLedger, Wallet!LedgerSpec

-----------------------------------------------------------------------------
(* The gift part of the wallet. *)

GiftMove(r) ==
    \/ GiftAccount(r)' = GiftAccount(r) /\ gift' = gift
    \/ /\ AccountMove(GiftAccount(r), GiftAccount(r)')
       /\ gift' = gift + GiftAccount(r).amount - GiftAccount(r)'.amount

LEMMA GiftNotOpened ==
    ASSUME TypeOK, NEW r \in Requests, RequestInv(r),
           pc[r] \in Opening \cup {"idle", "rejected"}
    PROVE  GiftAccount(r) = Idle
  BY DEF RequestInv, OpeningInv, JobInv, NothingTaken, NoSession, Opening,
         GiftAccount, WalletState, FundingReturned, Idle

LEMMA GiftNotOpenedNext ==
    ASSUME NEW r \in Requests, RequestInv(r)',
           pc'[r] \in Opening \cup {"idle", "rejected"}
    PROVE  GiftAccount(r)' = Idle
  BY DEF RequestInv, OpeningInv, JobInv, NothingTaken, NoSession, Opening,
         GiftAccount, WalletState, FundingReturned, Idle

LEMMA GiftTake ==
    ASSUME TypeOK, NEW r \in Requests, RequestInv(r), RequestInv(r)',
           TakeWallet(r) \/ TakeSubscription(r)
    PROVE  GiftMove(r)
  <1>1. GiftAccount(r) = Idle
    BY GiftNotOpened DEF TakeWallet, TakeSubscription, At, Opening
  <1>2. CASE pc'[r] \in Opening \cup {"rejected"} /\ gift' = gift
    BY <1>1, <1>2, GiftNotOpenedNext DEF GiftMove
  <1>3. CASE TakeWallet(r) /\ ~ (pc'[r] \in Opening \cup {"rejected"})
    <2>. DEFINE n == sess[r].eff
                g == GiftPart(n, gift)
                s == [sess[r] EXCEPT !.preConsumed = n, !.consumed = n,
                                     !.giftConsumed = g]
    <2>1. GoTo(r, "open", s) /\ gift' = gift - g
      BY <1>3, PreConsumeFailedPc DEF TakeWallet
    <2>2. s.src = "wallet" /\ s.consumed = n /\ s.giftConsumed = g
      BY <1>3, RequestType DEF TakeWallet, Session
    <2>3. pc'[r] = "open" /\ sess'[r] = s
      BY <2>1, GoToOwn
    <2>4. n \in Nat /\ gift \in Nat /\ g \in Nat /\ g <= n
      BY RequestType, GiftPartType DEF TypeOK
    <2>. HIDE DEF s, n, g
    <2>5. GiftAccount(r)' =
             [state |-> IF n > 0 THEN "held" ELSE "idle",
              amount |-> IF n > 0 THEN g ELSE 0]
      BY <2>2, <2>3
      DEF RequestInv, ClosingInv, JobInv, GiftAccount, WalletState,
          FundingReturned
    <2>. QED
      BY <1>1, <2>1, <2>4, <2>5 DEF GiftMove, AccountMove, Idle
  <1>4. CASE TakeSubscription(r) /\ ~ (pc'[r] \in Opening \cup {"rejected"})
    <2>. DEFINE n == sess[r].eff
                s == [sess[r] EXCEPT !.preConsumed = n, !.subPreConsumed = n]
    <2>1. GoTo(r, "open", s) /\ gift' = gift
      BY <1>4, PreConsumeFailedPc DEF TakeSubscription, walletVars
    <2>2. s.src = "subscription"
      BY <1>4, RequestType DEF TakeSubscription, Session
    <2>3. sess'[r] = s
      BY <2>1, GoToOwn
    <2>. HIDE DEF s
    <2>. QED
      BY <1>1, <2>1, <2>2, <2>3
      DEF GiftMove, GiftAccount, WalletState, FundingReturned, Idle
  <1>5. gift' = gift \/ (TakeWallet(r) /\ ~ (pc'[r] \in Opening \cup {"rejected"}))
    BY GoToOwn DEF TakeWallet, TakeSubscription, walletVars, Opening
  <1>. QED
    BY <1>2, <1>3, <1>4, <1>5

LEMMA GiftSettle ==
    ASSUME TypeOK, NEW r \in Requests, RequestInv(r), RequestInv(r)',
           SettleFunding(r)
    PROVE  GiftMove(r)
  <1>1. PICK a \in Nat, g \in Nat :
           /\ SettleKeeps(r)
           /\ sess[r].src # "wallet" => g = 0
           /\ \/ NothingToSettle(r, a, g)
              \/ FundingAdjusted(r, a, g)
              \/ SettleFailed(r)
    BY SettleFundingCases
  <1>2. /\ pc[r] = "open" /\ job[r] = "none" /\ job' = job
        /\ ~ sess[r].settled /\ ~ sess[r].fundingSettled
        /\ sess[r].giftConsumed <= sess[r].consumed
    BY OpeningQuiet
    DEF SettleFunding, At, RequestInv, ClosingInv, AdmittedInv
  <1>3. /\ sess[r].giftConsumed \in Nat /\ sess[r].consumed \in Nat
        /\ gift \in Nat
    BY RequestType DEF TypeOK
  <1>4. CASE sess[r].src # "wallet"
    <2>1. GiftAccount(r) = Idle /\ GiftAccount(r)' = Idle
      BY <1>1, <1>4
      DEF SettleKeeps, GiftAccount, WalletState, FundingReturned, Idle
    <2>. QED
      BY <1>1, <1>3, <1>4, <2>1
      DEF GiftMove, NothingToSettle, FundingAdjusted, SettleFailed
  <1>5. CASE sess[r].src = "wallet"
    <2>. DEFINE n == sess[r].consumed
                h == sess[r].giftConsumed
    <2>1. GiftAccount(r) = [state |-> IF n > 0 THEN "held" ELSE "idle",
                            amount |-> IF n > 0 THEN h ELSE 0]
      BY <1>2, <1>5 DEF GiftAccount, WalletState, FundingReturned
    <2>2. ~ (n > 0) => h = 0
      BY <1>2, <1>3
    <2>3. CASE NothingToSettle(r, a, g) \/ FundingAdjusted(r, a, g)
      <3>1. GiftAccount(r)' = [state |-> "charged",
                               amount |-> sess'[r].giftConsumed]
        BY <1>1, <1>2, <1>5, <2>3
        DEF SettleKeeps, NothingToSettle, FundingAdjusted, GiftAccount,
            WalletState, FundingReturned
      <3>2. gift' = gift - g /\ sess'[r].giftConsumed = h + g
        BY <1>3, <2>3 DEF NothingToSettle, FundingAdjusted
      <3>. QED
        BY <1>3, <2>1, <2>2, <3>1, <3>2 DEF GiftMove, AccountMove
    <2>4. CASE SettleFailed(r)
      BY <1>2, <2>4
      DEF SettleFailed, GiftMove, GiftAccount, WalletState, FundingReturned
    <2>. QED
      BY <1>1, <2>3, <2>4
  <1>. QED
    BY <1>4, <1>5

LEMMA GiftClose ==
    ASSUME TypeOK, NEW r \in Requests, RequestInv(r), RequestInv(r)',
           SettleToken(r) \/ Refund(r) \/ RefundToken(r)
    PROVE  GiftMove(r)
  <1>. USE DEF GiftMove, GiftAccount, WalletState, FundingReturned
  <1>1. CASE SettleToken(r)
    <2>1. /\ job[r] = "none" /\ job' = job /\ sess[r].fundingSettled
          /\ gift' = gift
      BY <1>1, OpeningQuiet
      DEF SettleToken, At, RequestInv, ClosingInv, walletVars
    <2>. QED
      BY <1>1, <2>1, SettleTokenFlag DEF FlagOnly
  <1>2. CASE Refund(r)
    <2>1. /\ gift' = gift /\ logged' = logged
          /\ NeedsRefund(sess[r]) => job[r] = "none"
      BY <1>2 DEF Refund, walletVars, NeedsRefund, RequestInv, JobInv
    <2>. QED
      BY <1>2, <2>1, RefundFlag DEF FlagOnly
  <1>3. CASE RefundToken(r)
    <2>1. /\ gift' = gift /\ sess' = sess
          /\ job[r] = "refundToken" /\ job'[r] = "done"
          /\ "refundFunding" \in logged'[r] <=> "refundFunding" \in logged[r]
      BY <1>3 DEF RefundToken, walletVars, TypeOK
    <2>. QED
      BY <2>1
  <1>. QED
    BY <1>1, <1>2, <1>3

LEMMA GiftRefund ==
    ASSUME TypeOK, NEW r \in Requests, RequestInv(r), RefundFunding(r)
    PROVE  GiftMove(r)
  <1>. DEFINE n == IF sess[r].src = "wallet" THEN sess[r].consumed ELSE 0
              h == sess[r].giftConsumed
  <1>1. \/ gift' = gift + RestoredGift(n, h) /\ logged' = logged
        \/ gift' = gift /\ "refundFunding" \in logged'[r]
    BY DEF RefundFunding, walletVars, TypeOK
  <1>2. gift \in Nat /\ sess[r].consumed \in Nat /\ h \in Nat
    BY RequestType DEF TypeOK
  <1>3. RestoredGift(n, h) = IF sess[r].src = "wallet" THEN h ELSE 0
    BY <1>2, RefundFundingState DEF RestoredGift
  <1>4. CASE sess[r].src # "wallet"
    BY <1>1, <1>2, <1>3, <1>4, RefundFundingState
    DEF GiftMove, GiftAccount, WalletState, FundingReturned
  <1>5. CASE sess[r].src = "wallet"
    <2>1. GiftAccount(r) = [state |-> "held", amount |-> h]
      BY <1>5, RefundFundingState DEF GiftAccount, WalletState, FundingReturned
    <2>2. CASE gift' = gift + RestoredGift(n, h) /\ logged' = logged
      <3>1. GiftAccount(r)' = [state |-> "released", amount |-> 0]
        BY <1>5, <2>2, RefundFundingState
        DEF GiftAccount, WalletState, FundingReturned
      <3>. QED
        BY <1>2, <1>3, <1>5, <2>1, <2>2, <3>1 DEF GiftMove, AccountMove
    <2>3. CASE gift' = gift /\ "refundFunding" \in logged'[r]
      <3>1. GiftAccount(r)' = [state |-> "held", amount |-> h]
        BY <1>5, <2>3, RefundFundingState
        DEF GiftAccount, WalletState, FundingReturned
      <3>. QED
        BY <2>1, <2>3, <3>1 DEF GiftMove
    <2>. QED
      BY <1>1, <2>2, <2>3
  <1>. QED
    BY <1>4, <1>5

LEMMA GiftStep ==
    ASSUME TypeOK, NEW r \in Requests, RequestInv(r), RequestInv(r)',
           RequestStep(r)
    PROVE  GiftMove(r) /\ UNCHANGED granted
  <1>1. UNCHANGED granted
    BY DEF RequestStep, PreConsume, RefundJob, Authenticate, Unauthorized,
           CheckSub, CheckWallet, ReadToken, TakeToken, TakeWallet,
           TakeSubscription, ReturnToken, SettleFunding, SettleToken, Refund,
           RefundFunding, RefundToken, creditVars
  <1>2. CASE \/ Authenticate(r) \/ Unauthorized(r) \/ CheckSub(r)
             \/ CheckWallet(r) \/ ReadToken(r) \/ TakeToken(r)
             \/ ReturnToken(r)
    <2>1. GiftAccount(r) = Idle /\ GiftAccount(r)' = Idle
      BY <1>2, OpeningStep, GiftNotOpened, GiftNotOpenedNext
    <2>. QED
      BY <1>1, <1>2, <2>1, OpeningStep DEF GiftMove
  <1>. QED
    BY <1>1, <1>2, GiftTake, GiftSettle, GiftClose, GiftRefund
    DEF RequestStep, PreConsume, RefundJob

LEMMA GiftLedgerStep ==
    ASSUME NEW r \in Requests, GiftMove(r), UNCHANGED granted,
           \A q \in Requests \ {r} : Same(q)
    PROVE  [Gift!LedgerNext]_(Gift!ledgerVars)
  <1>. DEFINE acct == [q \in Requests |-> GiftAccount(q)]
  <1>1. \A q \in Requests \ {r} : GiftAccount(q)' = GiftAccount(q)
    BY DEF Same, GiftAccount, WalletState, FundingReturned
  <1>2. acct' = [acct EXCEPT ![r] = GiftAccount(r)']
    BY <1>1
  <1>3. acct[r] = GiftAccount(r) /\ acct'[r] = GiftAccount(r)'
    OBVIOUS
  <1>4. CASE GiftAccount(r)' = GiftAccount(r) /\ gift' = gift
    <2>1. acct' = acct
      BY <1>1, <1>4
    <2>. QED
      BY <1>4, <2>1 DEF Gift!ledgerVars
  <1>5. CASE /\ AccountMove(GiftAccount(r), GiftAccount(r)')
             /\ gift' = gift + GiftAccount(r).amount
                             - GiftAccount(r)'.amount
    <2>. HIDE DEF acct
    <2>. QED
      BY <1>2, <1>3, <1>5
      DEF AccountMove, Idle, Gift!LedgerNext, Gift!Hold, Gift!Charge,
          Gift!Release, Gift!Cancel, Gift!Becomes, Gift!IdleAccount,
          acct
  <1>. QED
    BY <1>4, <1>5 DEF GiftMove

(* The same of users.gift_quota (GiftLedger): a full refund restores the   *)
(* gift part which that very request's pre-consumption took, and a settled *)
(* request never gives gift quota back.                                    *)
THEOREM GiftRefinement == Spec => GiftLedger
  <1>1. Init => Gift!LedgerInit
    BY DEF Init, Gift!LedgerInit, Gift!IdleAccount, GiftAccount,
           WalletState, FundingReturned, NoSession
  <1>2. /\ TypeOK /\ SessionInv /\ SessionInv' /\ [Next]_vars
        => [Gift!LedgerNext]_(Gift!ledgerVars)
    <2>. SUFFICES ASSUME TypeOK, SessionInv, SessionInv', [Next]_vars
                  PROVE  [Gift!LedgerNext]_(Gift!ledgerVars)
      OBVIOUS
    <2>1. CASE \E r \in Requests : RequestStep(r)
      <3>1. PICK r \in Requests : RequestStep(r)
        BY <2>1
      <3>2. RequestInv(r) /\ RequestInv(r)'
        BY DEF SessionInv, RequestInv
      <3>. QED
        BY <3>1, <3>2, GiftStep, RequestStepOwn, GiftLedgerStep
    <2>2. CASE QuietStep
      <3>1. \A q \in Requests : GiftAccount(q)' = GiftAccount(q)
        BY <2>2 DEF QuietStep, requestVars, GiftAccount, WalletState, FundingReturned
      <3>2. CASE UNCHANGED <<gift, granted>>
        BY <3>1, <3>2 DEF Gift!ledgerVars
      <3>3. CASE \E n \in Amounts : TopUp(n) \/ GrantUserGiftQuota(n)
        BY <3>1, <3>3, BillingAssumption
        DEF TopUp, GrantUserGiftQuota, Gift!LedgerNext, Gift!Credit, TypeOK
      <3>. QED
        BY <2>2, <3>2, <3>3 DEF QuietStep
    <2>. QED
      BY <2>1, <2>2, QuietCases
  <1>. QED
    BY <1>1, <1>2, TypeCorrect, SessionInvariant, PTL
    DEF Spec, GiftLedger, Gift!LedgerSpec

-----------------------------------------------------------------------------
(* The token. *)

TokenMove(r) ==
    \/ /\ TokenAccount(r)' = TokenAccount(r)
       /\ UNCHANGED <<tokenRemain, writtenOff>>
    \/ /\ AccountMove(TokenAccount(r), TokenAccount(r)')
       /\ tokenRemain' = tokenRemain + TokenAccount(r).amount
                                     - TokenAccount(r)'.amount
       /\ UNCHANGED writtenOff
    \/ /\ TokenAccount(r).state = "held" /\ TokenAccount(r)' = Idle
       /\ writtenOff' = writtenOff + TokenAccount(r).amount
       /\ UNCHANGED tokenRemain

HoldAccount(r) ==
    [state |-> IF HoldsToken(sess[r], info[r]) THEN "held" ELSE "idle",
     amount |-> IF HoldsToken(sess[r], info[r])
                THEN sess[r].tokenConsumed ELSE 0]

(* Until Settle or the goroutine moves it, the token account is the hold.  *)
LEMMA TokenHeld ==
    ASSUME TypeOK, NEW r \in Requests, RequestInv(r),
           ~ sess[r].settled, job[r] # "done"
    PROVE  TokenAccount(r) = HoldAccount(r)
  <1>1. sess[r].tokenConsumed \in Nat
    BY RequestType
  <1>. QED
    BY <1>1 DEF TokenAccount, TokenState, HoldAccount, HoldsToken

LEMMA TokenHeldNext ==
    ASSUME NEW r \in Requests, sess'[r].tokenConsumed \in Nat,
           ~ sess'[r].settled, job'[r] # "done"
    PROVE  TokenAccount(r)' = HoldAccount(r)'
  BY DEF TokenAccount, TokenState, HoldAccount, HoldsToken

(* The steps before the token is taken, and a fallback. *)
LEMMA TryNextToken ==
    ASSUME TypeOK, NEW r \in Requests, NEW i, NEW src, TryNext(r, i, src),
           job'[r] # "done"
    PROVE  TokenAccount(r)' = Idle
  <1>1. sess'[r] = NewSubscriptionSession(i) \/ sess'[r] = NoSession
    BY GoToOwn DEF TryNext
  <1>2. /\ NoSession.tokenConsumed = 0 /\ ~ NoSession.settled
        /\ NewSubscriptionSession(i).tokenConsumed = 0
        /\ ~ NewSubscriptionSession(i).settled
    BY DEF NewSubscriptionSession, NoSession
  <1>. QED
    BY <1>1, <1>2 DEF TokenAccount, TokenState, Idle

LEMMA TokenAdmit ==
    ASSUME TypeOK, NEW r \in Requests, RequestInv(r), RequestInv(r)',
           \/ Authenticate(r) \/ Unauthorized(r) \/ CheckSub(r) \/ CheckWallet(r)
    PROVE  TokenMove(r)
  <1>1. /\ job[r] = "none" /\ job'[r] = "none"
        /\ UNCHANGED <<tokenRemain, writtenOff>> /\ sess[r] = NoSession
    BY OpeningQuiet
    DEF Authenticate, Unauthorized, CheckSub, CheckWallet, At, Opening,
        tokenVars, RequestInv, OpeningInv
  <1>2. TokenAccount(r) = Idle
    BY <1>1 DEF TokenAccount, TokenState, NoSession, Idle
  <1>3. TokenAccount(r)' = Idle
    <2>1. CASE \E i, src : TryNext(r, i, src)
      BY <1>1, <2>1, TryNextToken
    <2>2. CASE \A i, src : ~ TryNext(r, i, src)
      <3>. DEFINE eff == IF TrustsWallet(info[r], quota)
                         THEN 0 ELSE info[r].est
                  s == [NoSession EXCEPT !.src = "wallet", !.eff = eff]
      <3>1. \E step : GoTo(r, step, s)
        BY <2>2 DEF Authenticate, Unauthorized, CheckSub, CheckWallet
      <3>2. s.tokenConsumed = 0 /\ ~ s.settled
        BY DEF NoSession
      <3>. HIDE DEF s
      <3>3. sess'[r] = s
        BY <3>1, GoToOwn
      <3>. QED
        BY <1>1, <3>2, <3>3 DEF TokenAccount, TokenState, Idle
    <2>. QED
      BY <2>1, <2>2
  <1>. QED
    BY <1>1, <1>2, <1>3 DEF TokenMove

LEMMA TokenTake ==
    ASSUME TypeOK, NEW r \in Requests, RequestInv(r), RequestInv(r)',
           ReadToken(r) \/ TakeToken(r)
    PROVE  TokenMove(r)
  <1>1. /\ job[r] = "none" /\ job'[r] = "none" /\ writtenOff' = writtenOff
        /\ sess[r].tokenConsumed = 0 /\ ~ sess[r].settled /\ sess[r].eff > 0
        /\ info'[r] = info[r] /\ sess[r].eff \in Nat /\ tokenRemain \in Int
    BY OpeningQuiet, RequestType
    DEF ReadToken, TakeToken, At, Opening, RequestInv, OpeningInv,
        NothingTaken, TypeOK
  <1>2. TokenAccount(r) = Idle
    BY <1>1 DEF TokenAccount, TokenState, Idle
  <1>3. CASE \E i, src : TryNext(r, i, src) /\ tokenRemain' = tokenRemain
    BY <1>1, <1>2, <1>3, TryNextToken DEF TokenMove
  <1>4. CASE GoTo(r, "takeToken", sess[r]) /\ tokenRemain' = tokenRemain
    <2>1. sess'[r] = sess[r]
      BY <1>4, GoToOwn
    <2>. QED
      BY <1>1, <1>2, <1>4, <2>1
      DEF TokenMove, TokenAccount, TokenState, Idle
  <1>. DEFINE s == [sess[r] EXCEPT !.tokenConsumed = sess[r].eff]
  <1>5. s.tokenConsumed = sess[r].eff /\ s.settled = sess[r].settled
    BY RequestType DEF Session
  <1>6. CASE /\ GoTo(r, "takeFunding", s) /\ tokenRemain' = tokenRemain
             /\ info[r].playground
    <2>1. sess'[r] = s
      BY <1>6, GoToOwn
    <2>. QED
      BY <1>1, <1>2, <1>6, <2>1 DEF TokenMove, TokenAccount, TokenState, Idle
  <1>7. CASE /\ GoTo(r, "takeFunding", s) /\ ~ info[r].playground
             /\ tokenRemain' = tokenRemain - sess[r].eff
    <2>. HIDE DEF s
    <2>1. sess'[r] = s
      BY <1>7, GoToOwn
    <2>2. TokenAccount(r)' = [state |-> "held", amount |-> sess[r].eff]
      BY <1>1, <1>5, <1>7, <2>1 DEF TokenAccount, TokenState
    <2>. QED
      BY <1>1, <1>2, <1>7, <2>2 DEF TokenMove, AccountMove, Idle
  <1>. QED
    BY <1>3, <1>4, <1>6, <1>7
    DEF ReadToken, TakeToken, At, tokenVars, RequestInv, OpeningInv

LEMMA TokenReturn ==
    ASSUME TypeOK, NEW r \in Requests, RequestInv(r), ReturnToken(r)
    PROVE  TokenMove(r)
  <1>1. /\ job[r] = "none" /\ job'[r] = "none" /\ ~ sess[r].settled
        /\ HoldsToken(sess[r], info[r])
    BY OpeningQuiet
    DEF ReturnToken, At, Opening, RequestInv, OpeningInv, NothingTaken
  <1>2. sess[r].tokenConsumed \in Nat /\ tokenRemain \in Int
    BY RequestType DEF TypeOK
  <1>3. TokenAccount(r) = [state |-> "held", amount |-> sess[r].tokenConsumed]
    BY <1>1, TokenHeld DEF HoldAccount
  <1>4. TokenAccount(r)' = Idle
    BY <1>1, TryNextToken DEF ReturnToken
  <1>5. \/ /\ tokenRemain' = tokenRemain + sess[r].tokenConsumed
           /\ UNCHANGED writtenOff
        \/ /\ writtenOff' = writtenOff + sess[r].tokenConsumed
           /\ UNCHANGED tokenRemain
    BY DEF ReturnToken
  <1>. QED
    BY <1>2, <1>3, <1>4, <1>5 DEF TokenMove, AccountMove, Idle

LEMMA TokenFund ==
    ASSUME TypeOK, NEW r \in Requests, RequestInv(r), RequestInv(r)',
           TakeWallet(r) \/ TakeSubscription(r)
    PROVE  TokenMove(r)
  <1>1. /\ job[r] = "none" /\ job'[r] = "none" /\ ~ sess[r].settled
        /\ UNCHANGED <<tokenRemain, writtenOff>> /\ info'[r] = info[r]
    BY OpeningQuiet
    DEF TakeWallet, TakeSubscription, At, Opening, RequestInv, OpeningInv,
        NothingTaken, tokenVars
  <1>2. sess[r].tokenConsumed \in Nat
    BY RequestType
  <1>3. TokenAccount(r) = HoldAccount(r)
    BY <1>1, TokenHeld
  <1>4. CASE ~ HoldsToken(sess[r], info[r]) /\ \E i, src : TryNext(r, i, src)
    <2>1. TokenAccount(r)' = Idle
      BY <1>1, <1>4, TryNextToken
    <2>. QED
      BY <1>1, <1>3, <1>4, <2>1 DEF TokenMove, HoldAccount, Idle
  <1>5. CASE \E step, s : /\ GoTo(r, step, s)
                          /\ s.tokenConsumed = sess[r].tokenConsumed
                          /\ s.settled = sess[r].settled
    <2>1. /\ sess'[r].tokenConsumed = sess[r].tokenConsumed
          /\ sess'[r].settled = sess[r].settled
      BY <1>5, GoToOwn
    <2>2. TokenAccount(r)' = HoldAccount(r)'
      BY <1>1, <1>2, <2>1, TokenHeldNext
    <2>. QED
      BY <1>1, <1>3, <2>1, <2>2 DEF TokenMove, HoldAccount, HoldsToken
  <1>6. \A code : PreConsumeFailed(r, code) =>
           \/ ~ HoldsToken(sess[r], info[r]) /\ \E i, src : TryNext(r, i, src)
           \/ \E step, s : /\ GoTo(r, step, s)
                           /\ s.tokenConsumed = sess[r].tokenConsumed
                           /\ s.settled = sess[r].settled
    <2>. SUFFICES ASSUME NEW code, PreConsumeFailed(r, code),
                         HoldsToken(sess[r], info[r])
                  PROVE  \E step, s : /\ GoTo(r, step, s)
                                      /\ s.tokenConsumed = sess[r].tokenConsumed
                                      /\ s.settled = sess[r].settled
      BY DEF PreConsumeFailed
    <2>. DEFINE s == [sess[r] EXCEPT !.code = code]
    <2>1. s.tokenConsumed = sess[r].tokenConsumed /\ s.settled = sess[r].settled
      BY RequestType DEF Session
    <2>2. GoTo(r, "returnToken", s)
      BY DEF PreConsumeFailed
    <2>. HIDE DEF s
    <2>. QED
      BY <2>1, <2>2
  <1>7. CASE TakeWallet(r) /\ \A code : ~ PreConsumeFailed(r, code)
    <2>. DEFINE n == sess[r].eff
                s == [sess[r] EXCEPT !.preConsumed = n, !.consumed = n,
                                     !.giftConsumed = GiftPart(n, gift)]
    <2>1. GoTo(r, "open", s)
      BY <1>7 DEF TakeWallet
    <2>2. s.tokenConsumed = sess[r].tokenConsumed /\ s.settled = sess[r].settled
      BY RequestType DEF Session
    <2>. HIDE DEF s
    <2>. QED
      BY <1>5, <2>1, <2>2
  <1>8. CASE TakeSubscription(r) /\ \A code : ~ PreConsumeFailed(r, code)
    <2>. DEFINE n == sess[r].eff
                s == [sess[r] EXCEPT !.preConsumed = n, !.subPreConsumed = n]
    <2>1. GoTo(r, "open", s)
      BY <1>8 DEF TakeSubscription
    <2>2. s.tokenConsumed = sess[r].tokenConsumed /\ s.settled = sess[r].settled
      BY RequestType DEF Session
    <2>. HIDE DEF s
    <2>. QED
      BY <1>5, <2>1, <2>2
  <1>. QED
    BY <1>4, <1>5, <1>6, <1>7, <1>8

LEMMA TokenSettleFunding ==
    ASSUME TypeOK, NEW r \in Requests, RequestInv(r), RequestInv(r)',
           SettleFunding(r)
    PROVE  TokenMove(r)
  <1>1. PICK a \in Nat, g \in Nat :
           /\ SettleKeeps(r)
           /\ \/ NothingToSettle(r, a, g)
              \/ FundingAdjusted(r, a, g)
              \/ SettleFailed(r)
    BY SettleFundingCases
  <1>2. /\ pc[r] = "open" /\ job[r] = "none" /\ job'[r] = "none"
        /\ logged[r] = {} /\ ~ sess[r].settled /\ info'[r] = info[r]
        /\ sess[r].tokenConsumed = sess[r].preConsumed
        /\ UNCHANGED <<tokenRemain, writtenOff>>
    BY OpeningQuiet
    DEF SettleFunding, At, RequestInv, ClosingInv, AdmittedInv, tokenVars
  <1>3. /\ sess[r].tokenConsumed \in Nat /\ tokenRemain \in Int
        /\ info[r].playground \in BOOLEAN
    BY RequestType DEF TypeOK, InfoType
  <1>4. TokenAccount(r) = HoldAccount(r)
    BY <1>2, TokenHeld
  <1>5. CASE info[r].playground
    BY <1>2, <1>5 DEF TokenMove, TokenAccount, TokenState
  <1>6. CASE ~ info[r].playground /\ NothingToSettle(r, a, g)
    <2>1. TokenAccount(r)' = [state |-> "charged",
                              amount |-> sess[r].preConsumed]
      BY <1>1, <1>2, <1>6
      DEF TokenAccount, TokenState, NothingToSettle, SettleKeeps
    <2>. QED
      BY <1>2, <1>3, <1>4, <1>6, <2>1
      DEF TokenMove, AccountMove, HoldAccount, HoldsToken
  <1>7. CASE ~ info[r].playground /\ (FundingAdjusted(r, a, g) \/ SettleFailed(r))
    <2>1. /\ sess'[r].tokenConsumed = sess[r].tokenConsumed
          /\ ~ sess'[r].settled
      BY <1>1, <1>2, <1>7 DEF FundingAdjusted, SettleFailed, SettleKeeps
    <2>2. TokenAccount(r)' = HoldAccount(r)'
      BY <1>2, <1>3, <2>1, TokenHeldNext
    <2>. QED
      BY <1>2, <1>4, <2>1, <2>2 DEF TokenMove, HoldAccount, HoldsToken
  <1>. QED
    BY <1>1, <1>3, <1>5, <1>6, <1>7

LEMMA TokenSettle ==
    ASSUME TypeOK, NEW r \in Requests, RequestInv(r), RequestInv(r)',
           SettleToken(r)
    PROVE  TokenMove(r)
  <1>. DEFINE s == sess[r]
  <1>1. /\ pc[r] = "settleToken" /\ job[r] = "none" /\ job'[r] = "none"
        /\ logged[r] = {} /\ ~ s.settled /\ info'[r] = info[r]
        /\ ~ info[r].playground /\ s.tokenConsumed = s.preConsumed
        /\ UNCHANGED writtenOff
    BY OpeningQuiet
    DEF SettleToken, At, RequestInv, ClosingInv, AdmittedInv
  <1>2. s.preConsumed \in Nat /\ s.actual \in Nat /\ tokenRemain \in Int
    BY RequestType DEF TypeOK
  <1>3. TokenAccount(r) = HoldAccount(r)
    BY <1>1, TokenHeld
  <1>4. CASE tokenRemain' = tokenRemain - (s.actual - s.preConsumed)
             /\ logged' = logged
    <2>1. TokenAccount(r)' = [state |-> "charged", amount |-> s.actual]
      BY <1>1, <1>4, SettleTokenFlag DEF TokenAccount, TokenState, FlagOnly
    <2>. QED
      BY <1>1, <1>2, <1>3, <1>4, <2>1
      DEF TokenMove, AccountMove, HoldAccount, HoldsToken
  <1>5. CASE tokenRemain' = tokenRemain /\ "settleToken" \in logged'[r]
    <2>1. TokenAccount(r)' = [state |-> "charged", amount |-> s.preConsumed]
      BY <1>1, <1>5, SettleTokenFlag DEF TokenAccount, TokenState, FlagOnly
    <2>. QED
      BY <1>1, <1>2, <1>3, <1>5, <2>1
      DEF TokenMove, AccountMove, HoldAccount, HoldsToken
  <1>. QED
    BY <1>4, <1>5 DEF SettleToken, TypeOK

LEMMA TokenRefund ==
    ASSUME TypeOK, NEW r \in Requests, RequestInv(r), RequestInv(r)',
           Refund(r) \/ RefundFunding(r)
    PROVE  TokenMove(r)
  <1>. USE DEF TokenMove, TokenAccount, TokenState
  <1>1. CASE Refund(r)
    <2>1. /\ UNCHANGED <<tokenRemain, writtenOff>> /\ logged' = logged
          /\ info' = info
          /\ NeedsRefund(sess[r]) => job[r] = "none"
      BY <1>1 DEF Refund, tokenVars, NeedsRefund, RequestInv, JobInv
    <2>2. /\ FlagOnly(r) /\ sess'[r].settled = sess[r].settled
          /\ job'[r] = "done" <=> job[r] = "done"
      BY <1>1, <2>1, RefundFlag
    <2>. QED
      BY <2>1, <2>2 DEF FlagOnly
  <1>2. CASE RefundFunding(r)
    <2>1. /\ UNCHANGED <<tokenRemain, writtenOff>>
          /\ job'[r] = IF HoldsToken(sess[r], info[r])
                       THEN "refundToken" ELSE "done"
          /\ "settleToken" \in logged'[r] <=> "settleToken" \in logged[r]
      BY <1>2 DEF RefundFunding, tokenVars, TypeOK
    <2>2. sess[r].tokenConsumed \in Nat /\ info[r].playground \in BOOLEAN
      BY RequestType DEF InfoType
    <2>3. /\ sess'[r] = sess[r] /\ info'[r] = info[r] /\ ~ sess[r].settled
          /\ job[r] = "refundFunding"
      BY <1>2, RefundFundingState
    <2>4. TokenState(r)' = TokenState(r)
      BY <2>1, <2>2, <2>3 DEF HoldsToken
    <2>. QED
      BY <2>1, <2>3, <2>4
  <1>. QED
    BY <1>1, <1>2

LEMMA TokenRefundToken ==
    ASSUME TypeOK, NEW r \in Requests, RequestInv(r), RefundToken(r)
    PROVE  TokenMove(r)
  <1>. DEFINE n == sess[r].tokenConsumed
  <1>1. /\ job[r] = "refundToken" /\ job'[r] = "done" /\ sess' = sess
        /\ info' = info /\ UNCHANGED writtenOff
        /\ HoldsToken(sess[r], info[r]) /\ ~ sess[r].settled
        /\ "refundToken" \notin logged[r]
    <2>1. job[r] = "refundToken" /\ job'[r] = "done"
      BY DEF RefundToken, TypeOK
    <2>2. pc[r] = "closed"
      BY <2>1, OpeningQuiet
      DEF RequestInv, JobInv, OpeningInv, TypeOK, HandlerSteps, NoSession
    <2>. QED
      BY <2>1, <2>2 DEF RefundToken, RequestInv, JobInv, ClosingInv
  <1>2. TokenAccount(r) = [state |-> "held", amount |-> n]
    BY <1>1, TokenHeld DEF HoldAccount
  <1>3. n \in Nat /\ tokenRemain \in Int
    BY RequestType DEF TypeOK
  <1>4. CASE tokenRemain' = tokenRemain + n /\ logged' = logged
    <2>1. TokenAccount(r)' = [state |-> "released", amount |-> 0]
      BY <1>1, <1>4 DEF TokenAccount, TokenState, HoldsToken
    <2>. QED
      BY <1>1, <1>2, <1>3, <1>4, <2>1 DEF TokenMove, AccountMove
  <1>5. CASE tokenRemain' = tokenRemain /\ "refundToken" \in logged'[r]
    <2>1. TokenAccount(r)' = [state |-> "held", amount |-> n]
      BY <1>1, <1>3, <1>5 DEF TokenAccount, TokenState, HoldsToken
    <2>. QED
      BY <1>1, <1>2, <1>5, <2>1 DEF TokenMove
  <1>. QED
    BY <1>4, <1>5 DEF RefundToken, TypeOK

LEMMA TokenLedgerStep ==
    ASSUME NEW r \in Requests, TokenMove(r), \A q \in Requests \ {r} : Same(q)
    PROVE  [Token!LedgerNext]_(Token!ledgerVars)
  <1>. DEFINE acct == [q \in Requests |-> TokenAccount(q)]
  <1>1. \A q \in Requests \ {r} : TokenAccount(q)' = TokenAccount(q)
    BY DEF Same, TokenAccount, TokenState
  <1>2. acct' = [acct EXCEPT ![r] = TokenAccount(r)']
    BY <1>1
  <1>3. acct[r] = TokenAccount(r) /\ acct'[r] = TokenAccount(r)'
    OBVIOUS
  <1>4. CASE /\ TokenAccount(r)' = TokenAccount(r)
             /\ UNCHANGED <<tokenRemain, writtenOff>>
    <2>1. acct' = acct
      BY <1>1, <1>4
    <2>. QED
      BY <1>4, <2>1 DEF Token!ledgerVars
  <1>5. CASE /\ AccountMove(TokenAccount(r), TokenAccount(r)')
             /\ tokenRemain' = tokenRemain + TokenAccount(r).amount
                                           - TokenAccount(r)'.amount
             /\ UNCHANGED writtenOff
    <2>. HIDE DEF acct
    <2>. QED
      BY <1>2, <1>3, <1>5
      DEF AccountMove, Idle, Token!LedgerNext, Token!Hold, Token!Charge,
          Token!Release, Token!Cancel, Token!Becomes, Token!IdleAccount, acct
  <1>6. CASE /\ TokenAccount(r).state = "held" /\ TokenAccount(r)' = Idle
             /\ writtenOff' = writtenOff + TokenAccount(r).amount
             /\ UNCHANGED tokenRemain
    <2>. HIDE DEF acct
    <2>. QED
      BY <1>2, <1>3, <1>6
      DEF Idle, Token!LedgerNext, Token!WriteOff, Token!IdleAccount, acct
  <1>. QED
    BY <1>4, <1>5, <1>6 DEF TokenMove

(* Every movement of tokens.remain_quota is one request holding, being     *)
(* charged once, released once, or withdrawing a hold when NewBilling-     *)
(* Session falls back; what a failed rollback keeps is what was logged.    *)
THEOREM TokenRefinement == Spec => TokenLedger
  <1>1. Init => Token!LedgerInit
    BY DEF Init, Token!LedgerInit, Token!IdleAccount, TokenAccount, TokenState,
           NoSession, NoInfo
  <1>2. /\ TypeOK /\ SessionInv /\ SessionInv' /\ [Next]_vars
        => [Token!LedgerNext]_(Token!ledgerVars)
    <2>. SUFFICES ASSUME TypeOK, SessionInv, SessionInv', [Next]_vars
                  PROVE  [Token!LedgerNext]_(Token!ledgerVars)
      OBVIOUS
    <2>1. CASE \E r \in Requests : RequestStep(r)
      <3>1. PICK r \in Requests : RequestStep(r)
        BY <2>1
      <3>2. RequestInv(r) /\ RequestInv(r)'
        BY DEF SessionInv, RequestInv
      <3>3. TokenMove(r)
        BY <3>1, <3>2, TokenAdmit, TokenTake, TokenReturn, TokenFund,
           TokenSettleFunding, TokenSettle, TokenRefund, TokenRefundToken
        DEF RequestStep, PreConsume, RefundJob
      <3>. QED
        BY <3>1, <3>3, RequestStepOwn, TokenLedgerStep
    <2>2. CASE QuietStep
      <3>1. \A q \in Requests : TokenAccount(q)' = TokenAccount(q)
        BY <2>2 DEF QuietStep, requestVars, TokenAccount, TokenState
      <3>2. UNCHANGED <<tokenRemain, writtenOff>>
        BY <2>2 DEF QuietStep, TopUp, GrantUserGiftQuota, tokenVars
      <3>. QED
        BY <3>1, <3>2 DEF Token!ledgerVars
    <2>. QED
      BY <2>1, <2>2, QuietCases
  <1>. QED
    BY <1>1, <1>2, TypeCorrect, SessionInvariant, PTL
    DEF Spec, TokenLedger, Token!LedgerSpec

-----------------------------------------------------------------------------
(* Conservation, for any finite number of requests. *)

(* Accounts hold whole amounts. *)
LEMMA AmountsType ==
    ASSUME TypeOK
    PROVE  /\ WalletAmounts \in [Requests -> Int]
           /\ GiftAmounts \in [Requests -> Int]
           /\ TokenAmounts \in [Requests -> Int]
  <1>1. ASSUME NEW r \in Requests
        PROVE  /\ sess[r].consumed \in Int /\ sess[r].actual \in Int
               /\ sess[r].giftConsumed \in Int /\ sess[r].tokenConsumed \in Int
               /\ sess[r].preConsumed \in Int
    BY DEF TypeOK, Session
  <1>2. \A r \in Requests : WalletAccount(r).amount \in Int
    BY <1>1 DEF WalletAccount, WalletState, FundingReturned
  <1>3. \A r \in Requests : GiftAccount(r).amount \in Int
    BY <1>1 DEF GiftAccount, WalletState, FundingReturned
  <1>4. \A r \in Requests : TokenAccount(r).amount \in Int
    BY <1>1 DEF TokenAccount, TokenState
  <1>. QED
    BY <1>2, <1>3, <1>4 DEF WalletAmounts, GiftAmounts, TokenAmounts

LEMMA AmountsTypeNext ==
    ASSUME TypeOK'
    PROVE  /\ WalletAmounts' \in [Requests -> Int]
           /\ GiftAmounts' \in [Requests -> Int]
           /\ TokenAmounts' \in [Requests -> Int]
  <1>1. ASSUME NEW r \in Requests
        PROVE  /\ sess'[r].consumed \in Int /\ sess'[r].actual \in Int
               /\ sess'[r].giftConsumed \in Int /\ sess'[r].tokenConsumed \in Int
               /\ sess'[r].preConsumed \in Int
    BY DEF TypeOK, Session
  <1>2. \A r \in Requests : WalletAccount(r)'.amount \in Int
    BY <1>1 DEF WalletAccount, WalletState, FundingReturned
  <1>3. \A r \in Requests : GiftAccount(r)'.amount \in Int
    BY <1>1 DEF GiftAccount, WalletState, FundingReturned
  <1>4. \A r \in Requests : TokenAccount(r)'.amount \in Int
    BY <1>1 DEF TokenAccount, TokenState
  <1>. QED
    BY <1>2, <1>3, <1>4 DEF WalletAmounts, GiftAmounts, TokenAmounts

(* A total moves by what one account moves. *)
LEMMA TotalMoves ==
    ASSUME NEW f \in [Requests -> Int], NEW g \in [Requests -> Int], NEW r \in Requests,
           \A q \in Requests \ {r} : g[q] = f[q]
    PROVE  /\ Total(f) \in Int /\ Total(g) \in Int
           /\ Total(g) = Total(f) + g[r] - f[r]
  BY SumUpdate, SumInt, RequestsAssumption DEF Total

LEMMA TotalType ==
    ASSUME NEW f \in [Requests -> Int]
    PROVE  Total(f) \in Int
  BY SumInt, RequestsAssumption DEF Total

(* The step of a request. *)
LEMMA RequestConserves ==
    ASSUME TypeOK, TypeOK', SessionInv, SessionInv', MoneyConserved,
           NEW r \in Requests, RequestStep(r)
    PROVE  MoneyConserved'
  <1>1. RequestInv(r) /\ RequestInv(r)'
    BY DEF SessionInv, RequestInv
  <1>2. /\ WalletMove(r) /\ UNCHANGED credited /\ GiftMove(r) /\ UNCHANGED granted
        /\ TokenMove(r)
    BY <1>1, WalletStep, GiftStep, TokenAdmit, TokenTake, TokenReturn, TokenFund,
       TokenSettleFunding, TokenSettle, TokenRefund, TokenRefundToken
    DEF RequestStep, PreConsume, RefundJob
  <1>3. \A q \in Requests \ {r} : Same(q)
    BY RequestStepOwn
  <1>4. /\ quota \in Int /\ quota' \in Int /\ gift \in Int /\ gift' \in Int
        /\ tokenRemain \in Int /\ tokenRemain' \in Int
        /\ writtenOff \in Int /\ writtenOff' \in Int
        /\ credited \in Int /\ granted \in Int
    BY DEF TypeOK
  <1>5. /\ WalletAmounts \in [Requests -> Int] /\ WalletAmounts' \in [Requests -> Int]
        /\ GiftAmounts \in [Requests -> Int] /\ GiftAmounts' \in [Requests -> Int]
        /\ TokenAmounts \in [Requests -> Int] /\ TokenAmounts' \in [Requests -> Int]
    BY AmountsType, AmountsTypeNext
  <1>6. quota' + Total(WalletAmounts)' = quota + Total(WalletAmounts)
    <2>1. \A q \in Requests \ {r} : WalletAmounts'[q] = WalletAmounts[q]
      BY <1>3 DEF Same, WalletAmounts, WalletAccount, WalletState, FundingReturned
    <2>2. quota' = quota + WalletAmounts[r] - WalletAmounts'[r]
      BY <1>2, <1>4, <1>5 DEF WalletMove, WalletAmounts
    <2>3. WalletAmounts[r] \in Int /\ WalletAmounts'[r] \in Int
      BY <1>5
    <2>4. /\ Total(WalletAmounts) \in Int /\ Total(WalletAmounts') \in Int
          /\ Total(WalletAmounts') = Total(WalletAmounts) + WalletAmounts'[r] - WalletAmounts[r]
      BY <1>5, <2>1, TotalMoves
    <2>5. Total(WalletAmounts)' = Total(WalletAmounts')
      BY DEF Total
    <2>. QED
      BY <1>4, <2>2, <2>3, <2>4, <2>5
  <1>7. gift' + Total(GiftAmounts)' = gift + Total(GiftAmounts)
    <2>1. \A q \in Requests \ {r} : GiftAmounts'[q] = GiftAmounts[q]
      BY <1>3 DEF Same, GiftAmounts, GiftAccount, WalletState, FundingReturned
    <2>2. gift' = gift + GiftAmounts[r] - GiftAmounts'[r]
      BY <1>2, <1>4, <1>5 DEF GiftMove, GiftAmounts
    <2>3. GiftAmounts[r] \in Int /\ GiftAmounts'[r] \in Int
      BY <1>5
    <2>4. /\ Total(GiftAmounts) \in Int /\ Total(GiftAmounts') \in Int
          /\ Total(GiftAmounts') = Total(GiftAmounts) + GiftAmounts'[r] - GiftAmounts[r]
      BY <1>5, <2>1, TotalMoves
    <2>5. Total(GiftAmounts)' = Total(GiftAmounts')
      BY DEF Total
    <2>. QED
      BY <1>4, <2>2, <2>3, <2>4, <2>5
  <1>8. tokenRemain' + writtenOff' + Total(TokenAmounts)'
            = tokenRemain + writtenOff + Total(TokenAmounts)
    <2>1. \A q \in Requests \ {r} : TokenAmounts'[q] = TokenAmounts[q]
      BY <1>3 DEF Same, TokenAmounts, TokenAccount, TokenState
    <2>2. TokenAmounts[r] \in Int /\ TokenAmounts'[r] \in Int
      BY <1>5
    <2>3. tokenRemain' + writtenOff'
              = tokenRemain + writtenOff + TokenAmounts[r] - TokenAmounts'[r]
      BY <1>2, <1>4, <2>2 DEF TokenMove, TokenAmounts, Idle
    <2>4. /\ Total(TokenAmounts) \in Int /\ Total(TokenAmounts') \in Int
          /\ Total(TokenAmounts') = Total(TokenAmounts) + TokenAmounts'[r] - TokenAmounts[r]
      BY <1>5, <2>1, TotalMoves
    <2>5. Total(TokenAmounts)' = Total(TokenAmounts')
      BY DEF Total
    <2>. QED
      BY <1>4, <2>2, <2>3, <2>4, <2>5
  <1>9. /\ quota + Total(WalletAmounts) = InitQuota + credited
        /\ gift + Total(GiftAmounts) = InitGift + granted
        /\ tokenRemain + writtenOff + Total(TokenAmounts) = InitToken
    BY DEF MoneyConserved
  <1>10. /\ quota' + Total(WalletAmounts)' = InitQuota + credited'
         /\ gift' + Total(GiftAmounts)' = InitGift + granted'
         /\ tokenRemain' + writtenOff' + Total(TokenAmounts)' = InitToken
    BY <1>2, <1>6, <1>7, <1>8, <1>9
  <1>. QED
    BY <1>10 DEF MoneyConserved
LEMMA QuietConserves ==
    ASSUME TypeOK, MoneyConserved, QuietStep
    PROVE  MoneyConserved'
  <1>1. /\ Total(WalletAmounts)' = Total(WalletAmounts)
        /\ Total(GiftAmounts)' = Total(GiftAmounts)
        /\ Total(TokenAmounts)' = Total(TokenAmounts)
    <2>1. \A q \in Requests : /\ WalletAccount(q)' = WalletAccount(q)
                              /\ GiftAccount(q)' = GiftAccount(q)
                              /\ TokenAccount(q)' = TokenAccount(q)
      BY DEF QuietStep, requestVars, WalletAccount, GiftAccount, TokenAccount,
             WalletState, TokenState, FundingReturned
    <2>. QED
      BY <2>1 DEF Total, WalletAmounts, GiftAmounts, TokenAmounts
  <1>2. /\ Total(WalletAmounts) \in Int /\ Total(GiftAmounts) \in Int
        /\ Total(TokenAmounts) \in Int
    BY AmountsType, TotalType
  <1>3. CASE UNCHANGED <<quota, gift, credited, granted, tokenRemain, tokenStatus,
                         writtenOff>>
    BY <1>1, <1>3 DEF MoneyConserved
  <1>4. CASE \E n \in Amounts : TopUp(n) \/ GrantUserGiftQuota(n)
    <2>1. PICK n \in Amounts : TopUp(n) \/ GrantUserGiftQuota(n)
      BY <1>4
    <2>2. /\ n \in Int /\ quota \in Int /\ gift \in Int
          /\ credited \in Int /\ granted \in Int
      BY BillingAssumption DEF TypeOK
    <2>3. /\ quota' = quota + n /\ credited' = credited + n
          /\ UNCHANGED <<tokenRemain, writtenOff>>
          /\ \/ gift' = gift + n /\ granted' = granted + n
             \/ UNCHANGED <<gift, granted>>
      BY <2>1 DEF TopUp, GrantUserGiftQuota, tokenVars
    <2>. QED
      BY <1>1, <1>2, <2>2, <2>3, BillingAssumption DEF MoneyConserved
  <1>. QED
    BY <1>3, <1>4 DEF QuietStep

LEMMA InitConserves ==
    ASSUME Init
    PROVE  MoneyConserved
  <1>1. \A r \in Requests : /\ WalletAccount(r).amount = 0
                            /\ GiftAccount(r).amount = 0
                            /\ TokenAccount(r).amount = 0
    BY DEF Init, WalletAccount, GiftAccount, TokenAccount, WalletState,
           TokenState, FundingReturned, NoSession, NoInfo
  <1>2. /\ Total(WalletAmounts) = 0 /\ Total(GiftAmounts) = 0
        /\ Total(TokenAmounts) = 0
    BY <1>1, SumZero, RequestsAssumption
    DEF Total, WalletAmounts, GiftAmounts, TokenAmounts
  <1>. QED
    BY <1>2, BillingAssumption DEF Init, MoneyConserved

(* For any finite number of requests, what is stored and what all of them  *)
(* have taken add up to what there was and what was credited, on each of   *)
(* the three balances (MoneyConserved).                                    *)
THEOREM MoneyIsConserved == Spec => []MoneyConserved
  <1>1. Init => MoneyConserved
    BY InitConserves
  <1>2. /\ TypeOK /\ TypeOK' /\ SessionInv /\ SessionInv' /\ MoneyConserved
        /\ [Next]_vars
        => MoneyConserved'
    BY QuietCases, RequestConserves, QuietConserves
  <1>. QED
    BY <1>1, <1>2, TypeCorrect, SessionInvariant, PTL DEF Spec

-----------------------------------------------------------------------------
(* The wallet and the token of finished requests. *)

(* A request that is over without a token error took the same from both. *)
LEMMA SameFromBoth ==
    ASSUME TypeOK, SessionInv, NEW r \in Requests,
           \/ pc[r] \in {"idle", "rejected"}
           \/ /\ Finished(r) /\ logged[r] \subseteq {"settleFunding"}
              /\ sess[r].src = "wallet" /\ ~ info[r].playground
    PROVE  WalletAmounts[r] = TokenAmounts[r]
  <1>1. RequestInv(r)
    BY DEF SessionInv, RequestInv
  <1>. SUFFICES WalletAccount(r).amount = TokenAccount(r).amount
    BY DEF WalletAmounts, TokenAmounts
  <1>2. CASE pc[r] \in {"idle", "rejected"}
    <2>1. sess[r] = NoSession
      BY <1>1, <1>2 DEF RequestInv, OpeningInv
    <2>. QED
      BY <2>1
      DEF NoSession, WalletAccount, TokenAccount, WalletState, TokenState, FundingReturned
  <1>3. CASE /\ Finished(r) /\ logged[r] \subseteq {"settleFunding"}
             /\ sess[r].src = "wallet" /\ ~ info[r].playground
    <2>1. /\ pc[r] = "closed" /\ job[r] \in {"none", "done"}
          /\ "settleToken" \notin logged[r] /\ "refundToken" \notin logged[r]
          /\ "refundFunding" \notin logged[r]
      BY <1>3 DEF Finished
    <2>2. /\ sess[r].consumed = sess[r].tokenConsumed
          /\ sess[r].consumed \in Nat
          /\ sess[r].settled \in BOOLEAN /\ sess[r].refunded \in BOOLEAN
          /\ sess[r].fundingSettled \in BOOLEAN
      BY <1>1, <1>3, <2>1 DEF RequestInv, AdmittedInv, TypeOK, Session
    <2>3. /\ sess[r].fundingSettled => sess[r].settled
          /\ sess[r].settled => ~ sess[r].refunded
          /\ sess[r].refunded <=> job[r] # "none"
          /\ sess[r].refunded => sess[r].tokenConsumed > 0
      BY <1>1, <2>1 DEF RequestInv, ClosingInv, JobInv
    <2>4. CASE sess[r].settled
      BY <1>3, <2>1, <2>3, <2>4
      DEF WalletAccount, TokenAccount, WalletState, TokenState, FundingReturned
    <2>5. CASE ~ sess[r].settled
      BY <1>3, <2>1, <2>2, <2>3, <2>5
      DEF WalletAccount, TokenAccount, WalletState, TokenState, FundingReturned
    <2>. QED
      BY <2>4, <2>5
  <1>. QED
    BY <1>2, <1>3

(* When every admitted request is finished, was paid by the wallet and had *)
(* a token, the wallet and the token have lost the same amount, but for    *)
(* what failed rollbacks were logged to keep (TokenMatchesFunding).        *)
THEOREM TokenMatches == Spec => []TokenMatchesFunding
  <1>1. TypeOK /\ SessionInv /\ MoneyConserved => TokenMatchesFunding
    <2>. SUFFICES ASSUME TypeOK, SessionInv, MoneyConserved,
                         \A r \in Requests :
                            \/ pc[r] \in {"idle", "rejected"}
                            \/ /\ Finished(r) /\ logged[r] \subseteq {"settleFunding"}
                               /\ sess[r].src = "wallet" /\ ~ info[r].playground
                  PROVE  InitQuota + credited - quota = InitToken - tokenRemain - writtenOff
      BY DEF TokenMatchesFunding
    <2>1. \A r \in Requests : WalletAmounts[r] = TokenAmounts[r]
      BY SameFromBoth
    <2>2. Total(WalletAmounts) = Total(TokenAmounts)
      BY <2>1, SumSame, RequestsAssumption DEF Total
    <2>3. Total(WalletAmounts) \in Int
      BY AmountsType, TotalType
    <2>. QED
      BY <2>2, <2>3, BillingAssumption DEF MoneyConserved, TypeOK
  <1>. QED
    BY <1>1, TypeCorrect, SessionInvariant, MoneyIsConserved, PTL
=============================================================================
