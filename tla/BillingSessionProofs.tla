------------------------ MODULE BillingSessionProofs ------------------------
(***************************************************************************)
(* Proofs about BillingSession: its types, the inductive invariant of the  *)
(* sessions, and the safety properties of single requests.                 *)
(***************************************************************************)
EXTENDS BillingSession, TLAPS

InfoType == [playground : BOOLEAN, force : BOOLEAN, pref : Prefs, est : Nat,
             tokenSeen : Int]

LEMMA GiftPartType ==
    ASSUME NEW n \in Nat, NEW g \in Nat
    PROVE  GiftPart(n, g) \in Nat /\ GiftPart(n, g) <= g /\ GiftPart(n, g) <= n
  BY DEF GiftPart

LEMMA RestoredGiftType ==
    ASSUME NEW n \in Nat, NEW g \in Nat
    PROVE  RestoredGift(n, g) \in Nat
  BY DEF RestoredGift

LEMMA NoSessionType == NoSession \in Session
  BY DEF NoSession, Session

LEMMA GoToType ==
    ASSUME TypeOK, NEW r \in Requests, NEW step \in HandlerSteps,
           NEW s \in Session, GoTo(r, step, s)
    PROVE  /\ pc' \in [Requests -> HandlerSteps]
           /\ sess' \in [Requests -> Session]
  BY DEF GoTo, TypeOK

LEMMA TryNextType ==
    ASSUME TypeOK, NEW r \in Requests, NEW i \in InfoType, NEW src,
           TryNext(r, i, src)
    PROVE  /\ pc' \in [Requests -> HandlerSteps]
           /\ sess' \in [Requests -> Session]
  <1>1. NewSubscriptionSession(i) \in Session
    BY DEF NewSubscriptionSession, NoSession, Session, InfoType
  <1>. QED
    BY <1>1, NoSessionType, GoToType DEF TryNext, HandlerSteps, Opening

LEMMA AuthenticateType ==
    ASSUME TypeOK, NEW r \in Requests, Authenticate(r)
    PROVE  TypeOK'
  <1>1. PICK k \in Kinds, n \in Amounts :
           LET i == [playground |-> k.playground, force |-> k.force,
                     pref |-> k.pref, est |-> n,
                     tokenSeen |-> IF k.playground \/ TokenUnlimited
                                   THEN 0 ELSE tokenRemain]
           IN /\ info' = [info EXCEPT ![r] = i]
              /\ TryNext(r, i, FirstSource(k.pref))
    BY DEF Authenticate
  <1>. DEFINE i == [playground |-> k.playground, force |-> k.force,
                    pref |-> k.pref, est |-> n,
                    tokenSeen |-> IF k.playground \/ TokenUnlimited
                                  THEN 0 ELSE tokenRemain]
  <1>2. i \in InfoType
    BY BillingAssumption DEF AllKinds, InfoType, TypeOK
  <1>3. info' = [info EXCEPT ![r] = i] /\ TryNext(r, i, FirstSource(k.pref))
    BY <1>1
  <1>. HIDE DEF i
  <1>. QED
    BY <1>2, <1>3, TryNextType
    DEF Authenticate, TypeOK, InfoType, walletVars, creditVars, tokenVars

LEMMA TakeWalletType ==
    ASSUME TypeOK, NEW r \in Requests, TakeWallet(r)
    PROVE  TypeOK'
  <1>1. sess[r].eff \in Nat /\ sess[r] \in Session /\ info[r] \in InfoType
    BY DEF TypeOK, Session, InfoType
  <1>. DEFINE n == sess[r].eff
              g == GiftPart(n, gift)
              s == [sess[r] EXCEPT !.preConsumed = n, !.consumed = n,
                                   !.giftConsumed = g]
  <1>2. g \in Nat /\ g <= gift
    BY <1>1, GiftPartType DEF TypeOK
  <1>3. s \in Session
    BY <1>1, <1>2 DEF Session
  <1>4. [sess[r] EXCEPT !.code = "dbError"] \in Session
    BY <1>1 DEF Session
  <1>5. /\ pc' \in [Requests -> HandlerSteps]
        /\ sess' \in [Requests -> Session]
    BY <1>1, <1>3, <1>4, GoToType, TryNextType
    DEF TakeWallet, PreConsumeFailed, HandlerSteps, Opening
  <1>6. quota' \in Int /\ gift' \in Nat
    BY <1>1, <1>2 DEF TakeWallet, TypeOK, walletVars
  <1>. QED
    BY <1>5, <1>6 DEF TakeWallet, TypeOK, creditVars, tokenVars

LEMMA RequestType ==
    ASSUME TypeOK, NEW r \in Requests
    PROVE  /\ info[r] \in InfoType /\ sess[r] \in Session
           /\ sess[r].eff \in Nat /\ sess[r].preConsumed \in Nat
           /\ sess[r].tokenConsumed \in Nat /\ sess[r].consumed \in Nat
           /\ sess[r].giftConsumed \in Nat /\ sess[r].actual \in Nat
  BY DEF TypeOK, Session, InfoType

LEMMA PreConsumeFailedType ==
    ASSUME TypeOK, NEW r \in Requests,
           NEW code \in {"insufficient", "dbError"}, PreConsumeFailed(r, code)
    PROVE  /\ pc' \in [Requests -> HandlerSteps]
           /\ sess' \in [Requests -> Session]
  <1>1. [sess[r] EXCEPT !.code = code] \in Session
    BY RequestType DEF Session
  <1>. QED
    BY <1>1, RequestType, GoToType, TryNextType
    DEF PreConsumeFailed, HandlerSteps, Opening

LEMMA OpeningType ==
    ASSUME TypeOK, NEW r \in Requests,
           \/ Unauthorized(r) \/ CheckSub(r) \/ CheckWallet(r) \/ ReadToken(r)
           \/ TakeToken(r) \/ TakeSubscription(r) \/ ReturnToken(r)
    PROVE  TypeOK'
  <1>1. info[r] \in InfoType /\ sess[r] \in Session
    BY RequestType
  <1>2. CASE Unauthorized(r)
    BY <1>1, <1>2, TryNextType
    DEF Unauthorized, TypeOK, walletVars, creditVars
  <1>3. CASE CheckSub(r)
    BY <1>1, <1>3, TryNextType
    DEF CheckSub, TypeOK, walletVars, creditVars, tokenVars
  <1>4. CASE CheckWallet(r)
    <2>1. /\ pc' \in [Requests -> HandlerSteps]
          /\ sess' \in [Requests -> Session]
      <3>. DEFINE eff == IF TrustsWallet(info[r], quota) THEN 0 ELSE info[r].est
                  s == [NoSession EXCEPT !.src = "wallet", !.eff = eff]
      <3>1. s \in Session
        BY <1>1 DEF NoSession, Session, InfoType
      <3>. QED
        BY <1>1, <1>4, <3>1, TryNextType, GoToType
        DEF CheckWallet, HandlerSteps, Opening
    <2>. QED
      BY <1>4, <2>1 DEF CheckWallet, TypeOK, walletVars, creditVars, tokenVars
  <1>5. CASE ReadToken(r)
    <2>1. [sess[r] EXCEPT !.tokenConsumed = sess[r].eff] \in Session
      BY <1>1 DEF Session
    <2>2. /\ pc' \in [Requests -> HandlerSteps]
          /\ sess' \in [Requests -> Session]
      BY <1>1, <1>5, <2>1, TryNextType, GoToType
      DEF ReadToken, HandlerSteps, Opening
    <2>. QED
      BY <1>5, <2>2 DEF ReadToken, TypeOK, walletVars, creditVars, tokenVars
  <1>6. CASE TakeToken(r)
    <2>1. [sess[r] EXCEPT !.tokenConsumed = sess[r].eff] \in Session
      BY <1>1 DEF Session
    <2>2. /\ pc' \in [Requests -> HandlerSteps]
          /\ sess' \in [Requests -> Session]
      BY <1>1, <1>6, <2>1, TryNextType, GoToType
      DEF TakeToken, HandlerSteps, Opening
    <2>3. tokenRemain' \in Int
      BY <1>6, RequestType DEF TakeToken, TypeOK
    <2>. QED
      BY <1>6, <2>2, <2>3 DEF TakeToken, TypeOK, walletVars, creditVars
  <1>7. CASE TakeSubscription(r)
    <2>1. [sess[r] EXCEPT !.preConsumed = sess[r].eff,
                          !.subPreConsumed = sess[r].eff] \in Session
      BY <1>1 DEF Session
    <2>2. /\ pc' \in [Requests -> HandlerSteps]
          /\ sess' \in [Requests -> Session]
      BY <1>7, <2>1, PreConsumeFailedType, GoToType
      DEF TakeSubscription, HandlerSteps, Opening
    <2>. QED
      BY <1>7, <2>2
      DEF TakeSubscription, TypeOK, walletVars, creditVars, tokenVars
  <1>8. CASE ReturnToken(r)
    <2>1. tokenRemain' \in Int /\ writtenOff' \in Nat
      BY <1>8, RequestType DEF ReturnToken, TypeOK
    <2>. QED
      BY <1>1, <1>8, <2>1, TryNextType
      DEF ReturnToken, TypeOK, walletVars, creditVars
  <1>. QED
    BY <1>2, <1>3, <1>4, <1>5, <1>6, <1>7, <1>8

LEMMA SettleFundingType ==
    ASSUME TypeOK, NEW r \in Requests, SettleFunding(r)
    PROVE  TypeOK'
  <1>1. PICK actual \in Amounts :
          LET s == [sess[r] EXCEPT !.actual = actual]
              delta == actual - s.preConsumed
              g == IF s.src = "wallet" /\ delta > 0
                   THEN GiftPart(delta, gift) ELSE 0
              next == IF info[r].playground THEN "closed" ELSE "settleToken"
          IN \/ /\ delta = 0
                /\ GoTo(r, "closed", [s EXCEPT !.settled = TRUE])
                /\ UNCHANGED <<walletVars, logged>>
             \/ /\ delta # 0
                /\ quota' = IF s.src = "wallet" THEN quota - delta ELSE quota
                /\ gift' = gift - g
                /\ GoTo(r, next, [s EXCEPT !.fundingSettled = TRUE,
                                           !.settled = info[r].playground,
                                           !.giftConsumed = @ + g])
                /\ UNCHANGED logged
             \/ /\ delta # 0
                /\ GoTo(r, "closed", sess[r])
                /\ logged' = [logged EXCEPT ![r] = @ \cup {"settleFunding"}]
                /\ UNCHANGED walletVars
    BY DEF SettleFunding
  <1>. DEFINE s == [sess[r] EXCEPT !.actual = actual]
              delta == actual - s.preConsumed
              g == IF s.src = "wallet" /\ delta > 0
                   THEN GiftPart(delta, gift) ELSE 0
              done == [s EXCEPT !.settled = TRUE]
              half == [s EXCEPT !.fundingSettled = TRUE,
                                !.settled = info[r].playground,
                                !.giftConsumed = @ + g]
  <1>2. actual \in Nat /\ s \in Session /\ s.preConsumed \in Nat
    BY BillingAssumption, RequestType DEF Session
  <1>3. g \in Nat /\ g <= gift
    <2>1. gift \in Nat /\ delta \in Int
      BY <1>2 DEF TypeOK
    <2>. HIDE DEF delta
    <2>2. CASE s.src = "wallet" /\ delta > 0
      <3>1. delta \in Nat
        BY <2>1, <2>2
      <3>. QED
        BY <2>1, <2>2, <3>1, GiftPartType
    <2>3. CASE ~ (s.src = "wallet" /\ delta > 0)
      BY <2>1, <2>3
    <2>. QED
      BY <2>2, <2>3
  <1>4. done \in Session /\ half \in Session
    <2>. HIDE DEF s, g
    <2>1. s.giftConsumed + g \in Nat
      BY <1>2, <1>3 DEF Session
    <2>2. done \in Session
      BY <1>2 DEF Session
    <2>3. half \in Session
      <3>1. info[r].playground \in BOOLEAN
        BY RequestType DEF InfoType
      <3>. DEFINE m == s.giftConsumed + g
                  p == info[r].playground
      <3>2. half = [s EXCEPT !.fundingSettled = TRUE, !.settled = p,
                             !.giftConsumed = m]
        OBVIOUS
      <3>. HIDE DEF m, p
      <3>. QED
        BY <1>2, <2>1, <3>1, <3>2 DEF Session
    <2>. QED
      BY <2>2, <2>3
  <1>5. /\ pc' \in [Requests -> HandlerSteps]
        /\ sess' \in [Requests -> Session]
    BY <1>1, <1>4, RequestType, GoToType DEF HandlerSteps
  <1>6. quota' \in Int /\ gift' \in Nat
    BY <1>1, <1>2, <1>3 DEF TypeOK, walletVars
  <1>7. logged' \in [Requests -> SUBSET LoggedErrors]
    BY <1>1 DEF TypeOK, LoggedErrors
  <1>. QED
    BY <1>5, <1>6, <1>7 DEF SettleFunding, TypeOK, creditVars, tokenVars

LEMMA ClosingType ==
    ASSUME TypeOK, NEW r \in Requests,
           SettleToken(r) \/ Refund(r) \/ RefundFunding(r) \/ RefundToken(r)
    PROVE  TypeOK'
  <1>1. CASE SettleToken(r)
    <2>1. [sess[r] EXCEPT !.settled = TRUE] \in Session
      BY RequestType DEF Session
    <2>2. /\ pc' \in [Requests -> HandlerSteps]
          /\ sess' \in [Requests -> Session]
      BY <1>1, <2>1, GoToType DEF SettleToken, HandlerSteps
    <2>3. tokenRemain' \in Int /\ logged' \in [Requests -> SUBSET LoggedErrors]
      BY <1>1, RequestType DEF SettleToken, TypeOK, LoggedErrors
    <2>. QED
      BY <1>1, <2>2, <2>3 DEF SettleToken, TypeOK, walletVars, creditVars
  <1>2. CASE Refund(r)
    <2>1. [sess[r] EXCEPT !.refunded = TRUE] \in Session
      BY RequestType DEF Session
    <2>2. /\ pc' \in [Requests -> HandlerSteps]
          /\ sess' \in [Requests -> Session]
      BY <1>2, <2>1, RequestType, GoToType DEF Refund, HandlerSteps
    <2>. QED
      BY <1>2, <2>2 DEF Refund, TypeOK, walletVars, creditVars, tokenVars
  <1>3. CASE RefundFunding(r)
    <2>. DEFINE n == IF sess[r].src = "wallet" THEN sess[r].consumed ELSE 0
    <2>1. n \in Nat /\ RestoredGift(n, sess[r].giftConsumed) \in Nat
      BY RequestType, RestoredGiftType
    <2>2. quota' \in Int /\ gift' \in Nat
      BY <1>3, <2>1 DEF RefundFunding, TypeOK, walletVars
    <2>3. /\ logged' \in [Requests -> SUBSET LoggedErrors]
          /\ job' \in [Requests -> {"none", "refundFunding", "refundToken",
                                    "done"}]
      BY <1>3 DEF RefundFunding, TypeOK, LoggedErrors
    <2>. QED
      BY <1>3, <2>2, <2>3 DEF RefundFunding, TypeOK, creditVars, tokenVars
  <1>4. CASE RefundToken(r)
    <2>1. tokenRemain' \in Int /\ logged' \in [Requests -> SUBSET LoggedErrors]
      BY <1>4, RequestType DEF RefundToken, TypeOK, LoggedErrors
    <2>. QED
      BY <1>4, <2>1 DEF RefundToken, TypeOK, walletVars, creditVars
  <1>. QED
    BY <1>1, <1>2, <1>3, <1>4

LEMMA EnvironmentType ==
    ASSUME TypeOK,
           (\E n \in Amounts : TopUp(n) \/ GrantUserGiftQuota(n)) \/ Crash
    PROVE  TypeOK'
  BY BillingAssumption
  DEF TypeOK, TopUp, GrantUserGiftQuota, Crash, walletVars, creditVars,
      tokenVars, requestVars

(* Every variable keeps its type, whatever the amounts, the requests and   *)
(* the errors.                                                             *)
THEOREM TypeCorrect == Spec => []TypeOK
  <1>1. Init => TypeOK
    BY BillingAssumption, NoSessionType
    DEF Init, TypeOK, NoInfo, Prefs, HandlerSteps
  <1>2. TypeOK /\ [Next]_vars => TypeOK'
    <2>1. CASE UNCHANGED vars
      BY <2>1 DEF TypeOK, vars, walletVars, creditVars, tokenVars, requestVars
    <2>2. CASE Next
      BY <2>2, AuthenticateType, TakeWalletType, OpeningType, SettleFundingType,
         ClosingType, EnvironmentType
      DEF Next, PreConsume, RefundJob
    <2>. QED
      BY <2>1, <2>2
  <1>. QED
    BY <1>1, <1>2, PTL DEF Spec

-----------------------------------------------------------------------------
(* SessionInv is an inductive invariant of BillingSession, and the safety  *)
(* properties of single requests follow from it.                           *)

RequestInv(r) ==
    /\ OpeningInv(r) /\ AdmittedInv(r) /\ EstimateInv(r)
    /\ ClosingInv(r) /\ JobInv(r)

Same(q) ==
    /\ pc'[q] = pc[q] /\ sess'[q] = sess[q] /\ info'[q] = info[q]
    /\ job'[q] = job[q] /\ logged'[q] = logged[q]

RequestStep(r) ==
    \/ Authenticate(r) \/ Unauthorized(r) \/ PreConsume(r)
    \/ SettleFunding(r) \/ SettleToken(r) \/ Refund(r) \/ RefundJob(r)

(* The handler of one request leaves the others alone. *)
LEMMA GoToOwn ==
    ASSUME TypeOK, NEW r \in Requests, NEW step, NEW s, GoTo(r, step, s)
    PROVE  /\ pc'[r] = step /\ sess'[r] = s
           /\ \A q \in Requests \ {r} : pc'[q] = pc[q] /\ sess'[q] = sess[q]
  BY DEF GoTo, TypeOK

LEMMA TryNextOwn ==
    ASSUME TypeOK, NEW r \in Requests, NEW i, NEW src, TryNext(r, i, src)
    PROVE  \A q \in Requests \ {r} : pc'[q] = pc[q] /\ sess'[q] = sess[q]
  BY GoToOwn DEF TryNext

LEMMA PreConsumeFailedOwn ==
    ASSUME TypeOK, NEW r \in Requests, NEW code, PreConsumeFailed(r, code)
    PROVE  \A q \in Requests \ {r} : pc'[q] = pc[q] /\ sess'[q] = sess[q]
  BY GoToOwn, TryNextOwn DEF PreConsumeFailed

LEMMA RequestStepOwn ==
    ASSUME TypeOK, NEW r \in Requests, RequestStep(r),
           NEW q \in Requests \ {r}
    PROVE  Same(q)
  <1>1. CASE Authenticate(r)
    <2>1. PICK i, src : info' = [info EXCEPT ![r] = i] /\ TryNext(r, i, src)
      BY <1>1 DEF Authenticate
    <2>. QED
      BY <1>1, <2>1, TryNextOwn DEF Authenticate, Same, TypeOK
  <1>2. CASE Unauthorized(r) \/ CheckSub(r) \/ ReturnToken(r)
    BY <1>2, TryNextOwn DEF Unauthorized, CheckSub, ReturnToken, Same
  <1>3. CASE CheckWallet(r) \/ ReadToken(r) \/ TakeToken(r)
    BY <1>3, TryNextOwn, GoToOwn DEF CheckWallet, ReadToken, TakeToken, Same
  <1>4. CASE TakeWallet(r) \/ TakeSubscription(r)
    BY <1>4, PreConsumeFailedOwn, GoToOwn DEF TakeWallet, TakeSubscription, Same
  <1>5. CASE SettleFunding(r)
    BY <1>5, GoToOwn DEF SettleFunding, Same, TypeOK
  <1>6. CASE SettleToken(r) \/ Refund(r)
    BY <1>6, GoToOwn DEF SettleToken, Refund, Same, TypeOK
  <1>7. CASE RefundFunding(r) \/ RefundToken(r)
    BY <1>7 DEF RefundFunding, RefundToken, Same, TypeOK
  <1>. QED
    BY <1>1, <1>2, <1>3, <1>4, <1>5, <1>6, <1>7
    DEF RequestStep, PreConsume, RefundJob

LEMMA SameInv ==
    ASSUME NEW q \in Requests, RequestInv(q), Same(q)
    PROVE  RequestInv(q)'
  BY DEF RequestInv, Same, OpeningInv, AdmittedInv, EstimateInv, ClosingInv,
         JobInv

(* A session that the next attempt starts from satisfies the invariant. *)
LEMMA TryNextInv ==
    ASSUME TypeOK, NEW r \in Requests, NEW i \in InfoType, NEW src,
           TryNext(r, i, src), info'[r] = i, job'[r] = "none", logged'[r] = {}
    PROVE  RequestInv(r)'
  <1>1. CASE src = "subscription"
    <2>. DEFINE s == NewSubscriptionSession(i)
    <2>1. pc'[r] = "readToken" /\ sess'[r] = s
      BY <1>1, GoToOwn DEF TryNext
    <2>2. /\ s.src = "subscription" /\ s.eff > 0 /\ s.eff >= i.est
          /\ s.tokenConsumed = 0 /\ NothingTaken(s)
      BY DEF NewSubscriptionSession, NoSession, NothingTaken, InfoType
    <2>. HIDE DEF s
    <2>. QED
      BY <2>1, <2>2
      DEF RequestInv, OpeningInv, AdmittedInv, EstimateInv, ClosingInv, JobInv,
          NothingTaken
  <1>2. CASE src # "subscription"
    <2>1. /\ pc'[r] \in {"checkWallet", "checkSub", "rejected"}
          /\ sess'[r] = NoSession
      BY <1>2, GoToOwn DEF TryNext
    <2>. QED
      BY <2>1
      DEF RequestInv, OpeningInv, AdmittedInv, EstimateInv, ClosingInv, JobInv,
          NoSession
  <1>. QED
    BY <1>1, <1>2

(* Before a session is closed there is no refund and no logged error. *)
LEMMA OpeningQuiet ==
    ASSUME TypeOK, NEW r \in Requests, RequestInv(r),
           pc[r] \in Opening \cup {"idle", "open", "settleToken"}
    PROVE  job[r] = "none" /\ logged[r] = {}
  BY DEF RequestInv, OpeningInv, ClosingInv, JobInv, NothingTaken, NoSession,
         Opening

LEMMA AuthenticateInv ==
    ASSUME TypeOK, NEW r \in Requests, RequestInv(r), Authenticate(r)
    PROVE  RequestInv(r)'
  <1>1. PICK k \in Kinds, n \in Amounts :
           LET i == [playground |-> k.playground, force |-> k.force,
                     pref |-> k.pref, est |-> n,
                     tokenSeen |-> IF k.playground \/ TokenUnlimited
                                   THEN 0 ELSE tokenRemain]
           IN /\ info' = [info EXCEPT ![r] = i]
              /\ TryNext(r, i, FirstSource(k.pref))
    BY DEF Authenticate
  <1>. DEFINE i == [playground |-> k.playground, force |-> k.force,
                    pref |-> k.pref, est |-> n,
                    tokenSeen |-> IF k.playground \/ TokenUnlimited
                                  THEN 0 ELSE tokenRemain]
  <1>2. i \in InfoType
    BY BillingAssumption DEF AllKinds, InfoType, TypeOK
  <1>3. info' = [info EXCEPT ![r] = i] /\ TryNext(r, i, FirstSource(k.pref))
    BY <1>1
  <1>. HIDE DEF i
  <1>4. job'[r] = "none" /\ logged'[r] = {}
    BY OpeningQuiet DEF Authenticate, At
  <1>. QED
    BY <1>2, <1>3, <1>4, TryNextInv DEF TypeOK

LEMMA CheckInv ==
    ASSUME TypeOK, NEW r \in Requests, RequestInv(r),
           Unauthorized(r) \/ CheckSub(r) \/ CheckWallet(r)
    PROVE  RequestInv(r)'
  <1>1. /\ info'[r] = info[r] /\ info[r] \in InfoType
        /\ job'[r] = "none" /\ logged'[r] = {}
    BY OpeningQuiet, RequestType
    DEF Unauthorized, CheckSub, CheckWallet, At, Opening
  <1>2. CASE \E src : TryNext(r, info[r], src)
    BY <1>1, <1>2, TryNextInv
  <1>3. CASE \A src : ~ TryNext(r, info[r], src)
    <2>. DEFINE eff == IF TrustsWallet(info[r], quota) THEN 0 ELSE info[r].est
                s == [NoSession EXCEPT !.src = "wallet", !.eff = eff]
                step == IF eff > 0 THEN "readToken" ELSE "takeFunding"
    <2>1. GoTo(r, step, s)
      BY <1>3 DEF Unauthorized, CheckSub, CheckWallet
    <2>2. /\ s.src = "wallet" /\ s.eff = eff /\ s.tokenConsumed = 0
          /\ NothingTaken(s)
      BY DEF NoSession, NothingTaken
    <2>3. eff \in Nat /\ (info[r].force => eff = info[r].est)
      BY <1>1 DEF TrustsWallet, InfoType
    <2>. HIDE DEF s, eff
    <2>4. pc'[r] = step /\ sess'[r] = s
      BY <2>1, GoToOwn
    <2>. QED
      BY <1>1, <2>2, <2>3, <2>4
      DEF RequestInv, OpeningInv, AdmittedInv, EstimateInv, ClosingInv, JobInv,
          NothingTaken
  <1>. QED
    BY <1>2, <1>3

LEMMA TokenInv ==
    ASSUME TypeOK, NEW r \in Requests, RequestInv(r),
           ReadToken(r) \/ TakeToken(r) \/ ReturnToken(r)
    PROVE  RequestInv(r)'
  <1>1. /\ info'[r] = info[r] /\ info[r] \in InfoType
        /\ job'[r] = "none" /\ logged'[r] = {}
    BY OpeningQuiet, RequestType DEF ReadToken, TakeToken, ReturnToken, At,
       Opening
  <1>2. CASE \E src : TryNext(r, info[r], src)
    BY <1>1, <1>2, TryNextInv
  <1>3. CASE \A src : ~ TryNext(r, info[r], src)
    <2>. DEFINE s == [sess[r] EXCEPT !.tokenConsumed = sess[r].eff]
    <2>1. /\ pc[r] \in {"readToken", "takeToken"}
          /\ \/ GoTo(r, "takeFunding", s)
             \/ GoTo(r, "takeToken", sess[r]) /\ ~ info[r].playground
      BY <1>3 DEF ReadToken, TakeToken, ReturnToken, At
    <2>2. /\ s.src = sess[r].src /\ s.eff = sess[r].eff
          /\ s.tokenConsumed = sess[r].eff
          /\ NothingTaken(sess[r]) => NothingTaken(s)
      BY RequestType DEF Session, NothingTaken
    <2>. HIDE DEF s
    <2>. QED
      BY <1>1, <2>1, <2>2, GoToOwn
      DEF RequestInv, OpeningInv, AdmittedInv, EstimateInv, ClosingInv, JobInv,
          NothingTaken
  <1>. QED
    BY <1>2, <1>3

LEMMA PreConsumeFailedInv ==
    ASSUME TypeOK, NEW r \in Requests, RequestInv(r), pc[r] = "takeFunding",
           NEW code, PreConsumeFailed(r, code),
           UNCHANGED <<info, job, logged>>
    PROVE  RequestInv(r)'
  <1>1. /\ info[r] \in InfoType /\ job[r] = "none" /\ logged[r] = {}
    BY OpeningQuiet, RequestType DEF Opening
  <1>2. CASE HoldsToken(sess[r], info[r])
    <2>. DEFINE s == [sess[r] EXCEPT !.code = code]
    <2>1. pc'[r] = "returnToken" /\ sess'[r] = s
      BY <1>2, GoToOwn DEF PreConsumeFailed
    <2>2. /\ s.src = sess[r].src /\ s.eff = sess[r].eff
          /\ s.tokenConsumed = sess[r].tokenConsumed
          /\ NothingTaken(sess[r]) => NothingTaken(s)
      BY RequestType DEF Session, NothingTaken
    <2>. HIDE DEF s
    <2>. QED
      BY <1>1, <1>2, <2>1, <2>2
      DEF RequestInv, OpeningInv, AdmittedInv, EstimateInv, ClosingInv, JobInv,
          NothingTaken, HoldsToken
  <1>3. CASE ~ HoldsToken(sess[r], info[r])
    BY <1>1, <1>3, TryNextInv DEF PreConsumeFailed
  <1>. QED
    BY <1>2, <1>3

LEMMA TakeWalletInv ==
    ASSUME TypeOK, NEW r \in Requests, RequestInv(r), TakeWallet(r)
    PROVE  RequestInv(r)'
  <1>1. /\ info[r] \in InfoType /\ job[r] = "none" /\ logged[r] = {}
        /\ pc[r] = "takeFunding" /\ sess[r].src = "wallet"
    BY OpeningQuiet, RequestType DEF Opening, TakeWallet, At
  <1>. DEFINE n == sess[r].eff
              g == GiftPart(n, gift)
              s == [sess[r] EXCEPT !.preConsumed = n, !.consumed = n,
                                   !.giftConsumed = g]
  <1>2. CASE GoTo(r, "open", s)
    <2>1. g <= n
      BY RequestType, GiftPartType DEF TypeOK
    <2>2. /\ s.src = "wallet" /\ s.eff = n /\ s.consumed = n
          /\ s.preConsumed = n /\ s.giftConsumed = g
          /\ s.tokenConsumed = sess[r].tokenConsumed
          /\ s.subPreConsumed = sess[r].subPreConsumed
          /\ s.fundingSettled = sess[r].fundingSettled
          /\ s.settled = sess[r].settled /\ s.refunded = sess[r].refunded
      BY <1>1, RequestType DEF Session
    <2>3. pc'[r] = "open" /\ sess'[r] = s
      BY <1>2, GoToOwn
    <2>4. info'[r] = info[r] /\ job'[r] = job[r] /\ logged'[r] = logged[r]
      BY DEF TakeWallet
    <2>. HIDE DEF s, g
    <2>. QED
      BY <1>1, <2>1, <2>2, <2>3, <2>4
      DEF RequestInv, OpeningInv, AdmittedInv, EstimateInv, ClosingInv, JobInv,
          NothingTaken
  <1>3. CASE ~ GoTo(r, "open", s)
    BY <1>1, <1>3, PreConsumeFailedInv DEF TakeWallet
  <1>. QED
    BY <1>2, <1>3

LEMMA TakeSubscriptionInv ==
    ASSUME TypeOK, NEW r \in Requests, RequestInv(r), TakeSubscription(r)
    PROVE  RequestInv(r)'
  <1>1. /\ info[r] \in InfoType /\ job[r] = "none" /\ logged[r] = {}
        /\ pc[r] = "takeFunding" /\ sess[r].src = "subscription"
    BY OpeningQuiet, RequestType DEF Opening, TakeSubscription, At
  <1>. DEFINE n == sess[r].eff
              s == [sess[r] EXCEPT !.preConsumed = n, !.subPreConsumed = n]
  <1>2. CASE GoTo(r, "open", s)
    <2>1. /\ s.src = "subscription" /\ s.eff = n
          /\ s.consumed = sess[r].consumed
          /\ s.preConsumed = n /\ s.giftConsumed = sess[r].giftConsumed
          /\ s.tokenConsumed = sess[r].tokenConsumed
          /\ s.subPreConsumed = n
          /\ s.fundingSettled = sess[r].fundingSettled
          /\ s.settled = sess[r].settled /\ s.refunded = sess[r].refunded
      BY <1>1, RequestType DEF Session
    <2>2. pc'[r] = "open" /\ sess'[r] = s
      BY <1>2, GoToOwn
    <2>3. info'[r] = info[r] /\ job'[r] = job[r] /\ logged'[r] = logged[r]
      BY DEF TakeSubscription
    <2>. HIDE DEF s
    <2>. QED
      BY <1>1, <2>1, <2>2, <2>3
      DEF RequestInv, OpeningInv, AdmittedInv, EstimateInv, ClosingInv, JobInv,
          NothingTaken
  <1>3. CASE ~ GoTo(r, "open", s)
    BY <1>1, <1>3, PreConsumeFailedInv DEF TakeSubscription
  <1>. QED
    BY <1>2, <1>3

(* The three outcomes of the first half of Settle: nothing to adjust, the  *)
(* funding source adjusted with g taken from gift, an error.               *)
NothingToSettle(r, a, g) ==
    /\ a = sess[r].preConsumed /\ g = 0
    /\ pc'[r] = "closed" /\ sess'[r].settled
    /\ sess'[r].fundingSettled = sess[r].fundingSettled
    /\ sess'[r].actual = a
    /\ sess'[r].giftConsumed = sess[r].giftConsumed
    /\ UNCHANGED <<quota, gift, logged>>

FundingAdjusted(r, a, g) ==
    /\ pc'[r] = IF info[r].playground THEN "closed" ELSE "settleToken"
    /\ sess'[r].settled = info[r].playground
    /\ sess'[r].fundingSettled
    /\ sess'[r].actual = a
    /\ sess'[r].giftConsumed = sess[r].giftConsumed + g
    /\ quota' = IF sess[r].src = "wallet"
                THEN quota - (a - sess[r].preConsumed) ELSE quota
    /\ gift' = gift - g
    /\ UNCHANGED logged

SettleFailed(r) ==
    /\ pc'[r] = "closed" /\ sess'[r] = sess[r]
    /\ logged' = [logged EXCEPT ![r] = @ \cup {"settleFunding"}]
    /\ UNCHANGED <<quota, gift>>

SettleKeeps(r) ==
    LET s == sess[r]
        t == sess'[r]
    IN /\ t.src = s.src /\ t.eff = s.eff /\ t.preConsumed = s.preConsumed
       /\ t.tokenConsumed = s.tokenConsumed /\ t.consumed = s.consumed
       /\ t.subPreConsumed = s.subPreConsumed /\ t.refunded = s.refunded

LEMMA SettleFundingCases ==
    ASSUME TypeOK, NEW r \in Requests, SettleFunding(r)
    PROVE  \E a \in Nat, g \in Nat :
              /\ SettleKeeps(r)
              /\ sess[r].src # "wallet" => g = 0
              /\ \/ NothingToSettle(r, a, g)
                 \/ FundingAdjusted(r, a, g)
                 \/ SettleFailed(r)
  <1>1. PICK actual \in Amounts :
          LET s == [sess[r] EXCEPT !.actual = actual]
              delta == actual - s.preConsumed
              g == IF s.src = "wallet" /\ delta > 0
                   THEN GiftPart(delta, gift) ELSE 0
              next == IF info[r].playground THEN "closed" ELSE "settleToken"
          IN \/ /\ delta = 0
                /\ GoTo(r, "closed", [s EXCEPT !.settled = TRUE])
                /\ UNCHANGED <<walletVars, logged>>
             \/ /\ delta # 0
                /\ quota' = IF s.src = "wallet" THEN quota - delta ELSE quota
                /\ gift' = gift - g
                /\ GoTo(r, next, [s EXCEPT !.fundingSettled = TRUE,
                                           !.settled = info[r].playground,
                                           !.giftConsumed = @ + g])
                /\ UNCHANGED logged
             \/ /\ delta # 0
                /\ GoTo(r, "closed", sess[r])
                /\ logged' = [logged EXCEPT ![r] = @ \cup {"settleFunding"}]
                /\ UNCHANGED walletVars
    BY DEF SettleFunding
  <1>. DEFINE s == [sess[r] EXCEPT !.actual = actual]
              delta == actual - s.preConsumed
              g == IF s.src = "wallet" /\ delta > 0
                   THEN GiftPart(delta, gift) ELSE 0
              done == [s EXCEPT !.settled = TRUE]
              half == [s EXCEPT !.fundingSettled = TRUE,
                                !.settled = info[r].playground,
                                !.giftConsumed = s.giftConsumed + g]
              next == IF info[r].playground THEN "closed" ELSE "settleToken"
  <1>2. actual \in Nat /\ s \in Session /\ s.preConsumed \in Nat
    BY BillingAssumption, RequestType DEF Session
  <1>3. g \in Nat
    <2>1. gift \in Nat /\ delta \in Int
      BY <1>2 DEF TypeOK
    <2>. HIDE DEF delta
    <2>2. CASE s.src = "wallet" /\ delta > 0
      <3>1. delta \in Nat
        BY <2>1, <2>2
      <3>. QED
        BY <2>1, <2>2, <3>1, GiftPartType
    <2>3. CASE ~ (s.src = "wallet" /\ delta > 0)
      BY <2>1, <2>3
    <2>. QED
      BY <2>2, <2>3
  <1>4. /\ s.actual = actual
        /\ s.src = sess[r].src /\ s.eff = sess[r].eff
        /\ s.preConsumed = sess[r].preConsumed
        /\ s.tokenConsumed = sess[r].tokenConsumed
        /\ s.consumed = sess[r].consumed
        /\ s.giftConsumed = sess[r].giftConsumed
        /\ s.subPreConsumed = sess[r].subPreConsumed
        /\ s.fundingSettled = sess[r].fundingSettled
        /\ s.settled = sess[r].settled /\ s.refunded = sess[r].refunded
    BY RequestType DEF Session
  <1>5. CASE /\ delta = 0
             /\ GoTo(r, "closed", done)
             /\ UNCHANGED <<walletVars, logged>>
    <2>1. pc'[r] = "closed" /\ sess'[r] = done
      BY <1>5, GoToOwn
    <2>2. actual = s.preConsumed /\ g = 0
      BY <1>2, <1>5
    <2>. HIDE DEF s, g
    <2>3. /\ done.settled /\ done.fundingSettled = s.fundingSettled
          /\ done.actual = s.actual /\ done.giftConsumed = s.giftConsumed
          /\ done.src = s.src /\ done.eff = s.eff
          /\ done.preConsumed = s.preConsumed
          /\ done.tokenConsumed = s.tokenConsumed
          /\ done.consumed = s.consumed
          /\ done.subPreConsumed = s.subPreConsumed
          /\ done.refunded = s.refunded
      BY <1>2 DEF Session
    <2>. HIDE DEF done
    <2>4. SettleKeeps(r) /\ NothingToSettle(r, actual, g)
      BY <1>4, <1>5, <2>1, <2>2, <2>3
      DEF SettleKeeps, NothingToSettle, walletVars
    <2>. QED
      BY <1>2, <1>3, <2>2, <2>4
  <1>6. CASE /\ delta # 0
             /\ quota' = IF s.src = "wallet" THEN quota - delta ELSE quota
             /\ gift' = gift - g
             /\ GoTo(r, next, half)
             /\ UNCHANGED logged
    <2>1. pc'[r] = next /\ sess'[r] = half
      BY <1>6, GoToOwn
    <2>2. s.src # "wallet" => g = 0
      OBVIOUS
    <2>. DEFINE p == info[r].playground
                m == s.giftConsumed + g
    <2>3. half = [s EXCEPT !.fundingSettled = TRUE, !.settled = p,
                           !.giftConsumed = m]
      OBVIOUS
    <2>4. p \in BOOLEAN /\ m = s.giftConsumed + g
      BY RequestType DEF InfoType
    <2>. HIDE DEF s, g, half, p, m
    <2>5. /\ half.fundingSettled /\ half.settled = p
          /\ half.actual = s.actual /\ half.giftConsumed = m
          /\ half.src = s.src /\ half.eff = s.eff
          /\ half.preConsumed = s.preConsumed
          /\ half.tokenConsumed = s.tokenConsumed
          /\ half.consumed = s.consumed
          /\ half.subPreConsumed = s.subPreConsumed
          /\ half.refunded = s.refunded
      BY <1>2, <2>3, <2>4 DEF Session
    <2>6. SettleKeeps(r) /\ FundingAdjusted(r, actual, g)
      BY <1>4, <1>6, <2>1, <2>4, <2>5 DEF SettleKeeps, FundingAdjusted, p
    <2>. QED
      BY <1>2, <1>3, <1>4, <2>2, <2>6
  <1>7. CASE /\ GoTo(r, "closed", sess[r])
             /\ logged' = [logged EXCEPT ![r] = @ \cup {"settleFunding"}]
             /\ UNCHANGED walletVars
    <2>1. pc'[r] = "closed" /\ sess'[r] = sess[r]
      BY <1>7, GoToOwn
    <2>2. SettleKeeps(r) /\ SettleFailed(r)
      BY <1>7, <2>1 DEF SettleKeeps, SettleFailed, walletVars
    <2>. QED
      BY <2>2
  <1>. QED
    BY <1>1, <1>5, <1>6, <1>7

LEMMA SettleInv ==
    ASSUME TypeOK, NEW r \in Requests, RequestInv(r),
           SettleFunding(r) \/ SettleToken(r)
    PROVE  RequestInv(r)'
  <1>. USE DEF RequestInv, OpeningInv, AdmittedInv, EstimateInv, ClosingInv,
               JobInv
  <1>1. CASE SettleFunding(r)
    <2>1. PICK a \in Nat, g \in Nat :
             /\ SettleKeeps(r)
             /\ \/ NothingToSettle(r, a, g)
                \/ FundingAdjusted(r, a, g)
                \/ SettleFailed(r)
      BY <1>1, SettleFundingCases
    <2>2. /\ pc[r] = "open" /\ job[r] = "none" /\ logged[r] = {}
          /\ info'[r] = info[r] /\ job'[r] = "none"
      BY <1>1, OpeningQuiet DEF SettleFunding, At
    <2>3. CASE NothingToSettle(r, a, g) \/ FundingAdjusted(r, a, g)
      <3>1. logged'[r] = {} /\ info[r].playground \in BOOLEAN
        BY <2>2, <2>3, RequestType
        DEF NothingToSettle, FundingAdjusted, InfoType
      <3>. QED
        BY <2>1, <2>2, <2>3, <3>1
        DEF SettleKeeps, NothingToSettle, FundingAdjusted
    <2>4. CASE SettleFailed(r)
      <3>1. logged'[r] = {"settleFunding"}
        BY <2>2, <2>4 DEF SettleFailed, TypeOK
      <3>. QED
        BY <2>2, <2>4, <3>1 DEF SettleFailed
    <2>. QED
      BY <2>1, <2>3, <2>4
  <1>2. CASE SettleToken(r)
    <2>. DEFINE s == [sess[r] EXCEPT !.settled = TRUE]
    <2>1. /\ pc[r] = "settleToken" /\ job[r] = "none" /\ logged[r] = {}
          /\ info'[r] = info[r] /\ job'[r] = "none"
      BY <1>2, OpeningQuiet DEF SettleToken, At
    <2>2. pc'[r] = "closed" /\ sess'[r] = s
      BY <1>2, GoToOwn DEF SettleToken
    <2>3. logged'[r] = {} \/ logged'[r] = {"settleToken"}
      BY <1>2, <2>1 DEF SettleToken, TypeOK
    <2>4. /\ s.settled /\ s.fundingSettled = sess[r].fundingSettled
          /\ s.refunded = sess[r].refunded
          /\ s.src = sess[r].src /\ s.eff = sess[r].eff
          /\ s.preConsumed = sess[r].preConsumed
          /\ s.tokenConsumed = sess[r].tokenConsumed
          /\ s.consumed = sess[r].consumed
          /\ s.subPreConsumed = sess[r].subPreConsumed
      BY RequestType DEF Session
    <2>. HIDE DEF s
    <2>. QED
      BY <2>1, <2>2, <2>3, <2>4
  <1>. QED
    BY <1>1, <1>2

LEMMA RefundInv ==
    ASSUME TypeOK, NEW r \in Requests, RequestInv(r), Refund(r)
    PROVE  RequestInv(r)'
  <1>. USE DEF RequestInv, OpeningInv, AdmittedInv, EstimateInv, ClosingInv,
               JobInv
  <1>1. /\ pc[r] \in {"open", "closed"} /\ pc'[r] = "closed"
        /\ info'[r] = info[r] /\ logged'[r] = logged[r]
    BY GoToOwn DEF Refund, At
  <1>2. CASE NeedsRefund(sess[r])
    <2>. DEFINE s == [sess[r] EXCEPT !.refunded = TRUE]
    <2>1. sess'[r] = s /\ job'[r] = "refundFunding"
      BY <1>2, GoToOwn DEF Refund, TypeOK
    <2>2. /\ s.refunded /\ s.settled = sess[r].settled
          /\ s.fundingSettled = sess[r].fundingSettled
          /\ s.src = sess[r].src /\ s.eff = sess[r].eff
          /\ s.preConsumed = sess[r].preConsumed
          /\ s.tokenConsumed = sess[r].tokenConsumed
          /\ s.consumed = sess[r].consumed
          /\ s.giftConsumed = sess[r].giftConsumed
          /\ s.subPreConsumed = sess[r].subPreConsumed
      BY RequestType DEF Session
    <2>3. sess[r].tokenConsumed \in Nat /\ sess[r].eff \in Nat
      BY RequestType
    <2>4. ~ sess[r].refunded /\ job[r] = "none" /\ sess[r].tokenConsumed > 0
      BY <1>1, <1>2, <2>3 DEF NeedsRefund
    <2>. HIDE DEF s
    <2>. QED
      BY <1>1, <1>2, <2>1, <2>2, <2>3, <2>4 DEF NeedsRefund
  <1>3. CASE ~ NeedsRefund(sess[r])
    <2>1. sess'[r] = sess[r] /\ job'[r] = job[r]
      BY <1>3, GoToOwn DEF Refund
    <2>2. sess[r].tokenConsumed \in Nat
      BY RequestType
    <2>. QED
      BY <1>1, <1>3, <2>1, <2>2 DEF NeedsRefund
  <1>. QED
    BY <1>2, <1>3

LEMMA RefundJobInv ==
    ASSUME TypeOK, NEW r \in Requests, RequestInv(r), RefundJob(r)
    PROVE  RequestInv(r)'
  <1>1. /\ pc'[r] = pc[r] /\ sess'[r] = sess[r] /\ info'[r] = info[r]
        /\ job[r] \in {"refundFunding", "refundToken"}
    BY DEF RefundJob, RefundFunding, RefundToken
  <1>2. sess[r].refunded /\ pc[r] = "closed"
    BY <1>1, OpeningQuiet
    DEF RequestInv, JobInv, OpeningInv, TypeOK, HandlerSteps, NoSession
  <1>3. CASE RefundFunding(r)
    <2>1. job[r] = "refundFunding"
      BY <1>3 DEF RefundFunding
    <2>2. job'[r] = IF HoldsToken(sess[r], info[r]) THEN "refundToken" ELSE "done"
      BY <1>3 DEF RefundFunding, TypeOK
    <2>3. \/ logged'[r] = logged[r]
          \/ logged'[r] = logged[r] \cup {"refundFunding"}
      BY <1>3 DEF RefundFunding, TypeOK
    <2>. QED
      BY <1>1, <1>2, <2>1, <2>2, <2>3
      DEF RequestInv, OpeningInv, AdmittedInv, EstimateInv, ClosingInv, JobInv
  <1>4. CASE RefundToken(r)
    <2>1. job[r] = "refundToken" /\ job'[r] = "done"
      BY <1>4 DEF RefundToken, TypeOK
    <2>2. \/ logged'[r] = logged[r]
          \/ logged'[r] = logged[r] \cup {"refundToken"}
      BY <1>4 DEF RefundToken, TypeOK
    <2>. QED
      BY <1>1, <1>2, <2>1, <2>2
      DEF RequestInv, OpeningInv, AdmittedInv, EstimateInv, ClosingInv, JobInv
  <1>. QED
    BY <1>3, <1>4 DEF RefundJob

LEMMA RequestStepInv ==
    ASSUME TypeOK, SessionInv, NEW r \in Requests, RequestStep(r)
    PROVE  SessionInv'
  <1>1. RequestInv(r)'
    BY AuthenticateInv, CheckInv, TokenInv, TakeWalletInv, TakeSubscriptionInv,
       SettleInv, RefundInv, RefundJobInv
    DEF SessionInv, RequestInv, RequestStep, PreConsume
  <1>2. \A q \in Requests \ {r} : RequestInv(q)'
    BY RequestStepOwn, SameInv DEF SessionInv, RequestInv
  <1>. QED
    BY <1>1, <1>2 DEF SessionInv, RequestInv

(* Steps that leave every request alone. *)
LEMMA QuietStepInv ==
    ASSUME SessionInv, UNCHANGED requestVars
    PROVE  SessionInv'
  <1>1. \A q \in Requests : Same(q)
    BY DEF Same, requestVars
  <1>. QED
    BY <1>1, SameInv DEF SessionInv, RequestInv

(* At every step of a handler, what its session has taken from the wallet, *)
(* the gift balance, the subscription and the token is what preConsume,    *)
(* Settle and Refund of billing_session.go left in it.                     *)
THEOREM SessionInvariant == Spec => []SessionInv
  <1>1. Init => SessionInv
    BY DEF Init, SessionInv, OpeningInv, AdmittedInv, EstimateInv, ClosingInv,
           JobInv, NoSession
  <1>2. TypeOK /\ SessionInv /\ [Next]_vars => SessionInv'
    <2>1. CASE UNCHANGED vars
      BY <2>1, QuietStepInv DEF vars
    <2>2. CASE \E r \in Requests : RequestStep(r)
      BY <2>2, RequestStepInv
    <2>3. CASE (\E n \in Amounts : TopUp(n) \/ GrantUserGiftQuota(n)) \/ Crash
      BY <2>3, QuietStepInv DEF TopUp, GrantUserGiftQuota, Crash
    <2>. QED
      BY <2>1, <2>2, <2>3 DEF Next, RequestStep
  <1>. QED
    BY <1>1, <1>2, TypeCorrect, PTL DEF Spec

(* A refund never follows a settlement, and what the goroutine returns is  *)
(* what the pre-consumption of the same request took, gift part included.  *)
THEOREM RefundSplit == Spec => []RefundSplitFits
  <1>1. TypeOK /\ SessionInv => RefundSplitFits
    <2>. SUFFICES ASSUME TypeOK, SessionInv, NEW r \in Requests,
                         job[r] = "refundFunding"
                  PROVE  /\ ~ sess[r].settled /\ ~ sess[r].fundingSettled
                         /\ sess[r].giftConsumed <= sess[r].consumed
                         /\ sess[r].src = "wallet" =>
                               sess[r].consumed = sess[r].preConsumed
      BY DEF RefundSplitFits
    <2>1. RequestInv(r)
      BY DEF SessionInv, RequestInv
    <2>2. pc[r] = "closed"
      BY <2>1, OpeningQuiet
      DEF RequestInv, JobInv, OpeningInv, TypeOK, HandlerSteps, NoSession
    <2>. QED
      BY <2>1, <2>2 DEF RequestInv, AdmittedInv, ClosingInv, JobInv
  <1>. QED
    BY <1>1, TypeCorrect, SessionInvariant, PTL

(* An asynchronous task is admitted only with its whole estimate held: the *)
(* trust bypass never applies to it, whatever TrustQuota and the quotas.   *)
THEOREM ForcedHolds == Spec => []ForcedHoldsEstimate
  <1>1. TypeOK /\ SessionInv => ForcedHoldsEstimate
    <2>. SUFFICES ASSUME TypeOK, SessionInv, NEW r \in Requests,
                         pc[r] = "open", info[r].force
                  PROVE  /\ sess[r].preConsumed >= info[r].est
                         /\ sess[r].src = "wallet" =>
                               WalletAccount(r).amount = info[r].est
                         /\ ~ info[r].playground =>
                               TokenAccount(r).amount = sess[r].preConsumed
      BY DEF ForcedHoldsEstimate
    <2>1. RequestInv(r) /\ job[r] = "none"
      BY OpeningQuiet DEF SessionInv, RequestInv
    <2>2. /\ info[r].est \in Nat /\ sess[r].eff \in Nat
          /\ sess[r].tokenConsumed \in Nat /\ sess[r].consumed \in Nat
          /\ sess[r].src \in {"none", "wallet", "subscription"}
      BY RequestType DEF InfoType, Session
    <2>. QED
      BY <2>1, <2>2
      DEF RequestInv, AdmittedInv, EstimateInv, ClosingInv, WalletAccount,
          WalletState, TokenAccount, TokenState, FundingReturned
  <1>. QED
    BY <1>1, TypeCorrect, SessionInvariant, PTL

(* A request that is over without a logged error holds nothing on any      *)
(* balance, whichever of Settle, Refund or neither ended it.               *)
THEOREM NothingHeld == Spec => []NothingLeftHeld
  <1>1. TypeOK /\ SessionInv => NothingLeftHeld
    <2>. SUFFICES ASSUME TypeOK, SessionInv, NEW r \in Requests,
                         Finished(r), logged[r] = {}
                  PROVE  WalletState(r) # "held" /\ TokenState(r) # "held"
      BY DEF NothingLeftHeld
    <2>1. RequestInv(r) /\ pc[r] = "closed" /\ job[r] \in {"none", "done"}
      BY DEF SessionInv, RequestInv, Finished
    <2>2. /\ sess[r].eff \in Nat /\ sess[r].tokenConsumed \in Nat
          /\ sess[r].consumed \in Nat
      BY RequestType
    <2>. QED
      BY <2>1, <2>2
      DEF RequestInv, AdmittedInv, ClosingInv, JobInv, WalletState, TokenState,
          FundingReturned
  <1>. QED
    BY <1>1, TypeCorrect, SessionInvariant, PTL
=============================================================================
