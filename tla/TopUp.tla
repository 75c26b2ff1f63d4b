-------------------------------- MODULE TopUp --------------------------------
(***************************************************************************)
(* Top-up orders: an order is inserted as pending, paid at a payment       *)
(* gateway, and completed by the gateway's notifications, which arrive     *)
(* more than once and race with one another, with notifications that close *)
(* the order, and with administrators who complete it by hand.             *)
(*                                                                         *)
(* A handler is the goroutine of one request.  All but one of them hold    *)
(* the lock of their order (LockOrder, a map of mutexes counted by their   *)
(* users) while they read and write it.  The lock lives in one process:    *)
(* handlers on two nodes do not exclude each other, and the FOR UPDATE of  *)
(* the transactions has no effect (gorm:query_option is not an option of   *)
(* this GORM), so a transaction is a read and, later, a commit.  A         *)
(* notification of U-coin may name an address only, and no order.          *)
(***************************************************************************)
EXTENDS Integers, FiniteSets

CONSTANTS
    MaxOrder,   \* bound: orders of a behaviour, all of one user
    Methods,    \* payment methods in use
    Handlers,   \* goroutines that handle requests
    Nodes,      \* processes of the server
    NodeOf,     \* the node a handler runs on
    MaxFaults   \* bound: failed database calls and crashes

AllMethods == {"epay", "yipay", "stripe", "antom", "creem", "waffo", "ubcoin"}

ASSUME MethodsAssumption == Methods \subseteq AllMethods
ASSUME BoundsAssumption == MaxOrder \in Nat \ {0} /\ MaxFaults \in Nat
ASSUME HandlersAssumption == IsFiniteSet(Handlers) /\ NodeOf \in [Handlers -> Nodes]

VARIABLES
    status,      \* the order's row: its status
    method,      \* and its payment method
    pay,         \* what became of the order at the gateway
    acked,       \* the gateway was told that the payment is taken care of
    credits,     \* times the quota of an order was added to the user
    used,        \* times a payment led to that
    rewards,     \* times the inviter was rewarded for it
    job,         \* handler -> what it does
    orderLocks,  \* node, order -> the mutex the map holds for it, 0 if none
    refCount,    \* mutex -> its users
    held,        \* mutex -> it is locked
    faults

orderVars == <<status, method>>
payVars == <<pay, acked>>
moneyVars == <<credits, used, rewards>>
lockVars == <<orderLocks, refCount, held>>
vars == <<orderVars, payVars, moneyVars, job, lockVars, faults>>

Orders == 1..MaxOrder
Mutexes == 1..Cardinality(Handlers)
Events == {"paid", "closed", "manual"}

\* Where a handler is.  "paidOrder" is the order the payment was made for.
Locked == {"look", "save", "add", "tx", "commit", "recheck", "reward", "unlock"}
Waiting == {"acquire", "release"}
Job == [pc : Locked \cup Waiting \cup {"idle", "register"}, order : Orders, paidOrder : Orders,
        event : Events, mutex : 0..Cardinality(Handlers)]

TypeOK ==
    /\ status \in [Orders -> {"none", "pending", "success", "failed", "expired"}]
    /\ method \in [Orders -> AllMethods \cup {"corporate"}]
    /\ pay \in [Orders -> {"none", "open", "paid", "closed"}]
    /\ acked \in [Orders -> BOOLEAN]
    /\ credits \in [Orders -> Nat]
    /\ used \in [Orders -> Nat]
    /\ rewards \in [Orders -> Nat]
    /\ job \in [Handlers -> Job]
    /\ orderLocks \in [Nodes \X Orders -> 0..Cardinality(Handlers)]
    /\ refCount \in [Mutexes -> Nat]
    /\ held \in [Mutexes -> BOOLEAN]
    /\ faults \in 0..MaxFaults

NoJob(h) == [pc |-> "idle", order |-> 1, paidOrder |-> 1, event |-> "paid", mutex |-> 0]

Init ==
    /\ status = [o \in Orders |-> "none"]
    /\ method = [o \in Orders |-> "corporate"]
    /\ pay = [o \in Orders |-> "none"]
    /\ acked = [o \in Orders |-> FALSE]
    /\ credits = [o \in Orders |-> 0]
    /\ used = [o \in Orders |-> 0]
    /\ rewards = [o \in Orders |-> 0]
    /\ job = [h \in Handlers |-> NoJob(h)]
    /\ orderLocks = [l \in Nodes \X Orders |-> 0]
    /\ refCount = [x \in Mutexes |-> 0]
    /\ held = [x \in Mutexes |-> FALSE]
    /\ faults = 0

-----------------------------------------------------------------------------
(* Decisions.                                                              *)

\* Faulty variants of the decisions below; each breaks a property.
ForgottenAtOnce(n) == TRUE
ClosesUnlocked(e, m) == e # "closed"
AckedIfKnown(s) == s # "none"
UnlockIfTaken(ok) == IF ok THEN "unlock" ELSE "idle"
CompletesUnpaid(s) == s \in {"pending", "expired", "success"}

\* UnlockOrder deletes a mutex from the map with its last user.
Forgotten(n) == n = 0

\* A Waffo notification of anything but success is handled without the lock.
TakesLock(e, m) == ~(e = "closed" /\ m = "waffo")

\* After a failed transaction Antom's handler looks whether it was done before.
DoneBefore(s) == s = "success"

\* Every handler defers UnlockOrder.
Deferred(ok) == "unlock"

\* The transactions complete pending orders only.
Completes(s) == s = "pending"

\* Some handlers read the order before or instead of a transaction.
Looks(e, m) == e = "closed" \/ (e = "paid" /\ m \in {"epay", "yipay", "creem"})

\* The first thing a handler that needs no lock, or has it, does.
Work(e, m) == IF Looks(e, m) THEN "look" ELSE "tx"

\* The gateway takes any answer of these two for an acknowledgement.
AlwaysAcks(m) == m \in {"epay", "stripe"}

Step(h, pc) == job' = [job EXCEPT ![h].pc = pc]
Fault == faults < MaxFaults /\ faults' = faults + 1

\* What a handler answers to a notification of payment, before it unlocks.
Reply(h, ok) ==
    LET p == job[h].paidOrder IN
    /\ Step(h, IF TakesLock(job[h].event, method[job[h].order]) THEN Deferred(ok) ELSE "idle")
    /\ acked' = [acked EXCEPT ![p] = @ \/ (job[h].event = "paid" /\ (ok \/ AlwaysAcks(method[p])))]

-----------------------------------------------------------------------------
(* Orders and payments.                                                    *)

NextOrder(o) == status[o] = "none" /\ \A q \in 1..(o - 1) : status[q] # "none"

RequestPay(o, m) ==
    /\ NextOrder(o)
    /\ status' = [status EXCEPT ![o] = "pending"]
    /\ method' = [method EXCEPT ![o] = m]
    /\ UNCHANGED <<payVars, moneyVars, job, lockVars, faults>>

\* The user is given the link, or the address, to pay at.
LinkGiven(o) ==
    /\ status[o] # "none" /\ method[o] # "corporate" /\ pay[o] = "none"
    /\ pay' = [pay EXCEPT ![o] = "open"]
    /\ UNCHANGED <<orderVars, acked, moneyVars, job, lockVars, faults>>

\* Waffo refuses: the row that was inserted is saved with another status.
LinkFails(o) ==
    /\ status[o] # "none" /\ method[o] = "waffo" /\ pay[o] = "none"
    /\ pay' = [pay EXCEPT ![o] = "closed"]
    /\ status' = [status EXCEPT ![o] = "failed"]
    /\ UNCHANGED <<method, acked, moneyVars, job, lockVars, faults>>

\* An administrator books a transfer: one transaction, then the reward.
CreateCorporateTopUp(o) ==
    /\ NextOrder(o)
    /\ status' = [status EXCEPT ![o] = "success"]
    /\ method' = [method EXCEPT ![o] = "corporate"]
    /\ credits' = [credits EXCEPT ![o] = 1]
    /\ \E n \in {0, 1} : rewards' = [rewards EXCEPT ![o] = n]
    /\ UNCHANGED <<payVars, used, job, lockVars, faults>>

\* The gateway: the user pays in the end, or can no longer pay.
Pay(o) ==
    /\ pay[o] = "open"
    /\ \E end \in {"paid"} \cup (IF method[o] \in {"stripe", "antom", "waffo"} THEN {"closed"} ELSE {}) :
           pay' = [pay EXCEPT ![o] = end]
    /\ UNCHANGED <<orderVars, acked, moneyVars, job, lockVars, faults>>

-----------------------------------------------------------------------------
(* A request starts a handler.                                             *)

Start(h, o, p, e) ==
    /\ job[h].pc = "idle"
    /\ job' = [job EXCEPT ![h] = [pc |-> IF TakesLock(e, method[o]) THEN "register" ELSE "look",
                                  order |-> o, paidOrder |-> p, event |-> e, mutex |-> 0]]

\* The order a deposit is for: the user's newest pending order of this method.
ResolveTradeNoByAddress(o) ==
    /\ method[o] = "ubcoin" /\ status[o] = "pending"
    /\ \A q \in Orders : q > o => ~(method[q] = "ubcoin" /\ status[q] = "pending")

\* What a gateway may report of a payment.  Antom's F and every status of Waffo
\* but PAY_SUCCESS close the order, also when the user pays afterwards, and
\* also when they are delivered after the payment.
Reports(p, e) == pay[p] = e \/ (e = "closed" /\ pay[p] # "none" /\ method[p] \in {"antom", "waffo"})

\* A notification, or another delivery of it.  Epay's is answered at once.
Notify(h, p, e) ==
    /\ e # "manual" /\ Reports(p, e)
    /\ \E o \in Orders :
           /\ o = p \/ (method[p] = "ubcoin" /\ ResolveTradeNoByAddress(o))
           /\ Start(h, o, p, e)
    /\ acked' = [acked EXCEPT ![p] = @ \/ (e = "paid" /\ method[p] = "epay")]
    /\ UNCHANGED <<orderVars, pay, moneyVars, lockVars, faults>>

AdminCompleteTopUp(h, o) ==
    /\ status[o] # "none"
    /\ Start(h, o, o, "manual")
    /\ UNCHANGED <<orderVars, payVars, moneyVars, lockVars, faults>>

-----------------------------------------------------------------------------
(* LockOrder and UnlockOrder.  createLock makes the registration and the   *)
(* release of a mutex one step each.                                       *)

LockOf(h) == <<NodeOf[h], job[h].order>>
At(h, pc) == job[h].pc = pc

Unused(x) ==
    /\ \A h \in Handlers : job[h].mutex # x
    /\ \A l \in Nodes \X Orders : orderLocks[l] # x

LockOrder(h) ==
    /\ At(h, "register")
    /\ \E x \in Mutexes :
        /\ IF orderLocks[LockOf(h)] # 0 THEN x = orderLocks[LockOf(h)] /\ UNCHANGED held
           ELSE /\ Unused(x) /\ \A y \in 1..(x - 1) : ~Unused(y)
                /\ held' = [held EXCEPT ![x] = FALSE]
        /\ refCount' = [refCount EXCEPT ![x] = (IF orderLocks[LockOf(h)] = 0 THEN 0 ELSE @) + 1]
        /\ orderLocks' = [orderLocks EXCEPT ![LockOf(h)] = x]
        /\ job' = [job EXCEPT ![h].pc = "acquire", ![h].mutex = x]
    /\ UNCHANGED <<orderVars, payVars, moneyVars, faults>>

Acquire(h) ==
    /\ At(h, "acquire") /\ ~held[job[h].mutex]
    /\ held' = [held EXCEPT ![job[h].mutex] = TRUE]
    /\ Step(h, Work(job[h].event, method[job[h].order]))
    /\ UNCHANGED <<orderVars, payVars, moneyVars, orderLocks, refCount, faults>>

\* UnlockOrder looks the mutex up again.
UnlockOrder(h) ==
    LET x == orderLocks[LockOf(h)] IN
    /\ At(h, "unlock")
    /\ IF x = 0 THEN job' = [job EXCEPT ![h] = NoJob(h)] /\ UNCHANGED held
       ELSE /\ held' = [held EXCEPT ![x] = FALSE]
            /\ job' = [job EXCEPT ![h].pc = "release", ![h].mutex = x]
    /\ UNCHANGED <<orderVars, payVars, moneyVars, orderLocks, refCount, faults>>

Release(h) ==
    LET x == job[h].mutex IN
    /\ At(h, "release")
    /\ refCount' = [refCount EXCEPT ![x] = @ - 1]
    /\ orderLocks' = IF Forgotten(refCount[x] - 1) THEN [orderLocks EXCEPT ![LockOf(h)] = 0]
                     ELSE orderLocks
    /\ job' = [job EXCEPT ![h] = NoJob(h)]
    /\ UNCHANGED <<orderVars, payVars, moneyVars, held, faults>>

-----------------------------------------------------------------------------
(* What handlers do with the order.                                        *)

\* The order is read.  A session that expired is not checked to be pending.
Look(h) ==
    LET o == job[h].order
        goOn == status[o] = "pending" \/ (job[h].event = "closed" /\ method[o] = "stripe")
    IN
    /\ At(h, "look")
    /\ IF goOn
       THEN Step(h, IF method[o] = "creem" THEN "tx" ELSE "save") /\ UNCHANGED acked
       ELSE Reply(h, TRUE)
    /\ UNCHANGED <<orderVars, pay, moneyVars, lockVars, faults>>

\* The row that was read is saved with its new status.
Save(h) ==
    LET o == job[h].order
        new == IF job[h].event = "paid" THEN "success"
               ELSE IF method[o] = "waffo" THEN "failed" ELSE "expired"
    IN
    /\ At(h, "save")
    /\ status' = [status EXCEPT ![o] = new]
    /\ IF job[h].event = "paid" THEN Step(h, "add") /\ UNCHANGED acked ELSE Reply(h, TRUE)
    /\ UNCHANGED <<method, pay, moneyVars, lockVars, faults>>

Credit(h) ==
    /\ credits' = [credits EXCEPT ![job[h].order] = @ + 1]
    /\ used' = [used EXCEPT ![job[h].paidOrder] = @ + (IF job[h].event = "paid" THEN 1 ELSE 0)]
    /\ UNCHANGED rewards
    /\ Step(h, "reward")

\* Epay and Yipay add the quota after the order was saved.
IncreaseUserQuota(h) ==
    /\ At(h, "add")
    /\ Credit(h)
    /\ UNCHANGED <<orderVars, payVars, lockVars, faults>>

TxFails(h) ==
    IF method[job[h].order] = "antom" /\ job[h].event = "paid"
    THEN Step(h, "recheck") /\ UNCHANGED acked
    ELSE Reply(h, FALSE)

\* Some transactions return at once when the order was completed before.
TxRead(h) ==
    LET o == job[h].order
        idempotent == job[h].event = "manual" \/ method[o] \in {"waffo", "ubcoin"}
    IN
    /\ At(h, "tx")
    /\ \/ Completes(status[o]) /\ Step(h, "commit") /\ UNCHANGED acked
       \/ ~Completes(status[o]) /\ status[o] = "success" /\ idempotent /\ Reply(h, TRUE)
       \/ ~Completes(status[o]) /\ ~(status[o] = "success" /\ idempotent) /\ TxFails(h)
    /\ UNCHANGED <<orderVars, pay, moneyVars, lockVars, faults>>

TxCommit(h) ==
    /\ At(h, "commit")
    /\ status' = [status EXCEPT ![job[h].order] = "success"]
    /\ Credit(h)
    /\ UNCHANGED <<method, payVars, lockVars, faults>>

Recheck(h) ==
    /\ At(h, "recheck")
    /\ Reply(h, DoneBefore(status[job[h].order]))
    /\ UNCHANGED <<orderVars, pay, moneyVars, lockVars, faults>>

\* The inviter's reward: none is due to most users, and its errors are logged.
ApplyAffiliateTopupReward(h) ==
    /\ At(h, "reward")
    /\ \E n \in {0, 1} : rewards' = [rewards EXCEPT ![job[h].order] = @ + n]
    /\ Reply(h, TRUE)
    /\ UNCHANGED <<orderVars, pay, credits, used, lockVars, faults>>

\* A database call fails and changes nothing.
DbFails(h) ==
    /\ job[h].pc \in {"look", "save", "add", "tx", "commit", "recheck"}
    /\ Fault
    /\ IF job[h].pc \in {"tx", "commit"} THEN TxFails(h) ELSE Reply(h, FALSE)
    /\ UNCHANGED <<orderVars, pay, moneyVars, lockVars>>

\* A node stops: its handlers are gone, and so are its locks.
Crash(n) ==
    /\ Fault
    /\ job' = [h \in Handlers |-> IF NodeOf[h] = n THEN NoJob(h) ELSE job[h]]
    /\ orderLocks' = [l \in Nodes \X Orders |-> IF l[1] = n THEN 0 ELSE orderLocks[l]]
    /\ UNCHANGED <<orderVars, payVars, moneyVars, refCount, held>>

-----------------------------------------------------------------------------
Handle(h) ==
    \/ LockOrder(h) \/ UnlockOrder(h) \/ Release(h)
    \/ Look(h) \/ Save(h) \/ IncreaseUserQuota(h)
    \/ TxRead(h) \/ TxCommit(h) \/ Recheck(h) \/ ApplyAffiliateTopupReward(h)

Next ==
    \/ \E o \in Orders :
           \/ \E m \in Methods : RequestPay(o, m)
           \/ LinkGiven(o) \/ LinkFails(o) \/ CreateCorporateTopUp(o) \/ Pay(o)
    \/ \E h \in Handlers :
           \/ \E o \in Orders : AdminCompleteTopUp(h, o) \/ \E e \in Events : Notify(h, o, e)
           \/ Acquire(h) \/ Handle(h) \/ DbFails(h)
    \/ \E n \in Nodes : Crash(n)

Spec == Init /\ [][Next]_vars

\* Handlers run, a mutex is not withheld from a waiter for ever, and a gateway
\* repeats a payment's notification until it is acknowledged; the server has a
\* goroutine for it, however many other requests there are.
Redeliver(p) == ~acked[p] /\ \E h \in Handlers : Notify(h, p, "paid")
FairSpec ==
    /\ Spec
    /\ \A h \in Handlers : WF_vars(Handle(h)) /\ SF_vars(Acquire(h))
    /\ \A p \in Orders : SF_vars(Redeliver(p))

-----------------------------------------------------------------------------
(* Properties.                                                             *)

\* However many notifications and administrators complete an order, its quota
\* is added to the user once.
CreditedOnce == \A o \in Orders : credits[o] <= 1

\* These gateways are answered after the order was completed.
Retried == {"antom", "creem", "waffo"}

\* A payment that a gateway will not report again has been credited.
AckedIsCredited ==
    \A o \in Orders : acked[o] /\ method[o] \in Retried => credits[o] > 0

\* An order whose quota was added is and stays a success, so that it can be
\* invoiced: nothing that reads it pending closes it afterwards.  A session of
\* Stripe that expires and an unlocked notification of Waffo do close it.
CreditedIsSuccess ==
    \A o \in Orders : credits[o] > 0 /\ method[o] \notin {"stripe", "waffo"}
        => status[o] = "success"

\* What was paid is credited in the end, whatever fails and crashes meanwhile,
\* or its order was closed by a report of Antom or Waffo that the payment did
\* not succeed: then the payment is refused for ever.
PaymentEnds ==
    \A o \in Orders : (pay[o] = "paid" /\ method[o] \in Retried)
        ~> (credits[o] > 0 \/ (status[o] \in {"failed", "expired"} /\ method[o] # "creem"))

\* The comment at model/topup.go:772: the callback of U-coin is idempotent.
DepositCreditedOnce == \A p \in Orders : used[p] <= 1
=============================================================================
