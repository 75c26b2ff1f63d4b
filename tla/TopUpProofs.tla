----------------------------- MODULE TopUpProofs -----------------------------
(***************************************************************************)
(* Proofs about TopUp, for every set of orders, methods, handlers and      *)
(* nodes.  The types, and that what was acknowledged has been credited,    *)
(* need no lock; that an order is credited once does, and holds if all     *)
(* handlers are in one process.                                            *)
(***************************************************************************)
EXTENDS TopUp, FiniteSetTheorems, TLAPS

-----------------------------------------------------------------------------
(* The inductive invariant, in parts.                                      *)

Users(x) == {h \in Handlers : job[h].mutex = x}
Guarded(h) == TakesLock(job[h].event, method[job[h].order])
UsesLock(h) == job[h].pc \in Waiting \cup Locked /\ Guarded(h)
Holds(h) == job[h].pc \in Locked /\ Guarded(h)
Known(o) == status[o] # "none"

\* What was paid and what is handled are orders that were inserted.
KnownInv ==
    /\ \A o \in Orders : pay[o] # "none" => Known(o)
    /\ \A h \in Handlers : ~At(h, "idle") =>
           /\ Known(job[h].order) /\ Known(job[h].paidOrder)
           /\ job[h].event = "paid" /\ method[job[h].paidOrder] # "ubcoin"
                  => job[h].order = job[h].paidOrder

\* The steps that a handler without the lock, and one that looks, can be at.
Place(h) ==
    /\ job[h].pc \notin {"idle", "look", "save"} => Guarded(h)
    /\ At(h, "save") => method[job[h].order] # "creem"
    /\ job[h].pc \in {"look", "save"} /\ job[h].event = "paid"
           => method[job[h].order] \in {"epay", "yipay", "creem"}
PlaceInv == \A h \in Handlers : Place(h)

\* A mutex belongs to the order it is registered for, its users are counted,
\* and one of them at most is past it.
Registered(h) ==
    IF UsesLock(h) THEN job[h].mutex # 0 /\ job[h].mutex = orderLocks[LockOf(h)]
    ELSE job[h].mutex = 0
MutexInv == \A h \in Handlers : Registered(h)
CountInv ==
    \A l \in Nodes \X Orders : orderLocks[l] # 0 =>
        /\ Users(orderLocks[l]) # {}
        /\ refCount[orderLocks[l]] = Cardinality(Users(orderLocks[l]))
OwnInv ==
    \A l, k \in Nodes \X Orders : orderLocks[l] = orderLocks[k] /\ orderLocks[l] # 0 => l = k
HeldInv ==
    \A h \in Handlers : Holds(h) =>
        /\ held[job[h].mutex]
        /\ \A g \in Handlers : Holds(g) /\ job[g].mutex = job[h].mutex => g = h

LockInv == MutexInv /\ CountInv /\ OwnInv /\ HeldInv

OrderInv == TypeOK /\ KnownInv /\ PlaceInv /\ LockInv

\* A gateway that repeats its notifications: its orders are only ever closed
\* without payment, and a success was credited in the same transaction.
CreditedWhenDone ==
    /\ \A o \in Orders : method[o] \in Retried /\ status[o] = "success" => credits[o] > 0
    /\ \A o \in Orders : method[o] = "creem" => status[o] \in {"none", "pending", "success"}
    /\ \A h \in Handlers : At(h, "reward") => credits[job[h].order] > 0
    /\ \A o \in Orders : status[o] = "none" => method[o] = "corporate" /\ ~acked[o]
AckInv == AckedIsCredited /\ CreditedWhenDone

\* With all handlers on one node: whoever is about to credit an order, or to
\* close it after it was read pending, finds it as it was read.
OneProcess == \A g, h \in Handlers : NodeOf[g] = NodeOf[h]
Exempt == {"stripe", "waffo"}
About(h) ==
    \/ job[h].pc \in {"commit", "add"}
    \/ At(h, "save") /\ (job[h].event = "paid" \/ method[job[h].order] \notin Exempt)
CreditInv ==
    /\ CreditedOnce
    /\ CreditedIsSuccess
    /\ \A o \in Orders : status[o] \in {"none", "pending"} => credits[o] = 0
    /\ \A h \in Handlers : About(h) => credits[job[h].order] = 0
    /\ \A h \in Handlers : At(h, "add") =>
           /\ status[job[h].order] \notin {"none", "pending"}
           /\ method[job[h].order] \notin Exempt => status[job[h].order] = "success"

-----------------------------------------------------------------------------
(* Facts about types.                                                      *)

LEMMA CardHandlers == Cardinality(Handlers) \in Nat
  BY HandlersAssumption, FS_CardinalityType

Places == Locked \cup Waiting \cup {"idle", "register"}

LEMMA Fields ==
    ASSUME TypeOK, NEW h \in Handlers
    PROVE  /\ job[h] \in Job
           /\ job[h].pc \in Places /\ job[h].event \in Events
           /\ job[h].order \in Orders /\ job[h].paidOrder \in Orders
           /\ job[h].mutex \in 0..Cardinality(Handlers)
           /\ job[h].mutex # 0 => job[h].mutex \in Mutexes
           /\ NodeOf[h] \in Nodes /\ LockOf(h) \in Nodes \X Orders
  BY HandlersAssumption, CardHandlers DEF TypeOK, Job, Places, LockOf, Mutexes

LEMMA NoJobType == ASSUME NEW h \in Handlers PROVE NoJob(h) \in Job
  BY BoundsAssumption, CardHandlers DEF NoJob, Job, Orders, Events

LEMMA StepType ==
    ASSUME TypeOK, NEW h \in Handlers, NEW q \in Places, Step(h, q)
    PROVE  job' \in [Handlers -> Job]
  <1>1. [job[h] EXCEPT !.pc = q] \in Job
    BY Fields DEF Job, Places
  <1>. QED
    BY <1>1 DEF Step, TypeOK

\* What a step of the kind that only moves h does to the other fields.
LEMMA StepFields ==
    ASSUME TypeOK, NEW h \in Handlers, NEW q, Step(h, q)
    PROVE  /\ job'[h].pc = q
           /\ \A g \in Handlers : g # h => job'[g] = job[g]
           /\ \A g \in Handlers :
                 /\ job'[g].order = job[g].order /\ job'[g].paidOrder = job[g].paidOrder
                 /\ job'[g].event = job[g].event /\ job'[g].mutex = job[g].mutex
  <1>1. \A g \in Handlers : job[g] \in Job
    BY Fields
  <1>2. \A g \in Handlers : job'[g] = IF g = h THEN [job[g] EXCEPT !.pc = q] ELSE job[g]
    BY DEF Step, TypeOK
  <1>. QED
    BY <1>1, <1>2 DEF Job

-----------------------------------------------------------------------------
(* The steps a handler makes between Acquire and UnlockOrder, or without   *)
(* the lock, move it and leave the locks alone.                            *)

WorkStep(h) ==
    \/ Look(h) \/ Save(h) \/ IncreaseUserQuota(h) \/ TxRead(h) \/ TxCommit(h)
    \/ Recheck(h) \/ ApplyAffiliateTopupReward(h) \/ DbFails(h)

WorksTo(h, q) ==
    /\ Step(h, q)
    /\ UNCHANGED <<pay, method, lockVars>>
    /\ job[h].pc \in Locked \ {"unlock"}
    /\ IF Guarded(h) THEN q \in Locked ELSE q \in {"idle", "save"}
    /\ q = "save" => At(h, "look") /\ method[job[h].order] # "creem"
    /\ q # "look"

LEMMA ReplyTo ==
    ASSUME NEW h \in Handlers, NEW ok \in BOOLEAN, Reply(h, ok)
    PROVE  Step(h, IF Guarded(h) THEN "unlock" ELSE "idle")
  BY DEF Reply, Deferred, Guarded

LEMMA WorkTo ==
    ASSUME OrderInv, NEW h \in Handlers, WorkStep(h)
    PROVE  \E q \in Places : WorksTo(h, q)
  <1>. DEFINE out == IF Guarded(h) THEN "unlock" ELSE "idle"
  <1>1. ASSUME NEW ok \in BOOLEAN, Reply(h, ok), UNCHANGED <<pay, method, lockVars>>,
               job[h].pc \in Locked \ {"unlock"}
        PROVE  WorksTo(h, out)
    BY <1>1, ReplyTo DEF WorksTo, Locked
  <1>2. out \in Places
    BY DEF Places, Locked
  <1>3. job[h].pc \notin {"idle", "look", "save"} => Guarded(h)
    BY DEF OrderInv, PlaceInv, Place
  <1>4. ~Guarded(h) => job[h].event = "closed" /\ method[job[h].order] = "waffo"
    BY DEF Guarded, TakesLock
  <1>5. TRUE \in BOOLEAN /\ FALSE \in BOOLEAN /\ DoneBefore(status[job[h].order]) \in BOOLEAN
    BY DEF DoneBefore
  <1>6. CASE Look(h)
    <2>1. CASE Reply(h, TRUE)
      BY <1>1, <1>2, <1>5, <1>6, <2>1 DEF Look, At, Locked, orderVars
    <2>2. CASE Step(h, IF method[job[h].order] = "creem" THEN "tx" ELSE "save")
      <3>1. CASE method[job[h].order] = "creem"
        BY <1>4, <1>6, <2>2, <3>1 DEF Look, At, Locked, Places, WorksTo, orderVars
      <3>2. CASE method[job[h].order] # "creem"
        BY <1>4, <1>6, <2>2, <3>2 DEF Look, At, Locked, Places, WorksTo, orderVars
      <3>. QED
        BY <3>1, <3>2
    <2>. QED
      BY <1>6, <2>1, <2>2 DEF Look
  <1>7. CASE Save(h)
    <2>1. CASE job[h].event = "paid"
      BY <1>4, <1>7, <2>1 DEF Save, At, Locked, Places, WorksTo
    <2>2. CASE job[h].event # "paid"
      BY <1>1, <1>2, <1>5, <1>7, <2>2 DEF Save, At, Locked
    <2>. QED
      BY <2>1, <2>2
  <1>8. CASE IncreaseUserQuota(h)
    BY <1>3, <1>8 DEF IncreaseUserQuota, Credit, At, Locked, Places, WorksTo, orderVars, payVars
  <1>9. ASSUME TxFails(h), job[h].pc \in {"tx", "commit"}, UNCHANGED <<pay, method, lockVars>>
        PROVE  \E q \in Places : WorksTo(h, q)
    <2>1. CASE Reply(h, FALSE)
      BY <1>1, <1>2, <1>5, <1>9, <2>1 DEF Locked
    <2>2. CASE Step(h, "recheck")
      BY <1>3, <1>9, <2>2 DEF Locked, Places, WorksTo
    <2>. QED
      BY <1>9, <2>1, <2>2 DEF TxFails
  <1>10. CASE TxRead(h)
    <2>1. CASE Step(h, "commit")
      BY <1>3, <1>10, <2>1 DEF TxRead, At, Locked, Places, WorksTo, orderVars
    <2>2. CASE Reply(h, TRUE)
      BY <1>1, <1>2, <1>5, <1>10, <2>2 DEF TxRead, At, Locked, orderVars
    <2>3. CASE TxFails(h)
      BY <1>9, <1>10, <2>3 DEF TxRead, At, orderVars
    <2>. QED
      BY <1>10, <2>1, <2>2, <2>3 DEF TxRead
  <1>11. CASE TxCommit(h)
    BY <1>3, <1>11 DEF TxCommit, Credit, At, Locked, Places, WorksTo, payVars
  <1>12. CASE Recheck(h)
    BY <1>1, <1>2, <1>5, <1>12 DEF Recheck, At, Locked, orderVars
  <1>13. CASE ApplyAffiliateTopupReward(h)
    BY <1>1, <1>2, <1>5, <1>13 DEF ApplyAffiliateTopupReward, At, Locked, orderVars
  <1>14. CASE DbFails(h)
    <2>1. CASE job[h].pc \in {"tx", "commit"}
      BY <1>9, <1>14, <2>1 DEF DbFails, orderVars
    <2>2. CASE job[h].pc \notin {"tx", "commit"}
      BY <1>1, <1>2, <1>5, <1>14, <2>2 DEF DbFails, Locked, orderVars
    <2>. QED
      BY <2>1, <2>2
  <1>. QED
    BY <1>6, <1>7, <1>8, <1>10, <1>11, <1>12, <1>13, <1>14 DEF WorkStep

\* Steps that leave every handler's use of a lock alone.
LEMMA LocksFrame ==
    ASSUME LockInv, UNCHANGED lockVars,
           \A g \in Handlers : /\ (UsesLock(g)' <=> UsesLock(g)) /\ (Holds(g)' <=> Holds(g))
                               /\ job'[g].mutex = job[g].mutex
                               /\ UsesLock(g) => LockOf(g)' = LockOf(g)
    PROVE  LockInv'
  <1>1. \A x : Users(x)' = Users(x)
    BY DEF Users
  <1>2. UNCHANGED <<orderLocks, refCount, held>>
    BY DEF lockVars
  <1>3. MutexInv'
    BY <1>2 DEF LockInv, MutexInv, Registered
  <1>4. CountInv' /\ OwnInv'
    BY <1>1, <1>2 DEF LockInv, CountInv, OwnInv
  <1>5. HeldInv'
    BY <1>2 DEF LockInv, HeldInv
  <1>. QED
    BY <1>3, <1>4, <1>5 DEF LockInv

LEMMA WorkLocks ==
    ASSUME OrderInv, NEW h \in Handlers, NEW q \in Places, WorksTo(h, q)
    PROVE  LockInv' /\ PlaceInv'
  <1>1. /\ job'[h].pc = q
        /\ \A g \in Handlers : g # h => job'[g] = job[g]
        /\ \A g \in Handlers :
              /\ job'[g].order = job[g].order /\ job'[g].paidOrder = job[g].paidOrder
              /\ job'[g].event = job[g].event /\ job'[g].mutex = job[g].mutex
    BY StepFields DEF OrderInv, WorksTo
  <1>2. UNCHANGED method
    BY DEF WorksTo
  <1>3. \A g \in Handlers : Guarded(g)' = Guarded(g) /\ LockOf(g)' = LockOf(g)
    BY <1>1, <1>2 DEF Guarded, LockOf
  <1>4. \A g \in Handlers : (UsesLock(g)' <=> UsesLock(g)) /\ (Holds(g)' <=> Holds(g))
    BY <1>1, <1>3 DEF UsesLock, Holds, WorksTo, Locked, Waiting
  <1>5. LockInv'
    BY <1>1, <1>3, <1>4, LocksFrame DEF OrderInv, WorksTo
  <1>6. PlaceInv'
    <2>1. \A g \in Handlers : g # h => job'[g].pc = job[g].pc
      BY <1>1
    <2>2. q \notin {"idle", "look", "save"} => Guarded(h)
      BY DEF WorksTo
    <2>3. q = "save" => At(h, "look") /\ method[job[h].order] # "creem"
      BY DEF WorksTo
    <2>4. q # "look"
      BY DEF WorksTo
    <2>. QED
      BY <1>1, <1>2, <1>3, <2>1, <2>2, <2>3, <2>4 DEF OrderInv, PlaceInv, Place, At
  <1>. QED
    BY <1>5, <1>6

-----------------------------------------------------------------------------
(* An order that was inserted stays so, with its method.                   *)

HandlerStep(h) ==
    \/ \E o \in Orders : AdminCompleteTopUp(h, o) \/ \E e \in Events : Notify(h, o, e)
    \/ LockOrder(h) \/ Acquire(h) \/ UnlockOrder(h) \/ Release(h)
    \/ WorkStep(h)

OrderStep(o) ==
    \/ \E m \in Methods : RequestPay(o, m)
    \/ LinkGiven(o) \/ LinkFails(o) \/ CreateCorporateTopUp(o) \/ Pay(o)

LEMMA NextCases ==
    ASSUME Next
    PROVE  \/ \E o \in Orders : OrderStep(o)
           \/ \E h \in Handlers : HandlerStep(h)
           \/ \E n \in Nodes : Crash(n)
  BY DEF Next, Handle, HandlerStep, OrderStep, WorkStep

LEMMA StaysKnown ==
    ASSUME TypeOK, KnownInv, [Next]_vars
    PROVE  \A o \in Orders : Known(o) => Known(o)' /\ method'[o] = method[o]
  <1>. SUFFICES ASSUME NEW o \in Orders, Known(o)
                PROVE  Known(o)' /\ method'[o] = method[o]
    OBVIOUS
  <1>1. CASE UNCHANGED vars
    BY <1>1 DEF vars, orderVars, Known
  <1>2. CASE \E q \in Orders : OrderStep(q)
    <2>. PICK q \in Orders : OrderStep(q)
      BY <1>2
    <2>1. CASE \E m \in Methods : RequestPay(q, m)
      BY <2>1 DEF RequestPay, NextOrder, Known, TypeOK
    <2>2. CASE LinkGiven(q) \/ Pay(q)
      BY <2>2 DEF LinkGiven, Pay, Known, orderVars
    <2>3. CASE LinkFails(q)
      BY <2>3 DEF LinkFails, Known, TypeOK
    <2>4. CASE CreateCorporateTopUp(q)
      BY <2>4 DEF CreateCorporateTopUp, NextOrder, Known, TypeOK
    <2>. QED
      BY <2>1, <2>2, <2>3, <2>4 DEF OrderStep
  <1>3. CASE \E h \in Handlers : HandlerStep(h)
    <2>. PICK h \in Handlers : HandlerStep(h)
      BY <1>3
    <2>1. CASE \E q \in Orders : AdminCompleteTopUp(h, q) \/ \E e \in Events : Notify(h, q, e)
      BY <2>1 DEF AdminCompleteTopUp, Notify, Known, orderVars
    <2>2. CASE LockOrder(h) \/ Acquire(h) \/ UnlockOrder(h) \/ Release(h)
      BY <2>2 DEF LockOrder, Acquire, UnlockOrder, Release, Known, orderVars
    <2>3. CASE Save(h)
      BY <2>3 DEF Save, Known, TypeOK
    <2>4. CASE TxCommit(h)
      BY <2>4 DEF TxCommit, Known, TypeOK
    <2>5. CASE WorkStep(h) /\ ~Save(h) /\ ~TxCommit(h)
      BY <2>5 DEF WorkStep, Look, IncreaseUserQuota, TxRead, Recheck,
                  ApplyAffiliateTopupReward, DbFails, Known, orderVars
    <2>. QED
      BY <2>1, <2>2, <2>3, <2>4, <2>5 DEF HandlerStep
  <1>4. CASE \E n \in Nodes : Crash(n)
    BY <1>4 DEF Crash, Known, orderVars
  <1>. QED
    BY <1>1, <1>2, <1>3, <1>4, NextCases

\* What is reported has been inserted.
LEMMA NotifyKnown ==
    ASSUME TypeOK, KnownInv, NEW h \in Handlers, NEW p \in Orders, NEW e \in Events,
           NEW o \in Orders, Reports(p, e), e # "manual",
           o = p \/ (method[p] = "ubcoin" /\ ResolveTradeNoByAddress(o))
    PROVE  Known(p) /\ Known(o)
  BY DEF KnownInv, Known, Events, Reports, ResolveTradeNoByAddress

\* What any step does to the job of a handler: it is idle afterwards, or has
\* the fields it had, or has just started.
Started(h, o, p, e) ==
    /\ Start(h, o, p, e)
    /\ Known(o) /\ Known(p)
    /\ e = "paid" /\ method[p] # "ubcoin" => o = p
    /\ e = "paid" => pay[p] = "paid"
    /\ UNCHANGED <<orderVars, pay, moneyVars, lockVars>>

SameJob(g) ==
    /\ ~At(g, "idle")
    /\ job'[g].order = job[g].order /\ job'[g].paidOrder = job[g].paidOrder
    /\ job'[g].event = job[g].event

LEMMA StartTo ==
    ASSUME OrderInv, NEW h \in Handlers,
           \E o \in Orders : AdminCompleteTopUp(h, o) \/ \E e \in Events : Notify(h, o, e)
    PROVE  \E o, p \in Orders, e \in Events : Started(h, o, p, e)
  <1>1. ASSUME NEW o \in Orders, AdminCompleteTopUp(h, o)
        PROVE  Started(h, o, o, "manual")
    BY <1>1 DEF AdminCompleteTopUp, Started, Known, orderVars, payVars
  <1>2. ASSUME NEW p \in Orders, NEW e \in Events, Notify(h, p, e)
        PROVE  \E o \in Orders : Started(h, o, p, e)
    <2>1. PICK o \in Orders : /\ o = p \/ (method[p] = "ubcoin" /\ ResolveTradeNoByAddress(o))
                              /\ Start(h, o, p, e)
      BY <1>2 DEF Notify
    <2>2. Known(o) /\ Known(p)
      BY <1>2, <2>1, NotifyKnown DEF Notify, OrderInv
    <2>. QED
      BY <1>2, <2>1, <2>2 DEF Notify, Reports, Started
  <1>3. "manual" \in Events
    BY DEF Events
  <1>. QED
    BY <1>1, <1>2, <1>3

LEMMA StartFields ==
    ASSUME TypeOK, NEW h \in Handlers, NEW o \in Orders, NEW p \in Orders, NEW e \in Events,
           Start(h, o, p, e)
    PROVE  /\ job'[h].pc = IF TakesLock(e, method[o]) THEN "register" ELSE "look"
           /\ job'[h].order = o /\ job'[h].paidOrder = p
           /\ job'[h].event = e /\ job'[h].mutex = 0
           /\ \A g \in Handlers : g # h => job'[g] = job[g]
           /\ At(h, "idle")
  BY DEF Start, TypeOK, At

\* LockOrder, Acquire, UnlockOrder and Release leave the other fields of the
\* job, or end it.
LEMMA LockFields ==
    ASSUME TypeOK, NEW h \in Handlers,
           LockOrder(h) \/ Acquire(h) \/ UnlockOrder(h) \/ Release(h)
    PROVE  /\ ~At(h, "idle")
           /\ \A g \in Handlers : g # h => job'[g] = job[g]
           /\ \/ job'[h].pc = "idle"
              \/ /\ job'[h].order = job[h].order /\ job'[h].paidOrder = job[h].paidOrder
                 /\ job'[h].event = job[h].event
  <1>1. job[h] \in Job
    BY Fields
  <1>2. CASE LockOrder(h)
    <2>1. PICK x \in Mutexes : job' = [job EXCEPT ![h].pc = "acquire", ![h].mutex = x]
      BY <1>2 DEF LockOrder
    <2>2. job'[h] = [job[h] EXCEPT !.pc = "acquire", !.mutex = x]
      BY <2>1 DEF TypeOK
    <2>. QED
      BY <1>1, <1>2, <2>1, <2>2 DEF LockOrder, At, TypeOK, Job
  <1>3. CASE Acquire(h)
    <2>1. \A g \in Handlers : g # h => job'[g] = job[g]
      BY <1>3 DEF Acquire, Step, TypeOK
    <2>2. job'[h] = [job[h] EXCEPT !.pc = Work(job[h].event, method[job[h].order])]
      BY <1>3 DEF Acquire, Step, TypeOK
    <2>. QED
      BY <1>1, <1>3, <2>1, <2>2 DEF Acquire, At, Job
  <1>4. CASE UnlockOrder(h)
    <2>1. CASE job' = [job EXCEPT ![h] = NoJob(h)]
      BY <1>4, <2>1 DEF UnlockOrder, At, NoJob, TypeOK
    <2>2. CASE job' = [job EXCEPT ![h].pc = "release", ![h].mutex = orderLocks[LockOf(h)]]
      <3>1. job'[h] = [job[h] EXCEPT !.pc = "release", !.mutex = orderLocks[LockOf(h)]]
        BY <2>2 DEF TypeOK
      <3>. QED
        BY <1>1, <1>4, <2>2, <3>1 DEF UnlockOrder, At, TypeOK, Job
    <2>. QED
      BY <1>4, <2>1, <2>2 DEF UnlockOrder
  <1>5. CASE Release(h)
    BY <1>5 DEF Release, At, NoJob, TypeOK
  <1>. QED
    BY <1>2, <1>3, <1>4, <1>5

LEMMA JobStep ==
    ASSUME OrderInv, [Next]_vars, NEW g \in Handlers
    PROVE  \/ job'[g].pc = "idle"
           \/ SameJob(g)
           \/ \E o, p \in Orders, e \in Events : Started(g, o, p, e)
  <1>1. CASE job'[g] = job[g]
    BY <1>1 DEF SameJob, At
  <1>2. ASSUME NEW h \in Handlers, HandlerStep(h)
        PROVE  \/ job'[g].pc = "idle"
               \/ SameJob(g)
               \/ \E o, p \in Orders, e \in Events : Started(g, o, p, e)
    <2>1. CASE \E o \in Orders : AdminCompleteTopUp(h, o) \/ \E e \in Events : Notify(h, o, e)
      <3>1. PICK o \in Orders, p \in Orders, e \in Events : Started(h, o, p, e)
        BY <2>1, StartTo
      <3>2. g # h => job'[g] = job[g]
        BY <3>1, StartFields DEF Started, OrderInv
      <3>. QED
        BY <1>1, <3>1, <3>2
    <2>2. CASE LockOrder(h) \/ Acquire(h) \/ UnlockOrder(h) \/ Release(h)
      <3>1. g # h => job'[g] = job[g]
        BY <2>2, LockFields DEF OrderInv
      <3>2. g = h => job'[g].pc = "idle" \/ SameJob(g)
        BY <2>2, LockFields DEF OrderInv, SameJob
      <3>. QED
        BY <1>1, <3>1, <3>2
    <2>3. CASE WorkStep(h)
      <3>1. PICK q \in Places : WorksTo(h, q)
        BY <2>3, WorkTo
      <3>2. g # h => job'[g] = job[g]
        BY <3>1, StepFields DEF WorksTo, OrderInv
      <3>3. ~At(h, "idle")
        BY <3>1 DEF WorksTo, At, Locked
      <3>4. g = h => SameJob(g)
        BY <3>1, <3>3, StepFields DEF WorksTo, OrderInv, SameJob
      <3>. QED
        BY <1>1, <3>2, <3>4
    <2>. QED
      BY <1>2, <2>1, <2>2, <2>3 DEF HandlerStep
  <1>3. CASE UNCHANGED job
    BY <1>1, <1>3
  <1>4. CASE \E n \in Nodes : Crash(n)
    <2>1. job'[g] = NoJob(g) \/ job'[g] = job[g]
      BY <1>4 DEF Crash
    <2>. QED
      BY <1>1, <2>1 DEF NoJob
  <1>. QED
    BY <1>2, <1>3, <1>4, NextCases
       DEF vars, OrderStep, RequestPay, LinkGiven, LinkFails, CreateCorporateTopUp, Pay

LEMMA KnownStep ==
    ASSUME OrderInv, [Next]_vars
    PROVE  KnownInv'
  <1>1. \A o \in Orders : Known(o) => Known(o)' /\ method'[o] = method[o]
    BY StaysKnown DEF OrderInv
  <1>2. \A o \in Orders : pay'[o] # "none" => Known(o)'
    <2>1. \A o \in Orders : pay[o] # "none" => Known(o)
      BY DEF OrderInv, KnownInv
    <2>2. CASE \E q \in Orders : LinkGiven(q)
      BY <1>1, <2>1, <2>2 DEF LinkGiven, Known, OrderInv, TypeOK
    <2>3. CASE \E q \in Orders : LinkFails(q)
      BY <1>1, <2>1, <2>3 DEF LinkFails, Known, OrderInv, TypeOK
    <2>4. CASE \E q \in Orders : Pay(q)
      <3>. PICK q \in Orders : Pay(q)
        BY <2>4
      <3>1. \A o \in Orders : o # q => pay'[o] = pay[o]
        BY DEF Pay, OrderInv, TypeOK
      <3>2. pay[q] # "none"
        BY DEF Pay
      <3>. QED
        BY <1>1, <2>1, <3>1, <3>2
    <2>5. CASE UNCHANGED pay
      BY <1>1, <2>1, <2>5
    <2>6. ASSUME NEW h \in Handlers, WorkStep(h)
          PROVE  UNCHANGED pay
      BY <2>6, WorkTo DEF WorksTo
    <2>. QED
      BY <2>2, <2>3, <2>4, <2>5, <2>6, NextCases
         DEF vars, payVars, OrderStep, HandlerStep, RequestPay, CreateCorporateTopUp,
             AdminCompleteTopUp, Notify, LockOrder, Acquire, UnlockOrder, Release, Crash
  <1>3. ASSUME NEW g \in Handlers, ~At(g, "idle")'
        PROVE  /\ Known(job[g].order)' /\ Known(job[g].paidOrder)'
               /\ job'[g].event = "paid" /\ method'[job'[g].paidOrder] # "ubcoin"
                     => job'[g].order = job'[g].paidOrder
    <2>1. CASE SameJob(g)
      <3>1. Known(job[g].order) /\ Known(job[g].paidOrder)
        BY <2>1 DEF OrderInv, KnownInv, SameJob
      <3>2. job[g].order \in Orders /\ job[g].paidOrder \in Orders
        BY Fields DEF OrderInv
      <3>. QED
        BY <1>1, <2>1, <3>1, <3>2 DEF OrderInv, KnownInv, SameJob, Known
    <2>2. CASE \E o, p \in Orders, e \in Events : Started(g, o, p, e)
      <3>1. PICK o \in Orders, p \in Orders, e \in Events : Started(g, o, p, e)
        BY <2>2
      <3>2. job'[g].order = o /\ job'[g].paidOrder = p /\ job'[g].event = e
        <4>1. TypeOK /\ Start(g, o, p, e)
          BY <3>1 DEF Started, OrderInv
        <4>. QED
          BY <4>1, StartFields
      <3>. QED
        BY <3>1, <3>2 DEF Started, Known, orderVars
    <2>. QED
      BY <1>3, <2>1, <2>2, JobStep DEF At
  <1>. QED
    BY <1>2, <1>3 DEF KnownInv

-----------------------------------------------------------------------------
(* The other steps keep the locks.                                         *)

LEMMA GuardStays ==
    ASSUME OrderInv, [Next]_vars, NEW g \in Handlers, SameJob(g)
    PROVE  /\ Guarded(g)' = Guarded(g) /\ LockOf(g)' = LockOf(g)
           /\ method'[job'[g].order] = method[job[g].order]
  <1>1. job[g].order \in Orders /\ Known(job[g].order)
    BY Fields DEF OrderInv, KnownInv, SameJob
  <1>2. method'[job[g].order] = method[job[g].order]
    BY <1>1, StaysKnown DEF OrderInv
  <1>. QED
    BY <1>2 DEF SameJob, Guarded, LockOf

\* A handler that the step does not move.
LEMMA StaysPlaced ==
    ASSUME OrderInv, [Next]_vars, NEW g \in Handlers, job'[g] = job[g]
    PROVE  /\ Place(g)'
           /\ (UsesLock(g)' <=> UsesLock(g)) /\ (Holds(g)' <=> Holds(g))
           /\ UsesLock(g) => LockOf(g)' = LockOf(g)
  <1>1. CASE At(g, "idle")
    BY <1>1 DEF Place, UsesLock, Holds, At, Locked, Waiting
  <1>2. CASE ~At(g, "idle")
    <2>1. Guarded(g)' = Guarded(g) /\ LockOf(g)' = LockOf(g)
          /\ method'[job'[g].order] = method[job[g].order]
      BY <1>2, GuardStays DEF SameJob
    <2>2. Place(g)
      BY DEF OrderInv, PlaceInv
    <2>. QED
      BY <2>1, <2>2 DEF Place, UsesLock, Holds, At
  <1>. QED
    BY <1>1, <1>2

LEMMA QuietLocks ==
    ASSUME OrderInv, [Next]_vars, UNCHANGED <<job, lockVars>>
    PROVE  LockInv' /\ PlaceInv'
  <1>1. \A g \in Handlers : /\ Place(g)'
                            /\ (UsesLock(g)' <=> UsesLock(g)) /\ (Holds(g)' <=> Holds(g))
                            /\ UsesLock(g) => LockOf(g)' = LockOf(g)
    BY StaysPlaced
  <1>. QED
    BY <1>1, LocksFrame DEF OrderInv, PlaceInv

LEMMA StartLocks ==
    ASSUME OrderInv, [Next]_vars, NEW h \in Handlers,
           NEW o \in Orders, NEW p \in Orders, NEW e \in Events, Started(h, o, p, e)
    PROVE  LockInv' /\ PlaceInv'
  <1>1. TypeOK /\ Start(h, o, p, e) /\ UNCHANGED <<method, lockVars>>
    BY DEF OrderInv, Started, orderVars
  <1>2. /\ job'[h].pc = IF TakesLock(e, method[o]) THEN "register" ELSE "look"
        /\ job'[h].order = o /\ job'[h].event = e /\ job'[h].mutex = 0
        /\ \A g \in Handlers : g # h => job'[g] = job[g]
        /\ At(h, "idle")
    BY <1>1, StartFields
  <1>3. \A g \in Handlers : g # h => /\ Place(g)'
                                     /\ (UsesLock(g)' <=> UsesLock(g)) /\ (Holds(g)' <=> Holds(g))
                                     /\ UsesLock(g) => LockOf(g)' = LockOf(g)
    BY <1>2, StaysPlaced
  <1>4. ~UsesLock(h) /\ ~Holds(h) /\ job[h].mutex = 0
    BY <1>2 DEF UsesLock, Holds, At, Locked, Waiting, OrderInv, LockInv, MutexInv, Registered
  <1>5. Guarded(h)' = TakesLock(e, method[o])
    BY <1>1, <1>2 DEF Guarded
  <1>6. ~UsesLock(h)' /\ ~Holds(h)'
    BY <1>2, <1>5 DEF UsesLock, Holds, Locked, Waiting
  <1>7. LockInv'
    BY <1>1, <1>2, <1>3, <1>4, <1>6, LocksFrame DEF OrderInv
  <1>8. Place(h)'
    <2>1. ~TakesLock(e, method[o]) => e # "paid"
      BY DEF TakesLock
    <2>. QED
      BY <1>1, <1>2, <1>5, <2>1 DEF Place, At
  <1>. QED
    BY <1>3, <1>7, <1>8 DEF PlaceInv

LEMMA UsersFinite ==
    ASSUME NEW x
    PROVE  IsFiniteSet(Users(x)) /\ Cardinality(Users(x)) \in Nat
  <1>1. Users(x) \in SUBSET Handlers
    BY DEF Users
  <1>2. IsFiniteSet(Users(x))
    BY <1>1, FS_Subset, HandlersAssumption
  <1>. QED
    BY <1>2, FS_CardinalityType

\* Who uses a mutex is registered with it.
LEMMA UserFacts ==
    ASSUME OrderInv, NEW g \in Handlers, job[g].mutex # 0
    PROVE  UsesLock(g) /\ orderLocks[LockOf(g)] = job[g].mutex /\ ~At(g, "idle")
  BY DEF OrderInv, LockInv, MutexInv, Registered, UsesLock, At, Locked, Waiting

LEMMA RegisterLocks ==
    ASSUME OrderInv, [Next]_vars, NEW h \in Handlers, LockOrder(h)
    PROVE  LockInv' /\ PlaceInv'
  <1>. DEFINE l == LockOf(h)
  <1>1. l \in Nodes \X Orders /\ job[h] \in Job
    BY Fields DEF OrderInv
  <1>2. PICK x \in Mutexes :
          /\ IF orderLocks[l] # 0 THEN x = orderLocks[l] /\ UNCHANGED held
             ELSE Unused(x) /\ held' = [held EXCEPT ![x] = FALSE]
          /\ refCount' = [refCount EXCEPT ![x] = (IF orderLocks[l] = 0 THEN 0 ELSE @) + 1]
          /\ orderLocks' = [orderLocks EXCEPT ![l] = x]
          /\ job' = [job EXCEPT ![h].pc = "acquire", ![h].mutex = x]
    BY DEF LockOrder
  <1>3. UNCHANGED method /\ At(h, "register")
    BY DEF LockOrder, orderVars
  <1>4. Guarded(h) /\ ~UsesLock(h) /\ ~Holds(h) /\ job[h].mutex = 0
    BY <1>3 DEF OrderInv, PlaceInv, Place, LockInv, MutexInv, Registered, UsesLock, Holds,
                At, Locked, Waiting
  <1>5. /\ \A g \in Handlers : g # h => job'[g] = job[g]
        /\ job'[h].pc = "acquire" /\ job'[h].mutex = x
        /\ job'[h].order = job[h].order /\ job'[h].event = job[h].event
    <2>1. job'[h] = [job[h] EXCEPT !.pc = "acquire", !.mutex = x]
      BY <1>2 DEF OrderInv, TypeOK
    <2>2. \A g \in Handlers : g # h => job'[g] = job[g]
      BY <1>2 DEF OrderInv, TypeOK
    <2>. QED
      BY <1>1, <2>1, <2>2 DEF Job
  <1>6. \A g \in Handlers : g # h => /\ Place(g)'
                                     /\ (UsesLock(g)' <=> UsesLock(g)) /\ (Holds(g)' <=> Holds(g))
                                     /\ UsesLock(g) => LockOf(g)' = LockOf(g)
    BY <1>5, StaysPlaced
  <1>7. Guarded(h)' /\ UsesLock(h)' /\ ~Holds(h)' /\ LockOf(h)' = l /\ Place(h)'
    BY <1>3, <1>4, <1>5 DEF Guarded, UsesLock, Holds, LockOf, Place, At, Locked, Waiting
  <1>8. x # 0
    BY CardHandlers DEF Mutexes
  <1>9. orderLocks[l] = 0 => /\ \A g \in Handlers : job[g].mutex # x
                             /\ \A k \in Nodes \X Orders : orderLocks[k] # x
    BY <1>2 DEF Unused
  <1>10. \A k \in Nodes \X Orders : orderLocks'[k] = IF k = l THEN x ELSE orderLocks[k]
    BY <1>2 DEF OrderInv, TypeOK
  <1>11. MutexInv'
    <2>1. Registered(h)'
      BY <1>1, <1>5, <1>7, <1>8, <1>10 DEF Registered
    <2>2. ASSUME NEW g \in Handlers, g # h
          PROVE  Registered(g)'
      <3>1. Registered(g) /\ job'[g] = job[g]
        BY <1>5, <2>2 DEF OrderInv, LockInv, MutexInv
      <3>2. CASE UsesLock(g)
        <4>1. LockOf(g)' = LockOf(g) /\ LockOf(g) \in Nodes \X Orders
          BY <1>6, <2>2, <3>2, Fields DEF OrderInv
        <4>2. orderLocks'[LockOf(g)] = job[g].mutex
          BY <1>2, <1>10, <3>1, <3>2, <4>1 DEF Registered
        <4>. QED
          BY <1>6, <2>2, <3>1, <3>2, <4>1, <4>2 DEF Registered
      <3>3. CASE ~UsesLock(g)
        BY <1>6, <2>2, <3>1, <3>3 DEF Registered
      <3>. QED
        BY <3>2, <3>3
    <2>. QED
      BY <2>1, <2>2 DEF MutexInv
  <1>12. \A y \in Mutexes : y # x => Users(y)' = Users(y)
    BY <1>4, <1>5, CardHandlers DEF Users, Mutexes
  <1>13. Users(x)' = Users(x) \cup {h} /\ h \notin Users(x)
    BY <1>4, <1>5, <1>8 DEF Users
  <1>14. refCount'[x] = Cardinality(Users(x)')
    <2>1. Cardinality(Users(x)') = Cardinality(Users(x)) + 1
      BY <1>13, UsersFinite, FS_AddElement
    <2>2. refCount'[x] = (IF orderLocks[l] = 0 THEN 0 ELSE refCount[x]) + 1
      BY <1>2 DEF OrderInv, TypeOK
    <2>3. orderLocks[l] = 0 => Cardinality(Users(x)) = 0
      <3>1. orderLocks[l] = 0 => Users(x) = {}
        BY <1>9 DEF Users
      <3>. QED
        BY <3>1, FS_EmptySet
    <2>4. orderLocks[l] # 0 => refCount[x] = Cardinality(Users(x))
      BY <1>1, <1>2 DEF OrderInv, LockInv, CountInv
    <2>. QED
      BY <2>1, <2>2, <2>3, <2>4
  <1>15. \A k \in Nodes \X Orders : k # l => orderLocks[k] # x
    BY <1>1, <1>2, <1>8, <1>9 DEF OrderInv, LockInv, OwnInv
  <1>16. CountInv'
    <2>1. ASSUME NEW k \in Nodes \X Orders, k # l, orderLocks[k] # 0
          PROVE  /\ Users(orderLocks[k])' = Users(orderLocks[k])
                 /\ refCount'[orderLocks[k]] = refCount[orderLocks[k]]
      <3>1. orderLocks[k] \in Mutexes /\ orderLocks[k] # x
        BY <1>15, <2>1, CardHandlers DEF OrderInv, TypeOK, Mutexes
      <3>. QED
        BY <1>2, <1>10, <1>12, <2>1, <3>1 DEF Users, OrderInv, TypeOK
    <2>2. Users(x)' # {}
      BY <1>13
    <2>3. ASSUME NEW k \in Nodes \X Orders, orderLocks'[k] # 0
          PROVE  /\ Users(orderLocks[k])' # {}
                 /\ refCount'[orderLocks'[k]] = Cardinality(Users(orderLocks[k])')
      <3>1. CASE k = l
        BY <1>10, <1>14, <2>2, <3>1 DEF Users
      <3>2. CASE k # l
        <4>1. orderLocks'[k] = orderLocks[k]
          BY <1>10, <3>2
        <4>2. /\ Users(orderLocks[k]) # {}
              /\ refCount[orderLocks[k]] = Cardinality(Users(orderLocks[k]))
          BY <2>3, <4>1 DEF OrderInv, LockInv, CountInv
        <4>. QED
          BY <2>1, <2>3, <3>2, <4>1, <4>2 DEF Users
      <3>. QED
        BY <3>1, <3>2
    <2>. QED
      BY <2>3 DEF CountInv
  <1>17. OwnInv'
    BY <1>10, <1>15 DEF OrderInv, LockInv, OwnInv
  <1>18. HeldInv'
    <2>1. ASSUME NEW g \in Handlers, Holds(g)'
          PROVE  g # h /\ Holds(g) /\ job'[g].mutex = job[g].mutex /\ held'[job[g].mutex]
      <3>1. g # h /\ Holds(g) /\ job'[g] = job[g]
        BY <1>5, <1>6, <1>7, <2>1
      <3>2. held[job[g].mutex] /\ job[g].mutex \in Mutexes
        BY <3>1, Fields DEF OrderInv, LockInv, HeldInv, MutexInv, Registered, UsesLock, Holds
      <3>3. CASE orderLocks[l] # 0
        BY <1>2, <3>1, <3>2, <3>3
      <3>4. CASE orderLocks[l] = 0
        BY <1>2, <1>9, <3>1, <3>2, <3>4 DEF OrderInv, TypeOK
      <3>. QED
        BY <3>1, <3>3, <3>4
    <2>. QED
      BY <2>1 DEF OrderInv, LockInv, HeldInv
  <1>. QED
    BY <1>6, <1>7, <1>11, <1>16, <1>17, <1>18 DEF LockInv, PlaceInv

LEMMA AcquireLocks ==
    ASSUME OrderInv, [Next]_vars, NEW h \in Handlers, Acquire(h)
    PROVE  LockInv' /\ PlaceInv'
  <1>. DEFINE q == Work(job[h].event, method[job[h].order])
  <1>1. /\ At(h, "acquire") /\ ~held[job[h].mutex] /\ Step(h, q)
        /\ held' = [held EXCEPT ![job[h].mutex] = TRUE]
        /\ UNCHANGED <<method, orderLocks, refCount>>
    BY DEF Acquire, orderVars
  <1>2. q \in {"look", "tx"}
    BY DEF Work
  <1>3. /\ job'[h].pc = q
        /\ \A g \in Handlers : g # h => job'[g] = job[g]
        /\ \A g \in Handlers :
              /\ job'[g].order = job[g].order /\ job'[g].paidOrder = job[g].paidOrder
              /\ job'[g].event = job[g].event /\ job'[g].mutex = job[g].mutex
    BY <1>1, StepFields DEF OrderInv
  <1>4. \A g \in Handlers : Guarded(g)' = Guarded(g) /\ LockOf(g)' = LockOf(g)
    BY <1>1, <1>3 DEF Guarded, LockOf
  <1>5. Guarded(h) /\ UsesLock(h) /\ ~Holds(h) /\ job[h].mutex # 0
    BY <1>1 DEF OrderInv, PlaceInv, Place, LockInv, MutexInv, Registered, UsesLock, Holds,
                At, Locked, Waiting
  <1>6. /\ \A g \in Handlers : UsesLock(g)' <=> UsesLock(g)
        /\ \A g \in Handlers : g # h => (Holds(g)' <=> Holds(g))
        /\ Holds(h)'
    BY <1>2, <1>3, <1>4, <1>5 DEF UsesLock, Holds, Locked, Waiting
  <1>7. MutexInv'
    BY <1>1, <1>3, <1>4, <1>6 DEF OrderInv, LockInv, MutexInv, Registered
  <1>8. CountInv' /\ OwnInv'
    <2>1. \A x : Users(x)' = Users(x)
      BY <1>3 DEF Users
    <2>. QED
      BY <1>1, <2>1 DEF OrderInv, LockInv, CountInv, OwnInv
  <1>9. HeldInv'
    <2>1. job[h].mutex \in Mutexes
      BY <1>5, Fields DEF OrderInv
    <2>2. \A g \in Handlers : Holds(g) => held[job[g].mutex] /\ job[g].mutex # job[h].mutex
      BY <1>1 DEF OrderInv, LockInv, HeldInv
    <2>3. \A g \in Handlers : Holds(g) => held'[job[g].mutex]
      BY <1>1, <2>2
    <2>4. held'[job[h].mutex]
      BY <1>1, <2>1 DEF OrderInv, TypeOK
    <2>. QED
      BY <1>3, <1>6, <2>2, <2>3, <2>4 DEF OrderInv, LockInv, HeldInv
  <1>10. PlaceInv'
    <2>1. job[h].event = "paid" /\ q = "look" => method[job[h].order] \in {"epay", "yipay", "creem"}
      BY DEF Work, Looks
    <2>. QED
      BY <1>1, <1>2, <1>3, <1>4, <1>5, <2>1 DEF OrderInv, PlaceInv, Place, At
  <1>. QED
    BY <1>7, <1>8, <1>9, <1>10 DEF LockInv

LEMMA UnlockLocks ==
    ASSUME OrderInv, [Next]_vars, NEW h \in Handlers, UnlockOrder(h)
    PROVE  LockInv' /\ PlaceInv'
  <1>. DEFINE x == job[h].mutex
  <1>1. At(h, "unlock") /\ UNCHANGED <<method, orderLocks, refCount>>
    BY DEF UnlockOrder, orderVars
  <1>2. Guarded(h) /\ UsesLock(h) /\ Holds(h) /\ x # 0 /\ x = orderLocks[LockOf(h)]
    BY <1>1 DEF OrderInv, PlaceInv, Place, LockInv, MutexInv, Registered, UsesLock, Holds,
                At, Locked, Waiting
  <1>3. /\ held' = [held EXCEPT ![x] = FALSE]
        /\ job' = [job EXCEPT ![h].pc = "release", ![h].mutex = x]
    BY <1>2 DEF UnlockOrder
  <1>4. /\ \A g \in Handlers : g # h => job'[g] = job[g]
        /\ job'[h].pc = "release" /\ job'[h].mutex = x
        /\ job'[h].order = job[h].order /\ job'[h].event = job[h].event
    <2>1. job'[h] = [job[h] EXCEPT !.pc = "release", !.mutex = x]
      BY <1>3 DEF OrderInv, TypeOK
    <2>2. \A g \in Handlers : g # h => job'[g] = job[g]
      BY <1>3 DEF OrderInv, TypeOK
    <2>3. job[h] \in Job
      BY Fields DEF OrderInv
    <2>. QED
      BY <2>1, <2>2, <2>3 DEF Job
  <1>5. \A g \in Handlers : Guarded(g)' = Guarded(g) /\ LockOf(g)' = LockOf(g)
                            /\ job'[g].mutex = job[g].mutex
    BY <1>1, <1>4 DEF Guarded, LockOf
  <1>6. /\ \A g \in Handlers : UsesLock(g)' <=> UsesLock(g)
        /\ \A g \in Handlers : g # h => (Holds(g)' <=> Holds(g))
        /\ ~Holds(h)'
    BY <1>2, <1>4, <1>5 DEF UsesLock, Holds, Locked, Waiting
  <1>7. MutexInv'
    BY <1>1, <1>4, <1>5, <1>6 DEF OrderInv, LockInv, MutexInv, Registered
  <1>8. CountInv' /\ OwnInv'
    <2>1. \A y : Users(y)' = Users(y)
      BY <1>5 DEF Users
    <2>. QED
      BY <1>1, <2>1 DEF OrderInv, LockInv, CountInv, OwnInv
  <1>9. HeldInv'
    <2>1. \A g \in Handlers : g # h /\ Holds(g) => job[g].mutex # x /\ held[job[g].mutex]
      BY <1>2 DEF OrderInv, LockInv, HeldInv
    <2>2. \A g \in Handlers : g # h /\ Holds(g) => held'[job[g].mutex]
      BY <1>3, <2>1 DEF OrderInv, TypeOK
    <2>. QED
      BY <1>5, <1>6, <2>2 DEF OrderInv, LockInv, HeldInv
  <1>10. PlaceInv'
    BY <1>1, <1>2, <1>4, <1>5, StaysPlaced DEF OrderInv, PlaceInv, Place, At
  <1>. QED
    BY <1>7, <1>8, <1>9, <1>10 DEF LockInv

LEMMA ReleaseLocks ==
    ASSUME OrderInv, [Next]_vars, NEW h \in Handlers, Release(h)
    PROVE  LockInv' /\ PlaceInv' /\ refCount' \in [Mutexes -> Nat]
  <1>. PICK x, l : x = job[h].mutex /\ l = LockOf(h)
    OBVIOUS
  <1>. DEFINE n == Cardinality(Users(x)')
  <1>1. /\ At(h, "release") /\ UNCHANGED <<method, held>>
        /\ refCount' = [refCount EXCEPT ![x] = @ - 1]
        /\ orderLocks' = IF Forgotten(refCount[x] - 1) THEN [orderLocks EXCEPT ![l] = 0]
                         ELSE orderLocks
        /\ job' = [job EXCEPT ![h] = NoJob(h)]
    BY DEF Release, orderVars
  <1>2. Guarded(h) /\ UsesLock(h) /\ ~Holds(h) /\ x # 0 /\ x = orderLocks[l]
    BY <1>1 DEF OrderInv, PlaceInv, Place, LockInv, MutexInv, Registered, UsesLock, Holds,
                At, Locked, Waiting
  <1>3. l \in Nodes \X Orders /\ x \in Mutexes
    BY <1>2, Fields DEF OrderInv
  <1>4. /\ \A g \in Handlers : g # h => job'[g] = job[g]
        /\ job'[h].pc = "idle" /\ job'[h].mutex = 0
    BY <1>1 DEF NoJob, OrderInv, TypeOK
  <1>5. ~UsesLock(h)' /\ ~Holds(h)' /\ Place(h)'
    BY <1>4 DEF UsesLock, Holds, Place, At, Locked, Waiting
  <1>6. \A g \in Handlers : g # h => /\ Place(g)'
                                     /\ (UsesLock(g)' <=> UsesLock(g)) /\ (Holds(g)' <=> Holds(g))
                                     /\ UsesLock(g) => LockOf(g)' = LockOf(g)
    BY <1>4, StaysPlaced
  <1>7. h \in Users(x) /\ Users(x)' = Users(x) \ {h}
    BY <1>2, <1>4 DEF Users
  <1>8. \A y \in Mutexes : y # x => Users(y)' = Users(y)
    BY <1>4, CardHandlers DEF Users, Mutexes
  <1>9. refCount[x] - 1 = n /\ n \in Nat /\ (n = 0 <=> Users(x)' = {})
    <2>1. refCount[x] = Cardinality(Users(x))
      BY <1>2, <1>3 DEF OrderInv, LockInv, CountInv
    <2>2. n = Cardinality(Users(x)) - 1 /\ IsFiniteSet(Users(x) \ {h})
      BY <1>7, UsersFinite, FS_RemoveElement
    <2>3. n \in Nat
      BY <1>7, <2>2, FS_CardinalityType
    <2>. QED
      BY <1>7, <2>1, <2>2, <2>3, UsersFinite, FS_EmptySet
  <1>10. refCount'[x] = n /\ \A y \in Mutexes : y # x => refCount'[y] = refCount[y]
    BY <1>1, <1>3, <1>9 DEF OrderInv, TypeOK
  <1>11. \A k \in Nodes \X Orders : orderLocks'[k] = IF k = l /\ n = 0 THEN 0 ELSE orderLocks[k]
    BY <1>1, <1>9 DEF Forgotten, OrderInv, TypeOK
  <1>12. MutexInv'
    <2>1. ASSUME NEW g \in Handlers, g # h
          PROVE  Registered(g)'
      <3>1. Registered(g) /\ job'[g] = job[g]
        BY <1>4, <2>1 DEF OrderInv, LockInv, MutexInv
      <3>2. CASE UsesLock(g)
        <4>1. LockOf(g)' = LockOf(g) /\ LockOf(g) \in Nodes \X Orders
          BY <1>6, <2>1, <3>2, Fields DEF OrderInv
        <4>2. LockOf(g) = l => g \in Users(x)'
          BY <1>2, <2>1, <3>1, <3>2 DEF Registered, Users
        <4>3. ~(LockOf(g) = l /\ n = 0)
          BY <1>9, <4>2
        <4>. QED
          BY <1>6, <1>11, <2>1, <3>1, <3>2, <4>1, <4>3 DEF Registered
      <3>3. CASE ~UsesLock(g)
        BY <1>6, <2>1, <3>1, <3>3 DEF Registered
      <3>. QED
        BY <3>2, <3>3
    <2>2. Registered(h)'
      BY <1>4, <1>5 DEF Registered
    <2>. QED
      BY <2>1, <2>2 DEF MutexInv
  <1>13. CountInv'
    <2>1. ASSUME NEW k \in Nodes \X Orders, orderLocks'[k] # 0
          PROVE  /\ Users(orderLocks[k])' # {}
                 /\ refCount'[orderLocks'[k]] = Cardinality(Users(orderLocks[k])')
      <3>1. orderLocks'[k] = orderLocks[k] /\ ~(k = l /\ n = 0)
        BY <1>11, <2>1
      <3>2. CASE k = l
        BY <1>2, <1>9, <1>10, <3>1, <3>2 DEF Users
      <3>3. CASE k # l
        <4>1. orderLocks[k] \in Mutexes /\ orderLocks[k] # x
          BY <1>2, <1>3, <2>1, <3>1, <3>3, CardHandlers
             DEF OrderInv, TypeOK, Mutexes, LockInv, OwnInv
        <4>2. /\ Users(orderLocks[k]) # {}
              /\ refCount[orderLocks[k]] = Cardinality(Users(orderLocks[k]))
          BY <2>1, <3>1 DEF OrderInv, LockInv, CountInv
        <4>3. Users(orderLocks[k])' = Users(orderLocks[k])
          BY <1>8, <3>1, <4>1 DEF Users
        <4>. QED
          BY <1>10, <3>1, <4>1, <4>2, <4>3
      <3>. QED
        BY <3>2, <3>3
    <2>. QED
      BY <2>1 DEF CountInv
  <1>14. OwnInv'
    BY <1>11 DEF OrderInv, LockInv, OwnInv
  <1>15. HeldInv'
    BY <1>1, <1>4, <1>5, <1>6 DEF OrderInv, LockInv, HeldInv
  <1>16. refCount' \in [Mutexes -> Nat]
    BY <1>1, <1>9, <1>10 DEF OrderInv, TypeOK
  <1>. QED
    BY <1>5, <1>6, <1>12, <1>13, <1>14, <1>15, <1>16 DEF LockInv, PlaceInv

LEMMA CrashLocks ==
    ASSUME OrderInv, [Next]_vars, NEW n \in Nodes, Crash(n)
    PROVE  LockInv' /\ PlaceInv'
  <1>1. /\ UNCHANGED <<method, refCount, held>>
        /\ \A g \in Handlers : job'[g] = IF NodeOf[g] = n THEN NoJob(g) ELSE job[g]
        /\ \A l \in Nodes \X Orders : orderLocks'[l] = IF l[1] = n THEN 0 ELSE orderLocks[l]
    BY DEF Crash, orderVars
  <1>2. \A g \in Handlers : NodeOf[g] = n => /\ job'[g].pc = "idle" /\ job'[g].mutex = 0
                                             /\ ~UsesLock(g)' /\ ~Holds(g)' /\ Place(g)'
    BY <1>1 DEF NoJob, UsesLock, Holds, Place, At, Locked, Waiting
  <1>3. \A g \in Handlers : NodeOf[g] # n => /\ job'[g] = job[g] /\ Place(g)'
                                             /\ (UsesLock(g)' <=> UsesLock(g))
                                             /\ (Holds(g)' <=> Holds(g))
                                             /\ UsesLock(g) => LockOf(g)' = LockOf(g)
    BY <1>1, StaysPlaced
  <1>4. \A g \in Handlers : LockOf(g) \in Nodes \X Orders /\ LockOf(g)[1] = NodeOf[g]
    BY Fields DEF OrderInv, LockOf
  <1>5. MutexInv'
    <2>1. ASSUME NEW g \in Handlers
          PROVE  Registered(g)'
      <3>1. CASE NodeOf[g] = n
        BY <1>2, <3>1 DEF Registered
      <3>2. CASE NodeOf[g] # n
        <4>1. Registered(g)
          BY DEF OrderInv, LockInv, MutexInv
        <4>2. UsesLock(g) => orderLocks'[LockOf(g)'] = orderLocks[LockOf(g)]
          BY <1>1, <1>3, <1>4, <3>2
        <4>. QED
          BY <1>3, <3>2, <4>1, <4>2 DEF Registered
      <3>. QED
        BY <3>1, <3>2
    <2>. QED
      BY <2>1 DEF MutexInv
  <1>6. ASSUME NEW l \in Nodes \X Orders, orderLocks'[l] # 0
        PROVE  orderLocks'[l] = orderLocks[l] /\ Users(orderLocks[l])' = Users(orderLocks[l])
    <2>1. orderLocks'[l] = orderLocks[l] /\ l[1] # n
      BY <1>1, <1>6
    <2>2. ASSUME NEW g \in Handlers, job[g].mutex = orderLocks[l]
          PROVE  NodeOf[g] # n
      <3>1. LockOf(g) = l
        BY <1>4, <1>6, <2>1, <2>2, UserFacts DEF OrderInv, LockInv, OwnInv
      <3>. QED
        BY <1>4, <2>1, <3>1
    <2>. QED
      BY <1>2, <1>3, <1>6, <2>1, <2>2 DEF Users
  <1>7. CountInv'
    BY <1>1, <1>6 DEF OrderInv, LockInv, CountInv, Users
  <1>8. OwnInv'
    BY <1>1 DEF OrderInv, LockInv, OwnInv
  <1>9. HeldInv'
    BY <1>1, <1>2, <1>3 DEF OrderInv, LockInv, HeldInv
  <1>. QED
    BY <1>2, <1>3, <1>5, <1>7, <1>8, <1>9 DEF LockInv, PlaceInv

LEMMA LocksStep ==
    ASSUME OrderInv, [Next]_vars
    PROVE  LockInv' /\ PlaceInv'
  <1>1. CASE UNCHANGED <<job, lockVars>>
    BY <1>1, QuietLocks
  <1>2. CASE \E o \in Orders : OrderStep(o)
    BY <1>1, <1>2 DEF OrderStep, RequestPay, LinkGiven, LinkFails, CreateCorporateTopUp, Pay
  <1>3. ASSUME NEW h \in Handlers, HandlerStep(h)
        PROVE  LockInv' /\ PlaceInv'
    <2>1. CASE \E o \in Orders : AdminCompleteTopUp(h, o) \/ \E e \in Events : Notify(h, o, e)
      BY <2>1, StartTo, StartLocks
    <2>2. CASE LockOrder(h) \/ Acquire(h) \/ UnlockOrder(h) \/ Release(h)
      BY <2>2, RegisterLocks, AcquireLocks, UnlockLocks, ReleaseLocks
    <2>3. CASE WorkStep(h)
      BY <2>3, WorkTo, WorkLocks
    <2>. QED
      BY <1>3, <2>1, <2>2, <2>3 DEF HandlerStep
  <1>4. CASE \E n \in Nodes : Crash(n)
    BY <1>4, CrashLocks
  <1>. QED
    BY <1>1, <1>2, <1>3, <1>4, NextCases DEF vars

-----------------------------------------------------------------------------
(* The types are kept.                                                     *)

LEMMA OrderTypes ==
    ASSUME OrderInv, NEW o \in Orders, OrderStep(o)
    PROVE  TypeOK'
  <1>1. CASE \E m \in Methods : RequestPay(o, m)
    BY <1>1, MethodsAssumption DEF RequestPay, OrderInv, TypeOK, payVars, moneyVars, lockVars
  <1>2. CASE LinkGiven(o)
    BY <1>2 DEF LinkGiven, OrderInv, TypeOK, orderVars, moneyVars, lockVars
  <1>3. CASE LinkFails(o)
    BY <1>3 DEF LinkFails, OrderInv, TypeOK, moneyVars, lockVars
  <1>4. CASE CreateCorporateTopUp(o)
    BY <1>4 DEF CreateCorporateTopUp, OrderInv, TypeOK, payVars, lockVars
  <1>5. CASE Pay(o)
    <2>1. PICK end \in {"paid", "closed"} : pay' = [pay EXCEPT ![o] = end]
      BY <1>5 DEF Pay
    <2>. QED
      BY <1>5, <2>1 DEF Pay, OrderInv, TypeOK, orderVars, moneyVars, lockVars
  <1>. QED
    BY <1>1, <1>2, <1>3, <1>4, <1>5 DEF OrderStep

LEMMA StartTypes ==
    ASSUME OrderInv, NEW h \in Handlers,
           \E o \in Orders : AdminCompleteTopUp(h, o) \/ \E e \in Events : Notify(h, o, e)
    PROVE  TypeOK'
  <1>1. PICK o \in Orders, p \in Orders, e \in Events : Started(h, o, p, e)
    BY StartTo
  <1>2. job' \in [Handlers -> Job]
    <2>. DEFINE new == [pc |-> IF TakesLock(e, method[o]) THEN "register" ELSE "look",
                        order |-> o, paidOrder |-> p, event |-> e, mutex |-> 0]
    <2>1. new \in Job
      BY CardHandlers DEF Job, Locked
    <2>2. job' = [job EXCEPT ![h] = new]
      BY <1>1 DEF Started, Start
    <2>. QED
      BY <2>1, <2>2 DEF OrderInv, TypeOK
  <1>3. acked' \in [Orders -> BOOLEAN] /\ UNCHANGED faults
    <2>1. CASE \E q \in Orders : AdminCompleteTopUp(h, q)
      BY <2>1 DEF AdminCompleteTopUp, payVars, OrderInv, TypeOK
    <2>2. CASE \E q \in Orders, d \in Events : Notify(h, q, d)
      BY <2>2 DEF Notify, OrderInv, TypeOK
    <2>. QED
      BY <2>1, <2>2
  <1>. QED
    BY <1>1, <1>2, <1>3 DEF Started, orderVars, moneyVars, lockVars, OrderInv, TypeOK

LEMMA LockTypes ==
    ASSUME OrderInv, [Next]_vars, NEW h \in Handlers,
           LockOrder(h) \/ Acquire(h) \/ UnlockOrder(h) \/ Release(h)
    PROVE  TypeOK'
  <1>1. job[h] \in Job /\ LockOf(h) \in Nodes \X Orders /\ 0 \in 0..Cardinality(Handlers)
    BY Fields, CardHandlers DEF OrderInv
  <1>2. \A x \in Mutexes : x \in 0..Cardinality(Handlers)
    BY CardHandlers DEF Mutexes
  <1>3. CASE LockOrder(h)
    <2>1. PICK x \in Mutexes :
            /\ held' = held \/ held' = [held EXCEPT ![x] = FALSE]
            /\ refCount' = [refCount EXCEPT ![x] = (IF orderLocks[LockOf(h)] = 0 THEN 0 ELSE @) + 1]
            /\ orderLocks' = [orderLocks EXCEPT ![LockOf(h)] = x]
            /\ job' = [job EXCEPT ![h].pc = "acquire", ![h].mutex = x]
      BY <1>3 DEF LockOrder
    <2>2. [job[h] EXCEPT !.pc = "acquire", !.mutex = x] \in Job
      BY <1>1, <1>2 DEF Job, Waiting
    <2>3. job' \in [Handlers -> Job]
      BY <2>1, <2>2 DEF OrderInv, TypeOK
    <2>4. orderLocks' \in [Nodes \X Orders -> 0..Cardinality(Handlers)]
      BY <1>2, <2>1 DEF OrderInv, TypeOK
    <2>5. held' \in [Mutexes -> BOOLEAN]
      BY <2>1 DEF OrderInv, TypeOK
    <2>6. refCount' \in [Mutexes -> Nat]
      <3>. DEFINE n == (IF orderLocks[LockOf(h)] = 0 THEN 0 ELSE refCount[x]) + 1
      <3>1. refCount' = [refCount EXCEPT ![x] = n] /\ n \in Nat
        BY <2>1 DEF OrderInv, TypeOK
      <3>. HIDE DEF n
      <3>. QED
        BY <3>1 DEF OrderInv, TypeOK
    <2>. QED
      BY <1>3, <2>3, <2>4, <2>5, <2>6
         DEF LockOrder, OrderInv, TypeOK, orderVars, payVars, moneyVars
  <1>4. CASE Acquire(h)
    <2>1. job' \in [Handlers -> Job]
      BY <1>4, StepType DEF Acquire, Work, Places, Locked, OrderInv
    <2>2. held' \in [Mutexes -> BOOLEAN]
      BY <1>4 DEF Acquire, OrderInv, TypeOK
    <2>. QED
      BY <1>4, <2>1, <2>2 DEF Acquire, OrderInv, TypeOK, orderVars, payVars, moneyVars
  <1>5. CASE UnlockOrder(h)
    <2>1. CASE orderLocks[LockOf(h)] = 0
      BY <1>5, <2>1, NoJobType
         DEF UnlockOrder, OrderInv, TypeOK, orderVars, payVars, moneyVars
    <2>2. CASE orderLocks[LockOf(h)] # 0
      <3>1. PICK x : x = orderLocks[LockOf(h)]
        OBVIOUS
      <3>2. x \in 0..Cardinality(Handlers)
        BY <1>1, <3>1 DEF OrderInv, TypeOK
      <3>3. /\ held' = [held EXCEPT ![x] = FALSE]
            /\ job' = [job EXCEPT ![h].pc = "release", ![h].mutex = x]
        BY <1>5, <2>2, <3>1 DEF UnlockOrder
      <3>4. [job[h] EXCEPT !.pc = "release", !.mutex = x] \in Job
        BY <1>1, <3>2 DEF Job, Waiting
      <3>5. job' \in [Handlers -> Job]
        BY <3>3, <3>4 DEF OrderInv, TypeOK
      <3>. QED
        BY <1>5, <3>3, <3>5 DEF UnlockOrder, OrderInv, TypeOK, orderVars, payVars, moneyVars
    <2>. QED
      BY <2>1, <2>2
  <1>6. CASE Release(h)
    <2>1. refCount' \in [Mutexes -> Nat]
      BY <1>6, ReleaseLocks
    <2>2. job' \in [Handlers -> Job]
      BY <1>6, NoJobType DEF Release, OrderInv, TypeOK
    <2>3. orderLocks' \in [Nodes \X Orders -> 0..Cardinality(Handlers)]
      BY <1>1, <1>6 DEF Release, OrderInv, TypeOK
    <2>. QED
      BY <1>6, <2>1, <2>2, <2>3 DEF Release, OrderInv, TypeOK, orderVars, payVars, moneyVars
  <1>. QED
    BY <1>3, <1>4, <1>5, <1>6

LEMMA ReplyType ==
    ASSUME OrderInv, NEW h \in Handlers, NEW ok \in BOOLEAN, Reply(h, ok)
    PROVE  acked' \in [Orders -> BOOLEAN]
  <1>1. job[h].paidOrder \in Orders
    BY Fields DEF OrderInv
  <1>2. PICK b \in BOOLEAN : acked' = [acked EXCEPT ![job[h].paidOrder] = @ \/ b]
    BY DEF Reply, AlwaysAcks
  <1>. QED
    BY <1>1, <1>2 DEF OrderInv, TypeOK

LEMMA CreditTypes ==
    ASSUME OrderInv, NEW h \in Handlers, Credit(h)
    PROVE  /\ credits' \in [Orders -> Nat] /\ used' \in [Orders -> Nat]
           /\ rewards' \in [Orders -> Nat]
           /\ credits'[job[h].order] > 0
           /\ \A o \in Orders : credits'[o] >= credits[o]
           /\ \A o \in Orders : o # job[h].order => credits'[o] = credits[o]
           /\ credits'[job[h].order] = credits[job[h].order] + 1
  <1>1. job[h].paidOrder \in Orders /\ job[h].order \in Orders
    BY Fields DEF OrderInv
  <1>2. used' \in [Orders -> Nat]
    BY <1>1 DEF Credit, OrderInv, TypeOK
  <1>3. credits' = [credits EXCEPT ![job[h].order] = @ + 1] /\ credits \in [Orders -> Nat]
    BY DEF Credit, OrderInv, TypeOK
  <1>. QED
    BY <1>1, <1>2, <1>3 DEF Credit, OrderInv, TypeOK

LEMMA WorkTypes ==
    ASSUME OrderInv, NEW h \in Handlers, WorkStep(h)
    PROVE  TypeOK'
  <1>1. PICK q \in Places : WorksTo(h, q)
    BY WorkTo
  <1>2. job' \in [Handlers -> Job] /\ UNCHANGED <<pay, method, lockVars>>
    BY <1>1, StepType DEF WorksTo, OrderInv
  <1>3. TRUE \in BOOLEAN /\ FALSE \in BOOLEAN /\ DoneBefore(status[job[h].order]) \in BOOLEAN
    BY DEF DoneBefore
  <1>4. job[h].order \in Orders
    BY Fields DEF OrderInv
  <1>. SUFFICES /\ status' \in [Orders -> {"none", "pending", "success", "failed", "expired"}]
                /\ acked' \in [Orders -> BOOLEAN]
                /\ credits' \in [Orders -> Nat] /\ used' \in [Orders -> Nat]
                /\ rewards' \in [Orders -> Nat] /\ faults' \in 0..MaxFaults
    BY <1>2 DEF OrderInv, TypeOK, lockVars
  <1>5. CASE Look(h)
    BY <1>3, <1>5, ReplyType DEF Look, OrderInv, TypeOK, orderVars, moneyVars
  <1>6. CASE Save(h)
    BY <1>3, <1>4, <1>6, ReplyType DEF Save, OrderInv, TypeOK, moneyVars
  <1>7. CASE IncreaseUserQuota(h)
    BY <1>7, CreditTypes DEF IncreaseUserQuota, OrderInv, TypeOK, orderVars, payVars
  <1>8. CASE TxRead(h)
    BY <1>3, <1>8, ReplyType DEF TxRead, TxFails, OrderInv, TypeOK, orderVars, moneyVars
  <1>9. CASE TxCommit(h)
    BY <1>4, <1>9, CreditTypes DEF TxCommit, OrderInv, TypeOK, payVars
  <1>10. CASE Recheck(h)
    BY <1>3, <1>10, ReplyType DEF Recheck, OrderInv, TypeOK, orderVars, moneyVars
  <1>11. CASE ApplyAffiliateTopupReward(h)
    <2>1. rewards' \in [Orders -> Nat]
      <3>1. PICK n \in {0, 1} : rewards' = [rewards EXCEPT ![job[h].order] = @ + n]
        BY <1>11 DEF ApplyAffiliateTopupReward
      <3>2. n \in Nat /\ rewards \in [Orders -> Nat]
        BY <3>1 DEF OrderInv, TypeOK
      <3>. QED
        BY <1>4, <3>1, <3>2
    <2>. QED
      BY <1>3, <1>11, <2>1, ReplyType
         DEF ApplyAffiliateTopupReward, OrderInv, TypeOK, orderVars
  <1>12. CASE DbFails(h)
    <2>1. faults' \in 0..MaxFaults
      BY <1>12, BoundsAssumption DEF DbFails, Fault, OrderInv, TypeOK
    <2>. QED
      BY <1>3, <1>12, <2>1, ReplyType DEF DbFails, TxFails, OrderInv, TypeOK, orderVars, moneyVars
  <1>. QED
    BY <1>5, <1>6, <1>7, <1>8, <1>9, <1>10, <1>11, <1>12 DEF WorkStep

LEMMA CrashTypes ==
    ASSUME OrderInv, NEW n \in Nodes, Crash(n)
    PROVE  TypeOK'
  <1>1. job' \in [Handlers -> Job]
    BY NoJobType DEF Crash, OrderInv, TypeOK
  <1>2. orderLocks' \in [Nodes \X Orders -> 0..Cardinality(Handlers)]
    BY CardHandlers DEF Crash, OrderInv, TypeOK
  <1>3. faults' \in 0..MaxFaults
    BY BoundsAssumption DEF Crash, Fault, OrderInv, TypeOK
  <1>. QED
    BY <1>1, <1>2, <1>3 DEF Crash, OrderInv, TypeOK, orderVars, payVars, moneyVars

LEMMA OrderStepKeeps ==
    ASSUME OrderInv, [Next]_vars
    PROVE  OrderInv'
  <1>1. TypeOK'
    <2>1. CASE UNCHANGED vars
      BY <2>1 DEF OrderInv, TypeOK, vars, orderVars, payVars, moneyVars, lockVars
    <2>2. ASSUME NEW h \in Handlers, HandlerStep(h)
          PROVE  TypeOK'
      BY <2>2, StartTypes, LockTypes, WorkTypes DEF HandlerStep
    <2>. QED
      BY <2>1, <2>2, OrderTypes, CrashTypes, NextCases
  <1>. QED
    BY <1>1, KnownStep, LocksStep DEF OrderInv

LEMMA OrderInit == ASSUME Init PROVE OrderInv
  <1>1. TypeOK
    <2>1. job \in [Handlers -> Job]
      BY NoJobType DEF Init
    <2>. QED
      BY <2>1, CardHandlers, BoundsAssumption DEF Init, TypeOK
  <1>2. KnownInv
    BY DEF Init, KnownInv, At, NoJob
  <1>3. \A h \in Handlers : ~UsesLock(h) /\ ~Holds(h) /\ job[h].mutex = 0 /\ Place(h)
    BY DEF Init, NoJob, UsesLock, Holds, Place, At, Locked, Waiting
  <1>4. \A l \in Nodes \X Orders : orderLocks[l] = 0
    BY DEF Init
  <1>. QED
    BY <1>1, <1>2, <1>3, <1>4
       DEF OrderInv, PlaceInv, LockInv, MutexInv, Registered, CountInv, OwnInv, HeldInv

\* Every mutex of the map belongs to one order of one node, is counted by its
\* users, and is held by one of them at most: LockOrder hands a handler the
\* mutex that the others who wait for the order have, or a new one.
THEOREM OrderLocksSound == Spec => []OrderInv
  BY OrderInit, OrderStepKeeps, PTL DEF Spec

\* Every variable keeps to its type.
THEOREM TopUpTypeCorrect == Spec => []TypeOK
  <1>1. OrderInv => TypeOK
    BY DEF OrderInv
  <1>. QED
    BY <1>1, OrderLocksSound, PTL

-----------------------------------------------------------------------------
(* What was acknowledged has been credited.  No lock is needed for it: the *)
(* status and the quota change in one transaction, and nothing takes quota *)
(* of an order back.                                                       *)

\* A reply of a handler acknowledges the order that was paid, if at all.
LEMMA ReplyAcks ==
    ASSUME OrderInv, NEW h \in Handlers, NEW ok \in BOOLEAN, Reply(h, ok)
    PROVE  /\ \A q \in Orders : q # job[h].paidOrder => acked'[q] = acked[q]
           /\ acked'[job[h].paidOrder]
                  => \/ acked[job[h].paidOrder]
                     \/ job[h].event = "paid" /\ (ok \/ AlwaysAcks(method[job[h].paidOrder]))
  BY Fields DEF Reply, OrderInv, TypeOK

LEMMA ReplyQuiet ==
    ASSUME OrderInv, NEW h \in Handlers, NEW ok \in BOOLEAN, Reply(h, ok)
    PROVE  job'[h].pc \in {"unlock", "idle"}
  <1>1. Step(h, IF Guarded(h) THEN "unlock" ELSE "idle")
    BY ReplyTo
  <1>. QED
    BY <1>1, StepFields DEF OrderInv

\* What the work of a handler does to its order and to what was paid.
WorkEffect(h, o, p) ==
    /\ \A q \in Orders : q # o => status'[q] = status[q] /\ credits'[q] = credits[q]
    /\ \A q \in Orders : q # p => acked'[q] = acked[q]
    /\ credits'[o] >= credits[o]
    /\ \/ status'[o] = status[o]
       \/ status'[o] = "success" /\ credits'[o] > 0
       \/ /\ At(h, "save") /\ status'[o] \in {"success", "failed", "expired"}
          /\ status'[o] = "success" => job[h].event = "paid"
    /\ job'[h].pc = "reward" => credits'[o] > 0
    /\ acked'[p] /\ method[p] \in Retried => acked[p] \/ (credits[o] > 0 /\ o = p)

LEMMA WorkEffects ==
    ASSUME OrderInv, AckInv, NEW h \in Handlers, WorkStep(h)
    PROVE  WorkEffect(h, job[h].order, job[h].paidOrder)
  <1>. PICK o, p : o = job[h].order /\ p = job[h].paidOrder
    OBVIOUS
  <1>1. o \in Orders /\ p \in Orders
    BY Fields DEF OrderInv
  <1>2. ~At(h, "idle") /\ Known(o) /\ Known(p)
        /\ (job[h].event = "paid" /\ method[p] # "ubcoin" => o = p)
    BY WorkTo DEF WorksTo, At, Locked, OrderInv, KnownInv
  <1>3. method[o] \in Retried /\ status[o] = "success" => credits[o] > 0
    BY <1>1 DEF AckInv, CreditedWhenDone
  <1>4. credits[o] \in Nat
    BY <1>1 DEF OrderInv, TypeOK
  <1>5. \A m \in Retried : ~AlwaysAcks(m) /\ m # "ubcoin"
    BY DEF Retried, AlwaysAcks
  \* A reply that says it is done is made about an order that was credited.
  <1>6. ASSUME NEW ok \in BOOLEAN, Reply(h, ok), UNCHANGED <<status, credits>>,
               ok /\ job[h].event = "paid" /\ method[o] \in Retried => credits[o] > 0
        PROVE  WorkEffect(h, o, p)
    <2>1. acked'[p] /\ method[p] \in Retried => acked[p] \/ (credits[o] > 0 /\ o = p)
      BY <1>2, <1>5, <1>6, ReplyAcks
    <2>. QED
      BY <1>4, <1>6, <2>1, ReplyAcks, ReplyQuiet DEF WorkEffect
  <1>7. ASSUME NEW q, Step(h, q), q # "reward", UNCHANGED <<status, credits, acked>>
        PROVE  WorkEffect(h, o, p)
    <2>1. job'[h].pc = q
      BY <1>7, StepFields DEF OrderInv
    <2>. QED
      BY <1>4, <1>7, <2>1 DEF WorkEffect
  <1>8. TRUE \in BOOLEAN /\ FALSE \in BOOLEAN
    OBVIOUS
  <1>9. CASE Look(h)
    <2>1. CASE Reply(h, TRUE)
      <3>2. job[h].event = "paid" => method[o] \in {"epay", "yipay", "creem"}
        BY <1>9 DEF Look, At, OrderInv, PlaceInv, Place
      <3>3. method[o] = "creem" /\ status[o] # "pending" => status[o] = "success"
        BY <1>1, <1>2 DEF AckInv, CreditedWhenDone, Known
      <3>4. CASE status[o] = "pending" \/ (job[h].event = "closed" /\ method[o] = "stripe")
        <4>1. UNCHANGED <<acked, status, credits>>
          BY <1>9, <3>4 DEF Look, orderVars, moneyVars
        <4>2. Step(h, "tx") \/ Step(h, "save")
          BY <1>9, <3>4 DEF Look
        <4>. QED
          BY <1>7, <4>1, <4>2
      <3>5. CASE status[o] # "pending"
        BY <1>3, <1>6, <1>9, <2>1, <3>2, <3>3, <3>5, <1>8 DEF Look, orderVars, moneyVars, Retried
      <3>. QED
        BY <3>4, <3>5
    <2>2. CASE ~Reply(h, TRUE)
      BY <1>7, <1>9, <2>2 DEF Look, orderVars, moneyVars
    <2>. QED
      BY <2>1, <2>2
  <1>10. CASE Save(h)
    <2>1. /\ At(h, "save") /\ UNCHANGED credits
          /\ status' = [status EXCEPT ![o] = IF job[h].event = "paid" THEN "success"
                                             ELSE IF method[o] = "waffo" THEN "failed" ELSE "expired"]
      BY <1>10 DEF Save, moneyVars
    <2>2. CASE job[h].event = "paid"
      <3>1. job'[h].pc = "add" /\ UNCHANGED acked
        BY <1>10, <2>2, StepFields DEF Save, OrderInv
      <3>. QED
        BY <1>1, <1>4, <2>1, <2>2, <3>1 DEF WorkEffect, OrderInv, TypeOK
    <2>3. CASE job[h].event # "paid"
      <3>1. Reply(h, TRUE)
        BY <1>10, <2>3 DEF Save
      <3>2. /\ status'[o] \in {"failed", "expired"}
            /\ \A q \in Orders : q # o => status'[q] = status[q]
        BY <1>1, <2>1, <2>3 DEF OrderInv, TypeOK
      <3>3. job'[h].pc # "reward"
        BY <3>1, <1>8, ReplyQuiet
      <3>4. /\ \A q \in Orders : q # p => acked'[q] = acked[q]
            /\ acked'[p] => acked[p]
        BY <2>3, <3>1, <1>8, ReplyAcks
      <3>. QED
        BY <1>4, <2>1, <3>2, <3>3, <3>4 DEF WorkEffect
    <2>. QED
      BY <2>2, <2>3
  <1>11. CASE IncreaseUserQuota(h)
    BY <1>4, <1>11, CreditTypes DEF IncreaseUserQuota, WorkEffect, orderVars, payVars
  <1>12. CASE TxRead(h)
    <2>1. CASE Step(h, "commit") /\ UNCHANGED acked
      BY <1>7, <1>12, <2>1 DEF TxRead, orderVars, moneyVars
    <2>2. CASE status[o] = "success" /\ Reply(h, TRUE)
      BY <1>3, <1>6, <1>8, <1>12, <2>2 DEF TxRead, orderVars, moneyVars
    <2>3. CASE TxFails(h)
      BY <1>6, <1>7, <1>8, <1>12, <2>3 DEF TxRead, TxFails, orderVars, moneyVars
    <2>. QED
      BY <1>12, <2>1, <2>2, <2>3 DEF TxRead
  <1>13. CASE TxCommit(h)
    BY <1>1, <1>4, <1>13, CreditTypes DEF TxCommit, WorkEffect, OrderInv, TypeOK, payVars
  <1>14. CASE Recheck(h)
    BY <1>3, <1>6, <1>14 DEF Recheck, DoneBefore, orderVars, moneyVars
  <1>15. CASE ApplyAffiliateTopupReward(h)
    <2>1. credits[o] > 0
      BY <1>15 DEF ApplyAffiliateTopupReward, AckInv, CreditedWhenDone
    <2>. QED
      BY <1>6, <1>8, <1>15, <2>1 DEF ApplyAffiliateTopupReward, orderVars
  <1>16. CASE DbFails(h)
    BY <1>6, <1>7, <1>8, <1>16 DEF DbFails, TxFails, orderVars, moneyVars
  <1>. QED
    BY <1>9, <1>10, <1>11, <1>12, <1>13, <1>14, <1>15, <1>16 DEF WorkStep

\* Orders that are inserted, paid or reported: nothing else changes.
LEMMA OrderEffects ==
    ASSUME OrderInv, NEW o \in Orders, OrderStep(o)
    PROVE  /\ UNCHANGED <<job, acked>>
           /\ \A q \in Orders : q # o => /\ status'[q] = status[q] /\ method'[q] = method[q]
                                         /\ credits'[q] = credits[q]
           /\ \/ status'[o] = status[o] /\ method'[o] = method[o] /\ credits'[o] = credits[o]
              \/ /\ status[o] = "none" /\ status'[o] = "pending" /\ credits'[o] = credits[o]
              \/ /\ Known(o) /\ method[o] = "waffo" /\ method'[o] = "waffo"
                 /\ status'[o] = "failed" /\ credits'[o] = credits[o]
              \/ /\ status[o] = "none" /\ status'[o] = "success"
                 /\ method'[o] = "corporate" /\ credits'[o] = 1
  <1>1. CASE \E m \in Methods : RequestPay(o, m)
    BY <1>1 DEF RequestPay, NextOrder, OrderInv, TypeOK, payVars, moneyVars
  <1>2. CASE LinkGiven(o) \/ Pay(o)
    BY <1>2 DEF LinkGiven, Pay, orderVars, moneyVars
  <1>3. CASE LinkFails(o)
    BY <1>3 DEF LinkFails, Known, OrderInv, TypeOK, moneyVars
  <1>4. CASE CreateCorporateTopUp(o)
    BY <1>4 DEF CreateCorporateTopUp, NextOrder, OrderInv, TypeOK, payVars
  <1>. QED
    BY <1>1, <1>2, <1>3, <1>4 DEF OrderStep

\* The steps that take and release locks, and a crash, change no order.
LockStep(h) == LockOrder(h) \/ Acquire(h) \/ UnlockOrder(h) \/ Release(h)

LEMMA LockStepFields ==
    ASSUME OrderInv, NEW h \in Handlers, LockStep(h)
    PROVE  /\ UNCHANGED <<status, method, acked, credits>>
           /\ \A g \in Handlers : g # h => job'[g] = job[g]
           /\ job'[h].pc \in {"acquire", "look", "tx", "release", "idle"}
  <1>1. job[h] \in Job
    BY Fields DEF OrderInv
  <1>2. UNCHANGED <<status, method, acked, credits>>
    BY DEF LockStep, LockOrder, Acquire, UnlockOrder, Release, orderVars, payVars, moneyVars
  <1>3. \A g \in Handlers : g # h => job'[g] = job[g]
    BY LockFields DEF LockStep, OrderInv
  <1>4. CASE LockOrder(h)
    <2>1. PICK x \in Mutexes : job' = [job EXCEPT ![h].pc = "acquire", ![h].mutex = x]
      BY <1>4 DEF LockOrder
    <2>2. job'[h] = [job[h] EXCEPT !.pc = "acquire", !.mutex = x]
      BY <2>1 DEF OrderInv, TypeOK
    <2>. QED
      BY <1>1, <1>2, <1>3, <2>2 DEF Job
  <1>5. CASE Acquire(h)
    <2>1. Step(h, Work(job[h].event, method[job[h].order]))
      BY <1>5 DEF Acquire
    <2>2. job'[h].pc = Work(job[h].event, method[job[h].order])
      BY <2>1, StepFields DEF OrderInv
    <2>. QED
      BY <1>2, <1>3, <2>2 DEF Work
  <1>6. CASE UnlockOrder(h)
    <2>1. CASE job' = [job EXCEPT ![h] = NoJob(h)]
      BY <1>2, <1>3, <2>1 DEF NoJob, OrderInv, TypeOK
    <2>2. CASE job' = [job EXCEPT ![h].pc = "release", ![h].mutex = orderLocks[LockOf(h)]]
      <3>1. job'[h] = [job[h] EXCEPT !.pc = "release", !.mutex = orderLocks[LockOf(h)]]
        BY <2>2 DEF OrderInv, TypeOK
      <3>. QED
        BY <1>1, <1>2, <1>3, <3>1 DEF Job
    <2>. QED
      BY <1>6, <2>1, <2>2 DEF UnlockOrder
  <1>7. CASE Release(h)
    BY <1>2, <1>3, <1>7 DEF Release, NoJob, OrderInv, TypeOK
  <1>. QED
    BY <1>2, <1>3, <1>4, <1>5, <1>6, <1>7 DEF LockStep

\* A request that starts a handler acknowledges at most a payment by Epay.
LEMMA StartAcks ==
    ASSUME OrderInv, NEW h \in Handlers, NEW p \in Orders,
           AdminCompleteTopUp(h, p) \/ \E e \in Events : Notify(h, p, e)
    PROVE  /\ UNCHANGED <<status, method, credits>>
           /\ \A q \in Orders : q # p => acked'[q] = acked[q]
           /\ acked'[p] => acked[p] \/ (Known(p) /\ method[p] = "epay")
           /\ \A g \in Handlers : g # h => job'[g] = job[g]
           /\ job'[h].pc \in {"register", "look"}
  <1>1. \E o, r \in Orders, e \in Events : Started(h, o, r, e)
    BY StartTo
  <1>2. /\ \A g \in Handlers : g # h => job'[g] = job[g]
        /\ job'[h].pc \in {"register", "look"}
        /\ UNCHANGED <<status, method, credits>>
    BY <1>1, StartFields DEF Started, OrderInv, orderVars, moneyVars
  <1>3. CASE AdminCompleteTopUp(h, p)
    BY <1>2, <1>3 DEF AdminCompleteTopUp, payVars
  <1>4. CASE \E e \in Events : Notify(h, p, e)
    <2>1. PICK e \in Events : Notify(h, p, e)
      BY <1>4
    <2>2. Known(p)
      BY <2>1 DEF Notify, Reports, OrderInv, KnownInv, Events
    <2>. QED
      BY <1>2, <2>1, <2>2 DEF Notify, OrderInv, TypeOK
  <1>. QED
    BY <1>3, <1>4

LEMMA AckStep ==
    ASSUME OrderInv, AckInv, [Next]_vars
    PROVE  AckInv'
  <1>1. \A o \in Orders : Known(o) => Known(o)' /\ method'[o] = method[o]
    BY StaysKnown DEF OrderInv
  <1>2. \A o \in Orders : acked[o] => Known(o)
    BY DEF AckInv, CreditedWhenDone, Known
  <1>3. \A g \in Handlers : At(g, "reward") => Known(job[g].order) /\ job[g].order \in Orders
    BY Fields DEF OrderInv, KnownInv, At
  <1>4. CASE UNCHANGED <<status, method, acked, credits, job>>
    BY <1>4 DEF AckInv, AckedIsCredited, CreditedWhenDone, At
  <1>5. ASSUME NEW o \in Orders, OrderStep(o)
        PROVE  AckInv'
    <2>1. AckedIsCredited'
      BY <1>1, <1>2, <1>5, OrderEffects DEF AckInv, AckedIsCredited, Known
    <2>2. CreditedWhenDone'
      <3>1. \A q \in Orders : method'[q] \in Retried /\ status'[q] = "success" => credits'[q] > 0
        BY <1>5, OrderEffects DEF AckInv, CreditedWhenDone
      <3>2. \A q \in Orders : method'[q] = "creem" => status'[q] \in {"none", "pending", "success"}
        BY <1>5, OrderEffects DEF AckInv, CreditedWhenDone
      <3>3. \A g \in Handlers : At(g, "reward")' => credits'[job'[g].order] > 0
        BY <1>3, <1>5, OrderEffects DEF AckInv, CreditedWhenDone, At, Known
      <3>4. \A q \in Orders : status'[q] = "none" => method'[q] = "corporate" /\ ~acked'[q]
        BY <1>5, OrderEffects DEF AckInv, CreditedWhenDone
      <3>. QED
        BY <3>1, <3>2, <3>3, <3>4 DEF CreditedWhenDone
    <2>. QED
      BY <2>1, <2>2 DEF AckInv
  <1>6. ASSUME NEW h \in Handlers, HandlerStep(h)
        PROVE  AckInv'
    <2>1. ASSUME NEW p \in Orders,
                 AdminCompleteTopUp(h, p) \/ \E e \in Events : Notify(h, p, e)
          PROVE  AckInv'
      <3>1. AckedIsCredited'
        BY <2>1, StartAcks DEF AckInv, AckedIsCredited, Retried
      <3>2. CreditedWhenDone'
        BY <2>1, StartAcks DEF AckInv, CreditedWhenDone, At, Known
      <3>. QED
        BY <3>1, <3>2 DEF AckInv
    <2>2. CASE LockStep(h)
      BY <2>2, LockStepFields DEF AckInv, AckedIsCredited, CreditedWhenDone, At
    <2>3. CASE WorkStep(h)
      <3>. PICK o, p : o = job[h].order /\ p = job[h].paidOrder
        OBVIOUS
      <3>1. PICK q \in Places : WorksTo(h, q)
        BY <2>3, WorkTo
      <3>2. WorkEffect(h, o, p) /\ UNCHANGED method
        BY <2>3, <3>1, WorkEffects DEF WorksTo
      <3>3. o \in Orders /\ p \in Orders /\ Known(o) /\ Known(p) /\ ~At(h, "idle")
        BY <3>1, Fields DEF OrderInv, KnownInv, WorksTo, At, Locked
      <3>4. /\ \A g \in Handlers : g # h => job'[g] = job[g]
            /\ job'[h].order = o
        BY <3>1, StepFields DEF WorksTo, OrderInv
      <3>5. \A r \in Orders : credits[r] > 0 => credits'[r] > 0
        <4>1. credits \in [Orders -> Nat] /\ credits' \in [Orders -> Nat]
          BY <2>3, WorkTypes DEF OrderInv, TypeOK
        <4>2. \A r \in Orders : credits'[r] >= credits[r]
          BY <3>2, <4>1 DEF WorkEffect
        <4>. QED
          BY <4>1, <4>2
      <3>6. AckedIsCredited'
        <4>1. ASSUME NEW r \in Orders, acked'[r], method'[r] \in Retried
              PROVE  credits[r] > 0
          BY <3>2, <3>3, <4>1 DEF WorkEffect, AckInv, AckedIsCredited
        <4>2. ASSUME NEW r \in Orders, acked'[r], method'[r] \in Retried
              PROVE  credits'[r] > 0
          BY <3>5, <4>1, <4>2
        <4>. QED
          BY <4>2 DEF AckedIsCredited
      <3>7. CreditedWhenDone'
        <4>1. \A r \in Orders : method'[r] \in Retried /\ status'[r] = "success" => credits'[r] > 0
          <5>1. ASSUME NEW r \in Orders, method[r] \in Retried, status'[r] = "success"
                PROVE  credits'[r] > 0
            <6>1. CASE status[r] = "success"
              <7>1. credits[r] > 0
                BY <5>1, <6>1 DEF AckInv, CreditedWhenDone
              <7>. QED
                BY <3>5, <7>1
            <6>2. CASE status[r] # "success"
              <7>1. r = o
                BY <3>2, <5>1, <6>2 DEF WorkEffect
              <7>2. At(h, "save") /\ job[h].event = "paid" => method[o] \in {"epay", "yipay", "creem"}
                BY DEF OrderInv, PlaceInv, Place, At
              <7>3. At(h, "save") => method[o] # "creem"
                BY DEF OrderInv, PlaceInv, Place
              <7>. QED
                BY <3>2, <5>1, <6>2, <7>1, <7>2, <7>3 DEF WorkEffect, Retried
            <6>. QED
              BY <6>1, <6>2
          <5>. QED
            BY <3>2, <5>1
        <4>2. \A r \in Orders : method'[r] = "creem" => status'[r] \in {"none", "pending", "success"}
          <5>1. At(h, "save") => method[o] # "creem"
            BY DEF OrderInv, PlaceInv, Place
          <5>. QED
            BY <3>2, <5>1 DEF WorkEffect, AckInv, CreditedWhenDone
        <4>3. \A g \in Handlers : At(g, "reward")' => credits'[job'[g].order] > 0
          <5>1. \A g \in Handlers : g # h /\ At(g, "reward") => credits[job[g].order] > 0
            BY DEF AckInv, CreditedWhenDone
          <5>2. \A g \in Handlers : g # h /\ At(g, "reward") => credits'[job[g].order] > 0
            BY <1>3, <3>5, <5>1
          <5>. QED
            BY <3>2, <3>4, <5>2 DEF WorkEffect, At
        <4>4. \A r \in Orders : status'[r] = "none" => method'[r] = "corporate" /\ ~acked'[r]
          <5>1. \A r \in Orders : status'[r] = "none" => status[r] = "none"
            BY <1>1 DEF Known
          <5>. QED
            BY <3>2, <3>3, <5>1 DEF WorkEffect, AckInv, CreditedWhenDone, Known
        <4>. QED
          BY <4>1, <4>2, <4>3, <4>4 DEF CreditedWhenDone
      <3>. QED
        BY <3>6, <3>7 DEF AckInv
    <2>. QED
      BY <1>6, <2>1, <2>2, <2>3 DEF HandlerStep, LockStep
  <1>7. CASE \E n \in Nodes : Crash(n)
    <2>1. UNCHANGED <<status, method, acked, credits>>
      BY <1>7 DEF Crash, orderVars, payVars, moneyVars
    <2>2. \A g \in Handlers : job'[g] = job[g] \/ ~At(g, "reward")'
      BY <1>7 DEF Crash, NoJob, At
    <2>. QED
      BY <2>1, <2>2 DEF AckInv, AckedIsCredited, CreditedWhenDone, At
  <1>. QED
    BY <1>4, <1>5, <1>6, <1>7, NextCases DEF vars, orderVars, payVars, moneyVars

\* A payment that a gateway will not report again has been credited, whatever
\* fails or stops, however many nodes serve the notifications.
THEOREM TopUpAckedIsCredited == Spec => []AckedIsCredited
  <1>1. Init => AckInv
    BY DEF Init, AckInv, AckedIsCredited, CreditedWhenDone, At, NoJob
  <1>2. AckInv => AckedIsCredited
    BY DEF AckInv
  <1>3. OrderInv /\ AckInv /\ [Next]_vars => AckInv'
    BY AckStep
  <1>. QED
    BY <1>1, <1>2, <1>3, OrderLocksSound, PTL DEF Spec

-----------------------------------------------------------------------------
(* In one process an order is credited once.                               *)

\* Two handlers past the lock of one order would hold one mutex.
LEMMA Exclusive ==
    ASSUME OrderInv, OneProcess, NEW g \in Handlers, NEW h \in Handlers,
           Holds(g), Holds(h), job[g].order = job[h].order
    PROVE  g = h
  <1>1. LockOf(g) = LockOf(h)
    BY DEF OneProcess, LockOf
  <1>2. UsesLock(g) /\ UsesLock(h)
    BY DEF UsesLock, Holds
  <1>3. job[g].mutex = job[h].mutex
    BY <1>1, <1>2 DEF OrderInv, LockInv, MutexInv, Registered
  <1>. QED
    BY <1>3 DEF OrderInv, LockInv, HeldInv

\* Whoever is about to credit an order, or to close it unless its method is
\* exempt, has its lock.
LEMMA AboutHolds ==
    ASSUME OrderInv, NEW h \in Handlers
    PROVE  /\ About(h) => Holds(h) /\ ~At(h, "idle")
           /\ job[h].pc \in {"tx", "commit", "add"} => Holds(h) /\ ~At(h, "idle")
           /\ At(h, "save") => Holds(h) \/ (method[job[h].order] \in Exempt /\ ~About(h))
  <1>1. job[h].event = "paid" \/ method[job[h].order] \notin Exempt => Guarded(h)
    BY DEF Guarded, TakesLock, Exempt
  <1>2. job[h].pc \in {"tx", "commit", "add"} => Guarded(h)
    BY DEF OrderInv, PlaceInv, Place
  <1>. QED
    BY <1>1, <1>2 DEF About, Holds, At, Locked

\* An order, and a handler that is about to credit or close it.
OrderCredit(o) ==
    /\ credits[o] <= 1
    /\ credits[o] > 0 /\ method[o] \notin Exempt => status[o] = "success"
    /\ status[o] \in {"none", "pending"} => credits[o] = 0
HandlerCredit(h) ==
    /\ About(h) => credits[job[h].order] = 0
    /\ At(h, "add") =>
           /\ status[job[h].order] \notin {"none", "pending"}
           /\ method[job[h].order] \notin Exempt => status[job[h].order] = "success"

LEMMA CreditParts ==
    /\ CreditInv <=> (\A o \in Orders : OrderCredit(o)) /\ (\A h \in Handlers : HandlerCredit(h))
    /\ CreditInv' <=> (\A o \in Orders : OrderCredit(o)') /\ (\A h \in Handlers : HandlerCredit(h)')
  BY DEF CreditInv, OrderCredit, HandlerCredit, CreditedOnce, CreditedIsSuccess, Exempt

\* What the work of a handler changes, and under which lock.
CreditEffect(h, o) ==
    /\ \A q \in Orders : q # o => status'[q] = status[q] /\ credits'[q] = credits[q]
    /\ credits'[o] # credits[o] => Holds(h)
    /\ \/ status'[o] = status[o]
       \/ status'[o] \notin {"none", "pending"} /\ (Holds(h) \/ method[o] \in Exempt)
    /\ OrderCredit(o)' /\ HandlerCredit(h)'

LEMMA CreditEffects ==
    ASSUME OrderInv, CreditInv, NEW h \in Handlers, WorkStep(h), NEW o, o = job[h].order
    PROVE  CreditEffect(h, o)
  <1>1. o \in Orders /\ OrderCredit(o) /\ HandlerCredit(h)
    BY CreditParts, Fields DEF OrderInv
  <1>2. credits \in [Orders -> Nat] /\ credits[o] \in Nat
    BY <1>1 DEF OrderInv, TypeOK
  <1>3. UNCHANGED method /\ job'[h].order = o /\ job'[h].event = job[h].event
    BY WorkTo, StepFields DEF WorksTo, OrderInv
  <1>4. ASSUME UNCHANGED <<status, credits>>, job'[h].pc \notin {"save", "add", "commit"}
        PROVE  CreditEffect(h, o)
    BY <1>1, <1>3, <1>4 DEF CreditEffect, OrderCredit, HandlerCredit, About, At
  <1>5. ASSUME UNCHANGED <<status, credits>>, status[o] = "pending", job'[h].pc # "add"
        PROVE  CreditEffect(h, o)
    BY <1>1, <1>3, <1>5 DEF CreditEffect, OrderCredit, HandlerCredit, About, At
  <1>6. ASSUME NEW ok \in BOOLEAN, Reply(h, ok)
        PROVE  job'[h].pc \notin {"save", "add", "commit"}
    BY <1>6, ReplyQuiet
  <1>7. \A q : Step(h, q) => job'[h].pc = q
    BY StepFields DEF OrderInv
  <1>8. TRUE \in BOOLEAN /\ FALSE \in BOOLEAN /\ DoneBefore(status[o]) \in BOOLEAN
    BY DEF DoneBefore
  <1>9. CASE Look(h)
    <2>1. UNCHANGED <<status, credits>>
      BY <1>9 DEF Look, orderVars, moneyVars
    <2>2. CASE Reply(h, TRUE)
      BY <1>4, <1>6, <1>8, <2>1, <2>2
    <2>3. CASE ~Reply(h, TRUE)
      <3>1. job'[h].pc \in {"tx", "save"}
        BY <1>7, <1>9, <2>3 DEF Look
      <3>2. CASE status[o] = "pending"
        BY <1>5, <2>1, <3>1, <3>2
      <3>3. CASE status[o] # "pending"
        <4>1. job[h].event = "closed" /\ method[o] = "stripe"
          BY <1>9, <2>3, <3>3 DEF Look
        <4>2. ~About(h)' /\ ~At(h, "add")'
          BY <1>3, <3>1, <4>1 DEF About, At, Exempt
        <4>. QED
          BY <1>1, <1>3, <2>1, <4>2 DEF CreditEffect, OrderCredit, HandlerCredit
      <3>. QED
        BY <3>2, <3>3
    <2>. QED
      BY <2>2, <2>3
  <1>10. CASE Save(h)
    <2>. DEFINE new == IF job[h].event = "paid" THEN "success"
                       ELSE IF method[o] = "waffo" THEN "failed" ELSE "expired"
    <2>1. At(h, "save") /\ UNCHANGED credits /\ status' = [status EXCEPT ![o] = new]
      BY <1>10 DEF Save, moneyVars
    <2>2. /\ status'[o] = new
          /\ \A q \in Orders : q # o => status'[q] = status[q]
      BY <1>1, <2>1 DEF OrderInv, TypeOK
    <2>3. Holds(h) \/ (method[o] \in Exempt /\ ~About(h))
      BY <2>1, AboutHolds
    <2>4. new \notin {"none", "pending"}
      OBVIOUS
    <2>5. OrderCredit(o)'
      <3>1. credits[o] > 0 /\ method[o] \notin Exempt => FALSE
        BY <1>1, <2>1 DEF HandlerCredit, About
      <3>. QED
        BY <1>1, <1>3, <2>1, <2>2, <2>4, <3>1 DEF OrderCredit
    <2>6. HandlerCredit(h)'
      <3>1. CASE job[h].event = "paid"
        <4>1. credits[o] = 0
          BY <1>1, <2>1, <3>1 DEF HandlerCredit, About
        <4>2. credits'[job'[h].order] = 0 /\ status'[job'[h].order] = "success"
          BY <1>3, <2>1, <2>2, <3>1, <4>1
        <4>. QED
          BY <4>2 DEF HandlerCredit
      <3>2. CASE job[h].event # "paid"
        BY <1>6, <1>8, <1>10, <3>2 DEF Save, HandlerCredit, About, At
      <3>. QED
        BY <3>1, <3>2
    <2>7. /\ UNCHANGED credits
          /\ \A q \in Orders : q # o => status'[q] = status[q]
          /\ status'[o] \notin {"none", "pending"}
      BY <2>1, <2>2, <2>4
    <2>. QED
      BY <2>3, <2>5, <2>6, <2>7 DEF CreditEffect
  <1>11. ASSUME Credit(h), Holds(h), credits[o] = 0, status'[o] \notin {"none", "pending"},
                status'[o] = status[o] \/ status'[o] = "success",
                method[o] \notin Exempt => status'[o] = "success",
                \A q \in Orders : q # o => status'[q] = status[q]
         PROVE  CreditEffect(h, o)
    <2>1. credits'[o] = 1 /\ \A q \in Orders : q # o => credits'[q] = credits[q]
      BY <1>11, CreditTypes
    <2>2. job'[h].pc = "reward"
      BY <1>7, <1>11 DEF Credit
    <2>3. OrderCredit(o)'
      BY <1>3, <1>11, <2>1 DEF OrderCredit
    <2>4. HandlerCredit(h)'
      BY <2>2 DEF HandlerCredit, About, At
    <2>. QED
      BY <1>11, <2>1, <2>3, <2>4 DEF CreditEffect
  <1>12. CASE IncreaseUserQuota(h)
    <2>1. At(h, "add") /\ Credit(h) /\ UNCHANGED status
      BY <1>12 DEF IncreaseUserQuota, orderVars
    <2>2. Holds(h)
      BY <2>1, AboutHolds DEF At
    <2>. QED
      BY <1>1, <1>11, <2>1, <2>2 DEF HandlerCredit, About, At
  <1>13. CASE TxRead(h)
    <2>1. UNCHANGED <<status, credits>>
      BY <1>13 DEF TxRead, orderVars, moneyVars
    <2>2. CASE Completes(status[o]) /\ Step(h, "commit")
      BY <1>5, <1>7, <2>1, <2>2 DEF Completes
    <2>3. CASE Reply(h, TRUE) \/ TxFails(h)
      BY <1>4, <1>6, <1>7, <1>8, <2>1, <2>3 DEF TxFails
    <2>. QED
      BY <1>13, <2>2, <2>3 DEF TxRead
  <1>14. CASE TxCommit(h)
    <2>1. At(h, "commit") /\ Credit(h) /\ status' = [status EXCEPT ![o] = "success"]
      BY <1>14 DEF TxCommit
    <2>2. Holds(h)
      BY <2>1, AboutHolds DEF At
    <2>3. status'[o] = "success" /\ \A q \in Orders : q # o => status'[q] = status[q]
      BY <1>1, <2>1 DEF OrderInv, TypeOK
    <2>. QED
      BY <1>1, <1>11, <2>1, <2>2, <2>3 DEF HandlerCredit, About, At
  <1>15. CASE Recheck(h)
    BY <1>4, <1>6, <1>8, <1>15 DEF Recheck, orderVars, moneyVars
  <1>16. CASE ApplyAffiliateTopupReward(h)
    BY <1>4, <1>6, <1>8, <1>16 DEF ApplyAffiliateTopupReward, orderVars
  <1>17. CASE DbFails(h)
    <2>1. UNCHANGED <<status, credits>>
      BY <1>17 DEF DbFails, orderVars, moneyVars
    <2>. QED
      BY <1>4, <1>6, <1>7, <1>8, <1>17, <2>1 DEF DbFails, TxFails
  <1>. QED
    BY <1>9, <1>10, <1>12, <1>13, <1>14, <1>15, <1>16, <1>17 DEF WorkStep

LEMMA CreditStep ==
    ASSUME OrderInv, OneProcess, CreditInv, [Next]_vars
    PROVE  CreditInv'
  <1>1. \A o \in Orders : OrderCredit(o)
    BY CreditParts
  <1>2. \A g \in Handlers : HandlerCredit(g) /\ job[g].order \in Orders
    BY CreditParts, Fields DEF OrderInv
  <1>3. \A g \in Handlers : About(g) \/ At(g, "add") => Holds(g) /\ Known(job[g].order)
    BY AboutHolds DEF OrderInv, KnownInv, At
  <1>4. \A o \in Orders : Known(o) => method'[o] = method[o]
    BY StaysKnown DEF OrderInv
  \* A handler that the step does not move, if its order is not touched.
  <1>5. ASSUME NEW g \in Handlers, job'[g] = job[g],
               Known(job[g].order) => /\ status'[job[g].order] = status[job[g].order]
                                      /\ credits'[job[g].order] = credits[job[g].order]
        PROVE  HandlerCredit(g)'
    <2>1. CASE About(g) \/ At(g, "add")
      BY <1>2, <1>3, <1>4, <1>5, <2>1 DEF HandlerCredit, About, At
    <2>2. CASE ~(About(g) \/ At(g, "add"))
      <3>1. CASE Known(job[g].order)
        BY <1>2, <1>4, <1>5, <2>2, <3>1 DEF HandlerCredit, About, At
      <3>2. CASE ~Known(job[g].order)
        <4>1. At(g, "idle")
          BY <3>2 DEF OrderInv, KnownInv
        <4>. QED
          BY <1>5, <4>1 DEF HandlerCredit, About, At
      <3>. QED
        BY <3>1, <3>2
    <2>. QED
      BY <2>1, <2>2
  \* A step that changes no order, and moves a handler to where it does nothing.
  <1>6. ASSUME UNCHANGED <<status, method, credits>>,
               \A g \in Handlers : job'[g] = job[g] \/ job'[g].pc \notin {"save", "add", "commit"}
        PROVE  CreditInv'
    <2>1. \A o \in Orders : OrderCredit(o)'
      BY <1>1, <1>6 DEF OrderCredit
    <2>2. \A g \in Handlers : HandlerCredit(g)'
      BY <1>5, <1>6 DEF HandlerCredit, About, At
    <2>. QED
      BY <2>1, <2>2, CreditParts
  <1>7. CASE UNCHANGED vars
    BY <1>6, <1>7 DEF vars, orderVars, moneyVars
  <1>8. ASSUME NEW o \in Orders, OrderStep(o)
        PROVE  CreditInv'
    <2>1. \A q \in Orders : OrderCredit(q)'
      BY <1>1, <1>8, OrderEffects DEF OrderCredit, Exempt
    <2>2. ASSUME NEW g \in Handlers
          PROVE  HandlerCredit(g)'
      <3>1. CASE job[g].order # o
        BY <1>2, <1>5, <1>8, <3>1, OrderEffects
      <3>2. CASE job[g].order = o /\ ~At(g, "idle")
        <4>1. Known(o) /\ UNCHANGED job
          BY <1>8, <3>2, OrderEffects DEF OrderInv, KnownInv
        <4>2. \/ status'[o] = status[o] /\ credits'[o] = credits[o]
              \/ status'[o] = "failed" /\ credits'[o] = credits[o]
                 /\ method'[o] = "waffo" /\ method[o] = "waffo"
          BY <1>8, <4>1, OrderEffects DEF Known
        <4>. QED
          BY <1>2, <1>5, <3>2, <4>1, <4>2 DEF HandlerCredit, About, At, Exempt
      <3>3. CASE At(g, "idle")
        BY <1>8, <3>3, OrderEffects DEF HandlerCredit, About, At
      <3>. QED
        BY <3>1, <3>2, <3>3
    <2>. QED
      BY <2>1, <2>2, CreditParts
  <1>9. ASSUME NEW h \in Handlers, HandlerStep(h)
        PROVE  CreditInv'
    <2>1. ASSUME NEW p \in Orders,
                 AdminCompleteTopUp(h, p) \/ \E e \in Events : Notify(h, p, e)
          PROVE  CreditInv'
      BY <1>6, <2>1, StartAcks
    <2>2. CASE LockStep(h)
      BY <1>6, <2>2, LockStepFields
    <2>3. CASE WorkStep(h)
      <3>. PICK o : o = job[h].order
        OBVIOUS
      <3>1. PICK q \in Places : WorksTo(h, q)
        BY <2>3, WorkTo
      <3>2. CreditEffect(h, o) /\ UNCHANGED method
        BY <2>3, <3>1, CreditEffects DEF WorksTo
      <3>3. \A g \in Handlers : g # h => job'[g] = job[g]
        BY <3>1, StepFields DEF WorksTo, OrderInv
      <3>4. \A r \in Orders : OrderCredit(r)'
        BY <1>1, <3>2 DEF CreditEffect, OrderCredit
      <3>5. ASSUME NEW g \in Handlers, g # h
            PROVE  HandlerCredit(g)'
        <4>1. CASE job[g].order # o
          BY <1>2, <1>5, <3>2, <3>3, <3>5, <4>1 DEF CreditEffect
        <4>2. CASE job[g].order = o /\ Holds(h)
          <5>1. ~About(g) /\ ~At(g, "add")
            BY <1>3, <3>5, <4>2, Exclusive
          <5>. QED
            BY <3>2, <3>3, <3>5, <5>1 DEF HandlerCredit, About, At
        <4>3. CASE job[g].order = o /\ ~Holds(h)
          <5>1. credits'[o] = credits[o]
            BY <3>2, <4>3 DEF CreditEffect
          <5>2. \/ status'[o] = status[o]
                \/ status'[o] \notin {"none", "pending"} /\ method[o] \in Exempt
            BY <3>2, <4>3 DEF CreditEffect
          <5>3. HandlerCredit(g) /\ job'[g] = job[g] /\ UNCHANGED method
            BY <1>2, <3>2, <3>3, <3>5
          <5>. QED
            BY <4>3, <5>1, <5>2, <5>3 DEF HandlerCredit, About, At
        <4>. QED
          BY <4>1, <4>2, <4>3
      <3>6. HandlerCredit(h)'
        BY <3>2 DEF CreditEffect
      <3>. QED
        BY <3>4, <3>5, <3>6, CreditParts
    <2>. QED
      BY <1>9, <2>1, <2>2, <2>3 DEF HandlerStep, LockStep
  <1>10. CASE \E n \in Nodes : Crash(n)
    <2>1. UNCHANGED <<status, method, credits>>
      BY <1>10 DEF Crash, orderVars, moneyVars
    <2>2. \A g \in Handlers : job'[g] = job[g] \/ job'[g].pc \notin {"save", "add", "commit"}
      BY <1>10 DEF Crash, NoJob
    <2>. QED
      BY <1>6, <2>1, <2>2
  <1>. QED
    BY <1>7, <1>8, <1>9, <1>10, NextCases

LEMMA CreditAlways == OneProcess => (Spec => []CreditInv)
  <1>1. Init => CreditInv
    BY DEF Init, CreditInv, CreditedOnce, CreditedIsSuccess, About, At, NoJob
  <1>2. OneProcess /\ OrderInv /\ CreditInv /\ [Next]_vars => CreditInv'
    BY CreditStep
  <1>3. OneProcess => []OneProcess
    <2>1. OneProcess => OneProcess'
      BY DEF OneProcess
    <2>. QED
      BY <2>1, PTL
  <1>. QED
    BY <1>1, <1>2, <1>3, OrderLocksSound, PTL DEF Spec

\* In one process the quota of an order is added once, however many
\* notifications and administrators complete it at the same time.
THEOREM TopUpCreditedOnce == OneProcess => (Spec => []CreditedOnce)
  <1>1. CreditInv => CreditedOnce
    BY DEF CreditInv
  <1>. QED
    BY <1>1, CreditAlways, PTL

\* In one process an order that was credited stays a success, unless Stripe's
\* or Waffo's unguarded notifications close it.
THEOREM TopUpCreditedIsSuccess == OneProcess => (Spec => []CreditedIsSuccess)
  <1>1. CreditInv => CreditedIsSuccess
    BY DEF CreditInv
  <1>. QED
    BY <1>1, CreditAlways, PTL
=============================================================================
