-------------------------- MODULE SubscriptionQuota --------------------------
(***************************************************************************)
(* The quota of a user's subscriptions (model/subscription.go): relay      *)
(* requests pre-consume it under a record of their request id, adjust it   *)
(* when they settle, or give it back (service/funding_source.go); the      *)
(* master node resets it every period; subscriptions end, are cancelled or *)
(* are deleted.                                                            *)
(*                                                                         *)
(* Every transaction reads whole rows and saves whole rows.  A read and    *)
(* the commit are two steps, and others may step in between: the reads ask *)
(* for row locks through tx.Set("gorm:query_option", "FOR UPDATE"), which  *)
(* the ORM of go.mod ignores, so that no row is ever locked by a read.     *)
(***************************************************************************)
EXTENDS Integers, FiniteSets, Functions

CONSTANTS
    Subs,     \* the ids of the user's subscriptions
    Total,    \* Total[s]: the quota of a period, 0 for no limit
    Lasts,    \* how many reset periods a subscription lasts
    Requests, \* the relay requests
    Resetter, \* the reset task of the master node
    Costs,    \* the quotas a request may cost
    Faults,   \* whether transactions fail: a subset of {"db"}
    Horizon   \* bound on the time

Actors == Requests \cup {Resetter}

Attempts == 3

ASSUME SubscriptionAssumption ==
    /\ Subs \subseteq Nat \ {0}
    /\ Total \in [Subs -> Nat]
    /\ Lasts \in Nat \ {0}
    /\ Resetter \notin Requests
    /\ Costs \subseteq Nat \ {0}
    /\ Faults \subseteq {"db"}
    /\ Horizon \in Nat

ASSUME RequestsAssumption == IsFiniteSet(Requests)

VARIABLES
    now,       \* the time, in reset periods
    sub,       \* sub[s]: the row of subscription s
    record,    \* record[r]: the status of r's pre-consume record
    pc,        \* pc[a]: where actor a is
    clock,     \* clock[a]: the time a has read
    mem,       \* mem[a][s]: row s as a has read it
    listed,    \* the subscriptions the reset task has still to read
    target,    \* target[a]: the subscription a is at
    amount,    \* amount[r]: what r has pre-consumed or settled
    goal,      \* goal[r]: what it is to pay instead
    tries,     \* tries[r]: failed attempts of r's refund
    charged,   \* history: what r has taken in its subscription's period
    restored,  \* history: how often a refund of r was committed
    voided,    \* history: subscriptions reset, or given back too much
    stale      \* history: subscriptions saved from a copy that was outdated

sessionVars == <<target, amount, goal, tries>>
historyVars == <<charged, restored, voided, stale>>
vars == <<now, sub, listed, record, pc, clock, mem, sessionVars,
          historyVars>>

-----------------------------------------------------------------------------
(* next: next_reset_time, 0 when no reset is to come; end: end_time. *)
Row == [status : {"none", "active", "expired", "cancelled", "deleted"},
        used : Nat, next : Nat, end : Nat]

NoRow == [status |-> "none", used |-> 0, next |-> 0, end |-> 0]

NoRows == [s \in Subs |-> NoRow]

NoSub == 0

Steps == {"idle", "begin", "preConsume", "refused", "admitted",
          "settle", "post", "unsettled", "settled", "adjust", "adjustPost",
          "done", "refund", "refundDelta", "refundPost", "refundSave",
          "refunded", "gaveUp", "readReset", "reset"}

TypeOK ==
    /\ now \in 0..Horizon
    /\ sub \in [Subs -> Row]
    /\ record \in [Requests -> {"none", "consumed", "refunded"}]
    /\ pc \in [Actors -> Steps]
    /\ clock \in [Actors -> 0..Horizon]
    /\ mem \in [Actors -> [Subs -> Row]]
    /\ listed \subseteq Subs
    /\ target \in [Actors -> Subs \cup {NoSub}]
    /\ amount \in [Requests -> Nat] /\ goal \in [Requests -> Nat]
    /\ tries \in [Requests -> 0..Attempts]
    /\ charged \in [Requests -> Nat]
    /\ restored \in [Requests -> Nat]
    /\ voided \subseteq Subs /\ stale \subseteq Subs

Init ==
    /\ now = 0
    /\ sub = NoRows
    /\ record = [r \in Requests |-> "none"]
    /\ pc = [a \in Actors |-> "idle"]
    /\ clock = [a \in Actors |-> 0]
    /\ mem = [a \in Actors |-> NoRows]
    /\ listed = {}
    /\ target = [a \in Actors |-> NoSub]
    /\ amount = [r \in Requests |-> 0] /\ goal = [r \in Requests |-> 0]
    /\ tries = [r \in Requests |-> 0]
    /\ charged = [r \in Requests |-> 0]
    /\ restored = [r \in Requests |-> 0]
    /\ voided = {} /\ stale = {}

-----------------------------------------------------------------------------
(* Transactions. *)

At(a, step) == pc[a] = step

Goes(a, step) == pc' = [pc EXCEPT ![a] = step]

(* Actor a reads the rows S, and no others. *)
ReadRows(a, S) ==
    mem' = [mem EXCEPT ![a] = [s \in Subs |-> IF s \in S THEN sub[s] ELSE NoRow]]

(* The copies of a are gone with its transaction. *)
Forget(a) == mem' = [mem EXCEPT ![a] = NoRows]

(* A request needs the time it has read no more. *)
EndTransaction(a) == Forget(a) /\ clock' = [clock EXCEPT ![a] = 0]

(* Actor a saves the rows S, of which some may have changed since it read  *)
(* them.                                                                   *)
Saves(a, S) == stale' = stale \cup {s \in S : mem[a][s] # sub[s]}

Rollback(a) == EndTransaction(a) /\ UNCHANGED <<sub, record, historyVars>>

Exists(row) == row.status \notin {"none", "deleted"}

(* calcNextResetTime: the end of the period, unless the subscription ends. *)
NextReset(time, end) == IF time + 1 > end THEN 0 ELSE time + 1

ResetDue(row, time) == row.next # 0 /\ row.next <= time

(* Faulty variant: a new period begins with the old one's use. *)
MaybeResetKeepsUsed(row, time) ==
    IF ResetDue(row, time) /\ row.next <= row.end
    THEN [row EXCEPT !.next = NextReset(time, row.end)] ELSE row

(* maybeResetUserSubscriptionWithPlanTx: the row after it. *)
MaybeReset(row, time) ==
    IF ResetDue(row, time) /\ row.next <= row.end
    THEN [row EXCEPT !.used = 0, !.next = NextReset(time, row.end)] ELSE row

(* What was charged to the subscriptions S is forgotten with their period. *)
Forgotten(S) == [r \in Requests |-> IF target[r] \in S THEN 0 ELSE charged[r]]

-----------------------------------------------------------------------------
(* Subscriptions begin and end; each of these is one transaction whose     *)
(* writes do not depend on what it has read of the row.                    *)

Tick ==
    /\ now < Horizon
    /\ now' = now + 1
    /\ UNCHANGED <<sub, listed, record, pc, clock, mem, sessionVars, historyVars>>

(* A subscription is bought or given. *)
CreateUserSubscription(s) ==
    /\ sub[s].status = "none"
    /\ LET end == now + Lasts
       IN sub' = [sub EXCEPT ![s] = [status |-> "active", used |-> 0,
                                     next |-> NextReset(now, end), end |-> end]]
    /\ UNCHANGED <<now, listed, record, pc, clock, mem, sessionVars, historyVars>>

ExpireDueSubscriptions ==
    LET due == {s \in Subs : sub[s].status = "active" /\ sub[s].end <= now}
    IN /\ due # {}
       /\ sub' = [s \in Subs |-> IF s \in due
                                 THEN [sub[s] EXCEPT !.status = "expired"]
                                 ELSE sub[s]]
       /\ UNCHANGED <<now, listed, record, pc, clock, mem, sessionVars, historyVars>>

Cancelled(row, time) == [row EXCEPT !.status = "cancelled", !.end = time]

AdminInvalidate(s) ==
    /\ Exists(sub[s])
    /\ sub' = [sub EXCEPT ![s] = Cancelled(sub[s], now)]
    /\ UNCHANGED <<now, listed, record, pc, clock, mem, sessionVars, historyVars>>

AdminDelete(s) ==
    /\ Exists(sub[s])
    /\ sub' = [sub EXCEPT ![s].status = "deleted"]
    /\ UNCHANGED <<now, listed, record, pc, clock, mem, sessionVars, historyVars>>

-----------------------------------------------------------------------------
(* PreConsumeUserSubscription.  A request id is that of one HTTP request,  *)
(* which opens one session: there is no record of it yet.                  *)

Begin(r) ==
    /\ At(r, "idle")
    /\ \E n \in Costs : amount' = [amount EXCEPT ![r] = n]
    /\ clock' = [clock EXCEPT ![r] = now]
    /\ Goes(r, "begin")
    /\ UNCHANGED <<now, listed, sub, record, mem, target, goal, tries, historyVars>>

ReadSubscriptions(r) ==
    LET active == {s \in Subs : sub[s].status = "active" /\ sub[s].end > clock[r]}
    IN /\ At(r, "begin")
       /\ ReadRows(r, active)
       /\ Goes(r, IF active = {} THEN "refused" ELSE "preConsume")
       /\ UNCHANGED <<now, listed, sub, record, clock, sessionVars, historyVars>>

(* The order in which subscriptions are tried. *)
Before(r, s, t) ==
    \/ mem[r][s].end < mem[r][t].end
    \/ mem[r][s].end = mem[r][t].end /\ s < t

(* Faulty variant: any unused quota is enough. *)
FitsSomehow(row, s, n) == Total[s] = 0 \/ row.used < Total[s]

Fits(row, s, n) == Total[s] = 0 \/ row.used + n <= Total[s]

(***************************************************************************)
(* The first subscription with enough quota left pays; rows tried before   *)
(* it are saved if they were reset.  If none has, the transaction fails,   *)
(* and the resets with it.                                                 *)
(***************************************************************************)
PreConsume(r) ==
    LET read == {s \in Subs : Exists(mem[r][s])}
        row(s) == MaybeReset(mem[r][s], clock[r])
        fit == {s \in read : Fits(row(s), s, amount[r])}
    IN /\ At(r, "preConsume")
       /\ \/ \E s \in fit :
             LET tried == {t \in read : t = s \/ Before(r, t, s)}
                 reset == {t \in tried : row(t) # mem[r][t]}
             IN /\ tried \cap fit = {s}
                /\ sub' = [t \in Subs |->
                      IF t = s THEN [row(s) EXCEPT !.used = @ + amount[r]]
                      ELSE IF t \in reset THEN row(t) ELSE sub[t]]
                /\ record' = [record EXCEPT ![r] = "consumed"]
                /\ target' = [target EXCEPT ![r] = s]
                /\ charged' = [Forgotten(reset) EXCEPT ![r] = amount[r]]
                /\ voided' = voided \cup reset
                /\ Saves(r, reset \cup {s})
                /\ Goes(r, "admitted")
                /\ EndTransaction(r)
                /\ UNCHANGED restored
          \/ /\ fit = {} \/ "db" \in Faults
             /\ Goes(r, "refused")
             /\ Rollback(r)
             /\ UNCHANGED target
       /\ UNCHANGED <<now, listed, amount, goal, tries>>

-----------------------------------------------------------------------------
(* PostConsumeUserSubscriptionDelta, which settles a session, adjusts what *)
(* a task has paid, or restores what a refund gives back.                  *)

Settle(r) ==
    /\ At(r, "admitted")
    /\ \E n \in Costs \cup {0} :
          /\ goal' = [goal EXCEPT ![r] = n]
          /\ Goes(r, IF n = amount[r] THEN "settled" ELSE "settle")
    /\ UNCHANGED <<now, listed, sub, record, clock, mem, target, amount, tries,
                   historyVars>>

(* A task is settled or refunded: see TaskBilling. *)
AdjustTask(r) ==
    /\ At(r, "settled")
    /\ \E n \in (Costs \cup {0}) \ {amount[r]} : goal' = [goal EXCEPT ![r] = n]
    /\ Goes(r, "adjust")
    /\ UNCHANGED <<now, listed, sub, record, clock, mem, target, amount, tries,
                   historyVars>>

(* Faulty variant: a refund is tried for ever. *)
RetryForEver(r) == Goes(r, "refund") /\ UNCHANGED tries

(* refundWithRetry: the attempt failed. *)
Retry(r) ==
    /\ tries' = [tries EXCEPT ![r] = @ + 1]
    /\ Goes(r, IF tries[r] + 1 = Attempts THEN "gaveUp" ELSE "refund")

PostFailed(r) ==
    \/ pc[r] \in {"settle", "post"} /\ Goes(r, "unsettled") /\ UNCHANGED tries
    \/ pc[r] \in {"adjust", "adjustPost"} /\ Goes(r, "done") /\ UNCHANGED tries
    \/ pc[r] \in {"refundDelta", "refundPost"} /\ Retry(r)

PostRead(r) ==
    LET s == target[r]
    IN /\ pc[r] \in {"settle", "adjust", "refundDelta"}
       /\ \/ /\ Exists(sub[s])
             /\ ReadRows(r, {s})
             /\ Goes(r, CASE pc[r] = "settle"      -> "post"
                          [] pc[r] = "adjust"      -> "adjustPost"
                          [] pc[r] = "refundDelta" -> "refundPost")
             /\ UNCHANGED tries
          \/ /\ ~ Exists(sub[s]) \/ "db" \in Faults
             /\ PostFailed(r)
             /\ UNCHANGED mem
       /\ UNCHANGED <<now, listed, sub, record, clock, target, amount, goal, historyVars>>

(* Faulty variant: the whole cost is charged on top of the estimate. *)
DeltaWhole(r) == goal[r]

Delta(r) == goal[r] - amount[r]

(* Faulty variant: a quota restored after a reset makes the use negative. *)
NoFloor(n) == n

AtLeast0(n) == IF n < 0 THEN 0 ELSE n

PostCommit(r) ==
    LET s == target[r]
        newUsed == AtLeast0(mem[r][s].used + Delta(r))
        owed == charged[r] + goal[r] - amount[r]
        fits == Total[s] = 0 \/ newUsed <= Total[s]
    IN /\ pc[r] \in {"post", "adjustPost", "refundPost"}
       /\ \/ /\ fits
             /\ sub' = [sub EXCEPT ![s] = [mem[r][s] EXCEPT !.used = newUsed]]
             /\ Saves(r, {s})
             /\ charged' = [charged EXCEPT ![r] = AtLeast0(owed)]
             /\ voided' = IF owed < 0 THEN voided \cup {s} ELSE voided
             /\ \/ /\ pc[r] # "refundPost"
                   /\ amount' = [amount EXCEPT ![r] = goal[r]]
                   /\ Goes(r, IF pc[r] = "post" THEN "settled" ELSE "done")
                   /\ UNCHANGED restored
                \/ /\ pc[r] = "refundPost"
                   /\ restored' = [restored EXCEPT ![r] = @ + 1]
                   /\ Goes(r, "refundSave")
                   /\ UNCHANGED amount
             /\ EndTransaction(r)
             /\ UNCHANGED <<record, tries>>
          \/ /\ ~ fits \/ "db" \in Faults
             /\ PostFailed(r)
             /\ Rollback(r)
             /\ UNCHANGED amount
       /\ UNCHANGED <<now, listed, target, goal>>

-----------------------------------------------------------------------------
(* RefundSubscriptionPreConsume, in the goroutine of a session's Refund.   *)
(* The delta is committed in a transaction of its own, within that of the  *)
(* record, which may still fail.                                           *)

Refund(r) ==
    /\ pc[r] \in {"admitted", "unsettled"}
    /\ goal' = [goal EXCEPT ![r] = 0]
    /\ Goes(r, "refund")
    /\ UNCHANGED <<now, listed, sub, record, clock, mem, target, amount, tries,
                   historyVars>>

RefundRead(r) ==
    /\ At(r, "refund")
    /\ \/ /\ Goes(r, IF record[r] = "refunded" THEN "refunded" ELSE "refundDelta")
          /\ UNCHANGED tries
       \/ "db" \in Faults /\ Retry(r)
    /\ UNCHANGED <<now, listed, sub, record, clock, mem, target, amount, goal,
                   historyVars>>

RefundSave(r) ==
    /\ At(r, "refundSave")
    /\ \/ /\ record' = [record EXCEPT ![r] = "refunded"]
          /\ Goes(r, "refunded")
          /\ UNCHANGED tries
       \/ "db" \in Faults /\ Retry(r) /\ UNCHANGED record
    /\ UNCHANGED <<now, listed, sub, clock, mem, target, amount, goal, historyVars>>

-----------------------------------------------------------------------------
(* ResetDueSubscriptions: a list of rows, each read again and saved, in     *)
(* some order, as of the time of the list.                                 *)

(* Faulty variant: subscriptions are listed one period late. *)
ResetListedEarly(s) == sub[s].status = "active" /\ ResetDue(sub[s], now - 1)

ResetListed(s) == sub[s].status = "active" /\ ResetDue(sub[s], now)

ListDue ==
    /\ At(Resetter, "idle")
    /\ listed' = {s \in Subs : ResetListed(s)}
    /\ listed' # {}
    /\ clock' = [clock EXCEPT ![Resetter] = now]
    /\ Goes(Resetter, "readReset")
    /\ UNCHANGED <<now, sub, record, mem, sessionVars, historyVars>>

(* The pass goes on with the rows S. *)
Continue(S) ==
    /\ listed' = S
    /\ Goes(Resetter, IF S = {} THEN "idle" ELSE "readReset")
    /\ clock' = IF S = {} THEN [clock EXCEPT ![Resetter] = 0] ELSE clock

ReadReset ==
    /\ At(Resetter, "readReset")
    /\ \E s \in listed :
          \/ /\ Exists(sub[s]) /\ ResetDue(sub[s], clock[Resetter])
             /\ ReadRows(Resetter, {s})
             /\ target' = [target EXCEPT ![Resetter] = s]
             /\ Goes(Resetter, "reset")
             /\ UNCHANGED <<listed, clock>>
          \/ /\ ~ (Exists(sub[s]) /\ ResetDue(sub[s], clock[Resetter])) \/ "db" \in Faults
             /\ Continue(listed \ {s})
             /\ UNCHANGED <<mem, target>>
    /\ UNCHANGED <<now, sub, record, amount, goal, tries, historyVars>>

(* An error ends the pass. *)
SaveReset ==
    LET s == target[Resetter]
        row == MaybeReset(mem[Resetter][s], clock[Resetter])
        changed == row # mem[Resetter][s]
    IN /\ At(Resetter, "reset")
       /\ \/ /\ changed
             /\ sub' = [sub EXCEPT ![s] = row]
             /\ charged' = Forgotten({s})
             /\ voided' = voided \cup {s}
             /\ Saves(Resetter, {s})
             /\ Continue(listed \ {s})
             /\ UNCHANGED restored
          \/ /\ ~ changed
             /\ Continue(listed \ {s})
             /\ UNCHANGED <<sub, historyVars>>
          \/ /\ "db" \in Faults
             /\ Continue({})
             /\ UNCHANGED <<sub, historyVars>>
       /\ Forget(Resetter)
       /\ target' = [target EXCEPT ![Resetter] = NoSub]
       /\ UNCHANGED <<now, record, amount, goal, tries>>

-----------------------------------------------------------------------------
RequestStep(r) ==
    \/ Begin(r) \/ ReadSubscriptions(r) \/ PreConsume(r)
    \/ Settle(r) \/ AdjustTask(r) \/ PostRead(r) \/ PostCommit(r)
    \/ Refund(r) \/ RefundRead(r) \/ RefundSave(r)

ResetStep == ListDue \/ ReadReset \/ SaveReset

Admin(s) == CreateUserSubscription(s) \/ AdminInvalidate(s) \/ AdminDelete(s)

Next ==
    \/ Tick \/ ExpireDueSubscriptions \/ ResetStep
    \/ \E s \in Subs : Admin(s)
    \/ \E r \in Requests : RequestStep(r)

Spec == Init /\ [][Next]_vars

(* Transactions that have begun end, refunds go on, and the reset task     *)
(* runs.  A request need not begin, nor an administrator act.              *)
FairSpec ==
    /\ Spec
    /\ WF_vars(ResetStep)
    /\ \A r \in Requests :
          /\ WF_vars(ReadSubscriptions(r) \/ PreConsume(r))
          /\ WF_vars(PostRead(r) \/ PostCommit(r))
          /\ WF_vars(RefundRead(r) \/ RefundSave(r))

(***************************************************************************)
(* Invariants.                                                             *)
(***************************************************************************)

(* No row, and no copy a transaction has read of one, exceeds its quota.   *)
Within(row, s) == Total[s] # 0 => row.used <= Total[s]

UsedInv ==
    \A s \in Subs :
        /\ Within(sub[s], s)
        /\ \A a \in Actors : Within(mem[a][s], s)

(* A transaction that saves one row has read it.                           *)
ReadInv ==
    \A a \in Actors : pc[a] \in {"post", "adjustPost", "refundPost", "reset"} =>
        target[a] \in Subs /\ Exists(mem[a][target[a]])

(* A refund that has not given up has an attempt left; a request that has  *)
(* been admitted is charged to a subscription.                             *)
RequestInv ==
    \A r \in Requests :
        /\ pc[r] # "gaveUp" => tries[r] < Attempts
        /\ pc[r] \notin {"idle", "begin", "preConsume", "refused"} =>
              target[r] \in Subs

QuotaInv == TypeOK /\ UsedInv /\ ReadInv /\ RequestInv

(* What the requests have taken in the period of subscription s. *)
Charges(s) == [r \in Requests |-> IF target[r] = s THEN charged[r] ELSE 0]
ChargedTo(s) == SumFunctionOnSet(Charges(s), Requests)

(***************************************************************************)
(* Properties.                                                             *)
(***************************************************************************)

(* However the transactions of requests, resets and administrators         *)
(* interleave, no subscription gives more than its quota in a period, even *)
(* when a transaction saves a row over what another has saved meanwhile.   *)
UsedWithinTotal ==
    \A s \in Subs : Total[s] # 0 => sub[s].used <= Total[s]

(* A user never pays for more than the requests in the period have cost:   *)
(* no failure of a refund or a settlement, and no reset, is charged to the *)
(* subscription, as long as no transaction saved an outdated copy of it.   *)
NotOvercharged ==
    \A s \in Subs \ stale : Exists(sub[s]) => sub[s].used <= ChargedTo(s)

(* What a subscription shows as used is what its requests have taken, to   *)
(* the unit, unless it was reset, a refund was repeated, or a transaction  *)
(* saved an outdated copy of it: nothing else loses or invents a charge.   *)
UsedExact ==
    \A s \in Subs \ (voided \cup stale) :
        Exists(sub[s]) => sub[s].used = ChargedTo(s)

(* A refund takes effect once, however often refundWithRetry repeats it.   *)
RefundIdempotent == \A r \in Requests : restored[r] <= 1

(* An active subscription whose period is over is reset, even if a request *)
(* that had read the row saves the old period over the new one.            *)
DueIsReset ==
    \A s \in Subs :
        sub[s].status = "active" /\ ResetDue(sub[s], now)
           ~> ~ (sub[s].status = "active" /\ ResetDue(sub[s], now))

(* The goroutine of a refund ends.                                         *)
RefundEnds ==
    \A r \in Requests : At(r, "refund") ~> pc[r] \in {"refunded", "gaveUp"}
=============================================================================
