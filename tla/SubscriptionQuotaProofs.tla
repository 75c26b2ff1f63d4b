----------------------- MODULE SubscriptionQuotaProofs -----------------------
(***************************************************************************)
(* Proofs about SubscriptionQuota: its inductive invariant, that no        *)
(* subscription gives more than its quota, and that what it shows as used  *)
(* is exact where no transaction saved an outdated copy.                   *)
(***************************************************************************)
EXTENDS SubscriptionQuota, SumTheorems

LEMMA ActorFacts ==
    /\ \A r \in Requests : r \in Actors /\ r # Resetter
    /\ Resetter \in Actors
  BY SubscriptionAssumption DEF Actors

LEMMA RowFields ==
    ASSUME NEW row \in Row
    PROVE  /\ row.used \in Nat /\ row.next \in Nat /\ row.end \in Nat
           /\ \A n \in Nat : [row EXCEPT !.used = n] \in Row
           /\ \A n \in Nat : [row EXCEPT !.used = 0, !.next = n] \in Row
           /\ [row EXCEPT !.status = "expired"] \in Row
           /\ [row EXCEPT !.status = "deleted"] \in Row
           /\ \A n \in Nat : [row EXCEPT !.status = "cancelled", !.end = n] \in Row
  BY DEF Row

LEMMA NoRowFacts ==
    /\ NoRow \in Row /\ NoRows \in [Subs -> Row]
    /\ ~ Exists(NoRow)
    /\ \A s \in Subs : NoRows[s] = NoRow /\ Within(NoRow, s)
  BY SubscriptionAssumption DEF NoRow, NoRows, Row, Exists, Within

(* A reset keeps a row's type and status, and lowers its use.              *)
LEMMA MaybeResetRow ==
    ASSUME NEW row \in Row, NEW time \in Nat
    PROVE  /\ MaybeReset(row, time) \in Row
           /\ MaybeReset(row, time).status = row.status
           /\ MaybeReset(row, time).used <= row.used
  <1>1. NextReset(time, row.end) \in Nat
    BY DEF NextReset
  <1>2. [row EXCEPT !.used = 0, !.next = NextReset(time, row.end)] \in Row
    BY <1>1, RowFields
  <1>3. row.used \in Nat
    BY RowFields
  <1>4. CASE ResetDue(row, time) /\ row.next <= row.end
    <2>1. MaybeReset(row, time)
             = [row EXCEPT !.used = 0, !.next = NextReset(time, row.end)]
      BY <1>4 DEF MaybeReset
    <2>. QED
      BY <1>2, <1>3, <2>1 DEF Row
  <1>5. CASE ~ (ResetDue(row, time) /\ row.next <= row.end)
    BY <1>3, <1>5 DEF MaybeReset
  <1>. QED
    BY <1>4, <1>5

LEMMA WithinLess ==
    ASSUME NEW s \in Subs, NEW row \in Row, NEW new \in Row,
           Within(row, s), new.used <= row.used
    PROVE  Within(new, s)
  <1>1. Total[s] \in Nat /\ row.used \in Nat /\ new.used \in Nat
    BY SubscriptionAssumption, RowFields
  <1>. QED
    BY <1>1 DEF Within

(* Reading rows keeps the invariant about copies.                          *)
LEMMA ReadRowsInv ==
    ASSUME QuotaInv, NEW a \in Actors, NEW S \in SUBSET Subs, ReadRows(a, S),
           UNCHANGED sub
    PROVE  /\ mem' \in [Actors -> [Subs -> Row]]
           /\ \A b \in Actors \ {a} : mem'[b] = mem[b]
           /\ \A s \in S : mem'[a][s] = sub[s]
           /\ UsedInv'
  <1>1. mem' \in [Actors -> [Subs -> Row]]
    BY NoRowFacts DEF QuotaInv, TypeOK, ReadRows
  <1>2. \A b \in Actors \ {a} : mem'[b] = mem[b]
    BY DEF QuotaInv, TypeOK, ReadRows
  <1>3. \A s \in Subs : mem'[a][s] = IF s \in S THEN sub[s] ELSE NoRow
    BY DEF QuotaInv, TypeOK, ReadRows
  <1>4. UsedInv'
    <2>1. \A b \in Actors, s \in Subs : Within(mem'[b][s], s)
      BY <1>2, <1>3, NoRowFacts DEF QuotaInv, UsedInv
    <2>. QED
      BY <2>1 DEF QuotaInv, UsedInv, Within
  <1>. QED
    BY <1>1, <1>2, <1>3, <1>4

(* A transaction that ends may have saved any rows it has read.            *)
LEMMA SaveInv ==
    ASSUME QuotaInv, NEW a \in Actors, NEW S \in SUBSET Subs, Forget(a),
           sub' \in [Subs -> Row],
           \A s \in Subs \ S : sub'[s] = sub[s],
           \A s \in S : Within(sub'[s], s)
    PROVE  /\ mem' \in [Actors -> [Subs -> Row]]
           /\ \A b \in Actors \ {a} : mem'[b] = mem[b]
           /\ UsedInv'
  <1>1. mem' \in [Actors -> [Subs -> Row]]
    BY NoRowFacts DEF QuotaInv, TypeOK, Forget
  <1>2. \A b \in Actors \ {a} : mem'[b] = mem[b]
    BY DEF QuotaInv, TypeOK, Forget
  <1>3. \A s \in Subs : mem'[a][s] = NoRow
    BY NoRowFacts DEF QuotaInv, TypeOK, Forget
  <1>4. UsedInv'
    <2>1. \A b \in Actors, s \in Subs : Within(mem'[b][s], s)
      BY <1>2, <1>3, NoRowFacts DEF QuotaInv, UsedInv
    <2>2. \A s \in Subs : Within(sub'[s], s)
      BY DEF QuotaInv, UsedInv
    <2>. QED
      BY <2>1, <2>2 DEF UsedInv, Within
  <1>. QED
    BY <1>1, <1>2, <1>4

(* Rows may change under the copies of transactions.                       *)
LEMMA UpdateInv ==
    ASSUME QuotaInv, NEW S \in SUBSET Subs, UNCHANGED mem,
           sub' \in [Subs -> Row],
           \A s \in Subs \ S : sub'[s] = sub[s],
           \A s \in S : Within(sub'[s], s)
    PROVE  UsedInv'
  <1>1. \A s \in Subs : Within(sub'[s], s)
    BY DEF QuotaInv, UsedInv
  <1>. QED
    BY <1>1 DEF QuotaInv, UsedInv, Within

LEMMA SavesType ==
    ASSUME QuotaInv, NEW a, NEW S \in SUBSET Subs, Saves(a, S)
    PROVE  stale' \in SUBSET Subs
  BY DEF QuotaInv, TypeOK, Saves

-----------------------------------------------------------------------------
(* What one actor's step leaves alone.                                     *)

Saving == {"post", "adjustPost", "refundPost", "reset"}

Unadmitted == {"idle", "begin", "preConsume", "refused"}

LEMMA PcFrame ==
    ASSUME QuotaInv, NEW a \in Actors, NEW step \in Steps, Goes(a, step),
           \A b \in Actors \ {a} : mem'[b] = mem[b] /\ target'[b] = target[b],
           step \in Saving =>
              target'[a] \in Subs /\ Exists(mem'[a][target'[a]])
    PROVE  pc' \in [Actors -> Steps] /\ ReadInv'
  <1>1. pc' \in [Actors -> Steps] /\ pc'[a] = step
        /\ \A b \in Actors \ {a} : pc'[b] = pc[b]
    BY DEF QuotaInv, TypeOK, Goes
  <1>2. ReadInv'
    <2>. SUFFICES ASSUME NEW b \in Actors, pc'[b] \in Saving
                  PROVE  target'[b] \in Subs /\ Exists(mem'[b][target'[b]])
      BY DEF ReadInv, Exists, Saving
    <2>1. CASE b = a
      BY <1>1, <2>1
    <2>2. CASE b # a
      BY <1>1, <2>2 DEF QuotaInv, ReadInv, Saving
    <2>. QED
      BY <2>1, <2>2
  <1>. QED
    BY <1>1, <1>2

LEMMA RequestFrame ==
    ASSUME QuotaInv, NEW r \in Requests, NEW step \in Steps, Goes(r, step),
           \A q \in Requests \ {r} : target'[q] = target[q] /\ tries'[q] = tries[q],
           step # "gaveUp" => tries'[r] < Attempts,
           step \notin Unadmitted => target'[r] \in Subs
    PROVE  RequestInv'
  <1>1. pc'[r] = step /\ \A q \in Requests \ {r} : pc'[q] = pc[q]
    BY ActorFacts DEF QuotaInv, TypeOK, Goes
  <1>. QED
    BY <1>1 DEF QuotaInv, RequestInv, Unadmitted

(* An attempt at a refund that fails leaves another, or is the last.       *)
LEMMA RetryFacts ==
    ASSUME QuotaInv, NEW r \in Requests, pc[r] # "gaveUp", Retry(r)
    PROVE  \E step \in {"gaveUp", "refund"} :
              /\ Goes(r, step)
              /\ tries' \in [Requests -> 0..Attempts]
              /\ \A q \in Requests \ {r} : tries'[q] = tries[q]
              /\ step # "gaveUp" => tries'[r] < Attempts
  <1>1. tries[r] \in 0..Attempts /\ tries[r] < Attempts
    BY DEF QuotaInv, TypeOK, RequestInv
  <1>2. tries' = [tries EXCEPT ![r] = tries[r] + 1]
    BY DEF Retry
  <1>3. /\ tries' \in [Requests -> 0..Attempts]
        /\ \A q \in Requests \ {r} : tries'[q] = tries[q]
        /\ tries'[r] = tries[r] + 1
    BY <1>1, <1>2 DEF QuotaInv, TypeOK, Attempts
  <1>. QED
    BY <1>1, <1>3 DEF Retry, Attempts

LEMMA PostFailedFacts ==
    ASSUME QuotaInv, NEW r \in Requests, PostFailed(r)
    PROVE  \E step \in {"unsettled", "done", "gaveUp", "refund"} :
              /\ Goes(r, step)
              /\ tries' \in [Requests -> 0..Attempts]
              /\ \A q \in Requests \ {r} : tries'[q] = tries[q]
              /\ step # "gaveUp" => tries'[r] < Attempts
  <1>1. CASE pc[r] \in {"refundDelta", "refundPost"} /\ Retry(r)
    BY <1>1, RetryFacts
  <1>2. CASE pc[r] \in {"settle", "post"} /\ Goes(r, "unsettled") /\ UNCHANGED tries
    BY <1>2 DEF QuotaInv, TypeOK, RequestInv
  <1>3. CASE pc[r] \in {"adjust", "adjustPost"} /\ Goes(r, "done") /\ UNCHANGED tries
    BY <1>3 DEF QuotaInv, TypeOK, RequestInv
  <1>. QED
    BY <1>1, <1>2, <1>3 DEF PostFailed

-----------------------------------------------------------------------------
(* The steps of requests. *)

(* The data of requests have their types. *)
RequestType ==
    /\ record \in [Requests -> {"none", "consumed", "refunded"}]
    /\ amount \in [Requests -> Nat] /\ goal \in [Requests -> Nat]
    /\ tries \in [Requests -> 0..Attempts]
    /\ charged \in [Requests -> Nat]
    /\ restored \in [Requests -> Nat]
    /\ voided \subseteq Subs /\ stale \subseteq Subs

(* A step of request r that saves nothing and reads no row.                *)
LEMMA QuietRequest ==
    ASSUME QuotaInv, NEW r \in Requests, NEW step \in Steps \ Saving, Goes(r, step),
           UNCHANGED <<now, listed, sub, mem, target>>,
           clock' \in [Actors -> 0..Horizon], RequestType',
           \A q \in Requests \ {r} : tries'[q] = tries[q],
           step # "gaveUp" => tries'[r] < Attempts,
           step \notin Unadmitted => target[r] \in Subs
    PROVE  QuotaInv'
  <1>1. UsedInv'
    BY UpdateInv, {} \in SUBSET Subs DEF QuotaInv, TypeOK
  <1>2. pc' \in [Actors -> Steps] /\ ReadInv'
    BY PcFrame, ActorFacts
  <1>3. RequestInv'
    BY RequestFrame
  <1>4. TypeOK'
    BY <1>2 DEF QuotaInv, TypeOK, RequestType
  <1>. QED
    BY <1>1, <1>2, <1>3, <1>4 DEF QuotaInv

LEMMA BeginInv ==
    ASSUME QuotaInv, NEW r \in Requests, Begin(r)
    PROVE  QuotaInv'
  <1>1. RequestType' /\ clock' \in [Actors -> 0..Horizon]
    BY SubscriptionAssumption DEF QuotaInv, TypeOK, RequestType, Begin, historyVars
  <1>2. tries[r] < Attempts
    BY DEF QuotaInv, RequestInv, Begin, At
  <1>. QED
    BY <1>1, <1>2, QuietRequest DEF Begin, Steps, Saving, Unadmitted

LEMMA GoalInv ==
    ASSUME QuotaInv, NEW r \in Requests, Settle(r) \/ AdjustTask(r) \/ Refund(r)
    PROVE  QuotaInv'
  <1>1. /\ UNCHANGED <<now, listed, sub, mem, target, clock, tries>>
        /\ UNCHANGED <<record, amount, historyVars>>
        /\ goal' \in [Requests -> Nat]
        /\ \E step \in {"settled", "settle", "adjust", "refund"} : Goes(r, step)
    <2>1. CASE Settle(r)
      BY <2>1, SubscriptionAssumption DEF QuotaInv, TypeOK, Settle
    <2>2. CASE AdjustTask(r)
      BY <2>2, SubscriptionAssumption DEF QuotaInv, TypeOK, AdjustTask
    <2>3. CASE Refund(r)
      BY <2>3 DEF QuotaInv, TypeOK, Refund
    <2>. QED
      BY <2>1, <2>2, <2>3
  <1>2. tries[r] < Attempts /\ target[r] \in Subs
    BY DEF QuotaInv, RequestInv, Settle, AdjustTask, Refund, At
  <1>3. PICK step \in {"settled", "settle", "adjust", "refund"} : Goes(r, step)
    BY <1>1
  <1>4. step \in Steps \ Saving /\ clock' \in [Actors -> 0..Horizon] /\ RequestType'
    BY <1>1 DEF Steps, Saving, QuotaInv, TypeOK, RequestType, historyVars
  <1>. QED
    BY <1>1, <1>2, <1>3, <1>4, QuietRequest

LEMMA RefundRecordInv ==
    ASSUME QuotaInv, NEW r \in Requests, RefundRead(r) \/ RefundSave(r)
    PROVE  QuotaInv'
  <1>1. pc[r] # "gaveUp" /\ target[r] \in Subs /\ tries[r] < Attempts
    BY DEF QuotaInv, RequestInv, RefundRead, RefundSave, At
  <1>2. /\ UNCHANGED <<now, listed, sub, mem, target, clock, amount, goal>>
        /\ UNCHANGED historyVars
        /\ record' \in [Requests -> {"none", "consumed", "refunded"}]
    BY DEF QuotaInv, TypeOK, RefundRead, RefundSave
  <1>3. \E step \in {"gaveUp", "refund", "refunded", "refundDelta"} :
           /\ Goes(r, step)
           /\ tries' \in [Requests -> 0..Attempts]
           /\ \A q \in Requests \ {r} : tries'[q] = tries[q]
           /\ step # "gaveUp" => tries'[r] < Attempts
    <2>1. CASE Retry(r)
      BY <1>1, <2>1, RetryFacts
    <2>2. CASE UNCHANGED tries
      BY <1>1, <2>2, RetryFacts DEF RefundRead, RefundSave, QuotaInv, TypeOK
    <2>. QED
      BY <2>1, <2>2 DEF RefundRead, RefundSave
  <1>4. PICK step \in {"gaveUp", "refund", "refunded", "refundDelta"} :
           /\ Goes(r, step)
           /\ tries' \in [Requests -> 0..Attempts]
           /\ \A q \in Requests \ {r} : tries'[q] = tries[q]
           /\ step # "gaveUp" => tries'[r] < Attempts
    BY <1>3
  <1>5. step \in Steps \ Saving /\ clock' \in [Actors -> 0..Horizon] /\ RequestType'
    BY <1>2, <1>4 DEF Steps, Saving, QuotaInv, TypeOK, RequestType, historyVars
  <1>. QED
    BY <1>1, <1>2, <1>4, <1>5, QuietRequest

-----------------------------------------------------------------------------
(* The transactions of requests. *)

(* A step of request r that may read rows or save those it has read.       *)
LEMMA TransactionInv ==
    ASSUME QuotaInv, NEW r \in Requests, NEW step \in Steps, Goes(r, step),
           UNCHANGED <<now, listed>>, RequestType',
           clock' \in [Actors -> 0..Horizon],
           sub' \in [Subs -> Row],
           mem' \in [Actors -> [Subs -> Row]],
           target' \in [Actors -> Subs \cup {NoSub}],
           \A b \in Actors \ {r} : mem'[b] = mem[b] /\ target'[b] = target[b],
           \A q \in Requests \ {r} : tries'[q] = tries[q],
           UsedInv',
           step # "gaveUp" => tries'[r] < Attempts,
           step \notin Unadmitted => target'[r] \in Subs,
           step \in Saving => Exists(mem'[r][target'[r]])
    PROVE  QuotaInv'
  <1>1. step \in Saving => target'[r] \in Subs
    BY DEF Saving, Unadmitted
  <1>2. pc' \in [Actors -> Steps] /\ ReadInv'
    BY <1>1, PcFrame, ActorFacts
  <1>3. RequestInv'
    BY RequestFrame, ActorFacts
  <1>4. TypeOK'
    BY <1>2 DEF QuotaInv, TypeOK, RequestType
  <1>. QED
    BY <1>2, <1>3, <1>4 DEF QuotaInv

LEMMA ReadSubscriptionsInv ==
    ASSUME QuotaInv, NEW r \in Requests, ReadSubscriptions(r)
    PROVE  QuotaInv'
  <1>1. PICK S \in SUBSET Subs : ReadRows(r, S)
    BY DEF ReadSubscriptions
  <1>2. PICK step \in {"refused", "preConsume"} : Goes(r, step)
    BY DEF ReadSubscriptions
  <1>3. UNCHANGED <<now, listed, sub, record, clock, target, amount, goal, tries,
                    charged, restored, voided, stale>>
    BY DEF ReadSubscriptions, sessionVars, historyVars
  <1>4. /\ mem' \in [Actors -> [Subs -> Row]]
        /\ \A b \in Actors \ {r} : mem'[b] = mem[b]
        /\ UsedInv'
    BY <1>1, <1>3, ReadRowsInv, ActorFacts
  <1>5. RequestType' /\ sub' \in [Subs -> Row] /\ clock' \in [Actors -> 0..Horizon]
        /\ target' \in [Actors -> Subs \cup {NoSub}]
    BY <1>3 DEF QuotaInv, TypeOK, RequestType
  <1>6. tries[r] < Attempts
    BY DEF QuotaInv, RequestInv, ReadSubscriptions, At
  <1>7. step \in Steps /\ step \notin Saving /\ step \in Unadmitted
    BY DEF Steps, Saving, Unadmitted
  <1>. QED
    BY <1>2, <1>3, <1>4, <1>5, <1>6, <1>7, TransactionInv

LEMMA PostReadInv ==
    ASSUME QuotaInv, NEW r \in Requests, PostRead(r)
    PROVE  QuotaInv'
  <1>1. UNCHANGED <<now, listed, sub, record, clock, target, amount, goal,
                    charged, restored, voided, stale>>
    BY DEF PostRead, historyVars
  <1>2. target[r] \in Subs /\ tries[r] < Attempts
    BY DEF PostRead, QuotaInv, RequestInv
  <1>3. /\ sub' \in [Subs -> Row] /\ clock' \in [Actors -> 0..Horizon]
        /\ target' \in [Actors -> Subs \cup {NoSub}]
        /\ tries' \in [Requests -> 0..Attempts] => RequestType'
    BY <1>1 DEF QuotaInv, TypeOK, RequestType
  <1>4. CASE Exists(sub[target[r]]) /\ ReadRows(r, {target[r]}) /\ UNCHANGED tries
             /\ \E step \in {"post", "adjustPost", "refundPost"} : Goes(r, step)
    <2>1. PICK step \in {"post", "adjustPost", "refundPost"} : Goes(r, step)
      BY <1>4
    <2>2. /\ mem' \in [Actors -> [Subs -> Row]]
          /\ \A b \in Actors \ {r} : mem'[b] = mem[b]
          /\ mem'[r][target[r]] = sub[target[r]]
          /\ UsedInv'
      BY <1>1, <1>2, <1>4, ReadRowsInv, ActorFacts, {target[r]} \in SUBSET Subs
    <2>3. RequestType'
      BY <1>3, <1>4 DEF QuotaInv, TypeOK
    <2>4. Exists(mem'[r][target'[r]])
      BY <1>1, <1>4, <2>2
    <2>5. step \in Steps
      BY DEF Steps
    <2>. QED
      BY <1>1, <1>2, <1>3, <1>4, <2>1, <2>2, <2>3, <2>4, <2>5, TransactionInv
  <1>5. CASE PostFailed(r) /\ UNCHANGED mem
    <2>1. PICK step \in {"unsettled", "done", "gaveUp", "refund"} :
             /\ Goes(r, step)
             /\ tries' \in [Requests -> 0..Attempts]
             /\ \A q \in Requests \ {r} : tries'[q] = tries[q]
             /\ step # "gaveUp" => tries'[r] < Attempts
      BY <1>5, PostFailedFacts
    <2>2. step \in Steps \ Saving
      BY DEF Steps, Saving
    <2>. QED
      BY <1>1, <1>2, <1>3, <1>5, <2>1, <2>2, QuietRequest
  <1>. QED
    BY <1>4, <1>5 DEF PostRead

LEMMA ClockEnds ==
    ASSUME QuotaInv, NEW a \in Actors, EndTransaction(a)
    PROVE  clock' \in [Actors -> 0..Horizon]
  <1>1. 0 \in 0..Horizon
    BY SubscriptionAssumption
  <1>2. clock' = [clock EXCEPT ![a] = 0]
    BY DEF EndTransaction
  <1>. QED
    BY <1>1, <1>2 DEF QuotaInv, TypeOK

(* A transaction that is rolled back saves nothing.                        *)
LEMMA RollbackInv ==
    ASSUME QuotaInv, NEW r \in Requests, NEW step \in Steps \ Saving,
           Goes(r, step), Rollback(r),
           UNCHANGED <<now, listed, target, amount, goal>>,
           tries' \in [Requests -> 0..Attempts],
           \A q \in Requests \ {r} : tries'[q] = tries[q],
           step # "gaveUp" => tries'[r] < Attempts,
           step \notin Unadmitted => target[r] \in Subs
    PROVE  QuotaInv'
  <1>1. UNCHANGED <<sub, record, charged, restored, voided, stale>> /\ Forget(r)
    BY DEF Rollback, EndTransaction, historyVars
  <1>2. /\ mem' \in [Actors -> [Subs -> Row]]
        /\ \A b \in Actors \ {r} : mem'[b] = mem[b]
        /\ UsedInv'
    BY <1>1, SaveInv, ActorFacts, {} \in SUBSET Subs DEF QuotaInv, TypeOK
  <1>3. /\ RequestType' /\ sub' \in [Subs -> Row]
        /\ target' \in [Actors -> Subs \cup {NoSub}]
    BY <1>1 DEF QuotaInv, TypeOK, RequestType
  <1>4. clock' \in [Actors -> 0..Horizon]
    BY ClockEnds, ActorFacts DEF Rollback
  <1>. QED
    BY <1>1, <1>2, <1>3, <1>4, TransactionInv

(* A reset forgets, a charge adds, and neither makes a count negative.     *)
LEMMA AtLeast0Nat ==
    ASSUME NEW n \in Int
    PROVE  AtLeast0(n) \in Nat
  BY DEF AtLeast0

(* The rows a request saves when it pre-consumes: those it has read, none  *)
(* of which exceeds its quota afterwards.                                  *)
LEMMA ChargedRow ==
    ASSUME NEW s \in Subs, NEW row \in Row, NEW n \in Nat, Fits(row, s, n)
    PROVE  /\ [row EXCEPT !.used = @ + n] \in Row
           /\ [row EXCEPT !.used = @ + n].status = row.status
           /\ Within([row EXCEPT !.used = @ + n], s)
  <1>1. row.used \in Nat /\ Total[s] \in Nat
    BY RowFields, SubscriptionAssumption
  <1>2. [row EXCEPT !.used = @ + n] \in Row
    <2>1. row.used + n \in Nat
      BY <1>1
    <2>. QED
      BY <2>1 DEF Row
  <1>3. [row EXCEPT !.used = @ + n].used = row.used + n
        /\ [row EXCEPT !.used = @ + n].status = row.status
    BY DEF Row
  <1>. QED
    BY <1>1, <1>2, <1>3 DEF Fits, Within

LEMMA PreConsumed ==
    ASSUME QuotaInv, NEW r \in Requests, PreConsume(r), sub' # sub
    PROVE  \E S \in SUBSET Subs :
              /\ \A t \in S : /\ Exists(mem[r][t]) /\ Within(sub'[t], t)
                             /\ sub'[t].status = mem[r][t].status
              /\ \A t \in Subs \ S : sub'[t] = sub[t]
              /\ sub' \in [Subs -> Row]
  <1>. DEFINE read == {s \in Subs : Exists(mem[r][s])}
              row(s) == MaybeReset(mem[r][s], clock[r])
              fit == {s \in read : Fits(row(s), s, amount[r])}
              tried(s) == {t \in read : t = s \/ Before(r, t, s)}
              reset(s) == {t \in tried(s) : row(t) # mem[r][t]}
  <1>1. PICK s \in fit :
           sub' = [t \in Subs |->
                      IF t = s THEN [row(s) EXCEPT !.used = @ + amount[r]]
                      ELSE IF t \in reset(s) THEN row(t) ELSE sub[t]]
    BY DEF PreConsume, Rollback
  <1>. DEFINE S == {s} \cup reset(s)
  <1>2. S \in SUBSET Subs /\ \A t \in S : Exists(mem[r][t])
    OBVIOUS
  <1>3. \A t \in Subs : /\ row(t) \in Row /\ row(t).status = mem[r][t].status
                        /\ Within(row(t), t)
    <2>. TAKE t \in Subs
    <2>1. mem[r][t] \in Row /\ Within(mem[r][t], t) /\ clock[r] \in Nat
      BY ActorFacts, SubscriptionAssumption DEF QuotaInv, TypeOK, UsedInv
    <2>. QED
      BY <2>1, MaybeResetRow, WithinLess
  <1>4. /\ sub'[s] \in Row /\ Within(sub'[s], s)
        /\ sub'[s].status = mem[r][s].status
    <2>1. s \in Subs /\ Fits(row(s), s, amount[r]) /\ amount[r] \in Nat
      BY DEF QuotaInv, TypeOK
    <2>2. sub'[s] = [row(s) EXCEPT !.used = @ + amount[r]]
      BY <1>1, <2>1
    <2>3. row(s) \in Row /\ row(s).status = mem[r][s].status
      BY <1>3, <2>1
    <2>. HIDE DEF row
    <2>. QED
      BY <2>1, <2>2, <2>3, ChargedRow
  <1>5. \A t \in S \ {s} : sub'[t] = row(t)
    BY <1>1, <1>2
  <1>6. \A t \in Subs \ S : sub'[t] = sub[t]
    BY <1>1
  <1>7. \A t \in S : /\ sub'[t] \in Row /\ Within(sub'[t], t)
                     /\ sub'[t].status = mem[r][t].status
    BY <1>2, <1>3, <1>4, <1>5
  <1>8. sub' \in [Subs -> Row]
    <2>1. \A t \in Subs : sub'[t] \in Row
      BY <1>6, <1>7 DEF QuotaInv, TypeOK
    <2>. QED
      BY <1>1, <2>1
  <1>. QED
    BY <1>2, <1>6, <1>7, <1>8

LEMMA PreConsumeInv ==
    ASSUME QuotaInv, NEW r \in Requests, PreConsume(r)
    PROVE  QuotaInv'
  <1>1. pc[r] = "preConsume" /\ tries[r] < Attempts
        /\ UNCHANGED <<now, listed, amount, goal, tries>>
    BY DEF PreConsume, At, QuotaInv, RequestInv
  <1>2. CASE Goes(r, "refused") /\ Rollback(r) /\ UNCHANGED target
    <2>1. "refused" \in Steps \ Saving /\ "refused" \in Unadmitted
      BY DEF Steps, Saving, Unadmitted
    <2>2. tries' \in [Requests -> 0..Attempts]
      BY <1>1 DEF QuotaInv, TypeOK
    <2>. QED
      BY <1>1, <1>2, <2>1, <2>2, RollbackInv
  <1>3. CASE /\ Goes(r, "admitted") /\ EndTransaction(r) /\ UNCHANGED restored
             /\ stale' \in SUBSET Subs
             /\ record' = [record EXCEPT ![r] = "consumed"]
             /\ \E s \in Subs, S \in SUBSET Subs :
                   /\ target' = [target EXCEPT ![r] = s]
                   /\ charged' = [Forgotten(S) EXCEPT ![r] = amount[r]]
                   /\ voided' = voided \cup S
    <2>1. PICK s \in Subs, S \in SUBSET Subs :
                   /\ target' = [target EXCEPT ![r] = s]
                   /\ charged' = [Forgotten(S) EXCEPT ![r] = amount[r]]
                   /\ voided' = voided \cup S
      BY <1>3
    <2>2. /\ target' \in [Actors -> Subs \cup {NoSub}]
          /\ \A b \in Actors \ {r} : target'[b] = target[b]
          /\ target'[r] \in Subs
      BY <2>1, ActorFacts DEF QuotaInv, TypeOK
    <2>3. charged' \in [Requests -> Nat]
      <3>1. Forgotten(S) \in [Requests -> Nat]
        BY DEF Forgotten, QuotaInv, TypeOK
      <3>. QED
        BY <2>1, <3>1 DEF QuotaInv, TypeOK
    <2>4. RequestType'
      BY <1>1, <1>3, <2>1, <2>3 DEF QuotaInv, TypeOK, RequestType
    <2>5. clock' \in [Actors -> 0..Horizon]
      BY <1>3, ClockEnds, ActorFacts
    <2>6. PICK W \in SUBSET Subs :
             /\ \A t \in W : Exists(mem[r][t]) /\ Within(sub'[t], t)
             /\ \A t \in Subs \ W : sub'[t] = sub[t]
             /\ sub' \in [Subs -> Row]
      <3>1. CASE sub' # sub
        BY <3>1, PreConsumed
      <3>2. CASE sub' = sub
        BY <3>2, {} \in SUBSET Subs DEF QuotaInv, TypeOK
      <3>. QED
        BY <3>1, <3>2
    <2>7. /\ mem' \in [Actors -> [Subs -> Row]]
          /\ \A b \in Actors \ {r} : mem'[b] = mem[b]
          /\ UsedInv'
      BY <1>3, <2>6, SaveInv, ActorFacts DEF EndTransaction
    <2>8. "admitted" \in Steps /\ "admitted" \notin Saving
      BY DEF Steps, Saving
    <2>. QED
      BY <1>1, <1>3, <2>2, <2>4, <2>5, <2>6, <2>7, <2>8, TransactionInv
  <1>4. \A S \in SUBSET Subs : Saves(r, S) => stale' \in SUBSET Subs
    BY SavesType
  <1>. QED
    BY <1>2, <1>3, <1>4 DEF PreConsume

LEMMA PostCommitInv ==
    ASSUME QuotaInv, NEW r \in Requests, PostCommit(r)
    PROVE  QuotaInv'
  <1>. DEFINE s == target[r]
              newUsed == AtLeast0(mem[r][s].used + Delta(r))
              owed == charged[r] + goal[r] - amount[r]
  <1>1. /\ s \in Subs /\ Exists(mem[r][s]) /\ tries[r] < Attempts
        /\ UNCHANGED <<now, listed, target, goal>>
    <2>1. pc[r] \in Saving /\ UNCHANGED <<now, listed, target, goal>>
      BY DEF PostCommit, Saving
    <2>2. s \in Subs /\ Exists(mem[r][s])
      BY <2>1, ActorFacts DEF QuotaInv, ReadInv, Saving
    <2>3. tries[r] < Attempts
      BY <2>1 DEF QuotaInv, RequestInv, Saving
    <2>. QED
      BY <2>1, <2>2, <2>3
  <1>2. /\ mem[r][s] \in Row /\ goal[r] \in Nat /\ amount[r] \in Nat
        /\ charged[r] \in Nat /\ restored[r] \in Nat
    BY <1>1, ActorFacts DEF QuotaInv, TypeOK
  <1>3. newUsed \in Nat /\ AtLeast0(owed) \in Nat
    <2>1. mem[r][s].used \in Nat
      BY <1>2 DEF Row
    <2>2. mem[r][s].used + Delta(r) \in Int /\ owed \in Int
      BY <1>2, <2>1 DEF Delta
    <2>. QED
      BY <2>2, AtLeast0Nat
  <1>4. CASE PostFailed(r) /\ Rollback(r) /\ UNCHANGED amount
    <2>1. PICK step \in {"unsettled", "done", "gaveUp", "refund"} :
             /\ Goes(r, step)
             /\ tries' \in [Requests -> 0..Attempts]
             /\ \A q \in Requests \ {r} : tries'[q] = tries[q]
             /\ step # "gaveUp" => tries'[r] < Attempts
      BY <1>4, PostFailedFacts
    <2>2. step \in Steps \ Saving
      BY DEF Steps, Saving
    <2>. QED
      BY <1>1, <1>4, <2>1, <2>2, RollbackInv
  <1>5. CASE /\ Total[s] = 0 \/ newUsed <= Total[s]
             /\ sub' = [sub EXCEPT ![s] = [mem[r][s] EXCEPT !.used = newUsed]]
             /\ charged' = [charged EXCEPT ![r] = AtLeast0(owed)]
             /\ voided' = voided \/ voided' = voided \cup {s}
             /\ Saves(r, {s})
             /\ \/ amount' = [amount EXCEPT ![r] = goal[r]] /\ UNCHANGED restored
                \/ restored' = [restored EXCEPT ![r] = @ + 1] /\ UNCHANGED amount
             /\ \E step \in {"settled", "done", "refundSave"} : Goes(r, step)
             /\ EndTransaction(r) /\ UNCHANGED <<record, tries>>
    <2>1. PICK step \in {"settled", "done", "refundSave"} : Goes(r, step)
      BY <1>5
    <2>2. step \in Steps /\ step \notin Saving
      BY DEF Steps, Saving
    <2>. DEFINE saved == [mem[r][s] EXCEPT !.used = newUsed]
    <2>3. saved \in Row /\ Within(saved, s)
      <3>1. saved \in Row /\ saved.used = newUsed
        BY <1>2, <1>3, RowFields DEF Row
      <3>. QED
        BY <1>5, <3>1 DEF Within
    <2>4. /\ sub' \in [Subs -> Row] /\ sub'[s] = saved
          /\ \A t \in Subs \ {s} : sub'[t] = sub[t]
      BY <1>1, <1>5, <2>3 DEF QuotaInv, TypeOK
    <2>5. /\ mem' \in [Actors -> [Subs -> Row]]
          /\ \A b \in Actors \ {r} : mem'[b] = mem[b]
          /\ UsedInv'
      <3>1. \A t \in {s} : Exists(mem[r][t]) /\ Within(sub'[t], t)
        BY <1>1, <2>3, <2>4
      <3>2. {s} \in SUBSET Subs /\ Forget(r) /\ r \in Actors
        BY <1>1, <1>5, ActorFacts DEF EndTransaction
      <3>. HIDE DEF s
      <3>. QED
        BY <2>4, <3>1, <3>2, SaveInv
    <2>6. /\ charged' \in [Requests -> Nat] /\ amount' \in [Requests -> Nat]
          /\ restored' \in [Requests -> Nat] /\ voided' \subseteq Subs
          /\ stale' \subseteq Subs
      <3>1. stale' \subseteq Subs
        <4>1. s \in Subs /\ Saves(r, {s}) /\ stale \subseteq Subs
          BY <1>1, <1>5 DEF QuotaInv, TypeOK
        <4>. HIDE DEF s
        <4>. QED
          BY <4>1 DEF Saves
      <3>. HIDE DEF s, newUsed, owed, saved
      <3>2. /\ charged \in [Requests -> Nat] /\ amount \in [Requests -> Nat]
            /\ restored \in [Requests -> Nat] /\ voided \subseteq Subs
        BY DEF QuotaInv, TypeOK
      <3>3. charged' \in [Requests -> Nat] /\ voided' \subseteq Subs
        BY <1>1, <1>3, <1>5, <3>2
      <3>4. amount' \in [Requests -> Nat] /\ restored' \in [Requests -> Nat]
        BY <1>2, <1>5, <3>2
      <3>. QED
        BY <3>1, <3>3, <3>4
    <2>7. RequestType' /\ target' \in [Actors -> Subs \cup {NoSub}]
      BY <1>1, <1>5, <2>6 DEF QuotaInv, TypeOK, RequestType
    <2>8. clock' \in [Actors -> 0..Horizon]
      BY <1>5, ClockEnds, ActorFacts
    <2>. QED
      BY <1>1, <1>5, <2>1, <2>2, <2>4, <2>5, <2>7, <2>8, TransactionInv
  <1>. QED
    BY <1>4, <1>5 DEF PostCommit

-----------------------------------------------------------------------------
(* The reset task, and the steps that concern no request. *)

(* Steps of the reset task leave requests to themselves.                   *)
LEMMA ResetFrame ==
    ASSUME QuotaInv, NEW step \in Steps, Goes(Resetter, step), UNCHANGED tries,
           \A r \in Requests : target'[r] = target[r]
    PROVE  RequestInv'
  <1>1. \A r \in Requests : pc'[r] = pc[r]
    BY ActorFacts DEF QuotaInv, TypeOK, Goes
  <1>. QED
    BY <1>1 DEF QuotaInv, RequestInv

LEMMA ContinueFacts ==
    ASSUME QuotaInv, NEW S \in SUBSET Subs, Continue(S)
    PROVE  /\ listed' \subseteq Subs
           /\ clock' \in [Actors -> 0..Horizon]
           /\ \E step \in {"idle", "readReset"} : Goes(Resetter, step)
  <1>1. 0 \in 0..Horizon
    BY SubscriptionAssumption
  <1>2. clock' = [clock EXCEPT ![Resetter] = 0] \/ clock' = clock
    BY DEF Continue
  <1>3. clock' \in [Actors -> 0..Horizon]
    BY <1>1, <1>2 DEF QuotaInv, TypeOK
  <1>. QED
    BY <1>3 DEF Continue

LEMMA ListDueInv ==
    ASSUME QuotaInv, ListDue
    PROVE  QuotaInv'
  <1>1. /\ UNCHANGED <<now, sub, record, mem, target, amount, goal, tries,
                       charged, restored, voided, stale>>
        /\ Goes(Resetter, "readReset")
    BY DEF ListDue, sessionVars, historyVars
  <1>2. listed' \subseteq Subs /\ clock' \in [Actors -> 0..Horizon]
    BY DEF ListDue, QuotaInv, TypeOK
  <1>3. "readReset" \in Steps /\ "readReset" \notin Saving
    BY DEF Steps, Saving
  <1>4. UsedInv'
    BY <1>1, UpdateInv, {} \in SUBSET Subs DEF QuotaInv, TypeOK
  <1>5. pc' \in [Actors -> Steps] /\ ReadInv'
    BY <1>1, <1>3, PcFrame, ActorFacts
  <1>6. RequestInv'
    BY <1>1, <1>3, ResetFrame
  <1>7. TypeOK'
    BY <1>1, <1>2, <1>5 DEF QuotaInv, TypeOK
  <1>. QED
    BY <1>4, <1>5, <1>6, <1>7 DEF QuotaInv

LEMMA ReadResetInv ==
    ASSUME QuotaInv, ReadReset
    PROVE  QuotaInv'
  <1>1. UNCHANGED <<now, sub, record, amount, goal, tries, charged, restored, voided, stale>>
    BY DEF ReadReset, historyVars
  <1>2. CASE \E s \in listed :
                /\ Exists(sub[s]) /\ ReadRows(Resetter, {s})
                /\ target' = [target EXCEPT ![Resetter] = s]
                /\ Goes(Resetter, "reset") /\ UNCHANGED <<listed, clock>>
    <2>1. PICK s \in listed :
                /\ Exists(sub[s]) /\ ReadRows(Resetter, {s})
                /\ target' = [target EXCEPT ![Resetter] = s]
                /\ Goes(Resetter, "reset") /\ UNCHANGED <<listed, clock>>
      BY <1>2
    <2>2. s \in Subs
      BY DEF QuotaInv, TypeOK
    <2>3. /\ mem' \in [Actors -> [Subs -> Row]]
          /\ \A b \in Actors \ {Resetter} : mem'[b] = mem[b]
          /\ mem'[Resetter][s] = sub[s]
          /\ UsedInv'
      BY <1>1, <2>1, <2>2, {s} \in SUBSET Subs, ReadRowsInv, ActorFacts
    <2>4. /\ target' \in [Actors -> Subs \cup {NoSub}] /\ target'[Resetter] = s
          /\ \A b \in Actors \ {Resetter} : target'[b] = target[b]
      BY <2>1, <2>2, ActorFacts DEF QuotaInv, TypeOK
    <2>5. pc' \in [Actors -> Steps] /\ ReadInv'
      <3>1. "reset" \in Steps
        BY DEF Steps
      <3>2. Exists(mem'[Resetter][target'[Resetter]]) /\ target'[Resetter] \in Subs
        BY <2>1, <2>2, <2>3, <2>4
      <3>. QED
        BY <2>1, <2>3, <2>4, <3>1, <3>2, PcFrame, ActorFacts
    <2>6. RequestInv'
      BY <1>1, <2>1, <2>4, ResetFrame, ActorFacts DEF Steps
    <2>7. TypeOK'
      BY <1>1, <2>1, <2>3, <2>4, <2>5 DEF QuotaInv, TypeOK
    <2>. QED
      BY <2>3, <2>5, <2>6, <2>7 DEF QuotaInv
  <1>3. CASE \E S \in SUBSET Subs : Continue(S) /\ UNCHANGED <<mem, target>>
    <2>1. /\ listed' \subseteq Subs /\ clock' \in [Actors -> 0..Horizon]
          /\ UNCHANGED <<mem, target>>
          /\ \E step \in {"idle", "readReset"} : Goes(Resetter, step)
      BY <1>3, ContinueFacts
    <2>2. PICK step \in {"idle", "readReset"} : Goes(Resetter, step)
      BY <2>1
    <2>3. step \in Steps /\ step \notin Saving
      BY DEF Steps, Saving
    <2>4. UsedInv'
      BY <1>1, <2>1, UpdateInv, {} \in SUBSET Subs DEF QuotaInv, TypeOK
    <2>5. pc' \in [Actors -> Steps] /\ ReadInv'
      BY <2>1, <2>2, <2>3, PcFrame, ActorFacts
    <2>6. RequestInv'
      BY <1>1, <2>1, <2>2, <2>3, ResetFrame
    <2>7. TypeOK'
      BY <1>1, <2>1, <2>5 DEF QuotaInv, TypeOK
    <2>. QED
      BY <2>4, <2>5, <2>6, <2>7 DEF QuotaInv
  <1>4. \A s \in listed : listed \ {s} \in SUBSET Subs
    BY DEF QuotaInv, TypeOK
  <1>. QED
    BY <1>2, <1>3, <1>4 DEF ReadReset

(* What the reset task saves it has read. *)
LEMMA SavedReset ==
    ASSUME QuotaInv, SaveReset, sub' # sub
    PROVE  /\ target[Resetter] \in Subs
           /\ Exists(mem[Resetter][target[Resetter]])
           /\ Within(sub'[target[Resetter]], target[Resetter])
           /\ sub'[target[Resetter]].status = mem[Resetter][target[Resetter]].status
           /\ \A t \in Subs \ {target[Resetter]} : sub'[t] = sub[t]
           /\ sub' \in [Subs -> Row]
  <1>. DEFINE s == target[Resetter]
              row == MaybeReset(mem[Resetter][s], clock[Resetter])
  <1>1. s \in Subs /\ Exists(mem[Resetter][s])
    BY ActorFacts DEF SaveReset, At, QuotaInv, ReadInv
  <1>2. /\ mem[Resetter][s] \in Row /\ Within(mem[Resetter][s], s)
        /\ clock[Resetter] \in Nat
    <2>1. Resetter \in Actors
      BY ActorFacts
    <2>2. clock[Resetter] \in 0..Horizon
      BY <2>1 DEF QuotaInv, TypeOK
    <2>3. mem[Resetter][s] \in Row
      BY <1>1, <2>1 DEF QuotaInv, TypeOK
    <2>4. Within(mem[Resetter][s], s)
      BY <1>1, <2>1 DEF QuotaInv, UsedInv
    <2>. QED
      BY <2>2, <2>3, <2>4, SubscriptionAssumption
  <1>3. row \in Row /\ row.status = mem[Resetter][s].status /\ Within(row, s)
    BY <1>1, <1>2, MaybeResetRow, WithinLess
  <1>4. sub' = [sub EXCEPT ![s] = row]
    BY DEF SaveReset
  <1>. QED
    BY <1>1, <1>3, <1>4 DEF QuotaInv, TypeOK

LEMMA SaveResetInv ==
    ASSUME QuotaInv, SaveReset
    PROVE  QuotaInv'
  <1>1. /\ UNCHANGED <<now, record, amount, goal, tries>>
        /\ target' = [target EXCEPT ![Resetter] = NoSub]
        /\ Forget(Resetter)
    BY DEF SaveReset
  <1>2. PICK S \in SUBSET Subs : Continue(S)
    BY DEF SaveReset, QuotaInv, TypeOK
  <1>3. /\ listed' \subseteq Subs /\ clock' \in [Actors -> 0..Horizon]
        /\ \E step \in {"idle", "readReset"} : Goes(Resetter, step)
    BY <1>2, ContinueFacts
  <1>4. PICK step \in {"idle", "readReset"} : Goes(Resetter, step)
    BY <1>3
  <1>5. step \in Steps /\ step \notin Saving
    BY DEF Steps, Saving
  <1>6. PICK W \in SUBSET Subs :
           /\ \A t \in W : Exists(mem[Resetter][t]) /\ Within(sub'[t], t)
           /\ \A t \in Subs \ W : sub'[t] = sub[t]
           /\ sub' \in [Subs -> Row]
    <2>1. CASE sub' # sub
      BY <2>1, SavedReset, {target[Resetter]} \in SUBSET Subs
    <2>2. CASE sub' = sub
      BY <2>2, {} \in SUBSET Subs DEF QuotaInv, TypeOK
    <2>. QED
      BY <2>1, <2>2
  <1>7. /\ mem' \in [Actors -> [Subs -> Row]]
        /\ \A b \in Actors \ {Resetter} : mem'[b] = mem[b]
        /\ UsedInv'
    BY <1>1, <1>6, SaveInv, ActorFacts
  <1>8. /\ target' \in [Actors -> Subs \cup {NoSub}]
        /\ \A b \in Actors \ {Resetter} : target'[b] = target[b]
    BY <1>1 DEF QuotaInv, TypeOK
  <1>9. pc' \in [Actors -> Steps] /\ ReadInv'
    BY <1>4, <1>5, <1>7, <1>8, PcFrame, ActorFacts
  <1>10. RequestInv'
    BY <1>1, <1>4, <1>5, <1>8, ResetFrame, ActorFacts
  <1>11. charged' \in [Requests -> Nat] /\ restored' \in [Requests -> Nat]
         /\ voided' \subseteq Subs /\ stale' \subseteq Subs
    <2>1. CASE UNCHANGED historyVars
      BY <2>1 DEF historyVars, QuotaInv, TypeOK
    <2>2. CASE /\ charged' = Forgotten({target[Resetter]})
               /\ voided' = voided \cup {target[Resetter]}
               /\ Saves(Resetter, {target[Resetter]})
               /\ UNCHANGED restored
      <3>1. target[Resetter] \in Subs
        BY ActorFacts DEF SaveReset, At, QuotaInv, ReadInv
      <3>. QED
        BY <2>2, <3>1, {target[Resetter]} \in SUBSET Subs, SavesType
        DEF Forgotten, QuotaInv, TypeOK
    <2>. QED
      BY <2>1, <2>2 DEF SaveReset
  <1>12. TypeOK'
    BY <1>1, <1>3, <1>6, <1>7, <1>8, <1>9, <1>11 DEF QuotaInv, TypeOK
  <1>. QED
    BY <1>7, <1>9, <1>10, <1>12 DEF QuotaInv

(* Time passes, or an administrator's transaction writes a row: none of    *)
(* the actors has moved.                                                   *)
LEMMA AdminInv ==
    ASSUME QuotaInv, NEW S \in SUBSET Subs,
           UNCHANGED <<listed, record, pc, clock, mem, target, amount, goal,
                       tries, charged, restored, voided, stale>>,
           now' \in 0..Horizon,
           sub' \in [Subs -> Row],
           \A s \in Subs \ S : sub'[s] = sub[s],
           \A s \in S : Within(sub'[s], s)
    PROVE  QuotaInv'
  <1>1. UsedInv'
    BY UpdateInv
  <1>2. ReadInv' /\ RequestInv' /\ TypeOK'
    BY DEF QuotaInv, TypeOK, ReadInv, RequestInv, Exists
  <1>. QED
    BY <1>1, <1>2 DEF QuotaInv

LEMMA SubscriptionInv ==
    ASSUME QuotaInv,
           \/ Tick \/ ExpireDueSubscriptions
           \/ \E s \in Subs : Admin(s)
    PROVE  QuotaInv'
  <1>1. UNCHANGED <<listed, record, pc, clock, mem, target, amount, goal,
                    tries, charged, restored, voided, stale>>
    BY DEF Tick, ExpireDueSubscriptions, Admin, CreateUserSubscription,
           AdminInvalidate, AdminDelete, sessionVars, historyVars
  <1>2. now \in 0..Horizon /\ now \in Nat
        /\ \A s \in Subs : sub[s] \in Row /\ Within(sub[s], s)
    BY SubscriptionAssumption DEF QuotaInv, TypeOK, UsedInv
  <1>3. CASE Tick
    <2>1. now' \in 0..Horizon /\ sub' = sub
      BY <1>2, <1>3, SubscriptionAssumption DEF Tick
    <2>. QED
      BY <1>1, <2>1, AdminInv, {} \in SUBSET Subs DEF QuotaInv, TypeOK
  <1>4. CASE ExpireDueSubscriptions
    <2>. DEFINE due == {s \in Subs : sub[s].status = "active" /\ sub[s].end <= now}
    <2>1. /\ due \in SUBSET Subs /\ now' = now
          /\ sub' = [s \in Subs |-> IF s \in due THEN [sub[s] EXCEPT !.status = "expired"]
                                     ELSE sub[s]]
      BY <1>4 DEF ExpireDueSubscriptions
    <2>2. \A s \in due : /\ sub'[s] \in Row /\ Within(sub'[s], s)
      <3>1. \A s \in due : sub'[s] = [sub[s] EXCEPT !.status = "expired"]
        BY <2>1
      <3>2. \A s \in Subs : [sub[s] EXCEPT !.status = "expired"].used = sub[s].used
        BY <1>2 DEF Row
      <3>. QED
        BY <1>2, <2>1, <3>1, <3>2, RowFields DEF Within
    <2>. HIDE DEF due
    <2>3. \A s \in Subs \ due : sub'[s] = sub[s]
      BY <2>1
    <2>4. sub' \in [Subs -> Row]
      <3>1. \A s \in Subs : sub'[s] \in Row
        BY <1>2, <2>2, <2>3
      <3>. QED
        BY <2>1, <3>1
    <2>. QED
      BY <1>1, <1>2, <2>1, <2>2, <2>3, <2>4, AdminInv
  <1>5. ASSUME NEW s \in Subs, Admin(s)
        PROVE  QuotaInv'
    <2>1. /\ now' = now /\ {s} \in SUBSET Subs
      BY <1>5 DEF Admin, CreateUserSubscription, AdminInvalidate, AdminDelete
    <2>2. \E row \in Row : sub' = [sub EXCEPT ![s] = row] /\ Within(row, s)
      <3>1. CASE CreateUserSubscription(s)
        <4>. DEFINE end == now + Lasts
                    new == [status |-> "active", used |-> 0,
                            next |-> NextReset(now, end), end |-> end]
        <4>1. end \in Nat /\ NextReset(now, end) \in Nat
          BY <1>2, SubscriptionAssumption DEF NextReset
        <4>2. new \in Row /\ new.used = 0
          BY <4>1 DEF Row
        <4>3. sub' = [sub EXCEPT ![s] = new]
          BY <3>1 DEF CreateUserSubscription
        <4>4. Within(new, s)
          <5>1. Total[s] \in Nat
            BY SubscriptionAssumption
          <5>. QED
            BY <4>2, <5>1 DEF Within
        <4>. HIDE DEF new
        <4>. QED
          BY <4>2, <4>3, <4>4
      <3>2. CASE AdminInvalidate(s)
        <4>. DEFINE new == Cancelled(sub[s], now)
        <4>1. new \in Row /\ new.used = sub[s].used
          BY <1>2 DEF Row, Cancelled
        <4>2. sub' = [sub EXCEPT ![s] = new]
          BY <3>2 DEF AdminInvalidate
        <4>. QED
          BY <1>2, <4>1, <4>2 DEF Within
      <3>3. CASE AdminDelete(s)
        <4>. DEFINE new == [sub[s] EXCEPT !.status = "deleted"]
        <4>1. new \in Row /\ new.used = sub[s].used
          BY <1>2 DEF Row
        <4>2. sub' = [sub EXCEPT ![s] = new]
          BY <3>3 DEF AdminDelete
        <4>. QED
          BY <1>2, <4>1, <4>2 DEF Within
      <3>. QED
        BY <1>5, <3>1, <3>2, <3>3 DEF Admin
    <2>3. PICK row \in Row : sub' = [sub EXCEPT ![s] = row] /\ Within(row, s)
      BY <2>2
    <2>4. /\ sub' \in [Subs -> Row] /\ sub'[s] = row
          /\ \A t \in Subs \ {s} : sub'[t] = sub[t]
      BY <2>3 DEF QuotaInv, TypeOK
    <2>. QED
      BY <1>1, <1>2, <2>1, <2>3, <2>4, AdminInv
  <1>. QED
    BY <1>3, <1>4, <1>5

-----------------------------------------------------------------------------
(* The theorems. *)

LEMMA InitInv ==
    ASSUME Init
    PROVE  QuotaInv
  <1>1. TypeOK
    <2>1. /\ now \in 0..Horizon /\ sub \in [Subs -> Row]
          /\ pc \in [Actors -> Steps] /\ clock \in [Actors -> 0..Horizon]
          /\ mem \in [Actors -> [Subs -> Row]]
          /\ target \in [Actors -> Subs \cup {NoSub}]
          /\ listed \subseteq Subs
          /\ voided \subseteq Subs /\ stale \subseteq Subs
      BY NoRowFacts, SubscriptionAssumption DEF Init, Steps
    <2>2. /\ tries \in [Requests -> 0..Attempts]
          /\ record \in [Requests -> {"none", "consumed", "refunded"}]
          /\ amount \in [Requests -> Nat] /\ goal \in [Requests -> Nat]
          /\ charged \in [Requests -> Nat] /\ restored \in [Requests -> Nat]
      BY DEF Init, Attempts
    <2>. QED
      BY <2>1, <2>2 DEF TypeOK
  <1>2. \A s \in Subs : /\ sub[s] = NoRow
                        /\ \A a \in Actors : mem[a][s] = NoRow
    BY NoRowFacts DEF Init
  <1>3. UsedInv
    BY <1>2, NoRowFacts DEF UsedInv
  <1>4. ReadInv /\ RequestInv
    BY ActorFacts DEF Init, ReadInv, RequestInv, Attempts
  <1>. QED
    BY <1>1, <1>3, <1>4 DEF QuotaInv

LEMMA NextInv ==
    ASSUME QuotaInv, [Next]_vars
    PROVE  QuotaInv'
  <1>1. CASE Tick \/ ExpireDueSubscriptions \/ \E s \in Subs : Admin(s)
    BY <1>1, SubscriptionInv
  <1>2. CASE ResetStep
    BY <1>2, ListDueInv, ReadResetInv, SaveResetInv DEF ResetStep
  <1>3. ASSUME NEW r \in Requests, RequestStep(r)
        PROVE  QuotaInv'
    BY <1>3, BeginInv, ReadSubscriptionsInv, PreConsumeInv, GoalInv, PostReadInv,
       PostCommitInv, RefundRecordInv DEF RequestStep
  <1>4. CASE UNCHANGED vars
    BY <1>4 DEF vars, sessionVars, historyVars, QuotaInv, TypeOK, UsedInv, ReadInv,
                RequestInv, Within, Exists
  <1>. QED
    BY <1>1, <1>2, <1>3, <1>4 DEF Next

(* The inductive invariant: types, no copy of a row above its quota, and   *)
(* every save preceded by a read.                                          *)
THEOREM QuotaInvariant == Spec => []QuotaInv
  <1>. QED
    BY InitInv, NextInv, PTL DEF Spec

(* Whatever interleaves, a subscription gives no more than its quota in a  *)
(* period.                                                                 *)
THEOREM WithinQuota == Spec => []UsedWithinTotal
  <1>1. QuotaInv => UsedWithinTotal
    BY DEF QuotaInv, UsedInv, Within, UsedWithinTotal
  <1>. QED
    BY <1>1, QuotaInvariant, PTL

-----------------------------------------------------------------------------
(* What the requests have taken, for any finite number of them.            *)

LEMMA ChargesType ==
    ASSUME TypeOK, NEW s
    PROVE  Charges(s) \in [Requests -> Nat] /\ ChargedTo(s) \in Nat
  <1>1. Charges(s) \in [Requests -> Nat]
    BY DEF Charges, TypeOK
  <1>. QED
    BY <1>1, SumNat, RequestsAssumption DEF ChargedTo

LEMMA ChargesTypeNext ==
    ASSUME TypeOK', NEW s
    PROVE  Charges(s)' \in [Requests -> Nat]
  BY DEF Charges, TypeOK

(* The total of a subscription none of whose charges changes.              *)
LEMMA SameCharges ==
    ASSUME NEW s, \A r \in Requests : Charges(s)'[r] = Charges(s)[r]
    PROVE  ChargedTo(s)' = ChargedTo(s)
  <1>1. Charges(s)' = Charges(s)
    BY DEF Charges
  <1>. QED
    BY <1>1 DEF ChargedTo

(* One whose charges are forgotten, but for that of request r.             *)
LEMMA OnlyCharge ==
    ASSUME TypeOK', NEW s, NEW r \in Requests,
           \A q \in Requests \ {r} : Charges(s)'[q] = 0
    PROVE  ChargedTo(s)' = Charges(s)'[r]
  <1>1. \A q \in Requests : Charges(s)'[q] \in Int
    BY ChargesTypeNext
  <1>2. SumFunctionOnSet(Charges(s)', Requests) = Charges(s)'[r]
    BY <1>1, SumSingle, RequestsAssumption
  <1>. QED
    BY <1>2 DEF ChargedTo

LEMMA NoCharge ==
    ASSUME NEW s, \A r \in Requests : Charges(s)'[r] = 0
    PROVE  ChargedTo(s)' = 0
  <1>1. SumFunctionOnSet(Charges(s)', Requests) = 0
    BY SumZero, RequestsAssumption
  <1>. QED
    BY <1>1 DEF ChargedTo

(* One of which only the charge of request r changes.                      *)
LEMMA OneCharge ==
    ASSUME TypeOK, TypeOK', NEW s, NEW r \in Requests,
           \A q \in Requests \ {r} : Charges(s)'[q] = Charges(s)[q]
    PROVE  /\ ChargedTo(s)' = ChargedTo(s) + Charges(s)'[r] - Charges(s)[r]
           /\ Charges(s)[r] <= ChargedTo(s)
  <1>1. /\ \A q \in Requests : Charges(s)[q] \in Nat
        /\ \A q \in Requests : Charges(s)'[q] \in Nat
    BY ChargesType, ChargesTypeNext
  <1>2. SumFunctionOnSet(Charges(s)', Requests)
           = SumFunctionOnSet(Charges(s), Requests) + Charges(s)'[r] - Charges(s)[r]
    BY <1>1, SumUpdate, RequestsAssumption
  <1>3. Charges(s)[r] <= SumFunctionOnSet(Charges(s), Requests)
    BY <1>1, SumTerm, RequestsAssumption
  <1>. QED
    BY <1>2, <1>3 DEF ChargedTo

(* A subscription that is there, and was never saved from a copy that was  *)
(* outdated, shows what was charged to it, or less.                        *)
Paid(s) ==
    Exists(sub[s]) /\ s \notin stale =>
        /\ sub[s].used <= ChargedTo(s)
        /\ s \notin voided => sub[s].used = ChargedTo(s)

(* A request is at no subscription before it is admitted; then at one that *)
(* was bought.                                                             *)
TargetInv ==
    \A r \in Requests :
        /\ pc[r] \in Unadmitted => target[r] = NoSub
        /\ target[r] \in Subs => sub[target[r]].status # "none"

ChargeInv == TargetInv /\ \A s \in Subs : Paid(s)

(* A row that is kept, and whose requests keep their charges.              *)
LEMMA KeepsPaid ==
    ASSUME NEW s \in Subs, Paid(s), Exists(sub'[s]) => Exists(sub[s]),
           sub'[s].used = sub[s].used,
           \A r \in Requests : Charges(s)'[r] = Charges(s)[r],
           s \in voided => s \in voided', s \in stale => s \in stale'
    PROVE  Paid(s)'
  BY SameCharges DEF Paid, Exists

(* A step that neither charges a request nor saves another use of a row.   *)
QuietStep ==
    /\ \A s \in Subs : /\ sub'[s].used = sub[s].used
                       /\ Exists(sub'[s]) => Exists(sub[s])
                       /\ sub[s].status # "none" => sub'[s].status # "none"
    /\ \A r \in Requests : /\ target'[r] = target[r]
                           /\ pc'[r] \in Unadmitted => pc[r] \in Unadmitted
    /\ UNCHANGED <<charged, voided, stale>>

LEMMA QuietKeeps ==
    ASSUME TypeOK, ChargeInv, QuietStep
    PROVE  ChargeInv'
  <1>1. ASSUME NEW s \in Subs
        PROVE  Paid(s)'
    <2>1. \A r \in Requests : Charges(s)'[r] = Charges(s)[r]
      BY DEF QuietStep, Charges
    <2>. QED
      BY <2>1, KeepsPaid DEF QuietStep, ChargeInv
  <1>2. TargetInv'
    BY DEF QuietStep, ChargeInv, TargetInv
  <1>. QED
    BY <1>1, <1>2 DEF ChargeInv

(* The steps that concern no request. *)
LEMMA SubscriptionCharge ==
    ASSUME QuotaInv, ChargeInv,
           Tick \/ ExpireDueSubscriptions \/ \E s \in Subs : Admin(s)
    PROVE  ChargeInv'
  <1>. USE DEF sessionVars, historyVars
  <1>1. CASE Tick
    <2>. QuietStep
      BY <1>1 DEF Tick, QuietStep
    <2>. QED
      BY QuietKeeps DEF QuotaInv
  <1>2. CASE ExpireDueSubscriptions
    <2>1. UNCHANGED <<target, pc, charged, voided, stale>>
      BY <1>2 DEF ExpireDueSubscriptions
    <2>2. ASSUME NEW s \in Subs
          PROVE  /\ sub'[s].used = sub[s].used
                 /\ Exists(sub'[s]) => Exists(sub[s])
                 /\ sub[s].status # "none" => sub'[s].status # "none"
      <3>1. sub[s] \in Row
        BY DEF QuotaInv, TypeOK
      <3>2. \/ sub'[s] = sub[s]
            \/ sub[s].status = "active" /\ sub'[s] = [sub[s] EXCEPT !.status = "expired"]
        BY <1>2 DEF ExpireDueSubscriptions
      <3>3. CASE sub'[s] = [sub[s] EXCEPT !.status = "expired"] /\ sub[s].status = "active"
        BY <3>1, <3>3 DEF Row, Exists
      <3>. QED
        BY <3>2, <3>3
    <2>3. QuietStep
      BY <2>1, <2>2 DEF QuietStep
    <2>. QED
      BY <2>3, QuietKeeps DEF QuotaInv
  <1>3. ASSUME NEW s \in Subs, AdminInvalidate(s) \/ AdminDelete(s)
        PROVE  ChargeInv'
    <2>1. UNCHANGED <<target, pc, charged, voided, stale>>
      BY <1>3 DEF AdminInvalidate, AdminDelete
    <2>2. sub[s] \in Row /\ now \in Nat /\ Exists(sub[s])
      BY <1>3, SubscriptionAssumption DEF AdminInvalidate, AdminDelete, QuotaInv, TypeOK
    <2>3. /\ \A t \in Subs \ {s} : sub'[t] = sub[t]
          /\ \/ sub'[s] = [sub[s] EXCEPT !.status = "deleted"]
             \/ sub'[s] = Cancelled(sub[s], now)
      BY <1>3 DEF AdminInvalidate, AdminDelete, QuotaInv, TypeOK
    <2>4. /\ sub'[s].used = sub[s].used
          /\ sub[s].status # "none" => sub'[s].status # "none"
      <3>1. CASE sub'[s] = [sub[s] EXCEPT !.status = "deleted"]
        BY <2>2, <3>1 DEF Row
      <3>2. CASE sub'[s] = Cancelled(sub[s], now)
        BY <2>2, <3>2 DEF Row, Cancelled
      <3>. QED
        BY <2>3, <3>1, <3>2
    <2>5. QuietStep
      BY <2>1, <2>2, <2>3, <2>4 DEF QuietStep
    <2>. QED
      BY <2>5, QuietKeeps DEF QuotaInv
  <1>4. ASSUME NEW s \in Subs, CreateUserSubscription(s)
        PROVE  ChargeInv'
    <2>1. UNCHANGED <<target, pc, charged, voided, stale>>
      BY <1>4 DEF CreateUserSubscription
    <2>2. /\ sub[s].status = "none"
          /\ \A t \in Subs \ {s} : sub'[t] = sub[t]
          /\ sub'[s].used = 0 /\ sub'[s].status = "active"
      BY <1>4 DEF CreateUserSubscription, QuotaInv, TypeOK
    <2>3. TargetInv'
      BY <2>1, <2>2 DEF ChargeInv, TargetInv
    <2>4. ASSUME NEW t \in Subs, t # s
          PROVE  Paid(t)'
      <3>1. \A r \in Requests : Charges(t)'[r] = Charges(t)[r]
        BY <2>1 DEF Charges
      <3>2. sub'[t] = sub[t] /\ Paid(t)
        BY <2>2, <2>4 DEF ChargeInv
      <3>. QED
        BY <2>1, <3>1, <3>2, KeepsPaid
    <2>5. Paid(s)'
      <3>1. \A r \in Requests : Charges(s)'[r] = 0
        BY <2>1, <2>2 DEF Charges, ChargeInv, TargetInv
      <3>. QED
        BY <2>2, <3>1, NoCharge DEF Paid
    <2>. QED
      BY <2>3, <2>4, <2>5 DEF ChargeInv
  <1>. QED
    BY <1>1, <1>2, <1>3, <1>4 DEF Admin

(* The steps of a request that save no row. *)
LEMMA RequestQuiet ==
    ASSUME QuotaInv, ChargeInv, NEW r \in Requests,
           \/ Begin(r) \/ ReadSubscriptions(r) \/ Settle(r) \/ AdjustTask(r)
           \/ PostRead(r) \/ Refund(r) \/ RefundRead(r) \/ RefundSave(r)
           \/ PreConsume(r) /\ Rollback(r) /\ UNCHANGED target /\ Goes(r, "refused")
           \/ PostCommit(r) /\ Rollback(r) /\ PostFailed(r)
    PROVE  ChargeInv'
  <1>. USE DEF sessionVars, historyVars
  <1>1. UNCHANGED <<sub, target, charged, voided, stale>>
    BY DEF Begin, ReadSubscriptions, Settle, AdjustTask, PostRead, Refund, RefundRead,
           RefundSave, PostCommit, Rollback
  <1>2. \E step \in Steps : /\ Goes(r, step)
                            /\ step \in Unadmitted => pc[r] \in Unadmitted
    <2>1. CASE PostFailed(r)
      BY <2>1, PostFailedFacts DEF Steps, Unadmitted
    <2>2. CASE RefundRead(r) \/ RefundSave(r)
      <3>1. CASE Retry(r)
        BY <2>2, <3>1, RetryFacts DEF RefundRead, RefundSave, At, Steps, Unadmitted
      <3>. QED
        BY <2>2, <3>1 DEF RefundRead, RefundSave, Steps, Unadmitted
    <2>3. CASE Begin(r) \/ ReadSubscriptions(r) \/ Settle(r) \/ AdjustTask(r) \/ Refund(r)
      BY <2>3 DEF Begin, ReadSubscriptions, Settle, AdjustTask, Refund, At, Steps, Unadmitted
    <2>4. CASE PostRead(r)
      <3>1. CASE pc[r] = "settle"
        BY <2>1, <2>4, <3>1 DEF PostRead, Steps, Unadmitted
      <3>2. CASE pc[r] = "adjust"
        BY <2>1, <2>4, <3>2 DEF PostRead, Steps, Unadmitted
      <3>3. CASE pc[r] = "refundDelta"
        BY <2>1, <2>4, <3>3 DEF PostRead, Steps, Unadmitted
      <3>. QED
        BY <2>4, <3>1, <3>2, <3>3 DEF PostRead
    <2>5. CASE PreConsume(r) /\ Goes(r, "refused")
      BY <2>5 DEF PreConsume, At, Steps, Unadmitted
    <2>. QED
      BY <2>1, <2>2, <2>3, <2>4, <2>5
  <1>3. \A q \in Requests : pc'[q] \in Unadmitted => pc[q] \in Unadmitted
    BY <1>2, ActorFacts DEF Goes, QuotaInv, TypeOK
  <1>4. QuietStep
    BY <1>1, <1>3 DEF QuietStep
  <1>. QED
    BY <1>4, QuietKeeps DEF QuotaInv

(* A reset row shows no use. *)
LEMMA ResetRow ==
    ASSUME NEW row \in Row, NEW time, MaybeReset(row, time) # row
    PROVE  MaybeReset(row, time).used = 0
  BY DEF MaybeReset, Row

(* What PreConsume saves, and what it notes down: the use of the row that  *)
(* pays grows by the amount, after its reset if it was due, unless the row *)
(* saved was outdated.                                                     *)
LEMMA PreConsumeRows ==
    ASSUME QuotaInv, NEW r \in Requests, PreConsume(r), Goes(r, "admitted")
    PROVE  \E s \in Subs, S \in SUBSET Subs :
              /\ target' = [target EXCEPT ![r] = s]
              /\ charged' = [Forgotten(S) EXCEPT ![r] = amount[r]]
              /\ voided' = voided \cup S
              /\ stale \subseteq stale'
              /\ \A t \in S \cup {s} : sub'[t].status # "none"
              /\ s \in S => sub'[s].used = amount[r]
              /\ s \notin S \cup stale' =>
                    Exists(sub[s]) /\ sub'[s].used = sub[s].used + amount[r]
              /\ \A t \in S \ {s} : sub'[t].used = 0
              /\ \A t \in Subs \ (S \cup {s}) : sub'[t] = sub[t]
  <1>. DEFINE read == {s \in Subs : Exists(mem[r][s])}
              row(s) == MaybeReset(mem[r][s], clock[r])
              fit == {s \in read : Fits(row(s), s, amount[r])}
              tried(s) == {t \in read : t = s \/ Before(r, t, s)}
              reset(s) == {t \in tried(s) : row(t) # mem[r][t]}
  <1>1. "admitted" # "refused" /\ pc[r] \in Steps /\ pc'[r] = "admitted"
    BY ActorFacts DEF QuotaInv, TypeOK, Goes
  <1>2. ~ Goes(r, "refused")
    BY <1>1, ActorFacts DEF QuotaInv, TypeOK, Goes
  <1>3. PICK s \in fit :
           /\ sub' = [t \in Subs |->
                      IF t = s THEN [row(s) EXCEPT !.used = @ + amount[r]]
                      ELSE IF t \in reset(s) THEN row(t) ELSE sub[t]]
           /\ target' = [target EXCEPT ![r] = s]
           /\ charged' = [Forgotten(reset(s)) EXCEPT ![r] = amount[r]]
           /\ voided' = voided \cup reset(s)
           /\ Saves(r, reset(s) \cup {s})
    BY <1>2 DEF PreConsume
  <1>. DEFINE S == reset(s)
  <1>4. s \in Subs /\ s \in read /\ S \in SUBSET Subs /\ S \subseteq read
    OBVIOUS
  <1>5. \A t \in read : /\ mem[r][t].status # "none" /\ amount[r] \in Nat
                        /\ row(t) \in Row /\ row(t).status = mem[r][t].status
                        /\ row(t) # mem[r][t] => row(t).used = 0
    <2>. TAKE t \in read
    <2>1. mem[r][t] \in Row /\ clock[r] \in Nat /\ amount[r] \in Nat
      BY ActorFacts, SubscriptionAssumption DEF QuotaInv, TypeOK
    <2>2. mem[r][t].status # "none"
      BY DEF Exists
    <2>. QED
      BY <2>1, <2>2, MaybeResetRow, ResetRow
  <1>6. sub'[s].used = row(s).used + amount[r] /\ sub'[s].status = row(s).status
    <2>1. row(s) \in Row
      BY <1>4, <1>5
    <2>2. sub'[s] = [row(s) EXCEPT !.used = @ + amount[r]]
      BY <1>3, <1>4
    <2>. HIDE DEF row
    <2>. QED
      BY <2>1, <2>2 DEF Row
  <1>7. s \in S => sub'[s].used = amount[r]
    <2>. SUFFICES ASSUME s \in S PROVE sub'[s].used = amount[r]
      OBVIOUS
    <2>1. row(s) # mem[r][s]
      OBVIOUS
    <2>2. row(s).used = 0 /\ amount[r] \in Nat
      BY <1>4, <1>5, <2>1
    <2>. HIDE DEF row, S
    <2>. QED
      BY <1>6, <2>2
  <1>8. \A t \in S \ {s} : sub'[t] = row(t) /\ sub'[t].used = 0
    <2>. TAKE t \in S \ {s}
    <2>1. sub'[t] = row(t)
      BY <1>3, <1>4
    <2>2. t \in read /\ row(t) # mem[r][t]
      OBVIOUS
    <2>. HIDE DEF row
    <2>. QED
      BY <1>5, <2>1, <2>2
  <1>9. \A t \in Subs \ (S \cup {s}) : sub'[t] = sub[t]
    BY <1>3
  <1>10. \A t \in S \cup {s} : sub'[t].status # "none"
    BY <1>4, <1>5, <1>6, <1>8
  <1>11. /\ target' = [target EXCEPT ![r] = s]
         /\ charged' = [Forgotten(S) EXCEPT ![r] = amount[r]]
         /\ voided' = voided \cup S
    BY <1>3
  <1>12. stale \subseteq stale' /\ (s \notin stale' => mem[r][s] = sub[s])
    BY <1>3, <1>4 DEF Saves
  <1>13. s \notin S \cup stale' =>
            Exists(sub[s]) /\ sub'[s].used = sub[s].used + amount[r]
    <2>. SUFFICES ASSUME s \notin S, s \notin stale'
                  PROVE  Exists(sub[s]) /\ sub'[s].used = sub[s].used + amount[r]
      OBVIOUS
    <2>1. s \in tried(s)
      BY <1>4
    <2>2. row(s) = mem[r][s]
      BY <2>1
    <2>3. mem[r][s] = sub[s] /\ Exists(mem[r][s])
      BY <1>4, <1>12
    <2>. HIDE DEF row, S, tried
    <2>. QED
      BY <1>6, <2>2, <2>3
  <1>. HIDE DEF S, row, read, fit, tried, reset
  <1>. s \in Subs /\ S \in SUBSET Subs
    BY <1>4
  <1>. WITNESS s \in Subs, S \in SUBSET Subs
  <1>. QED
    BY <1>7, <1>8, <1>9, <1>10, <1>11, <1>12, <1>13

LEMMA PreConsumeCharge ==
    ASSUME QuotaInv, QuotaInv', ChargeInv, NEW r \in Requests,
           PreConsume(r), Goes(r, "admitted")
    PROVE  ChargeInv'
  <1>1. PICK s \in Subs, S \in SUBSET Subs :
              /\ target' = [target EXCEPT ![r] = s]
              /\ charged' = [Forgotten(S) EXCEPT ![r] = amount[r]]
              /\ voided' = voided \cup S
              /\ stale \subseteq stale'
              /\ \A t \in S \cup {s} : sub'[t].status # "none"
              /\ s \in S => sub'[s].used = amount[r]
              /\ s \notin S \cup stale' =>
                    Exists(sub[s]) /\ sub'[s].used = sub[s].used + amount[r]
              /\ \A t \in S \ {s} : sub'[t].used = 0
              /\ \A t \in Subs \ (S \cup {s}) : sub'[t] = sub[t]
    BY PreConsumeRows
  <1>2. TypeOK /\ TypeOK' /\ r \in Actors
    BY ActorFacts DEF QuotaInv
  <1>3. target[r] = NoSub /\ s # NoSub /\ NoSub \notin Subs
    BY SubscriptionAssumption DEF ChargeInv, TargetInv, PreConsume, At, Unadmitted, NoSub
  <1>4. /\ \A q \in Requests \ {r} :
              /\ target'[q] = target[q]
              /\ charged'[q] = (IF target[q] \in S THEN 0 ELSE charged[q])
        /\ target'[r] = s /\ charged'[r] = amount[r]
    BY <1>1, <1>2, ActorFacts DEF TypeOK, Forgotten
  <1>5. TargetInv'
    <2>1. \A q \in Requests \ {r} : pc'[q] = pc[q]
      BY <1>2, ActorFacts DEF Goes, TypeOK
    <2>2. pc'[r] = "admitted"
      BY <1>2 DEF Goes, TypeOK
    <2>3. \A t \in Subs : sub[t].status # "none" => sub'[t].status # "none"
      BY <1>1
    <2>4. sub'[s].status # "none"
      BY <1>1
    <2>5. \A q \in Requests \ {r} :
             /\ pc'[q] \in Unadmitted => target'[q] = NoSub
             /\ target'[q] \in Subs => sub'[target'[q]].status # "none"
      BY <1>4, <2>1, <2>3 DEF ChargeInv, TargetInv
    <2>6. /\ pc'[r] \in Unadmitted => target'[r] = NoSub
          /\ target'[r] \in Subs => sub'[target'[r]].status # "none"
      BY <1>4, <2>2, <2>4 DEF Unadmitted
    <2>. QED
      BY <2>5, <2>6 DEF TargetInv
  <1>6. ASSUME NEW t \in Subs, t # s, t \notin S
        PROVE  Paid(t)'
    <2>1. \A q \in Requests : Charges(t)'[q] = Charges(t)[q]
      BY <1>3, <1>4, <1>6 DEF Charges
    <2>2. sub'[t] = sub[t] /\ Paid(t)
      BY <1>1, <1>6 DEF ChargeInv
    <2>. QED
      BY <1>1, <2>1, <2>2, KeepsPaid
  <1>7. ASSUME NEW t \in S, t # s
        PROVE  Paid(t)'
    <2>1. \A q \in Requests : Charges(t)'[q] = 0
      BY <1>4, <1>7 DEF Charges
    <2>2. sub'[t].used = 0
      BY <1>1, <1>7
    <2>. QED
      BY <2>1, <2>2, NoCharge DEF Paid
  <1>8. Paid(s)'
    <2>1. Charges(s)'[r] = amount[r] /\ Charges(s)[r] = 0 /\ amount[r] \in Nat
      BY <1>2, <1>3, <1>4 DEF Charges, TypeOK
    <2>2. CASE s \in S
      <3>1. \A q \in Requests \ {r} : Charges(s)'[q] = 0
        BY <1>4, <2>2 DEF Charges
      <3>2. ChargedTo(s)' = amount[r]
        BY <1>2, <2>1, <3>1, OnlyCharge
      <3>. QED
        BY <1>1, <2>1, <2>2, <3>2 DEF Paid
    <2>3. CASE s \notin S
      <3>1. \A q \in Requests \ {r} : Charges(s)'[q] = Charges(s)[q]
        BY <1>4, <2>3 DEF Charges
      <3>2. ChargedTo(s)' = ChargedTo(s) + amount[r]
        BY <1>2, <2>1, <3>1, OneCharge, ChargesType
      <3>3. sub[s].used \in Nat /\ ChargedTo(s) \in Nat
        BY <1>2, RowFields, ChargesType DEF TypeOK
      <3>4. Paid(s) /\ (s \notin stale' => s \notin stale)
        BY <1>1 DEF ChargeInv
      <3>5. s \notin stale' =>
               Exists(sub[s]) /\ sub'[s].used = sub[s].used + amount[r]
        BY <1>1, <2>3
      <3>6. s \in voided => s \in voided'
        BY <1>1
      <3>. QED
        BY <2>1, <3>2, <3>3, <3>4, <3>5, <3>6 DEF Paid
    <2>. QED
      BY <2>2, <2>3
  <1>. QED
    BY <1>5, <1>6, <1>7, <1>8 DEF ChargeInv

(* What PostCommit saves, and what it notes down. *)
LEMMA PostCommitRow ==
    ASSUME QuotaInv, NEW r \in Requests, PostCommit(r),
           ~ (Rollback(r) /\ PostFailed(r))
    PROVE  LET s == target[r]
               delta == goal[r] - amount[r]
           IN /\ s \in Subs
              /\ \A t \in Subs \ {s} : sub'[t] = sub[t]
              /\ sub'[s].status # "none"
              /\ stale \subseteq stale'
              /\ s \notin stale' => /\ Exists(sub[s])
                                    /\ sub'[s].used = AtLeast0(sub[s].used + delta)
              /\ charged' = [charged EXCEPT ![r] = AtLeast0(@ + delta)]
              /\ voided' = IF charged[r] + delta < 0 THEN voided \cup {s} ELSE voided
              /\ target' = target
              /\ \E step \in {"settled", "done", "refundSave"} : Goes(r, step)
  <1>. DEFINE s == target[r]
              n == AtLeast0(mem[r][s].used + Delta(r))
              owed == charged[r] + goal[r] - amount[r]
  <1>1. /\ s \in Subs /\ Exists(mem[r][s]) /\ r \in Actors
    BY ActorFacts DEF PostCommit, QuotaInv, ReadInv
  <1>2. mem[r][s] \in Row /\ mem[r][s].status # "none"
    BY <1>1 DEF QuotaInv, TypeOK, Exists
  <1>3. sub' = [sub EXCEPT ![s] = [mem[r][s] EXCEPT !.used = n]]
    BY DEF PostCommit
  <1>4. /\ sub'[s] = [mem[r][s] EXCEPT !.used = n]
        /\ \A t \in Subs \ {s} : sub'[t] = sub[t]
    BY <1>1, <1>3 DEF QuotaInv, TypeOK
  <1>5. sub'[s].used = n /\ sub'[s].status # "none"
    BY <1>2, <1>4 DEF Row
  <1>6. /\ charged' = [charged EXCEPT ![r] = AtLeast0(owed)]
        /\ voided' = IF owed < 0 THEN voided \cup {s} ELSE voided
        /\ target' = target /\ Saves(r, {s})
        /\ \E step \in {"settled", "done", "refundSave"} : Goes(r, step)
    BY DEF PostCommit
  <1>7. stale \subseteq stale' /\ (s \notin stale' => mem[r][s] = sub[s])
    BY <1>1, <1>6 DEF Saves
  <1>8. /\ charged[r] \in Nat /\ goal[r] \in Nat /\ amount[r] \in Nat
        /\ charged \in [Requests -> Nat]
    BY DEF QuotaInv, TypeOK
  <1>9. owed = charged[r] + (goal[r] - amount[r]) /\ Delta(r) = goal[r] - amount[r]
    BY <1>8 DEF Delta
  <1>. HIDE DEF owed, s
  <1>. QED
    BY <1>1, <1>4, <1>5, <1>6, <1>7, <1>9 DEF s

LEMMA PostCommitCharge ==
    ASSUME QuotaInv, QuotaInv', ChargeInv, NEW r \in Requests,
           PostCommit(r), ~ (Rollback(r) /\ PostFailed(r))
    PROVE  ChargeInv'
  <1>. DEFINE delta == goal[r] - amount[r]
  <1>1. PICK s \in Subs :
        /\ s = target[r]
        /\ \A t \in Subs \ {s} : sub'[t] = sub[t]
        /\ sub'[s].status # "none"
        /\ stale \subseteq stale'
        /\ s \notin stale' => /\ Exists(sub[s])
                              /\ sub'[s].used = AtLeast0(sub[s].used + delta)
        /\ charged' = [charged EXCEPT ![r] = AtLeast0(@ + delta)]
        /\ voided' = IF charged[r] + delta < 0 THEN voided \cup {s} ELSE voided
        /\ target' = target
        /\ \E step \in {"settled", "done", "refundSave"} : Goes(r, step)
    BY PostCommitRow
  <1>2. /\ TypeOK /\ TypeOK' /\ delta \in Int
        /\ charged[r] \in Nat /\ sub[s].used \in Nat /\ ChargedTo(s) \in Nat
    <2>1. TypeOK /\ TypeOK'
      BY DEF QuotaInv
    <2>2. sub[s].used \in Nat
      BY <2>1, RowFields DEF TypeOK
    <2>3. goal[r] \in Nat /\ amount[r] \in Nat /\ charged[r] \in Nat
      BY <2>1 DEF TypeOK
    <2>. QED
      BY <2>1, <2>2, <2>3, ChargesType
  <1>. HIDE DEF delta
  <1>3. \A q \in Requests \ {r} : charged'[q] = charged[q]
    BY <1>1, <1>2 DEF TypeOK
  <1>4. charged'[r] = AtLeast0(charged[r] + delta)
    BY <1>1, <1>2 DEF TypeOK
  <1>5. TargetInv'
    <2>1. \A q \in Requests : pc'[q] \in Unadmitted => pc[q] \in Unadmitted
      BY <1>1, <1>2, ActorFacts DEF Goes, TypeOK, Unadmitted
    <2>2. \A t \in Subs : sub[t].status # "none" => sub'[t].status # "none"
      BY <1>1
    <2>. QED
      BY <1>1, <2>1, <2>2 DEF ChargeInv, TargetInv
  <1>6. ASSUME NEW t \in Subs, t # s
        PROVE  Paid(t)'
    <2>1. \A q \in Requests : Charges(t)'[q] = Charges(t)[q]
      BY <1>1, <1>3, <1>6 DEF Charges
    <2>2. sub'[t] = sub[t] /\ Paid(t)
      BY <1>1, <1>6 DEF ChargeInv
    <2>. QED
      BY <1>1, <2>1, <2>2, KeepsPaid
  <1>7. ASSUME s \in stale' PROVE Paid(s)'
    BY <1>7 DEF Paid
  <1>8. ASSUME s \notin stale' PROVE Paid(s)'
    <2>1. Charges(s)'[r] = AtLeast0(charged[r] + delta) /\ Charges(s)[r] = charged[r]
      BY <1>1, <1>4 DEF Charges
    <2>2. \A q \in Requests \ {r} : Charges(s)'[q] = Charges(s)[q]
      BY <1>1, <1>3 DEF Charges
    <2>3. /\ ChargedTo(s)' = ChargedTo(s) + AtLeast0(charged[r] + delta) - charged[r]
          /\ charged[r] <= ChargedTo(s)
      BY <1>2, <2>1, <2>2, OneCharge
    <2>4. /\ sub[s].used <= ChargedTo(s) /\ (s \notin voided => sub[s].used = ChargedTo(s))
          /\ sub'[s].used = AtLeast0(sub[s].used + delta)
      BY <1>1, <1>8 DEF ChargeInv, Paid
    <2>5. sub'[s].used <= ChargedTo(s)'
      BY <1>1, <1>2, <2>3, <2>4 DEF AtLeast0
    <2>6. s \notin voided' => sub'[s].used = ChargedTo(s)'
      <3>. SUFFICES ASSUME s \notin voided'
                    PROVE  sub'[s].used = ChargedTo(s)'
        OBVIOUS
      <3>1. charged[r] + delta >= 0 /\ s \notin voided
        BY <1>1, <1>2
      <3>. QED
        BY <1>1, <1>2, <2>3, <2>4, <3>1 DEF AtLeast0
    <2>. QED
      BY <2>5, <2>6 DEF Paid
  <1>9. Paid(s)'
    BY <1>7, <1>8
  <1>. QED
    BY <1>5, <1>6, <1>9 DEF ChargeInv

(* The reset task. *)
LEMMA ResetCharge ==
    ASSUME QuotaInv, QuotaInv', ChargeInv, ResetStep
    PROVE  ChargeInv'
  <1>1. \A r \in Requests : pc'[r] = pc[r] /\ target'[r] = target[r]
    BY ActorFacts
    DEF ResetStep, ListDue, ReadReset, SaveReset, Continue, Goes, QuotaInv, TypeOK, sessionVars
  <1>2. CASE UNCHANGED <<sub, charged, voided, stale>>
    BY <1>1, <1>2, QuietKeeps DEF QuietStep, QuotaInv
  <1>3. CASE SaveReset /\ ~ UNCHANGED <<sub, charged, voided, stale>>
    <2>1. target[Resetter] \in Subs /\ clock[Resetter] \in Nat
      <3>1. pc[Resetter] = "reset"
        BY <1>3 DEF SaveReset, At
      <3>. QED
        BY <3>1, ActorFacts, SubscriptionAssumption DEF QuotaInv, ReadInv, TypeOK
    <2>2. PICK s \in Subs : s = target[Resetter]
      BY <2>1
    <2>. DEFINE row == MaybeReset(mem[Resetter][s], clock[Resetter])
    <2>3. /\ row # mem[Resetter][s] /\ sub' = [sub EXCEPT ![s] = row]
          /\ charged' = Forgotten({s}) /\ voided' = voided \cup {s}
          /\ stale \subseteq stale'
      BY <1>3, <2>2 DEF SaveReset, Saves, historyVars
    <2>4. mem[Resetter][s] \in Row /\ mem[Resetter][s].status # "none"
      <3>1. Exists(mem[Resetter][s])
        BY <1>3, <2>2, ActorFacts DEF SaveReset, At, QuotaInv, ReadInv
      <3>. QED
        BY <3>1, ActorFacts DEF QuotaInv, TypeOK, Exists
    <2>5. row.used = 0 /\ row.status # "none"
      BY <2>1, <2>3, <2>4, MaybeResetRow, ResetRow
    <2>. HIDE DEF row
    <2>6. /\ sub'[s].used = 0 /\ sub'[s].status # "none"
          /\ \A t \in Subs \ {s} : sub'[t] = sub[t]
      BY <2>3, <2>5 DEF QuotaInv, TypeOK
    <2>7. TargetInv'
      <3>1. \A t \in Subs : sub[t].status # "none" => sub'[t].status # "none"
        BY <2>6
      <3>. QED
        BY <1>1, <3>1 DEF ChargeInv, TargetInv
    <2>8. ASSUME NEW t \in Subs, t # s
          PROVE  Paid(t)'
      <3>1. \A q \in Requests : Charges(t)'[q] = Charges(t)[q]
        BY <1>1, <2>3, <2>8 DEF Charges, Forgotten
      <3>2. sub'[t] = sub[t] /\ Paid(t)
        BY <2>6, <2>8 DEF ChargeInv
      <3>. QED
        BY <2>3, <3>1, <3>2, KeepsPaid
    <2>9. Paid(s)'
      <3>1. \A q \in Requests : Charges(s)'[q] = 0
        BY <1>1, <2>3 DEF Charges, Forgotten
      <3>2. ChargedTo(s)' = 0
        BY <3>1, NoCharge
      <3>. QED
        BY <2>6, <3>2 DEF Paid
    <2>. QED
      BY <2>7, <2>8, <2>9 DEF ChargeInv
  <1>. QED
    BY <1>2, <1>3 DEF ResetStep, ListDue, ReadReset, historyVars

LEMMA NextCharge ==
    ASSUME QuotaInv, QuotaInv', ChargeInv, [Next]_vars
    PROVE  ChargeInv'
  <1>1. CASE Tick \/ ExpireDueSubscriptions \/ \E s \in Subs : Admin(s)
    BY <1>1, SubscriptionCharge
  <1>2. CASE ResetStep
    BY <1>2, ResetCharge
  <1>3. ASSUME NEW r \in Requests, RequestStep(r)
        PROVE  ChargeInv'
    <2>1. CASE PreConsume(r)
      <3>1. \/ Goes(r, "admitted")
            \/ Rollback(r) /\ UNCHANGED target /\ Goes(r, "refused")
        BY <2>1 DEF PreConsume
      <3>. QED
        BY <2>1, <3>1, PreConsumeCharge, RequestQuiet
    <2>2. CASE PostCommit(r)
      BY <2>2, PostCommitCharge, RequestQuiet
    <2>. QED
      BY <1>3, <2>1, <2>2, RequestQuiet DEF RequestStep
  <1>4. CASE UNCHANGED vars
    <2>. QuietStep
      BY <1>4 DEF vars, sessionVars, historyVars, QuietStep
    <2>. QED
      BY QuietKeeps DEF QuotaInv
  <1>. QED
    BY <1>1, <1>2, <1>3, <1>4 DEF Next

LEMMA InitCharge ==
    ASSUME Init
    PROVE  ChargeInv
  <1>1. \A s \in Subs : Paid(s)
    BY NoRowFacts DEF Init, Paid
  <1>2. \A r \in Requests : target[r] = NoSub
    BY ActorFacts DEF Init
  <1>3. NoSub \notin Subs
    BY SubscriptionAssumption DEF NoSub
  <1>. QED
    BY <1>1, <1>2, <1>3 DEF ChargeInv, TargetInv

LEMMA ChargeInvariant == Spec => []ChargeInv
  <1>1. QuotaInv /\ QuotaInv' /\ ChargeInv /\ [Next]_vars => ChargeInv'
    BY NextCharge
  <1>. QED
    BY <1>1, InitCharge, QuotaInvariant, PTL DEF Spec

(* As long as no transaction saved an outdated copy of it, a subscription  *)
(* never shows more use than its requests have been charged in the period. *)
THEOREM NeverOvercharged == Spec => []NotOvercharged
  <1>1. ChargeInv => NotOvercharged
    BY DEF ChargeInv, Paid, NotOvercharged
  <1>. QED
    BY <1>1, ChargeInvariant, PTL

(* It then shows exactly that, unless it was reset or a refund was         *)
(* repeated.                                                               *)
THEOREM UseIsExact == Spec => []UsedExact
  <1>1. ChargeInv => UsedExact
    BY DEF ChargeInv, Paid, UsedExact
  <1>. QED
    BY <1>1, ChargeInvariant, PTL
=============================================================================
