----------------------------- MODULE TaskBilling -----------------------------
(***************************************************************************)
(* Billing of asynchronous tasks (videos, songs) once they were submitted: *)
(* RelayTask of controller/relay.go inserts the task with the quota it was *)
(* charged; the polling loop of service/task_polling.go and the query      *)
(* handlers of relay/relay_task.go and service/video_upscale.go move it to *)
(* SUCCESS or FAILURE and settle or refund it (service/task_billing.go).   *)
(*                                                                         *)
(* A worker holds a copy of the row it loaded, asks the upstream, and      *)
(* writes the whole copy back if the row still has the status it had.      *)
(* Every database statement and every call to the upstream is a step.      *)
(* Which statements may fail is a constant: see Faults.                    *)
(***************************************************************************)
EXTENDS Integers, FiniteSets

CONSTANTS
    Tasks,      \* the tasks, video tasks unless in SunoTasks
    SunoTasks,  \* the tasks polled by updateSunoTasks
    NoTask,     \* not a task
    Pollers,    \* the nodes that run TaskPollingLoop
    Fetchers,   \* the request handlers in which a client queries a task
    Realtime,   \* whether the channel type is one tryRealtimeFetch supports
    Upscaling,  \* whether the channel has a video upscaling rule
    Costs,      \* the quotas a task may cost
    Faults,     \* the failures that may occur
    Budget      \* bound on client queries and failed saves in a behaviour

Workers == Pollers \cup Fetchers

AllFaults == {"settle", "insert", "load", "cas", "save", "funding", "token",
              "row", "crash", "hang"}

ASSUME TaskAssumption ==
    /\ SunoTasks \subseteq Tasks
    /\ NoTask \notin Tasks
    /\ Pollers \cap Fetchers = {}
    /\ Realtime \in BOOLEAN /\ Upscaling \in BOOLEAN
    /\ Costs \subseteq Nat
    /\ Faults \subseteq AllFaults
    /\ Budget \in Nat

ASSUME WorkersAssumption == IsFiniteSet(Workers)

VARIABLES
    row,           \* row[t]: the task in the table (status "none": not yet)
    wallet,        \* quota of the funding source
    token,         \* remaining quota of the API token
    account,       \* history: what t has taken from the funding source
    tokenAccount,  \* history: what t has taken from the token
    logged,        \* logged[t]: the failures that lost a part of t's billing
    upstream,      \* upstream[t]: what the provider will answer about t
    mps,           \* mps[t]: the same of the video upscaling service
    expired,       \* expired[t]: t was submitted before the timeout's cutoff
    pc,            \* pc[w]: where worker w is
    after,         \* after[w]: where it goes on when the billing is done
    todo,          \* todo[w]: loaded tasks a poller has still to handle
    cur,           \* cur[w]: the task being handled
    mem,           \* mem[w][t]: the worker's copy of the row
    seen,          \* seen[w]: the last answer of the upstream
    due,           \* due[w]: the actual quota being settled
    budget         \* client queries and failed saves still to come

accountVars  == <<account, tokenAccount>>
externalVars == <<upstream, mps>>
workerVars   == <<pc, after, todo, cur, mem, seen, due>>
vars == <<row, wallet, token, accountVars, logged, externalVars, expired,
          workerVars, budget>>

-----------------------------------------------------------------------------
Answers == {"running", "succeeded", "failed"}

(* complete: the progress is 100%, as it is of every finished task;        *)
(* failReason: the provider gave a reason why the song failed.             *)
Task ==
    [status : {"none", "NOT_START", "IN_PROGRESS", "SUCCESS", "FAILURE"},
     complete : BOOLEAN,
     failReason : BOOLEAN,
     quota : Nat,
     upscale : {"none", "pending", "processing", "succeeded", "failed"}]

NoRow == [status |-> "none", complete |-> FALSE, failReason |-> FALSE,
          quota |-> 0, upscale |-> "none"]

Open(r) == r.status \in {"NOT_START", "IN_PROGRESS"}

Finished(r) == r.status \in {"SUCCESS", "FAILURE"}

(* Faulty variant: failed tasks are loaded as well. *)
UnfinishedOrFailed(r) == r.status \notin {"none", "SUCCESS"}

(* What the queries of the loop and of its sweep select. *)
Unfinished(r) == Open(r) /\ ~ r.complete

Billing == {"refundFunding", "refundToken", "settleFunding", "settleToken",
            "saveQuota"}

(* The steps at which a worker has a task in hand. *)
Handling == Billing \cup {"loaded", "fetched", "saveRow"}

Account == [state : {"idle", "held", "charged", "released"}, amount : Int]

TypeOK ==
    /\ row \in [Tasks -> Task]
    /\ wallet \in Int /\ token \in Int
    /\ account \in [Tasks -> Account] /\ tokenAccount \in [Tasks -> Account]
    /\ logged \in [Tasks -> SUBSET AllFaults]
    /\ upstream \in [Tasks -> Answers] /\ mps \in [Tasks -> Answers]
    /\ expired \subseteq Tasks
    /\ pc \in [Workers -> Handling \cup {"sweep", "poll", "idle", "hung"}]
    /\ after \in [Workers -> {"sweep", "poll", "idle", "loaded", "saveRow"}]
    /\ todo \in [Workers -> SUBSET Tasks]
    /\ cur \in [Workers -> Tasks \cup {NoTask}]
    /\ \A w \in Workers : pc[w] \in Handling => cur[w] \in Tasks
    /\ mem \in [Workers -> [Tasks -> Task]]
    /\ seen \in [Workers -> Answers]
    /\ due \in [Workers -> Nat]
    /\ budget \in 0..Budget

IdleAccount == [state |-> "idle", amount |-> 0]

Rest(w) == IF w \in Pollers THEN "poll" ELSE "idle"

NoCopies == [t \in Tasks |-> NoRow]

Init ==
    /\ row = [t \in Tasks |-> NoRow]
    /\ wallet = 0 /\ token = 0
    /\ account = [t \in Tasks |-> IdleAccount]
    /\ tokenAccount = [t \in Tasks |-> IdleAccount]
    /\ logged = [t \in Tasks |-> {}]
    /\ upstream = [t \in Tasks |-> "running"]
    /\ mps = [t \in Tasks |-> "running"]
    /\ expired = {}
    /\ pc = [w \in Workers |-> Rest(w)]
    /\ after = [w \in Workers |-> Rest(w)]
    /\ todo = [w \in Workers |-> {}]
    /\ cur = [w \in Workers |-> NoTask]
    /\ mem = [w \in Workers |-> NoCopies]
    /\ seen = [w \in Workers |-> "running"]
    /\ due = [w \in Workers |-> 0]
    /\ budget = Budget

-----------------------------------------------------------------------------
(* Submission. *)

(***************************************************************************)
(* RelayTask: the upstream took the task.  The session that held est (see  *)
(* BillingSession: forced, so all of it) is settled to the actual quota,   *)
(* an error being logged only; then the task is inserted with the actual   *)
(* quota, an error being logged only.  Nobody else sees the task before.   *)
(***************************************************************************)
Submit(t) ==
    /\ account[t].state = "idle"
    /\ \E est, actual \in Costs, ups \in {"none", "pending"} :
       \E taken, tokenTaken \in {est, actual}, inserted \in BOOLEAN :
          /\ ups = "pending" => Upscaling /\ t \notin SunoTasks
          /\ taken # actual => tokenTaken = est
          /\ tokenTaken # actual => "settle" \in Faults
          /\ ~ inserted => "insert" \in Faults
          /\ wallet' = wallet - taken
          /\ account' = [account EXCEPT ![t] =
                            [state |-> "held", amount |-> taken]]
          /\ token' = token - tokenTaken
          /\ tokenAccount' = [tokenAccount EXCEPT ![t] =
                            [state |-> "held", amount |-> tokenTaken]]
          /\ row' = IF ~ inserted THEN row
                    ELSE [row EXCEPT ![t] = [status |-> "NOT_START",
                                             complete |-> FALSE,
                                             failReason |-> FALSE,
                                             quota |-> actual,
                                             upscale |-> ups]]
          /\ logged' = [logged EXCEPT ![t] =
                           (IF tokenTaken # actual THEN {"settle"} ELSE {})
                           \cup (IF ~ inserted THEN {"insert"} ELSE {})]
    /\ UNCHANGED <<externalVars, expired, workerVars, budget>>

(* Time passes: submit_time is before the cutoff of TaskTimeoutMinutes. *)
Expire(t) ==
    /\ t \notin expired /\ row[t].status # "none"
    /\ expired' = expired \cup {t}
    /\ UNCHANGED <<row, wallet, token, accountVars, logged, externalVars,
                   workerVars, budget>>

-----------------------------------------------------------------------------
(* What all workers do. *)

At(w, step) == pc[w] = step

Goes(w, step) == pc' = [pc EXCEPT ![w] = step]

(* Faulty variants of the definitions below; each breaks a property. *)
MatchesAlways(t, copy) == TRUE

FirstStepNoRefund(r, bill, back) ==
    IF bill = "settle" THEN "settleFunding" ELSE back

(* The guard of UpdateWithStatus: the row still has the copy's status. *)
Matches(t, copy) == row[t].status = copy.status

(* Where a worker that won the transition to r starts its billing. *)
FirstStep(r, bill, back) ==
    IF bill = "settle" THEN "settleFunding"
    ELSE IF bill = "refund" /\ r.quota # 0 THEN "refundFunding" ELSE back

(***************************************************************************)
(* UpdateWithStatus: worker w writes its whole copy, now new, if the row   *)
(* still has the status the copy had, and goes on with won; when another   *)
(* worker was faster, or on a database error, it goes on with lost.        *)
(***************************************************************************)
UpdateWithStatus(w, t, new, won, lost) ==
    /\ \/ /\ Matches(t, mem[w][t])
          /\ row' = [row EXCEPT ![t] = new]
          /\ Goes(w, won)
       \/ /\ ~ Matches(t, mem[w][t]) \/ "cas" \in Faults
          /\ Goes(w, lost)
          /\ UNCHANGED row
    /\ mem' = [mem EXCEPT ![w][t] = new]
    /\ cur' = [cur EXCEPT ![w] = t]
    /\ UNCHANGED <<wallet, token, accountVars, logged, seen, due>>

(* Only the worker that won the transition bills; all go on with back.     *)
Transition(w, t, new, bill, back) ==
    /\ UpdateWithStatus(w, t, new, FirstStep(new, bill, back), back)
    /\ after' = [after EXCEPT ![w] = back]

(***************************************************************************)
(* The await of a query: the provider answers whatever it has come to, the *)
(* upscaling service if the copy says that it is at work.                  *)
(***************************************************************************)
MayAnswer(x) == IF x = "running" THEN Answers ELSE {x}

Ask(w, t) ==
    /\ \E a \in Answers :
          /\ IF mem[w][t].upscale = "processing"
             THEN /\ a \in MayAnswer(mps[t])
                  /\ mps' = [mps EXCEPT ![t] = a] /\ UNCHANGED upstream
             ELSE /\ a \in MayAnswer(upstream[t])
                  /\ upstream' = [upstream EXCEPT ![t] = a] /\ UNCHANGED mps
          /\ seen' = [seen EXCEPT ![w] = a]
    /\ Goes(w, "fetched")
    /\ cur' = [cur EXCEPT ![w] = t]

(* Without RELAY_TIMEOUT, as by default, a call may never return: w waits  *)
(* in it until its process is restarted.                                   *)
Hang(w) ==
    /\ "hang" \in Faults
    /\ Goes(w, "hung")
    /\ UNCHANGED <<cur, seen, externalVars>>

Log(w, fault) ==
    /\ fault \in Faults
    /\ logged' = [logged EXCEPT ![cur[w]] = @ \cup {fault}]

Unbilled == <<row, wallet, token, accountVars, logged>>

-----------------------------------------------------------------------------
(* The polling loop of a node: sweep, load, poll every task, sleep. *)

(* The loop loads the tasks chosen, or none if the query fails. *)
Load(p, step, chosen) ==
    /\ \/ /\ todo' = [todo EXCEPT ![p] = chosen]
          /\ mem' = [mem EXCEPT ![p] =
                       [t \in Tasks |-> IF t \in chosen THEN row[t] ELSE NoRow]]
       \/ /\ "load" \in Faults
          /\ mem' = [mem EXCEPT ![p] = NoCopies]
          /\ UNCHANGED todo
    /\ Goes(p, step)
    /\ UNCHANGED <<Unbilled, externalVars, expired, after, cur, seen, due,
                   budget>>

(* Faulty variant: a task nobody has polled yet is forgotten. *)
TimedOutInProgress(t) ==
    t \in expired /\ Unfinished(row[t]) /\ row[t].status = "IN_PROGRESS"

TimedOut(t) == t \in expired /\ Unfinished(row[t])

(* The next round begins with GetTimedOutUnfinishedTasks. *)
LoadTimedOut(p) ==
    /\ At(p, "poll") /\ todo[p] = {}
    /\ Load(p, "sweep", {t \in Tasks : TimedOut(t)})

(* GetAllUnFinishSyncTasks, when the sweep is through. *)
LoadUnfinished(p) ==
    /\ At(p, "sweep") /\ todo[p] = {}
    /\ Load(p, "poll", {t \in Tasks : Unfinished(row[t])})

(* A loaded task fails for a reason of ours and is refunded. *)
FailTask(p, t) ==
    /\ t \in todo[p]
    /\ todo' = [todo EXCEPT ![p] = @ \ {t}]
    /\ Transition(p, t, [mem[p][t] EXCEPT !.status = "FAILURE", !.complete = TRUE],
                  "refund", pc[p])
    /\ UNCHANGED <<externalVars, expired, budget>>

(* sweepTimedOutTasks, one task. *)
SweepTask(p, t) == At(p, "sweep") /\ FailTask(p, t)

(* failTaskAndRefund: no upstream id, or the channel is gone. *)
FailTaskAndRefund(p, t) == At(p, "poll") /\ FailTask(p, t)

(* The query of the upstream; an error leaves the task to the next round. *)
FetchTask(p, t) ==
    /\ At(p, "poll") /\ t \in todo[p]
    /\ todo' = [todo EXCEPT ![p] = @ \ {t}]
    /\ Ask(p, t) \/ Hang(p) \/ UNCHANGED <<pc, cur, seen, externalVars>>
    /\ UNCHANGED <<Unbilled, expired, after, mem, due, budget>>

Outcome(r, bill) == [row |-> r, bill |-> bill]

(* Faulty variant: a video goes to the upscaling service and is settled. *)
VideoOutcomesEager(r, a, full) ==
    CASE a = "running"   -> {Outcome([r EXCEPT !.status = "IN_PROGRESS"], "none")}
      [] a = "failed"    -> {Outcome([r EXCEPT !.status = "FAILURE"], "refund")}
      [] a = "succeeded" ->
            {Outcome([r EXCEPT !.status = "IN_PROGRESS",
                               !.upscale = "processing"], "settle")}

(***************************************************************************)
(* What updateVideoSingleTask makes of answer a about row r.  A generated  *)
(* video may still be under moderation, be blocked, or be sent to the      *)
(* upscaling service, whose failure is no failure of the task.  The        *)
(* progress of a video in progress is what the provider reports, 100% too, *)
(* unless upscaling is to come or at work.                                 *)
(***************************************************************************)
VideoOutcomes(r, a, full) ==
    LET Becomes(status, complete, upscale) ==
            [r EXCEPT !.status = status, !.complete = complete, !.upscale = upscale]
        inProgress ==
            Outcome(Becomes("IN_PROGRESS",
                            full /\ r.upscale \notin {"pending", "processing"},
                            r.upscale), "none")
        failure == Outcome(Becomes("FAILURE", TRUE, r.upscale), "refund")
        success(upscale) == Outcome(Becomes("SUCCESS", TRUE, upscale), "settle")
    IN IF a = "running" THEN {inProgress}
       ELSE IF r.upscale = "processing" THEN {success(a)}
       ELSE IF a = "failed" THEN {failure}
       ELSE {inProgress, failure} \cup
            IF r.upscale # "pending" THEN {success(r.upscale)}
            ELSE {Outcome(Becomes("IN_PROGRESS", FALSE, "processing"), "none"),
                  success("failed")}

(* A copy that did not change need not be written. *)
Unchanged(w, t, new) ==
    /\ new = mem[w][t]
    /\ Goes(w, Rest(w))
    /\ UNCHANGED <<Unbilled, after, cur, mem, seen, due>>

VideoResult(p) ==
    LET t == cur[p]
    IN /\ At(p, "fetched") /\ p \in Pollers /\ t \notin SunoTasks
       /\ \E full \in BOOLEAN : \E o \in VideoOutcomes(mem[p][t], seen[p], full) :
             Unchanged(p, t, o.row) \/ Transition(p, t, o.row, o.bill, "poll")
       /\ UNCHANGED <<externalVars, expired, todo, budget>>

StatusOf(a) == CASE a = "running"   -> "IN_PROGRESS"
                 [] a = "succeeded" -> "SUCCESS"
                 [] a = "failed"    -> "FAILURE"

(* Faulty variant: the fail reason of a successful song is overlooked. *)
SunoRefundsFailed(r, reason) == r.status = "FAILURE"

SunoRefunds(r, reason) == reason \/ r.status = "FAILURE"

(***************************************************************************)
(* updateSunoTasks: a song that failed, or whose answer has a fail reason  *)
(* whatever its status, is refunded; then the row is saved without a       *)
(* guard.  Nothing is settled when a song succeeds.                        *)
(***************************************************************************)
SunoResult(p) ==
    LET t == cur[p]
    IN /\ At(p, "fetched") /\ p \in Pollers /\ t \in SunoTasks
       /\ \E reason \in BOOLEAN :
          LET new == [mem[p][t] EXCEPT
                         !.status = StatusOf(seen[p]),
                         !.failReason = @ \/ reason,
                         !.complete = @ \/ reason \/ seen[p] # "running"]
              bill == IF SunoRefunds(new, reason) THEN "refund" ELSE "none"
          IN \/ Unchanged(p, t, new)
             \/ /\ Goes(p, FirstStep(new, bill, "saveRow"))
                /\ after' = [after EXCEPT ![p] = "saveRow"]
                /\ mem' = [mem EXCEPT ![p][t] = new]
                /\ UNCHANGED <<Unbilled, cur, seen, due>>
       /\ UNCHANGED <<externalVars, expired, todo, budget>>

(* Task.Update is DB.Save: the whole row, whatever it has become. *)
SaveRow(p) ==
    /\ At(p, "saveRow")
    /\ \/ row' = [row EXCEPT ![cur[p]] = mem[p][cur[p]]] /\ UNCHANGED budget
       \/ /\ "save" \in Faults /\ budget > 0
          /\ budget' = budget - 1
          /\ UNCHANGED row
    /\ Goes(p, "poll")
    /\ UNCHANGED <<wallet, token, accountVars, logged, externalVars, expired,
                   after, todo, cur, mem, seen, due>>

-----------------------------------------------------------------------------
(* A client queries a video task. *)

(* Whether the handler goes on to ask the upstream for this copy. *)
AsksUpstream(r) ==
    \/ r.upscale = "processing"
    \/ Realtime /\ r.upscale \notin {"pending", "succeeded"}

LoadForFetch(f, t) ==
    /\ At(f, "idle") /\ budget > 0
    /\ t \notin SunoTasks /\ row[t].status # "none" /\ AsksUpstream(row[t])
    /\ budget' = budget - 1
    /\ mem' = [mem EXCEPT ![f] = [NoCopies EXCEPT ![t] = row[t]]]
    /\ cur' = [cur EXCEPT ![f] = t]
    /\ Goes(f, "loaded")
    /\ UNCHANGED <<Unbilled, externalVars, expired, after, todo, seen, due>>

FetchForClient(f) ==
    /\ At(f, "loaded")
    /\ \/ Ask(f, cur[f])
       \/ Hang(f)
       \/ Goes(f, "idle") /\ UNCHANGED <<cur, seen, externalVars>>
    /\ UNCHANGED <<Unbilled, expired, after, todo, mem, due, budget>>

(* SyncVideoUpscaleOnFetch; a video whose upscaling failed may then go on  *)
(* to tryRealtimeFetch with the same copy.                                 *)
SyncVideoUpscaleOnFetch(f) ==
    LET t == cur[f]
        r == mem[f][t]
    IN /\ At(f, "fetched") /\ f \in Fetchers /\ r.upscale = "processing"
       /\ \E o \in VideoOutcomes(r, seen[f], FALSE) :
             \/ Unchanged(f, t, o.row)
             \/ Transition(f, t, o.row, o.bill,
                           IF AsksUpstream(o.row) /\ o.row.upscale = "failed"
                           THEN "loaded" ELSE "idle")
       /\ UNCHANGED <<externalVars, expired, todo, budget>>

(***************************************************************************)
(* tryRealtimeFetch: the copy takes the upstream's status whatever it was, *)
(* and is written with UpdateWithStatus.  A refund needs the transition to *)
(* be won; a settlement only needs the copy to have entered SUCCESS.       *)
(***************************************************************************)
TryRealtimeFetch(f) ==
    LET t == cur[f]
        r == mem[f][t]
    IN /\ At(f, "fetched") /\ f \in Fetchers /\ r.upscale # "processing"
       /\ \E reported \in BOOLEAN :
          LET status == StatusOf(seen[f])
              new == [r EXCEPT !.status = status,
                               !.complete = reported \/ status # "IN_PROGRESS"]
              bill == IF status = r.status THEN "none"
                      ELSE IF status = "FAILURE" THEN "refund"
                      ELSE IF status = "SUCCESS" THEN "settle" ELSE "none"
          IN \/ Unchanged(f, t, new)
             \/ /\ UpdateWithStatus(f, t, new, FirstStep(new, bill, "idle"),
                       IF bill = "settle" THEN "settleFunding" ELSE "idle")
                /\ after' = [after EXCEPT ![f] = "idle"]
       /\ UNCHANGED <<externalVars, expired, todo, budget>>

-----------------------------------------------------------------------------
(* Billing by the worker whose task it is: RefundTaskQuota and             *)
(* RecalculateTaskQuota, with the quota of the worker's copy.              *)

(* The funding source gives n more to cur[w], whose account is then state. *)
MoveFunding(w, n, state) ==
    /\ wallet' = wallet - n
    /\ account' = [account EXCEPT ![cur[w]] =
                      [state |-> state, amount |-> @.amount + n]]

(* Faulty variant: the token is charged but never given back. *)
MoveTokenOneWay(w, n, state) ==
    /\ token' = token - n
    /\ tokenAccount' = IF n < 0 THEN tokenAccount
                       ELSE [tokenAccount EXCEPT ![cur[w]] =
                               [state |-> state, amount |-> @.amount + n]]

MoveToken(w, n, state) ==
    /\ token' = token - n
    /\ tokenAccount' = [tokenAccount EXCEPT ![cur[w]] =
                           [state |-> state, amount |-> @.amount + n]]

(* An error of the funding source ends the refund. *)
RefundFunding(w) ==
    /\ At(w, "refundFunding")
    /\ \/ /\ MoveFunding(w, - mem[w][cur[w]].quota, "released")
          /\ Goes(w, "refundToken")
          /\ UNCHANGED logged
       \/ /\ Log(w, "funding")
          /\ Goes(w, after[w])
          /\ UNCHANGED <<wallet, account>>
    /\ UNCHANGED <<row, token, tokenAccount, externalVars, expired, after, todo,
                   cur, mem, seen, due, budget>>

(* The token is looked up again; one that is gone is left alone. *)
RefundToken(w) ==
    /\ At(w, "refundToken")
    /\ \/ /\ MoveToken(w, - mem[w][cur[w]].quota, "released")
          /\ UNCHANGED logged
       \/ Log(w, "token") /\ UNCHANGED <<token, tokenAccount>>
    /\ Goes(w, after[w])
    /\ UNCHANGED <<row, wallet, account, externalVars, expired, after, todo, cur,
                   mem, seen, due, budget>>

(* The actual quota is known; nothing moves when it is 0 or the one taken. *)
SettleFunding(w) ==
    LET pre == mem[w][cur[w]].quota
    IN /\ At(w, "settleFunding")
       /\ \E actual \in Costs :
             \/ /\ actual = 0 \/ actual = pre
                /\ Goes(w, after[w])
                /\ UNCHANGED <<wallet, account, logged, due>>
             \/ /\ actual # 0 /\ actual # pre
                /\ MoveFunding(w, actual - pre, "charged")
                /\ due' = [due EXCEPT ![w] = actual]
                /\ Goes(w, "settleToken")
                /\ UNCHANGED logged
             \/ /\ actual # 0 /\ actual # pre
                /\ Log(w, "funding")
                /\ Goes(w, after[w])
                /\ UNCHANGED <<wallet, account, due>>
    /\ UNCHANGED <<row, token, tokenAccount, externalVars, expired, after, todo,
                   cur, mem, seen, budget>>

SettleToken(w) ==
    /\ At(w, "settleToken")
    /\ \/ /\ MoveToken(w, due[w] - mem[w][cur[w]].quota, "charged")
          /\ UNCHANGED logged
       \/ Log(w, "token") /\ UNCHANGED <<token, tokenAccount>>
    /\ Goes(w, "saveQuota")
    /\ UNCHANGED <<row, wallet, account, externalVars, expired, after, todo, cur,
                   mem, seen, due, budget>>

(* Faulty variant: the adjustment is saved instead of the quota. *)
QuotaToSaveDelta(w) == due[w] - mem[w][cur[w]].quota

QuotaToSave(w) == due[w]

(* The copy and the column quota become the actual quota. *)
SaveQuota(w) ==
    LET t == cur[w]
    IN /\ At(w, "saveQuota")
       /\ mem' = [mem EXCEPT ![w][t].quota = QuotaToSave(w)]
       /\ \/ row' = [row EXCEPT ![t].quota = QuotaToSave(w)] /\ UNCHANGED logged
          \/ Log(w, "row") /\ UNCHANGED row
       /\ Goes(w, after[w])
    /\ UNCHANGED <<wallet, token, accountVars, externalVars, expired, after,
                   todo, cur, seen, due, budget>>

(* A worker's process dies, and a poller's is started again. *)
Crash(w) ==
    /\ "crash" \in Faults
    /\ pc[w] # Rest(w) \/ todo[w] # {}
    /\ logged' = IF pc[w] \in Billing
                 THEN [logged EXCEPT ![cur[w]] = @ \cup {"crash"}] ELSE logged
    /\ pc' = [pc EXCEPT ![w] = Rest(w)]
    /\ todo' = [todo EXCEPT ![w] = {}]
    /\ mem' = [mem EXCEPT ![w] = NoCopies]
    /\ UNCHANGED <<row, wallet, token, accountVars, externalVars, expired, after,
                   cur, seen, due, budget>>

-----------------------------------------------------------------------------
Bill(w) ==
    \/ RefundFunding(w) \/ RefundToken(w)
    \/ SettleFunding(w) \/ SettleToken(w) \/ SaveQuota(w)

PollTask(p) ==
    \/ LoadUnfinished(p)
    \/ \E t \in Tasks : SweepTask(p, t) \/ FetchTask(p, t)
    \/ VideoResult(p) \/ SunoResult(p) \/ SaveRow(p)

Poll(p) ==
    \/ LoadTimedOut(p) \/ PollTask(p)
    \/ \E t \in Tasks : FailTaskAndRefund(p, t)

Fetch(f) ==
    \/ \E t \in Tasks : LoadForFetch(f, t)
    \/ FetchForClient(f) \/ SyncVideoUpscaleOnFetch(f) \/ TryRealtimeFetch(f)

Next ==
    \/ \E t \in Tasks : Submit(t) \/ Expire(t)
    \/ \E p \in Pollers : Poll(p)
    \/ \E f \in Fetchers : Fetch(f)
    \/ \E w \in Workers : Bill(w) \/ Crash(w)

Spec == Init /\ [][Next]_vars

(***************************************************************************)
(* A poller's loop keeps running, billing calls return, and time passes.   *)
(* Nothing is assumed of the upstream, whose tasks may run for ever and    *)
(* whose calls may never return: a worker that hangs has no step to take.  *)
(***************************************************************************)
FairSpec ==
    /\ Spec
    /\ \A p \in Pollers : WF_vars(LoadTimedOut(p)) /\ WF_vars(PollTask(p))
    /\ \A w \in Workers : WF_vars(Bill(w))
    /\ \A t \in Tasks : WF_vars(Expire(t))

(***************************************************************************)
(* Properties.                                                             *)
(***************************************************************************)

FundingLedger == INSTANCE Ledger WITH
    Requests <- Tasks, balance <- wallet, account <- account,
    credited <- 0, lost <- 0

TokenLedger == INSTANCE Ledger WITH
    Requests <- Tasks, balance <- token, account <- tokenAccount,
    credited <- 0, lost <- 0

(* Every movement of the funding source on behalf of a task is its being   *)
(* charged at submission, then settled once to the actual cost or refunded *)
(* once in full, never both: by whichever of the nodes and handlers that   *)
(* found the task finished, failed or timed out at the same time.          *)
FundingBilledOnce == FundingLedger!LedgerSpec

(* The same of the token's quota. *)
TokenBilledOnce == TokenLedger!LedgerSpec

BilledNow(t) == \E w \in Workers : cur[w] = t /\ pc[w] \in Billing

TaskBilled(t) ==
    ~ BilledNow(t) /\ logged[t] = {} =>
        /\ row[t].status = "FAILURE" \/ row[t].failReason =>
              account[t].amount = 0 /\ tokenAccount[t].amount = 0
        /\ row[t].status = "SUCCESS" /\ ~ row[t].failReason =>
              /\ account[t].amount = row[t].quota
              /\ tokenAccount[t].amount = row[t].quota

(* When the billing of a finished task is over and no failure was logged,  *)
(* a failed task costs nothing, nor does a song with a fail reason,        *)
(* whatever status its row has; any other successful task costs exactly    *)
(* the quota its row shows, on the funding source and on the token.        *)
FinishedTaskBilled == \A t \in Tasks : TaskBilled(t)

(***************************************************************************)
(* The inductive invariant of the proofs, where no client queries, no song *)
(* is polled and settlements at submission succeed.                        *)
(***************************************************************************)
Held(n) == [state |-> "held", amount |-> n]

(* A task that was not submitted has no row, and an unfinished one is held *)
(* for as much as its row says.                                            *)
AccountInv(t) ==
    /\ account[t].state = "idle" =>
          /\ row[t].status = "none"
          /\ account[t] = IdleAccount /\ tokenAccount[t] = IdleAccount
    /\ Open(row[t]) =>
          account[t] = Held(row[t].quota) /\ tokenAccount[t] = Held(row[t].quota)
    /\ ~ row[t].failReason

(* A worker bills a finished task, alone, and its step tells what is still *)
(* held and what has been moved.                                           *)
BillingInv(w) ==
    LET t == cur[w]
        q == mem[w][t].quota
    IN /\ pc[w] \in {"refundFunding", "refundToken"} =>
             row[t].status = "FAILURE"
       /\ pc[w] \in {"settleFunding", "settleToken", "saveQuota"} =>
             row[t].status = "SUCCESS"
       /\ pc[w] \in {"refundFunding", "settleFunding"} => account[t] = Held(q)
       /\ pc[w] \in Billing \ {"saveQuota"} => tokenAccount[t] = Held(q)
       /\ pc[w] = "settleFunding" => row[t].quota = q
       /\ pc[w] = "refundToken" => account[t].amount = 0
       /\ pc[w] \in {"settleToken", "saveQuota"} => account[t].amount = due[w]
       /\ pc[w] = "saveQuota" =>
             tokenAccount[t].amount = due[w] \/ logged[t] # {}
       /\ pc[w] \in Billing =>
             \A v \in Workers \ {w} : pc[v] \in Billing => cur[v] # t

(* What a worker still has to handle was unfinished when it was loaded,    *)
(* and has kept its quota unless it was finished since.                    *)
CopyInv(w, t) ==
    t \in todo[w] \/ (cur[w] = t /\ pc[w] = "fetched") =>
        /\ Open(mem[w][t]) /\ row[t].status # "none" /\ ~ mem[w][t].failReason
        /\ Open(row[t]) => mem[w][t].quota = row[t].quota

WorkerInv(w) ==
    /\ pc[w] \in Billing \cup {"sweep", "poll", "fetched", "hung"}
    /\ after[w] \in {"sweep", "poll"}
    /\ pc[w] \in Billing \cup {"fetched"} => cur[w] \notin todo[w]

TaskInv ==
    /\ \A t \in Tasks : AccountInv(t)
    /\ \A w \in Workers : BillingInv(w) /\ WorkerInv(w)
    /\ \A w \in Workers, t \in Tasks : CopyInv(w, t)
    /\ FinishedTaskBilled

(* A task is refunded once: what was released moves no more. *)
RefundedOnce ==
    [][\A t \in Tasks : account[t].state = "released" =>
          account'[t] = account[t]]_vars

(* The token follows the funding source: what the billing of a task moved  *)
(* on one it moved on the other, however often it billed.                  *)
TokenFollowsFunding ==
    \A t \in Tasks : ~ BilledNow(t) /\ logged[t] = {} =>
        account[t].amount = tokenAccount[t].amount

(* A task that timed out does not stay unfinished, whatever the upstream   *)
(* answers, unless its progress was set to 100%, with which no query finds *)
(* it again, or the loop of every node waits for a call that never ends.   *)
TimedOutTaskSwept ==
    \A t \in Tasks :
        t \in expired ~> \/ Finished(row[t]) \/ row[t].complete
                          \/ \A p \in Pollers : At(p, "hung")

(* A failed task is refunded. *)
FailedTaskRefunded ==
    \A t \in Tasks :
        row[t].status = "FAILURE" ~> account[t].amount = 0
=============================================================================
