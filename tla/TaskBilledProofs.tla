-------------------------- MODULE TaskBilledProofs --------------------------
(***************************************************************************)
(* TaskInv is an inductive invariant of TaskBilling where no client        *)
(* queries, no song is polled and settlements at submission succeed; the   *)
(* ledgers of the funding source and of the token follow from it.          *)
(***************************************************************************)
EXTENDS TaskBillingProofs

PollersOnly ==
    Fetchers = {} /\ SunoTasks = {} /\ "settle" \notin Faults

(* What a step leaves alone of a task, and of a worker. *)
SameTask(t) ==
    /\ row'[t] = row[t] /\ account'[t] = account[t]
    /\ tokenAccount'[t] = tokenAccount[t] /\ logged'[t] = logged[t]

SameWorker(v) ==
    /\ pc'[v] = pc[v] /\ after'[v] = after[v] /\ todo'[v] = todo[v]
    /\ cur'[v] = cur[v] /\ mem'[v] = mem[v] /\ due'[v] = due[v]

Between == {"sweep", "poll", "fetched", "hung"}

LEMMA BetweenSteps == Between \cap Billing = {}
  BY DEF Between, Billing

(***************************************************************************)
(* A worker loads tasks, asks for one, or gives one up: no task changes.   *)
(* When it gives one up amid its billing, it dies, and that is logged.     *)
(***************************************************************************)
LEMMA QuietInv ==
    ASSUME TaskInv, NEW w \in Workers,
           \A t \in Tasks :
              /\ row'[t] = row[t] /\ account'[t] = account[t]
              /\ tokenAccount'[t] = tokenAccount[t]
              /\ logged'[t] = logged[t] \/ logged'[t] # {},
           \A v \in Workers \ {w} : SameWorker(v),
           pc[w] \in Billing => logged'[cur[w]] # {},
           pc'[w] \in Between, after'[w] \in {"sweep", "poll"},
           pc'[w] = "fetched" => cur'[w] \notin todo'[w],
           \A v \in Workers : pc[v] \in Billing => cur[v] \in Tasks,
           \A t \in Tasks : CopyInv(w, t)'
    PROVE  TaskInv'
  <1>1. \A t \in Tasks : AccountInv(t)'
    BY DEF TaskInv, AccountInv
  <1>2. pc'[w] \notin Billing
    BY BetweenSteps
  <1>3. ASSUME NEW v \in Workers
        PROVE  BillingInv(v)' /\ WorkerInv(v)'
    <2>1. CASE v = w
      BY <1>2, <2>1 DEF BillingInv, WorkerInv, Between, Billing
    <2>2. CASE v # w
      <3>1. SameWorker(v) /\ BillingInv(v) /\ WorkerInv(v)
        BY <2>2 DEF TaskInv
      <3>2. WorkerInv(v)'
        BY <3>1 DEF SameWorker, WorkerInv
      <3>3. CASE pc[v] \notin Billing
        BY <3>1, <3>2, <3>3 DEF SameWorker, BillingInv, Billing
      <3>4. CASE pc[v] \in Billing
        <4>1. cur[v] \in Tasks
          BY <3>4
        <4>2. pc'[v] \in Billing => \A u \in Workers \ {v} :
                 pc'[u] \in Billing => cur'[u] # cur'[v]
          BY <1>2, <3>1, <3>4 DEF SameWorker, BillingInv
        <4>3. /\ pc'[v] = pc[v] /\ cur'[v] = cur[v] /\ due'[v] = due[v]
              /\ mem'[v][cur'[v]] = mem[v][cur[v]]
              /\ row'[cur'[v]] = row[cur[v]]
              /\ account'[cur'[v]] = account[cur[v]]
              /\ tokenAccount'[cur'[v]] = tokenAccount[cur[v]]
              /\ logged[cur[v]] # {} => logged'[cur'[v]] # {}
          BY <3>1, <4>1 DEF SameWorker
        <4>4. BillingInv(v)'
          <5>1. BillingInv(v)
            BY <3>1
          <5>. QED
            BY <4>2, <4>3, <5>1 DEF BillingInv
        <4>. QED
          BY <3>2, <4>4
      <3>. QED
        BY <3>2, <3>3, <3>4
    <2>. QED
      BY <2>1, <2>2
  <1>4. \A v \in Workers, t \in Tasks : CopyInv(v, t)'
    <2>1. ASSUME NEW v \in Workers \ {w}, NEW t \in Tasks
          PROVE  CopyInv(v, t)'
      BY DEF TaskInv, CopyInv, SameWorker
    <2>. QED
      BY <2>1
  <1>5. ASSUME NEW t \in Tasks
        PROVE  TaskBilled(t)'
    <2>1. CASE logged'[t] # {}
      BY <2>1 DEF TaskBilled
    <2>2. CASE logged'[t] = {}
      <3>1. BilledNow(t) => BilledNow(t)'
        BY <2>2 DEF BilledNow, SameWorker
      <3>2. TaskBilled(t)
        BY DEF TaskInv, FinishedTaskBilled
      <3>. QED
        BY <2>2, <3>1, <3>2 DEF TaskBilled
    <2>. QED
      BY <2>1, <2>2
  <1>. QED
    BY <1>1, <1>3, <1>4, <1>5 DEF TaskInv, FinishedTaskBilled

(***************************************************************************)
(* Worker w (or none, if w is no worker) changes task t alone: whatever    *)
(* else the invariant says of other workers and other tasks is kept.       *)
(***************************************************************************)
Touches(w, t) ==
    /\ \A v \in Workers \ {w} : SameWorker(v) /\ (pc[v] \in Billing => cur[v] # t)
    /\ \A u \in Tasks \ {t} : SameTask(u)
    /\ w \in Workers => /\ pc[w] \in Billing => cur[w] = t
                        /\ pc'[w] \in Billing => cur'[w] = t
    /\ row[t].status # "none" =>
          /\ row'[t].status # "none"
          /\ Open(row'[t]) =>
                Open(row[t]) /\ row'[t].quota = row[t].quota

LEMMA Frame ==
    ASSUME TaskInv, TypeOK, NEW w, NEW t \in Tasks, Touches(w, t),
           AccountInv(t)', TaskBilled(t)',
           w \in Workers => /\ BillingInv(w)' /\ WorkerInv(w)'
                            /\ \A u \in Tasks : CopyInv(w, u)'
    PROVE  TaskInv'
  <1>1. ASSUME NEW u \in Tasks \ {t}
        PROVE  AccountInv(u)' /\ TaskBilled(u)'
    <2>1. SameTask(u) /\ AccountInv(u) /\ TaskBilled(u)
      BY DEF Touches, TaskInv, FinishedTaskBilled
    <2>2. AccountInv(u)'
      BY <2>1 DEF SameTask, AccountInv
    <2>3. BilledNow(u) => BilledNow(u)'
      BY DEF BilledNow, Touches, SameWorker
    <2>. QED
      BY <2>1, <2>2, <2>3 DEF SameTask, TaskBilled
  <1>2. ASSUME NEW v \in Workers \ {w}
        PROVE  BillingInv(v)' /\ WorkerInv(v)'
    <2>1. SameWorker(v) /\ BillingInv(v) /\ WorkerInv(v)
      BY DEF Touches, TaskInv
    <2>2. WorkerInv(v)'
      BY <2>1 DEF SameWorker, WorkerInv
    <2>3. CASE pc[v] \notin Billing
      BY <2>1, <2>2, <2>3 DEF SameWorker, BillingInv, Billing
    <2>4. CASE pc[v] \in Billing
      <3>1. cur[v] \in Tasks \ {t}
        BY <2>4 DEF Touches, TypeOK, Handling
      <3>2. ASSUME NEW u \in Workers \ {v}, pc'[u] \in Billing
            PROVE  cur'[u] # cur'[v]
        <4>1. CASE u = w
          BY <2>1, <3>1, <3>2, <4>1 DEF Touches, SameWorker
        <4>2. CASE u # w
          BY <2>1, <2>4, <3>2, <4>2 DEF Touches, SameWorker, BillingInv
        <4>. QED
          BY <4>1, <4>2
      <3>3. /\ pc'[v] = pc[v] /\ cur'[v] = cur[v] /\ due'[v] = due[v]
            /\ mem'[v][cur'[v]] = mem[v][cur[v]]
            /\ row'[cur'[v]] = row[cur[v]]
            /\ account'[cur'[v]] = account[cur[v]]
            /\ tokenAccount'[cur'[v]] = tokenAccount[cur[v]]
            /\ logged'[cur'[v]] = logged[cur[v]]
        BY <2>1, <3>1 DEF SameWorker, Touches, SameTask
      <3>4. BillingInv(v)'
        <4>1. BillingInv(v)
          BY <2>1
        <4>. QED
          BY <3>2, <3>3, <4>1 DEF BillingInv
      <3>. QED
        BY <2>2, <3>4
    <2>. QED
      BY <2>3, <2>4
  <1>3. ASSUME NEW v \in Workers \ {w}, NEW u \in Tasks
        PROVE  CopyInv(v, u)'
    <2>1. SameWorker(v) /\ CopyInv(v, u)
      BY DEF Touches, TaskInv
    <2>2. CASE u = t
      BY <2>1, <2>2 DEF SameWorker, CopyInv, Touches
    <2>3. CASE u # t
      <3>1. SameTask(u)
        BY <2>3 DEF Touches
      <3>. QED
        BY <2>1, <3>1 DEF SameWorker, SameTask, CopyInv
    <2>. QED
      BY <2>2, <2>3
  <1>. QED
    BY <1>1, <1>2, <1>3 DEF TaskInv, FinishedTaskBilled

(* Whoever bills a task bills a finished one. *)
LEMMA BilledFinished ==
    ASSUME TaskInv, NEW v \in Workers, pc[v] \in Billing
    PROVE  row[cur[v]].status \in {"SUCCESS", "FAILURE"}
  BY DEF TaskInv, BillingInv, Billing

-----------------------------------------------------------------------------
(* What changes no task. *)

LEMMA PollerSteps ==
    ASSUME PollersOnly, NEW w \in Workers
    PROVE  w \in Pollers /\ Rest(w) = "poll"
  BY DEF PollersOnly, Workers, Rest

LEMMA HandlingTasks ==
    ASSUME TypeOK
    PROVE  \A v \in Workers : pc[v] \in Billing => cur[v] \in Tasks
  BY DEF TypeOK, Handling

LEMMA LoadInv ==
    ASSUME TypeOK, TaskInv, NEW p \in Pollers, pc[p] \in {"sweep", "poll"},
           todo[p] = {},
           NEW step \in {"sweep", "poll"}, NEW chosen \in SUBSET Tasks,
           \A t \in chosen : Open(row[t]), Load(p, step, chosen)
    PROVE  TaskInv'
  <1>1. p \in Workers /\ WorkerInv(p)
    BY DEF Workers, TaskInv
  <1>2. pc' = [pc EXCEPT ![p] = step] /\ pc'[p] = step
    BY <1>1 DEF Load, Goes, TypeOK
  <1>3. todo'[p] \subseteq chosen
    BY <1>1 DEF Load, TypeOK
  <1>4. \A t \in todo'[p] : mem'[p][t] = row[t]
    BY <1>1 DEF Load, TypeOK
  <1>5. \A v \in Workers \ {p} : SameWorker(v)
    <2>1. todo' = [todo EXCEPT ![p] = todo'[p]] /\ mem' = [mem EXCEPT ![p] = mem'[p]]
      BY <1>1 DEF Load, TypeOK
    <2>. QED
      BY <1>1, <1>2, <2>1 DEF Load, TypeOK, SameWorker
  <1>6. ASSUME NEW t \in Tasks
        PROVE  CopyInv(p, t)'
    <2>1. AccountInv(t)
      BY DEF TaskInv
    <2>. QED
      BY <1>2, <1>3, <1>4, <2>1 DEF AccountInv, CopyInv, Load, Unbilled, Open
  <1>7. pc[p] \notin Billing
    BY DEF Billing
  <1>8. after'[p] \in {"sweep", "poll"}
    BY <1>1 DEF Load, WorkerInv
  <1>. QED
    BY <1>1, <1>2, <1>5, <1>6, <1>7, <1>8, HandlingTasks, QuietInv
    DEF Load, Unbilled, accountVars, Between

LEMMA FetchTaskInv ==
    ASSUME TypeOK, TaskInv, NEW p \in Pollers, NEW t \in Tasks, FetchTask(p, t)
    PROVE  TaskInv'
  <1>1. p \in Workers /\ WorkerInv(p)
    BY DEF Workers, TaskInv
  <1>2. /\ todo' = [todo EXCEPT ![p] = @ \ {t}] /\ t \in todo[p]
        /\ pc[p] = "poll"
    BY DEF FetchTask, At
  <1>3. \/ pc' = [pc EXCEPT ![p] = "fetched"] /\ cur' = [cur EXCEPT ![p] = t]
        \/ pc' = [pc EXCEPT ![p] = "hung"] /\ cur' = cur
        \/ pc' = pc /\ cur' = cur
    BY DEF FetchTask, Ask, Hang, Goes
  <1>4. \A v \in Workers \ {p} : SameWorker(v)
    BY <1>1, <1>2, <1>3 DEF FetchTask, SameWorker, TypeOK
  <1>5. pc'[p] \in Between /\ (pc'[p] = "fetched" => cur'[p] \notin todo'[p])
    BY <1>1, <1>2, <1>3 DEF TypeOK, Between
  <1>6. ASSUME NEW u \in Tasks
        PROVE  CopyInv(p, u)'
    <2>1. u \in todo'[p] \/ (cur'[p] = u /\ pc'[p] = "fetched") => u \in todo[p]
      BY <1>1, <1>2, <1>3 DEF TypeOK
    <2>2. CopyInv(p, u)
      BY <1>1 DEF TaskInv
    <2>. QED
      BY <2>1, <2>2 DEF CopyInv, FetchTask, Unbilled
  <1>7. after'[p] \in {"sweep", "poll"}
    BY <1>1 DEF FetchTask, WorkerInv
  <1>8. pc[p] \notin Billing
    BY <1>2 DEF Billing
  <1>. QED
    BY <1>1, <1>4, <1>5, <1>6, <1>7, <1>8, HandlingTasks, QuietInv
    DEF FetchTask, Unbilled, accountVars

LEMMA UnchangedInv ==
    ASSUME PollersOnly, TypeOK, TaskInv, NEW p \in Pollers, NEW t, NEW r,
           pc[p] = "fetched", todo' = todo, Unchanged(p, t, r)
    PROVE  TaskInv'
  <1>1. p \in Workers /\ WorkerInv(p) /\ Rest(p) = "poll"
    BY PollerSteps DEF Workers, TaskInv
  <1>2. pc' = [pc EXCEPT ![p] = "poll"] /\ pc'[p] = "poll"
    BY <1>1 DEF Unchanged, Goes, TypeOK
  <1>3. \A v \in Workers \ {p} : SameWorker(v)
    BY <1>1, <1>2 DEF Unchanged, SameWorker, TypeOK
  <1>4. ASSUME NEW u \in Tasks
        PROVE  CopyInv(p, u)'
    <2>1. CopyInv(p, u)
      BY <1>1 DEF TaskInv
    <2>. QED
      BY <1>2, <2>1 DEF CopyInv, Unchanged, Unbilled
  <1>5. after'[p] \in {"sweep", "poll"} /\ pc[p] \notin Billing
    BY <1>1 DEF Unchanged, WorkerInv, Billing
  <1>. QED
    BY <1>1, <1>2, <1>3, <1>4, <1>5, HandlingTasks, QuietInv
    DEF Unchanged, Unbilled, accountVars, Between

LEMMA CrashInv ==
    ASSUME PollersOnly, TypeOK, TaskInv, NEW w \in Workers, Crash(w)
    PROVE  TaskInv'
  <1>1. WorkerInv(w) /\ Rest(w) = "poll"
    BY PollerSteps DEF TaskInv
  <1>2. /\ pc' = [pc EXCEPT ![w] = "poll"] /\ pc'[w] = "poll"
        /\ todo' = [todo EXCEPT ![w] = {}] /\ todo'[w] = {}
    BY <1>1 DEF Crash, TypeOK
  <1>3. \A v \in Workers \ {w} : SameWorker(v)
    BY <1>2 DEF Crash, SameWorker, TypeOK
  <1>4. \A t \in Tasks : logged'[t] = logged[t] \/ logged'[t] # {}
    BY DEF Crash, TypeOK
  <1>5. pc[w] \in Billing => logged'[cur[w]] # {}
    BY HandlingTasks DEF Crash, TypeOK
  <1>6. \A t \in Tasks : CopyInv(w, t)'
    BY <1>2 DEF CopyInv
  <1>7. after'[w] \in {"sweep", "poll"}
    BY <1>1 DEF Crash, WorkerInv
  <1>. QED
    BY <1>2, <1>3, <1>4, <1>5, <1>6, <1>7, HandlingTasks, QuietInv
    DEF Crash, accountVars, Between

LEMMA SameInv ==
    ASSUME TaskInv, UNCHANGED <<row, accountVars, logged, workerVars>>
    PROVE  TaskInv'
  <1>1. /\ row' = row /\ account' = account /\ tokenAccount' = tokenAccount
        /\ logged' = logged /\ pc' = pc /\ after' = after /\ todo' = todo
        /\ cur' = cur /\ mem' = mem /\ due' = due
    BY DEF accountVars, workerVars
  <1>2. \A t \in Tasks : AccountInv(t)'
    BY <1>1 DEF TaskInv, AccountInv
  <1>3. \A w \in Workers : BillingInv(w)'
    BY <1>1 DEF TaskInv, BillingInv
  <1>4. \A w \in Workers : WorkerInv(w)'
    BY <1>1 DEF TaskInv, WorkerInv
  <1>5. \A w \in Workers, t \in Tasks : CopyInv(w, t)'
    BY <1>1 DEF TaskInv, CopyInv
  <1>6. \A t \in Tasks : TaskBilled(t)'
    BY <1>1 DEF TaskInv, FinishedTaskBilled, TaskBilled, BilledNow
  <1>. QED
    BY <1>2, <1>3, <1>4, <1>5, <1>6 DEF TaskInv, FinishedTaskBilled

-----------------------------------------------------------------------------
(* Submission, and the transition that one worker wins. *)

LEMMA SubmitInv ==
    ASSUME PollersOnly, TypeOK, TaskInv, NEW t \in Tasks, Submit(t)
    PROVE  TaskInv'
  <1>1. PICK actual \in Costs, ups \in {"none", "pending"} :
           /\ account' = [account EXCEPT ![t] = Held(actual)]
           /\ tokenAccount' = [tokenAccount EXCEPT ![t] = Held(actual)]
           /\ \/ row' = row
              \/ row' = [row EXCEPT ![t] = [status |-> "NOT_START",
                                            complete |-> FALSE,
                                            failReason |-> FALSE,
                                            quota |-> actual,
                                            upscale |-> ups]]
           /\ logged' = [logged EXCEPT ![t] = logged'[t]]
    <2>1. PICK est, actual \in Costs, ups \in {"none", "pending"} :
             \E taken, tokenTaken \in {est, actual}, inserted \in BOOLEAN :
                Submission(t, est, actual, ups, taken, tokenTaken, inserted)
      BY Submissions
    <2>2. PICK taken, tokenTaken \in {est, actual}, inserted \in BOOLEAN :
             Submission(t, est, actual, ups, taken, tokenTaken, inserted)
      BY <2>1
    <2>3. tokenTaken = actual /\ taken = actual
      BY <2>2 DEF PollersOnly, Submission
    <2>4. logged' = [logged EXCEPT ![t] = logged'[t]]
      BY <2>2 DEF TypeOK, Submission
    <2>. QED
      BY <2>2, <2>3, <2>4 DEF Submission, Held
  <1>2. row[t].status = "none"
    BY DEF Submit, TaskInv, AccountInv
  <1>3. AccountInv(t)'
    <2>1. AccountInv(t)
      BY DEF TaskInv
    <2>. QED
      BY <1>1, <1>2, <2>1 DEF AccountInv, TypeOK, Held, Open
  <1>4. row'[t].status \in {"none", "NOT_START"}
    BY <1>1, <1>2 DEF TypeOK
  <1>5. TaskBilled(t)'
    BY <1>3, <1>4 DEF AccountInv, TaskBilled
  <1>. DEFINE Nobody == CHOOSE w : w \notin Workers
  <1>6. Nobody \notin Workers
    BY NoSetContainsEverything
  <1>7. ASSUME NEW v \in Workers
        PROVE  SameWorker(v) /\ (pc[v] \in Billing => cur[v] # t)
    <2>1. SameWorker(v)
      BY DEF Submit, workerVars, SameWorker
    <2>. QED
      BY <1>2, <2>1, BilledFinished
  <1>8. \A u \in Tasks \ {t} : SameTask(u)
    BY <1>1 DEF SameTask, TypeOK
  <1>9. Touches(Nobody, t)
    BY <1>2, <1>6, <1>7, <1>8 DEF Touches
  <1>. HIDE DEF Nobody
  <1>. QED
    BY <1>3, <1>5, <1>6, <1>9, Frame

(* What the winner of a transition is to do, by what the row becomes. *)
Billed(r, bill) ==
    \/ r.status = "IN_PROGRESS" /\ bill = "none"
    \/ r.status = "FAILURE" /\ bill = "refund"
    \/ r.status = "SUCCESS" /\ bill = "settle"

LEMMA TransitionInv ==
    ASSUME TypeOK, TaskInv, NEW p \in Workers, NEW t \in Tasks,
           NEW r \in Task, NEW bill, NEW back \in {"sweep", "poll"},
           Transition(p, t, r, bill, back), Billed(r, bill),
           pc[p] \notin Billing,
           todo' = [todo EXCEPT ![p] = todo'[p]],
           todo'[p] \subseteq todo[p] \ {t},
           Open(mem[p][t]), row[t].status # "none",
           Open(row[t]) => mem[p][t].quota = row[t].quota,
           r.quota = mem[p][t].quota, ~ r.failReason
    PROVE  TaskInv'
  <1>1. /\ mem' = [mem EXCEPT ![p][t] = r] /\ cur' = [cur EXCEPT ![p] = t]
        /\ after' = [after EXCEPT ![p] = back]
        /\ UNCHANGED <<wallet, token, account, tokenAccount, logged, seen, due>>
    BY DEF Transition, UpdateWithStatus, accountVars
  <1>2. PICK step \in {"sweep", "poll", "refundFunding", "settleFunding"} :
           /\ pc' = [pc EXCEPT ![p] = step]
           /\ \/ /\ Matches(t, mem[p][t]) /\ row' = [row EXCEPT ![t] = r]
                 /\ step = FirstStep(r, bill, back)
              \/ row' = row /\ step = back
    BY DEF Transition, UpdateWithStatus, FirstStep, Goes
  <1>3. /\ pc'[p] = step /\ cur'[p] = t /\ after'[p] = back /\ mem'[p][t] = r
        /\ t \notin todo'[p]
    BY <1>1, <1>2 DEF TypeOK
  <1>4. \A v \in Workers \ {p} : SameWorker(v)
    BY <1>1, <1>2 DEF SameWorker, TypeOK
  <1>5. ASSUME NEW u \in todo'[p]
        PROVE  u \in todo[p] /\ u # t /\ mem'[p][u] = mem[p][u]
    BY <1>1 DEF TypeOK
  <1>6. ASSUME NEW u \in Tasks, row'[u] = row[u], step # "fetched"
        PROVE  CopyInv(p, u)'
    <2>1. CopyInv(p, u)
      BY DEF TaskInv
    <2>. QED
      BY <1>3, <1>5, <1>6, <2>1 DEF CopyInv
  <1>7. CASE row' = row /\ step = back
    <2>1. \A u \in Tasks : CopyInv(p, u)'
      BY <1>6, <1>7
    <2>. QED
      BY <1>1, <1>3, <1>4, <1>7, <2>1, HandlingTasks, QuietInv DEF Between
  <1>8. CASE /\ Matches(t, mem[p][t]) /\ row' = [row EXCEPT ![t] = r]
             /\ step = FirstStep(r, bill, back)
    <2>1. row'[t] = r
      BY <1>8 DEF TypeOK
    <2>2. Open(row[t]) /\ row[t].quota = r.quota
      BY <1>8 DEF Matches, Open
    <2>3. account'[t] = Held(r.quota) /\ tokenAccount'[t] = Held(r.quota)
      BY <1>1, <2>2 DEF TaskInv, AccountInv
    <2>4. AccountInv(t)'
      BY <2>1, <2>3 DEF AccountInv, Held
    <2>5. Touches(p, t)
      <3>1. \A u \in Tasks \ {t} : SameTask(u)
        BY <1>1, <1>8 DEF SameTask, TypeOK
      <3>2. \A v \in Workers : pc[v] \in Billing => cur[v] # t
        BY <2>2, BilledFinished DEF Open
      <3>3. row'[t].status # "none"
        BY <2>1 DEF Billed
      <3>. QED
        BY <1>3, <1>4, <2>1, <2>2, <3>1, <3>2, <3>3 DEF Touches
    <2>6. step \in Billing \/ step = back
      BY <1>8 DEF FirstStep, Billing
    <2>7. WorkerInv(p)'
      BY <1>3, <2>6 DEF WorkerInv
    <2>8. BillingInv(p)'
      <3>1. CASE step = back
        BY <1>3, <3>1 DEF BillingInv, Billing
      <3>2. CASE step # back
        <4>1. \/ step = "refundFunding" /\ r.status = "FAILURE"
              \/ step = "settleFunding" /\ r.status = "SUCCESS"
          BY <1>8, <3>2 DEF FirstStep, Billed
        <4>2. \A v \in Workers \ {p} : pc'[v] \in Billing => cur'[v] # t
          BY <2>5 DEF Touches, SameWorker
        <4>. QED
          BY <1>3, <2>1, <2>3, <4>1, <4>2 DEF BillingInv, Billing
      <3>. QED
        BY <3>1, <3>2
    <2>9. ASSUME NEW u \in Tasks
          PROVE  CopyInv(p, u)'
      <3>1. CASE u = t
        BY <1>3, <2>6, <3>1 DEF CopyInv, Billing
      <3>2. CASE u # t
        BY <1>6, <1>8, <3>2 DEF TypeOK
      <3>. QED
        BY <3>1, <3>2
    <2>10. TaskBilled(t)'
      <3>1. CASE step \in Billing
        BY <1>3, <3>1 DEF TaskBilled, BilledNow
      <3>2. CASE step \notin Billing
        <4>1. r.status = "IN_PROGRESS" \/ (r.status = "FAILURE" /\ r.quota = 0)
          BY <1>8, <3>2 DEF FirstStep, Billed, Billing
        <4>. QED
          BY <2>1, <2>3, <4>1 DEF TaskBilled, Held
      <3>. QED
        BY <3>1, <3>2
    <2>. QED
      BY <2>4, <2>5, <2>7, <2>8, <2>9, <2>10, Frame
  <1>. QED
    BY <1>2, <1>7, <1>8

LEMMA FailTaskInv ==
    ASSUME TypeOK, TaskInv, NEW p \in Pollers, NEW t \in Tasks,
           pc[p] \in {"sweep", "poll"}, FailTask(p, t)
    PROVE  TaskInv'
  <1>. DEFINE r == [mem[p][t] EXCEPT !.status = "FAILURE", !.complete = TRUE]
  <1>1. p \in Workers /\ CopyInv(p, t)
    BY DEF Workers, TaskInv
  <1>2. /\ t \in todo[p] /\ todo' = [todo EXCEPT ![p] = @ \ {t}]
        /\ Transition(p, t, r, "refund", pc[p])
    BY DEF FailTask
  <1>3. /\ r \in Task /\ r.status = "FAILURE" /\ r.quota = mem[p][t].quota
        /\ r.failReason = mem[p][t].failReason
    BY <1>1, CopyType DEF Task
  <1>4. Billed(r, "refund") /\ pc[p] \notin Billing
    BY <1>3 DEF Billed, Billing
  <1>5. /\ todo' = [todo EXCEPT ![p] = todo'[p]]
        /\ todo'[p] \subseteq todo[p] \ {t}
    BY <1>1, <1>2 DEF TypeOK
  <1>6. /\ Open(mem[p][t]) /\ row[t].status # "none" /\ ~ mem[p][t].failReason
        /\ Open(row[t]) => mem[p][t].quota = row[t].quota
    BY <1>1, <1>2 DEF CopyInv
  <1>. HIDE DEF r
  <1>. QED
    BY <1>1, <1>2, <1>3, <1>4, <1>5, <1>6, TransitionInv

LEMMA VideoOutcomesBilled ==
    ASSUME NEW r \in Task, NEW a \in Answers, NEW full \in BOOLEAN,
           NEW o \in VideoOutcomes(r, a, full)
    PROVE  /\ o.row.quota = r.quota /\ o.row.failReason = r.failReason
           /\ Billed(o.row, o.bill)
  <1>. DEFINE Becomes(status, complete, upscale) ==
                 [r EXCEPT !.status = status, !.complete = complete,
                           !.upscale = upscale]
              BillOf(status) ==
                 CASE status = "IN_PROGRESS" -> "none"
                   [] status = "FAILURE"     -> "refund"
                   [] status = "SUCCESS"     -> "settle"
              Ups == {"processing", "failed", "succeeded", "running", r.upscale}
              progress == full /\ r.upscale \notin {"pending", "processing"}
  <1>1. \A s \in {"IN_PROGRESS", "SUCCESS", "FAILURE"}, c \in BOOLEAN, u \in Ups :
           LET new == Becomes(s, c, u)
           IN new.quota = r.quota /\ new.status = s /\ new.failReason = r.failReason
    BY DEF Task
  <1>2. progress \in BOOLEAN
    OBVIOUS
  <1>3. \E s \in {"IN_PROGRESS", "SUCCESS", "FAILURE"}, c \in {progress, FALSE, TRUE},
           u \in Ups : o = Outcome(Becomes(s, c, u), BillOf(s))
    BY DEF VideoOutcomes, Answers
  <1>4. PICK s \in {"IN_PROGRESS", "SUCCESS", "FAILURE"}, c \in {progress, FALSE, TRUE},
           u \in Ups : o = Outcome(Becomes(s, c, u), BillOf(s))
    BY <1>3
  <1>5. o.row = Becomes(s, c, u) /\ o.bill = BillOf(s)
    BY <1>4 DEF Outcome
  <1>6. \/ s = "IN_PROGRESS" /\ BillOf(s) = "none"
        \/ s = "FAILURE" /\ BillOf(s) = "refund"
        \/ s = "SUCCESS" /\ BillOf(s) = "settle"
    BY <1>4
  <1>7. c \in BOOLEAN
    BY <1>2, <1>4
  <1>. HIDE DEF Becomes, BillOf, Ups, progress
  <1>. QED
    BY <1>1, <1>4, <1>5, <1>6, <1>7 DEF Billed

LEMMA VideoResultInv ==
    ASSUME PollersOnly, TypeOK, TaskInv, NEW p \in Pollers, VideoResult(p)
    PROVE  TaskInv'
  <1>. DEFINE t == cur[p]
  <1>1. p \in Workers /\ WorkerInv(p) /\ pc[p] = "fetched" /\ todo' = todo
    BY DEF Workers, TaskInv, VideoResult, At
  <1>2. t \in Tasks /\ t \notin todo[p]
    BY <1>1 DEF TypeOK, Handling, WorkerInv
  <1>3. CopyInv(p, t)
    BY <1>1, <1>2 DEF TaskInv
  <1>4. mem[p][t] \in Task /\ seen[p] \in Answers
    BY <1>1, <1>2, CopyType DEF TypeOK
  <1>. DEFINE Ends(o) ==
                 Unchanged(p, t, o.row) \/ Transition(p, t, o.row, o.bill, "poll")
  <1>0. PICK full \in BOOLEAN :
           \E o \in VideoOutcomes(mem[p][t], seen[p], full) : Ends(o)
    BY DEF VideoResult
  <1>5. PICK o \in VideoOutcomes(mem[p][t], seen[p], full) : Ends(o)
    BY <1>0
  <1>6. /\ o.row \in Task /\ o.row.quota = mem[p][t].quota
        /\ o.row.failReason = mem[p][t].failReason /\ Billed(o.row, o.bill)
    BY <1>4, OutcomeType, VideoOutcomesBilled
  <1>7. /\ Open(mem[p][t]) /\ row[t].status # "none" /\ ~ mem[p][t].failReason
        /\ Open(row[t]) => mem[p][t].quota = row[t].quota
    BY <1>1, <1>3 DEF CopyInv
  <1>8. /\ todo' = [todo EXCEPT ![p] = todo'[p]]
        /\ todo'[p] \subseteq todo[p] \ {t}
    BY <1>1, <1>2 DEF TypeOK
  <1>9. pc[p] \notin Billing
    BY <1>1 DEF Billing
  <1>. HIDE DEF t
  <1>10. CASE Unchanged(p, t, o.row)
    BY <1>1, <1>10, UnchangedInv
  <1>11. CASE Transition(p, t, o.row, o.bill, "poll")
    BY <1>1, <1>2, <1>6, <1>7, <1>8, <1>9, <1>11, TransitionInv
  <1>. QED
    BY <1>5, <1>10, <1>11

-----------------------------------------------------------------------------
(* The steps of a worker's billing. *)

(* A billing step of w leaves its task finished and taken, and all other   *)
(* tasks alone; w goes on billing or back to its tasks.                    *)
LEMMA BillInv ==
    ASSUME TypeOK, TaskInv, NEW w \in Workers, NEW t \in Tasks, t = cur[w],
           pc[w] \in Billing, NEW step, pc' = [pc EXCEPT ![w] = step],
           step \in Billing \/ step = after[w],
           UNCHANGED <<after, todo, cur>>,
           due' = [due EXCEPT ![w] = due'[w]],
           mem' = [mem EXCEPT ![w] = mem'[w]],
           \A u \in Tasks \ {t} : mem'[w][u] = mem[w][u],
           \A u \in Tasks \ {t} : SameTask(u),
           row'[t].status = row[t].status, row'[t].failReason = row[t].failReason,
           account'[t].state # "idle",
           step \in Billing =>
              ((\A v \in Workers \ {w} : pc'[v] \in Billing => cur'[v] # t)
                => BillingInv(w)'),
           TaskBilled(t)'
    PROVE  TaskInv'
  <1>1. pc'[w] = step /\ cur'[w] = t /\ after'[w] = after[w]
    BY DEF TypeOK
  <1>2. ASSUME NEW v \in Workers \ {w}
        PROVE  SameWorker(v)
    <2>1. due'[v] = due[v] /\ mem'[v] = mem[v] /\ pc'[v] = pc[v]
      BY DEF TypeOK
    <2>. QED
      BY <2>1 DEF SameWorker
  <1>3. \A v \in Workers \ {w} : pc[v] \in Billing => cur[v] # t
    BY DEF TaskInv, BillingInv
  <1>4. row[t].status \in {"SUCCESS", "FAILURE"}
    BY BilledFinished
  <1>5. Touches(w, t)
    BY <1>1, <1>2, <1>3, <1>4 DEF Touches, Open
  <1>6. AccountInv(t)'
    <2>1. ~ row[t].failReason
      BY DEF TaskInv, AccountInv
    <2>. QED
      BY <1>4, <2>1 DEF AccountInv, Open
  <1>7. WorkerInv(w)
    BY DEF TaskInv
  <1>8. WorkerInv(w)'
    BY <1>1, <1>7 DEF WorkerInv, Billing
  <1>9. BillingInv(w)'
    <2>1. CASE step \in Billing
      BY <1>1, <1>2, <1>3, <2>1 DEF SameWorker
    <2>2. CASE step \notin Billing
      BY <1>1, <2>2 DEF BillingInv, Billing
    <2>. QED
      BY <2>1, <2>2
  <1>10. ASSUME NEW u \in Tasks
         PROVE  CopyInv(w, u)'
    <2>1. pc'[w] # "fetched"
      BY <1>1, <1>7 DEF WorkerInv, Billing
    <2>2. u \in todo[w] => u # t
      BY <1>7 DEF WorkerInv
    <2>3. CopyInv(w, u)
      BY DEF TaskInv
    <2>. QED
      BY <2>1, <2>2, <2>3 DEF CopyInv, SameTask
  <1>. QED
    BY <1>5, <1>6, <1>8, <1>9, <1>10, Frame

(* What the invariant says of a worker that bills. *)
LEMMA Bills ==
    ASSUME TypeOK, TaskInv, NEW w \in Workers, pc[w] \in Billing
    PROVE  /\ cur[w] \in Tasks /\ BillingInv(w) /\ WorkerInv(w)
           /\ mem[w][cur[w]] \in Task /\ mem[w][cur[w]].quota \in Nat
           /\ account[cur[w]].amount \in Int
           /\ tokenAccount[cur[w]].amount \in Int
           /\ after[w] \notin Billing
  <1>1. cur[w] \in Tasks
    BY HandlingTasks
  <1>2. BillingInv(w) /\ WorkerInv(w)
    BY DEF TaskInv
  <1>3. account[cur[w]] \in Account /\ tokenAccount[cur[w]] \in Account
    BY <1>1 DEF TypeOK
  <1>. QED
    BY <1>1, <1>2, <1>3, CopyType DEF Account, WorkerInv, Billing

LEMMA Logged ==
    ASSUME TypeOK, NEW w \in Workers, cur[w] \in Tasks, NEW f, Log(w, f)
    PROVE  /\ logged'[cur[w]] # {}
           /\ \A u \in Tasks \ {cur[w]} : logged'[u] = logged[u]
  BY DEF Log, TypeOK

LEMMA MovedFunding ==
    ASSUME TypeOK, NEW w \in Workers, cur[w] \in Tasks, NEW n \in Int, NEW state,
           MoveFunding(w, n, state)
    PROVE  /\ account'[cur[w]] =
                 [state |-> state, amount |-> account[cur[w]].amount + n]
           /\ \A u \in Tasks \ {cur[w]} : account'[u] = account[u]
  BY DEF MoveFunding, TypeOK

LEMMA MovedToken ==
    ASSUME TypeOK, NEW w \in Workers, cur[w] \in Tasks, NEW n \in Int, NEW state,
           MoveToken(w, n, state)
    PROVE  /\ tokenAccount'[cur[w]] =
                 [state |-> state, amount |-> tokenAccount[cur[w]].amount + n]
           /\ \A u \in Tasks \ {cur[w]} : tokenAccount'[u] = tokenAccount[u]
  BY DEF MoveToken, TypeOK

(* A task that a worker bills was taken, so its account is not idle. *)
LEMMA BilledTaken ==
    ASSUME TaskInv, NEW w \in Workers, pc[w] \in Billing, cur[w] \in Tasks
    PROVE  account[cur[w]].state # "idle"
  BY BilledFinished DEF TaskInv, AccountInv

(* Its billing over, a worker goes back to its tasks. *)
LEMMA BackInv ==
    ASSUME TypeOK, TaskInv, NEW w \in Workers, NEW t \in Tasks, t = cur[w],
           pc[w] \in Billing, Goes(w, after[w]),
           UNCHANGED <<after, todo, cur, due>>,
           mem' = [mem EXCEPT ![w] = mem'[w]],
           \A u \in Tasks \ {t} : mem'[w][u] = mem[w][u],
           \A u \in Tasks \ {t} : SameTask(u),
           row'[t].status = row[t].status, row'[t].failReason = row[t].failReason,
           account'[t] = account[t], TaskBilled(t)'
    PROVE  TaskInv'
  <1>1. after[w] \notin Billing /\ account[t].state # "idle"
    BY Bills, BilledTaken
  <1>2. due' = [due EXCEPT ![w] = due'[w]]
    BY DEF TypeOK
  <1>. QED
    BY <1>1, <1>2, BillInv DEF Goes

LEMMA RefundFundingInv ==
    ASSUME TypeOK, TaskInv, NEW w \in Workers, NEW t \in Tasks, t = cur[w],
           RefundFunding(w)
    PROVE  TaskInv'
  <1>. DEFINE q == mem[w][t].quota
  <1>1. pc[w] = "refundFunding" /\ pc[w] \in Billing
    BY DEF RefundFunding, At, Billing
  <1>2. BillingInv(w) /\ q \in Nat
    BY <1>1, Bills
  <1>3. row[t].status = "FAILURE" /\ account[t] = Held(q)
                                  /\ tokenAccount[t] = Held(q)
    BY <1>1, <1>2 DEF BillingInv
  <1>4. UNCHANGED <<row, tokenAccount, after, todo, cur, mem, due>>
    BY DEF RefundFunding
  <1>5. due' = [due EXCEPT ![w] = due'[w]] /\ mem' = [mem EXCEPT ![w] = mem'[w]]
    BY <1>4 DEF TypeOK
  <1>6. CASE /\ MoveFunding(w, -q, "released") /\ Goes(w, "refundToken")
             /\ UNCHANGED logged
    <2>1. account'[t] = [state |-> "released", amount |-> q + (-q)]
      <3>1. -q \in Int
        BY <1>2
      <3>2. account'[t] = [state |-> "released", amount |-> account[t].amount + (-q)]
        BY <1>6, <3>1, MovedFunding
      <3>. QED
        BY <1>3, <3>2 DEF Held
    <2>2. account'[t].amount = 0 /\ account'[t].state = "released"
      BY <1>2, <2>1
    <2>3. \A u \in Tasks \ {t} : SameTask(u)
      <3>1. -q \in Int
        BY <1>2
      <3>2. \A u \in Tasks \ {t} : account'[u] = account[u]
        BY <1>6, <3>1, MovedFunding
      <3>. QED
        BY <1>4, <1>6, <3>2 DEF SameTask
    <2>4. pc'[w] = "refundToken" /\ cur'[w] = t /\ mem'[w][t].quota = q
      BY <1>4, <1>6 DEF Goes, TypeOK
    <2>5. (\A v \in Workers \ {w} : pc'[v] \in Billing => cur'[v] # t)
             => BillingInv(w)'
      BY <1>3, <1>4, <2>2, <2>4 DEF BillingInv, Billing
    <2>6. TaskBilled(t)'
      BY <2>4 DEF TaskBilled, BilledNow, Billing
    <2>7. pc' = [pc EXCEPT ![w] = "refundToken"] /\ "refundToken" \in Billing
      BY <1>6 DEF Goes, Billing
    <2>. QED
      BY <1>1, <1>4, <1>5, <2>2, <2>3, <2>5, <2>6, <2>7, BillInv
  <1>7. CASE Log(w, "funding") /\ Goes(w, after[w]) /\ UNCHANGED account
    <2>1. logged'[t] # {} /\ \A u \in Tasks \ {t} : SameTask(u)
      BY <1>4, <1>7, Logged DEF SameTask
    <2>2. TaskBilled(t)'
      BY <2>1 DEF TaskBilled
    <2>. QED
      BY <1>1, <1>4, <1>5, <1>7, <2>1, <2>2, BackInv
  <1>. QED
    BY <1>6, <1>7 DEF RefundFunding

LEMMA RefundTokenInv ==
    ASSUME TypeOK, TaskInv, NEW w \in Workers, NEW t \in Tasks, t = cur[w],
           RefundToken(w)
    PROVE  TaskInv'
  <1>. DEFINE q == mem[w][t].quota
  <1>1. pc[w] = "refundToken" /\ pc[w] \in Billing
    BY DEF RefundToken, At, Billing
  <1>2. BillingInv(w) /\ q \in Nat
    BY <1>1, Bills
  <1>3. /\ row[t].status = "FAILURE" /\ account[t].amount = 0
        /\ tokenAccount[t] = Held(q)
    BY <1>1, <1>2 DEF BillingInv, Billing
  <1>4. /\ UNCHANGED <<row, account, after, todo, cur, mem, due>>
        /\ Goes(w, after[w])
    BY DEF RefundToken
  <1>5. mem' = [mem EXCEPT ![w] = mem'[w]]
    BY <1>4 DEF TypeOK
  <1>6. CASE MoveToken(w, -q, "released") /\ UNCHANGED logged
    <2>1. tokenAccount'[t] = [state |-> "released", amount |-> q + (-q)]
      <3>1. -q \in Int
        BY <1>2
      <3>2. tokenAccount'[t] =
               [state |-> "released", amount |-> tokenAccount[t].amount + (-q)]
        BY <1>6, <3>1, MovedToken
      <3>. QED
        BY <1>3, <3>2 DEF Held
    <2>2. tokenAccount'[t].amount = 0
      BY <1>2, <2>1
    <2>3. \A u \in Tasks \ {t} : SameTask(u)
      <3>1. -q \in Int
        BY <1>2
      <3>2. \A u \in Tasks \ {t} : tokenAccount'[u] = tokenAccount[u]
        BY <1>6, <3>1, MovedToken
      <3>. QED
        BY <1>4, <1>6, <3>2 DEF SameTask
    <2>4. TaskBilled(t)'
      BY <1>3, <1>4, <2>2 DEF TaskBilled
    <2>. QED
      BY <1>1, <1>4, <1>5, <2>3, <2>4, BackInv
  <1>7. CASE Log(w, "token") /\ UNCHANGED tokenAccount
    <2>1. logged'[t] # {} /\ \A u \in Tasks \ {t} : SameTask(u)
      BY <1>4, <1>7, Logged DEF SameTask
    <2>2. TaskBilled(t)'
      BY <2>1 DEF TaskBilled
    <2>. QED
      BY <1>1, <1>4, <1>5, <2>1, <2>2, BackInv
  <1>. QED
    BY <1>6, <1>7 DEF RefundToken

LEMMA SettleFundingInv ==
    ASSUME TypeOK, TaskInv, NEW w \in Workers, NEW t \in Tasks, t = cur[w],
           SettleFunding(w)
    PROVE  TaskInv'
  <1>. DEFINE q == mem[w][t].quota
  <1>1. pc[w] = "settleFunding" /\ pc[w] \in Billing
    BY DEF SettleFunding, At, Billing
  <1>2. BillingInv(w) /\ q \in Nat
    BY <1>1, Bills
  <1>3. /\ row[t].status = "SUCCESS" /\ row[t].quota = q
        /\ account[t] = Held(q) /\ tokenAccount[t] = Held(q)
        /\ ~ row[t].failReason
    BY <1>1, <1>2 DEF BillingInv, Billing, TaskInv, AccountInv
  <1>4. UNCHANGED <<row, tokenAccount, after, todo, cur, mem>>
    BY DEF SettleFunding
  <1>5. mem' = [mem EXCEPT ![w] = mem'[w]]
    BY <1>4 DEF TypeOK
  <1>6. CASE Goes(w, after[w]) /\ UNCHANGED <<account, logged, due>>
    <2>1. TaskBilled(t)'
      BY <1>3, <1>4, <1>6 DEF TaskBilled, Held
    <2>2. \A u \in Tasks \ {t} : SameTask(u)
      BY <1>4, <1>6 DEF SameTask
    <2>. QED
      BY <1>1, <1>4, <1>5, <1>6, <2>1, <2>2, BackInv
  <1>7. ASSUME NEW actual \in Costs, MoveFunding(w, actual - q, "charged"),
               due' = [due EXCEPT ![w] = actual], Goes(w, "settleToken"),
               UNCHANGED logged
        PROVE  TaskInv'
    <2>1. actual \in Nat
      BY TaskAssumption
    <2>2. account'[t] = [state |-> "charged", amount |-> q + (actual - q)]
      <3>1. actual - q \in Int
        BY <1>2, <2>1
      <3>2. account'[t] =
               [state |-> "charged", amount |-> account[t].amount + (actual - q)]
        BY <1>7, <3>1, MovedFunding
      <3>. QED
        BY <1>3, <3>2 DEF Held
    <2>3. account'[t].amount = actual /\ account'[t].state = "charged"
      BY <1>2, <2>1, <2>2
    <2>4. \A u \in Tasks \ {t} : SameTask(u)
      <3>1. actual - q \in Int
        BY <1>2, <2>1
      <3>2. \A u \in Tasks \ {t} : account'[u] = account[u]
        BY <1>7, <3>1, MovedFunding
      <3>. QED
        BY <1>4, <1>7, <3>2 DEF SameTask
    <2>5. /\ pc'[w] = "settleToken" /\ cur'[w] = t /\ mem'[w][t].quota = q
          /\ due'[w] = actual
      BY <1>4, <1>7 DEF Goes, TypeOK
    <2>6. (\A v \in Workers \ {w} : pc'[v] \in Billing => cur'[v] # t)
             => BillingInv(w)'
      BY <1>3, <1>4, <2>3, <2>5 DEF BillingInv, Billing
    <2>7. TaskBilled(t)'
      BY <2>5 DEF TaskBilled, BilledNow, Billing
    <2>8. pc' = [pc EXCEPT ![w] = "settleToken"] /\ "settleToken" \in Billing
      BY <1>7 DEF Goes, Billing
    <2>9. due' = [due EXCEPT ![w] = due'[w]]
      BY <1>7, <2>5
    <2>. QED
      BY <1>1, <1>4, <1>5, <2>3, <2>4, <2>6, <2>7, <2>8, <2>9, BillInv
  <1>8. CASE Log(w, "funding") /\ Goes(w, after[w]) /\ UNCHANGED <<account, due>>
    <2>1. logged'[t] # {} /\ \A u \in Tasks \ {t} : SameTask(u)
      BY <1>4, <1>8, Logged DEF SameTask
    <2>2. TaskBilled(t)'
      BY <2>1 DEF TaskBilled
    <2>. QED
      BY <1>1, <1>4, <1>5, <1>8, <2>1, <2>2, BackInv
  <1>. QED
    BY <1>6, <1>7, <1>8 DEF SettleFunding

LEMMA SettleTokenInv ==
    ASSUME TypeOK, TaskInv, NEW w \in Workers, NEW t \in Tasks, t = cur[w],
           SettleToken(w)
    PROVE  TaskInv'
  <1>. DEFINE q == mem[w][t].quota
  <1>1. pc[w] = "settleToken" /\ pc[w] \in Billing
    BY DEF SettleToken, At, Billing
  <1>2. BillingInv(w) /\ q \in Nat /\ due[w] \in Nat
    BY <1>1, Bills DEF TypeOK
  <1>3. /\ row[t].status = "SUCCESS" /\ account[t].amount = due[w]
        /\ tokenAccount[t] = Held(q)
    BY <1>1, <1>2 DEF BillingInv, Billing
  <1>4. UNCHANGED <<row, account, after, todo, cur, mem, due>>
    BY DEF SettleToken
  <1>5. due' = [due EXCEPT ![w] = due'[w]] /\ mem' = [mem EXCEPT ![w] = mem'[w]]
    BY <1>4 DEF TypeOK
  <1>6. pc' = [pc EXCEPT ![w] = "saveQuota"] /\ "saveQuota" \in Billing
    BY DEF SettleToken, Goes, Billing
  <1>7. /\ \A u \in Tasks \ {t} : SameTask(u)
        /\ tokenAccount'[t].amount = due[w] \/ logged'[t] # {}
    <2>1. CASE MoveToken(w, due[w] - q, "charged") /\ UNCHANGED logged
      <3>1. tokenAccount'[t] = [state |-> "charged", amount |-> q + (due[w] - q)]
        <4>1. due[w] - q \in Int
          BY <1>2
        <4>2. tokenAccount'[t] = [state |-> "charged",
                                  amount |-> tokenAccount[t].amount + (due[w] - q)]
          BY <2>1, <4>1, MovedToken
        <4>. QED
          BY <1>3, <4>2 DEF Held
      <3>2. tokenAccount'[t].amount = due[w]
        BY <1>2, <3>1
      <3>3. \A u \in Tasks \ {t} : tokenAccount'[u] = tokenAccount[u]
        <4>1. due[w] - q \in Int
          BY <1>2
        <4>. QED
          BY <2>1, <4>1, MovedToken
      <3>. QED
        BY <1>4, <2>1, <3>2, <3>3 DEF SameTask
    <2>2. CASE Log(w, "token") /\ UNCHANGED tokenAccount
      BY <1>4, <2>2, Logged DEF SameTask
    <2>. QED
      BY <2>1, <2>2 DEF SettleToken
  <1>8. pc'[w] = "saveQuota" /\ cur'[w] = t
    BY <1>4, <1>6 DEF TypeOK
  <1>9. (\A v \in Workers \ {w} : pc'[v] \in Billing => cur'[v] # t)
           => BillingInv(w)'
    BY <1>3, <1>4, <1>7, <1>8 DEF BillingInv, Billing
  <1>10. TaskBilled(t)'
    BY <1>8 DEF TaskBilled, BilledNow, Billing
  <1>11. account[t].state # "idle"
    BY <1>1, BilledTaken
  <1>. QED
    BY <1>1, <1>4, <1>5, <1>6, <1>7, <1>9, <1>10, <1>11, BillInv

LEMMA SaveQuotaInv ==
    ASSUME TypeOK, TaskInv, NEW w \in Workers, NEW t \in Tasks, t = cur[w],
           SaveQuota(w)
    PROVE  TaskInv'
  <1>1. pc[w] = "saveQuota" /\ pc[w] \in Billing
    BY DEF SaveQuota, At, Billing
  <1>2. BillingInv(w)
    BY <1>1, Bills
  <1>3. /\ row[t].status = "SUCCESS" /\ account[t].amount = due[w]
        /\ tokenAccount[t].amount = due[w] \/ logged[t] # {}
    BY <1>1, <1>2 DEF BillingInv, Billing
  <1>4. /\ UNCHANGED <<account, tokenAccount, after, todo, cur, due>>
        /\ Goes(w, after[w])
        /\ mem' = [mem EXCEPT ![w][t].quota = due[w]]
    BY DEF SaveQuota, QuotaToSave, accountVars
  <1>5. /\ mem' = [mem EXCEPT ![w] = mem'[w]]
        /\ \A u \in Tasks \ {t} : mem'[w][u] = mem[w][u]
    BY <1>4 DEF TypeOK
  <1>6. CASE row' = [row EXCEPT ![t].quota = due[w]] /\ UNCHANGED logged
    <2>1. row[t] \in Task /\ row'[t] = [row[t] EXCEPT !.quota = due[w]]
      BY <1>6 DEF TypeOK
    <2>2. /\ row'[t].quota = due[w] /\ row'[t].status = row[t].status
          /\ row'[t].failReason = row[t].failReason /\ ~ row[t].failReason
      BY <2>1 DEF Task, TaskInv, AccountInv
    <2>3. TaskBilled(t)'
      BY <1>3, <1>4, <1>6, <2>2 DEF TaskBilled
    <2>4. \A u \in Tasks \ {t} : SameTask(u)
      BY <1>4, <1>6 DEF SameTask, TypeOK
    <2>. QED
      BY <1>1, <1>4, <1>5, <2>2, <2>3, <2>4, BackInv
  <1>7. CASE Log(w, "row") /\ UNCHANGED row
    <2>1. logged'[t] # {} /\ \A u \in Tasks \ {t} : SameTask(u)
      BY <1>4, <1>7, Logged DEF SameTask
    <2>2. TaskBilled(t)'
      BY <2>1 DEF TaskBilled
    <2>. QED
      BY <1>1, <1>4, <1>5, <1>7, <2>1, <2>2, BackInv
  <1>. QED
    BY <1>6, <1>7 DEF SaveQuota, QuotaToSave

LEMMA BillStepInv ==
    ASSUME TypeOK, TaskInv, NEW w \in Workers, Bill(w)
    PROVE  TaskInv'
  <1>1. pc[w] \in Billing
    BY DEF Bill, RefundFunding, RefundToken, SettleFunding, SettleToken,
           SaveQuota, At, Billing
  <1>2. PICK t \in Tasks : t = cur[w]
    BY <1>1, HandlingTasks
  <1>. QED
    BY <1>2, RefundFundingInv, RefundTokenInv, SettleFundingInv,
       SettleTokenInv, SaveQuotaInv DEF Bill

-----------------------------------------------------------------------------
(* The theorems. *)

LEMMA LoadStepsInv ==
    ASSUME TypeOK, TaskInv, NEW p \in Pollers,
           LoadTimedOut(p) \/ LoadUnfinished(p)
    PROVE  TaskInv'
  <1>. DEFINE timedOut == {t \in Tasks : TimedOut(t)}
              unfinished == {t \in Tasks : Unfinished(row[t])}
  <1>1. /\ timedOut \in SUBSET Tasks /\ unfinished \in SUBSET Tasks
        /\ \A t \in timedOut : Open(row[t])
        /\ \A t \in unfinished : Open(row[t])
    BY DEF TimedOut, Unfinished
  <1>2. CASE LoadTimedOut(p)
    BY <1>1, <1>2, LoadInv DEF LoadTimedOut, At
  <1>3. CASE LoadUnfinished(p)
    BY <1>1, <1>3, LoadInv DEF LoadUnfinished, At
  <1>. QED
    BY <1>2, <1>3

(* Where no song is polled, SunoResult and SaveRow do not happen. *)
LEMMA PollInv ==
    ASSUME PollersOnly, TypeOK, TaskInv, NEW p \in Pollers, Poll(p)
    PROVE  TaskInv'
  <1>1. p \in Workers /\ WorkerInv(p)
    BY DEF Workers, TaskInv
  <1>2. ~ SaveRow(p)
    BY <1>1 DEF SaveRow, At, WorkerInv, Billing
  <1>3. ~ SunoResult(p)
    BY DEF SunoResult, PollersOnly
  <1>4. CASE \E t \in Tasks : SweepTask(p, t) \/ FailTaskAndRefund(p, t)
    BY <1>4, FailTaskInv DEF SweepTask, FailTaskAndRefund, At
  <1>. QED
    BY <1>2, <1>3, <1>4, LoadStepsInv, FetchTaskInv, VideoResultInv
    DEF Poll, PollTask

(* On any number of nodes, where no client queries and no song is polled,  *)
(* a worker that bills holds the only billing of its task, and the task's  *)
(* account and row are where the steps already taken left them (TaskInv).  *)
THEOREM TaskInvariant == ASSUME PollersOnly PROVE Spec => []TaskInv
  <1>1. Init => TaskInv
    BY PollerSteps
    DEF Init, TaskInv, AccountInv, BillingInv, CopyInv, WorkerInv,
        FinishedTaskBilled, TaskBilled, NoRow, Open, Billing, IdleAccount
  <1>2. TypeOK /\ TaskInv /\ [Next]_vars => TaskInv'
    <2>. SUFFICES ASSUME TypeOK, TaskInv, [Next]_vars PROVE TaskInv'
      OBVIOUS
    <2>1. CASE \E t \in Tasks : Submit(t)
      BY <2>1, SubmitInv
    <2>2. CASE (\E t \in Tasks : Expire(t)) \/ UNCHANGED vars
      BY <2>2, SameInv DEF Expire, vars
    <2>3. CASE \E w \in Workers : Bill(w) \/ Crash(w)
      BY <2>3, BillStepInv, CrashInv
    <2>. QED
      BY <2>1, <2>2, <2>3, PollInv DEF Next, PollersOnly
  <1>. QED
    BY <1>1, <1>2, TaskTypeCorrect, PTL DEF Spec

(* A failed task whose billing is over and lost nothing costs nothing, a   *)
(* successful one the quota of its row, on both balances: for every number *)
(* of nodes polling the same tasks (FinishedTaskBilled).                   *)
THEOREM FinishedBilled == ASSUME PollersOnly PROVE Spec => []FinishedTaskBilled
  <1>1. TaskInv => FinishedTaskBilled
    BY DEF TaskInv
  <1>. QED
    BY <1>1, TaskInvariant, PTL

(* How the account of a task moves: held, then charged or released once.   *)
AccountMove(a, b) ==
    \/ a = IdleAccount /\ b.state = "held"
    \/ a.state = "held" /\ b.state = "charged"
    \/ a.state = "held" /\ b = [state |-> "released", amount |-> 0]

FundingMove(t) ==
    /\ AccountMove(account[t], account'[t])
    /\ account' = [account EXCEPT ![t] = account'[t]]
    /\ wallet' = wallet + account[t].amount - account'[t].amount

TokenMove(t) ==
    /\ AccountMove(tokenAccount[t], tokenAccount'[t])
    /\ tokenAccount' = [tokenAccount EXCEPT ![t] = tokenAccount'[t]]
    /\ token' = token + tokenAccount[t].amount - tokenAccount'[t].amount

LEMMA SubmitMoves ==
    ASSUME TypeOK, TaskInv, NEW t \in Tasks, Submit(t)
    PROVE  FundingMove(t) /\ TokenMove(t)
  <1>1. account[t] = IdleAccount /\ tokenAccount[t] = IdleAccount
    BY DEF Submit, TaskInv, AccountInv
  <1>2. PICK est, actual \in Costs, ups \in {"none", "pending"} :
           \E taken, tokenTaken \in {est, actual}, inserted \in BOOLEAN :
              Submission(t, est, actual, ups, taken, tokenTaken, inserted)
    BY Submissions
  <1>3. PICK taken, tokenTaken \in {est, actual}, inserted \in BOOLEAN :
           Submission(t, est, actual, ups, taken, tokenTaken, inserted)
    BY <1>2
  <1>4. taken \in Nat /\ tokenTaken \in Nat
    BY TaskAssumption
  <1>5. /\ wallet' = wallet - taken /\ token' = token - tokenTaken
        /\ account' = [account EXCEPT ![t] = Held(taken)]
        /\ tokenAccount' = [tokenAccount EXCEPT ![t] = Held(tokenTaken)]
    BY <1>3 DEF Submission, Held
  <1>6. account'[t] = Held(taken) /\ tokenAccount'[t] = Held(tokenTaken)
    BY <1>5 DEF TypeOK
  <1>7. wallet \in Int /\ token \in Int
    BY DEF TypeOK
  <1>8. FundingMove(t)
    <2>1. account[t].amount = 0 /\ account'[t].amount = taken
      BY <1>1, <1>6 DEF Held, IdleAccount
    <2>2. wallet' = wallet + account[t].amount - account'[t].amount
      BY <1>4, <1>5, <1>7, <2>1
    <2>3. AccountMove(account[t], account'[t])
      BY <1>1, <1>6 DEF AccountMove, Held
    <2>. QED
      BY <1>5, <1>6, <2>2, <2>3 DEF FundingMove
  <1>9. TokenMove(t)
    <2>1. tokenAccount[t].amount = 0 /\ tokenAccount'[t].amount = tokenTaken
      BY <1>1, <1>6 DEF Held, IdleAccount
    <2>2. token' = token + tokenAccount[t].amount - tokenAccount'[t].amount
      BY <1>4, <1>5, <1>7, <2>1
    <2>3. AccountMove(tokenAccount[t], tokenAccount'[t])
      BY <1>1, <1>6 DEF AccountMove, Held
    <2>. QED
      BY <1>5, <1>6, <2>2, <2>3 DEF TokenMove
  <1>. QED
    BY <1>8, <1>9

LEMMA FundingCharge ==
    ASSUME TypeOK, NEW w \in Workers, NEW t \in Tasks, t = cur[w],
           NEW q \in Nat, account[t] = Held(q), NEW n \in Int, NEW state,
           MoveFunding(w, n, state),
           state = "charged" \/ (state = "released" /\ n = -q)
    PROVE  FundingMove(t)
  <1>1. account'[t] = [state |-> state, amount |-> q + n]
    BY MovedFunding DEF Held
  <1>2. account' = [account EXCEPT ![t] = account'[t]] /\ wallet' = wallet - n
    BY DEF MoveFunding, TypeOK
  <1>3. wallet' = wallet + account[t].amount - account'[t].amount
    <2>1. account[t].amount = q /\ account'[t].amount = q + n /\ wallet \in Int
      BY <1>1 DEF Held, TypeOK
    <2>. QED
      BY <1>2, <2>1
  <1>4. state = "released" => q + n = 0
    OBVIOUS
  <1>. QED
    BY <1>1, <1>2, <1>3, <1>4 DEF FundingMove, AccountMove, Held

LEMMA TokenCharge ==
    ASSUME TypeOK, NEW w \in Workers, NEW t \in Tasks, t = cur[w],
           NEW q \in Nat, tokenAccount[t] = Held(q), NEW n \in Int, NEW state,
           MoveToken(w, n, state),
           state = "charged" \/ (state = "released" /\ n = -q)
    PROVE  TokenMove(t)
  <1>1. tokenAccount'[t] = [state |-> state, amount |-> q + n]
    BY MovedToken DEF Held
  <1>2. /\ tokenAccount' = [tokenAccount EXCEPT ![t] = tokenAccount'[t]]
        /\ token' = token - n
    BY DEF MoveToken, TypeOK
  <1>3. token' = token + tokenAccount[t].amount - tokenAccount'[t].amount
    <2>1. tokenAccount[t].amount = q /\ tokenAccount'[t].amount = q + n /\ token \in Int
      BY <1>1 DEF Held, TypeOK
    <2>. QED
      BY <1>2, <2>1
  <1>4. state = "released" => q + n = 0
    OBVIOUS
  <1>. QED
    BY <1>1, <1>2, <1>3, <1>4 DEF TokenMove, AccountMove, Held

(* A billing step moves the funding source or the token, or nothing. *)
LEMMA BillMoves ==
    ASSUME TypeOK, TaskInv, NEW w \in Workers, Bill(w)
    PROVE  /\ UNCHANGED <<wallet, account>> \/ \E t \in Tasks : FundingMove(t)
           /\ UNCHANGED <<token, tokenAccount>> \/ \E t \in Tasks : TokenMove(t)
  <1>1. pc[w] \in Billing
    BY DEF Bill, RefundFunding, RefundToken, SettleFunding, SettleToken,
           SaveQuota, At, Billing
  <1>2. PICK t \in Tasks : t = cur[w]
    BY <1>1, HandlingTasks
  <1>3. PICK q \in Nat : q = mem[w][t].quota
    BY <1>1, <1>2, Bills
  <1>4. BillingInv(w) /\ due[w] \in Nat /\ -q \in Int
    BY <1>1, <1>3, Bills DEF TypeOK
  <1>5. CASE RefundFunding(w)
    <2>1. account[t] = Held(q)
      BY <1>2, <1>3, <1>4, <1>5 DEF RefundFunding, At, BillingInv
    <2>2. MoveFunding(w, -q, "released") => FundingMove(t)
      BY <1>2, <1>4, <2>1, FundingCharge
    <2>. QED
      BY <1>2, <1>3, <1>5, <2>2 DEF RefundFunding
  <1>6. CASE RefundToken(w)
    <2>1. tokenAccount[t] = Held(q)
      BY <1>2, <1>3, <1>4, <1>6 DEF RefundToken, At, BillingInv, Billing
    <2>2. MoveToken(w, -q, "released") => TokenMove(t)
      BY <1>2, <1>4, <2>1, TokenCharge
    <2>. QED
      BY <1>2, <1>3, <1>6, <2>2 DEF RefundToken
  <1>7. CASE SettleFunding(w)
    <2>1. account[t] = Held(q)
      BY <1>2, <1>3, <1>4, <1>7 DEF SettleFunding, At, BillingInv
    <2>2. ASSUME NEW actual \in Costs, MoveFunding(w, actual - q, "charged")
          PROVE  FundingMove(t)
      <3>1. actual - q \in Int
        BY TaskAssumption
      <3>. QED
        BY <1>2, <2>1, <2>2, <3>1, FundingCharge
    <2>. QED
      BY <1>2, <1>3, <1>7, <2>2 DEF SettleFunding
  <1>8. CASE SettleToken(w)
    <2>1. tokenAccount[t] = Held(q)
      BY <1>2, <1>3, <1>4, <1>8 DEF SettleToken, At, BillingInv, Billing
    <2>2. due[w] - q \in Int
      BY <1>4
    <2>3. MoveToken(w, due[w] - q, "charged") => TokenMove(t)
      BY <1>2, <2>1, <2>2, TokenCharge
    <2>. QED
      BY <1>2, <1>3, <1>8, <2>3 DEF SettleToken
  <1>9. CASE SaveQuota(w)
    BY <1>9 DEF SaveQuota, accountVars
  <1>. QED
    BY <1>5, <1>6, <1>7, <1>8, <1>9 DEF Bill

LEMMA TaskMoves ==
    ASSUME PollersOnly, TypeOK, TaskInv, [Next]_vars
    PROVE  /\ UNCHANGED <<wallet, account>> \/ \E t \in Tasks : FundingMove(t)
           /\ UNCHANGED <<token, tokenAccount>> \/ \E t \in Tasks : TokenMove(t)
  <1>1. CASE \E t \in Tasks : Submit(t)
    BY <1>1, SubmitMoves
  <1>2. CASE \E w \in Workers : Bill(w)
    BY <1>2, BillMoves
  <1>3. CASE \/ \E t \in Tasks : Expire(t)
             \/ \E w \in Workers : Crash(w)
             \/ UNCHANGED vars
    BY <1>3 DEF Expire, Crash, vars, accountVars
  <1>4. ASSUME NEW p \in Pollers, Poll(p)
        PROVE  UNCHANGED <<wallet, account, token, tokenAccount>>
    BY <1>4 DEF Poll, PollTask, LoadTimedOut, LoadUnfinished, Load, SweepTask,
       FailTaskAndRefund, FailTask, Transition, UpdateWithStatus, FetchTask,
       VideoResult, SunoResult, SaveRow, Unchanged, Unbilled, accountVars
  <1>. QED
    BY <1>1, <1>2, <1>3, <1>4 DEF Next, PollersOnly

(* Every movement of the funding source on behalf of tasks is a task being *)
(* charged at submission, settled once or refunded once in full, whichever *)
(* of the nodes finds it finished, failed or timed out.                    *)
THEOREM FundingRefinement == ASSUME PollersOnly PROVE Spec => FundingBilledOnce
  <1>1. Init => FundingLedger!LedgerInit
    BY DEF Init, FundingLedger!LedgerInit, FundingLedger!IdleAccount, IdleAccount
  <1>2. TypeOK /\ TaskInv /\ [Next]_vars
        => [FundingLedger!LedgerNext]_(FundingLedger!ledgerVars)
    <2>. SUFFICES ASSUME TypeOK, TaskInv, [Next]_vars
                  PROVE  [FundingLedger!LedgerNext]_(FundingLedger!ledgerVars)
      OBVIOUS
    <2>1. CASE UNCHANGED <<wallet, account>>
      BY <2>1 DEF FundingLedger!ledgerVars
    <2>2. ASSUME NEW t \in Tasks, FundingMove(t)
          PROVE  FundingLedger!LedgerNext
      BY <2>2 DEF FundingMove, AccountMove, IdleAccount,
         FundingLedger!LedgerNext, FundingLedger!Hold, FundingLedger!Charge,
         FundingLedger!Release, FundingLedger!Becomes
    <2>. QED
      BY <2>1, <2>2, TaskMoves
  <1>. QED
    BY <1>1, <1>2, TaskTypeCorrect, TaskInvariant, PTL
    DEF Spec, FundingBilledOnce, FundingLedger!LedgerSpec

(* The same of the token's quota. *)
THEOREM TokenRefinement == ASSUME PollersOnly PROVE Spec => TokenBilledOnce
  <1>1. Init => TokenLedger!LedgerInit
    BY DEF Init, TokenLedger!LedgerInit, TokenLedger!IdleAccount, IdleAccount
  <1>2. TypeOK /\ TaskInv /\ [Next]_vars
        => [TokenLedger!LedgerNext]_(TokenLedger!ledgerVars)
    <2>. SUFFICES ASSUME TypeOK, TaskInv, [Next]_vars
                  PROVE  [TokenLedger!LedgerNext]_(TokenLedger!ledgerVars)
      OBVIOUS
    <2>1. CASE UNCHANGED <<token, tokenAccount>>
      BY <2>1 DEF TokenLedger!ledgerVars
    <2>2. ASSUME NEW t \in Tasks, TokenMove(t)
          PROVE  TokenLedger!LedgerNext
      BY <2>2 DEF TokenMove, AccountMove, IdleAccount,
         TokenLedger!LedgerNext, TokenLedger!Hold, TokenLedger!Charge,
         TokenLedger!Release, TokenLedger!Becomes
    <2>. QED
      BY <2>1, <2>2, TaskMoves
  <1>. QED
    BY <1>1, <1>2, TaskTypeCorrect, TaskInvariant, PTL
    DEF Spec, TokenBilledOnce, TokenLedger!LedgerSpec
=============================================================================
