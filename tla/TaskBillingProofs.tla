-------------------------- MODULE TaskBillingProofs --------------------------
(***************************************************************************)
(* Type correctness of TaskBilling, and that the token follows the funding *)
(* source, whoever bills a task and how often.                             *)
(***************************************************************************)
EXTENDS TaskBilling, SumTheorems

Steps == Handling \cup {"sweep", "poll", "idle", "hung"}

Backs == {"sweep", "poll", "idle", "loaded", "saveRow"}

LEMMA TaskFields ==
    ASSUME NEW r \in Task
    PROVE  /\ r.quota \in Nat
           /\ r.complete \in BOOLEAN /\ r.failReason \in BOOLEAN
           /\ \A s \in {"NOT_START", "IN_PROGRESS", "SUCCESS", "FAILURE"},
                 c \in BOOLEAN :
                 /\ [r EXCEPT !.status = s, !.complete = c] \in Task
                 /\ \A f \in BOOLEAN :
                       [r EXCEPT !.status = s, !.failReason = f, !.complete = c]
                          \in Task
           /\ \A n \in Nat : [r EXCEPT !.quota = n] \in Task
  BY DEF Task

LEMMA NoCopiesType == NoRow \in Task /\ NoCopies \in [Tasks -> Task]
  BY DEF NoRow, Task, NoCopies

LEMMA CopyType ==
    ASSUME TypeOK, NEW w \in Workers, NEW t \in Tasks
    PROVE  mem[w][t] \in Task /\ mem[w][t].quota \in Nat
  <1>1. mem[w][t] \in Task
    BY DEF TypeOK
  <1>. QED
    BY <1>1, TaskFields

LEMMA MemType ==
    ASSUME TypeOK, NEW w \in Workers, NEW t \in Tasks, NEW r \in Task,
           mem' = [mem EXCEPT ![w][t] = r]
    PROVE  mem' \in [Workers -> [Tasks -> Task]]
  BY DEF TypeOK

LEMMA OutcomeType ==
    ASSUME NEW r \in Task, NEW a \in Answers, NEW full \in BOOLEAN,
           NEW o \in VideoOutcomes(r, a, full)
    PROVE  o.row \in Task
  <1>. DEFINE Becomes(status, complete, upscale) ==
                 [r EXCEPT !.status = status, !.complete = complete,
                           !.upscale = upscale]
              progress == full /\ r.upscale \notin {"pending", "processing"}
  <1>1. \A s \in {"IN_PROGRESS", "SUCCESS", "FAILURE"}, c \in BOOLEAN,
           u \in {"none", "pending", "processing", "succeeded", "failed"} :
              Becomes(s, c, u) \in Task
    BY DEF Task
  <1>2. r.upscale \in {"none", "pending", "processing", "succeeded", "failed"}
    BY DEF Task
  <1>3. progress \in BOOLEAN
    OBVIOUS
  <1>4. \/ o.row = Becomes("IN_PROGRESS", progress, r.upscale)
        \/ o.row = Becomes("FAILURE", TRUE, r.upscale)
        \/ o.row = Becomes("SUCCESS", TRUE, r.upscale)
        \/ o.row = Becomes("SUCCESS", TRUE, "failed")
        \/ o.row = Becomes("SUCCESS", TRUE, "succeeded")
        \/ o.row = Becomes("IN_PROGRESS", FALSE, "processing")
    <2>. DEFINE rows == {Becomes("IN_PROGRESS", progress, r.upscale),
                         Becomes("FAILURE", TRUE, r.upscale),
                         Becomes("SUCCESS", TRUE, r.upscale),
                         Becomes("SUCCESS", TRUE, a),
                         Becomes("SUCCESS", TRUE, "failed"),
                         Becomes("IN_PROGRESS", FALSE, "processing")}
    <2>1. o.row \in rows
      BY DEF VideoOutcomes, Outcome
    <2>2. a # "running" => a \in {"succeeded", "failed"}
      BY DEF Answers
    <2>3. a = "running" => o.row = Becomes("IN_PROGRESS", progress, r.upscale)
      BY DEF VideoOutcomes, Outcome
    <2>. HIDE DEF Becomes, progress
    <2>. QED
      BY <2>1, <2>2, <2>3
  <1>. HIDE DEF Becomes, progress
  <1>. QED
    BY <1>1, <1>2, <1>3, <1>4

LEMMA FirstStepType ==
    ASSUME NEW r, NEW bill, NEW back \in Steps
    PROVE  FirstStep(r, bill, back) \in Steps
  BY DEF FirstStep, Steps, Handling, Billing

LEMMA UpdateType ==
    ASSUME TypeOK, NEW w \in Workers, NEW t \in Tasks, NEW new \in Task,
           NEW won \in Steps, NEW lost \in Steps,
           UpdateWithStatus(w, t, new, won, lost)
    PROVE  /\ row' \in [Tasks -> Task]
           /\ pc' \in [Workers -> Steps]
           /\ mem' \in [Workers -> [Tasks -> Task]]
           /\ cur' \in [Workers -> Tasks \cup {NoTask}]
           /\ \A v \in Workers : pc'[v] \in Handling => cur'[v] \in Tasks
  <1>1. mem' \in [Workers -> [Tasks -> Task]]
    BY MemType DEF UpdateWithStatus
  <1>. QED
    BY <1>1 DEF UpdateWithStatus, Goes, TypeOK, Steps

LEMMA TransitionType ==
    ASSUME TypeOK, NEW w \in Workers, NEW t \in Tasks, NEW new \in Task,
           NEW bill, NEW back \in Backs, Transition(w, t, new, bill, back)
    PROVE  /\ row' \in [Tasks -> Task]
           /\ pc' \in [Workers -> Steps]
           /\ after' \in [Workers -> Backs]
           /\ mem' \in [Workers -> [Tasks -> Task]]
           /\ cur' \in [Workers -> Tasks \cup {NoTask}]
           /\ \A v \in Workers : pc'[v] \in Handling => cur'[v] \in Tasks
  <1>1. back \in Steps
    BY DEF Backs, Steps, Handling
  <1>2. FirstStep(new, bill, back) \in Steps
    BY <1>1, FirstStepType
  <1>3. after' \in [Workers -> Backs]
    BY DEF Transition, TypeOK, Backs
  <1>. QED
    BY <1>1, <1>2, <1>3, UpdateType DEF Transition

LEMMA AskType ==
    ASSUME TypeOK, NEW w \in Workers, NEW t \in Tasks, Ask(w, t)
    PROVE  /\ seen' \in [Workers -> Answers]
           /\ upstream' \in [Tasks -> Answers]
           /\ mps' \in [Tasks -> Answers]
           /\ pc' \in [Workers -> Steps]
           /\ cur' \in [Workers -> Tasks \cup {NoTask}]
           /\ \A v \in Workers : pc'[v] \in Handling => cur'[v] \in Tasks
  <1>1. PICK a \in Answers :
           /\ seen' = [seen EXCEPT ![w] = a]
           /\ \/ mps' = [mps EXCEPT ![t] = a] /\ upstream' = upstream
              \/ upstream' = [upstream EXCEPT ![t] = a] /\ mps' = mps
    BY DEF Ask
  <1>2. pc' = [pc EXCEPT ![w] = "fetched"] /\ cur' = [cur EXCEPT ![w] = t]
    BY DEF Ask, Goes
  <1>3. seen' \in [Workers -> Answers]
    BY <1>1 DEF TypeOK
  <1>4. upstream' \in [Tasks -> Answers] /\ mps' \in [Tasks -> Answers]
    <2>1. a \in Answers /\ upstream \in [Tasks -> Answers]
                        /\ mps \in [Tasks -> Answers]
      BY <1>1 DEF TypeOK
    <2>2. CASE mps' = [mps EXCEPT ![t] = a] /\ upstream' = upstream
      BY <2>1, <2>2
    <2>3. CASE upstream' = [upstream EXCEPT ![t] = a] /\ mps' = mps
      BY <2>1, <2>3
    <2>. QED
      BY <1>1, <2>2, <2>3
  <1>5. pc' \in [Workers -> Steps]
    BY <1>2 DEF TypeOK, Steps, Handling
  <1>6. cur' \in [Workers -> Tasks \cup {NoTask}]
    BY <1>2 DEF TypeOK
  <1>7. \A v \in Workers : pc'[v] \in Handling => cur'[v] \in Tasks
    BY <1>2 DEF TypeOK
  <1>. QED
    BY <1>3, <1>4, <1>5, <1>6, <1>7

LEMMA HangType ==
    ASSUME TypeOK, NEW w \in Workers, Hang(w)
    PROVE  /\ seen' \in [Workers -> Answers]
           /\ upstream' \in [Tasks -> Answers]
           /\ mps' \in [Tasks -> Answers]
           /\ pc' \in [Workers -> Steps]
           /\ cur' \in [Workers -> Tasks \cup {NoTask}]
           /\ \A v \in Workers : pc'[v] \in Handling => cur'[v] \in Tasks
  BY DEF Hang, Goes, externalVars, TypeOK, Steps, Handling, Billing

(* The body of Submit, for a choice of what it leaves open. *)
Submission(t, est, actual, ups, taken, tokenTaken, inserted) ==
    /\ ups = "pending" => Upscaling /\ t \notin SunoTasks
    /\ taken # actual => tokenTaken = est
    /\ tokenTaken # actual => "settle" \in Faults
    /\ ~ inserted => "insert" \in Faults
    /\ wallet' = wallet - taken
    /\ account' = [account EXCEPT ![t] =
                      [state |-> "held", amount |-> taken]]
    /\ token' = token - tokenTaken
    /\ tokenAccount' = [tokenAccount EXCEPT ![t] =
                      [state |-> "held", amount |-> tokenTaken]]
    /\ row' = IF ~ inserted THEN row
              ELSE [row EXCEPT ![t] = [status |-> "NOT_START",
                                       complete |-> FALSE,
                                       failReason |-> FALSE,
                                       quota |-> actual,
                                       upscale |-> ups]]
    /\ logged' = [logged EXCEPT ![t] =
                     (IF tokenTaken # actual THEN {"settle"} ELSE {})
                     \cup (IF ~ inserted THEN {"insert"} ELSE {})]

LEMMA Submissions ==
    ASSUME NEW t, Submit(t)
    PROVE  \E est, actual \in Costs, ups \in {"none", "pending"} :
           \E taken, tokenTaken \in {est, actual}, inserted \in BOOLEAN :
              Submission(t, est, actual, ups, taken, tokenTaken, inserted)
  BY DEF Submit, Submission

LEMMA SubmitType ==
    ASSUME TypeOK, NEW t \in Tasks, Submit(t)
    PROVE  TypeOK'
  <1>1. PICK est, actual \in Costs, ups \in {"none", "pending"} :
           \E taken, tokenTaken \in {est, actual}, inserted \in BOOLEAN :
              Submission(t, est, actual, ups, taken, tokenTaken, inserted)
    BY Submissions
  <1>2. est \in Nat /\ actual \in Nat
    BY TaskAssumption
  <1>3. [status |-> "NOT_START", complete |-> FALSE, failReason |-> FALSE,
         quota |-> actual, upscale |-> ups] \in Task
    BY <1>2 DEF Task
  <1>4. row' \in [Tasks -> Task]
    BY <1>1, <1>3 DEF TypeOK, Submission
  <1>5. /\ wallet' \in Int /\ token' \in Int
        /\ account' \in [Tasks -> Account] /\ tokenAccount' \in [Tasks -> Account]
    BY <1>1, <1>2 DEF TypeOK, Account, Submission
  <1>6. logged' \in [Tasks -> SUBSET AllFaults]
    BY <1>1 DEF TypeOK, AllFaults, Submission
  <1>. QED
    BY <1>4, <1>5, <1>6 DEF Submit, TypeOK, externalVars, workerVars

LEMMA LoadType ==
    ASSUME TypeOK, NEW p \in Workers, NEW step \in {"sweep", "poll"},
           NEW chosen \in SUBSET Tasks, Load(p, step, chosen)
    PROVE  TypeOK'
  <1>. DEFINE m == [t \in Tasks |-> IF t \in chosen THEN row[t] ELSE NoRow]
  <1>1. m \in [Tasks -> Task]
    BY NoCopiesType DEF TypeOK
  <1>2. mem' \in [Workers -> [Tasks -> Task]]
    BY <1>1, NoCopiesType DEF Load, TypeOK
  <1>3. todo' \in [Workers -> SUBSET Tasks]
    BY DEF Load, TypeOK
  <1>4. /\ pc' \in [Workers -> Steps]
        /\ \A v \in Workers : pc'[v] \in Handling => cur'[v] \in Tasks
    BY DEF Load, Goes, TypeOK, Steps, Handling, Billing
  <1>. QED
    BY <1>2, <1>3, <1>4
    DEF Load, TypeOK, Unbilled, accountVars, externalVars, Steps

LEMMA FailTaskType ==
    ASSUME TypeOK, NEW p \in Workers, NEW t \in Tasks,
           SweepTask(p, t) \/ FailTaskAndRefund(p, t)
    PROVE  TypeOK'
  <1>. DEFINE failed == [mem[p][t] EXCEPT !.status = "FAILURE", !.complete = TRUE]
  <1>1. failed \in Task
    BY CopyType, TaskFields
  <1>2. pc[p] \in Backs /\ FailTask(p, t)
    BY DEF SweepTask, FailTaskAndRefund, At, Backs
  <1>3. todo' \in [Workers -> SUBSET Tasks]
    BY <1>2 DEF FailTask, TypeOK
  <1>4. /\ Transition(p, t, failed, "refund", pc[p])
        /\ UNCHANGED <<externalVars, expired, budget>>
    BY <1>2 DEF FailTask
  <1>5. UNCHANGED <<wallet, token, accountVars, logged, seen, due>>
    BY <1>4 DEF Transition, UpdateWithStatus
  <1>. HIDE DEF failed
  <1>. QED
    BY <1>1, <1>2, <1>3, <1>4, <1>5, TransitionType
    DEF TypeOK, accountVars, externalVars, Steps, Backs

LEMMA FetchTaskType ==
    ASSUME TypeOK, NEW p \in Workers, NEW t \in Tasks, FetchTask(p, t)
    PROVE  TypeOK'
  <1>1. todo' \in [Workers -> SUBSET Tasks]
    BY DEF FetchTask, TypeOK
  <1>2. /\ seen' \in [Workers -> Answers]
        /\ upstream' \in [Tasks -> Answers]
        /\ mps' \in [Tasks -> Answers]
        /\ pc' \in [Workers -> Steps]
        /\ cur' \in [Workers -> Tasks \cup {NoTask}]
        /\ \A v \in Workers : pc'[v] \in Handling => cur'[v] \in Tasks
    <2>1. CASE Ask(p, t)
      BY <2>1, AskType
    <2>2. CASE Hang(p)
      BY <2>2, HangType
    <2>3. CASE UNCHANGED <<pc, cur, seen, externalVars>>
      BY <2>3 DEF TypeOK, externalVars, Steps
    <2>. QED
      BY <2>1, <2>2, <2>3 DEF FetchTask
  <1>. QED
    BY <1>1, <1>2 DEF FetchTask, TypeOK, Unbilled, accountVars, Steps

LEMMA ResultType ==
    ASSUME TypeOK, NEW w \in Workers, NEW t \in Tasks, NEW new \in Task,
           NEW bill, NEW back \in Backs,
           Unchanged(w, t, new) \/ Transition(w, t, new, bill, back),
           UNCHANGED <<externalVars, expired, todo, budget>>
    PROVE  TypeOK'
  <1>1. CASE Unchanged(w, t, new)
    BY <1>1 DEF Unchanged, Goes, Rest, TypeOK, Unbilled, accountVars,
                externalVars, Handling, Billing
  <1>2. CASE Transition(w, t, new, bill, back)
    <2>1. UNCHANGED <<wallet, token, accountVars, logged, seen, due>>
      BY <1>2 DEF Transition, UpdateWithStatus
    <2>. QED
      BY <1>2, <2>1, TransitionType
      DEF TypeOK, accountVars, externalVars, Steps, Backs
  <1>. QED
    BY <1>1, <1>2

LEMMA VideoResultType ==
    ASSUME TypeOK, NEW w \in Workers,
           VideoResult(w) \/ SyncVideoUpscaleOnFetch(w)
    PROVE  TypeOK'
  <1>. DEFINE t == cur[w]
  <1>1. /\ t \in Tasks
        /\ UNCHANGED <<externalVars, expired, todo, budget>>
    BY DEF VideoResult, SyncVideoUpscaleOnFetch, At, TypeOK, Handling
  <1>2. mem[w][t] \in Task /\ seen[w] \in Answers
    BY <1>1, CopyType DEF TypeOK
  <1>3. PICK full \in BOOLEAN :
           \E o \in VideoOutcomes(mem[w][t], seen[w], full), back \in Backs :
              Unchanged(w, t, o.row) \/ Transition(w, t, o.row, o.bill, back)
    <2>1. "poll" \in Backs /\ "idle" \in Backs /\ "loaded" \in Backs
      BY DEF Backs
    <2>2. CASE VideoResult(w)
      BY <2>1, <2>2 DEF VideoResult
    <2>3. CASE SyncVideoUpscaleOnFetch(w)
      BY <2>1, <2>3 DEF SyncVideoUpscaleOnFetch
    <2>. QED
      BY <2>2, <2>3
  <1>4. PICK o \in VideoOutcomes(mem[w][t], seen[w], full), back \in Backs :
           Unchanged(w, t, o.row) \/ Transition(w, t, o.row, o.bill, back)
    BY <1>3
  <1>5. o.row \in Task
    BY <1>2, OutcomeType
  <1>. QED
    BY <1>1, <1>4, <1>5, ResultType

LEMMA StatusType ==
    ASSUME NEW a \in Answers
    PROVE  StatusOf(a) \in {"IN_PROGRESS", "SUCCESS", "FAILURE"}
  BY DEF StatusOf, Answers

(* What SunoResult and TryRealtimeFetch make of the copy. *)
SunoRow(p, reason) ==
    [mem[p][cur[p]] EXCEPT !.status = StatusOf(seen[p]),
                           !.failReason = @ \/ reason,
                           !.complete = @ \/ reason \/ seen[p] # "running"]

FetchedRow(f, reported) ==
    [mem[f][cur[f]] EXCEPT
        !.status = StatusOf(seen[f]),
        !.complete = reported \/ StatusOf(seen[f]) # "IN_PROGRESS"]

LEMMA ResultRows ==
    ASSUME TypeOK, NEW w \in Workers, cur[w] \in Tasks, NEW b \in BOOLEAN
    PROVE  SunoRow(w, b) \in Task /\ FetchedRow(w, b) \in Task
  <1>1. mem[w][cur[w]] \in Task /\ StatusOf(seen[w]) \in {"IN_PROGRESS", "SUCCESS", "FAILURE"}
    BY CopyType, StatusType DEF TypeOK
  <1>2. (mem[w][cur[w]].failReason \/ b) \in BOOLEAN
    BY <1>1, TaskFields
  <1>3. (mem[w][cur[w]].complete \/ b \/ seen[w] # "running") \in BOOLEAN
    BY <1>1, TaskFields
  <1>4. (b \/ StatusOf(seen[w]) # "IN_PROGRESS") \in BOOLEAN
    OBVIOUS
  <1>5. SunoRow(w, b) \in Task
    BY <1>1, <1>2, <1>3, TaskFields, Zenon DEF SunoRow
  <1>6. FetchedRow(w, b) \in Task
    BY <1>1, <1>4, TaskFields, Zenon DEF FetchedRow
  <1>. QED
    BY <1>5, <1>6

LEMMA SunoResultType ==
    ASSUME TypeOK, NEW p \in Workers, SunoResult(p)
    PROVE  TypeOK'
  <1>. DEFINE t == cur[p]
  <1>1. t \in Tasks /\ UNCHANGED <<externalVars, expired, todo, budget>>
    BY DEF SunoResult, At, TypeOK, Handling
  <1>2. PICK reason \in BOOLEAN, bill \in {"refund", "none"} :
           LET new == SunoRow(p, reason)
           IN \/ Unchanged(p, t, new)
              \/ /\ Goes(p, FirstStep(new, bill, "saveRow"))
                 /\ after' = [after EXCEPT ![p] = "saveRow"]
                 /\ mem' = [mem EXCEPT ![p][t] = new]
                 /\ UNCHANGED <<Unbilled, cur, seen, due>>
    BY DEF SunoResult, SunoRow
  <1>. DEFINE new == SunoRow(p, reason)
  <1>3. new \in Task
    BY <1>1, ResultRows
  <1>4. CASE Unchanged(p, t, new)
    BY <1>1, <1>3, <1>4, ResultType DEF Backs
  <1>5. CASE /\ Goes(p, FirstStep(new, bill, "saveRow"))
             /\ after' = [after EXCEPT ![p] = "saveRow"]
             /\ mem' = [mem EXCEPT ![p][t] = new]
             /\ UNCHANGED <<Unbilled, cur, seen, due>>
    <2>. HIDE DEF new
    <2>1. FirstStep(new, bill, "saveRow") \in Steps
      BY FirstStepType DEF Steps, Handling
    <2>2. mem' \in [Workers -> [Tasks -> Task]]
      BY <1>1, <1>3, <1>5, MemType
    <2>. QED
      BY <1>1, <1>5, <2>1, <2>2
      DEF Goes, TypeOK, Unbilled, accountVars, externalVars, Steps
  <1>. QED
    BY <1>2, <1>4, <1>5

LEMMA SaveRowType ==
    ASSUME TypeOK, NEW p \in Workers, SaveRow(p)
    PROVE  TypeOK'
  <1>1. cur[p] \in Tasks
    BY DEF SaveRow, At, TypeOK, Handling
  <1>2. row' \in [Tasks -> Task]
    BY <1>1, CopyType DEF SaveRow, TypeOK
  <1>. QED
    BY <1>1, <1>2, TaskAssumption
    DEF SaveRow, Goes, TypeOK, accountVars, externalVars, Handling, Billing

LEMMA LoadForFetchType ==
    ASSUME TypeOK, NEW f \in Workers, NEW t \in Tasks, LoadForFetch(f, t)
    PROVE  TypeOK'
  <1>1. [NoCopies EXCEPT ![t] = row[t]] \in [Tasks -> Task]
    BY NoCopiesType DEF TypeOK
  <1>2. mem' \in [Workers -> [Tasks -> Task]]
    BY <1>1 DEF LoadForFetch, TypeOK
  <1>. QED
    BY <1>2, TaskAssumption
    DEF LoadForFetch, Goes, TypeOK, Unbilled, accountVars, externalVars, Handling

LEMMA FetchForClientType ==
    ASSUME TypeOK, NEW f \in Workers, FetchForClient(f)
    PROVE  TypeOK'
  <1>1. cur[f] \in Tasks
    BY DEF FetchForClient, At, TypeOK, Handling
  <1>2. /\ seen' \in [Workers -> Answers]
        /\ upstream' \in [Tasks -> Answers]
        /\ mps' \in [Tasks -> Answers]
        /\ pc' \in [Workers -> Steps]
        /\ cur' \in [Workers -> Tasks \cup {NoTask}]
        /\ \A v \in Workers : pc'[v] \in Handling => cur'[v] \in Tasks
    <2>1. CASE Ask(f, cur[f])
      BY <1>1, <2>1, AskType
    <2>2. CASE Hang(f)
      BY <2>2, HangType
    <2>3. CASE Goes(f, "idle") /\ UNCHANGED <<cur, seen, externalVars>>
      BY <2>3 DEF Goes, TypeOK, externalVars, Steps, Handling, Billing
    <2>. QED
      BY <2>1, <2>2, <2>3 DEF FetchForClient
  <1>. QED
    BY <1>2 DEF FetchForClient, TypeOK, Unbilled, accountVars, Steps

LEMMA TryRealtimeFetchType ==
    ASSUME TypeOK, NEW f \in Workers, TryRealtimeFetch(f)
    PROVE  TypeOK'
  <1>. DEFINE t == cur[f]
  <1>1. t \in Tasks /\ UNCHANGED <<externalVars, expired, todo, budget>>
    BY DEF TryRealtimeFetch, At, TypeOK, Handling
  <1>2. PICK reported \in BOOLEAN :
           LET new == FetchedRow(f, reported)
           IN \/ Unchanged(f, t, new)
              \/ \E bill \in {"none", "refund", "settle"} :
                    /\ UpdateWithStatus(f, t, new, FirstStep(new, bill, "idle"),
                           IF bill = "settle" THEN "settleFunding" ELSE "idle")
                    /\ after' = [after EXCEPT ![f] = "idle"]
    BY DEF TryRealtimeFetch, FetchedRow
  <1>. DEFINE new == FetchedRow(f, reported)
  <1>3. new \in Task
    BY <1>1, ResultRows
  <1>. HIDE DEF new
  <1>4. CASE Unchanged(f, t, new)
    BY <1>1, <1>3, <1>4, ResultType DEF Backs
  <1>5. ASSUME NEW bill \in {"none", "refund", "settle"},
               UpdateWithStatus(f, t, new, FirstStep(new, bill, "idle"),
                     IF bill = "settle" THEN "settleFunding" ELSE "idle"),
               after' = [after EXCEPT ![f] = "idle"]
        PROVE  TypeOK'
    <2>. DEFINE lost == IF bill = "settle" THEN "settleFunding" ELSE "idle"
    <2>1. FirstStep(new, bill, "idle") \in Steps /\ lost \in Steps
      BY FirstStepType DEF Steps, Handling, Billing
    <2>2. UNCHANGED <<wallet, token, accountVars, logged, seen, due>>
      BY <1>5 DEF UpdateWithStatus
    <2>. HIDE DEF lost
    <2>3. UpdateWithStatus(f, t, new, FirstStep(new, bill, "idle"), lost)
      BY <1>5 DEF lost
    <2>4. /\ row' \in [Tasks -> Task]
          /\ pc' \in [Workers -> Steps]
          /\ mem' \in [Workers -> [Tasks -> Task]]
          /\ cur' \in [Workers -> Tasks \cup {NoTask}]
          /\ \A v \in Workers : pc'[v] \in Handling => cur'[v] \in Tasks
      BY <1>1, <1>3, <2>1, <2>3, UpdateType
    <2>. QED
      BY <1>1, <1>5, <2>2, <2>4 DEF TypeOK, accountVars, externalVars, Steps
  <1>. QED
    BY <1>2, <1>4, <1>5 DEF new

LEMMA MoveType ==
    ASSUME TypeOK, NEW w \in Workers, cur[w] \in Tasks, NEW n \in Int,
           NEW state \in {"held", "charged", "released"}
    PROVE  /\ MoveFunding(w, n, state) =>
                wallet' \in Int /\ account' \in [Tasks -> Account]
           /\ MoveToken(w, n, state) =>
                token' \in Int /\ tokenAccount' \in [Tasks -> Account]
  <1>1. \A a \in Account :
           [state |-> state, amount |-> a.amount + n] \in Account
    BY DEF Account
  <1>2. /\ account[cur[w]] \in Account /\ tokenAccount[cur[w]] \in Account
        /\ wallet - n \in Int /\ token - n \in Int
    BY DEF TypeOK
  <1>3. ASSUME MoveFunding(w, n, state)
        PROVE  wallet' \in Int /\ account' \in [Tasks -> Account]
    <2>1. [state |-> state, amount |-> account[cur[w]].amount + n] \in Account
      BY <1>1, <1>2
    <2>. QED
      BY <1>2, <1>3, <2>1 DEF MoveFunding, TypeOK
  <1>4. ASSUME MoveToken(w, n, state)
        PROVE  token' \in Int /\ tokenAccount' \in [Tasks -> Account]
    <2>1. [state |-> state, amount |-> tokenAccount[cur[w]].amount + n]
             \in Account
      BY <1>1, <1>2
    <2>. QED
      BY <1>2, <1>4, <2>1 DEF MoveToken, TypeOK
  <1>. QED
    BY <1>3, <1>4

LEMMA BillStepType ==
    ASSUME TypeOK, NEW w \in Workers, NEW step \in Billing, At(w, step)
    PROVE  /\ cur[w] \in Tasks /\ mem[w][cur[w]] \in Task
           /\ mem[w][cur[w]].quota \in Nat /\ due[w] \in Nat
           /\ - mem[w][cur[w]].quota \in Int
           /\ due[w] - mem[w][cur[w]].quota \in Int
           /\ \A next \in Steps : Goes(w, next) =>
                /\ pc' \in [Workers -> Steps]
                /\ cur' = cur =>
                      \A v \in Workers : pc'[v] \in Handling => cur'[v] \in Tasks
           /\ after[w] \in Steps
  <1>1. cur[w] \in Tasks
    BY DEF At, TypeOK, Handling
  <1>2. mem[w][cur[w]].quota \in Nat /\ mem[w][cur[w]] \in Task /\ due[w] \in Nat
    BY <1>1, CopyType DEF TypeOK
  <1>3. after[w] \in Steps
    BY DEF TypeOK, Steps, Handling
  <1>4. ASSUME NEW next \in Steps, Goes(w, next)
        PROVE  /\ pc' \in [Workers -> Steps]
               /\ cur' = cur =>
                      \A v \in Workers : pc'[v] \in Handling => cur'[v] \in Tasks
    <2>1. pc' \in [Workers -> Steps]
      BY <1>4 DEF Goes, TypeOK, Steps
    <2>2. ASSUME cur' = cur, NEW v \in Workers, pc'[v] \in Handling
          PROVE  cur'[v] \in Tasks
      BY <1>1, <1>4, <2>2 DEF Goes, TypeOK
    <2>. QED
      BY <2>1, <2>2
  <1>. QED
    BY <1>1, <1>2, <1>3, <1>4

LEMMA LogType ==
    ASSUME TypeOK, NEW w \in Workers, NEW fault \in AllFaults, Log(w, fault)
    PROVE  logged' \in [Tasks -> SUBSET AllFaults]
  BY DEF Log, TypeOK

LEMMA RefundType ==
    ASSUME TypeOK, NEW w \in Workers, RefundFunding(w) \/ RefundToken(w)
    PROVE  TypeOK'
  <1>1. \E step \in Billing : At(w, step)
    BY DEF RefundFunding, RefundToken, Billing
  <1>2. logged' \in [Tasks -> SUBSET AllFaults]
    BY LogType DEF RefundFunding, RefundToken, TypeOK, AllFaults
  <1>3. wallet' \in Int /\ account' \in [Tasks -> Account]
    BY <1>1, BillStepType, MoveType DEF RefundFunding, RefundToken, TypeOK
  <1>4. token' \in Int /\ tokenAccount' \in [Tasks -> Account]
    BY <1>1, BillStepType, MoveType DEF RefundFunding, RefundToken, TypeOK
  <1>5. \E next \in Steps : Goes(w, next)
    BY <1>1, BillStepType
    DEF RefundFunding, RefundToken, Steps, Handling, Billing
  <1>6. cur' = cur
    BY DEF RefundFunding, RefundToken
  <1>7. /\ pc' \in [Workers -> Steps]
        /\ \A v \in Workers : pc'[v] \in Handling => cur'[v] \in Tasks
    BY <1>1, <1>5, <1>6, BillStepType
  <1>. QED
    BY <1>2, <1>3, <1>4, <1>7
    DEF RefundFunding, RefundToken, TypeOK, externalVars, Steps

LEMMA SettleFundingType ==
    ASSUME TypeOK, NEW w \in Workers, SettleFunding(w)
    PROVE  TypeOK'
  <1>1. At(w, "settleFunding") /\ "settleFunding" \in Billing
    BY DEF SettleFunding, Billing
  <1>. DEFINE pre == mem[w][cur[w]].quota
  <1>2. PICK actual \in Costs :
             \/ /\ actual = 0 \/ actual = pre
                /\ Goes(w, after[w])
                /\ UNCHANGED <<wallet, account, logged, due>>
             \/ /\ actual # 0 /\ actual # pre
                /\ MoveFunding(w, actual - pre, "charged")
                /\ due' = [due EXCEPT ![w] = actual]
                /\ Goes(w, "settleToken")
                /\ UNCHANGED logged
             \/ /\ actual # 0 /\ actual # pre
                /\ Log(w, "funding")
                /\ Goes(w, after[w])
                /\ UNCHANGED <<wallet, account, due>>
    BY DEF SettleFunding
  <1>3. actual \in Nat /\ actual - pre \in Int
    BY <1>1, BillStepType, TaskAssumption
  <1>4. logged' \in [Tasks -> SUBSET AllFaults]
    BY <1>2, LogType DEF TypeOK, AllFaults
  <1>5. wallet' \in Int /\ account' \in [Tasks -> Account]
    BY <1>1, <1>2, <1>3, BillStepType, MoveType DEF TypeOK
  <1>6. due' \in [Workers -> Nat]
    BY <1>2, <1>3 DEF TypeOK
  <1>7. \E next \in Steps : Goes(w, next)
    BY <1>1, <1>2, BillStepType DEF Steps, Handling, Billing
  <1>8. cur' = cur
    BY DEF SettleFunding
  <1>9. /\ pc' \in [Workers -> Steps]
        /\ \A v \in Workers : pc'[v] \in Handling => cur'[v] \in Tasks
    BY <1>1, <1>7, <1>8, BillStepType
  <1>. QED
    BY <1>4, <1>5, <1>6, <1>9 DEF SettleFunding, TypeOK, externalVars, Steps

LEMMA SettleTokenType ==
    ASSUME TypeOK, NEW w \in Workers, SettleToken(w)
    PROVE  TypeOK'
  <1>1. At(w, "settleToken") /\ "settleToken" \in Billing
    BY DEF SettleToken, Billing
  <1>2. logged' \in [Tasks -> SUBSET AllFaults]
    BY LogType DEF SettleToken, TypeOK, AllFaults
  <1>3. token' \in Int /\ tokenAccount' \in [Tasks -> Account]
    BY <1>1, BillStepType, MoveType DEF SettleToken, TypeOK
  <1>4. "saveQuota" \in Steps /\ Goes(w, "saveQuota") /\ cur' = cur
    BY DEF SettleToken, Steps, Handling, Billing
  <1>5. /\ pc' \in [Workers -> Steps]
        /\ \A v \in Workers : pc'[v] \in Handling => cur'[v] \in Tasks
    BY <1>1, <1>4, BillStepType
  <1>. QED
    BY <1>2, <1>3, <1>5 DEF SettleToken, TypeOK, externalVars, Steps

LEMMA SaveQuotaType ==
    ASSUME TypeOK, NEW w \in Workers, SaveQuota(w)
    PROVE  TypeOK'
  <1>. DEFINE t == cur[w]
  <1>1. At(w, "saveQuota") /\ "saveQuota" \in Billing
    BY DEF SaveQuota, Billing
  <1>2. t \in Tasks /\ QuotaToSave(w) \in Nat
    BY <1>1, BillStepType DEF QuotaToSave
  <1>3. logged' \in [Tasks -> SUBSET AllFaults]
    BY LogType DEF SaveQuota, TypeOK, AllFaults
  <1>4. mem' \in [Workers -> [Tasks -> Task]]
    <2>1. [mem[w][t] EXCEPT !.quota = QuotaToSave(w)] \in Task
      BY <1>2, CopyType, TaskFields
    <2>2. mem' = [mem EXCEPT ![w][t] = [mem[w][t] EXCEPT !.quota = QuotaToSave(w)]]
      BY <1>2 DEF SaveQuota, TypeOK
    <2>. QED
      BY <1>2, <2>1, <2>2, MemType
  <1>5. row' \in [Tasks -> Task]
    <2>1. [row[t] EXCEPT !.quota = QuotaToSave(w)] \in Task
      BY <1>2, TaskFields DEF TypeOK
    <2>. QED
      BY <1>2, <2>1 DEF SaveQuota, TypeOK
  <1>6. after[w] \in Steps /\ Goes(w, after[w]) /\ cur' = cur
    BY <1>1, BillStepType DEF SaveQuota
  <1>7. /\ pc' \in [Workers -> Steps]
        /\ \A v \in Workers : pc'[v] \in Handling => cur'[v] \in Tasks
    BY <1>1, <1>6, BillStepType
  <1>. QED
    BY <1>3, <1>4, <1>5, <1>7
    DEF SaveQuota, TypeOK, accountVars, externalVars, Steps

LEMMA CrashType ==
    ASSUME TypeOK, NEW w \in Workers, Crash(w)
    PROVE  TypeOK'
  <1>1. logged' \in [Tasks -> SUBSET AllFaults]
    BY DEF Crash, TypeOK, AllFaults
  <1>2. mem' \in [Workers -> [Tasks -> Task]]
    BY NoCopiesType DEF Crash, TypeOK
  <1>. QED
    BY <1>1, <1>2
    DEF Crash, Rest, TypeOK, accountVars, externalVars, Handling, Billing

LEMMA InitType == Init => TypeOK
  <1>. SUFFICES ASSUME Init PROVE TypeOK
    OBVIOUS
  <1>1. mem \in [Workers -> [Tasks -> Task]] /\ row \in [Tasks -> Task]
    BY NoCopiesType DEF Init
  <1>. QED
    BY <1>1, TaskAssumption
    DEF Init, TypeOK, IdleAccount, Account, Rest, Handling, Billing, Answers,
        AllFaults

LEMMA NextType == TypeOK /\ [Next]_vars => TypeOK'
  <1>. SUFFICES ASSUME TypeOK, [Next]_vars PROVE TypeOK'
    OBVIOUS
  <1>1. ASSUME NEW t \in Tasks, Submit(t) \/ Expire(t) PROVE TypeOK'
    <2>1. CASE Expire(t)
      BY <2>1 DEF Expire, TypeOK, accountVars, externalVars, workerVars
    <2>. QED
      BY <1>1, <2>1, SubmitType
  <1>2. ASSUME NEW p \in Pollers, Poll(p) PROVE TypeOK'
    <2>1. p \in Workers
      BY DEF Workers
    <2>2. CASE LoadTimedOut(p) \/ LoadUnfinished(p)
      BY <2>1, <2>2, LoadType DEF LoadTimedOut, LoadUnfinished
    <2>. QED
      BY <1>2, <2>1, <2>2, FailTaskType, FetchTaskType, VideoResultType,
         SunoResultType, SaveRowType
      DEF Poll, PollTask
  <1>3. ASSUME NEW f \in Fetchers, Fetch(f) PROVE TypeOK'
    <2>1. f \in Workers
      BY DEF Workers
    <2>. QED
      BY <1>3, <2>1, LoadForFetchType, FetchForClientType, VideoResultType,
         TryRealtimeFetchType
      DEF Fetch
  <1>4. ASSUME NEW w \in Workers, Bill(w) \/ Crash(w) PROVE TypeOK'
    BY <1>4, RefundType, SettleFundingType, SettleTokenType, SaveQuotaType,
       CrashType
    DEF Bill
  <1>5. CASE UNCHANGED vars
    BY <1>5 DEF vars, TypeOK, accountVars, externalVars, workerVars
  <1>. QED
    BY <1>1, <1>2, <1>3, <1>4, <1>5 DEF Next

(* The type invariant of task billing: rows and copies are well-formed,    *)
(* and a worker at a billing step has a task in hand.                      *)
THEOREM TaskTypeCorrect == Spec => []TypeOK
  BY InitType, NextType, PTL DEF Spec
-----------------------------------------------------------------------------
(* What the workers have moved on the funding source of a task and not yet *)
(* on the token is the difference between the two.                         *)

Lagging == {"refundToken", "settleToken"}

Lag(w, t) ==
    IF cur[w] # t THEN 0
    ELSE IF pc[w] = "refundToken" THEN - mem[w][t].quota
    ELSE IF pc[w] = "settleToken" THEN due[w] - mem[w][t].quota ELSE 0

Lags(t) == [w \in Workers |-> Lag(w, t)]

LagInv(t) ==
    logged[t] = {} =>
        account[t].amount
            = tokenAccount[t].amount + SumFunctionOnSet(Lags(t), Workers)

InHand(w, t) == t \in todo[w] \/ (cur[w] = t /\ pc[w] \in Handling)

(* A task somebody handles, or that has a row, was submitted. *)
HandInv ==
    \A t \in Tasks :
        /\ row[t].status # "none" => account[t].state # "idle"
        /\ \A w \in Workers : InHand(w, t) => account[t].state # "idle"

FollowInv == HandInv /\ \A t \in Tasks : LagInv(t)

SameWork(v) ==
    /\ pc'[v] = pc[v] /\ cur'[v] = cur[v] /\ mem'[v] = mem[v]
    /\ due'[v] = due[v] /\ todo'[v] = todo[v]

LEMMA LagType ==
    ASSUME TypeOK, NEW w \in Workers, NEW t \in Tasks
    PROVE  Lag(w, t) \in Int
  <1>1. mem[w][t].quota \in Int /\ due[w] \in Int
    BY CopyType DEF TypeOK
  <1>. QED
    BY <1>1 DEF Lag

LEMMA LagTypeNext ==
    ASSUME TypeOK', NEW w \in Workers, NEW t \in Tasks
    PROVE  Lag(w, t)' \in Int
  <1>1. mem'[w][t].quota \in Int /\ due'[w] \in Int
    BY DEF TypeOK, Task
  <1>. QED
    BY <1>1 DEF Lag

LEMMA LaggingBills == Lagging \subseteq Billing /\ Billing \subseteq Handling
  BY DEF Lagging, Billing, Handling

(* The total moves by the lag of one worker. *)
LEMMA LagMoves ==
    ASSUME TypeOK, TypeOK', NEW w \in Workers, NEW t \in Tasks,
           \A v \in Workers \ {w} : SameWork(v)
    PROVE  /\ SumFunctionOnSet(Lags(t), Workers) \in Int
           /\ SumFunctionOnSet(Lags(t)', Workers)
                 = SumFunctionOnSet(Lags(t), Workers) + Lag(w, t)' - Lag(w, t)
  <1>1. \A v \in Workers : Lags(t)[v] \in Int /\ Lags(t)'[v] \in Int
    BY LagType, LagTypeNext DEF Lags
  <1>2. \A v \in Workers \ {w} : Lags(t)'[v] = Lags(t)[v]
    BY DEF Lags, Lag, SameWork
  <1>3. Lags(t)[w] = Lag(w, t) /\ Lags(t)'[w] = Lag(w, t)'
    BY DEF Lags
  <1>4. SumFunctionOnSet(Lags(t), Workers) \in Int
    BY <1>1, SumInt, WorkersAssumption
  <1>5. SumFunctionOnSet(Lags(t)', Workers)
           = SumFunctionOnSet(Lags(t), Workers) + Lags(t)'[w] - Lags(t)[w]
    BY <1>1, <1>2, SumUpdate, WorkersAssumption
  <1>. QED
    BY <1>3, <1>4, <1>5

(* A worker's step that does no billing. *)
LEMMA WorkFollows ==
    ASSUME TypeOK, TypeOK', FollowInv, NEW w \in Workers,
           UNCHANGED <<accountVars, logged>>,
           \A v \in Workers \ {w} : SameWork(v),
           pc[w] \notin Lagging, pc'[w] \notin Lagging,
           \A t \in Tasks : row'[t] # row[t] => account[t].state # "idle",
           \A t \in Tasks : InHand(w, t)' => account[t].state # "idle"
    PROVE  FollowInv'
  <1>1. ASSUME NEW t \in Tasks
        PROVE  LagInv(t)'
    <2>1. Lag(w, t) = 0 /\ Lag(w, t)' = 0
      BY DEF Lag, Lagging
    <2>2. SumFunctionOnSet(Lags(t)', Workers) = SumFunctionOnSet(Lags(t), Workers)
      BY <2>1, LagMoves
    <2>. QED
      BY <2>2 DEF FollowInv, LagInv, accountVars
  <1>2. HandInv'
    <2>1. ASSUME NEW t \in Tasks
          PROVE  row'[t].status # "none" => account'[t].state # "idle"
      BY DEF FollowInv, HandInv, accountVars
    <2>2. ASSUME NEW t \in Tasks, NEW v \in Workers, InHand(v, t)'
          PROVE  account'[t].state # "idle"
      BY <2>2 DEF FollowInv, HandInv, accountVars, InHand, SameWork
    <2>. QED
      BY <2>1, <2>2 DEF HandInv
  <1>. QED
    BY <1>1, <1>2 DEF FollowInv

(* A worker's step that bills task t. *)
LEMMA BillFollows ==
    ASSUME TypeOK, TypeOK', FollowInv, NEW w \in Workers, NEW t \in Tasks, t = cur[w],
           pc[w] \in Billing, UNCHANGED <<cur, todo>>,
           \A v \in Workers \ {w} : SameWork(v),
           \A u \in Tasks \ {t} : /\ row'[u] = row[u] /\ account'[u] = account[u]
                                  /\ tokenAccount'[u] = tokenAccount[u]
                                  /\ logged'[u] = logged[u],
           account'[t].state # "idle",
           \/ logged'[t] # {}
           \/ /\ logged'[t] = logged[t]
              /\ account'[t].amount - account[t].amount
                    = tokenAccount'[t].amount - tokenAccount[t].amount
                      + Lag(w, t)' - Lag(w, t)
    PROVE  FollowInv'
  <1>1. ASSUME NEW u \in Tasks, u # t
        PROVE  LagInv(u)'
    <2>1. Lag(w, u) = 0 /\ Lag(w, u)' = 0
      BY <1>1 DEF Lag
    <2>2. SumFunctionOnSet(Lags(u)', Workers) = SumFunctionOnSet(Lags(u), Workers)
      BY <2>1, LagMoves
    <2>. QED
      BY <1>1, <2>2 DEF FollowInv, LagInv
  <1>2. LagInv(t)'
    <2>. SUFFICES ASSUME logged'[t] = {}
                  PROVE  account'[t].amount = tokenAccount'[t].amount
                            + SumFunctionOnSet(Lags(t)', Workers)
      BY DEF LagInv
    <2>1. /\ SumFunctionOnSet(Lags(t), Workers) \in Int
          /\ SumFunctionOnSet(Lags(t)', Workers)
                = SumFunctionOnSet(Lags(t), Workers) + Lag(w, t)' - Lag(w, t)
      BY LagMoves
    <2>2. Lag(w, t) \in Int /\ Lag(w, t)' \in Int
      BY LagType, LagTypeNext
    <2>3. /\ account[t].amount \in Int /\ account'[t].amount \in Int
          /\ tokenAccount[t].amount \in Int /\ tokenAccount'[t].amount \in Int
      BY DEF TypeOK, Account
    <2>4. account[t].amount = tokenAccount[t].amount + SumFunctionOnSet(Lags(t), Workers)
      BY DEF FollowInv, LagInv
    <2>. QED
      BY <2>1, <2>2, <2>3, <2>4
  <1>3. HandInv'
    <2>1. ASSUME NEW u \in Tasks
          PROVE  row'[u].status # "none" => account'[u].state # "idle"
      BY DEF FollowInv, HandInv
    <2>2. ASSUME NEW u \in Tasks, NEW v \in Workers, InHand(v, u)'
          PROVE  account'[u].state # "idle"
      <3>1. CASE u = t
        BY <3>1
      <3>2. CASE u # t
        <4>1. InHand(v, u)
          BY <2>2, <3>2 DEF InHand, SameWork
        <4>. QED
          BY <3>2, <4>1 DEF FollowInv, HandInv
      <3>. QED
        BY <3>1, <3>2
    <2>. QED
      BY <2>1, <2>2 DEF HandInv
  <1>. QED
    BY <1>1, <1>2, <1>3 DEF FollowInv
LEMMA FirstStepCalm ==
    ASSUME NEW r, NEW bill, NEW back, back \notin Lagging
    PROVE  FirstStep(r, bill, back) \notin Lagging
  BY DEF FirstStep, Lagging

(* Asking and writing of the worker that has t in hand. *)
LEMMA UpdateFollows ==
    ASSUME TypeOK, TypeOK', FollowInv, NEW w \in Workers, NEW t \in Tasks,
           InHand(w, t), NEW new, NEW won, NEW lost, won \notin Lagging,
           lost \notin Lagging, pc[w] \notin Lagging,
           UpdateWithStatus(w, t, new, won, lost),
           \A v \in Workers \ {w} : todo'[v] = todo[v],
           todo'[w] \subseteq todo[w]
    PROVE  FollowInv'
  <1>1. /\ UNCHANGED <<accountVars, logged, due>>
        /\ pc' = [pc EXCEPT ![w] = pc'[w]] /\ pc'[w] \in {won, lost}
        /\ cur' = [cur EXCEPT ![w] = t]
        /\ mem' = [mem EXCEPT ![w][t] = new]
        /\ \A u \in Tasks \ {t} : row'[u] = row[u]
    BY DEF UpdateWithStatus, Goes, TypeOK
  <1>2. \A v \in Workers \ {w} : SameWork(v)
    BY <1>1 DEF SameWork, TypeOK
  <1>3. account[t].state # "idle"
    BY DEF FollowInv, HandInv
  <1>4. \A u \in Tasks : InHand(w, u)' => account[u].state # "idle"
    BY <1>1, <1>3 DEF InHand, FollowInv, HandInv, TypeOK
  <1>5. pc'[w] \notin Lagging /\ \A u \in Tasks : row'[u] # row[u] => account[u].state # "idle"
    BY <1>1, <1>3
  <1>. QED
    BY <1>1, <1>2, <1>4, <1>5, WorkFollows

LEMMA TransitionFollows ==
    ASSUME TypeOK, TypeOK', FollowInv, NEW w \in Workers, NEW t \in Tasks,
           InHand(w, t), NEW new, NEW bill, NEW back, back \notin Lagging,
           pc[w] \notin Lagging, Transition(w, t, new, bill, back),
           \A v \in Workers \ {w} : todo'[v] = todo[v],
           todo'[w] \subseteq todo[w]
    PROVE  FollowInv'
  BY FirstStepCalm, UpdateFollows DEF Transition

LEMMA RestCalm ==
    ASSUME NEW w
    PROVE  Rest(w) \notin Lagging /\ Rest(w) \notin Handling
  BY DEF Rest, Lagging, Handling, Billing

(* The copy did not change. *)
LEMMA UnchangedFollows ==
    ASSUME TypeOK, TypeOK', FollowInv, NEW w \in Workers, NEW t, NEW new,
           pc[w] \notin Lagging, Unchanged(w, t, new), UNCHANGED todo
    PROVE  FollowInv'
  <1>1. /\ UNCHANGED <<row, accountVars, logged, cur, mem, due>>
        /\ pc' = [pc EXCEPT ![w] = Rest(w)]
    BY DEF Unchanged, Unbilled, Goes
  <1>2. \A v \in Workers \ {w} : SameWork(v)
    BY <1>1 DEF SameWork, TypeOK
  <1>3. pc'[w] \notin Lagging /\ pc'[w] \notin Handling
    BY <1>1, RestCalm DEF TypeOK
  <1>4. \A u \in Tasks : InHand(w, u)' => account[u].state # "idle"
    BY <1>1, <1>3 DEF InHand, FollowInv, HandInv
  <1>. QED
    BY <1>1, <1>2, <1>3, <1>4, WorkFollows

LEMMA LoadFollows ==
    ASSUME TypeOK, TypeOK', FollowInv, NEW p \in Workers,
           LoadTimedOut(p) \/ LoadUnfinished(p)
    PROVE  FollowInv'
  <1>1. PICK step \in {"sweep", "poll"}, chosen \in SUBSET Tasks :
           /\ Load(p, step, chosen) /\ pc[p] \in {"sweep", "poll"}
           /\ \A t \in chosen : row[t].status # "none"
    BY DEF LoadTimedOut, LoadUnfinished, TimedOut, Unfinished, Open, At
  <1>2. /\ UNCHANGED <<row, accountVars, logged, cur, due>>
        /\ pc' = [pc EXCEPT ![p] = step]
        /\ \E m : mem' = [mem EXCEPT ![p] = m]
        /\ todo' = todo \/ todo' = [todo EXCEPT ![p] = chosen]
    BY <1>1 DEF Load, Unbilled, Goes
  <1>3. \A v \in Workers \ {p} : SameWork(v)
    BY <1>2 DEF SameWork, TypeOK
  <1>4. pc[p] \notin Lagging /\ pc'[p] \notin Lagging /\ pc'[p] \notin Handling
    BY <1>1, <1>2 DEF TypeOK, Lagging, Handling, Billing
  <1>5. \A u \in Tasks : InHand(p, u)' => account[u].state # "idle"
    BY <1>1, <1>2, <1>4 DEF InHand, FollowInv, HandInv, TypeOK
  <1>. QED
    BY <1>2, <1>3, <1>4, <1>5, WorkFollows

LEMMA AskFollows ==
    ASSUME TypeOK, TypeOK', FollowInv, NEW w \in Workers, NEW t \in Tasks,
           InHand(w, t), Ask(w, t), pc[w] \notin Lagging,
           UNCHANGED <<Unbilled, mem, due>>,
           \A v \in Workers \ {w} : todo'[v] = todo[v],
           todo'[w] \subseteq todo[w]
    PROVE  FollowInv'
  <1>1. /\ UNCHANGED <<row, accountVars, logged, mem, due>>
        /\ pc' = [pc EXCEPT ![w] = "fetched"] /\ cur' = [cur EXCEPT ![w] = t]
    BY DEF Ask, Goes, Unbilled
  <1>2. \A v \in Workers \ {w} : SameWork(v)
    BY <1>1 DEF SameWork, TypeOK
  <1>3. pc'[w] \notin Lagging
    BY <1>1 DEF TypeOK, Lagging
  <1>4. \A u \in Tasks : InHand(w, u)' => account[u].state # "idle"
    BY <1>1 DEF InHand, FollowInv, HandInv, TypeOK
  <1>. QED
    BY <1>1, <1>2, <1>3, <1>4, WorkFollows

(* The steps of the polling loop. *)
LEMMA PollFollows ==
    ASSUME TypeOK, TypeOK', FollowInv, NEW p \in Pollers, Poll(p)
    PROVE  FollowInv'
  <1>0. p \in Workers
    BY DEF Workers
  <1>1. CASE LoadTimedOut(p) \/ LoadUnfinished(p)
    BY <1>0, <1>1, LoadFollows
  <1>2. ASSUME NEW t \in Tasks, SweepTask(p, t) \/ FailTaskAndRefund(p, t)
        PROVE  FollowInv'
    <2>1. FailTask(p, t) /\ pc[p] \notin Lagging
      BY <1>2 DEF SweepTask, FailTaskAndRefund, At, Lagging
    <2>2. InHand(p, t)
      BY <2>1 DEF FailTask, InHand
    <2>3. todo' = [todo EXCEPT ![p] = @ \ {t}]
      BY <2>1 DEF FailTask
    <2>4. todo'[p] \subseteq todo[p] /\ \A v \in Workers \ {p} : todo'[v] = todo[v]
      BY <1>0, <2>3 DEF TypeOK
    <2>. QED
      BY <1>0, <2>1, <2>2, <2>4, TransitionFollows DEF FailTask
  <1>3. ASSUME NEW t \in Tasks, FetchTask(p, t)
        PROVE  FollowInv'
    <2>1. /\ pc[p] = "poll" /\ t \in todo[p]
          /\ todo' = [todo EXCEPT ![p] = @ \ {t}]
          /\ UNCHANGED <<Unbilled, mem, due>>
      BY <1>3 DEF FetchTask, At
    <2>2. todo'[p] \subseteq todo[p] /\ \A v \in Workers \ {p} : todo'[v] = todo[v]
      BY <1>0, <2>1 DEF TypeOK
    <2>3. CASE Ask(p, t)
      BY <1>0, <2>1, <2>2, <2>3, AskFollows DEF InHand, Lagging
    <2>4. CASE (pc' = pc \/ Goes(p, "hung")) /\ UNCHANGED cur
      <3>1. \A v \in Workers \ {p} : SameWork(v)
        BY <1>0, <2>1, <2>2, <2>4 DEF SameWork, Goes, TypeOK
      <3>2. pc'[p] \in {"poll", "hung"}
        BY <1>0, <2>1, <2>4 DEF Goes, TypeOK
      <3>3. \A u \in Tasks : InHand(p, u)' => account[u].state # "idle"
        BY <1>0, <2>2, <2>4, <3>2 DEF InHand, FollowInv, HandInv, Handling, Billing
      <3>4. UNCHANGED <<row, accountVars, logged>>
        BY <2>1 DEF Unbilled
      <3>. QED
        BY <1>0, <2>1, <3>1, <3>2, <3>3, <3>4, WorkFollows DEF Lagging
    <2>. QED
      BY <1>3, <2>3, <2>4 DEF FetchTask, Hang
  <1>4. CASE VideoResult(p)
    <2>1. /\ pc[p] = "fetched" /\ UNCHANGED todo
      BY <1>4 DEF VideoResult, At
    <2>2. cur[p] \in Tasks /\ InHand(p, cur[p]) /\ pc[p] \notin Lagging
      BY <1>0, <2>1 DEF TypeOK, InHand, Handling, Lagging
    <2>3. PICK t \in Tasks : t = cur[p]
      BY <2>2
    <2>4. PICK new, bill : Unchanged(p, t, new) \/ Transition(p, t, new, bill, "poll")
      BY <1>4, <2>3 DEF VideoResult
    <2>5. "poll" \notin Lagging
      BY DEF Lagging
    <2>. QED
      BY <1>0, <2>1, <2>2, <2>3, <2>4, <2>5, UnchangedFollows, TransitionFollows
  <1>5. CASE SunoResult(p)
    <2>1. /\ pc[p] = "fetched" /\ UNCHANGED todo
      BY <1>5 DEF SunoResult, At
    <2>2. cur[p] \in Tasks /\ pc[p] \notin Lagging
      BY <1>0, <2>1 DEF TypeOK, Handling, Lagging
    <2>3. PICK t \in Tasks : t = cur[p]
      BY <2>2
    <2>4. PICK new, bill :
             \/ Unchanged(p, t, new)
             \/ /\ Goes(p, FirstStep(new, bill, "saveRow"))
                /\ mem' = [mem EXCEPT ![p][t] = new]
                /\ UNCHANGED <<Unbilled, cur, seen, due>>
      BY <1>5, <2>3 DEF SunoResult
    <2>5. CASE Unchanged(p, t, new)
      BY <1>0, <2>1, <2>2, <2>5, UnchangedFollows
    <2>6. CASE ~ Unchanged(p, t, new)
      <3>1. /\ UNCHANGED <<row, accountVars, logged, cur, due>>
            /\ mem' = [mem EXCEPT ![p][t] = new]
            /\ Goes(p, FirstStep(new, bill, "saveRow"))
        BY <2>4, <2>6 DEF Unbilled
      <3>2. \A v \in Workers \ {p} : SameWork(v)
        BY <1>0, <2>1, <3>1 DEF SameWork, TypeOK, Goes
      <3>3. pc'[p] \notin Lagging
        <4>1. "saveRow" \notin Lagging
          BY DEF Lagging
        <4>2. pc'[p] = FirstStep(new, bill, "saveRow")
          BY <1>0, <3>1 DEF Goes, TypeOK
        <4>. QED
          BY <4>1, <4>2, FirstStepCalm
      <3>4. \A u \in Tasks : InHand(p, u)' => account[u].state # "idle"
        BY <1>0, <2>1, <3>1 DEF InHand, FollowInv, HandInv, Handling
      <3>. QED
        BY <1>0, <2>2, <3>1, <3>2, <3>3, <3>4, WorkFollows
    <2>. QED
      BY <2>5, <2>6
  <1>6. CASE SaveRow(p)
    <2>1. /\ pc[p] = "saveRow" /\ pc' = [pc EXCEPT ![p] = "poll"]
          /\ UNCHANGED <<accountVars, logged, todo, cur, mem, due>>
          /\ row' = row \/ \E r : row' = [row EXCEPT ![cur[p]] = r]
      BY <1>6 DEF SaveRow, At, Goes
    <2>2. InHand(p, cur[p]) /\ cur[p] \in Tasks
      BY <1>0, <2>1 DEF TypeOK, InHand, Handling
    <2>3. \A v \in Workers \ {p} : SameWork(v)
      BY <1>0, <2>1 DEF SameWork, TypeOK
    <2>4. pc[p] \notin Lagging /\ pc'[p] \notin Lagging /\ pc'[p] \notin Handling
      BY <1>0, <2>1 DEF TypeOK, Lagging, Handling, Billing
    <2>5. \A u \in Tasks : InHand(p, u)' => account[u].state # "idle"
      BY <1>0, <2>1, <2>4 DEF InHand, FollowInv, HandInv
    <2>6. \A u \in Tasks : row'[u] # row[u] => account[u].state # "idle"
      BY <1>0, <2>1, <2>2 DEF TypeOK, FollowInv, HandInv
    <2>. QED
      BY <1>0, <2>1, <2>3, <2>4, <2>5, <2>6, WorkFollows
  <1>. QED
    BY <1>1, <1>2, <1>3, <1>4, <1>5, <1>6 DEF Poll, PollTask

(* The steps of a client's query. *)
LEMMA FetchFollows ==
    ASSUME TypeOK, TypeOK', FollowInv, NEW f \in Fetchers, Fetch(f)
    PROVE  FollowInv'
  <1>0. f \in Workers
    BY DEF Workers
  <1>1. ASSUME NEW t \in Tasks, LoadForFetch(f, t)
        PROVE  FollowInv'
    <2>1. /\ pc[f] = "idle" /\ row[t].status # "none"
          /\ UNCHANGED <<row, accountVars, logged, todo, due>>
          /\ pc' = [pc EXCEPT ![f] = "loaded"] /\ cur' = [cur EXCEPT ![f] = t]
          /\ \E m : mem' = [mem EXCEPT ![f] = m]
      BY <1>1 DEF LoadForFetch, At, Goes, Unbilled
    <2>2. \A v \in Workers \ {f} : SameWork(v)
      BY <1>0, <2>1 DEF SameWork, TypeOK
    <2>3. pc[f] \notin Lagging /\ pc'[f] \notin Lagging
      BY <1>0, <2>1 DEF TypeOK, Lagging
    <2>4. \A u \in Tasks : InHand(f, u)' => account[u].state # "idle"
      BY <1>0, <2>1 DEF InHand, FollowInv, HandInv, TypeOK
    <2>. QED
      BY <1>0, <2>1, <2>2, <2>3, <2>4, WorkFollows
  <1>2. CASE FetchForClient(f)
    <2>1. /\ pc[f] = "loaded" /\ UNCHANGED <<Unbilled, todo, mem, due>>
      BY <1>2 DEF FetchForClient, At
    <2>2. cur[f] \in Tasks /\ InHand(f, cur[f]) /\ pc[f] \notin Lagging
      BY <1>0, <2>1 DEF TypeOK, InHand, Handling, Lagging
    <2>3. PICK t \in Tasks : t = cur[f]
      BY <2>2
    <2>4. CASE Ask(f, t)
      BY <1>0, <2>1, <2>2, <2>3, <2>4, AskFollows
    <2>5. CASE (Goes(f, "idle") \/ Goes(f, "hung")) /\ UNCHANGED cur
      <3>1. UNCHANGED <<row, accountVars, logged>>
        BY <2>1 DEF Unbilled
      <3>2. \A v \in Workers \ {f} : SameWork(v)
        BY <1>0, <2>1, <2>5 DEF SameWork, TypeOK, Goes
      <3>3. pc'[f] \notin Lagging /\ pc'[f] \notin Handling
        BY <1>0, <2>5 DEF TypeOK, Goes, Lagging, Handling, Billing
      <3>4. \A u \in Tasks : InHand(f, u)' => account[u].state # "idle"
        BY <1>0, <2>1, <2>5, <3>3 DEF InHand, FollowInv, HandInv
      <3>. QED
        BY <1>0, <2>2, <3>1, <3>2, <3>3, <3>4, WorkFollows
    <2>. QED
      BY <1>2, <2>3, <2>4, <2>5 DEF FetchForClient, Hang
  <1>3. CASE SyncVideoUpscaleOnFetch(f) \/ TryRealtimeFetch(f)
    <2>1. /\ pc[f] = "fetched" /\ UNCHANGED todo
      BY <1>3 DEF SyncVideoUpscaleOnFetch, TryRealtimeFetch, At
    <2>2. cur[f] \in Tasks /\ InHand(f, cur[f]) /\ pc[f] \notin Lagging
      BY <1>0, <2>1 DEF TypeOK, InHand, Handling, Lagging
    <2>3. PICK t \in Tasks : t = cur[f]
      BY <2>2
    <2>4. /\ "idle" \notin Lagging /\ "loaded" \notin Lagging
          /\ "settleFunding" \notin Lagging
      BY DEF Lagging
    <2>5. CASE SyncVideoUpscaleOnFetch(f)
      <3>1. PICK o :
               \/ Unchanged(f, t, o.row)
               \/ Transition(f, t, o.row, o.bill,
                             IF AsksUpstream(o.row) /\ o.row.upscale = "failed"
                             THEN "loaded" ELSE "idle")
        BY <2>3, <2>5 DEF SyncVideoUpscaleOnFetch
      <3>. DEFINE back == IF AsksUpstream(o.row) /\ o.row.upscale = "failed"
                          THEN "loaded" ELSE "idle"
      <3>2. back \notin Lagging
        BY <2>4
      <3>3. Unchanged(f, t, o.row) \/ Transition(f, t, o.row, o.bill, back)
        BY <3>1
      <3>. HIDE DEF back
      <3>. QED
        BY <1>0, <2>1, <2>2, <2>3, <3>2, <3>3, UnchangedFollows, TransitionFollows
    <2>6. CASE TryRealtimeFetch(f)
      <3>1. \E new, bill :
               \/ Unchanged(f, t, new)
               \/ UpdateWithStatus(f, t, new, FirstStep(new, bill, "idle"),
                     IF bill = "settle" THEN "settleFunding" ELSE "idle")
        <4>1. PICK reported \in BOOLEAN :
                LET status == StatusOf(seen[f])
                    copy == [mem[f][t] EXCEPT !.status = status,
                                !.complete = reported \/ status # "IN_PROGRESS"]
                    bill == IF status = mem[f][t].status THEN "none"
                            ELSE IF status = "FAILURE" THEN "refund"
                            ELSE IF status = "SUCCESS" THEN "settle" ELSE "none"
                IN \/ Unchanged(f, t, copy)
                   \/ UpdateWithStatus(f, t, copy, FirstStep(copy, bill, "idle"),
                          IF bill = "settle" THEN "settleFunding" ELSE "idle")
          BY <2>3, <2>6 DEF TryRealtimeFetch
        <4>. QED
          BY <4>1
      <3>2. PICK new, bill :
               \/ Unchanged(f, t, new)
               \/ UpdateWithStatus(f, t, new, FirstStep(new, bill, "idle"),
                     IF bill = "settle" THEN "settleFunding" ELSE "idle")
        BY <3>1
      <3>. DEFINE won == FirstStep(new, bill, "idle")
                  lost == IF bill = "settle" THEN "settleFunding" ELSE "idle"
      <3>3. won \notin Lagging /\ lost \notin Lagging
        BY <2>4, FirstStepCalm
      <3>. HIDE DEF won, lost
      <3>4. CASE Unchanged(f, t, new)
        BY <1>0, <2>1, <2>2, <3>4, UnchangedFollows
      <3>5. CASE UpdateWithStatus(f, t, new, won, lost)
        BY <1>0, <2>1, <2>2, <2>3, <3>3, <3>5, UpdateFollows
      <3>. QED
        BY <3>2, <3>4, <3>5 DEF won, lost
    <2>. QED
      BY <1>3, <2>5, <2>6
  <1>. QED
    BY <1>1, <1>2, <1>3 DEF Fetch

(* The billing of a task. *)
LEMMA BillStepFollows ==
    ASSUME TypeOK, TypeOK', FollowInv, NEW w \in Workers, Bill(w)
    PROVE  FollowInv'
  <1>1. /\ pc[w] \in Billing /\ cur[w] \in Tasks /\ InHand(w, cur[w])
        /\ UNCHANGED <<after, todo, cur>>
    BY DEF Bill, RefundFunding, RefundToken, SettleFunding, SettleToken, SaveQuota, At,
           Billing, Handling, TypeOK, InHand
  <1>2. PICK t \in Tasks : t = cur[w]
    BY <1>1
  <1>. DEFINE q == mem[w][t].quota
  <1>3. /\ q \in Nat /\ due[w] \in Nat /\ account[t].state # "idle"
        /\ account[t].amount \in Int /\ tokenAccount[t].amount \in Int
    BY <1>1, <1>2, CopyType DEF TypeOK, Account, FollowInv, HandInv
  <1>4. \A v \in Workers \ {w} : SameWork(v)
    BY <1>1
    DEF Bill, RefundFunding, RefundToken, SettleFunding, SettleToken, SaveQuota, Goes,
        SameWork, TypeOK
  <1>5. ASSUME UNCHANGED <<row, mem>>,
               UNCHANGED account \/ \E n, state : MoveFunding(w, n, state),
               UNCHANGED tokenAccount \/ \E n, state : MoveToken(w, n, state),
               UNCHANGED logged \/ \E fault : Log(w, fault)
        PROVE  \A u \in Tasks \ {t} : /\ row'[u] = row[u] /\ account'[u] = account[u]
                                      /\ tokenAccount'[u] = tokenAccount[u]
                                      /\ logged'[u] = logged[u]
    BY <1>2, <1>5 DEF MoveFunding, MoveToken, Log, TypeOK
  <1>6. ASSUME NEW fault, Log(w, fault)
        PROVE  logged'[t] # {}
    BY <1>2, <1>6 DEF Log, TypeOK
  <1>7. ASSUME NEW n \in Int, NEW state, MoveFunding(w, n, state)
        PROVE  account'[t] = [state |-> state, amount |-> account[t].amount + n]
    BY <1>2, <1>7 DEF MoveFunding, TypeOK
  <1>8. ASSUME NEW n \in Int, NEW state, MoveToken(w, n, state)
        PROVE  tokenAccount'[t] = [state |-> state, amount |-> tokenAccount[t].amount + n]
    BY <1>2, <1>8 DEF MoveToken, TypeOK
  <1>9. after[w] \notin Lagging
    BY DEF TypeOK, Lagging
  <1>10. CASE RefundFunding(w)
    <2>1. pc[w] = "refundFunding" /\ UNCHANGED <<row, mem, due, tokenAccount>>
      BY <1>10 DEF RefundFunding, At
    <2>2. CASE MoveFunding(w, - q, "released") /\ Goes(w, "refundToken") /\ UNCHANGED logged
      <3>1. account'[t] = [state |-> "released", amount |-> account[t].amount + (- q)]
        BY <1>3, <1>7, <2>2
      <3>2. Lag(w, t) = 0 /\ Lag(w, t)' = - q
        BY <1>1, <1>2, <2>1, <2>2 DEF Lag, Goes, TypeOK
      <3>3. \A u \in Tasks \ {t} : /\ row'[u] = row[u] /\ account'[u] = account[u]
                                   /\ tokenAccount'[u] = tokenAccount[u]
                                   /\ logged'[u] = logged[u]
        BY <1>5, <2>1, <2>2
      <3>4. /\ account'[t].state # "idle" /\ logged'[t] = logged[t]
            /\ account'[t].amount - account[t].amount
                  = tokenAccount'[t].amount - tokenAccount[t].amount
                    + Lag(w, t)' - Lag(w, t)
        BY <1>3, <2>1, <2>2, <3>1, <3>2
      <3>. QED
        BY <1>1, <1>2, <1>4, <3>3, <3>4, BillFollows
    <2>3. CASE Log(w, "funding") /\ UNCHANGED account
      BY <1>1, <1>2, <1>3, <1>4, <1>5, <1>6, <2>1, <2>3, BillFollows
    <2>. QED
      BY <1>2, <1>10, <2>2, <2>3 DEF RefundFunding
  <1>11. CASE RefundToken(w)
    <2>1. /\ pc[w] = "refundToken" /\ UNCHANGED <<row, mem, due, account>>
          /\ Goes(w, after[w])
      BY <1>11 DEF RefundToken, At
    <2>2. CASE MoveToken(w, - q, "released") /\ UNCHANGED logged
      <3>1. tokenAccount'[t] = [state |-> "released", amount |-> tokenAccount[t].amount + (- q)]
        BY <1>3, <1>8, <2>2
      <3>2. Lag(w, t) = - q /\ Lag(w, t)' = 0
        BY <1>1, <1>2, <1>9, <2>1 DEF Lag, Goes, TypeOK, Lagging
      <3>3. \A u \in Tasks \ {t} : /\ row'[u] = row[u] /\ account'[u] = account[u]
                                   /\ tokenAccount'[u] = tokenAccount[u]
                                   /\ logged'[u] = logged[u]
        BY <1>5, <2>1, <2>2
      <3>4. /\ account'[t].state # "idle" /\ logged'[t] = logged[t]
            /\ account'[t].amount - account[t].amount
                  = tokenAccount'[t].amount - tokenAccount[t].amount
                    + Lag(w, t)' - Lag(w, t)
        BY <1>3, <2>1, <2>2, <3>1, <3>2
      <3>. QED
        BY <1>1, <1>2, <1>4, <3>3, <3>4, BillFollows
    <2>3. CASE Log(w, "token") /\ UNCHANGED tokenAccount
      BY <1>1, <1>2, <1>3, <1>4, <1>5, <1>6, <2>1, <2>3, BillFollows
    <2>. QED
      BY <1>2, <1>11, <2>2, <2>3 DEF RefundToken
  <1>12. CASE SettleFunding(w)
    <2>1. pc[w] = "settleFunding" /\ UNCHANGED <<row, mem, tokenAccount>>
      BY <1>12 DEF SettleFunding, At
    <2>2. CASE Goes(w, after[w]) /\ UNCHANGED <<account, logged, due>>
      <3>1. Lag(w, t) = 0 /\ Lag(w, t)' = 0
        BY <1>1, <1>2, <1>9, <2>1, <2>2 DEF Lag, Goes, TypeOK, Lagging
      <3>2. \A u \in Tasks \ {t} : /\ row'[u] = row[u] /\ account'[u] = account[u]
                                   /\ tokenAccount'[u] = tokenAccount[u]
                                   /\ logged'[u] = logged[u]
        BY <1>5, <2>1, <2>2
      <3>3. /\ account'[t].state # "idle" /\ logged'[t] = logged[t]
            /\ account'[t].amount - account[t].amount
                  = tokenAccount'[t].amount - tokenAccount[t].amount
                    + Lag(w, t)' - Lag(w, t)
        BY <1>3, <2>1, <2>2, <3>1
      <3>. QED
        BY <1>1, <1>2, <1>4, <3>2, <3>3, BillFollows
    <2>3. ASSUME NEW actual \in Costs, MoveFunding(w, actual - q, "charged"),
                 due' = [due EXCEPT ![w] = actual], Goes(w, "settleToken"), UNCHANGED logged
          PROVE  FollowInv'
      <3>1. actual \in Int /\ actual - q \in Int
        BY <1>3, TaskAssumption
      <3>2. account'[t] = [state |-> "charged", amount |-> account[t].amount + (actual - q)]
        BY <1>7, <2>3, <3>1
      <3>3. Lag(w, t) = 0 /\ Lag(w, t)' = actual - q
        BY <1>1, <1>2, <2>1, <2>3 DEF Lag, Goes, TypeOK
      <3>4. \A u \in Tasks \ {t} : /\ row'[u] = row[u] /\ account'[u] = account[u]
                                   /\ tokenAccount'[u] = tokenAccount[u]
                                   /\ logged'[u] = logged[u]
        BY <1>5, <2>1, <2>3
      <3>5. /\ account'[t].state # "idle" /\ logged'[t] = logged[t]
            /\ account'[t].amount - account[t].amount
                  = tokenAccount'[t].amount - tokenAccount[t].amount
                    + Lag(w, t)' - Lag(w, t)
        BY <1>3, <2>1, <2>3, <3>1, <3>2, <3>3
      <3>. QED
        BY <1>1, <1>2, <1>4, <3>4, <3>5, BillFollows
    <2>4. CASE Log(w, "funding") /\ UNCHANGED account
      BY <1>1, <1>2, <1>3, <1>4, <1>5, <1>6, <2>1, <2>4, BillFollows
    <2>. QED
      BY <1>2, <1>12, <2>2, <2>3, <2>4 DEF SettleFunding
  <1>13. CASE SettleToken(w)
    <2>1. /\ pc[w] = "settleToken" /\ UNCHANGED <<row, mem, due, account>>
          /\ Goes(w, "saveQuota")
      BY <1>13 DEF SettleToken, At
    <2>2. CASE MoveToken(w, due[w] - q, "charged") /\ UNCHANGED logged
      <3>1. tokenAccount'[t] = [state |-> "charged", amount |-> tokenAccount[t].amount + (due[w] - q)]
        BY <1>3, <1>8, <2>2
      <3>2. Lag(w, t) = due[w] - q /\ Lag(w, t)' = 0
        BY <1>1, <1>2, <2>1 DEF Lag, Goes, TypeOK
      <3>3. \A u \in Tasks \ {t} : /\ row'[u] = row[u] /\ account'[u] = account[u]
                                   /\ tokenAccount'[u] = tokenAccount[u]
                                   /\ logged'[u] = logged[u]
        BY <1>5, <2>1, <2>2
      <3>4. /\ account'[t].state # "idle" /\ logged'[t] = logged[t]
            /\ account'[t].amount - account[t].amount
                  = tokenAccount'[t].amount - tokenAccount[t].amount
                    + Lag(w, t)' - Lag(w, t)
        BY <1>3, <2>1, <2>2, <3>1, <3>2
      <3>. QED
        BY <1>1, <1>2, <1>4, <3>3, <3>4, BillFollows
    <2>3. CASE Log(w, "token") /\ UNCHANGED tokenAccount
      BY <1>1, <1>2, <1>3, <1>4, <1>5, <1>6, <2>1, <2>3, BillFollows
    <2>. QED
      BY <1>2, <1>13, <2>2, <2>3 DEF SettleToken
  <1>14. CASE SaveQuota(w)
    <2>1. /\ pc[w] = "saveQuota" /\ UNCHANGED accountVars /\ Goes(w, after[w])
          /\ \A u \in Tasks \ {t} : row'[u] = row[u]
          /\ UNCHANGED logged \/ Log(w, "row")
      BY <1>2, <1>14 DEF SaveQuota, At, TypeOK
    <2>2. Lag(w, t) = 0 /\ Lag(w, t)' = 0
      BY <1>1, <1>2, <1>9, <2>1 DEF Lag, Goes, TypeOK, Lagging
    <2>3. \A u \in Tasks \ {t} : logged'[u] = logged[u]
      BY <1>2, <2>1 DEF Log, TypeOK
    <2>. QED
      BY <1>1, <1>2, <1>3, <1>4, <1>6, <2>1, <2>2, <2>3, BillFollows DEF accountVars
  <1>. QED
    BY <1>10, <1>11, <1>12, <1>13, <1>14 DEF Bill

LEMMA CrashFollows ==
    ASSUME TypeOK, TypeOK', FollowInv, NEW w \in Workers, Crash(w)
    PROVE  FollowInv'
  <1>1. /\ UNCHANGED <<row, accountVars, cur, due>>
        /\ pc' = [pc EXCEPT ![w] = Rest(w)] /\ todo' = [todo EXCEPT ![w] = {}]
        /\ mem' = [mem EXCEPT ![w] = NoCopies]
        /\ logged' = IF pc[w] \in Billing
                     THEN [logged EXCEPT ![cur[w]] = @ \cup {"crash"}] ELSE logged
    BY DEF Crash
  <1>2. \A v \in Workers \ {w} : SameWork(v)
    BY <1>1 DEF SameWork, TypeOK
  <1>3. pc'[w] = Rest(w) /\ todo'[w] = {}
    BY <1>1 DEF TypeOK
  <1>4. HandInv'
    <2>1. ASSUME NEW u \in Tasks, NEW v \in Workers, InHand(v, u)'
          PROVE  account'[u].state # "idle"
      BY <1>1, <1>2, <1>3, <2>1, RestCalm
      DEF InHand, SameWork, FollowInv, HandInv, accountVars
    <2>2. \A u \in Tasks : row'[u].status # "none" => account'[u].state # "idle"
      BY <1>1 DEF FollowInv, HandInv, accountVars
    <2>. QED
      BY <2>1, <2>2 DEF HandInv
  <1>5. ASSUME NEW u \in Tasks
        PROVE  LagInv(u)'
    <2>1. CASE pc[w] \in Billing /\ cur[w] = u
      <3>1. logged'[u] # {}
        BY <1>1, <2>1 DEF TypeOK
      <3>. QED
        BY <3>1 DEF LagInv
    <2>2. CASE ~ (pc[w] \in Billing /\ cur[w] = u)
      <3>1. Lag(w, u) = 0
        BY <2>2, LaggingBills DEF Lag, Lagging
      <3>2. Lag(w, u)' = 0
        BY <1>3, RestCalm DEF Lag, Lagging
      <3>3. SumFunctionOnSet(Lags(u)', Workers) = SumFunctionOnSet(Lags(u), Workers)
        BY <1>2, <3>1, <3>2, LagMoves
      <3>4. logged'[u] = logged[u]
        BY <1>1, <2>2 DEF TypeOK
      <3>. QED
        BY <1>1, <3>3, <3>4 DEF FollowInv, LagInv, accountVars
    <2>. QED
      BY <2>1, <2>2
  <1>. QED
    BY <1>4, <1>5 DEF FollowInv

(* The steps of no worker. *)
LEMMA SameLags ==
    ASSUME NEW t \in Tasks, UNCHANGED workerVars
    PROVE  Lags(t)' = Lags(t)
  BY DEF Lags, Lag, workerVars

LEMMA SubmitFollows ==
    ASSUME TypeOK, TypeOK', FollowInv, NEW t \in Tasks, Submit(t)
    PROVE  FollowInv'
  <1>1. PICK est \in Costs, actual \in Costs, taken \in Costs, tokenTaken \in Costs :
           /\ taken \in {est, actual} /\ tokenTaken \in {est, actual}
           /\ account[t].state = "idle"
           /\ taken # actual => tokenTaken = est
           /\ account' = [account EXCEPT ![t] = [state |-> "held", amount |-> taken]]
           /\ tokenAccount' = [tokenAccount EXCEPT ![t] =
                                 [state |-> "held", amount |-> tokenTaken]]
           /\ \A u \in Tasks \ {t} : row'[u] = row[u] /\ logged'[u] = logged[u]
           /\ tokenTaken # actual => logged'[t] # {}
           /\ UNCHANGED workerVars
    <2>1. PICK est \in Costs, actual \in Costs, ups \in {"none", "pending"} :
            \E taken, tokenTaken \in {est, actual}, inserted \in BOOLEAN :
               /\ ups = "pending" => Upscaling /\ t \notin SunoTasks
               /\ taken # actual => tokenTaken = est
               /\ tokenTaken # actual => "settle" \in Faults
               /\ ~ inserted => "insert" \in Faults
               /\ wallet' = wallet - taken
               /\ account' = [account EXCEPT ![t] = [state |-> "held", amount |-> taken]]
               /\ token' = token - tokenTaken
               /\ tokenAccount' = [tokenAccount EXCEPT ![t] =
                                     [state |-> "held", amount |-> tokenTaken]]
               /\ row' = IF ~ inserted THEN row
                         ELSE [row EXCEPT ![t] = [status |-> "NOT_START",
                                                  complete |-> FALSE,
                                                  failReason |-> FALSE,
                                                  quota |-> actual,
                                                  upscale |-> ups]]
               /\ logged' = [logged EXCEPT ![t] =
                                (IF tokenTaken # actual THEN {"settle"} ELSE {})
                                \cup (IF ~ inserted THEN {"insert"} ELSE {})]
      BY DEF Submit
    <2>2. PICK taken \in {est, actual}, tokenTaken \in {est, actual}, inserted \in BOOLEAN :
               /\ taken # actual => tokenTaken = est
               /\ account' = [account EXCEPT ![t] = [state |-> "held", amount |-> taken]]
               /\ tokenAccount' = [tokenAccount EXCEPT ![t] =
                                     [state |-> "held", amount |-> tokenTaken]]
               /\ row' = IF ~ inserted THEN row
                         ELSE [row EXCEPT ![t] = [status |-> "NOT_START",
                                                  complete |-> FALSE,
                                                  failReason |-> FALSE,
                                                  quota |-> actual,
                                                  upscale |-> ups]]
               /\ logged' = [logged EXCEPT ![t] =
                                (IF tokenTaken # actual THEN {"settle"} ELSE {})
                                \cup (IF ~ inserted THEN {"insert"} ELSE {})]
      BY <2>1
    <2>3. \A u \in Tasks \ {t} : row'[u] = row[u]
      BY <2>2 DEF TypeOK
    <2>4. \A u \in Tasks \ {t} : logged'[u] = logged[u]
      BY <2>2 DEF TypeOK
    <2>5. tokenTaken # actual => logged'[t] # {}
      BY <2>2 DEF TypeOK
    <2>6. account[t].state = "idle" /\ UNCHANGED workerVars
      BY DEF Submit
    <2>7. taken \in Costs /\ tokenTaken \in Costs
      BY <2>1, <2>2
    <2>. QED
      BY <2>2, <2>3, <2>4, <2>5, <2>6, <2>7
  <1>2. /\ account'[t].state = "held" /\ account'[t].amount = taken
        /\ tokenAccount'[t].amount = tokenTaken
        /\ \A u \in Tasks \ {t} : account'[u] = account[u] /\ tokenAccount'[u] = tokenAccount[u]
    BY <1>1 DEF TypeOK
  <1>3. HandInv'
    <2>1. ASSUME NEW u \in Tasks, NEW v \in Workers, InHand(v, u)'
          PROVE  account'[u].state # "idle"
      <3>1. InHand(v, u)
        BY <1>1, <2>1 DEF InHand, workerVars
      <3>. QED
        BY <1>2, <3>1 DEF FollowInv, HandInv
    <2>2. \A u \in Tasks : row'[u].status # "none" => account'[u].state # "idle"
      BY <1>1, <1>2 DEF FollowInv, HandInv
    <2>. QED
      BY <2>1, <2>2 DEF HandInv
  <1>4. ASSUME NEW u \in Tasks, u # t
        PROVE  LagInv(u)'
    <2>1. Lags(u)' = Lags(u)
      BY <1>1, SameLags
    <2>. QED
      BY <1>1, <1>2, <1>4, <2>1 DEF FollowInv, LagInv
  <1>5. LagInv(t)'
    <2>1. \A w \in Workers : ~ InHand(w, t)
      BY <1>1 DEF FollowInv, HandInv
    <2>2. \A w \in Workers : Lag(w, t) = 0
      BY <2>1, LaggingBills DEF InHand, Lag, Lagging
    <2>3. SumFunctionOnSet(Lags(t), Workers) = 0
      <3>1. \A w \in Workers : Lags(t)[w] = 0
        BY <2>2 DEF Lags
      <3>. QED
        BY <3>1, SumZero, WorkersAssumption
    <2>4. Lags(t)' = Lags(t)
      BY <1>1, SameLags
    <2>5. logged'[t] = {} => taken = tokenTaken /\ taken \in Int
      BY <1>1, TaskAssumption
    <2>. QED
      BY <1>2, <2>3, <2>4, <2>5 DEF LagInv
  <1>. QED
    BY <1>3, <1>4, <1>5 DEF FollowInv

LEMMA NextFollows ==
    ASSUME TypeOK, TypeOK', FollowInv, [Next]_vars
    PROVE  FollowInv'
  <1>1. ASSUME NEW t \in Tasks, Submit(t) PROVE FollowInv'
    BY <1>1, SubmitFollows
  <1>2. CASE UNCHANGED <<row, accountVars, logged, workerVars>>
    <2>1. \A t \in Tasks : LagInv(t)'
      BY <1>2, SameLags DEF FollowInv, LagInv, accountVars
    <2>2. HandInv'
      BY <1>2 DEF FollowInv, HandInv, InHand, accountVars, workerVars
    <2>. QED
      BY <2>1, <2>2 DEF FollowInv
  <1>3. ASSUME NEW t \in Tasks, Expire(t) PROVE FollowInv'
    BY <1>2, <1>3 DEF Expire
  <1>4. ASSUME NEW w \in Workers, Bill(w) \/ Crash(w) PROVE FollowInv'
    BY <1>4, BillStepFollows, CrashFollows
  <1>5. CASE UNCHANGED vars
    BY <1>2, <1>5 DEF vars
  <1>. QED
    BY <1>1, <1>3, <1>4, <1>5, PollFollows, FetchFollows DEF Next

LEMMA InitFollows ==
    ASSUME Init
    PROVE  FollowInv
  <1>1. HandInv
    BY DEF Init, HandInv, InHand, NoRow, Rest, Handling, Billing
  <1>2. ASSUME NEW t \in Tasks
        PROVE  LagInv(t)
    <2>1. \A w \in Workers : Lags(t)[w] = 0
      BY RestCalm DEF Init, Lags, Lag, Lagging
    <2>2. SumFunctionOnSet(Lags(t), Workers) = 0
      BY <2>1, SumZero, WorkersAssumption
    <2>. QED
      BY <2>2 DEF Init, IdleAccount, LagInv
  <1>. QED
    BY <1>1, <1>2 DEF FollowInv

(* Whoever bills a task, poller or query, together and however often: when *)
(* none of them is at it and no failure was logged, the token has lost     *)
(* what the funding source has (TokenFollowsFunding).                      *)
THEOREM TokenFollows == Spec => []TokenFollowsFunding
  <1>1. TypeOK /\ FollowInv => TokenFollowsFunding
    <2>. SUFFICES ASSUME TypeOK, FollowInv, NEW t \in Tasks, ~ BilledNow(t), logged[t] = {}
                  PROVE  account[t].amount = tokenAccount[t].amount
      BY DEF TokenFollowsFunding
    <2>1. \A w \in Workers : Lags(t)[w] = 0
      BY LaggingBills DEF BilledNow, Lags, Lag, Lagging
    <2>2. SumFunctionOnSet(Lags(t), Workers) = 0
      BY <2>1, SumZero, WorkersAssumption
    <2>3. tokenAccount[t].amount \in Int
      BY DEF TypeOK, Account
    <2>. QED
      BY <2>2, <2>3 DEF FollowInv, LagInv
  <1>2. TypeOK /\ TypeOK' /\ FollowInv /\ [Next]_vars => FollowInv'
    BY NextFollows
  <1>. QED
    BY <1>1, <1>2, InitFollows, TaskTypeCorrect, PTL DEF Spec
=============================================================================
