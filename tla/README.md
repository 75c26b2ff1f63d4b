# Verification of token-service

TLA+ models of token-service, a gateway that sells access to AI models: it
authenticates API tokens, pre-charges a request on a wallet or a subscription,
relays it to a provider, and settles or refunds it afterwards. Videos and songs
are asynchronous: the provider takes minutes, and pollers finish the billing.

What a gateway of this kind must not get wrong is money, and money moves here in
separate database statements, from request handlers, detached goroutines, polling
loops on several nodes and query handlers, any of which may fail or die between two
statements. That is what most modules are about. The other half of the repository is
the web console; its one page that runs concurrent work of its own, the chat page, is
modelled too.

Run `tlc -config X.cfg M` in this directory to check a run and `tlapm M.tla` to
check the proofs of a module.

## Inventory

| Component | Source | State it keeps | Operations | What makes it correct |
|---|---|---|---|---|
| Request billing | `service/billing_session.go`, `funding_source.go`, `billing.go`, `model/quota_gift.go`, `model/token.go` | `users.quota`, `users.gift_quota`, `tokens.remain_quota`, one BillingSession per request | open (with fallback), settle, refund (goroutine), token check, top-up, grant | each balance is held, then charged once or released once per request; nothing stays held; a forced request holds its estimate |
| Task billing | `service/task_polling.go`, `task_billing.go`, `video_upscale.go`, `relay/relay_task.go`, `model/task.go`, `controller/relay.go` | `tasks` rows, the pollers' loaded copies | submit, sweep, poll, query, refund, recalculate | one settlement or one refund per task; a timed-out task ends, unless its row says 100% |
| Subscription quota | `model/subscription.go` | `user_subscriptions`, pre-consume records, orders | pre-consume, refund, post-consume, reset, expire, complete order | used amount = consumed records; idempotent refund |
| Quota caches, batch updates | `model/user_cache.go`, `token_cache.go`, `utils.go`, `common/redis.go` | Redis hashes, in-memory stores | refresh, increment, flush | cache converges to the row; no delta lost |
| Top-up orders | `controller/topup*.go`, `model/topup.go` | orders, a map of counted mutexes per process | insert, give the link, gateway notifications (paid, closed, repeated), completion by an administrator, corporate transfer, inviter's reward | an order is credited once; what a gateway will not report again is credited; a credited order stays a success |
| Chat page | `web/src/pages/Playground/index.jsx`, `web/src/hooks/playground/useApiRequest.jsx` | a conversation per display mode, open streams, pollers, the browser's copy, a save timer | send, retry, stop, switch, clear, delete, reload; stream events, responses, polls | an answer reaches the message it was asked for, whatever is shown then; nothing settled is only in memory; a pending video ends |
| Redemption codes | `model/redemption.go` | codes with escrowed quota | create, disable, enable, expire, redeem | escrow is redeemed or refunded, once |
| Invoices | `model/invoice.go` | attribution of consumption to top-ups | attribute, release, request, issue | never more invoiced than consumed |
| Withdrawals, affiliates | `model/distributor_withdrawal.go`, `model/user.go` | `aff_quota`, requests | create, cancel, approve, reject, transfer | quota leaves once |
| Relay retry | `controller/relay.go`, `middleware/distributor.go`, `service/channel_affinity.go` | retry counters, affinity, ability table | select, retry, disable | a disabled channel is not retried for ever |
| Rate limits | `middleware/*rate-limit.go`, `common/limiter` | windows | allow | at most N in a window |
| Speech recognition, Midjourney | `relay/asr_task.go`, `controller/midjourney.go` | their own task tables | submit, poll, refund | as task billing |
| Hybrid cache, body storage | `pkg/cachex`, `common/body_storage.go` | entries, disk usage | get, set, purge | no stale generation, usage = files |
| Supplier push, uploads, material | `service/supplier_revenue_push.go`, `upload_lifecycle.go`, `material_action_dispatch.go` | deliveries, periods, jobs | attempt, retry, finish | at most one accepted delivery |
| Prices, adaptors, accounts, other pages, desktop client | `relay/channel`, `relay/helper`, `setting`, `web`, `electron` | - | conversion, CRUD | out of scope |

How they interact: `RelayTask` and the relay handlers open a request-billing session
(a call); a task that was accepted leaves the settled session behind and lives on as
a row (shared state) that pollers and query handlers compare-and-swap; refunds run
in goroutines (callbacks); subscriptions, caches and top-ups share the balances; the
chat page calls the relay and polls the tasks it started over HTTP.

The hard behaviours, listed line by line in `PROJECT.json` under "hazards": several
actors moving one balance; a refund meeting a settlement; a step of several failing;
a crash between two of them; a worker acting on a copy of a row that has moved on; a
notification that is repeated, raced or closed under the worker; an answer that arrives
when the page has moved on.

## Modules

| Module | What it is |
|---|---|
| `Ledger` | abstract specification of one balance: an account per request is held, charged once or released once |
| `BillingSession` | request billing, statement by statement |
| `TaskBilling` | asynchronous tasks from submission to their settlement or refund |
| `MCBillingSession`, `MCTaskBilling` | instances for TLC (request kinds, symmetry) |
| `SumTheorems` | how a sum over a finite set of actors changes when one term does, for the proofs |
| `BillingSessionProofs` → `BillingLedgerProofs` | proofs about BillingSession: type, inductive invariant, refinement of Ledger, conservation |
| `TaskBillingProofs` → `TaskBilledProofs` | proofs about TaskBilling: type, token follows funding, inductive invariant, refinement of Ledger |
| `SubscriptionQuota` | the quota of subscriptions: transactions of requests, the reset task and administrators |
| `MCSubscriptionQuota` | instances for TLC |
| `SubscriptionQuotaProofs` | proofs about SubscriptionQuota: inductive invariant, quota never exceeded, use equals the charges unless a stale copy was saved |
| `TopUp` | top-up orders, their notifications, locks and administrators |
| `MCTopUp` | instances for TLC |
| `TopUpProofs` | proofs about TopUp: the locks, acknowledged means credited, credited once |
| `Playground` | the chat page of the web console |
| `MCPlayground` | an instance for TLC |
| `PlaygroundProofs` | proofs about Playground: whose text is where, what is saved, which message waits, where streams write |

### BillingSession

The deployment modelled is the one without Redis and without batch updates: each
quota read or write is then one SQL statement or one transaction, so each is one
action, and each may fail. `info[r]` holds the fields of RelayInfo that billing
reads, `sess[r]` the BillingSession struct together with its funding source, `pc[r]`
where the handler is, `job[r]` where the goroutine started by `Refund` is. The mutex
of a session makes `Settle` and `Refund` alternate; since `Settle` makes two
statements under the mutex and `Refund` only sets a flag under it, Settle is two
steps and Refund waits.

`Authenticate` is `ValidateUserToken` plus the start of `NewBillingSession`;
`CheckSub`, `CheckWallet`, `ReadToken`, `TakeToken`, `TakeWallet`, `TakeSubscription`
and `ReturnToken` are the statements of tryWallet / trySubscription / preConsume in
the order of the code, including the fallback between sources after an
`insufficient` error. What a subscription does with a call is left open: it succeeds,
refuses or fails. `Crash` stops a request's process for good, and with it the
refund goroutine. A request is of a kind: playground (no token check, no token), forced (an
asynchronous task: no trust bypass) and one of four preferences.

Properties. `MoneyConserved` sums what all requests have taken. `WalletLedger`,
`GiftLedger` and `TokenLedger` say that each balance implements `Ledger` under a
refinement mapping that reads an account off the session (`WalletAccount` etc.).
`RefundSplitFits`, `NothingLeftHeld`, `ForcedHoldsEstimate` and
`TokenMatchesFunding` relate session flags, balances and the refund;
`RefundCompletes` and `OpeningTerminates` are the liveness properties.
No property is about `tokenStatus`: `ValidateUserToken` takes a
token for exhausted while another request holds its quota, and the refund of that
request leaves the status alone.

### TaskBilling

A worker is a poller (one node's `TaskPollingLoop`) or a fetcher (a client's query
handler). Each holds copies of rows (`mem`), the task in hand (`cur`), the answer it
got (`seen`), and bills step by step (`refundFunding` → `refundToken`;
`settleFunding` → `settleToken` → `saveQuota`). The compare-and-swap of
`UpdateWithStatus` writes the whole copy, as the code's `Select("*")` does.
`account` and `tokenAccount` are history: what the task has taken from its funding
source and from the token. `logged` is history too: the failures that the code only
writes to its log and that lose a part of a task's billing.

Two more fields of a row decide what happens to it. `complete` says that its progress
is 100%: the queries of the loop and of the sweep (`Unfinished`, `TimedOut`) leave such
rows out whatever their status, and a video sent back to IN_PROGRESS by the moderation
takes the progress the provider reports (`VideoOutcomes`), 100% too. `failReason` says
that the provider gave a song a fail reason: the song is then refunded and set to 100%
whatever status it has (`SunoRefunds`). `Hang` is a call of the provider that never
returns: `RELAY_TIMEOUT` is 0 by default, which gives the HTTP client no timeout. The
worker stays where it is (`hung`) until its process is restarted, and if it is a poller
so do its tasks and its sweep.

Abstractions. `SUBMITTED`, `QUEUED` and `IN_PROGRESS` are one status (a swap that
loses between two of them is the "cas" failure). The provider's and the upscaling
service's final answers are final. The loops' limits of 100 and `TaskQueryLimit`
rows, and the refund exemption of tasks older than 2026-02-22, are left out. A batch
query of songs is one query per song. Prices are numbers of `Costs`; the profit
share and the invoice attribution that follow a settlement are left out.

`Faults` names which calls may fail or what may happen in a run: `settle` (settlement
at submission), `insert`, `load`, `cas`, `save` (the unguarded save of a song),
`funding`, `token`, `row` (statements of the billing), `crash`, `hang`. It is a constant
because the claims differ: under `save` a song is refunded twice, under `settle` a
refund does not return what was charged. A run says which ones it has.

`FundingBilledOnce` and `TokenBilledOnce` are `Ledger` on the two balances;
`FinishedTaskBilled` says that a finished task costs what its row says, and a song with
a fail reason nothing.
`TimedOutTaskSwept` says that a timed-out task comes to an end, unless its row is in
progress at 100% or the loops of all nodes hang. So what the comment at
`common/init.go:155` says of every task not finished in time, that it is failed and
refunded, does not hold of a video in progress at 100%; and a song in progress with a
fail reason is refunded, but never marked as failed.
`task_one_node` has one poller because the claim needs it: a song is refunded before
its row is saved by the unguarded `Task.Update`, so with two pollers, or with a save
that fails (`Faults = {"save"}`), TLC finds it refunded twice.
`TokenFollowsFunding` holds even where a query makes the code bill twice.

### SubscriptionQuota

What BillingSession leaves open, the answer of a subscription, is modelled here. Each
transaction of `model/subscription.go` reads whole rows (`mem`) and saves whole rows,
so a read and the commit are two steps: `ReadSubscriptions`/`PreConsume` for
`PreConsumeUserSubscription`, `PostRead`/`PostCommit` for
`PostConsumeUserSubscriptionDelta` (called by a settlement, a task's adjustment and a
refund), `ListDue`/`ReadReset`/`SaveReset` for `ResetDueSubscriptions`. A refund is
`RefundRead`, the post-consumption, and `RefundSave`: the inner transaction commits
on its own before the outer one, so a failure between them is repeated by
`refundWithRetry` (`Retry`). Writes that depend on nothing read before (expiry,
cancellation, deletion) are one step. Time is counted in reset periods, and a
subscription lasts `Lasts` of them; the calendar of `calcNextResetTime` is left out.

The transactions ask for row locks with `tx.Set("gorm:query_option", "FOR UPDATE")`, an
option of the first GORM that the one of `go.mod` (v1.31.1) does not read. So nothing is
locked, and between the read and the commit others may commit: the save then
writes their changes over. Everything here is about that program. SQLite allows
fewer of these behaviours, for there a second writer waits or fails; the nested
transaction of a refund and its outer one block each other, so that one of the two fails
(`Faults` has both failures).

`charged[r]` is history: what a request has taken from its subscription in the period
that is running; `stale` is history too: the subscriptions some transaction has saved
from a copy that was not the row any more. Two transactions that overwrite each other
lose a charge or a restitution, so `NotOvercharged` and `UsedExact` compare with
`charged` the rows that are not stale: nothing else that fails, is repeated or meets a
reset may lose or invent a charge. `UsedExact` also leaves out subscriptions (`voided`)
that were reset, or that were given back what the period did not hold, since a refund
after a reset restores the old period's charge. `UsedWithinTotal` and `DueIsReset` hold
however the rows are overwritten. `RefundEnds` is about the refund goroutine.
`RefundIdempotent`, which a comment of the code promises, does not hold. Nor does a
cancellation always last: a transaction that had read the row before saves all of it,
with its old status and end.

Left out: completing orders, the user's group, the purchase limit per plan, the
clean-up of records older than 7 days, repeated pre-consumption with one request id
(a request opens one session) and `PreConsumed <= 0` (the amount is at least 1).

### TopUp

A handler is the goroutine of one HTTP request. `RequestPay`, `LinkGiven`, `LinkFails` and
`CreateCorporateTopUp` insert orders and hand out links; `Pay` is the gateway. `Notify`
and `AdminCompleteTopUp` start a handler, `LockOrder`, `Acquire`, `UnlockOrder` and
`Release` are the two functions of `controller/topup.go` that keep a map of counted
mutexes (`createLock` makes the registration and the release one step each), and
`UnlockOrder` looks the mutex up again as the code does. Between them a handler reads
(`Look`), saves what it read (`Save`), adds the quota (`IncreaseUserQuota`) or runs a
transaction, which is a read and a commit (`TxRead`, `TxCommit`) since its FOR UPDATE has
no effect; Antom then looks again (`Recheck`), and the inviter's reward follows. `DbFails`
makes any of these calls fail, `Crash` takes the handlers and the locks of a node.
`Reply` is every way out of a handler: what it answers, and whether it unlocks.
`credits`, `used` and `rewards` are history: how often an order was credited, a payment
led to a credit, and an inviter was rewarded.

`Redeliver` and `Pay` are about the gateways and read off what the handlers expect of
them: an answer of success ends the repetitions. Epay is answered before the order is
touched, and Stripe takes every answer for one; a repetition of Yipay's is answered success
though the quota could not be added, and a deposit of U-coin may have gone to another order. So
`AckedIsCredited` and `PaymentEnds` are about Antom, Creem and Waffo.

`Reports` says what gateways may notify of an order. Antom's result F and every
OrderStatus of Waffo but PAY_SUCCESS close the order, and neither handler asks whether
the order can still be paid; so such a report may arrive before the payment, and also
after it. An order closed before its payment is refused at every repetition:
`PaymentEnds` says that a payment is credited in the end or, with these two gateways, was
closed so. `CreditedIsSuccess` exempts
Stripe, whose expiry handler goes on after it saw that the order is not pending
(`controller/topup_stripe.go:273`), and Waffo, which handles a failed payment without
the lock; the two can close an order that was credited.

Abstractions. All orders are of one user. Amounts, signatures, validation, logs and
e-mails are left out; so are the subscription orders that Stripe and Creem try first.
Waffo's states other than success are one, "closed".

What two nodes may do is not a run of its own: with handlers on two nodes TLC finds an
order credited twice, since the locks are per process and the transactions do not lock
(`model/topup.go:602`).

### Playground

An event handler, the renders and effects that follow and its zero-delay timers are one
step of the page's single thread. `msgs[m]` and `stored[m]` are the conversation of a
display mode and its saved copy; a message keeps its id (a pair of a user message and
its answer share the request's number), status, the state of its video task, and in
`from` which requests have written text into it. `SetMessageForMode` is the function
that writes the React state of the mode shown, or another mode's copy with a save at
once; `dirty` is the 120 ms save timer, `PersistModeMessages` its firing.
`ResumePolling` is the effect on the messages that starts a poller for a pending video;
it is a part of every action that changes what is shown. The user's actions are
`OnMessageSend`, `OnMessageReset`, `OnStopGenerator`, `SwitchMode`, `ClearMessages`,
`DeleteMessage` and `Reload`; a stream's are `StreamChunk`, `StreamDone`,
`StreamGarbage`, `StreamError` and `StreamCut`; then `Reply`, `ImagePoll` and `VideoPoll`.

Streams write to the last message of their conversation, single responses and pollers
to the answer with their id; `RepliesStayInPlace`, `OnlyTailWaits` and
`StreamKeepsToOwn` are what makes the one and the other right. Two weaknesses of the
code are in the model and exempted: an update of an empty conversation throws in the
render and leaves a blank page (`crashed`, until a reload), and a stream that was
stopped too late to be closed may write into a later answer (`StreamKeepsToOwn` says
only that it does not while its own is unfinished).

Abstractions. The dialogue component (a library) blocks the input while something is
generated and offers the deletion of finished messages only. Closing a connection from
the page fires no handler that changes state. The flag that keeps a 500 ms retry from
starting twice, change of user, import of the older storage format, editing a message
and model parameters are left out. Image pollers are not resumed after a reload, as in
the code, nor videos whose task has a status the page does not know ("other").

## Runs

| Run | Instance | Shows |
|---|---|---|
| `billing_mixed` | 2 requests, with and without fallback, forced and playground, costs {0,2}, quota 3 (gift 1), token 4, trust above 2, credits up to 2 | conservation, refund split, nothing left held, forced holds, the three ledgers, the inductive invariant |
| `billing_live` | 1 request, fallbacks, fair | refunds and openings end |
| `task_two_nodes` | 1 video, 2 pollers, all failures but `settle`, `save`; cost 0 included | billed once, whoever finds it finished |
| `task_one_node` | a video and a song, 1 poller, fair, token updates fail, calls hang | billed once with the song's unguarded save succeeding and its fail reason; timed-out tasks end unless at 100% or the loop hangs, failed ones are refunded |
| `task_queries` | a video and a song, 1 poller, 1 query, 1 failed save | token follows funding even when billed twice |
| `task_upscale_query` | 1 video, 1 poller, 1 query | violation: refunded twice after a query revived it |
| `sub_exact` | 1 subscription (quota 3, 2 periods), 2 requests of 1 or 2, failing transactions, 1 period's end | inductive invariant; unless a stale copy was saved, use is exact and nobody overcharged |
| `sub_live` | 2 subscriptions (2 and 3, 1 period), 1 request of 2 or 3, fair | quota is never exceeded, a due period is reset, refunds end |
| `sub_refund_twice` | 1 request, failing transactions | violation: a refund is committed twice |
| `topup` | 1 order of any of 7 methods, 3 handlers on one node, 2 failures or crashes, fair | credited once, acknowledged means credited, credited stays a success, a paid order is credited in the end or was closed by Antom's or Waffo's report |
| `topup_deposit_twice` | 2 U-coin orders, 1 handler, no failures | violation: one deposit, delivered twice, completes two orders |
| `playground` | 3 modes, 2 requests, 1 clear or deletion, 1 reload, pollers of 2 attempts, fair | answers keep mode and place, only the tail waits, quiet is saved, streams keep to their own answer, a pending video ends |

Bounds. Two requests, or two workers on one task, are enough for every pair of
statements to interleave, and all properties are about one account against the
balance; an estimate and an actual cost of 0 or 2 give a surplus, a shortfall and
zero; quota and token are
small enough that the second request is refused, and the trust threshold lies between
possible balances. `MaxCredited` bounds top-ups; `Budget` bounds client queries and
failed saves, the only things a TaskBilling behaviour could repeat for ever.
`Horizon` bounds the time of SubscriptionQuota: one period's end is enough for a reset
to meet requests of the period before. In `sub_exact` the subscription goes on after it
(`Lasts` is 2), so that a pre-consumption resets it too; in `sub_live` it ends (`Lasts`
is 1) and expires. One request, the reset task
and an administrator are enough to overwrite each other; that two requests cannot
exceed a quota either is checked in `sub_exact` and proved (`WithinQuota`). The
constraint `SomeFresh` of `sub_exact` ends a behaviour where the subscription was saved
from an outdated copy: its two properties say nothing after that. The
deadlock check is off for BillingSession and SubscriptionQuota because handlers end
there, and in `task_one_node`, where the only poller may hang for ever; the other runs of
TaskBilling are checked for deadlock (in `task_two_nodes` a hung poller's process may be
restarted). So is TopUp, where three handlers hold and await locks.

In `topup` the properties are about one order at a time and orders only share a lock's
mutexes, so one order is enough; three handlers are the fewest with which a mutex can be
registered by one, released by another and waited for by a third, and two faults let a
transaction fail and its retry too. Two orders matter for U-coin, whose deposits are
matched with orders, and that is the instance of `topup_deposit_twice`. For more orders,
handlers and nodes there are the proofs. In `playground` two requests are enough for an
answer to meet another request, in the same mode or in another; two attempts of a poller
and two network failures in a row reach each of its ends; it starts from cleared
conversations (`Cleared`), the state in which an update can find no message, and the
proofs cover the other start. The deadlock check is off there because
a page may be blank or have nothing left to wait for when the bounds are used up.

Symmetry is used over requests and over pollers, in runs without liveness only.

Fairness. `FairSpec` of BillingSession: the steps of a handler that has work and of
the refund goroutine happen (Go schedules runnable goroutines, database calls
return). `refundWithRetry` is bounded, so its outcome is one step. `FairSpec` of
TaskBilling: a poller's loop runs, a billing step returns, time passes (`Expire`). That a
call of the provider returns is not assumed: a worker that hangs has no step to take.
`FairSpec` of SubscriptionQuota: the
reset task's ticker goes on and a transaction that has begun ends; requests need not
begin and administrators need not act. `FairSpec` of TopUp: a handler that holds a lock
or needs none goes on (WF), a handler that waits for a mutex gets it if it is free again
and again (SF: Go's `sync.Mutex` hands a waiter the lock after a millisecond), and a
gateway repeats a payment's notification until it is acknowledged (SF, because the
server starts a goroutine per request while the model's handlers may all be busy). It
assumes nothing of users, administrators and closing notifications, and lets calls fail
`MaxFaults` times. `FairSpec` of Playground: the timer of a video poller fires and its
fetch returns or fails; no answer of the server is assumed, nor any act of the user.
Nothing is assumed of providers. `TaskTimeoutMinutes` must be positive (its default
is 1440; at 0 the sweep is off and `TimedOutTaskSwept` does not hold).

## Proofs

All theorems hold for every value of the constants, under the named assumptions of
the modules (`BillingAssumption`, `TaskAssumption`, `SubscriptionAssumption`, the finiteness
of the sets of actors, and in TopUp and Playground `MethodsAssumption`,
`BoundsAssumption`, `HandlersAssumption`, `ModesAssumption`, `SendsAssumption`: types of
the constants only). Bounds such as `MaxOrder` or `MaxReq` are any number.

* `TypeCorrect`: type invariant of BillingSession.
* `SessionInvariant`: the inductive invariant `SessionInv`. None of the safety
  properties is inductive: that a refund returns exactly the pre-consumption needs to
  know, at every step of the handler, what the session has taken. `SessionInv` says
  it: nothing while opening (but the token, from `takeToken` on), the effective
  amount once open, and how `settled`, `fundingSettled`, `refunded` and the job
  exclude each other. Its proof has a lemma per action and a frame lemma (a request's
  step leaves the others alone).
* `RefundSplit`, `ForcedHolds`, `NothingHeld`: safety properties that follow from it.
* `WalletRefinement`, `GiftRefinement`, `TokenRefinement`: BillingSession implements
  `Ledger` on each balance. Each action moves its request's account by a move of the
  ledger and the balance by the difference, and leaves the other accounts alone.
* `MoneyIsConserved`: `MoneyConserved`. By the lemmas of the refinement each step changes
  one term of the sum of the accounts and the balance by opposite amounts, or is a credit.
  `TokenMatches` follows from it: a finished request that was paid by the wallet has
  the same amount on the wallet and on the token, so the two sums are equal.
* The sums rest on `SumTheorems`. The library's induction theorems take an operator
  and cannot be used. For finite sets there is a way around: the subsets for which a
  claim fails, if there are any, have a smallest one (`SmallestSubset`, from the library's
  theorem that strict inclusion is well-founded), and that one leads to a contradiction.
  `SumUpdate` (one term changes) and `SumSame` (none does) follow for
  `SumFunctionOnSet`, whose fold takes its elements by CHOOSE. Every use needs the set of actors to be finite: `RequestsAssumption` of BillingSession and
  SubscriptionQuota, `WorkersAssumption` of TaskBilling. A process serves finitely many requests.
* `TaskTypeCorrect`: type invariant of TaskBilling.
* `TaskInvariant`: the inductive invariant `TaskInv` of TaskBilling, under the assumption
  `PollersOnly` (no client queries, no songs, no failed settlement at submission:
  queries break the claim, as `task_upscale_query` shows, and so do a failed settlement,
  whose refund returns what was not charged, and a song whose save fails or that two nodes poll). An unfinished
  task is held for the quota of its row (`AccountInv`); a worker at a billing step bills
  a finished task, alone, and its step says what has moved (`BillingInv`); a copy that
  is still to be handled was unfinished when it was loaded, and has the row's quota
  unless the task was finished since (`CopyInv`). The last part makes the
  compare-and-swap work: the worker that wins it knows that the account is still held.
  `Frame` is the lemma that a worker's step leaves other workers and tasks alone,
  `QuietInv` the one for steps that change no task, `TransitionInv` the one for the swap.
* `TokenFollows`: `TokenFollowsFunding`, with no assumption about who bills or what fails. While
  a worker has moved the funding source and not yet the token, the token lags behind by
  what it has moved; `LagInv` says that a task's funding source and token differ by the
  sum of these lags over the workers, unless a failure was logged. It is this sum that makes
  it inductive where two workers refund or settle one task at once. `HandInv` says that
  a task in somebody's hand was submitted, so that a submission cannot meet a lag.
* `FinishedBilled`, `FundingRefinement`, `TokenRefinement`: under the same assumption a
  finished task costs what its row says, and TaskBilling implements `Ledger` on the
  funding source and on the token, for any number of nodes and tasks.
* `QuotaInvariant`: the inductive invariant `QuotaInv` of SubscriptionQuota. That no
  row exceeds its quota is not inductive: a save writes a copy, so the copies must be
  within the quota as well (`UsedInv`), and a transaction that saves must have read
  (`ReadInv`). A refund has an attempt left while it goes on (`RequestInv`).
* `WithinQuota`: `UsedWithinTotal`, whatever transactions overwrite.
* `NeverOvercharged`, `UseIsExact`: no assumption either. The charges of a subscription are a sum over
  the requests; `ChargeInv` relates it to the row (`Paid`), and says that a request is
  charged to a subscription that was bought (`TargetInv`). A commit moves the row and
  one term of the sum by the same amount if its copy is still the row, and makes the
  subscription stale otherwise; a reset sets all terms to zero.
* `OrderLocksSound`: the lock invariant `OrderInv` of TopUp. Its parts: what is handled
  was inserted (`KnownInv`); where a handler of each kind can be (`PlaceInv`); the mutex
  the map holds for an order is the one its handlers have, and is locked while one of
  them, and no other, works under it (`MutexInv`, `HeldInv`), is counted by its users (`CountInv`, a cardinality, which
  is why the map never deletes a mutex in use) and belongs to one order (`OwnInv`). It
  holds for any number of nodes: a lock excludes handlers of its own process.
* `TopUpTypeCorrect`; `TopUpAckedIsCredited`: a payment of Antom, Creem or Waffo that was
  acknowledged is credited. This needs
  no lock, so it holds on any number of nodes: an order becomes a success together with
  its credit in one transaction (`AckInv`), and only success is acknowledged.
* `TopUpCreditedOnce`, `TopUpCreditedIsSuccess`: if all handlers run in one process
  (`OneProcess`). `CreditInv` relates the credits of an order to what a handler under its
  lock has read; `OrderLocksSound` says that nobody else can have made it stale.
* `PlaygroundTypeCorrect`, `AnswersKeepTheirMode`, `RepliesKeepTheirPlace`: from `PageInv`,
  which says of every message, on the page and saved, which requests may have written
  into it, whose answer it is and whose task it can carry, and of every poller that its task was asked for
  by its own request. Without the part about tasks and pollers it is not inductive: a
  reload starts pollers from saved messages.
* `QuietPageIsSaved`: `QuietIsSaved` is inductive itself.
* `WaitingIsLast`: `OnlyTailWaits`, which needs the same of the saved copy (`TailInv`), for
  a reload brings that back, and that the input sends only when nothing is generated.
* `StreamsKeepToOwn`: the action property `StreamKeepsToOwn`. A stream writes to the last
  message; its own answer, if unfinished, is the last of its conversation
  (`WaitingIsLast`), because an answer belongs to the mode of its request and only
  requests that do not stream have tasks (`OwnOK` and `TaskOK` of `PageInv`). The step that
  needs an invariant of its own is the reload: it mixes nothing because whatever is mixed in
  the saved copy is mixed on the page (`SavedMixes`), and text leaves a conversation only
  together with a save.

Only model-checked: the liveness properties (`RefundCompletes`, `OpeningTerminates`,
`TimedOutTaskSwept`, `FailedTaskRefunded`, `DueIsReset`, `RefundEnds`, `PaymentEnds`,
`PendingVideoEnds`: ENABLED and fairness are out of the prover's reach) and every
violation. All invariants and action properties of the passing runs are proved, some
under the assumptions named above (`PollersOnly`, `OneProcess`). Of these
`PollersOnly` is narrower than a run: that a song is billed once by a single node whose saves
succeed is checked in `task_one_node` only.

## Not modelled, and the plan

Next, in this order: `SubscriptionOrder` (completing and expiring orders under their
per-process lock, the purchase limit, the user's group),
then redemption codes (escrowed quota between create, disable, expire and redeem) and
invoices (attribution of consumption to top-ups), `Withdrawal`, `RelayRetry`,
`RateLimit`, variants of TaskBilling for speech recognition and Midjourney, and the
smaller state machines (supplier push, uploads, hybrid cache). Quota caches and batch
updates: with them a cached balance may lag behind its row, and neither code nor
documentation states a bound on the lag that a property could be about.

Left out for good: price rules and provider adaptors (pure computation and format
conversion, taken as inputs), the desktop client, and the console's other pages. These
are forms and tables over the server's API, most of the console's lines: their state
is what the last request answered, with no interleaving that a property could be about.

What the modules contain and no run is about, because the code does it and no document
says otherwise: a settlement that fails at submission makes a later refund differ from
the charge (`controller/relay.go:778`); a query that finds a video successful after the
poller did settles it again; a song whose row could not be saved is refunded again; two
transactions that save one subscription over each other leave it with less use, or
more, than was charged, and one that had read it before it was cancelled brings it back
active (`model/subscription.go:1190`); a timed-out video in progress at 100% is never
swept; a Waffo order that any report but PAY_SUCCESS closed is never credited; an Epay or Yipay order whose quota could not be added stays a success
without it.
