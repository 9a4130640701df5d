# Smart-Thing: a TLA+ model of the payout platform

The repository is a Node.js platform in two halves over one MongoDB, one Redis
and one RabbitMQ: SwiftPay, which pays out of users' balances through a queue
and a pool of workers, and NexusFlow, a workspace chat with workflow
automation. This directory holds TLA+ modules translated from `src/src`, the
TLC configurations that check them and TLAPS proofs of their main theorems.

Paths below are relative to `src/src` of the repository.

## Inventory

| Component | Code | State it keeps | Talks to | What is hard | What makes it correct |
|---|---|---|---|---|---|
| Payout gateway | `services/payout.service.js` | a request under way, the lock value, the user document it loaded | lock, balance, transactions, publisher | every `await` lets another request in; failure after each call | one payout of a user at a time; nothing published without funds; the lock given back |
| Payout worker | `worker/index.js` | a handler per message | consumer, lock, balance, transactions | redelivery, crash between deduction and record, a refund not tied to a deduction | a payout is charged once, or not at all; completed is final |
| Lock | `services/distributed-lock.service.js` | `lock:<user>` in Redis | gateway, worker | taken in one process, released in another; TTL | only the owner releases it |
| Balance | `services/balance.service.js` | `balance:<user>` in Redis, a copy in MongoDB | gateway, worker, administration | two copies, plain SETs next to atomic scripts, integer replies | no lost update, never negative, the copies agree |
| Consumer, publisher, connection | `services/message-*.service.js`, `config/rabbitmq.js` | queues, unacknowledged messages, retry timers, retry counts | RabbitMQ | reconnection, timers, dead lettering | every message is in one place and ends somewhere |
| Scheduled payouts | `services/scheduler.service.js`, `controllers/scheduler.controller.js` | a status per payout | payout gateway | several gateways, cancel against claim, crash after the claim | executed at most once, cancelled means not executed |
| Spending limits | `services/spending-limit.service.js` | counters in Redis, limits in MongoDB | gateway (check), worker (record) | check and record far apart; a cache call ioredis does not have | the limit holds |
| Profiles, wallets, administration | `controllers/payout.controller.js`, `services/admin.service.js` | user documents, wallets, balances | balance, transactions | read-modify-write on documents | no lost update |
| Webhooks | `services/webhook.service.js` | webhooks, delivery log, statistics, retry timers | gateway, worker | retries with the document of the first attempt; a failing call ends the chain of attempts | delivered or given up, to the current address; the log and the statistics agree |
| Workflows and their worker | `services/workflow.service.js`, `worker/workflow.worker.js` | executions and node results | RabbitMQ | redelivery, two retries on one check, results of an earlier run, cyclic graphs | one run at a time; it ends; the record tells what it did |
| Process and connection | `app.js`, `worker/index.js`, `worker/workflow.worker.js`, `config/{rabbitmq,redis,database}.js` | connections, a reconnect timer and its attempts, the steps of a shutdown | broker, stores, signals | the broker leaves while connecting or while shutting down; two signals | it connects again or has used up its attempts; asked to stop, it exits |
| Sessions | `services/auth.service.js`, `services/token.service.js`, `middleware/auth.middleware.js` | a refresh token, one-time codes, the cached user in Redis | Redis, MongoDB, mail | get, compare and delete in steps; a cache filled with what was read before | what was ended stays ended; a code serves once; the copy follows the account |
| Sockets | `config/websocket.js` | a map from users to sockets, the rooms of Socket.IO | sessions | a socket that closes while its token is verified; a subscription that asks for no token | the map says who is connected; who else hears a user subscribed |
| Workspaces, channels, messages, direct messages | `services/{workspace,channel,message,dm}.service.js` | documents, their arrays and counters, a cached workspace | MongoDB, Redis | check-then-act on documents, Mongoose's saves, counts kept apart | counts match, limits hold, nothing saved undoes another's save, one conversation per group |
| Lookups | `services/{public-api,currency-validator,ip-validator}.service.js` | keys in Redis with a time to live, a call counter | public APIs, gateway | misses at once, backups, failing caches | no answer is older than its time to live, or than the last one |
| Agents | `services/groq.service.js` | the conversations of the investigation agent | the model's API | turns that overlap, fail or outlive their session | short histories that begin with the prompt; nobody's silence approves a payment |
| The rest | notifications, audit log, HTTP routing and validation, other AI prompts, `audit/` | single records, logs | outside services | none that a property is about | - |

`PROJECT.json` lists every component with its status, and under `hazards` the
places where this code can go wrong in ways a test would hardly reach.

## Plan

1. **PayoutPipeline** (done): the payout from the request to the ledger, with
   **PayoutLedger**, the abstract specification it implements when undisturbed
   (**PayoutRefinement**). Its proofs are in **PayoutPipelineProofs** (types and
   messages), **PayoutChargeProofs** (charges) and **PayoutLedgerProofs**
   (records under crashes, and the undisturbed pipeline).
2. **Scheduler** (done, with **SchedulerProofs**): claim, execution, cancel and
   update of scheduled payouts by several gateways, with crashes.
3. **Accounts** (done, with **AccountsProofs** and, for sums over a finite set,
   **SumProofs**): profiles, wallets, `adjustBalance`, status changes and
   spending limits, next to a payout reduced to the steps that touch the account.
4. **Workflow**, **Webhook** and **Lifecycle** (done; the first two with
   **BackgroundProofs**), checked in **MCBackground**: what goes on behind the
   requests.
5. **Workspaces**, **Channels**, **Messages**, **DirectMessages**, **Sessions**,
   **Sockets**, **PayoutEvents**, **Lookups** and **Agents** (done, with
   **ServicesProofs**), checked in **MCServices**: what serves the requests of
   the web application.

Every safety property that a passing run checks is stated by a theorem. The
liveness properties stay with TLC (see Proofs, below).

## PayoutPipeline

One module, because the parts share their state at every step. A request, its
transaction, its lock value and its message are one value `t` of `Txns`; all
are unique per request in the code (`generateTransactionId`, `randomBytes`).
The code between two awaits is one action.

| Variables | In the program |
|---|---|
| `pc`, `snap` | where `initiatePayout` stands; `user.balance` in the document it loaded |
| `lock`, `redis` | the keys `lock:<user>` and `balance:<user>` |
| `mongo`, `tx` | `PayoutUser.balance`, `Transaction.status` |
| `queue`, `unacked`, `acked`, `dlq` | `payout_queue`, what each consumer holds, what was acknowledged, the copies in `payout_dlq` |
| `timers`, `retry` | the `setTimeout` of `_handleFailure`, the `x-retry-count` header |
| `gwLink`, `link` | the channel the publisher, or a consumer, was built with |
| `h`, `ret` | where `processMessage` stands for a message in a worker; `newBalance` |
| `queryPc`, `queryBal` | a `getUserBalance` call and the balance it read |
| `published`, `deducted`, `restored`, `faults` | history |

The gateway: `LoadUser`, `AcquireLock` or `RejectUnlocked`, `RejectLocked`,
`ReadBalance`, `SyncBalance`, `CheckFunds`, `CreateTransaction`, `Publish`, and
`ReleaseOnFailure` for the catch block. The currency, the account status, the
spending limits and the fraud score are left out: each is a rejection that may
or may not happen. `acquireWithRetry` gives up after three attempts; here a
request may give up at any time.

The worker: `Deliver`, `LoadTransaction` with the guards on completed and
processing records, `MarkAsProcessing`, `RecheckBalance`, `Deduct` or
`DeductRefused`, `MarkAsCompleted`, `SyncMongo`, `ReleaseLock`, `Ack`; on an
error `Refund`, `MarkAsFailed`, `HandleFailure` and the timers' `Republish`.
`OnError` is the way from each place into the catch block, and which errors are
refunded. The audit log and the WebSocket events swallow their errors and decide
nothing, so they are left out here (PayoutEvents has the events), as are
webhooks, notifications, `recordSpend` and the anomaly report, which the handler starts and does not await. The branch
of the worker for a message without a lock value is never taken: the publisher
always sends one.

The environment, each fault counted by `faults` and bounded by `MaxFaults`:

| Kind | Action | What it stands for |
|---|---|---|
| crash | `Crash` | a worker dies and restarts: handlers and timers gone, its messages requeued. A graceful shutdown does the same, later. |
| gateway_crash | `CrashGateway` | requests under way are gone, their locks and records stay |
| store | `GatewayStoreError`, `HandlerStoreError`, second branch of `Answered` and `Reply` | a call to Redis or MongoDB fails without an effect, or has its effect and loses the reply |
| resend | `DeductResent`, `RefundResent` | ioredis (its default) repeats an unanswered script after reconnecting |
| drop | `DropConnection`, `DropGatewayConnection` | the AMQP connection is lost; handlers run on, and nobody gets the new channel |
| full | second branch of `Publish` | `sendToQueue` returns false, the message goes out |
| flush | `FlushRedis` | Redis loses balances and locks |
| ttl | `ExpireMessage` | a day in the queue dead-letters a message |

The expiry of a lock is not a fault: `LockExpires` allows it at any time.

`PayoutLedger` is what a user is told: a payout is paid once, from a balance
that covers it, or declined, and nothing else moves a balance.

## Scheduler

`SchedulerService` runs in every gateway process. A poll (`_tick`) claims one due
record with `findOneAndUpdate`, sends it through `initiatePayout`, records the
outcome, and asks for the next by `setImmediate`. `setInterval` starts polls
regardless of the last one, so a gateway has several `Slots`. A poll's place is
`tick[g][k]`; a request's, between its read and its save, is `req[r]`.

| Actions | In the code |
|---|---|
| `Create`, `CancelLoad`/`CancelSave`, `UpdateLoad`/`UpdateSave` | the controller's handlers, split at the await between the read and `save()`, which writes the assigned paths only |
| `StartTick`, `Claim`, `ClaimNothing` | `start`, the interval and the claim, with a claim whose reply is lost |
| `PayAccepted`, `PayRejected` | what `initiatePayout` answers; PayoutPipeline has its steps. A publication through a full buffer throws although the payout is out |
| `Complete`, `Fail` | the two `updateOne` calls; a failing first one leads to the second |
| `Advance`, `Crash`, `Stop`, `Exit` | time, a crash, the cleared interval of a shutdown, the exit and the restart |

What the code does not promise shows here as well. A cancel saved after the
claim is confirmed to the owner and does not stop the payout. After `stop()`, the
poll under way goes on claiming (the comment in `app.js` expects that no payout
is kicked off during a shutdown). A claim whose gateway dies stays in
`processing`. The properties say what does hold around these: CancelledForGood
is about a payout no poll had taken up, EventuallyRecorded about runs without
faults.

## Accounts

One user's document, wallet, Redis keys and limit, and everybody who changes
them. Only payouts take the user's lock; the other handlers read a document, and
write an await later. A payout's place and what it has read is `pay[t]`, a
request's is `req[r]`.

| Actions | In the code |
|---|---|
| `LoadUser` to `ReleaseOnFailure` | `initiatePayout`: status and limits, the balance, acceptance. A `getCurrentUsage` that finds no counter calls `redis.setEx`, which ioredis does not define, and the payout is turned down |
| `Deduct` to `ReleaseLock` | the worker |
| `Record`, `Increment`, `CheckTtl`, `Expire`, `LoseRecord` | `recordSpend`, which the worker starts after it gave back the lock and does not await |
| `WalletLoad`, `WalletSave`, `WalletSaveFails` | `creditWallet`, `debitWallet`; `save()` writes the key that was set, to the loaded document |
| `AdjustLoad`, `AdjustMongo`, `AdjustRedis`, `AdjustSync` | `adjustBalance`, the last in its catch block |
| `CreateCheck`, `CreatePayoutUser`, `DeletePayoutUser`, `UpdateUserStatus` | the profile |
| `SetLimit`, `RemoveUserSpendingLimit`, `DeleteLimit`, `ClearUsage`, `ExpireCounter` | the limit, and the end of its period |

The payout is coarser than in PayoutPipeline: its locks do not expire under it,
and no store call of it fails, except those of `recordSpend`. Overlapping wallet
operations, an adjustment during a payout, and a profile created anew under the
Redis balance of a deleted one do go wrong in this code. The properties say what
holds around them, with the history variables `mixed`, `disturbed`, `relaxed` and
`hurried` naming the exceptions, so that a further exception would be found.

## Workflow

`workflow.service.js` in the gateway and `executeWorkflow` in the worker meet in
an execution's document and in `workflow_queue`. A request's place is `ask[q]`, a
job's message and its handler are `job[j]`.

| Actions | In the code |
|---|---|
| `CreateWorkflow` | the document, with any graph, enabled or not |
| `TriggerRead`, `TriggerCreate`, `PublishWorkflowJob` | `triggerWorkflow`: the nodes published are those read first; a publication that throws leaves the execution queued |
| `RetryRead`, `RetryFind`, `RetryReset` | `retryExecution`: the check on a record read here, the workflow, and an update that checks nothing |
| `UpdateWorkflow`, `SetWorkflowEnabled`, `DeleteWorkflow` | the document; executions and jobs under way go on |
| `Deliver`, `MarkRunning` | the prefetch, and the first update, outside the try block |
| `PushResult`, `RunNode`, `PostMessage`, `CountMessage`, `AnnounceMessage`, `RecordNode` | one round of the loop: the pushed result, the node by what it may do, and the result set by the handler's own index |
| `HangNode` | `http_request` reads the body with its timer cleared |
| `MarkSuccess`, `CountExecution`, `MarkFailed`, `MarkWorkflowFailed` | the end of a run, or the catch block |
| `AnswerBroker`, `CrashWorker`, `ExpireJob` | ack or nack; the unanswered jobs back in the queue after a crash; an hour in it |

What a node computes is left out: a condition takes either branch, any other
node ends in success or failure. `plan`, `raced`, `redone`, `overlapped` and
`stranded` are history. `raced` and `redone` are the two ways in which this
code does run an execution twice at once: a retry that was checked against an
outdated record, and a crash that brings back a job whose run was over, or one
that has other nodes than the run published last. `stranded` is the ways in
which its record never ends. OneRunEach and RunEnds say there are no others.
ExecutionTruth says what the record of a run that nobody disturbed tells, results
of an earlier run included. The comment at `worker/workflow.worker.js:362` speaks of a
republication with a higher count; both branches there nack alike, so a failed
job is not run again but by a user's retry.

## Webhook

A delivery (`delivery[d]`) loads the webhook's document once: `DeliverEvent`
through `find`, `TestWebhook` through the user's test. An attempt is
`PostAnswered`, `ReadBody`, `LogAttempt`, `CountAttempt`, and `RetryTimer` comes
before the next. `CreateWebhook`, `UpdateWebhook`, `DeleteWebhook` are the
user's, `CrashSender` forgets every chain under way. HookFresh bounds how late an
edit is for deliveries that began before it, HookAccounts compares the log with
the statistics, DeliverySettles says that an attempt leads to a success, to the
last attempt, or to a named failure. The model's comment calls an empty list of
events one that fires for all; the `find` matches none, and so does the model.

## Lifecycle

One process of any of three kinds, from `initialize` to its exit. `ConnectMongo`,
`ConnectRedis`, then `ConnectAnswered`, `ChannelCreated`, `QueuesReady` are the
start, and the last three with `ReconnectTimer` are `connect` whenever it runs
again; `BrokerDown` and `BrokerUp` move the broker. `Shutdown` is a signal or an
uncaught error; the steps after it (`Steps`) are those of the kind of process, in
their order, and `Throws` is what a step that throws leads to.
ReconnectAlive says that a lost connection never leaves the process without a
timer or a call under way, while attempts remain; ShutdownEnds that a process
asked to stop exits, unless it is `stuck`: a worker whose channel is already
closed throws at `cancel` or `close` and stays, and the gateway's server waits
for its open connections. `disconnect` closes the connection while its `close`
listener is still on, so that a timer is set that nothing clears; the process
exits first.

## Workspaces, Channels, Messages, DirectMessages

In each module a request is a record with its place and what it has read
(`wsCall`, `chCall`, `msgCall`, `dmCall`), and every await lets another request in.

| Module | Actions | In the code |
|---|---|---|
| Workspaces | `CreateWorkspace` | four writes, and whatever stops between them |
| | `CacheHit`, `CacheMiss`, `ReadWorkspace`, `FillCache`, `WriteWorkspace`, `Bust`, `ExpireWorkspace` | `getWorkspace` and its copy, updates and deletions |
| | `FindMember`, `WriteInvitation`, `ChangeRole`, `RemoveMember`, `CountMember`, `CutCall` | the members and their count, two writes |
| Channels | `BeginAdd`/`SaveAdd`, `BeginTake`/`SaveTake` | join and pin push; leave and unpin assign the array, over the version it was read in |
| | `Archive`, `BeginSend` to `CountOnChannel`, `CutSend` | `deleteChannel`; the three writes of `sendMessage` |
| Messages | `BeginMessageCall`, `SaveEdit`, `SaveDelete`, `SaveReaction`, `SaveUnreaction`, `SaveBookmark`, `RemoveBookmark` | `findOne`, the checks, the change in memory, `save()` or `$pull` |
| | `EmitToRoom` | the event to the sockets in the channel's room, once the save has answered, from the document in memory |
| DirectMessages | `OpenConversation`, `CreateConversation`, `SaveReopen`, `SaveClose`, `UseConversation` to `NotifyOthers`, `CutDmSend` | `getOrCreateDM`, `closeDM`, `sendDMMessage` |

Mongoose is modelled by what it does: `save()` writes the changed paths; an
array that is assigned, or a path in an entry of one, is written only over the
version read and makes a new one, a push only makes a new one, other paths do
neither. Where nothing depends on the order of an array it is modelled by how
many copies it has of each entry (the lists of a channel, the `userIds` of a
reaction, `bookmarkedBy`), and `closedBy`, of which all that is asked is who is in
it, by a set. `SaveTake`, `SaveEdit` and `SaveReaction` fail on another version.

Each property counts. MemberCountExact gives the member count up to the calls
stopped between two writes, invitations of one former member at once and removals
of somebody who is none; PinLimitHeld the length of the pins up to the requests
saved over an array that changed since; SentCounted the message counts;
TombstoneHolds and ReactionsCounted what a message may hold after edits,
deletions and reactions at once; ShownIsStored that a client who follows the
events shows the stored message, but for the events of requests that crossed each
other between save and event, an edit saved over a deletion (which shows the
message again), and reactions read before others; OpenedIsTheirs and NothingHidden how many
conversations a group may have, and for whom one may be hidden.
WorkspaceCopyFresh says when the copy in Redis may be older than the document.

## Sessions and Sockets

Sessions has one account and its keys in Redis, each with the request that set it
as its value, so that a stale use shows. Every service is split at its Redis and
MongoDB calls: `Login`, `StoreToken`, `ReadUser`, `FillUserCache`; `Logout`,
`DropCopy`; `Refresh`, `IssueAccess`; `BeginUpdate`, `WriteProfile`; `Forgot`,
`OtpMail`, `BeginVerifyOtp`, `DropOtp`, `Mark`; `BeginChange`, `SavePassword`,
`DropMark`, `DropToken`; `ResendVerification`, `StoreVerify`; `BeginVerifyEmail`,
`SaveVerified`, `DropVerify`. `Expire` ends any key, `CutRequest` stops a request
between two writes. `overtaken` marks a login or a fill that read the account
before a write, `since` the requests that wrote it after the copy was stored.

Of SessionSound, UserCopyFresh is about the copy the middleware trusts: it is the
account's, but for a storer that was overtaken, an update since that has not
dropped it or stopped before, and an email verified since (`verifyEmail` drops no
copy). ResetRevokes is about sessions opened with an old password, which end with
the request that set the present one, unless it stopped or the login was under
way; UsedOnce about codes and marks, which serve two requests only at once;
EndedForGood about refreshing after a logout or a change of the password.

Sockets has the Socket.IO sockets with their rooms and `clients`, the map
beside them. `AuthVerified` enters a socket whether or not it is still open, as
the code does. `Subscribe` joins any rooms, of any open socket, with or without a
token; `subscribed` is history, the rooms so joined. SocketsLive says that the map
is right but for sockets an authentication came too late for, and that a socket
hears a user if it is in his entry, and otherwise only if it subscribed.

## PayoutEvents

What a user hears of one payout. `initiatePayout` emits PAYOUT_INITIATED itself,
after a publication and an awaited audit entry (`PublishPayment`,
`EmitInitiated`); the worker publishes the other events to a Redis channel, one
await after the record each tells of (`Tells`), and the bridge of the gateway
emits what its subscription gets (`ForwardEvent`). PAYOUT_INITIATED may therefore
come last, and nothing is claimed of its place. The worker is `processMessage`
without the money, with its retries (`AnswerEnvelope`, `ResendEnvelope`), crashes
(`CrashPayer`), a lost channel under a handler that goes on (`LosePayerChannel`)
and failing calls, a publish that ioredis sends twice among them; `LoseEvents` is
a lost subscription or a gateway that stops.
`muddled` is history: what was lost, whether two handlers were at work at once,
and whether one failed to load the record, tells of a failure and records none.
EventsTell says that nothing but PAYOUT_INITIATED, or the same event again, comes
after a "completed", and that in the end the last other event is the record's
status. It says so of payouts that no two handlers had at once (which a lost
channel leads to) and whose record every handler could load, and, of the end, if
nothing was lost.

## Lookups and Agents

Fourteen lookups share one shape and differ in what `Service` records: the key,
the time to live, whether the read of the cache is guarded, what an error leads
to (a throw, a backup, an open door, a fallback), whether the lookup may skip the
call or refuse the answer. `ReadLookupCache`, `CountIpCall`, `FetchAnswered`,
`BodyRead`, `StoreLookup` are its awaits. A datum is the time at which the API
gave it, and an entry in Redis knows who stored it. LookupFresh bounds the age of
what is taken from Redis, and says that nobody gets an older datum than the key
had given before he asked; a datum stored by a call that was not alone in fetching
the key may be older (`crossed`), since the slower of two overwrites the newer.

Agents has the investigation's conversations (`Investigate` up to the request,
`InvestigationAnswered` after it, `ClearSession`) and the assessment of a payment
by two agents and a supervisor. An answer of the model is any of its verdicts or
nothing. ConversationSound bounds the history, which the code caps at 22 entries
before an answer is added: 23 for turns that never overlap, and one more for every
turn that does.
NoSilentApproval says that an approval is some agent's own.

## Runs

`MCPayoutPipeline` gives the constants: three payouts of one user with 4 to
spend (amounts 2, 3 and 2, so that they compete for the balance in every way)
and one of a second user. Deadlock is not checked, here and in the
other modules: payouts, requests and calls are finite, and the system stops when
they are settled.

| Run | Instance | Shows |
|---|---|---|
| payout_timely | two users, three payouts, two workers, no expiry, no faults | OneAtATime, SnapshotExact, the refinement of PayoutLedger, EventuallyPaid |
| payout_crash | two payouts of one user, two workers, expiring locks, 3 crashes of workers or gateway | AckedIsPaid, CompletedIsFinal, NoLostUpdate |
| payout_faults | one payout, two workers, every kind of fault, 3 of them, 2 retries, queries, an amount of one and a half Lua units, cold Redis | TypeOK, Custody, MessageAccounting, ChargeDrift |
| payout_live | two payouts, one worker, 1 fault of any of five kinds | EventuallySettled |
| scheduler | two scheduled payouts, two gateways, two requests, one fault, three points in time | OneExecution, RecordTruth, CancelledForGood, EventuallyTakenUp, EventuallyRecorded |
| accounts | four scenes (below), one failing call | TypeOK, WalletExact, MoneyExact, CounterSound, CounterExpires, LimitHeld |
| accounts_cap | two payouts, nobody else, no fault | NeverOverCap is violated |
| background | one of three scenes: an execution with two jobs and three requests; two deliveries; a process with two signals | OneRunEach, ExecutionTruth, HookFresh, HookAccounts, RunEnds, DeliverySettles, ReconnectAlive, ShutdownEnds |
| services | one of twelve scenes: workspace, channel, message, direct message, three of sessions, sockets, a payout's events, lookups, conversation, assessment | WorkspaceSound, ChannelSound, MessageSound, OneConversation, SessionSound, SocketsLive, LookupFresh, AgentsSound, EventsTell |
| payout_redelivery | one payout, one crash | ProcessedOnce is violated |
| payout_query_race | one payout, one balance query, no fault | NoLostUpdate is violated |
| payout_reconnect | one payout, one dropped connection | EventuallySettled is violated |

**Bounds.** Two payouts and two workers are what the races need: every action
reads and writes the state of one user, one payout and one worker, and an
interference is between two. Three faults allow a fault in the handling of a
fault in the handling of a fault, for instance a crash during the refund of a
lost reply; two retries tell a counted retry from the last one. ChargeDrift was
also checked once with four faults, and the invariants of payout_faults with two
payouts and one fault; these take longer than a regular run.

For the scheduler, a poll and a request interfere over one payout, and two
gateways are two polls; the clock has a time before, at and after the first due
time. One fault is one more than RecordTruth and EventuallyRecorded allow.

Accounts is bounded by `Scenes`: three requests on profile and wallet; two payouts
against two adjustments; two payouts against two requests on the limit; one payout
against any two requests. A scene is what the kinds of request can do to each
other: the wallet shares nothing with the balance but the document, the limit
nothing with the wallet. Any two requests against two payouts were also checked
once (11 million states).

`MCBackground` and `MCServices` put components side by side that share no
variable, so a behaviour plays one of them (`scene`) and the others stay as they
are; nothing is lost, and the states add up instead of multiplying. In
`background`, a graph is a condition with one branch to nowhere before a message,
or a single task; one execution has two jobs (a retry and the run it may overlap)
and three requests (the trigger and two retries at once); one mishap in all, an
edit, a crash or a failing call. Two deliveries of two attempts meet one edit and
one fault: an edit between two attempts, a fault in either. The broker is lost
twice, the second time during the reconnection, with two attempts each and two
signals. In `services` two calls overlap on a workspace and three on every other
document: two that race, and a third that finds what they left. One pin, one entry
of history and four of a conversation stand for 10, 5 and 22, so that each limit
is reached; five turns go over it. Two lookups and a clock of three ticks reach
every expiry; longer times to live than three ticks do not differ. A payout's
events have two workers, one retry and one fault: a crash or a lost channel and
the redelivery after it; two faults were also checked once (1.4 million states).

**Fairness.** PayoutPipeline's `LiveSpec` assumes weak fairness of each request, query, handler
and timer (Node resumes a pending await and fires a timer), of the delivery of
each message to some worker with room (the broker's part), and of the expiry of
a lock when there is one. It assumes nothing of clients or faults, and no strong
fairness: a request may lose every attempt at the lock. Scheduler's `LiveSpec`
assumes it of the clock, the interval, each poll's awaits and the exit of a
process that shuts down, and nothing of the owners' requests.
`BackgroundFairness` assumes it of each job's delivery and of its handler's
awaits, of each delivery's steps (a request is answered or aborted by its timer,
timers fire), of a start's and a connection's steps, and of each shutdown's. It
assumes nothing of users, signals, faults, or the return of the broker: a hung
answer stays hung, a broker that stays away uses up the attempts. `services` has
safety properties only.

**What the properties need.** AckedIsPaid and CompletedIsFinal are claimed for
crashes. They do not survive a lost reply or a dropped connection: the handler
that lives on after its channel is lost competes with the redelivery, which can
mark a completed payout failed. SnapshotExact is claimed for amounts in whole
Lua units and locks that do not expire: `deductBalance` returns a number from
Lua, which Redis truncates to an integer, and the worker writes that integer to
MongoDB. OneRunEach, HookFresh and the properties of `services` name the exceptions that
overlapping calls make; each exception is a record of the calls that
overlapped, so any other way to the same state is a violation. The four
violations are documented in `PROJECT.json` under
`findings`, each with the comment in the code it contradicts.

Each property has a mutant (`...Mutant` in the modules): the definition of an
action changed the way a plausible bug would change the code, which makes TLC
find the property violated.

## Proofs

The proofs hold for every value of the constants, from the assumptions each
module names: `DataAssumption` and `BoundAssumption` (any sets of users and
payouts, any finite set of workers, any positive amounts, natural balances,
retry, prefetch and fault bounds), and one assumption for each other module, from
`SchedulerAssumption` to `SessionAssumption`. These say that bounds are natural
numbers and calls numbered, and that the
sets whose members are counted are finite: workers, requests, jobs, deliveries,
the users and messages of a document. Where a theorem assumes more, it is
said below; each such case is one the code can be in, and the property is false
in the others, as a run or the section above shows.

**PayoutPipelineProofs**: types and messages.

- `TypeCorrect`: `Spec => []TypeOK`. TypeOK is inductive as it stands. Its point
  is that balances stay natural numbers: the deduction needs `HasFunds` in the
  same step, and the MongoDB copy is always a value a deduction returned.
- `MessageSafety`: `Spec => [](Custody /\ MessageAccounting)`, and
  `MessageCustody` for the first alone. MessageAccounting
  alone is not inductive: that a nack adds the one copy that was missing from
  `payout_dlq`, and a republication the one retry, holds because the message was
  in that one place. Custody says where a message is: in the queue, with one
  worker whose channel is up and whose handler works on it, in one timer with an
  attempt left, or done with. With TypeOK the conjunction is inductive. The steps
  that leave the broker alone are one lemma (`MessageFrame`); each step that
  moves a message has its own.

**PayoutChargeProofs**: charges.

- `ChargeBounded`: `Spec => []ChargeDrift`. ChargeDrift counts the bookings made,
  and says nothing of those to come, so a step that books is not covered by it.
  `ChargeInv` counts both: for each payout, what was taken less what was given
  back, plus the handlers that may still reach the deduction (themselves or,
  through a nack, a retry), plus one while the message can still be delivered,
  is at most one more than the faults; and the handlers that may still refund
  number at most the faults more than what is booked. A delivery turns a
  deliverable message into a handler, a deduction turns a handler into a
  booking, a nack turns a handler into a timer: the sum stays. Only a fault adds
  to it: an error after the deduction sends the handler to the refund and the
  nack, a lost connection puts back a message its handler still works on.
  Custody is what makes it inductive: a delivered or nacked message is nowhere
  else. The handlers are counted with the cardinality of a set of workers, which
  is why these are assumed finite.
- `NoUpdateLost`: `[]NoLostUpdate`, where Redis starts warm and keeps its
  balances (`WarmStart`, no `flush`), for finitely many payouts. Nobody can then
  be about to write a stale balance back (`NoSync`): the gateway and the query
  write only what they found missing. Expiring locks, crashes, lost replies and
  resent scripts are allowed; payout_query_race shows what a cold cache does.

**PayoutLedgerProofs**, first part: records, when only workers and gateways
crash (`OnlyCrashes`; a lost reply or connection breaks both, see above).

- `AckedArePaid`, `CompletedForGood`: `CrashInv` says for each place of a handler
  what the record may be and whether the amount has gone, that a record says
  more than `initiated` only once the payout is published, and that no handler
  is ever on its way to a refund. A second handler would break it at every
  step; that there is none is Custody.

Second part: the pipeline under locks that outlive their payouts, with no fault
but crashes of the gateway (`Undisturbed`).

- `OnePayoutAtATime`: `[]OneAtATime`. From the lock to the acknowledgement a
  payout holds its user's lock, wherever it is: in the gateway, the queue, a
  timer or a handler (`LockInv`).
- `PipelineIsALedger`: `Spec => ImplementsLedger`, the refinement of PayoutLedger
  (no balance queries). It needs `BalanceInv`: between the deduction and the
  snapshot Redis still holds what the deduction left, since the lock keeps
  every other payout of the user out; a payout that may still be paid has not
  been; and while Redis has no balance, every request has loaded the one MongoDB
  has, so that a synchronisation writes the balance as it is. Each action then
  is a step of the ledger (`LedgerStep`) or leaves it alone.
- `SnapshotsAreExact`: `[]SnapshotExact`, for amounts in whole Lua units: the
  differences stay whole (`WholeDifference`), so Redis's truncation is the
  identity on every balance that occurs.

**SchedulerProofs**, for any sets of payouts, gateways, polls and requests.

- `ExecutedOnce` and `RecordsAreTrue`: `[]OneExecution`, `[]RecordTruth`, from one
  invariant. The strengthening,
  `PollTruth`, says of each poll what it will record: one at `complete` has sent
  its payout, one at `fail` has not unless there was a fault, and no payout in
  hand is marked failed, since only the poll that has it in hand could have.
- `CancelHonoured`: `Spec => CancelledForGood`, from the same invariant.

**SumProofs** has what `AccountsProofs`, `NoUpdateLost` and `ServicesProofs`
need of `SumFunctionOnSet`. The library's
induction over finite sets takes an operator, which the provers cannot
instantiate, so the lemmas take a smallest counterexample among the subsets of
the set instead (`MinimalSubset`): the sum exists, is a number, splits
off any element, and depends on the summands alone.

**AccountsProofs**, for every scene and any number of faults. Each property has
its own invariant, on top of TypeOK and of `LockHeld` (a payout inside holds the
lock):

- `NeverNegative`: `[]TypeOK`. Balances, wallets and counters stay natural.
- `CounterWillExpire`: a counter without a time to live has a record that is
  about to give it one, or was lost.
- `CounterNeverAhead`: the counter, plus what the completed payouts will yet add
  (`Pending`), is at most what was spent.
- `SpendingWithinLimit`, where the counter starts within the limits: while no
  limit was changed and no record lost, the two are equal; and unless the usage
  was checked while a spending was unrecorded, a payout that passed the check
  still fits (`LimitInv`).
- `WalletAddsUp`: a wallet operation alone on its currency is about to save the
  wallet as it is, moved by its amount (`WalletInv`).
- `StoresAgree`: where the money is between the writes of a payout and of an
  adjustment, while they do not overlap and at most one call fails (`MoneyInv`).

**BackgroundProofs**, workflows and webhooks, any number of each.

- `OneRunOfEach`: `WorkflowSpec => []OneRunEach`. Of an execution without racing
  retries or a redelivery after the end, one job at most is live, or one request is
  about to publish one, and none if it is not triggered or has failed
  (`LiveInv`); so the retry that finds it failed is alone. Live includes the
  update of the statistics after the end, whose failure puts a success back to
  failed. `SeenInv` keeps the retry's check.
- `RecordsTellTheRun`: `[]ExecutionTruth`, by five invariants. What a handler has
  run is a path of its nodes, with successes up to the last (`PathInv`). While an
  execution was never overlapped, one job or request of it is in play, with the
  nodes published last, and a job at work means a running record (`RunInv`); what
  the first run of all has posted and counted follows from where its handler is
  (`FirstInv`); runs counted, and handlers about to count theirs, are as many as
  the successes (`RunsInv`). The fifth is that of OneRunEach. The proof showed one
  more way to run old nodes, which no run with one mishap reaches and which
  `redone` now names: a raced retry resets an execution whose successful job is
  still to count its run, and its publication fails; counting fails too, so that
  the record is failed, and a crash brings the old job back before it is answered.
- `RequestsAreFresh`: `WebhookSpec => []HookFresh`. A delivery under way whose
  webhook was not edited since has its present address (`Current`); before an
  attempt the log has those before it, which failed (`Logs`).
- `StatisticsAddUp`: `[]HookAccounts`. `Tally` counts what is logged and not
  counted yet as well, so a step that counts moves one from there to the
  statistics. `Ends` says that what is counted is what was logged, and that only
  a last attempt succeeded. It needs finitely many deliveries, for the
  cardinalities.

**ServicesProofs**, for any number of users, sockets, calls and documents' entries.
Most of these strengthenings say of each call what it holds from its read and
what makes that outdated.

- `SocketsAreLive`: `SocketsSpec => []SocketsLive`. The entries hold the open
  sockets of their user, but for those an authentication came too late for
  (`MapLive`); the rooms of a socket are those of its entries and those it
  subscribed to (`Hears`); a verification under way is of a socket that has been
  open (`AuthSound`).
- `WorkspaceIsSound`: `[]WorkspaceSound`. A call between its two writes has changed
  a member (`WsCallSound`), so each step moves the members and the terms of the
  count alike; a copy about to be stored is the workspace as it is, unless the
  reader was overtaken.
- `AgentsAreSound`: `[]AgentsSound`. The bound of a history leaves room for every
  answer to come, and the question of a turn that is alone is the last entry
  (`HistoryInv`).
- `OneConversationEach`: `[]OneConversation`. A group has at most one conversation
  more than the calls that created one late, and what a call has read of
  `closedBy` is there still unless the version moved (`DmCallSound`).
- `ChannelIsSound`: `[]ChannelSound`. What a request read is what is there, if the
  version is the one it read, and it allowed what is about to be saved
  (`ReadSound`).
- `MessageIsSound`: `[]MessageSound`. The same for a message (`HoldsRead`); a request
  between its save and its event, if no other crossed it, holds what is stored
  (`HoldsNews`); and what is shown is what is stored once nobody has news of it
  (`TextShown`, `MarksShown`).
- `LookupsAreFresh`: `LookupSpec => []LookupFresh`. Two calls that fetch a key are
  marked as not alone; what Redis holds of a call that was alone is the newest
  datum that was answered, and what such a call has got is newer still
  (`KeyOrdered`); a call remembers the newest answer at the time it asked
  (`CallTimed`).
- `SessionIsSound`: `[]SessionSound`. Each step is first reduced to how it moves one
  request, the keys and the account (`RequestMoves`), and the invariant, what each
  request still holds (`RequestSound`), that used codes and marks are gone and
  ended sessions are not the stored one, is proved of such moves. The exceptions
  are those named above, each by the request it is about.
- `EventsAreTrue`: `PayoutEventsSpec => []EventsTell`. But for two handlers at once,
  one handler is at work (`OneAtWork`) and its place says what the record is
  (`PayerKnows`); once "completed" is on the bus or heard, nothing else is, and
  nobody has anything else to say (`NothingElse`, `CompletedIsLast`); what the
  record says is said, or about to be (`RecordIsSaid`).

**Model-checked only.** The liveness properties (EventuallySettled,
EventuallyPaid, EventuallyTakenUp, EventuallyRecorded, RunEnds, DeliverySettles,
ReconnectAlive, ShutdownEnds): TLAPS proves neither ENABLED nor leads-to under
fairness. ReconnectAlive and ShutdownEnds are all that is asked of Lifecycle, so
it has no theorem. Walking a workflow's graph is recursive in the code, and the
model takes it a node a step; nothing is claimed of what a recursion computes.

## Comments the code does not keep

Four comments are refuted by a run of their own, and listed in `PROJECT.json` under
`findings`. The others met on the way have no run; each is named where the model
shows it, and the property there states what the code does keep.

| Comment | What the code does | Where |
|---|---|---|
| `config/websocket.js:60`, authentication "prevents unauthorized users from subscribing to another user's events" | `_handleSubscribe` joins any room for any socket | `Subscribe`, SocketsLive |
| `services/groq.service.js:37`, "Capped at 20 messages per session" | 22 are sent and 23 kept, even if turns never overlap | ConversationSound |
| `services/dm.service.js:20`, safe to call twice | two calls at once create two conversations | OpenedIsTheirs |
| `services/message.service.js:128`, the last five edits | edits saved at once keep more | TombstoneHolds |
| `worker/workflow.worker.js:362`, a republication with a higher count | both branches nack, and only a user's retry runs the job again | RunEnds |
| `app.js:325`, no payout is started during the shutdown | a poll under way claims on after `stop()` | `Stop`, RecordTruth |

## Not modelled

- **Notifications** (`services/notification.service.js`, mail and SMS): single
  writes and sends whose errors are swallowed. **Audit log**: append-only, its
  errors swallowed. **`audit/`**, scripts, containers: not part of the running
  system.
- Of the **AI services**, the other prompts of Groq, NVIDIA and OpenRouter: a
  request and an answer that nothing keeps. OpenRouter's back-off counts in an
  object that the worker makes anew for every node, so it never holds a call
  back; `retryWithBackoff` around Groq's `_request`, which gives null and throws
  nothing, never retries. Where a workflow calls a model the answer is any
  (`RunNode`).
- **WebSocket**: rooms other than the users' (Messages has the sockets of a
  channel's room as one) and MESSAGE_CREATED, which forwards what it gets and keeps
  nothing.
- **Creation** that precedes the models: registration, `createChannel`,
  `updateChannel`; the uniqueness of slugs and names is the
  indexes'. Mentions, searches, lists and reports only read.
- **HTTP layer**: routing, validation and headers are stateless; the counters of
  the rate limits are a library's.
- Of the **payout**: fraud scores, the anomaly report and the fields of records
  that decide nothing.
