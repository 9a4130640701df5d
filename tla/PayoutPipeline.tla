--------------------------- MODULE PayoutPipeline ---------------------------
(***************************************************************************)
(* A payout, from the HTTP request to the ledger: the gateway's            *)
(* PayoutService.initiatePayout, the Redis lock and balance it shares with *)
(* the workers, the RabbitMQ payout_queue with its dead letter queue, the  *)
(* MessageConsumer's ack/nack/retry, and WorkerService.processMessage.     *)
(*                                                                         *)
(* Every `await` on Redis, MongoDB or a timer is a point where another     *)
(* request, worker or fault may run, so the code between two awaits is one *)
(* action.  A payout request is identified with its transaction t; t also  *)
(* stands for the random lock value the request generates and for the      *)
(* message that carries it, of which at most one copy is live at a time.   *)
(***************************************************************************)
EXTENDS Integers, FiniteSets, Functions

CONSTANTS
    Users, Txns, Workers,
    Owner,          \* [Txns -> Users]: who asks for payout t
    Amount,         \* [Txns -> Nat]: its amount, in minor units
    InitBalance,    \* [Users -> Nat]: the MongoDB balances at the start
    Unit,           \* minor units in the unit a Lua integer reply keeps
    MaxRetries,     \* MAX_RETRY_ATTEMPTS
    Prefetch,       \* WORKER_CONCURRENCY, the channel's prefetch count
    WarmStart,      \* are the balances in Redis at the start?
    LockExpires,    \* may a lock's TTL run out while its payout is in flight?
    BalanceQueries, \* do clients also call GET /balance?
    FaultKinds,     \* the kinds of fault the environment may inject
    MaxFaults,      \* and how many of them in one behaviour
    Nobody,         \* a free lock
    NoKey           \* a balance key absent from Redis

AllFaults ==
    {"crash", "gateway_crash", "store", "resend", "drop", "full", "flush",
     "ttl"}

ASSUME DataAssumption ==
    /\ Owner \in [Txns -> Users]
    /\ Amount \in [Txns -> Nat \ {0}]
    /\ InitBalance \in [Users -> Nat]
    /\ Unit \in Nat \ {0}
    /\ Nobody \notin Txns
    /\ NoKey \notin Int

ASSUME BoundAssumption ==
    /\ IsFiniteSet(Workers)
    /\ MaxRetries \in Nat
    /\ MaxFaults \in Nat
    /\ Prefetch \in Nat \ {0}
    /\ FaultKinds \subseteq AllFaults
    /\ {WarmStart, LockExpires, BalanceQueries} \subseteq BOOLEAN

VARIABLES
    pc,         \* pc[t]: where initiatePayout stands for request t
    snap,       \* snap[t]: the balance in the user document it loaded
    gwLink,     \* the gateway's channel: "up" or "lost"
    lock,       \* lock[u]: whose value is under lock:<u>, or Nobody
    redis,      \* redis[u]: the number under balance:<u>, or NoKey
    mongo,      \* mongo[u]: PayoutUser.balance
    tx,         \* tx[t]: Transaction.status, or "none"
    queue,      \* the messages ready in payout_queue
    unacked,    \* unacked[w]: delivered to w, neither acked nor nacked
    timers,     \* timers[w]: waiting in w's setTimeout to be republished
    acked,      \* the messages acknowledged
    dlq,        \* dlq[t]: copies of the message in payout_dlq
    retry,      \* retry[t]: its x-retry-count header
    link,       \* link[w]: the channel w consumes from, "up" or "lost"
    h,          \* h[w][t]: where processMessage stands for t in w
    ret,        \* ret[w][t]: the balance its deduction returned
    queryPc,    \* queryPc[u]: where a getUserBalance call for u stands
    queryBal,   \* queryBal[u]: the MongoDB balance that call has read
    published,  \* history: the messages handed to the broker
    deducted,   \* history: deducted[t], times t's amount left the balance
    restored,   \* history: restored[t], times it was added back
    faults      \* the number of faults injected so far

gatewayVars == <<pc, snap, gwLink>>
brokerVars  == <<queue, unacked, timers, acked, dlq, retry, link>>
handlerVars == <<h, ret>>
queryVars   == <<queryPc, queryBal>>
ledgerVars  == <<deducted, restored>>

vars == <<gatewayVars, lock, redis, mongo, tx, brokerVars, handlerVars,
          queryVars, published, ledgerVars, faults>>

GatewayPc ==
    {"idle", "loaded", "locked", "unsynced", "synced", "funded", "created",
     "failing", "accepted", "rejected", "gone"}

HandlerPc ==
    {"none", "load", "mark", "check", "deduct", "complete", "snapshot",
     "release", "ack", "refund", "refundNoTx", "fail", "nack"}

TxStatus == {"none", "initiated", "processing", "completed", "failed"}

(* What a Lua number becomes in a Redis integer reply: the part below the  *)
(* unit is dropped.  The key itself keeps every minor unit.                *)
Truncate(n) == (n \div Unit) * Unit

Init ==
    /\ pc = [t \in Txns |-> "idle"]
    /\ snap = [t \in Txns |-> 0]
    /\ gwLink = "up"
    /\ lock = [u \in Users |-> Nobody]
    /\ redis = [u \in Users |-> IF WarmStart THEN InitBalance[u] ELSE NoKey]
    /\ mongo = InitBalance
    /\ tx = [t \in Txns |-> "none"]
    /\ queue = {}
    /\ unacked = [w \in Workers |-> {}]
    /\ timers = [w \in Workers |-> {}]
    /\ acked = {}
    /\ dlq = [t \in Txns |-> 0]
    /\ retry = [t \in Txns |-> 0]
    /\ link = [w \in Workers |-> "up"]
    /\ h = [w \in Workers |-> [t \in Txns |-> "none"]]
    /\ ret = [w \in Workers |-> [t \in Txns |-> 0]]
    /\ queryPc = [u \in Users |-> "idle"]
    /\ queryBal = [u \in Users |-> 0]
    /\ published = {}
    /\ deducted = [t \in Txns |-> 0]
    /\ restored = [t \in Txns |-> 0]
    /\ faults = 0

Fault(kind) ==
    /\ kind \in FaultKinds
    /\ faults < MaxFaults
    /\ faults' = faults + 1

-----------------------------------------------------------------------------
(* The gateway: PayoutService.initiatePayout.                              *)

GoTo(t, from, to) ==
    /\ pc[t] = from
    /\ pc' = [pc EXCEPT ![t] = to]

(* A call that performs a write and then answers, or whose answer is lost: *)
(* the write is done, and the request goes to the catch block all the same.*)
Answered(t, from, to, onError) ==
    \/ GoTo(t, from, to) /\ UNCHANGED faults
    \/ GoTo(t, from, onError) /\ Fault("store")

(* PayoutUser.findByUserId: the balance used later is the one read here.   *)
LoadUser(t) ==
    /\ GoTo(t, "idle", "loaded")
    /\ snap' = [snap EXCEPT ![t] = mongo[Owner[t]]]
    /\ UNCHANGED <<gwLink, lock, redis, mongo, tx, brokerVars, handlerVars,
                   queryVars, published, ledgerVars, faults>>

(* Mutant: SET without NX.                                                 *)
AcquireLockMutant(t) ==
    /\ Answered(t, "loaded", "locked", "rejected")
    /\ lock' = [lock EXCEPT ![Owner[t]] = t]
    /\ UNCHANGED <<snap, gwLink, redis, mongo, tx, brokerVars, handlerVars,
                   queryVars, published, ledgerVars>>

(* SET lock:<u> <value> PX ttl NX.  The lock value is only known to the    *)
(* request once the reply is in, so a lost reply leaves the lock behind.   *)
AcquireLock(t) ==
    /\ lock[Owner[t]] = Nobody
    /\ Answered(t, "loaded", "locked", "rejected")
    /\ lock' = [lock EXCEPT ![Owner[t]] = t]
    /\ UNCHANGED <<snap, gwLink, redis, mongo, tx, brokerVars, handlerVars,
                   queryVars, published, ledgerVars>>

(* CONCURRENT_REQUEST_DETECTED after the attempts, or an invalid currency: *)
(* the request has no lock to give back.                                   *)
RejectUnlocked(t) ==
    /\ GoTo(t, "loaded", "rejected")
    /\ UNCHANGED <<snap, gwLink, lock, redis, mongo, tx, brokerVars,
                   handlerVars, queryVars, published, ledgerVars, faults>>

(* USER_NOT_ACTIVE or SPENDING_LIMIT_EXCEEDED before the balance is read,  *)
(* HIGH_FRAUD_RISK after it: decided by data this module leaves out.       *)
RejectLocked(t) ==
    /\ \/ GoTo(t, "locked", "failing")
       \/ GoTo(t, "funded", "failing")
    /\ UNCHANGED <<snap, gwLink, lock, redis, mongo, tx, brokerVars,
                   handlerVars, queryVars, published, ledgerVars, faults>>

(* Mutant: the balance is synced whether or not Redis has it.              *)
ReadBalanceMutant(t) ==
    /\ GoTo(t, "locked", "unsynced")
    /\ UNCHANGED <<snap, gwLink, lock, redis, mongo, tx, brokerVars,
                   handlerVars, queryVars, published, ledgerVars, faults>>

ReadBalance(t) ==
    /\ GoTo(t, "locked",
            IF redis[Owner[t]] = NoKey THEN "unsynced" ELSE "synced")
    /\ UNCHANGED <<snap, gwLink, lock, redis, mongo, tx, brokerVars,
                   handlerVars, queryVars, published, ledgerVars, faults>>

SyncBalance(t) ==
    /\ Answered(t, "unsynced", "synced", "failing")
    /\ redis' = [redis EXCEPT ![Owner[t]] = snap[t]]
    /\ UNCHANGED <<snap, gwLink, lock, mongo, tx, brokerVars, handlerVars,
                   queryVars, published, ledgerVars>>

(* Mutant: the balance is not compared with the amount.                    *)
HasFundsMutant(t) == redis[Owner[t]] # NoKey

HasFunds(t) ==
    /\ redis[Owner[t]] # NoKey
    /\ redis[Owner[t]] >= Amount[t]

CheckFunds(t) ==
    /\ GoTo(t, "synced", IF HasFunds(t) THEN "funded" ELSE "failing")
    /\ UNCHANGED <<snap, gwLink, lock, redis, mongo, tx, brokerVars,
                   handlerVars, queryVars, published, ledgerVars, faults>>

CreateTransaction(t) ==
    /\ Answered(t, "funded", "created", "failing")
    /\ tx' = [tx EXCEPT ![t] = "initiated"]
    /\ UNCHANGED <<snap, gwLink, lock, redis, mongo, brokerVars, handlerVars,
                   queryVars, published, ledgerVars>>

(* sendToQueue puts the message on its way; FALSE only says that the write *)
(* buffer is full, and the request is failed although the message goes out.*)
Publish(t) ==
    /\ gwLink = "up"
    /\ \/ GoTo(t, "created", "accepted") /\ UNCHANGED faults
       \/ GoTo(t, "created", "failing") /\ Fault("full")
    /\ queue' = queue \union {t}
    /\ published' = published \union {t}
    /\ UNCHANGED <<snap, gwLink, lock, redis, mongo, tx, unacked, timers,
                   acked, dlq, retry, link, handlerVars, queryVars, ledgerVars>>

(* The publisher keeps the channel it was built with: once that is closed, *)
(* sendToQueue throws.                                                     *)
PublishOnLostChannel(t) ==
    /\ gwLink = "lost"
    /\ GoTo(t, "created", "failing")
    /\ UNCHANGED <<snap, gwLink, lock, redis, mongo, tx, brokerVars,
                   handlerVars, queryVars, published, ledgerVars, faults>>

(* The Lua compare-and-delete: a lock is only freed with its own value.    *)
Released(t) ==
    IF lock[Owner[t]] = t THEN [lock EXCEPT ![Owner[t]] = Nobody] ELSE lock

(* The catch block.  The transaction record, if any, stays "initiated".    *)
ReleaseOnFailure(t) ==
    /\ GoTo(t, "failing", "rejected")
    /\ lock' = Released(t)
    /\ UNCHANGED <<snap, gwLink, redis, mongo, tx, brokerVars, handlerVars,
                   queryVars, published, ledgerVars, faults>>

(* A store call of the gateway that fails without having had an effect.    *)
GatewayStoreError(t) ==
    /\ Fault("store")
    /\ \/ \E p \in {"idle", "loaded", "failing"} : GoTo(t, p, "rejected")
       \/ \E p \in {"locked", "unsynced", "synced", "funded"} :
            GoTo(t, p, "failing")
    /\ UNCHANGED <<snap, gwLink, lock, redis, mongo, tx, brokerVars,
                   handlerVars, queryVars, published, ledgerVars>>

(* GET /balance: PayoutService.getUserBalance, which takes no lock.        *)
QueryMiss(u) ==
    /\ BalanceQueries
    /\ queryPc[u] = "idle"
    /\ redis[u] = NoKey
    /\ queryPc' = [queryPc EXCEPT ![u] = "missed"]
    /\ UNCHANGED <<gatewayVars, lock, redis, mongo, tx, brokerVars,
                   handlerVars, queryBal, published, ledgerVars, faults>>

QueryLoad(u) ==
    /\ queryPc[u] = "missed"
    /\ queryPc' = [queryPc EXCEPT ![u] = "loaded"]
    /\ queryBal' = [queryBal EXCEPT ![u] = mongo[u]]
    /\ UNCHANGED <<gatewayVars, lock, redis, mongo, tx, brokerVars,
                   handlerVars, published, ledgerVars, faults>>

QuerySync(u) ==
    /\ queryPc[u] = "loaded"
    /\ queryPc' = [queryPc EXCEPT ![u] = "idle"]
    /\ queryBal' = [queryBal EXCEPT ![u] = 0]
    /\ redis' = [redis EXCEPT ![u] = queryBal[u]]
    /\ UNCHANGED <<gatewayVars, lock, mongo, tx, brokerVars, handlerVars,
                   published, ledgerVars, faults>>

-----------------------------------------------------------------------------
(* The broker's delivery and the worker: MessageConsumer._handleMessage    *)
(* and WorkerService.processMessage.                                       *)

At(w, t, p) == h[w][t] = p

(* Which part of the catch block an exception raised at p leads to.  The   *)
(* refund is tried for every error but the four logic errors; a failed     *)
(* refund is swallowed; a failed markAsFailed escapes to the consumer.     *)
OnError(p) ==
    CASE p = "load"   -> "refundNoTx"
      [] p = "refund" -> "fail"
      [] p \in {"mark", "check", "deduct", "complete", "snapshot", "release"}
                      -> "refund"
      [] OTHER        -> "nack"

Move(w, t, p) == h' = [h EXCEPT ![w][t] = p]

(* As Answered, for the handler: a write whose reply may be lost.          *)
Reply(w, t, next) ==
    \/ Move(w, t, next) /\ UNCHANGED faults
    \/ Move(w, t, OnError(h[w][t])) /\ Fault("store")

Deliver(w, t) ==
    /\ t \in queue
    /\ link[w] = "up"
    /\ Cardinality(unacked[w]) < Prefetch
    /\ queue' = queue \ {t}
    /\ unacked' = [unacked EXCEPT ![w] = @ \union {t}]
    /\ Move(w, t, "load")
    /\ UNCHANGED <<gatewayVars, lock, redis, mongo, tx, timers, acked, dlq,
                   retry, link, ret, queryVars, published, ledgerVars, faults>>

(* Mutant: a transaction in processing is skipped as well.                 *)
LoadTransactionSkipMutant(w, t) ==
    /\ At(w, t, "load")
    /\ Move(w, t,
            IF tx[t] \in {"completed", "processing"} THEN "ack" ELSE "mark")
    /\ UNCHANGED <<gatewayVars, lock, redis, mongo, tx, brokerVars, ret,
                   queryVars, published, ledgerVars, faults>>

(* Mutant: no idempotency guard.                                           *)
LoadTransactionMutant(w, t) ==
    /\ At(w, t, "load")
    /\ Move(w, t, "mark")
    /\ UNCHANGED <<gatewayVars, lock, redis, mongo, tx, brokerVars, ret,
                   queryVars, published, ledgerVars, faults>>

(* The idempotency guard: completed is skipped and acked, processing is    *)
(* the error ALREADY_PROCESSING, initiated and failed are processed.       *)
LoadTransaction(w, t) ==
    /\ At(w, t, "load")
    /\ Move(w, t, CASE tx[t] = "completed"  -> "ack"
                    [] tx[t] = "processing" -> "fail"
                    [] OTHER                -> "mark")
    /\ UNCHANGED <<gatewayVars, lock, redis, mongo, tx, brokerVars, ret,
                   queryVars, published, ledgerVars, faults>>

MarkAsProcessing(w, t) ==
    /\ At(w, t, "mark")
    /\ Reply(w, t, "check")
    /\ tx' = [tx EXCEPT ![t] = "processing"]
    /\ UNCHANGED <<gatewayVars, lock, redis, mongo, brokerVars, ret,
                   queryVars, published, ledgerVars>>

RecheckBalance(w, t) ==
    /\ At(w, t, "check")
    /\ Move(w, t, IF HasFunds(t) THEN "deduct" ELSE "fail")
    /\ UNCHANGED <<gatewayVars, lock, redis, mongo, tx, brokerVars, ret,
                   queryVars, published, ledgerVars, faults>>

(* Mutant: the script returns the balance before the deduction.            *)
DeductMutant(w, t) ==
    LET u == Owner[t] IN
    /\ At(w, t, "deduct")
    /\ HasFunds(t)
    /\ Reply(w, t, "complete")
    /\ redis' = [redis EXCEPT ![u] = @ - Amount[t]]
    /\ ret' = [ret EXCEPT ![w][t] = Truncate(redis[u])]
    /\ deducted' = [deducted EXCEPT ![t] = @ + 1]
    /\ UNCHANGED <<gatewayVars, lock, mongo, tx, brokerVars, queryVars,
                   published, restored>>

(* The deduction script, one atomic command.                               *)
Deduct(w, t) ==
    LET u == Owner[t] IN
    /\ At(w, t, "deduct")
    /\ HasFunds(t)
    /\ Reply(w, t, "complete")
    /\ redis' = [redis EXCEPT ![u] = @ - Amount[t]]
    /\ ret' = [ret EXCEPT ![w][t] = Truncate(redis[u] - Amount[t])]
    /\ deducted' = [deducted EXCEPT ![t] = @ + 1]
    /\ UNCHANGED <<gatewayVars, lock, mongo, tx, brokerVars, queryVars,
                   published, restored>>

(* The script's nil and -1 replies: BALANCE_NOT_FOUND and                  *)
(* INSUFFICIENT_BALANCE, neither of which is refunded.                     *)
DeductRefused(w, t) ==
    /\ At(w, t, "deduct")
    /\ ~HasFunds(t)
    /\ Move(w, t, "fail")
    /\ UNCHANGED <<gatewayVars, lock, redis, mongo, tx, brokerVars, ret,
                   queryVars, published, ledgerVars, faults>>

(* Mutant: the status is set on the document and never saved.              *)
MarkAsCompletedMutant(w, t) ==
    /\ At(w, t, "complete")
    /\ Reply(w, t, "snapshot")
    /\ UNCHANGED <<gatewayVars, lock, redis, mongo, tx, brokerVars, ret,
                   queryVars, published, ledgerVars>>

MarkAsCompleted(w, t) ==
    /\ At(w, t, "complete")
    /\ Reply(w, t, "snapshot")
    /\ tx' = [tx EXCEPT ![t] = "completed"]
    /\ UNCHANGED <<gatewayVars, lock, redis, mongo, brokerVars, ret,
                   queryVars, published, ledgerVars>>

(* PayoutUser.updateOne: the balance the script returned becomes MongoDB's.*)
SyncMongo(w, t) ==
    /\ At(w, t, "snapshot")
    /\ Reply(w, t, "release")
    /\ mongo' = [mongo EXCEPT ![Owner[t]] = ret[w][t]]
    /\ UNCHANGED <<gatewayVars, lock, redis, tx, brokerVars, ret, queryVars,
                   published, ledgerVars>>

ReleaseLock(w, t) ==
    /\ At(w, t, "release")
    /\ Reply(w, t, "ack")
    /\ lock' = Released(t)
    /\ UNCHANGED <<gatewayVars, redis, mongo, tx, brokerVars, ret, queryVars,
                   published, ledgerVars>>

(* Mutant: the refund is sent twice.                                       *)
RefundMutant(w, t) ==
    LET u == Owner[t] IN
    /\ \/ At(w, t, "refund") /\ Reply(w, t, "fail")
       \/ At(w, t, "refundNoTx") /\ Reply(w, t, "nack")
    /\ redis[u] # NoKey
    /\ redis' = [redis EXCEPT ![u] = @ + 2 * Amount[t]]
    /\ restored' = [restored EXCEPT ![t] = @ + 2]
    /\ UNCHANGED <<gatewayVars, lock, mongo, tx, brokerVars, ret, queryVars,
                   published, deducted>>

(* The catch block's addBalance, with the transaction loaded or not.  A    *)
(* missing key makes it throw, and the error is swallowed.                 *)
Refund(w, t) ==
    LET u == Owner[t] IN
    /\ \/ At(w, t, "refund") /\ Reply(w, t, "fail")
       \/ At(w, t, "refundNoTx") /\ Reply(w, t, "nack")
    /\ redis' = IF redis[u] = NoKey THEN redis
                ELSE [redis EXCEPT ![u] = @ + Amount[t]]
    /\ restored' = IF redis[u] = NoKey THEN restored
                   ELSE [restored EXCEPT ![t] = @ + 1]
    /\ UNCHANGED <<gatewayVars, lock, mongo, tx, brokerVars, ret, queryVars,
                   published, deducted>>

MarkAsFailed(w, t) ==
    /\ At(w, t, "fail")
    /\ Reply(w, t, "nack")
    /\ tx' = [tx EXCEPT ![t] = "failed"]
    /\ UNCHANGED <<gatewayVars, lock, redis, mongo, brokerVars, ret,
                   queryVars, published, ledgerVars>>

(* A store call of the handler that fails without having had an effect.    *)
HandlerStoreError(w, t) ==
    /\ h[w][t] \notin {"none", "ack", "nack"}
    /\ Fault("store")
    /\ Move(w, t, OnError(h[w][t]))
    /\ UNCHANGED <<gatewayVars, lock, redis, mongo, tx, brokerVars, ret,
                   queryVars, published, ledgerVars>>

(* Redis ran the script, the connection broke before the reply, and ioredis*)
(* sent the command again once it had reconnected: the reply the handler   *)
(* sees is the second one's.                                               *)
DeductResent(w, t) ==
    LET u == Owner[t]
        both == redis[u] - Amount[t] >= Amount[t]
        left == redis[u] - (IF both THEN 2 ELSE 1) * Amount[t]
    IN
    /\ At(w, t, "deduct")
    /\ HasFunds(t)
    /\ Fault("resend")
    /\ Move(w, t, IF both THEN "complete" ELSE "fail")
    /\ redis' = [redis EXCEPT ![u] = left]
    /\ ret' = IF both THEN [ret EXCEPT ![w][t] = Truncate(left)] ELSE ret
    /\ deducted' = [deducted EXCEPT ![t] = @ + (IF both THEN 2 ELSE 1)]
    /\ UNCHANGED <<gatewayVars, lock, mongo, tx, brokerVars, queryVars,
                   published, restored>>

RefundResent(w, t) ==
    LET u == Owner[t] IN
    /\ \/ At(w, t, "refund") /\ Move(w, t, "fail")
       \/ At(w, t, "refundNoTx") /\ Move(w, t, "nack")
    /\ redis[u] # NoKey
    /\ Fault("resend")
    /\ redis' = [redis EXCEPT ![u] = @ + 2 * Amount[t]]
    /\ restored' = [restored EXCEPT ![t] = @ + 2]
    /\ UNCHANGED <<gatewayVars, lock, mongo, tx, brokerVars, ret, queryVars,
                   published, deducted>>

(* The handler is over, one way or the other.                              *)
Done(w, t) ==
    /\ h' = [h EXCEPT ![w][t] = "none"]
    /\ ret' = [ret EXCEPT ![w][t] = 0]

Ack(w, t) ==
    /\ At(w, t, "ack")
    /\ link[w] = "up"
    /\ Done(w, t)
    /\ unacked' = [unacked EXCEPT ![w] = @ \ {t}]
    /\ acked' = acked \union {t}
    /\ UNCHANGED <<gatewayVars, lock, redis, mongo, tx, queue, timers, dlq,
                   retry, link, queryVars, published, ledgerVars, faults>>

(* Mutant: one retry more than allowed.                                    *)
HandleFailureMutant(w, t) ==
    /\ At(w, t, "nack")
    /\ link[w] = "up"
    /\ Done(w, t)
    /\ unacked' = [unacked EXCEPT ![w] = @ \ {t}]
    /\ dlq' = [dlq EXCEPT ![t] = @ + 1]
    /\ timers' = IF retry[t] <= MaxRetries
                 THEN [timers EXCEPT ![w] = @ \union {t}]
                 ELSE timers
    /\ UNCHANGED <<gatewayVars, lock, redis, mongo, tx, queue, acked, retry,
                   link, queryVars, published, ledgerVars, faults>>

(* Mutant: nack with requeue instead of the delayed retries.               *)
HandleFailureLoopMutant(w, t) ==
    /\ At(w, t, "nack")
    /\ link[w] = "up"
    /\ Done(w, t)
    /\ unacked' = [unacked EXCEPT ![w] = @ \ {t}]
    /\ queue' = queue \union {t}
    /\ UNCHANGED <<gatewayVars, lock, redis, mongo, tx, timers, acked, dlq,
                   retry, link, queryVars, published, ledgerVars, faults>>

(* Mutant: nack with requeue besides the delayed retry.                    *)
HandleFailureTwiceMutant(w, t) ==
    /\ At(w, t, "nack")
    /\ link[w] = "up"
    /\ Done(w, t)
    /\ unacked' = [unacked EXCEPT ![w] = @ \ {t}]
    /\ queue' = queue \union {t}
    /\ timers' = IF retry[t] + 1 <= MaxRetries
                 THEN [timers EXCEPT ![w] = @ \union {t}]
                 ELSE timers
    /\ UNCHANGED <<gatewayVars, lock, redis, mongo, tx, acked, dlq, retry,
                   link, queryVars, published, ledgerVars, faults>>

(* _handleFailure.  Both branches nack with requeue = false on a queue     *)
(* that has a dead letter exchange: the broker puts a copy in payout_dlq.  *)
(* While attempts are left the worker also arms a timer to republish.      *)
HandleFailure(w, t) ==
    /\ At(w, t, "nack")
    /\ link[w] = "up"
    /\ Done(w, t)
    /\ unacked' = [unacked EXCEPT ![w] = @ \ {t}]
    /\ dlq' = [dlq EXCEPT ![t] = @ + 1]
    /\ timers' = IF retry[t] + 1 <= MaxRetries
                 THEN [timers EXCEPT ![w] = @ \union {t}]
                 ELSE timers
    /\ UNCHANGED <<gatewayVars, lock, redis, mongo, tx, queue, acked, retry,
                   link, queryVars, published, ledgerVars, faults>>

(* ack and nack on a closed channel throw; the rejection reaches           *)
(* unhandledRejection, and the message is already back in the queue.       *)
AnswerOnLostChannel(w, t) ==
    /\ h[w][t] \in {"ack", "nack"}
    /\ link[w] = "lost"
    /\ Done(w, t)
    /\ UNCHANGED <<gatewayVars, lock, redis, mongo, tx, brokerVars,
                   queryVars, published, ledgerVars, faults>>

(* The timer fires: the message goes back with its count raised.           *)
Republish(w, t) ==
    /\ t \in timers[w]
    /\ link[w] = "up"
    /\ timers' = [timers EXCEPT ![w] = @ \ {t}]
    /\ queue' = queue \union {t}
    /\ retry' = [retry EXCEPT ![t] = @ + 1]
    /\ UNCHANGED <<gatewayVars, lock, redis, mongo, tx, unacked, acked, dlq,
                   link, handlerVars, queryVars, published, ledgerVars, faults>>

(* ... or sendToQueue throws, and only the dead letter copy is left.       *)
RepublishOnLostChannel(w, t) ==
    /\ t \in timers[w]
    /\ link[w] = "lost"
    /\ timers' = [timers EXCEPT ![w] = @ \ {t}]
    /\ UNCHANGED <<gatewayVars, lock, redis, mongo, tx, queue, unacked, acked,
                   dlq, retry, link, handlerVars, queryVars, published,
                   ledgerVars, faults>>

-----------------------------------------------------------------------------
(* The environment: time and faults.                                       *)

(* The lock's TTL runs out.                                                *)
ExpireLock(u) ==
    /\ LockExpires
    /\ lock[u] # Nobody
    /\ lock' = [lock EXCEPT ![u] = Nobody]
    /\ UNCHANGED <<gatewayVars, redis, mongo, tx, brokerVars, handlerVars,
                   queryVars, published, ledgerVars, faults>>

(* The worker process dies and is restarted: its handlers and timers are   *)
(* gone, the broker requeues what it had not acknowledged.                 *)
Crash(w) ==
    /\ Fault("crash")
    /\ h' = [h EXCEPT ![w] = [t \in Txns |-> "none"]]
    /\ ret' = [ret EXCEPT ![w] = [t \in Txns |-> 0]]
    /\ queue' = queue \union unacked[w]
    /\ unacked' = [unacked EXCEPT ![w] = {}]
    /\ timers' = [timers EXCEPT ![w] = {}]
    /\ link' = [link EXCEPT ![w] = "up"]
    /\ UNCHANGED <<gatewayVars, lock, redis, mongo, tx, acked, dlq, retry,
                   queryVars, published, ledgerVars>>

(* The connection of a worker drops: the broker requeues, the handlers run *)
(* on, and RabbitMQConnection reconnects with a new channel that the       *)
(* MessageConsumer never gets to see.                                      *)
DropConnection(w) ==
    /\ link[w] = "up"
    /\ Fault("drop")
    /\ queue' = queue \union unacked[w]
    /\ unacked' = [unacked EXCEPT ![w] = {}]
    /\ link' = [link EXCEPT ![w] = "lost"]
    /\ UNCHANGED <<gatewayVars, lock, redis, mongo, tx, timers, acked, dlq,
                   retry, handlerVars, queryVars, published, ledgerVars>>

DropGatewayConnection ==
    /\ gwLink = "up"
    /\ Fault("drop")
    /\ gwLink' = "lost"
    /\ UNCHANGED <<pc, snap, lock, redis, mongo, tx, brokerVars, handlerVars,
                   queryVars, published, ledgerVars>>

CrashGateway ==
    /\ Fault("gateway_crash")
    /\ pc' = [t \in Txns |->
                IF pc[t] \in {"idle", "accepted", "rejected"}
                THEN pc[t] ELSE "gone"]
    /\ gwLink' = "up"
    /\ queryPc' = [u \in Users |-> "idle"]
    /\ queryBal' = [u \in Users |-> 0]
    /\ UNCHANGED <<snap, lock, redis, mongo, tx, brokerVars, handlerVars,
                   published, ledgerVars>>

(* Redis loses its keys: balances and locks.                               *)
FlushRedis ==
    /\ Fault("flush")
    /\ lock' = [u \in Users |-> Nobody]
    /\ redis' = [u \in Users |-> NoKey]
    /\ UNCHANGED <<gatewayVars, mongo, tx, brokerVars, handlerVars, queryVars,
                   published, ledgerVars>>

(* x-message-ttl: a day in payout_queue dead-letters the message.          *)
ExpireMessage(t) ==
    /\ t \in queue
    /\ Fault("ttl")
    /\ queue' = queue \ {t}
    /\ dlq' = [dlq EXCEPT ![t] = @ + 1]
    /\ UNCHANGED <<gatewayVars, lock, redis, mongo, tx, unacked, timers, acked,
                   retry, link, handlerVars, queryVars, published, ledgerVars>>

-----------------------------------------------------------------------------
Gateway(t) ==
    \/ AcquireLock(t)
    \/ RejectUnlocked(t)
    \/ RejectLocked(t)
    \/ ReadBalance(t)
    \/ SyncBalance(t)
    \/ CheckFunds(t)
    \/ CreateTransaction(t)
    \/ Publish(t)
    \/ PublishOnLostChannel(t)
    \/ ReleaseOnFailure(t)

Query(u) == QueryMiss(u) \/ QueryLoad(u) \/ QuerySync(u)

Handler(w, t) ==
    \/ LoadTransaction(w, t)
    \/ MarkAsProcessing(w, t)
    \/ RecheckBalance(w, t)
    \/ Deduct(w, t)
    \/ DeductRefused(w, t)
    \/ MarkAsCompleted(w, t)
    \/ SyncMongo(w, t)
    \/ ReleaseLock(w, t)
    \/ Refund(w, t)
    \/ MarkAsFailed(w, t)
    \/ Ack(w, t)
    \/ HandleFailure(w, t)
    \/ AnswerOnLostChannel(w, t)

Timer(w, t) == Republish(w, t) \/ RepublishOnLostChannel(w, t)

Environment ==
    \/ \E u \in Users : ExpireLock(u)
    \/ \E t \in Txns : GatewayStoreError(t) \/ ExpireMessage(t)
    \/ \E w \in Workers, t \in Txns :
         HandlerStoreError(w, t) \/ DeductResent(w, t) \/ RefundResent(w, t)
    \/ \E w \in Workers : Crash(w) \/ DropConnection(w)
    \/ DropGatewayConnection
    \/ CrashGateway
    \/ FlushRedis

Next ==
    \/ \E t \in Txns : LoadUser(t) \/ Gateway(t)
    \/ \E u \in Users : Query(u)
    \/ \E w \in Workers, t \in Txns :
         Deliver(w, t) \/ Handler(w, t) \/ Timer(w, t)
    \/ Environment

Spec == Init /\ [][Next]_vars

(* Node's event loop resumes every pending await, a broker delivers to a   *)
(* consumer with room, a timer fires and a TTL runs out.  Nothing obliges a*)
(* client to send a request, or a fault to happen.                         *)
Fairness ==
    /\ \A t \in Txns : WF_vars(Gateway(t))
    /\ \A u \in Users : WF_vars(Query(u)) /\ WF_vars(ExpireLock(u))
    /\ \A t \in Txns : WF_vars(\E w \in Workers : Deliver(w, t))
    /\ \A w \in Workers, t \in Txns :
         WF_vars(Handler(w, t)) /\ WF_vars(Timer(w, t))

LiveSpec == Spec /\ Fairness

-----------------------------------------------------------------------------
(* Properties.                                                             *)

Balance == Nat \union {NoKey}

(* Every variable keeps to its type; the balances of the JavaScript        *)
(* numbers stay natural numbers, so no interleaving of the scripts, the    *)
(* syncs and the refunds ever leaves a user with a negative balance.       *)
TypeOK ==
    /\ pc \in [Txns -> GatewayPc]
    /\ snap \in [Txns -> Nat]
    /\ gwLink \in {"up", "lost"}
    /\ lock \in [Users -> Txns \union {Nobody}]
    /\ redis \in [Users -> Balance]
    /\ mongo \in [Users -> Nat]
    /\ tx \in [Txns -> TxStatus]
    /\ queue \in SUBSET Txns
    /\ unacked \in [Workers -> SUBSET Txns]
    /\ timers \in [Workers -> SUBSET Txns]
    /\ acked \in SUBSET Txns
    /\ dlq \in [Txns -> Nat]
    /\ retry \in [Txns -> Nat]
    /\ link \in [Workers -> {"up", "lost"}]
    /\ h \in [Workers -> [Txns -> HandlerPc]]
    /\ ret \in [Workers -> [Txns -> Nat]]
    /\ queryPc \in [Users -> {"idle", "missed", "loaded"}]
    /\ queryBal \in [Users -> Nat]
    /\ published \in SUBSET Txns
    /\ deducted \in [Txns -> Nat]
    /\ restored \in [Txns -> Nat]
    /\ faults \in 0 .. MaxFaults

InFlight(t) == t \in queue \/ \E w \in Workers : t \in unacked[w]
Waiting(t) == \E w \in Workers : t \in timers[w]

(* A published message is in one place only: in the queue, with one worker *)
(* over a channel that is up, in one worker's retry timer with an attempt  *)
(* left to it, or done with.  A handler whose channel is up always holds   *)
(* the message it works on, so two workers with channels never process one *)
(* payout, however often it was redelivered, retried or expired.           *)
BeforePublish ==
    {"idle", "loaded", "locked", "unsynced", "synced", "funded", "created"}

WithWorker(w, t) ==
    /\ t \in unacked[w] =>
         /\ link[w] = "up"
         /\ h[w][t] # "none"
         /\ t \in published
         /\ t \notin queue
         /\ t \notin acked
         /\ ~Waiting(t)
         /\ \A v \in Workers : t \in unacked[v] => v = w
    /\ t \in timers[w] =>
         /\ t \in published
         /\ t \notin acked
         /\ retry[t] < MaxRetries
         /\ \A v \in Workers : t \in timers[v] => v = w
    /\ link[w] = "up" /\ h[w][t] # "none" => t \in unacked[w]

Custody ==
    \A t \in Txns :
        /\ pc[t] \in BeforePublish => t \notin published
        /\ t \in queue => t \in published /\ t \notin acked /\ ~Waiting(t)
        /\ t \in acked => t \in published
        /\ \A w \in Workers : WithWorker(w, t)

(* No message is lost or retried beyond its allowance, whatever crashes,   *)
(* dropped connections and expiries do: a published payout that is neither *)
(* in flight nor acknowledged has left a copy in payout_dlq, which holds   *)
(* exactly one for every attempt that did not end in an ack: its retry     *)
(* count, and one more once it is out of the queue.                        *)
MessageAccounting ==
    \A t \in Txns :
        /\ t \in published =>
             dlq[t] = retry[t] + (IF InFlight(t) \/ t \in acked THEN 0 ELSE 1)
        /\ t \notin published => dlq[t] = 0 /\ retry[t] = 0
        /\ retry[t] <= MaxRetries

(* A fault costs at most one wrong booking: the times a payout's amount was*)
(* taken, less the times it was given back, never exceed one by more than  *)
(* the number of faults, and never fall below zero by more than that.      *)
(* Without faults a payout is charged at most once, even when locks expire *)
(* and several workers serve one user.                                     *)
ChargeDrift ==
    \A t \in Txns :
        /\ deducted[t] - restored[t] <= 1 + faults
        /\ restored[t] - deducted[t] <= faults

(* No write to a balance key overwrites another: what is in Redis is the   *)
(* first balance less every deduction and plus every refund ever made.     *)
(* BalanceService: "balance changes are ATOMIC".                           *)
Net(u) ==
    SumFunctionOnSet([t \in Txns |-> Amount[t] * (deducted[t] - restored[t])],
                     {t \in Txns : Owner[t] = u})

NoLostUpdate ==
    \A u \in Users : redis[u] # NoKey => redis[u] = InitBalance[u] - Net(u)

(* When only processes crash, the consumer acks a payout only once it has  *)
(* been charged and its record says completed.                             *)
AckedIsPaid == \A t \in acked : tx[t] = "completed" /\ deducted[t] > 0

(* When only processes crash, no redelivery, retry or second worker ever   *)
(* turns a completed transaction back.                                     *)
CompletedIsFinal ==
    [][\A t \in Txns : tx[t] = "completed" => tx'[t] = "completed"]_vars

(* While locks outlive the payouts they guard and nothing fails, one user's*)
(* payouts run one at a time, from the lock to the worker's release of it. *)
Running(t) ==
    \/ pc[t] \in {"unsynced", "synced", "funded", "created"}
    \/ t \in queue
    \/ \E w \in Workers : h[w][t] \notin {"none", "ack"}

OneAtATime ==
    \A t1, t2 \in Txns :
        Owner[t1] = Owner[t2] /\ Running(t1) /\ Running(t2) => t1 = t2

(* In the same circumstances and for amounts in whole units, the MongoDB   *)
(* balance is the Redis balance whenever no worker is between the          *)
(* deduction and the write of the snapshot.                                *)
SnapshotExact ==
    \A u \in Users :
        \/ redis[u] \in {NoKey, mongo[u]}
        \/ \E w \in Workers, t \in Txns :
             Owner[t] = u /\ h[w][t] \in {"complete", "snapshot"}

(* Every published payout is acknowledged or ends in the dead letter queue,*)
(* for good: neither crashes nor failing stores keep it going round.       *)
Settled(t) == t \in acked \/ (~InFlight(t) /\ ~Waiting(t))
EventuallySettled ==
    \A t \in Txns : t \in published ~> [](t \in published /\ Settled(t))

(* With nothing failing, every payout the broker was given is paid.        *)
EventuallyPaid ==
    \A t \in Txns : t \in published ~> (t \in acked /\ tx[t] = "completed")
=============================================================================
