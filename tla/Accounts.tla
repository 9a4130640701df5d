------------------------------ MODULE Accounts ------------------------------
(***************************************************************************)
(* One user's account and everybody who changes it: the profile and wallet *)
(* handlers of PayoutController, AdminService's status changes and balance *)
(* adjustments, the spending limits, and the payouts themselves, reduced   *)
(* to the steps that touch the account.  No handler touches two users.     *)
(*                                                                         *)
(* Only payouts take the lock.  All the others read the document and write *)
(* it back an await later.  PayoutPipeline has the payout's own failures;  *)
(* here it either goes through or is turned down.                          *)
(***************************************************************************)
EXTENDS Integers, FiniteSets, Functions

CONSTANTS
    Txns,           \* the payouts
    Amount,         \* [Txns -> Nat]: their amounts
    Requests,       \* the requests of the user and the administrators
    Currencies,     \* the wallet's currencies
    Adjustment,     \* the amount of a wallet operation or an adjustment
    Limits,         \* the limits that may be set
    InitBalance,    \* the balance at the start
    InitUsage,      \* what the usage counter holds at the start
    MaxFaults,      \* the store calls that may fail in one behaviour
    Scenes,         \* who takes part in a behaviour: see below
    NoKey, NoLimit  \* a key absent from Redis, a limit absent from MongoDB

Nobody == "nobody"

(* A scene bounds a behaviour: the payouts txns, and at most `most'        *)
(* requests of the given kinds.                                            *)
ASSUME AccountsAssumption ==
    /\ IsFiniteSet(Txns) /\ Nobody \notin Txns
    /\ IsFiniteSet(Requests)
    /\ Amount \in [Txns -> Nat \ {0}]
    /\ Adjustment \in Nat \ {0}
    /\ Limits \subseteq Nat \ {0}
    /\ {InitBalance, InitUsage, MaxFaults} \subseteq Nat
    /\ Scenes \subseteq [txns : SUBSET Txns, most : Nat,
                         kinds : SUBSET {"wallet", "adjust", "profile", "limit"}]
    /\ NoKey \notin Int
    /\ NoLimit \notin Int

VARIABLES
    user,       \* the PayoutUser document: does it exist, which one, status
    mongo,      \* its balance
    wallet,     \* its wallet
    redis,      \* balance:<user>, or NoKey
    limit,      \* SpendingLimit.limitAmount, of the one period there is here
    counter,    \* spending:<user>:<period>, or NoKey
    expiring,   \* has that key a TTL?
    lock,       \* who holds lock:<user>
    pay,        \* pay[t]: a payout and what it has read
    req,        \* req[r]: a request and what it has read
    spent,      \* history: completed payouts, and InitUsage
    adjusted,   \* history: the adjustments that went through
    walletSum,  \* history: the wallet operations answered with success
    scene,      \* the scene of this behaviour
    faults,     \* the number of faults so far
    disturbed,  \* history: did an adjustment overlap with another or a payout?
    mixed,      \* history: mixed[c], did two operations on c overlap?
    relaxed,    \* history: did a limit change, or the counter lose anything?
    hurried     \* history: was usage checked while a spending was unrecorded?

profileVars == <<user, mongo, wallet>>
limitVars   == <<limit, counter, expiring>>
sums        == <<spent, adjusted, walletSum>>
observed    == <<disturbed, mixed, relaxed, hurried>>
vars == <<profileVars, redis, limitVars, lock, pay, req, sums, scene, faults,
          observed>>

PayPc ==
    {"idle", "loaded", "locked", "checking", "limited", "unsynced", "synced",
     "accepted", "complete", "snapshot", "release", "record", "incr", "ttl",
     "expire", "failing", "failed", "rejected", "done"}

Statuses == {"active", "suspended", "closed"}

Payments == [pc : PayPc, bal : Nat, max : Nat, status : Statuses]

Asked ==
    [pc : {"idle", "wallet", "adjust", "adjustRedis", "adjustSync", "create",
           "clear", "done"},
     c : Currencies \cup {NoKey}, doc : Nat, credit : BOOLEAN, to : Nat,
     map : [Currencies -> Nat]]

NoPayment ==
    [pc |-> "idle", status |-> "active", bal |-> 0, max |-> 0]
NoRequest ==
    [pc |-> "idle", c |-> NoKey, doc |-> 0, credit |-> TRUE, to |-> 0,
     map |-> [c \in Currencies |-> 0]]

Init ==
    /\ user = [exists |-> TRUE, doc |-> 0, status |-> "active"]
    /\ mongo = InitBalance
    /\ wallet = [c \in Currencies |-> Adjustment]
    /\ redis \in {NoKey, InitBalance}
    /\ limit \in Limits
    /\ counter = InitUsage
    /\ expiring = TRUE
    /\ lock = Nobody
    /\ pay = [t \in Txns |-> NoPayment]
    /\ req = [r \in Requests |-> NoRequest]
    /\ spent = InitUsage
    /\ adjusted = 0
    /\ walletSum = wallet
    /\ scene \in Scenes
    /\ faults = 0
    /\ disturbed = FALSE
    /\ mixed = [c \in Currencies |-> FALSE]
    /\ relaxed = FALSE
    /\ hurried = FALSE

Fault == faults < MaxFaults /\ faults' = faults + 1

-----------------------------------------------------------------------------
(* A payout: PayoutService.initiatePayout and WorkerService.processMessage.*)

(* A payout forgets what it has read once it will not use it again.        *)
Going(p, to) ==
    IF to \in {"locked", "limited", "unsynced", "snapshot"}
    THEN [p EXCEPT !.pc = to, !.max = 0]
    ELSE [NoPayment EXCEPT !.pc = to]

Step(t, from, to) ==
    /\ pay[t].pc = from
    /\ pay' = [pay EXCEPT ![t] = Going(@, to)]

LoadUser(t) ==
    /\ pay[t].pc = "idle"
    /\ user.exists
    /\ pay' = [pay EXCEPT ![t] = [NoPayment EXCEPT
                 !.pc = "loaded", !.status = user.status, !.bal = mongo]]
    /\ UNCHANGED <<profileVars, redis, limitVars, lock, req, sums, faults>>

GiveUp(t) ==
    /\ Step(t, "loaded", "rejected")
    /\ UNCHANGED <<profileVars, redis, limitVars, lock, req, sums, faults>>

AcquireLock(t) ==
    /\ lock = Nobody
    /\ Step(t, "loaded", "locked")
    /\ lock' = t
    /\ UNCHANGED <<profileVars, redis, limitVars, req, sums, faults>>

(* The status is that of the document loaded before the wait for the lock. *)
(* Then SpendingLimit.find; with no limit there is nothing to check.       *)
FindLimits(t) ==
    /\ pay[t].pc = "locked"
    /\ pay' = [pay EXCEPT ![t] =
         IF @.status # "active" THEN Going(@, "failing")
         ELSE IF limit = NoLimit THEN Going(@, "limited")
         ELSE [@ EXCEPT !.pc = "checking", !.max = limit]]
    /\ UNCHANGED <<profileVars, redis, limitVars, lock, req, sums, faults>>

(* Mutant: the amount asked for is left out of the projection.             *)
WithinLimitMutant(t) == counter # NoKey /\ counter <= pay[t].max

WithinLimit(t) == counter # NoKey /\ counter + Amount[t] <= pay[t].max

(* Mutant: a missing counter is seeded from the completed transactions.    *)
CheckUsageMutant(t) ==
    LET usage == IF counter = NoKey THEN spent ELSE counter IN
    /\ Step(t, "checking",
            IF usage + Amount[t] <= pay[t].max THEN "limited" ELSE "failing")
    /\ counter' = usage
    /\ expiring' = (counter = NoKey \/ expiring)
    /\ UNCHANGED <<profileVars, redis, limit, lock, req, sums, faults>>

(* checkLimits.  With no counter in Redis, getCurrentUsage adds up the     *)
(* transactions and calls redis.setEx, which ioredis does not have: it     *)
(* throws, and the payout is rejected.                                     *)
CheckUsage(t) ==
    /\ Step(t, "checking", IF WithinLimit(t) THEN "limited" ELSE "failing")
    /\ UNCHANGED <<profileVars, redis, limitVars, lock, req, sums, faults>>

ReadBalance(t) ==
    /\ Step(t, "limited", IF redis = NoKey THEN "unsynced" ELSE "synced")
    /\ UNCHANGED <<profileVars, redis, limitVars, lock, req, sums, faults>>

SyncBalance(t) ==
    /\ Step(t, "unsynced", "synced")
    /\ redis' = pay[t].bal
    /\ UNCHANGED <<profileVars, limitVars, lock, req, sums, faults>>

HasFunds(t) == redis # NoKey /\ redis >= Amount[t]

(* The funds are there, and neither the fraud score nor the queue objects. *)
Accept(t) ==
    /\ HasFunds(t)
    /\ Step(t, "synced", "accepted")
    /\ UNCHANGED <<profileVars, redis, limitVars, lock, req, sums, faults>>

TurnDown(t) ==
    /\ Step(t, "synced", "failing")
    /\ UNCHANGED <<profileVars, redis, limitVars, lock, req, sums, faults>>

ReleaseOnFailure(t) ==
    /\ Step(t, "failing", "rejected")
    /\ lock' = Nobody
    /\ UNCHANGED <<profileVars, redis, limitVars, req, sums, faults>>

Deduct(t) ==
    /\ HasFunds(t)
    /\ pay[t].pc = "accepted"
    /\ redis' = redis - Amount[t]
    /\ pay' = [pay EXCEPT ![t] = [NoPayment EXCEPT
                 !.pc = "complete", !.bal = redis - Amount[t]]]
    /\ UNCHANGED <<profileVars, limitVars, lock, req, sums, faults>>

(* A refused payout is retried from the queue; this is the last refusal.   *)
DeductRefused(t) ==
    /\ ~HasFunds(t)
    /\ Step(t, "accepted", "failed")
    /\ UNCHANGED <<profileVars, redis, limitVars, lock, req, sums, faults>>

(* The worker leaves the lock of a failed payout to its TTL.               *)
ExpireLock(t) ==
    /\ lock = t
    /\ Step(t, "failed", "rejected")
    /\ lock' = Nobody
    /\ UNCHANGED <<profileVars, redis, limitVars, req, sums, faults>>

MarkAsCompleted(t) ==
    /\ Step(t, "complete", "snapshot")
    /\ spent' = spent + Amount[t]
    /\ UNCHANGED <<profileVars, redis, limitVars, lock, req, adjusted,
                   walletSum, faults>>

(* updateOne by userId: it finds whichever document has the id now.        *)
SyncMongo(t) ==
    /\ Step(t, "snapshot", "release")
    /\ mongo' = IF user.exists THEN pay[t].bal ELSE mongo
    /\ UNCHANGED <<user, wallet, redis, limitVars, lock, req, sums, faults>>

(* The lock is given back before the spending is recorded.                 *)
ReleaseLock(t) ==
    /\ Step(t, "release", "record")
    /\ lock' = Nobody
    /\ UNCHANGED <<profileVars, redis, limitVars, req, sums, faults>>

(* recordSpend, which nobody awaits: without a limit there is nothing to   *)
(* record, else INCRBYFLOAT, TTL and perhaps EXPIRE, one call each.        *)
Record(t) ==
    /\ Step(t, "record", IF limit = NoLimit THEN "done" ELSE "incr")
    /\ UNCHANGED <<profileVars, redis, limitVars, lock, req, sums, faults>>

Increment(t) ==
    /\ Step(t, "incr", "ttl")
    /\ counter' = (IF counter = NoKey THEN 0 ELSE counter) + Amount[t]
    /\ expiring' = (counter # NoKey /\ expiring)
    /\ UNCHANGED <<profileVars, redis, limit, lock, req, sums, faults>>

(* Mutant: < -1 for < 0, so that only a missing key gets a TTL.            *)
CheckTtlMutant(t) ==
    /\ Step(t, "ttl", IF counter = NoKey THEN "expire" ELSE "done")
    /\ UNCHANGED <<profileVars, redis, limitVars, lock, req, sums, faults>>

CheckTtl(t) ==
    /\ Step(t, "ttl",
            IF counter # NoKey /\ expiring THEN "done" ELSE "expire")
    /\ UNCHANGED <<profileVars, redis, limitVars, lock, req, sums, faults>>

Expire(t) ==
    /\ Step(t, "expire", "done")
    /\ expiring' = (counter # NoKey)
    /\ UNCHANGED <<profileVars, redis, limit, counter, lock, req, sums, faults>>

(* Its rejection is logged, and the worker may die under it.               *)
LoseRecord(t) ==
    /\ Fault
    /\ \E p \in {"record", "incr", "ttl", "expire"} : Step(t, p, "done")
    /\ UNCHANGED <<profileVars, redis, limitVars, lock, req, sums>>

-----------------------------------------------------------------------------
(* The wallet: creditWallet and debitWallet.                               *)

Answer(r) == req' = [req EXCEPT ![r] = [NoRequest EXCEPT !.pc = "done"]]

Signed(credit) == IF credit THEN Adjustment ELSE -Adjustment

Moved(r) == Signed(req[r].credit)

(* findByUserId, and the new amount set in the loaded document's map.      *)
WalletRead(r, c, credit) ==
    req' = [req EXCEPT ![r] =
              [NoRequest EXCEPT
                 !.pc = "wallet", !.c = c, !.doc = user.doc, !.credit = credit,
                 !.map = [wallet EXCEPT ![c] = @ + Signed(credit)]]]

(* Mutant: a debit is not compared with the balance.                       *)
WalletLoadMutant(r, c) ==
    /\ req[r].pc = "idle"
    /\ user.exists
    /\ \E credit \in BOOLEAN : WalletRead(r, c, credit)
    /\ UNCHANGED <<profileVars, redis, limitVars, lock, pay, sums, faults>>

WalletLoad(r, c) ==
    /\ req[r].pc = "idle"
    /\ user.exists
    /\ \E credit \in BOOLEAN :
         /\ credit \/ wallet[c] >= Adjustment
         /\ WalletRead(r, c, credit)
    /\ UNCHANGED <<profileVars, redis, limitVars, lock, pay, sums, faults>>

SameDocument(r) == user.exists /\ user.doc = req[r].doc

(* Mutant: a new Map is assigned to wallet, and save() writes all of it.   *)
WalletSaveMutant(r) ==
    /\ req[r].pc = "wallet"
    /\ SameDocument(r)
    /\ wallet' = req[r].map
    /\ walletSum' = [walletSum EXCEPT ![req[r].c] = @ + Moved(r)]
    /\ Answer(r)
    /\ UNCHANGED <<user, mongo, redis, limitVars, lock, pay, spent, adjusted,
                   faults>>

(* save() writes the one key of the map that was set, to the document that *)
(* was loaded.                                                             *)
WalletSave(r) ==
    LET c == req[r].c IN
    /\ req[r].pc = "wallet"
    /\ SameDocument(r)
    /\ wallet' = [wallet EXCEPT ![c] = req[r].map[c]]
    /\ walletSum' = [walletSum EXCEPT ![c] = @ + Moved(r)]
    /\ Answer(r)
    /\ UNCHANGED <<user, mongo, redis, limitVars, lock, pay, spent, adjusted,
                   faults>>

(* That document is gone: save() throws.                                   *)
WalletSaveFails(r) ==
    /\ req[r].pc = "wallet"
    /\ ~SameDocument(r)
    /\ Answer(r)
    /\ UNCHANGED <<profileVars, redis, limitVars, lock, pay, sums, faults>>

-----------------------------------------------------------------------------
(* AdminService.adjustBalance.                                             *)

AdjustLoad(r) ==
    /\ req[r].pc = "idle"
    /\ user.exists
    /\ \E credit \in BOOLEAN :
         /\ credit \/ mongo >= Adjustment
         /\ req' = [req EXCEPT ![r] =
              [NoRequest EXCEPT
                 !.pc = "adjust", !.credit = credit,
                 !.to = mongo + Signed(credit)]]
    /\ UNCHANGED <<profileVars, redis, limitVars, lock, pay, sums, faults>>

AdjustMongo(r) ==
    /\ req[r].pc = "adjust"
    /\ mongo' = IF user.exists THEN req[r].to ELSE mongo
    /\ req' = [req EXCEPT ![r].pc = "adjustRedis"]
    /\ adjusted' = adjusted + Moved(r)
    /\ UNCHANGED <<user, wallet, redis, limitVars, lock, pay, spent, walletSum,
                   faults>>

(* Can the script move the amount?  If not, it returns nil or -1 and       *)
(* BalanceService throws.                                                  *)
Movable(r) == redis # NoKey /\ redis + Moved(r) >= 0

(* Mutant: the catch block is left empty.                                  *)
AdjustRedisMutant(r) ==
    /\ req[r].pc = "adjustRedis"
    /\ \/ Movable(r) /\ redis' = redis + Moved(r) /\ UNCHANGED faults
       \/ ~Movable(r) /\ UNCHANGED <<redis, faults>>
       \/ Fault /\ UNCHANGED redis
    /\ Answer(r)
    /\ UNCHANGED <<profileVars, limitVars, lock, pay, sums>>

(* Any exception leads to the catch block: the script's refusal, or a call *)
(* that failed, with or without its effect.                                *)
AdjustRedis(r) ==
    /\ req[r].pc = "adjustRedis"
    /\ \/ /\ Movable(r)
          /\ redis' = redis + Moved(r)
          /\ \/ Answer(r) /\ UNCHANGED faults
             \/ req' = [req EXCEPT ![r].pc = "adjustSync"] /\ Fault
       \/ /\ UNCHANGED redis
          /\ \/ ~Movable(r) /\ UNCHANGED faults
             \/ Fault
          /\ req' = [req EXCEPT ![r].pc = "adjustSync"]
    /\ UNCHANGED <<profileVars, limitVars, lock, pay, sums>>

(* syncBalance: a plain SET of the value computed from the first read.     *)
AdjustSync(r) ==
    /\ req[r].pc = "adjustSync"
    /\ \/ redis' = req[r].to /\ UNCHANGED faults
       \/ UNCHANGED redis /\ Fault
    /\ Answer(r)
    /\ UNCHANGED <<profileVars, limitVars, lock, pay, sums>>

-----------------------------------------------------------------------------
(* The profile and the limits.                                             *)

UpdateUserStatus(r) ==
    /\ req[r].pc = "idle"
    /\ user.exists
    /\ \E s \in Statuses :
         user' = [user EXCEPT !.status = s]
    /\ Answer(r)
    /\ UNCHANGED <<mongo, wallet, redis, limitVars, lock, pay, sums, faults>>

(* The document goes; balance:<user> and the counters stay in Redis.       *)
DeletePayoutUser(r) ==
    /\ req[r].pc = "idle"
    /\ user.exists
    /\ user' = [user EXCEPT !.exists = FALSE]
    /\ Answer(r)
    /\ UNCHANGED <<mongo, wallet, redis, limitVars, lock, pay, sums, faults>>

CreateCheck(r) ==
    /\ req[r].pc = "idle"
    /\ ~user.exists
    /\ req' = [req EXCEPT ![r].pc = "create"]
    /\ UNCHANGED <<profileVars, redis, limitVars, lock, pay, sums, faults>>

(* create(): the unique index refuses a second document.                   *)
CreatePayoutUser(r) ==
    /\ req[r].pc = "create"
    /\ \/ /\ ~user.exists
          /\ user' = [exists |-> TRUE, doc |-> user.doc + 1,
                      status |-> "active"]
          /\ mongo' = InitBalance
          /\ wallet' = [c \in Currencies |-> 0]
          /\ walletSum' = [c \in Currencies |-> 0]
       \/ user.exists /\ UNCHANGED <<profileVars, walletSum>>
    /\ Answer(r)
    /\ UNCHANGED <<redis, limitVars, lock, pay, spent, adjusted, faults>>

SetLimit(r) ==
    /\ req[r].pc = "idle"
    /\ limit' \in Limits
    /\ Answer(r)
    /\ UNCHANGED <<profileVars, redis, counter, expiring, lock, pay, sums,
                   faults>>

(* An administrator's removal leaves the counter alone.                    *)
RemoveUserSpendingLimit(r) ==
    /\ req[r].pc = "idle"
    /\ limit # NoLimit
    /\ limit' = NoLimit
    /\ Answer(r)
    /\ UNCHANGED <<profileVars, redis, counter, expiring, lock, pay, sums,
                   faults>>

DeleteLimit(r) ==
    /\ req[r].pc = "idle"
    /\ limit # NoLimit
    /\ limit' = NoLimit
    /\ req' = [req EXCEPT ![r].pc = "clear"]
    /\ UNCHANGED <<profileVars, redis, counter, expiring, lock, pay, sums,
                   faults>>

ClearUsage(r) ==
    /\ req[r].pc = "clear"
    /\ counter' = NoKey
    /\ expiring' = FALSE
    /\ Answer(r)
    /\ UNCHANGED <<profileVars, redis, limit, lock, pay, sums, faults>>

(* The period ends.                                                        *)
ExpireCounter ==
    /\ counter # NoKey
    /\ expiring
    /\ counter' = NoKey
    /\ expiring' = FALSE
    /\ UNCHANGED <<profileVars, redis, limit, lock, pay, req, sums, faults>>
-----------------------------------------------------------------------------
(* What the histories take down of a step.                                 *)

(* Does payout t depend on the balance it has read?                        *)
Moving(t) == pay[t].pc \in
    {"loaded", "locked", "checking", "limited", "unsynced", "synced",
     "accepted", "complete", "snapshot", "release", "failing", "failed"}

Adjusting(r) == req[r].pc \in {"adjust", "adjustRedis", "adjustSync"}

Disturbance ==
    \/ ~user.exists
    \/ \E r \in Requests :
         /\ Adjusting(r)
         /\ \/ \E q \in Requests \ {r} : Adjusting(q)
            \/ \E t \in Txns : Moving(t)

Overlap(c) ==
    Cardinality({r \in Requests : req[r].pc = "wallet" /\ req[r].c = c}) > 1

Unrecorded(t) == pay[t].pc \in {"record", "incr"}

Observe ==
    /\ disturbed' = (disturbed \/ Disturbance')
    /\ mixed' = [c \in Currencies |-> mixed[c] \/ Overlap(c)']
    /\ relaxed' = \/ relaxed
                  \/ limit' # limit
                  \/ counter # NoKey /\ counter' = NoKey
                  \/ \E t \in Txns : Unrecorded(t) /\ pay'[t].pc = "done"
    /\ hurried' = \/ hurried
                  \/ \E t \in Txns :
                       /\ pay[t].pc = "checking"
                       /\ pay'[t].pc # "checking"
                       /\ \E u \in Txns : Unrecorded(u)

Payout(t) ==
    \/ LoadUser(t) \/ GiveUp(t) \/ AcquireLock(t) \/ FindLimits(t)
    \/ CheckUsage(t) \/ ReadBalance(t) \/ SyncBalance(t) \/ Accept(t)
    \/ TurnDown(t) \/ ReleaseOnFailure(t) \/ Deduct(t) \/ DeductRefused(t)
    \/ ExpireLock(t) \/ MarkAsCompleted(t) \/ SyncMongo(t) \/ ReleaseLock(t)
    \/ Record(t) \/ Increment(t) \/ CheckTtl(t) \/ Expire(t) \/ LoseRecord(t)

Wallet(r) ==
    \/ \E c \in Currencies : WalletLoad(r, c)
    \/ WalletSave(r) \/ WalletSaveFails(r)

AdjustBalance(r) ==
    AdjustLoad(r) \/ AdjustMongo(r) \/ AdjustRedis(r) \/ AdjustSync(r)

Profile(r) ==
    \/ UpdateUserStatus(r) \/ DeletePayoutUser(r)
    \/ CreateCheck(r) \/ CreatePayoutUser(r)

Limit(r) ==
    SetLimit(r) \/ RemoveUserSpendingLimit(r) \/ DeleteLimit(r) \/ ClearUsage(r)

(* The bound on requests: one more starts only if the scene has room.      *)
Room(r) ==
    req[r].pc = "idle" =>
        Cardinality({q \in Requests : req[q].pc # "idle"}) < scene.most

Next ==
    /\ \/ \E t \in scene.txns : Payout(t)
       \/ \E r \in Requests :
            /\ Room(r)
            /\ \/ "wallet" \in scene.kinds /\ Wallet(r)
               \/ "adjust" \in scene.kinds /\ AdjustBalance(r)
               \/ "profile" \in scene.kinds /\ Profile(r)
               \/ "limit" \in scene.kinds /\ Limit(r)
       \/ "limit" \in scene.kinds /\ ExpireCounter
    /\ Observe
    /\ UNCHANGED scene

Spec == Init /\ [][Next]_vars

-----------------------------------------------------------------------------
(* Properties.                                                             *)

(* The types.  No balance, wallet or counter is ever negative, whatever    *)
(* overlaps, although most of them are written without looking.            *)
TypeOK ==
    /\ user \in [exists : BOOLEAN, doc : Nat, status : Statuses]
    /\ mongo \in Nat
    /\ wallet \in [Currencies -> Nat]
    /\ redis \in Nat \cup {NoKey}
    /\ limit \in Limits \cup {NoLimit}
    /\ counter \in Nat \cup {NoKey}
    /\ {expiring, disturbed, relaxed, hurried} \subseteq BOOLEAN
    /\ lock \in Txns \cup {Nobody}
    /\ pay \in [Txns -> Payments]
    /\ req \in [Requests -> Asked]
    /\ spent \in Nat
    /\ adjusted \in Int
    /\ walletSum \in [Currencies -> Int]
    /\ scene \in Scenes
    /\ faults \in 0..MaxFaults
    /\ mixed \in [Currencies -> BOOLEAN]

(* As long as no two operations on a currency overlap, its wallet holds    *)
(* exactly what the operations answered with success add up to: neither    *)
(* operations on the other currencies, nor a profile deleted and created   *)
(* between load and save, lose or add anything (creditWallet, debitWallet).*)
WalletExact ==
    \A c \in Currencies : ~mixed[c] => wallet[c] = walletSum[c]

Quiet ==
    /\ \A t \in Txns : ~Moving(t)
    /\ \A r \in Requests : ~Adjusting(r)

(* Unless an adjustment overlapped with another or with a payout, or the   *)
(* profile was deleted, the two stores agree once all is quiet, and on the *)
(* right amount, even if one Redis call of adjustBalance failed or its     *)
(* reply was lost: that is what its catch block is for.                    *)
MoneyExact ==
    (Quiet /\ ~disturbed /\ faults <= 1)
        => /\ redis \in {NoKey, mongo}
           /\ mongo = InitBalance + adjusted - (spent - InitUsage)

(* The usage counter never claims more than was spent: no payout is counted*)
(* twice, by a seeding and by its own record (getCurrentUsage, recordSpend)*)
CounterSound == counter # NoKey => counter <= spent

(* A counter without a TTL would never be reset: there is one only while   *)
(* the recordSpend that must set it is under way, or after one was lost.   *)
CounterExpires ==
    (counter # NoKey /\ ~expiring)
        => \/ faults > 0
           \/ \E t \in Txns : pay[t].pc \in {"ttl", "expire"}

Committed == {t \in Txns : pay[t].pc \in {"accepted", "complete"}}

WithinCap ==
    limit # NoLimit =>
        spent + SumFunctionOnSet(Amount, Committed) <= limit

(* With the limit in place and every spending recorded, the payouts        *)
(* accepted and completed stay within the limit, however they interleave,  *)
(* unless one was checked between another's release of the lock and its    *)
(* recordSpend (PayoutService.initiatePayout, WorkerService.processMessage)*)
LimitHeld == ~relaxed /\ ~hurried => WithinCap

(* The same without the exception, as the comment on checkLimits has it:   *)
(* "This prevents the payout from going through if the user is over their  *)
(* cap."  The code does not keep it.                                       *)
NeverOverCap == ~relaxed => WithinCap
=============================================================================
