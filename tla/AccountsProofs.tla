--------------------------- MODULE AccountsProofs ---------------------------
(***************************************************************************)
(* What holds of a user's account for every set of payouts, requests,      *)
(* currencies and limits, every scene and any number of faults.            *)
(*                                                                         *)
(* Each property has an invariant of its own, on top of TypeOK and of the  *)
(* lock; each of them says what the payouts and requests under way have    *)
(* read, and still mean to write.                                          *)
(***************************************************************************)
EXTENDS Accounts, SumProofs

(* From AcquireLock to the release, a payout holds the lock.               *)
Inside == {"locked", "checking", "limited", "unsynced", "synced", "accepted",
           "complete", "snapshot", "release", "failing", "failed"}

LockHeld == \A t \in Txns : pay[t].pc \in Inside => lock = t

(* The usage counter, and what the payouts completed will yet add to it.   *)
Usage == IF counter = NoKey THEN 0 ELSE counter

Pending ==
    {t \in Txns : pay[t].pc \in {"snapshot", "release", "record", "incr"}}

CounterInv == Usage + SumFunctionOnSet(Amount, Pending) <= spent

(* With no limit changed and no record lost the counter misses exactly what*)
(* is pending; and a payout that passed the check still fits.              *)
Checked == {"limited", "unsynced", "synced", "accepted", "complete"}

LimitInv ==
    /\ ~relaxed =>
         /\ limit # NoLimit /\ counter # NoKey
         /\ counter + SumFunctionOnSet(Amount, Pending) = spent
         /\ \A t \in Txns : pay[t].pc = "checking" => pay[t].max = limit
    /\ ~relaxed /\ ~hurried =>
         /\ spent <= limit
         /\ \A t \in Txns :
              pay[t].pc \in Checked => spent + Amount[t] <= limit

(* What a wallet operation is about to save is the wallet as it is, moved  *)
(* by its amount, as long as it is alone on its currency.                  *)
WalletInv ==
    /\ \A r \in Requests : req[r].pc = "wallet" => req[r].c \in Currencies
                                                   /\ req[r].doc <= user.doc
    /\ \A c \in Currencies : ~mixed[c] =>
         /\ ~Overlap(c)
         /\ wallet[c] = walletSum[c]
         /\ \A r \in Requests :
              req[r].pc = "wallet" /\ req[r].c = c /\ SameDocument(r)
                => req[r].map[c] = wallet[c] + Moved(r)

(* Where the money is while a payout or an adjustment is between its       *)
(* writes.                                                                 *)
Due == InitBalance + adjusted - (spent - InitUsage)

Early == {"loaded", "locked", "checking", "limited", "unsynced"}

PayoutMoney(t) ==
    /\ pay[t].pc = "complete" =>
         redis # NoKey /\ mongo = Due
         /\ redis = mongo - Amount[t] /\ pay[t].bal = redis
    /\ pay[t].pc = "snapshot" =>
         redis # NoKey /\ mongo = Due + Amount[t]
         /\ redis = mongo - Amount[t] /\ pay[t].bal = redis
    /\ pay[t].pc = "unsynced" => redis = NoKey
    /\ redis = NoKey /\ pay[t].pc \in Early => pay[t].bal = mongo

AdjustMoney(r) ==
    /\ req[r].pc = "adjust" => req[r].to = mongo + Moved(r)
    /\ req[r].pc = "adjustRedis" =>
         req[r].to = mongo /\ redis \in {NoKey, mongo - Moved(r)}
    /\ req[r].pc = "adjustSync" =>
         req[r].to = mongo /\ (redis = NoKey \/ faults = 1)

Written ==
    /\ \A t \in Txns : pay[t].pc \notin {"complete", "snapshot"}
    /\ \A r \in Requests : req[r].pc \notin {"adjustRedis", "adjustSync"}

MoneyInv ==
    ~disturbed /\ faults <= 1 =>
        /\ ~Disturbance
        /\ \A t \in Txns : PayoutMoney(t)
        /\ \A r \in Requests : AdjustMoney(r)
        /\ (\A t \in Txns : pay[t].pc # "snapshot") => mongo = Due
        /\ Written => redis \in {NoKey, mongo}

-----------------------------------------------------------------------------
(* Types.                                                                  *)

LEMMA NoPaymentType == NoPayment \in Payments
BY DEF NoPayment, Payments, PayPc, Statuses

LEMMA NoRequestType == NoRequest \in Asked
BY DEF NoRequest, Asked

LEMMA AmountNat == \A t \in Txns : Amount[t] \in Nat /\ Amount[t] > 0
<1>1. Amount \in [Txns -> Nat \ {0}]
  BY AccountsAssumption
<1>2. QED
  BY <1>1

LEMMA ScenePayouts ==
    ASSUME TypeOK
    PROVE  scene.txns \subseteq Txns
BY AccountsAssumption DEF TypeOK

(* What a step of a payout does to pay.                                    *)
LEMMA StepMoves ==
    ASSUME TypeOK, NEW t \in Txns, NEW from, NEW to \in PayPc,
           Step(t, from, to)
    PROVE  /\ pay[t].pc = from /\ pay'[t].pc = to
           /\ pay' \in [Txns -> Payments]
           /\ \A u \in Txns \ {t} : pay'[u] = pay[u]
           /\ to \in {"locked", "limited", "unsynced", "snapshot"} =>
                pay'[t].bal = pay[t].bal
<1>1. pay' = [pay EXCEPT ![t] = Going(@, to)]
  BY DEF Step
<1>2. pay \in [Txns -> Payments]
  BY DEF TypeOK
<1>3. Going(pay[t], to) \in Payments
  BY <1>2, NoPaymentType DEF Going, Payments
<1>4. Going(pay[t], to).pc = to
  BY <1>2, NoPaymentType DEF Going, Payments
<1>5. to \in {"locked", "limited", "unsynced", "snapshot"} =>
        Going(pay[t], to).bal = pay[t].bal
  BY <1>2 DEF Going, Payments
<1>6. QED
  BY <1>1, <1>2, <1>3, <1>4, <1>5 DEF Step

(* What the answer to a request does to req.                               *)
LEMMA AnswerDone ==
    ASSUME TypeOK, NEW r \in Requests, Answer(r)
    PROVE  /\ req' \in [Requests -> Asked]
           /\ req'[r] = [NoRequest EXCEPT !.pc = "done"]
           /\ req'[r].pc = "done"
           /\ \A q \in Requests \ {r} : req'[q] = req[q]
<1>1. [NoRequest EXCEPT !.pc = "done"] \in Asked
  BY DEF NoRequest, Asked
<1>2. [NoRequest EXCEPT !.pc = "done"].pc = "done"
  BY DEF NoRequest
<1>3. QED
  BY <1>1, <1>2 DEF TypeOK, Answer

(* A request that goes on keeps what it has read.                          *)
LEMMA RequestGoes ==
    ASSUME TypeOK, NEW r \in Requests,
           NEW p \in {"adjustRedis", "adjustSync", "create", "clear"},
           req' = [req EXCEPT ![r].pc = p]
    PROVE  /\ req' \in [Requests -> Asked]
           /\ req'[r].pc = p /\ req'[r].to = req[r].to
           /\ req'[r].credit = req[r].credit
           /\ \A q \in Requests \ {r} : req'[q] = req[q]
<1>1. req \in [Requests -> Asked]
  BY DEF TypeOK
<1>2. [req[r] EXCEPT !.pc = p] \in Asked
  BY <1>1 DEF Asked
<1>3. /\ req' = [req EXCEPT ![r] = [req[r] EXCEPT !.pc = p]]
      /\ req'[r] = [req[r] EXCEPT !.pc = p]
  BY <1>1
<1>4. QED
  BY <1>1, <1>2, <1>3 DEF Asked

LEMMA TypeInit == Init => TypeOK
<1> SUFFICES ASSUME Init
             PROVE  TypeOK
  OBVIOUS
<1>1. /\ user \in [exists : BOOLEAN, doc : Nat, status : Statuses]
      /\ wallet \in [Currencies -> Nat]
      /\ walletSum \in [Currencies -> Int]
      /\ mixed \in [Currencies -> BOOLEAN]
  BY AccountsAssumption DEF Init, Statuses
<1>2. /\ pay \in [Txns -> Payments]
      /\ req \in [Requests -> Asked]
  BY NoPaymentType, NoRequestType DEF Init
<1>3. /\ {mongo, spent} \subseteq Nat /\ adjusted \in Int
      /\ redis \in Nat \cup {NoKey} /\ counter \in Nat \cup {NoKey}
      /\ limit \in Limits \cup {NoLimit} /\ lock \in Txns \cup {Nobody}
      /\ scene \in Scenes /\ faults \in 0..MaxFaults
  BY AccountsAssumption DEF Init
<1>4. {expiring, disturbed, relaxed, hurried} \subseteq BOOLEAN
  BY DEF Init
<1>5. QED
  BY <1>1, <1>2, <1>3, <1>4 DEF TypeOK

(* The histories of one step.                                              *)
LEMMA ObserveType ==
    ASSUME TypeOK, Observe
    PROVE  /\ {disturbed', relaxed', hurried'} \subseteq BOOLEAN
           /\ mixed' \in [Currencies -> BOOLEAN]
<1>1. {disturbed, relaxed, hurried} \subseteq BOOLEAN
  BY DEF TypeOK
<1>2. disturbed' \in BOOLEAN
  BY DEF Observe
<1>3. relaxed' \in BOOLEAN
  BY DEF Observe
<1>4. hurried' \in BOOLEAN
  BY DEF Observe
<1>5. mixed' \in [Currencies -> BOOLEAN]
  BY DEF Observe
<1>6. QED
  BY <1>2, <1>3, <1>4, <1>5

-----------------------------------------------------------------------------
(* Each handler's steps keep the types; the histories are ObserveType's.   *)

LEMMA PayoutType ==
    ASSUME TypeOK, Observe, scene' = scene, NEW t \in Txns, Payout(t)
    PROVE  TypeOK'
<1> USE DEF profileVars, limitVars, sums
<1>0. /\ {disturbed', relaxed', hurried'} \subseteq BOOLEAN
      /\ mixed' \in [Currencies -> BOOLEAN]
      /\ scene' \in Scenes
  BY ObserveType DEF TypeOK
<1>1. CASE LoadUser(t)
  BY <1>0, NoPaymentType, <1>1
  DEF TypeOK, LoadUser, Payments, PayPc
<1>2. CASE GiveUp(t)
  BY <1>0, StepMoves, <1>2
  DEF TypeOK, GiveUp, PayPc
<1>3. CASE AcquireLock(t)
  BY <1>0, StepMoves, <1>3
  DEF TypeOK, AcquireLock, PayPc
<1>4. CASE FindLimits(t)
  <2>1. pay[t] \in Payments /\ limit \in Nat \cup {NoLimit}
    BY AccountsAssumption DEF TypeOK
  <2>2. pay'[t] \in Payments /\ pay' = [pay EXCEPT ![t] = pay'[t]]
    BY <1>4, <2>1, NoPaymentType
    DEF FindLimits, Payments, PayPc, Going, TypeOK
  <2>3. QED
    BY <1>0, <1>4, <2>2 DEF TypeOK, FindLimits
<1>5. CASE CheckUsage(t)
  BY <1>0, StepMoves, <1>5
  DEF TypeOK, CheckUsage, PayPc
<1>6. CASE ReadBalance(t)
  BY <1>0, StepMoves, <1>6
  DEF TypeOK, ReadBalance, PayPc
<1>7. CASE SyncBalance(t)
  BY <1>0, StepMoves, <1>7
  DEF TypeOK, SyncBalance, PayPc, Payments
<1>8. CASE Accept(t)
  BY <1>0, StepMoves, <1>8
  DEF TypeOK, Accept, PayPc
<1>9. CASE TurnDown(t)
  BY <1>0, StepMoves, <1>9
  DEF TypeOK, TurnDown, PayPc
<1>10. CASE ReleaseOnFailure(t)
  BY <1>0, StepMoves, <1>10
  DEF TypeOK, ReleaseOnFailure, PayPc
<1>11. CASE Deduct(t)
  <2>1. Amount[t] \in Nat /\ redis - Amount[t] \in Nat
    BY <1>11, AmountNat DEF TypeOK, Deduct, HasFunds
  <2>2. pay' \in [Txns -> Payments] /\ redis' \in Nat
    BY <1>11, <2>1, NoPaymentType DEF TypeOK, Deduct, Payments, PayPc
  <2>3. QED
    BY <1>0, <1>11, <2>2 DEF TypeOK, Deduct
<1>12. CASE DeductRefused(t)
  BY <1>0, StepMoves, <1>12
  DEF TypeOK, DeductRefused, PayPc
<1>13. CASE ExpireLock(t)
  BY <1>0, StepMoves, <1>13
  DEF TypeOK, ExpireLock, PayPc
<1>14. CASE MarkAsCompleted(t)
  BY <1>0, StepMoves, AccountsAssumption, <1>14
  DEF TypeOK, MarkAsCompleted, PayPc
<1>15. CASE SyncMongo(t)
  BY <1>0, StepMoves, <1>15
  DEF TypeOK, SyncMongo, PayPc, Payments
<1>16. CASE ReleaseLock(t)
  BY <1>0, StepMoves, <1>16
  DEF TypeOK, ReleaseLock, PayPc
<1>17. CASE Record(t)
  BY <1>0, StepMoves, <1>17
  DEF TypeOK, Record, PayPc
<1>18. CASE Increment(t)
  BY <1>0, StepMoves, AccountsAssumption, <1>18
  DEF TypeOK, Increment, PayPc
<1>19. CASE CheckTtl(t)
  BY <1>0, StepMoves, <1>19
  DEF TypeOK, CheckTtl, PayPc
<1>20. CASE Expire(t)
  BY <1>0, StepMoves, <1>20
  DEF TypeOK, Expire, PayPc
<1>21. CASE LoseRecord(t)
  BY <1>0, StepMoves, AccountsAssumption, <1>21
  DEF TypeOK, LoseRecord, PayPc, Fault
<1>22. QED
  BY <1>1, <1>2, <1>3, <1>4, <1>5, <1>6, <1>7, <1>8, <1>9, <1>10, <1>11,
     <1>12, <1>13, <1>14, <1>15, <1>16, <1>17, <1>18, <1>19, <1>20, <1>21
  DEF Payout

LEMMA WalletType ==
    ASSUME TypeOK, Observe, scene' = scene, NEW r \in Requests, Wallet(r)
    PROVE  TypeOK'
<1> USE DEF profileVars, limitVars, sums
<1>0. /\ {disturbed', relaxed', hurried'} \subseteq BOOLEAN
      /\ mixed' \in [Currencies -> BOOLEAN]
      /\ scene' \in Scenes
  BY ObserveType DEF TypeOK
<1>1. ASSUME NEW c \in Currencies, WalletLoad(r, c)
      PROVE  TypeOK'
  <2>1. PICK credit \in BOOLEAN :
          (credit \/ wallet[c] >= Adjustment) /\ WalletRead(r, c, credit)
    BY <1>1 DEF WalletLoad
  <2>2. wallet[c] \in Nat /\ wallet[c] + Signed(credit) \in Nat
    BY <2>1, AccountsAssumption DEF TypeOK, Signed
  <2>3. [wallet EXCEPT ![c] = @ + Signed(credit)] \in [Currencies -> Nat]
    BY <2>2 DEF TypeOK
  <2>4. req' \in [Requests -> Asked]
    BY <2>1, <2>3, NoRequestType DEF WalletRead, TypeOK, Asked
  <2>5. QED
    BY <1>0, <1>1, <2>4 DEF TypeOK, WalletLoad
<1>2. CASE WalletSave(r)
  <2>1. req[r].c \in Currencies =>
          /\ wallet' \in [Currencies -> Nat]
          /\ walletSum' \in [Currencies -> Int]
    BY <1>2, AccountsAssumption DEF TypeOK, WalletSave, Asked, Moved, Signed
  <2>2. req[r].c \notin Currencies =>
          wallet' = wallet /\ walletSum' = walletSum
    BY <1>2 DEF TypeOK, WalletSave
  <2>3. QED
    BY <1>0, <1>2, <2>1, <2>2, AnswerDone DEF TypeOK, WalletSave
<1>3. CASE WalletSaveFails(r)
  BY <1>0, <1>3, AnswerDone DEF TypeOK, WalletSaveFails
<1>4. QED
  BY <1>1, <1>2, <1>3 DEF Wallet

LEMMA AdjustType ==
    ASSUME TypeOK, Observe, scene' = scene, NEW r \in Requests,
           AdjustBalance(r)
    PROVE  TypeOK'
<1> USE DEF profileVars, limitVars, sums
<1>0. /\ {disturbed', relaxed', hurried'} \subseteq BOOLEAN
      /\ mixed' \in [Currencies -> BOOLEAN]
      /\ scene' \in Scenes
  BY ObserveType DEF TypeOK
<1>1. Moved(r) \in Int
  BY AccountsAssumption DEF Moved, Signed
<1>2. CASE AdjustLoad(r)
  <2>1. PICK credit \in BOOLEAN :
          /\ credit \/ mongo >= Adjustment
          /\ req' = [req EXCEPT ![r] =
               [NoRequest EXCEPT
                  !.pc = "adjust", !.credit = credit,
                  !.to = mongo + Signed(credit)]]
    BY <1>2 DEF AdjustLoad
  <2>2. mongo + Signed(credit) \in Nat
    BY <2>1, AccountsAssumption DEF TypeOK, Signed
  <2>3. req' \in [Requests -> Asked]
    BY <2>1, <2>2, NoRequestType DEF TypeOK, Asked
  <2>4. QED
    BY <1>0, <1>2, <2>3 DEF TypeOK, AdjustLoad
<1>3. CASE AdjustMongo(r)
  <2>1. req' \in [Requests -> Asked] /\ req[r].to \in Nat
    BY <1>3, RequestGoes DEF TypeOK, AdjustMongo, Asked
  <2>2. QED
    BY <1>0, <1>1, <1>3, <2>1 DEF TypeOK, AdjustMongo
<1>4. CASE AdjustRedis(r)
  <2>1. Answer(r) \/ req' = [req EXCEPT ![r].pc = "adjustSync"]
    BY <1>4 DEF AdjustRedis
  <2>2. req' \in [Requests -> Asked]
    BY <2>1, AnswerDone, RequestGoes
  <2>3. redis' \in Nat \cup {NoKey}
    BY <1>1, <1>4 DEF TypeOK, AdjustRedis, Movable
  <2>4. faults' \in 0..MaxFaults
    BY <1>4, AccountsAssumption DEF TypeOK, AdjustRedis, Fault
  <2>5. QED
    BY <1>0, <1>4, <2>2, <2>3, <2>4 DEF TypeOK, AdjustRedis
<1>5. CASE AdjustSync(r)
  <2>1. redis' \in Nat \cup {NoKey}
    BY <1>5 DEF TypeOK, AdjustSync, Asked
  <2>2. faults' \in 0..MaxFaults
    BY <1>5, AccountsAssumption DEF TypeOK, AdjustSync, Fault
  <2>3. QED
    BY <1>0, <1>5, <2>1, <2>2, AnswerDone DEF TypeOK, AdjustSync
<1>6. QED
  BY <1>2, <1>3, <1>4, <1>5 DEF AdjustBalance

LEMMA ProfileType ==
    ASSUME TypeOK, Observe, scene' = scene, NEW r \in Requests, Profile(r)
    PROVE  TypeOK'
<1> USE DEF profileVars, limitVars, sums
<1>0. /\ {disturbed', relaxed', hurried'} \subseteq BOOLEAN
      /\ mixed' \in [Currencies -> BOOLEAN]
      /\ scene' \in Scenes
  BY ObserveType DEF TypeOK
<1>1. CASE UpdateUserStatus(r)
  BY <1>0, <1>1, AnswerDone DEF TypeOK, UpdateUserStatus
<1>2. CASE DeletePayoutUser(r)
  BY <1>0, <1>2, AnswerDone DEF TypeOK, DeletePayoutUser
<1>3. CASE CreateCheck(r)
  <2>1. req' \in [Requests -> Asked]
    BY <1>3, RequestGoes DEF CreateCheck
  <2>2. QED
    BY <1>0, <1>3, <2>1 DEF TypeOK, CreateCheck
<1>4. CASE CreatePayoutUser(r)
  <2>1. /\ user' \in [exists : BOOLEAN, doc : Nat, status : Statuses]
        /\ mongo' \in Nat
        /\ wallet' \in [Currencies -> Nat]
        /\ walletSum' \in [Currencies -> Int]
    <3>1. CASE user.exists
      BY <1>4, <3>1 DEF TypeOK, CreatePayoutUser
    <3>2. CASE ~user.exists
      <4>1. user' = [exists |-> TRUE, doc |-> user.doc + 1,
                     status |-> "active"]
        BY <1>4, <3>2 DEF CreatePayoutUser
      <4>2. user' \in [exists : BOOLEAN, doc : Nat, status : Statuses]
        BY <4>1 DEF TypeOK, Statuses
      <4>3. QED
        BY <1>4, <3>2, <4>2, AccountsAssumption DEF CreatePayoutUser
    <3>3. QED
      BY <3>1, <3>2
  <2>2. QED
    BY <1>0, <1>4, <2>1, AnswerDone DEF TypeOK, CreatePayoutUser
<1>5. QED
  BY <1>1, <1>2, <1>3, <1>4 DEF Profile

LEMMA LimitType ==
    ASSUME TypeOK, Observe, scene' = scene, NEW r \in Requests, Limit(r)
    PROVE  TypeOK'
<1> USE DEF profileVars, limitVars, sums
<1>0. /\ {disturbed', relaxed', hurried'} \subseteq BOOLEAN
      /\ mixed' \in [Currencies -> BOOLEAN]
      /\ scene' \in Scenes
  BY ObserveType DEF TypeOK
<1>1. CASE SetLimit(r)
  BY <1>0, <1>1, AnswerDone DEF TypeOK, SetLimit
<1>2. CASE RemoveUserSpendingLimit(r)
  BY <1>0, <1>2, AnswerDone DEF TypeOK, RemoveUserSpendingLimit
<1>3. CASE DeleteLimit(r)
  <2>1. req' \in [Requests -> Asked]
    BY <1>3, RequestGoes DEF DeleteLimit
  <2>2. QED
    BY <1>0, <1>3, <2>1 DEF TypeOK, DeleteLimit
<1>4. CASE ClearUsage(r)
  BY <1>0, <1>4, AnswerDone DEF TypeOK, ClearUsage
<1>5. QED
  BY <1>1, <1>2, <1>3, <1>4 DEF Limit

LEMMA TypeStep == TypeOK /\ [Next]_vars => TypeOK'
<1>1. ASSUME TypeOK, Next
      PROVE  TypeOK'
  <2>1. ASSUME ExpireCounter, Observe, scene' = scene
        PROVE  TypeOK'
    BY <1>1, <2>1, ObserveType
    DEF ExpireCounter, TypeOK, profileVars, sums
  <2>2. Observe /\ scene' = scene
    BY <1>1 DEF Next
  <2>3. QED
    BY <1>1, <2>1, <2>2, ScenePayouts, PayoutType, WalletType, AdjustType,
       ProfileType, LimitType DEF Next
<1>2. ASSUME TypeOK, UNCHANGED vars
      PROVE  TypeOK'
  BY <1>2 DEF TypeOK, vars, profileVars, limitVars, sums, observed
<1>3. QED
  BY <1>1, <1>2

(* Types: no balance, wallet or counter is ever negative, whatever         *)
(* overlaps.                                                               *)
THEOREM NeverNegative == Spec => []TypeOK
<1>1. QED
  BY TypeInit, TypeStep, PTL DEF Spec

-----------------------------------------------------------------------------
(* What the steps leave alone.                                             *)

LEMMA PayoutFrame ==
    ASSUME TypeOK, NEW t \in Txns, Payout(t)
    PROVE  /\ \A u \in Txns \ {t} : pay'[u] = pay[u]
           /\ UNCHANGED <<user, wallet, req, walletSum, adjusted, limit>>
<1> USE DEF profileVars, limitVars, sums
<1>1. CASE LoadUser(t)
  BY <1>1 DEF TypeOK, LoadUser
<1>2. CASE GiveUp(t)
  BY StepMoves, <1>2 DEF TypeOK, GiveUp, PayPc
<1>3. CASE AcquireLock(t)
  BY StepMoves, <1>3 DEF TypeOK, AcquireLock, PayPc
<1>4. CASE FindLimits(t)
  BY <1>4 DEF TypeOK, FindLimits
<1>5. CASE CheckUsage(t)
  BY StepMoves, <1>5 DEF TypeOK, CheckUsage, PayPc
<1>6. CASE ReadBalance(t)
  BY StepMoves, <1>6 DEF TypeOK, ReadBalance, PayPc
<1>7. CASE SyncBalance(t)
  BY StepMoves, <1>7 DEF TypeOK, SyncBalance, PayPc
<1>8. CASE Accept(t)
  BY StepMoves, <1>8 DEF TypeOK, Accept, PayPc
<1>9. CASE TurnDown(t)
  BY StepMoves, <1>9 DEF TypeOK, TurnDown, PayPc
<1>10. CASE ReleaseOnFailure(t)
  BY StepMoves, <1>10 DEF TypeOK, ReleaseOnFailure, PayPc
<1>11. CASE Deduct(t)
  BY <1>11 DEF TypeOK, Deduct
<1>12. CASE DeductRefused(t)
  BY StepMoves, <1>12 DEF TypeOK, DeductRefused, PayPc
<1>13. CASE ExpireLock(t)
  BY StepMoves, <1>13 DEF TypeOK, ExpireLock, PayPc
<1>14. CASE MarkAsCompleted(t)
  BY StepMoves, <1>14 DEF TypeOK, MarkAsCompleted, PayPc
<1>15. CASE SyncMongo(t)
  BY StepMoves, <1>15 DEF TypeOK, SyncMongo, PayPc
<1>16. CASE ReleaseLock(t)
  BY StepMoves, <1>16 DEF TypeOK, ReleaseLock, PayPc
<1>17. CASE Record(t)
  BY StepMoves, <1>17 DEF TypeOK, Record, PayPc
<1>18. CASE Increment(t)
  BY StepMoves, <1>18 DEF TypeOK, Increment, PayPc
<1>19. CASE CheckTtl(t)
  BY StepMoves, <1>19 DEF TypeOK, CheckTtl, PayPc
<1>20. CASE Expire(t)
  BY StepMoves, <1>20 DEF TypeOK, Expire, PayPc
<1>21. CASE LoseRecord(t)
  BY StepMoves, <1>21 DEF TypeOK, LoseRecord, PayPc
<1>22. QED
  BY <1>1, <1>2, <1>3, <1>4, <1>5, <1>6, <1>7, <1>8, <1>9, <1>10, <1>11,
     <1>12, <1>13, <1>14, <1>15, <1>16, <1>17, <1>18, <1>19, <1>20, <1>21
  DEF Payout

LEMMA RequestFrame ==
    ASSUME NEW r \in Requests,
           Wallet(r) \/ AdjustBalance(r) \/ Profile(r) \/ Limit(r)
    PROVE  UNCHANGED <<pay, lock, spent>>
<1> USE DEF profileVars, limitVars, sums
<1>1. CASE Wallet(r)
  BY <1>1 DEF Wallet, WalletLoad, WalletSave, WalletSaveFails
<1>2. CASE AdjustBalance(r)
  BY <1>2 DEF AdjustBalance, AdjustLoad, AdjustMongo, AdjustRedis, AdjustSync
<1>3. CASE Profile(r)
  BY <1>3 DEF Profile, UpdateUserStatus, DeletePayoutUser, CreateCheck,
              CreatePayoutUser
<1>4. CASE Limit(r)
  BY <1>4 DEF Limit, SetLimit, RemoveUserSpendingLimit, DeleteLimit, ClearUsage
<1>5. QED
  BY <1>1, <1>2, <1>3, <1>4

-----------------------------------------------------------------------------
(* The lock.                                                               *)

(* A payout comes inside by taking a free lock, and leaves by giving it    *)
(* back.                                                                   *)
LEMMA PayoutLock ==
    ASSUME TypeOK, NEW t \in Txns, Payout(t)
    PROVE  /\ pay[t].pc \in Inside /\ pay'[t].pc \in Inside => lock' = lock
           /\ pay[t].pc \in Inside /\ pay'[t].pc \notin Inside
                => lock' = Nobody
           /\ pay[t].pc \notin Inside /\ pay'[t].pc \in Inside
                => lock = Nobody /\ lock' = t
           /\ pay[t].pc \notin Inside /\ pay'[t].pc \notin Inside
                => lock' = lock
<1>1. CASE LoadUser(t)
  BY <1>1 DEF Inside, LoadUser, TypeOK, Payments, NoPayment
<1>2. CASE GiveUp(t)
  BY StepMoves, <1>2 DEF Inside, GiveUp, PayPc
<1>3. CASE AcquireLock(t)
  BY StepMoves, <1>3 DEF Inside, AcquireLock, PayPc
<1>4. CASE FindLimits(t)
  BY <1>4 DEF Inside, FindLimits, TypeOK, Payments, Going, NoPayment
<1>5. CASE CheckUsage(t)
  BY StepMoves, <1>5 DEF Inside, CheckUsage, PayPc
<1>6. CASE ReadBalance(t)
  BY StepMoves, <1>6 DEF Inside, ReadBalance, PayPc
<1>7. CASE SyncBalance(t)
  BY StepMoves, <1>7 DEF Inside, SyncBalance, PayPc
<1>8. CASE Accept(t)
  BY StepMoves, <1>8 DEF Inside, Accept, PayPc
<1>9. CASE TurnDown(t)
  BY StepMoves, <1>9 DEF Inside, TurnDown, PayPc
<1>10. CASE ReleaseOnFailure(t)
  BY StepMoves, <1>10 DEF Inside, ReleaseOnFailure, PayPc
<1>11. CASE Deduct(t)
  BY <1>11 DEF Inside, Deduct, TypeOK, Payments, NoPayment
<1>12. CASE DeductRefused(t)
  BY StepMoves, <1>12 DEF Inside, DeductRefused, PayPc
<1>13. CASE ExpireLock(t)
  BY StepMoves, <1>13 DEF Inside, ExpireLock, PayPc
<1>14. CASE MarkAsCompleted(t)
  BY StepMoves, <1>14 DEF Inside, MarkAsCompleted, PayPc
<1>15. CASE SyncMongo(t)
  BY StepMoves, <1>15 DEF Inside, SyncMongo, PayPc
<1>16. CASE ReleaseLock(t)
  BY StepMoves, <1>16 DEF Inside, ReleaseLock, PayPc
<1>17. CASE Record(t)
  BY StepMoves, <1>17 DEF Inside, Record, PayPc
<1>18. CASE Increment(t)
  BY StepMoves, <1>18 DEF Inside, Increment, PayPc
<1>19. CASE CheckTtl(t)
  BY StepMoves, <1>19 DEF Inside, CheckTtl, PayPc
<1>20. CASE Expire(t)
  BY StepMoves, <1>20 DEF Inside, Expire, PayPc
<1>21. CASE LoseRecord(t)
  BY StepMoves, <1>21 DEF Inside, LoseRecord, PayPc
<1>22. QED
  BY <1>1, <1>2, <1>3, <1>4, <1>5, <1>6, <1>7, <1>8, <1>9, <1>10, <1>11,
     <1>12, <1>13, <1>14, <1>15, <1>16, <1>17, <1>18, <1>19, <1>20, <1>21
  DEF Payout

LEMMA LockInit == Init => LockHeld
BY DEF Init, LockHeld, Inside, NoPayment

LEMMA LockStep == TypeOK /\ LockHeld /\ [Next]_vars => LockHeld'
<1> SUFFICES ASSUME TypeOK, LockHeld, [Next]_vars
             PROVE  LockHeld'
  OBVIOUS
<1>1. ASSUME NEW t \in Txns, Payout(t)
      PROVE  LockHeld'
  <2>1. \A u \in Txns \ {t} : pay'[u] = pay[u]
    BY <1>1, PayoutFrame
  <2>2. \A u \in Txns : u # Nobody
    BY AccountsAssumption
  <2>3. QED
    BY <1>1, <2>1, <2>2, PayoutLock DEF LockHeld
<1>2. ASSUME UNCHANGED <<pay, lock>>
      PROVE  LockHeld'
  BY <1>2 DEF LockHeld
<1>3. CASE ExpireCounter
  BY <1>2, <1>3 DEF ExpireCounter
<1>4. CASE UNCHANGED vars
  BY <1>2, <1>4 DEF vars
<1>5. QED
  BY <1>1, <1>2, <1>3, <1>4, ScenePayouts, RequestFrame DEF Next

-----------------------------------------------------------------------------
(* The usage counter.                                                      *)

PendingPc == {"snapshot", "release", "record", "incr"}

Counting(t) ==
    \/ MarkAsCompleted(t) \/ Record(t) \/ Increment(t) \/ CheckTtl(t)
    \/ Expire(t) \/ LoseRecord(t)

LEMMA NotCounting ==
    ASSUME TypeOK, NEW t \in Txns, Payout(t), ~Counting(t)
    PROVE  /\ UNCHANGED <<counter, expiring, faults, spent>>
           /\ pay[t].pc \in PendingPc <=> pay'[t].pc \in PendingPc
           /\ pay[t].pc \notin {"ttl", "expire"}
<1> USE DEF limitVars, sums
<1>1. CASE LoadUser(t)
  BY <1>1 DEF PendingPc, LoadUser, TypeOK, Payments, NoPayment
<1>2. CASE GiveUp(t)
  BY StepMoves, <1>2 DEF PendingPc, GiveUp, PayPc
<1>3. CASE AcquireLock(t)
  BY StepMoves, <1>3 DEF PendingPc, AcquireLock, PayPc
<1>4. CASE FindLimits(t)
  BY <1>4 DEF PendingPc, FindLimits, TypeOK, Payments, Going, NoPayment
<1>5. CASE CheckUsage(t)
  BY StepMoves, <1>5 DEF PendingPc, CheckUsage, PayPc
<1>6. CASE ReadBalance(t)
  BY StepMoves, <1>6 DEF PendingPc, ReadBalance, PayPc
<1>7. CASE SyncBalance(t)
  BY StepMoves, <1>7 DEF PendingPc, SyncBalance, PayPc
<1>8. CASE Accept(t)
  BY StepMoves, <1>8 DEF PendingPc, Accept, PayPc
<1>9. CASE TurnDown(t)
  BY StepMoves, <1>9 DEF PendingPc, TurnDown, PayPc
<1>10. CASE ReleaseOnFailure(t)
  BY StepMoves, <1>10 DEF PendingPc, ReleaseOnFailure, PayPc
<1>11. CASE Deduct(t)
  BY <1>11 DEF PendingPc, Deduct, TypeOK, Payments, NoPayment
<1>12. CASE DeductRefused(t)
  BY StepMoves, <1>12 DEF PendingPc, DeductRefused, PayPc
<1>13. CASE ExpireLock(t)
  BY StepMoves, <1>13 DEF PendingPc, ExpireLock, PayPc
<1>14. CASE SyncMongo(t)
  BY StepMoves, <1>14 DEF PendingPc, SyncMongo, PayPc
<1>15. CASE ReleaseLock(t)
  BY StepMoves, <1>15 DEF PendingPc, ReleaseLock, PayPc
<1>16. QED
  BY <1>1, <1>2, <1>3, <1>4, <1>5, <1>6, <1>7, <1>8, <1>9, <1>10, <1>11,
     <1>12, <1>13, <1>14, <1>15
  DEF Payout, Counting

(* Requests keep the histories of payouts; only ClearUsage and the end of  *)
(* the period touch the counter.                                           *)
LEMMA CounterFrame ==
    ASSUME NEW r \in Requests,
           Wallet(r) \/ AdjustBalance(r) \/ Profile(r) \/ Limit(r)
    PROVE  /\ UNCHANGED <<counter, expiring>> \/ counter' = NoKey
           /\ faults' = faults \/ Fault
<1> USE DEF limitVars
<1>1. CASE Wallet(r)
  BY <1>1 DEF Wallet, WalletLoad, WalletSave, WalletSaveFails
<1>2. CASE AdjustBalance(r)
  BY <1>2 DEF AdjustBalance, AdjustLoad, AdjustMongo, AdjustRedis, AdjustSync
<1>3. CASE Profile(r)
  BY <1>3 DEF Profile, UpdateUserStatus, DeletePayoutUser, CreateCheck,
              CreatePayoutUser
<1>4. CASE Limit(r)
  BY <1>4 DEF Limit, SetLimit, RemoveUserSpendingLimit, DeleteLimit, ClearUsage
<1>5. QED
  BY <1>1, <1>2, <1>3, <1>4

LEMMA ExpiresStep == TypeOK /\ CounterExpires /\ [Next]_vars => CounterExpires'
<1> SUFFICES ASSUME TypeOK, CounterExpires, [Next]_vars
             PROVE  CounterExpires'
  OBVIOUS
<1>0. faults \in Nat
  BY AccountsAssumption DEF TypeOK
<1>1. ASSUME NEW t \in Txns, Payout(t), ~Counting(t)
      PROVE  CounterExpires'
  BY <1>1, NotCounting, PayoutFrame DEF CounterExpires
<1>2. ASSUME NEW t \in Txns, Counting(t)
      PROVE  CounterExpires'
  <2>0. \A u \in Txns \ {t} : pay'[u] = pay[u]
    BY <1>2, PayoutFrame DEF Counting, Payout
  <2>1. CASE MarkAsCompleted(t)
    BY <2>0, <2>1, StepMoves
    DEF MarkAsCompleted, CounterExpires, PayPc, limitVars
  <2>2. CASE Record(t)
    BY <2>0, <2>2, StepMoves DEF Record, CounterExpires, PayPc, limitVars
  <2>3. CASE Increment(t)
    BY <2>3, StepMoves DEF Increment, CounterExpires, PayPc
  <2>4. CASE CheckTtl(t)
    BY <2>0, <2>4, StepMoves DEF CheckTtl, CounterExpires, PayPc, limitVars
  <2>5. CASE Expire(t)
    BY <2>5 DEF Expire, CounterExpires
  <2>6. CASE LoseRecord(t)
    BY <1>0, <2>6 DEF LoseRecord, Fault, CounterExpires
  <2>7. QED
    BY <1>2, <2>1, <2>2, <2>3, <2>4, <2>5, <2>6 DEF Counting
<1>3. ASSUME NEW r \in Requests,
             Wallet(r) \/ AdjustBalance(r) \/ Profile(r) \/ Limit(r)
      PROVE  CounterExpires'
  <2>1. pay' = pay
    BY <1>3, RequestFrame
  <2>2. faults > 0 => faults' > 0
    BY <1>0, <1>3, CounterFrame DEF Fault
  <2>3. counter' = NoKey \/ UNCHANGED <<counter, expiring>>
    BY <1>3, CounterFrame
  <2>4. QED
    BY <2>1, <2>2, <2>3 DEF CounterExpires
<1>4. CASE ExpireCounter
  BY <1>4 DEF ExpireCounter, CounterExpires
<1>5. CASE UNCHANGED vars
  BY <1>5 DEF vars, limitVars, CounterExpires
<1>6. QED
  BY <1>1, <1>2, <1>3, <1>4, <1>5, ScenePayouts DEF Next

(* A counter without a TTL is one that recordSpend has yet to give it.     *)
THEOREM CounterWillExpire == Spec => []CounterExpires
<1>1. Init => CounterExpires
  BY DEF Init, CounterExpires
<1>2. QED
  BY <1>1, TypeInit, TypeStep, ExpiresStep, PTL DEF Spec

(* How a payout's step changes what is pending.                            *)
LEMMA AmountSum ==
    ASSUME NEW S \in SUBSET Txns
    PROVE  IsFiniteSet(S) /\ SumFunctionOnSet(Amount, S) \in Nat
<1>1. IsFiniteSet(S)
  BY AccountsAssumption, FS_Subset
<1>2. QED
  BY <1>1, AmountNat, SumNat

LEMMA PendingStays ==
    ASSUME NEW t \in Txns, \A u \in Txns \ {t} : pay'[u] = pay[u],
           pay[t].pc \in PendingPc <=> pay'[t].pc \in PendingPc
    PROVE  Pending' = Pending
BY DEF Pending, PendingPc

LEMMA PendingJoins ==
    ASSUME NEW t \in Txns, \A u \in Txns \ {t} : pay'[u] = pay[u],
           pay[t].pc \notin PendingPc, pay'[t].pc \in PendingPc
    PROVE  SumFunctionOnSet(Amount, Pending')
             = Amount[t] + SumFunctionOnSet(Amount, Pending)
<1>1. t \notin Pending /\ Pending' = Pending \cup {t}
  BY DEF Pending, PendingPc
<1>2. \A u \in Pending \cup {t} : Amount[u] \in Int
  BY AmountNat DEF Pending
<1>3. IsFiniteSet(Pending)
  BY AmountSum DEF Pending
<1>4. QED
  BY <1>1, <1>2, <1>3, SumAdd

LEMMA PendingLeaves ==
    ASSUME NEW t \in Txns, \A u \in Txns \ {t} : pay'[u] = pay[u],
           pay[t].pc \in PendingPc, pay'[t].pc \notin PendingPc
    PROVE  SumFunctionOnSet(Amount, Pending)
             = Amount[t] + SumFunctionOnSet(Amount, Pending')
<1>1. t \in Pending /\ Pending' = Pending \ {t}
  BY DEF Pending, PendingPc
<1>2. \A u \in Pending : Amount[u] \in Int
  BY AmountNat DEF Pending
<1>3. IsFiniteSet(Pending)
  BY AmountSum DEF Pending
<1>4. QED
  BY <1>1, <1>2, <1>3, SumRemove

LEMMA CounterInit == Init => CounterInv
<1> SUFFICES ASSUME Init
             PROVE  CounterInv
  OBVIOUS
<1>1. Pending = {} /\ Usage = InitUsage /\ InitUsage \in Nat
  BY AccountsAssumption DEF Init, Pending, NoPayment, Usage
<1>2. QED
  BY <1>1, SumEmpty DEF Init, CounterInv

LEMMA CounterStep == TypeOK /\ CounterInv /\ [Next]_vars => CounterInv'
<1> SUFFICES ASSUME TypeOK, CounterInv, [Next]_vars
             PROVE  CounterInv'
  OBVIOUS
<1> DEFINE sum == SumFunctionOnSet(Amount, Pending)
<1>0. /\ Usage \in Nat /\ spent \in Nat /\ sum \in Nat /\ sum' \in Nat
      /\ Usage + sum <= spent
  <2>1. sum \in Nat /\ sum' \in Nat
    BY AmountSum DEF Pending
  <2>2. Usage \in Nat /\ spent \in Nat
    BY DEF TypeOK, Usage
  <2>3. QED
    BY <2>1, <2>2 DEF CounterInv
<1> HIDE DEF sum
<1>1. ASSUME NEW t \in Txns, Payout(t), ~Counting(t)
      PROVE  CounterInv'
  <2>1. Pending' = Pending
    BY <1>1, NotCounting, PayoutFrame, PendingStays
  <2>2. QED
    BY <1>1, <2>1, NotCounting DEF CounterInv, Usage
<1>2. ASSUME NEW t \in Txns, Counting(t)
      PROVE  CounterInv'
  <2>0. /\ \A u \in Txns \ {t} : pay'[u] = pay[u]
        /\ Amount[t] \in Nat
    BY <1>2, AmountNat, PayoutFrame DEF Counting, Payout
  <2>1. CASE MarkAsCompleted(t)
    <3>1. sum' = Amount[t] + sum
      BY <2>0, <2>1, StepMoves, PendingJoins
      DEF MarkAsCompleted, PendingPc, PayPc, sum
    <3>2. spent' = spent + Amount[t] /\ Usage' = Usage
      BY <2>1 DEF MarkAsCompleted, Usage, limitVars
    <3>3. QED
      BY <1>0, <2>0, <3>1, <3>2 DEF CounterInv, sum
  <2>2. CASE Record(t) \/ CheckTtl(t) \/ Expire(t) \/ LoseRecord(t)
    <3>1. sum' <= sum
      <4>1. CASE pay[t].pc \in PendingPc /\ pay'[t].pc \notin PendingPc
        BY <1>0, <2>0, <4>1, PendingLeaves DEF sum
      <4>2. CASE pay[t].pc \in PendingPc <=> pay'[t].pc \in PendingPc
        BY <1>0, <2>0, <4>2, PendingStays DEF sum
      <4>3. ~(pay[t].pc \notin PendingPc /\ pay'[t].pc \in PendingPc)
        BY <2>2, StepMoves
        DEF Record, CheckTtl, Expire, LoseRecord, PendingPc, PayPc
      <4>4. QED
        BY <4>1, <4>2, <4>3
    <3>2. UNCHANGED <<spent, counter>>
      BY <2>2 DEF Record, CheckTtl, Expire, LoseRecord, limitVars, sums
    <3>3. QED
      BY <1>0, <3>1, <3>2 DEF CounterInv, Usage, sum
  <2>3. CASE Increment(t)
    <3>1. sum = Amount[t] + sum'
      BY <2>0, <2>3, StepMoves, PendingLeaves
      DEF Increment, PendingPc, PayPc, sum
    <3>2. Usage' = Usage + Amount[t] /\ spent' = spent
      BY <1>0, <2>0, <2>3, AccountsAssumption DEF Increment, Usage, sums
    <3>3. QED
      BY <1>0, <2>0, <3>1, <3>2 DEF CounterInv, sum
  <2>4. QED
    BY <1>2, <2>1, <2>2, <2>3 DEF Counting
<1>3. ASSUME UNCHANGED <<pay, spent>>,
             counter' = counter \/ counter' = NoKey
      PROVE  CounterInv'
  <2>1. Pending' = Pending
    BY <1>3 DEF Pending
  <2>2. QED
    BY <1>0, <1>3, <2>1 DEF CounterInv, Usage, sum
<1>4. ASSUME NEW r \in Requests,
             Wallet(r) \/ AdjustBalance(r) \/ Profile(r) \/ Limit(r)
      PROVE  CounterInv'
  BY <1>3, <1>4, RequestFrame, CounterFrame
<1>5. CASE ExpireCounter
  BY <1>3, <1>5 DEF ExpireCounter, sums
<1>6. CASE UNCHANGED vars
  BY <1>3, <1>6 DEF vars, limitVars, sums
<1>7. QED
  BY <1>1, <1>2, <1>4, <1>5, <1>6, ScenePayouts DEF Next

(* The counter never claims more than was spent, however the payouts, the  *)
(* limits that come and go, the end of the period and the records that     *)
(* are lost interleave.                                                    *)
THEOREM CounterNeverAhead == Spec => []CounterSound
<1>1. TypeOK /\ CounterInv => CounterSound
  <2> SUFFICES ASSUME TypeOK, CounterInv
               PROVE  CounterSound
    OBVIOUS
  <2>1. counter # NoKey => counter \in Nat
    BY DEF TypeOK
  <2>2. SumFunctionOnSet(Amount, Pending) \in Nat /\ spent \in Nat
    BY AmountSum DEF Pending, TypeOK
  <2>3. QED
    BY <2>1, <2>2 DEF CounterInv, CounterSound, Usage
<1>2. QED
  BY <1>1, TypeInit, TypeStep, CounterInit, CounterStep, PTL DEF Spec

-----------------------------------------------------------------------------
(* The limit.                                                              *)

(* Only the check lets a payout through.                                   *)
LEMMA PayoutChecked ==
    ASSUME TypeOK, NEW t \in Txns, Payout(t), ~FindLimits(t), ~CheckUsage(t)
    PROVE  /\ pay'[t].pc \in Checked => pay[t].pc \in Checked
           /\ pay'[t].pc # "checking"
<1>1. CASE LoadUser(t)
  BY <1>1 DEF Checked, LoadUser, TypeOK, Payments, NoPayment
<1>2. CASE GiveUp(t)
  BY StepMoves, <1>2 DEF Checked, GiveUp, PayPc
<1>3. CASE AcquireLock(t)
  BY StepMoves, <1>3 DEF Checked, AcquireLock, PayPc
<1>4. CASE ReadBalance(t)
  BY StepMoves, <1>4 DEF Checked, ReadBalance, PayPc
<1>5. CASE SyncBalance(t)
  BY StepMoves, <1>5 DEF Checked, SyncBalance, PayPc
<1>6. CASE Accept(t)
  BY StepMoves, <1>6 DEF Checked, Accept, PayPc
<1>7. CASE TurnDown(t)
  BY StepMoves, <1>7 DEF Checked, TurnDown, PayPc
<1>8. CASE ReleaseOnFailure(t)
  BY StepMoves, <1>8 DEF Checked, ReleaseOnFailure, PayPc
<1>9. CASE Deduct(t)
  BY <1>9 DEF Checked, Deduct, TypeOK, Payments, NoPayment
<1>10. CASE DeductRefused(t)
  BY StepMoves, <1>10 DEF Checked, DeductRefused, PayPc
<1>11. CASE ExpireLock(t)
  BY StepMoves, <1>11 DEF Checked, ExpireLock, PayPc
<1>12. CASE MarkAsCompleted(t)
  BY StepMoves, <1>12 DEF Checked, MarkAsCompleted, PayPc
<1>13. CASE SyncMongo(t)
  BY StepMoves, <1>13 DEF Checked, SyncMongo, PayPc
<1>14. CASE ReleaseLock(t)
  BY StepMoves, <1>14 DEF Checked, ReleaseLock, PayPc
<1>15. CASE Record(t)
  BY StepMoves, <1>15 DEF Checked, Record, PayPc
<1>16. CASE Increment(t)
  BY StepMoves, <1>16 DEF Checked, Increment, PayPc
<1>17. CASE CheckTtl(t)
  BY StepMoves, <1>17 DEF Checked, CheckTtl, PayPc
<1>18. CASE Expire(t)
  BY StepMoves, <1>18 DEF Checked, Expire, PayPc
<1>19. CASE LoseRecord(t)
  BY StepMoves, <1>19 DEF Checked, LoseRecord, PayPc
<1>20. QED
  BY <1>1, <1>2, <1>3, <1>4, <1>5, <1>6, <1>7, <1>8, <1>9, <1>10, <1>11,
     <1>12, <1>13, <1>14, <1>15, <1>16, <1>17, <1>18, <1>19
  DEF Payout

LEMMA LimitsFound ==
    ASSUME TypeOK, NEW t \in Txns, FindLimits(t)
    PROVE  /\ pay[t].pc = "locked"
           /\ limit # NoLimit => pay'[t].pc \in {"failing", "checking"}
           /\ pay'[t].pc = "checking" => pay'[t].max = limit
           /\ pay'[t].pc \in {"failing", "checking", "limited"}
           /\ ~Counting(t)
<1>1. pay[t] \in Payments
  BY DEF TypeOK
<1>2. /\ pay[t].pc = "locked"
      /\ pay'[t] = IF pay[t].status # "active" THEN Going(pay[t], "failing")
                   ELSE IF limit = NoLimit THEN Going(pay[t], "limited")
                   ELSE [pay[t] EXCEPT !.pc = "checking", !.max = limit]
  BY DEF TypeOK, FindLimits
<1>3. ~Counting(t)
  BY <1>2 DEF Counting, MarkAsCompleted, Record, Increment, CheckTtl, Expire,
              LoseRecord, Step
<1>4. QED
  BY <1>1, <1>2, <1>3 DEF Payments, Going, NoPayment

LEMMA LimitInit ==
    ASSUME \A l \in Limits : InitUsage <= l, Init
    PROVE  LimitInv
<1>1. Pending = {} /\ \A t \in Txns : pay[t].pc = "idle"
  BY DEF Init, Pending, NoPayment
<1>2. /\ limit \in Nat /\ InitUsage <= limit /\ limit # NoLimit
      /\ counter = InitUsage /\ spent = InitUsage
      /\ InitUsage \in Nat /\ counter # NoKey
  BY AccountsAssumption DEF Init
<1>3. SumFunctionOnSet(Amount, Pending) = 0
  BY <1>1, SumEmpty
<1>4. QED
  BY <1>1, <1>2, <1>3 DEF LimitInv, Checked

(* Nothing is pending when a payout is checked in no hurry: those that     *)
(* completed before it are recorded, and it has the lock to itself.        *)
LEMMA CheckedAlone ==
    ASSUME TypeOK, LockHeld, Observe, ~hurried', NEW t \in Txns,
           CheckUsage(t)
    PROVE  Pending = {}
<1>1. pay[t].pc = "checking" /\ pay'[t].pc # "checking"
  BY StepMoves DEF CheckUsage, PayPc
<1>2. \A u \in Txns : ~Unrecorded(u)
  BY <1>1 DEF Observe
<1>3. \A u \in Txns : pay[u].pc \notin {"snapshot", "release"}
  BY <1>1 DEF LockHeld, Inside
<1>4. QED
  BY <1>2, <1>3 DEF Pending, Unrecorded

LEMMA LimitStep == TypeOK /\ LockHeld /\ LimitInv /\ [Next]_vars => LimitInv'
<1> SUFFICES ASSUME TypeOK, LockHeld, LimitInv, [Next]_vars
             PROVE  LimitInv'
  OBVIOUS
<1> DEFINE sum == SumFunctionOnSet(Amount, Pending)
<1>0. sum \in Nat /\ sum' \in Nat /\ spent \in Nat
  BY AmountSum DEF Pending, TypeOK
<1>1. counter # NoKey => counter \in Nat
  BY DEF TypeOK
<1>2. limit # NoLimit => limit \in Nat
  BY AccountsAssumption DEF TypeOK
<1>3. ASSUME UNCHANGED <<pay, spent>>, Observe,
             counter' = counter \/ counter' = NoKey
      PROVE  LimitInv'
  <2>1. Pending' = Pending
    BY <1>3 DEF Pending
  <2>2. ~relaxed' => ~relaxed /\ limit' = limit
                     /\ (counter # NoKey => counter' = counter)
    BY <1>3 DEF Observe
  <2>3. ~hurried' => ~hurried
    BY <1>3 DEF Observe
  <2>4. QED
    BY <1>3, <2>1, <2>2, <2>3 DEF LimitInv
<1>4. ASSUME NEW t \in Txns, Payout(t), Observe
      PROVE  LimitInv'
  <2>1. /\ \A u \in Txns \ {t} : pay'[u] = pay[u]
        /\ limit' = limit
        /\ Amount[t] \in Nat
    BY <1>4, PayoutFrame, AmountNat
  <2>2. ~relaxed' => ~relaxed /\ ~(Unrecorded(t) /\ pay'[t].pc = "done")
    BY <1>4 DEF Observe
  <2>3. ~hurried' => ~hurried
    BY <1>4 DEF Observe
  <2>4. ASSUME ~relaxed'
        PROVE  counter' # NoKey /\ counter' + sum' = spent'
    <3>1. /\ limit # NoLimit /\ counter # NoKey /\ counter \in Nat
          /\ counter + sum = spent
      BY <1>1, <2>2, <2>4 DEF LimitInv
    <3>2. CASE ~Counting(t)
      BY <1>4, <2>1, <3>1, <3>2, NotCounting, PendingStays
    <3>3. CASE MarkAsCompleted(t)
      <4>1. sum' = Amount[t] + sum
        BY <2>1, <3>3, StepMoves, PendingJoins
        DEF MarkAsCompleted, PendingPc, PayPc
      <4>2. spent' = spent + Amount[t] /\ counter' = counter
        BY <3>3 DEF MarkAsCompleted, limitVars
      <4> HIDE DEF sum
      <4>3. QED
        BY <1>0, <2>1, <3>1, <4>1, <4>2
    <3>4. CASE Increment(t)
      <4>1. sum = Amount[t] + sum'
        BY <2>1, <3>4, StepMoves, PendingLeaves DEF Increment, PendingPc, PayPc
      <4>2. counter' = counter + Amount[t] /\ spent' = spent
        BY <3>1, <3>4 DEF Increment, sums
      <4>3. counter' # NoKey
        BY <2>1, <3>1, <4>2, AccountsAssumption
      <4> HIDE DEF sum
      <4>4. QED
        BY <1>0, <2>1, <3>1, <4>1, <4>2, <4>3
    <3>5. CASE Record(t) \/ CheckTtl(t) \/ Expire(t) \/ LoseRecord(t)
      <4>1. pay[t].pc \in PendingPc <=> pay'[t].pc \in PendingPc
        BY <2>2, <2>4, <3>1, <3>5, StepMoves
        DEF Record, CheckTtl, Expire, LoseRecord, PendingPc, PayPc, Unrecorded
      <4>2. UNCHANGED <<spent, counter>>
        BY <3>5 DEF Record, CheckTtl, Expire, LoseRecord, limitVars, sums
      <4>3. QED
        BY <2>1, <3>1, <4>1, <4>2, PendingStays
    <3>6. QED
      BY <3>2, <3>3, <3>4, <3>5 DEF Counting
  <2>5. ASSUME ~relaxed', NEW u \in Txns, pay'[u].pc = "checking"
        PROVE  pay'[u].max = limit'
    <3>1. CASE u # t
      BY <2>1, <2>2, <2>5, <3>1 DEF LimitInv
    <3>2. CASE u = t
      <4>1. ~CheckUsage(t)
        BY <2>5, <3>2, StepMoves DEF CheckUsage, PayPc
      <4>2. FindLimits(t)
        BY <1>4, <2>5, <3>2, <4>1, PayoutChecked
      <4>3. QED
        BY <2>1, <2>5, <3>2, <4>2, LimitsFound
    <3>3. QED
      BY <3>1, <3>2
  <2>6. ASSUME ~relaxed', ~hurried'
        PROVE  /\ spent' <= limit'
               /\ \A u \in Txns :
                    pay'[u].pc \in Checked => spent' + Amount[u] <= limit'
    <3>1. /\ limit # NoLimit /\ limit \in Nat /\ counter \in Nat
          /\ counter # NoKey /\ counter + sum = spent /\ spent <= limit
          /\ pay[t].pc = "checking" => pay[t].max = limit
          /\ \A u \in Txns :
               pay[u].pc \in Checked => spent + Amount[u] <= limit
      BY <1>1, <1>2, <2>2, <2>3, <2>6 DEF LimitInv
    <3>2. CASE MarkAsCompleted(t)
      <4>1. /\ pay[t].pc = "complete" /\ pay'[t].pc = "snapshot"
            /\ spent' = spent + Amount[t]
        BY <3>2, StepMoves DEF MarkAsCompleted, PayPc
      <4>2. \A u \in Txns : pay'[u].pc \notin Checked
        BY <2>1, <4>1 DEF LockHeld, Inside, Checked
      <4>3. QED
        BY <2>1, <3>1, <4>1, <4>2 DEF Checked
    <3>3. CASE ~MarkAsCompleted(t)
      <4>1. spent' = spent
        <5>1. CASE Counting(t)
          BY <3>3, <5>1 DEF Counting, Record, Increment, CheckTtl, Expire,
                            LoseRecord, sums
        <5>2. QED
          BY <1>4, <5>1, NotCounting
      <4>2. pay'[t].pc \in Checked => spent + Amount[t] <= limit
        <5>1. CASE CheckUsage(t)
          <6>1. sum = 0
            BY <1>4, <2>6, <5>1, CheckedAlone, SumEmpty
          <6>2. pay[t].pc = "checking" /\ (pay'[t].pc \in Checked
                  => counter + Amount[t] <= pay[t].max)
            BY <5>1, StepMoves DEF CheckUsage, WithinLimit, PayPc, Checked
          <6> HIDE DEF sum
          <6>3. QED
            BY <2>1, <3>1, <6>1, <6>2
        <5>2. CASE FindLimits(t)
          BY <3>1, <5>2, LimitsFound DEF Checked
        <5>3. CASE ~CheckUsage(t) /\ ~FindLimits(t)
          BY <1>4, <3>1, <5>3, PayoutChecked
        <5>4. QED
          BY <5>1, <5>2, <5>3
      <4>3. QED
        BY <2>1, <3>1, <4>1, <4>2
    <3>4. QED
      BY <3>2, <3>3
  <2> HIDE DEF sum
  <2>7. ~relaxed' => limit' # NoLimit
    BY <2>1, <2>2 DEF LimitInv
  <2>8. QED
    BY <2>4, <2>5, <2>6, <2>7 DEF LimitInv, sum
<1>5. ASSUME NEW r \in Requests, Observe,
             Wallet(r) \/ AdjustBalance(r) \/ Profile(r) \/ Limit(r)
      PROVE  LimitInv'
  BY <1>3, <1>5, RequestFrame, CounterFrame
<1>6. CASE ExpireCounter /\ Observe
  BY <1>3, <1>6 DEF ExpireCounter, sums
<1>7. CASE UNCHANGED vars
  BY <1>7 DEF vars, limitVars, sums, observed, LimitInv, Pending
<1>8. QED
  BY <1>4, <1>5, <1>6, <1>7, ScenePayouts DEF Next

(* The payouts accepted and completed stay within the limit in place, if   *)
(* none was checked between the release of the lock and recordSpend of     *)
(* another and the user was within the limit at the start.                 *)
THEOREM SpendingWithinLimit ==
    ASSUME \A l \in Limits : InitUsage <= l
    PROVE  Spec => []LimitHeld
<1>1. Init => LimitInv
  BY LimitInit
<1>2. TypeOK /\ LockHeld /\ LimitInv => LimitHeld
  <2> SUFFICES ASSUME TypeOK, LockHeld, LimitInv, ~relaxed, ~hurried
               PROVE  spent + SumFunctionOnSet(Amount, Committed) <= limit
    BY DEF LimitHeld, WithinCap
  <2>1. spent \in Nat /\ limit \in Nat /\ spent <= limit
    BY AccountsAssumption DEF LimitInv, TypeOK
  <2>2. CASE Committed = {}
    BY <2>1, <2>2, SumEmpty
  <2>3. CASE Committed # {}
    <3>1. PICK t \in Txns : t \in Committed
      BY <2>3 DEF Committed
    <3>2. Committed = {t}
      BY <3>1 DEF Committed, LockHeld, Inside
    <3>3. SumFunctionOnSet(Amount, {t}) = Amount[t]
      BY AmountNat, SumOne
    <3>4. spent + Amount[t] <= limit /\ Amount[t] \in Nat
      BY <3>1, AmountNat DEF LimitInv, Checked, Committed
    <3>5. QED
      BY <2>1, <3>2, <3>3, <3>4
  <2>4. QED
    BY <2>2, <2>3
<1>3. QED
  BY <1>1, <1>2, TypeInit, TypeStep, LockInit, LockStep, LimitStep, PTL
  DEF Spec

-----------------------------------------------------------------------------
(* The wallet.                                                             *)

LEMMA TwoElements ==
    ASSUME NEW S, IsFiniteSet(S), NEW x \in S, NEW y \in S, x # y
    PROVE  Cardinality(S) > 1
<1>1. IsFiniteSet(S \ {x}) /\ Cardinality(S \ {x}) = Cardinality(S) - 1
  BY FS_RemoveElement
<1>2. Cardinality(S) \in Nat /\ Cardinality(S \ {x}) \in Nat
  BY <1>1, FS_CardinalityType
<1>3. Cardinality(S \ {x}) # 0
  BY <1>1, FS_EmptySet
<1>4. QED
  BY <1>1, <1>2, <1>3

(* A currency never mixed has one operation at most.                       *)
LEMMA Alone ==
    ASSUME NEW c, ~Overlap(c), NEW r \in Requests, NEW q \in Requests,
           req[r].pc = "wallet", req[r].c = c,
           req[q].pc = "wallet", req[q].c = c
    PROVE  r = q
<1> DEFINE S == {p \in Requests : req[p].pc = "wallet" /\ req[p].c = c}
<1>1. IsFiniteSet(S) /\ r \in S /\ q \in S
  BY AccountsAssumption, FS_Subset
<1>2. ~(Cardinality(S) > 1)
  BY DEF Overlap
<1> HIDE DEF S
<1>3. QED
  BY <1>1, <1>2, TwoElements

(* No step but a load or a save bears on the wallet operations under way,  *)
(* as long as the document is the same or there is none.                   *)
LEMMA WalletFrame ==
    ASSUME TypeOK, WalletInv, Observe, UNCHANGED <<wallet, walletSum>>,
           user'.exists => user.exists,
           user'.doc = user.doc,
           \A q \in Requests : req'[q].pc = "wallet" => req'[q] = req[q]
    PROVE  WalletInv'
<1>1. \A c \in Currencies : ~mixed'[c] => ~mixed[c] /\ ~Overlap(c)'
  BY DEF Observe
<1>2. QED
  BY <1>1 DEF WalletInv, SameDocument, Moved

LEMMA WalletInit == Init => WalletInv
<1> SUFFICES ASSUME Init
             PROVE  WalletInv
  OBVIOUS
<1>1. \A r \in Requests : req[r].pc = "idle"
  BY DEF Init, NoRequest
<1>2. \A c \in Currencies : ~Overlap(c)
  <2> SUFFICES ASSUME NEW c \in Currencies
               PROVE  ~Overlap(c)
    OBVIOUS
  <2>1. {r \in Requests : req[r].pc = "wallet" /\ req[r].c = c} = {}
    BY <1>1
  <2>2. QED
    BY <2>1, FS_EmptySet DEF Overlap
<1>3. QED
  BY <1>1, <1>2 DEF WalletInv, Init

LEMMA LoadKeeps ==
    ASSUME TypeOK, WalletInv, Observe, NEW r \in Requests,
           NEW c \in Currencies, WalletLoad(r, c)
    PROVE  WalletInv'
<1>1. PICK credit \in BOOLEAN : WalletRead(r, c, credit)
  BY DEF WalletLoad
<1>2. UNCHANGED <<user, wallet, walletSum>>
  BY DEF WalletLoad, profileVars, sums
<1>3. /\ req'[r].pc = "wallet" /\ req'[r].c = c /\ req'[r].doc = user.doc
      /\ req'[r].credit = credit
      /\ req'[r].map[c] = wallet[c] + Signed(credit)
      /\ \A q \in Requests \ {r} : req'[q] = req[q]
  BY <1>1 DEF WalletRead, TypeOK, NoRequest
<1>4. \A d \in Currencies : ~mixed'[d] => ~mixed[d] /\ ~Overlap(d)'
  BY DEF Observe
<1>5. user.doc \in Nat
  BY DEF TypeOK
<1>6. QED
  BY <1>2, <1>3, <1>4, <1>5 DEF WalletInv, SameDocument, Moved

LEMMA SaveKeeps ==
    ASSUME TypeOK, WalletInv, Observe, NEW r \in Requests, WalletSave(r)
    PROVE  WalletInv'
<1> DEFINE c == req[r].c
<1>1. /\ req[r].pc = "wallet" /\ c \in Currencies /\ SameDocument(r)
      /\ user' = user
  BY DEF WalletSave, WalletInv
<1>2. /\ wallet'[c] = req[r].map[c]
      /\ walletSum'[c] = walletSum[c] + Moved(r)
      /\ \A d \in Currencies \ {c} :
           wallet'[d] = wallet[d] /\ walletSum'[d] = walletSum[d]
  BY <1>1 DEF WalletSave, TypeOK
<1>3. req'[r].pc = "done" /\ \A q \in Requests \ {r} : req'[q] = req[q]
  BY AnswerDone DEF WalletSave
<1>4. \A d \in Currencies : ~mixed'[d] => ~mixed[d] /\ ~Overlap(d)'
  BY DEF Observe
<1> HIDE DEF c
<1>5. ~mixed[c] => wallet'[c] = walletSum'[c]
  BY <1>1, <1>2 DEF WalletInv, c
<1>6. ASSUME ~mixed[c], NEW q \in Requests \ {r}, req[q].pc = "wallet"
      PROVE  req[q].c # c
  BY <1>1, <1>6, Alone DEF WalletInv, c
<1>7. QED
  BY <1>1, <1>2, <1>3, <1>4, <1>5, <1>6 DEF WalletInv, SameDocument, Moved

(* A new document: what is still to be saved goes to the old one.          *)
LEMMA CreateKeeps ==
    ASSUME TypeOK, WalletInv, Observe, NEW r \in Requests,
           CreatePayoutUser(r)
    PROVE  WalletInv'
<1>1. req'[r].pc = "done" /\ \A q \in Requests \ {r} : req'[q] = req[q]
  BY AnswerDone DEF CreatePayoutUser
<1>2. CASE user.exists
  BY <1>1, <1>2, WalletFrame DEF CreatePayoutUser, profileVars
<1>3. CASE ~user.exists
  <2>1. /\ user'.doc = user.doc + 1 /\ user.doc \in Nat
        /\ \A c \in Currencies : wallet'[c] = 0 /\ walletSum'[c] = 0
    BY <1>3 DEF CreatePayoutUser, TypeOK
  <2>2. \A q \in Requests : req'[q].pc = "wallet" =>
          req'[q] = req[q] /\ req[q].doc \in Nat /\ req[q].doc <= user.doc
    BY <1>1 DEF WalletInv, TypeOK, Asked
  <2>3. \A c \in Currencies : ~mixed'[c] => ~mixed[c] /\ ~Overlap(c)'
    BY DEF Observe
  <2>4. \A q \in Requests :
          req'[q].pc = "wallet" => req'[q].doc # user'.doc
                                   /\ req'[q].doc <= user'.doc
    BY <2>1, <2>2
  <2>5. QED
    BY <1>1, <2>1, <2>2, <2>3, <2>4 DEF WalletInv, SameDocument
<1>4. QED
  BY <1>2, <1>3

(* All other steps of a request.                                           *)
LEMMA OthersKeep ==
    ASSUME TypeOK, NEW r \in Requests,
           \/ WalletSaveFails(r) \/ AdjustBalance(r) \/ Limit(r)
           \/ UpdateUserStatus(r) \/ DeletePayoutUser(r) \/ CreateCheck(r)
    PROVE  /\ UNCHANGED <<wallet, walletSum>>
           /\ user'.exists => user.exists
           /\ user'.doc = user.doc
           /\ \A q \in Requests : req'[q].pc = "wallet" => req'[q] = req[q]
<1> USE DEF profileVars, sums
<1>1. CASE WalletSaveFails(r)
  BY <1>1, AnswerDone DEF WalletSaveFails
<1>2. CASE AdjustBalance(r)
  <2>1. CASE AdjustLoad(r)
    BY <2>1 DEF AdjustLoad, NoRequest, TypeOK
  <2>2. CASE AdjustMongo(r)
    BY <2>2, RequestGoes DEF AdjustMongo
  <2>3. CASE AdjustRedis(r)
    BY <2>3, RequestGoes, AnswerDone DEF AdjustRedis
  <2>4. CASE AdjustSync(r)
    BY <2>4, AnswerDone DEF AdjustSync
  <2>5. QED
    BY <1>2, <2>1, <2>2, <2>3, <2>4 DEF AdjustBalance
<1>3. CASE Limit(r)
  <2>1. CASE SetLimit(r)
    BY <2>1, AnswerDone DEF SetLimit
  <2>2. CASE RemoveUserSpendingLimit(r)
    BY <2>2, AnswerDone DEF RemoveUserSpendingLimit
  <2>3. CASE DeleteLimit(r)
    BY <2>3, RequestGoes DEF DeleteLimit
  <2>4. CASE ClearUsage(r)
    BY <2>4, AnswerDone DEF ClearUsage
  <2>5. QED
    BY <1>3, <2>1, <2>2, <2>3, <2>4 DEF Limit
<1>4. CASE UpdateUserStatus(r)
  BY <1>4, AnswerDone DEF UpdateUserStatus, TypeOK
<1>5. CASE DeletePayoutUser(r)
  BY <1>5, AnswerDone DEF DeletePayoutUser, TypeOK
<1>6. CASE CreateCheck(r)
  BY <1>6, RequestGoes DEF CreateCheck
<1>7. QED
  BY <1>1, <1>2, <1>3, <1>4, <1>5, <1>6

LEMMA WalletStep == TypeOK /\ WalletInv /\ [Next]_vars => WalletInv'
<1> SUFFICES ASSUME TypeOK, WalletInv, [Next]_vars
             PROVE  WalletInv'
  OBVIOUS
<1>1. ASSUME NEW t \in Txns, Payout(t), Observe
      PROVE  WalletInv'
  BY <1>1, PayoutFrame, WalletFrame
<1>2. ASSUME NEW r \in Requests, Observe,
             Wallet(r) \/ AdjustBalance(r) \/ Profile(r) \/ Limit(r)
      PROVE  WalletInv'
  <2>1. CASE \E c \in Currencies : WalletLoad(r, c)
    BY <1>2, <2>1, LoadKeeps
  <2>2. CASE WalletSave(r)
    BY <1>2, <2>2, SaveKeeps
  <2>3. CASE CreatePayoutUser(r)
    BY <1>2, <2>3, CreateKeeps
  <2>4. CASE \/ WalletSaveFails(r) \/ AdjustBalance(r) \/ Limit(r)
             \/ UpdateUserStatus(r) \/ DeletePayoutUser(r) \/ CreateCheck(r)
    BY <1>2, <2>4, OthersKeep, WalletFrame
  <2>5. QED
    BY <1>2, <2>1, <2>2, <2>3, <2>4 DEF Wallet, Profile
<1>3. CASE ExpireCounter /\ Observe
  BY <1>3, WalletFrame DEF ExpireCounter, profileVars, sums
<1>4. CASE UNCHANGED vars
  BY <1>4 DEF vars, profileVars, sums, observed, WalletInv, Overlap,
              SameDocument, Moved
<1>5. QED
  BY <1>1, <1>2, <1>3, <1>4, ScenePayouts DEF Next

(* No operation on another currency, no deletion and no new profile ever   *)
(* makes the wallet lose or gain what the answers did not say.             *)
THEOREM WalletAddsUp == Spec => []WalletExact
<1>1. WalletInv => WalletExact
  BY DEF WalletInv, WalletExact
<1>2. QED
  BY <1>1, TypeInit, TypeStep, WalletInit, WalletStep, PTL DEF Spec

-----------------------------------------------------------------------------
(* The money.                                                              *)

(* A payout's steps that write neither of the stores.                      *)
Waiting(t) ==
    \/ LoadUser(t) \/ GiveUp(t) \/ AcquireLock(t) \/ FindLimits(t)
    \/ CheckUsage(t) \/ ReadBalance(t) \/ Accept(t) \/ TurnDown(t)
    \/ ReleaseOnFailure(t) \/ DeductRefused(t) \/ ExpireLock(t)
    \/ ReleaseLock(t) \/ Record(t) \/ Increment(t) \/ CheckTtl(t) \/ Expire(t)
    \/ LoseRecord(t)

LEMMA PayoutWaits ==
    ASSUME TypeOK, NEW t \in Txns, Waiting(t)
    PROVE  /\ UNCHANGED <<mongo, redis, spent, adjusted, user, req>>
           /\ faults' = faults \/ Fault
           /\ pay[t].pc \notin {"complete", "snapshot"}
           /\ pay'[t].pc \notin {"complete", "snapshot"}
           /\ pay'[t].pc = "unsynced" => redis = NoKey
           /\ pay'[t].pc \in Early =>
                \/ pay'[t].bal = mongo
                \/ pay[t].pc \in Early /\ pay'[t].bal = pay[t].bal
           /\ \A u \in Txns \ {t} : pay'[u] = pay[u]
<1> USE DEF profileVars, sums
<1>1. CASE LoadUser(t)
  BY <1>1 DEF Early, LoadUser, TypeOK, Payments, NoPayment
<1>2. CASE GiveUp(t)
  BY StepMoves, <1>2 DEF Early, GiveUp, PayPc
<1>3. CASE AcquireLock(t)
  BY StepMoves, <1>3 DEF Early, AcquireLock, PayPc
<1>4. CASE FindLimits(t)
  BY <1>4 DEF Early, FindLimits, TypeOK, Payments, NoPayment, Going
<1>5. CASE CheckUsage(t)
  BY StepMoves, <1>5 DEF Early, CheckUsage, PayPc
<1>6. CASE ReadBalance(t)
  BY StepMoves, <1>6 DEF Early, ReadBalance, PayPc
<1>7. CASE Accept(t)
  BY StepMoves, <1>7 DEF Early, Accept, PayPc
<1>8. CASE TurnDown(t)
  BY StepMoves, <1>8 DEF Early, TurnDown, PayPc
<1>9. CASE ReleaseOnFailure(t)
  BY StepMoves, <1>9 DEF Early, ReleaseOnFailure, PayPc
<1>10. CASE DeductRefused(t)
  BY StepMoves, <1>10 DEF Early, DeductRefused, PayPc
<1>11. CASE ExpireLock(t)
  BY StepMoves, <1>11 DEF Early, ExpireLock, PayPc
<1>12. CASE ReleaseLock(t)
  BY StepMoves, <1>12 DEF Early, ReleaseLock, PayPc
<1>13. CASE Record(t)
  BY StepMoves, <1>13 DEF Early, Record, PayPc
<1>14. CASE Increment(t)
  BY StepMoves, <1>14 DEF Early, Increment, PayPc
<1>15. CASE CheckTtl(t)
  BY StepMoves, <1>15 DEF Early, CheckTtl, PayPc
<1>16. CASE Expire(t)
  BY StepMoves, <1>16 DEF Early, Expire, PayPc
<1>17. CASE LoseRecord(t)
  BY StepMoves, <1>17 DEF Early, LoseRecord, PayPc
<1>18. QED
  BY <1>1, <1>2, <1>3, <1>4, <1>5, <1>6, <1>7, <1>8, <1>9, <1>10, <1>11,
     <1>12, <1>13, <1>14, <1>15, <1>16, <1>17
  DEF Waiting

LEMMA MoneyInit == Init => MoneyInv
<1> SUFFICES ASSUME Init
             PROVE  MoneyInv
  OBVIOUS
<1>1. /\ \A t \in Txns : pay[t].pc = "idle"
      /\ \A r \in Requests : req[r].pc = "idle"
  BY DEF Init, NoPayment, NoRequest
<1>2. /\ user.exists /\ mongo = InitBalance /\ redis \in {NoKey, InitBalance}
      /\ adjusted = 0 /\ spent = InitUsage
      /\ InitBalance \in Nat /\ InitUsage \in Nat
  BY AccountsAssumption DEF Init
<1>3. ~Disturbance
  BY <1>1, <1>2 DEF Disturbance, Adjusting
<1>4. mongo = Due
  BY <1>2 DEF Due
<1>5. QED
  BY <1>1, <1>2, <1>3, <1>4 DEF MoneyInv, PayoutMoney, AdjustMoney, Early

AdjustPc == {"adjust", "adjustRedis", "adjustSync"}

(* Everything but the adjustments leaves the requests for them alone.      *)
LEMMA MoneyFrame ==
    ASSUME MoneyInv, Observe,
           UNCHANGED <<mongo, redis, spent, adjusted, pay, faults>>,
           \A q \in Requests :
             \/ req'[q] = req[q]
             \/ req[q].pc \notin AdjustPc /\ req'[q].pc \notin AdjustPc
    PROVE  MoneyInv'
<1> SUFFICES ASSUME ~disturbed', faults' <= 1
             PROVE  MoneyInv'
  BY DEF MoneyInv
<1>1. ~disturbed /\ faults <= 1 /\ ~Disturbance'
  BY DEF Observe
<1>2. /\ \A t \in Txns : PayoutMoney(t)
      /\ \A r \in Requests : AdjustMoney(r)
      /\ (\A t \in Txns : pay[t].pc # "snapshot") => mongo = Due
      /\ Written => redis \in {NoKey, mongo}
  BY <1>1 DEF MoneyInv
<1>3. Due' = Due
  BY DEF Due
<1>4. \A t \in Txns : PayoutMoney(t)'
  BY <1>2, <1>3 DEF PayoutMoney
<1>5. \A r \in Requests : AdjustMoney(r)'
  BY <1>2 DEF AdjustMoney, Moved, AdjustPc
<1>6. Written' => Written
  BY DEF Written, AdjustPc
<1>7. QED
  BY <1>1, <1>2, <1>3, <1>4, <1>5, <1>6 DEF MoneyInv

LEMMA WaitKeeps ==
    ASSUME TypeOK, MoneyInv, Observe, NEW t \in Txns, Waiting(t)
    PROVE  MoneyInv'
<1> SUFFICES ASSUME ~disturbed', faults' <= 1
             PROVE  MoneyInv'
  BY DEF MoneyInv
<1>0. faults \in Nat
  BY AccountsAssumption DEF TypeOK
<1>1. /\ ~disturbed /\ faults <= 1 /\ ~Disturbance'
      /\ faults' = 1 \/ faults' = faults
  <2>1. faults' = faults \/ faults' = faults + 1
    BY PayoutWaits DEF Fault
  <2>2. ~disturbed /\ ~Disturbance'
    BY DEF Observe
  <2>3. QED
    BY <1>0, <2>1, <2>2
<1>2. /\ \A u \in Txns : PayoutMoney(u)
      /\ \A r \in Requests : AdjustMoney(r)
      /\ (\A u \in Txns : pay[u].pc # "snapshot") => mongo = Due
      /\ Written => redis \in {NoKey, mongo}
  BY <1>1 DEF MoneyInv
<1>3. Due' = Due
  BY PayoutWaits DEF Due
<1>4. ASSUME NEW u \in Txns
      PROVE  PayoutMoney(u)'
  BY <1>2, <1>3, PayoutWaits DEF PayoutMoney, Early
<1>5. ASSUME NEW r \in Requests
      PROVE  AdjustMoney(r)'
  BY <1>1, <1>2, PayoutWaits DEF AdjustMoney, Moved
<1>6. /\ Written' => Written
      /\ (\A u \in Txns : pay'[u].pc # "snapshot")
           => \A u \in Txns : pay[u].pc # "snapshot"
  BY PayoutWaits DEF Written
<1>7. QED
  BY <1>1, <1>2, <1>3, <1>4, <1>5, <1>6, PayoutWaits DEF MoneyInv

(* The four writes of a payout, which has the account to itself.           *)
LEMMA PayoutAlone ==
    ASSUME TypeOK, LockHeld, MoneyInv, Observe, ~disturbed', faults' <= 1,
           NEW t \in Txns, Payout(t), faults' = faults,
           pay[t].pc \in Inside, pay[t].pc # "failing", Moving(t)
    PROVE  /\ ~Disturbance' /\ user.exists
           /\ \A u \in Txns \ {t} :
                pay[u].pc \notin Inside /\ pay'[u] = pay[u]
           /\ \A r \in Requests : ~Adjusting(r)
           /\ req' = req
           /\ PayoutMoney(t)
           /\ pay[t].pc # "snapshot" => mongo = Due
           /\ pay[t].pc \notin {"complete", "snapshot"}
                => redis \in {NoKey, mongo}
<1>1. ~disturbed /\ faults <= 1 /\ ~Disturbance'
  BY DEF Observe
<1>2. /\ ~Disturbance
      /\ PayoutMoney(t)
      /\ (\A u \in Txns : pay[u].pc # "snapshot") => mongo = Due
      /\ Written => redis \in {NoKey, mongo}
  BY <1>1 DEF MoneyInv
<1>3. \A u \in Txns \ {t} : pay[u].pc \notin Inside /\ pay'[u] = pay[u]
  BY PayoutFrame DEF LockHeld
<1>4. \A r \in Requests : ~Adjusting(r)
  BY <1>2 DEF Disturbance
<1>5. pay[t].pc # "snapshot" => \A u \in Txns : pay[u].pc # "snapshot"
  BY <1>3 DEF Inside
<1>6. pay[t].pc \notin {"complete", "snapshot"} => Written
  BY <1>3, <1>4 DEF Inside, Written, Adjusting
<1>7. user.exists /\ req' = req
  BY <1>2, PayoutFrame DEF Disturbance
<1>8. QED
  BY <1>1, <1>2, <1>3, <1>4, <1>5, <1>6, <1>7

(* If it leaves the stores as PayoutMoney says, all is well.               *)
LEMMA PayoutLeaves ==
    ASSUME ~Disturbance', NEW t \in Txns, PayoutMoney(t)', redis' # NoKey,
           \A u \in Txns \ {t} : pay[u].pc \notin Inside /\ pay'[u] = pay[u],
           \A r \in Requests : ~Adjusting(r), req' = req,
           pay'[t].pc # "snapshot" => mongo' = Due',
           pay'[t].pc \notin {"complete", "snapshot"} => redis' = mongo'
    PROVE  MoneyInv'
<1>1. \A u \in Txns : PayoutMoney(u)'
  BY DEF PayoutMoney, Inside
<1>2. \A r \in Requests : AdjustMoney(r)'
  BY DEF AdjustMoney, Adjusting
<1>3. QED
  BY <1>1, <1>2 DEF MoneyInv, Written

LEMMA PayoutMoneyStep ==
    ASSUME TypeOK, LockHeld, MoneyInv, Observe, NEW t \in Txns, Payout(t)
    PROVE  MoneyInv'
<1> SUFFICES ASSUME ~disturbed', faults' <= 1
             PROVE  MoneyInv'
  BY DEF MoneyInv
<1> USE DEF profileVars, sums
<1>0. /\ Amount[t] \in Nat /\ mongo \in Nat /\ spent \in Nat
      /\ adjusted \in Int /\ InitBalance \in Nat /\ InitUsage \in Nat
      /\ redis # NoKey => redis \in Nat
      /\ pay[t].bal \in Nat
  BY AmountNat, AccountsAssumption DEF TypeOK, Payments
<1>1. CASE Waiting(t)
  BY <1>1, WaitKeeps
<1>2. CASE SyncBalance(t)
  <2>1. /\ pay[t].pc = "unsynced" /\ pay'[t].pc = "synced"
        /\ redis' = pay[t].bal /\ faults' = faults
        /\ UNCHANGED <<mongo, spent, adjusted>>
    BY <1>2, StepMoves DEF SyncBalance, PayPc
  <2>2. redis = NoKey /\ redis' = mongo /\ mongo = Due
    BY <2>1, PayoutAlone DEF PayoutMoney, Inside, Moving, Early
  <2>3. Due' = Due /\ redis' # NoKey /\ PayoutMoney(t)'
    BY <1>0, <2>1, <2>2, AccountsAssumption DEF Due, PayoutMoney
  <2>4. QED
    BY <2>1, <2>2, <2>3, PayoutAlone, PayoutLeaves DEF Inside, Moving
<1>3. CASE Deduct(t)
  <2>1. /\ pay[t].pc = "accepted" /\ pay'[t].pc = "complete"
        /\ redis # NoKey /\ redis' = redis - Amount[t]
        /\ pay'[t].bal = redis' /\ faults' = faults
        /\ UNCHANGED <<mongo, spent, adjusted>>
    BY <1>3 DEF Deduct, HasFunds, TypeOK, NoPayment
  <2>2. redis = mongo /\ mongo = Due
    BY <2>1, PayoutAlone DEF Inside, Moving
  <2>3. Due' = Due /\ redis' # NoKey /\ PayoutMoney(t)'
    BY <1>0, <2>1, <2>2, AccountsAssumption DEF Due, PayoutMoney
  <2>4. QED
    BY <2>1, <2>2, <2>3, PayoutAlone, PayoutLeaves DEF Inside, Moving
<1>4. CASE MarkAsCompleted(t)
  <2>1. /\ pay[t].pc = "complete" /\ pay'[t].pc = "snapshot"
        /\ spent' = spent + Amount[t] /\ pay'[t].bal = pay[t].bal
        /\ faults' = faults /\ UNCHANGED <<mongo, redis, adjusted>>
    BY <1>4, StepMoves DEF MarkAsCompleted, PayPc
  <2>2. /\ redis # NoKey /\ mongo = Due /\ redis = mongo - Amount[t]
        /\ pay[t].bal = redis
    BY <2>1, PayoutAlone DEF PayoutMoney, Inside, Moving
  <2>3. Due = Due' + Amount[t]
    BY <1>0, <2>1 DEF Due
  <2>4. PayoutMoney(t)'
    BY <2>1, <2>2, <2>3 DEF PayoutMoney
  <2>5. QED
    BY <2>1, <2>2, <2>4, PayoutAlone, PayoutLeaves DEF Inside, Moving
<1>5. CASE SyncMongo(t)
  <2>1. /\ pay[t].pc = "snapshot" /\ pay'[t].pc = "release"
        /\ faults' = faults /\ UNCHANGED <<redis, spent, adjusted>>
        /\ user.exists => mongo' = pay[t].bal
    BY <1>5, StepMoves DEF SyncMongo, PayPc
  <2>2. /\ redis # NoKey /\ mongo = Due + Amount[t]
        /\ redis = mongo - Amount[t] /\ pay[t].bal = redis /\ user.exists
    BY <2>1, PayoutAlone DEF PayoutMoney, Inside, Moving
  <2>3. Due' = Due /\ Due \in Int
    BY <1>0, <2>1 DEF Due
  <2>4. redis' = mongo' /\ mongo' = Due' /\ PayoutMoney(t)'
    BY <1>0, <2>1, <2>2, <2>3 DEF PayoutMoney
  <2>5. QED
    BY <2>1, <2>2, <2>4, PayoutAlone, PayoutLeaves DEF Inside, Moving
<1>6. QED
  BY <1>1, <1>2, <1>3, <1>4, <1>5 DEF Payout, Waiting

(* An adjustment that has the account to itself.                           *)
LEMMA AdjustAlone ==
    ASSUME MoneyInv, ~disturbed, faults <= 1, NEW r \in Requests, Adjusting(r)
    PROVE  /\ user.exists
           /\ \A q \in Requests \ {r} : ~Adjusting(q)
           /\ \A t \in Txns : ~Moving(t)
           /\ AdjustMoney(r)
           /\ mongo = Due
           /\ req[r].pc = "adjust" => redis \in {NoKey, mongo}
<1>1. /\ ~Disturbance
      /\ AdjustMoney(r)
      /\ (\A t \in Txns : pay[t].pc # "snapshot") => mongo = Due
      /\ Written => redis \in {NoKey, mongo}
  BY DEF MoneyInv
<1>2. /\ user.exists
      /\ \A q \in Requests \ {r} : ~Adjusting(q)
      /\ \A t \in Txns : ~Moving(t)
  BY <1>1 DEF Disturbance
<1>3. \A t \in Txns : pay[t].pc \notin {"snapshot", "complete"}
  BY <1>2 DEF Moving
<1>4. req[r].pc = "adjust" => Written
  BY <1>2, <1>3 DEF Written, Adjusting
<1>5. QED
  BY <1>1, <1>2, <1>3, <1>4

LEMMA AdjustLeaves ==
    ASSUME ~Disturbance', NEW r \in Requests, AdjustMoney(r)',
           \A q \in Requests \ {r} : ~Adjusting(q) /\ req'[q] = req[q],
           \A t \in Txns : ~Moving(t), pay' = pay, mongo' = Due',
           req'[r].pc \notin {"adjustRedis", "adjustSync"}
             => redis' \in {NoKey, mongo'}
    PROVE  MoneyInv'
<1>1. \A t \in Txns : PayoutMoney(t)'
  BY DEF PayoutMoney, Moving, Early
<1>2. \A q \in Requests : AdjustMoney(q)'
  BY DEF AdjustMoney, Adjusting
<1>3. QED
  BY <1>1, <1>2 DEF MoneyInv, Written

LEMMA AdjustMoneyStep ==
    ASSUME TypeOK, MoneyInv, Observe, NEW r \in Requests, AdjustBalance(r)
    PROVE  MoneyInv'
<1> SUFFICES ASSUME ~disturbed', faults' <= 1
             PROVE  MoneyInv'
  BY DEF MoneyInv
<1> USE DEF profileVars, sums
<1>0. /\ mongo \in Nat /\ spent \in Nat /\ faults \in Nat
      /\ adjusted \in Int /\ InitBalance \in Nat /\ InitUsage \in Nat
      /\ redis # NoKey => redis \in Nat
      /\ Moved(r) \in Int
  BY AccountsAssumption DEF TypeOK, Moved, Signed
<1>1. ~disturbed /\ ~Disturbance'
  BY DEF Observe
<1>2. CASE AdjustLoad(r)
  <2>1. PICK credit \in BOOLEAN :
          req' = [req EXCEPT ![r] =
            [NoRequest EXCEPT
               !.pc = "adjust", !.credit = credit,
               !.to = mongo + Signed(credit)]]
    BY <1>2 DEF AdjustLoad
  <2>2. /\ req'[r].pc = "adjust" /\ req'[r].credit = credit
        /\ req'[r].to = mongo + Signed(credit)
        /\ \A q \in Requests \ {r} : req'[q] = req[q]
        /\ req[r].pc = "idle"
        /\ UNCHANGED <<mongo, redis, pay, spent, adjusted, faults>>
    BY <1>2, <2>1 DEF AdjustLoad, TypeOK, NoRequest
  <2>3. /\ \A q \in Requests \ {r} : ~Adjusting(q)
        /\ \A t \in Txns : ~Moving(t)
    BY <1>1, <2>2 DEF Disturbance, Adjusting, Moving
  <2>4. mongo = Due /\ redis \in {NoKey, mongo}
    BY <1>1, <2>2, <2>3 DEF MoneyInv, Written, Adjusting, Moving
  <2>5. AdjustMoney(r)' /\ Due' = Due
    BY <2>2 DEF AdjustMoney, Moved, Due
  <2>6. QED
    BY <1>1, <2>2, <2>3, <2>4, <2>5, AdjustLeaves
<1>3. CASE AdjustMongo(r)
  <2>1. /\ req[r].pc = "adjust" /\ req' = [req EXCEPT ![r].pc = "adjustRedis"]
        /\ mongo' = IF user.exists THEN req[r].to ELSE mongo
        /\ adjusted' = adjusted + Moved(r)
        /\ UNCHANGED <<redis, pay, spent, faults>>
    BY <1>3 DEF AdjustMongo
  <2>2. /\ req'[r].pc = "adjustRedis" /\ req'[r].to = req[r].to
        /\ Moved(r)' = Moved(r)
        /\ \A q \in Requests \ {r} : req'[q] = req[q]
    BY <2>1, RequestGoes DEF Moved
  <2>3. /\ user.exists /\ mongo = Due /\ redis \in {NoKey, mongo}
        /\ req[r].to = mongo + Moved(r)
        /\ \A q \in Requests \ {r} : ~Adjusting(q)
        /\ \A t \in Txns : ~Moving(t)
    BY <1>1, <2>1, AdjustAlone DEF Adjusting, AdjustMoney
  <2>4. Due' = Due + Moved(r)
    BY <1>0, <2>1 DEF Due
  <2>5. AdjustMoney(r)' /\ mongo' = Due'
    BY <1>0, <2>1, <2>2, <2>3, <2>4 DEF AdjustMoney
  <2>6. QED
    BY <1>1, <2>1, <2>2, <2>3, <2>5, AdjustLeaves
<1>4. CASE AdjustRedis(r)
  <2>1. /\ req[r].pc = "adjustRedis"
        /\ UNCHANGED <<mongo, pay, spent, adjusted>>
        /\ \/ /\ Movable(r) /\ redis' = redis + Moved(r)
              /\ \/ Answer(r) /\ faults' = faults
                 \/ Fault
           \/ ~Movable(r) /\ redis' = redis /\ faults' = faults /\ ~Answer(r)
           \/ redis' = redis /\ Fault
        /\ Answer(r) \/ req' = [req EXCEPT ![r].pc = "adjustSync"]
        /\ Answer(r) => Movable(r) /\ redis' = redis + Moved(r)
    <3>1. ~(Answer(r) /\ req' = [req EXCEPT ![r].pc = "adjustSync"])
      BY AnswerDone, RequestGoes
    <3>2. QED
      BY <1>4, <3>1 DEF AdjustRedis
  <2>2. /\ mongo = Due /\ req[r].to = mongo
        /\ redis \in {NoKey, mongo - Moved(r)}
        /\ \A q \in Requests \ {r} : ~Adjusting(q)
        /\ \A t \in Txns : ~Moving(t)
    BY <1>0, <1>1, <2>1, AdjustAlone DEF Adjusting, AdjustMoney, Fault
  <2>3. Due' = Due
    BY <2>1 DEF Due
  <2>4. \A q \in Requests \ {r} : req'[q] = req[q]
    BY <2>1, AnswerDone, RequestGoes
  <2>5. CASE Answer(r)
    <3>1. req'[r].pc = "done" /\ redis' = mongo
      BY <1>0, <2>1, <2>2, <2>5, AnswerDone DEF Movable
    <3>2. QED
      BY <1>1, <2>1, <2>2, <2>3, <2>4, <3>1, AdjustLeaves DEF AdjustMoney
  <2>6. CASE ~Answer(r)
    <3>1. req'[r].pc = "adjustSync" /\ req'[r].to = req[r].to
      BY <2>1, <2>6, RequestGoes
    <3>2. ~Movable(r) => redis = NoKey
      BY <1>0, <2>2 DEF Movable
    <3>3. redis' = NoKey \/ faults' = 1
      BY <1>0, <2>1, <2>6, <3>2 DEF Fault
    <3>4. QED
      BY <1>1, <2>1, <2>2, <2>3, <2>4, <3>1, <3>3, AdjustLeaves
      DEF AdjustMoney
  <2>7. QED
    BY <2>5, <2>6
<1>5. CASE AdjustSync(r)
  <2>1. /\ req[r].pc = "adjustSync" /\ Answer(r)
        /\ UNCHANGED <<mongo, pay, spent, adjusted>>
        /\ \/ redis' = req[r].to /\ faults' = faults
           \/ redis' = redis /\ Fault
    BY <1>5 DEF AdjustSync
  <2>2. /\ req'[r].pc = "done"
        /\ \A q \in Requests \ {r} : req'[q] = req[q]
    BY <2>1, AnswerDone
  <2>3. /\ mongo = Due /\ req[r].to = mongo
        /\ redis = NoKey \/ faults = 1
        /\ \A q \in Requests \ {r} : ~Adjusting(q)
        /\ \A t \in Txns : ~Moving(t)
    BY <1>0, <1>1, <2>1, AdjustAlone DEF Adjusting, AdjustMoney, Fault
  <2>4. redis' \in {NoKey, mongo} /\ Due' = Due
    BY <1>0, <2>1, <2>3 DEF Fault, Due
  <2>5. QED
    BY <1>1, <2>1, <2>2, <2>3, <2>4, AdjustLeaves DEF AdjustMoney
<1>6. QED
  BY <1>2, <1>3, <1>4, <1>5 DEF AdjustBalance

(* The other requests: those that change the balance find no document.     *)
LEMMA RequestMoneyStep ==
    ASSUME TypeOK, MoneyInv, Observe, NEW r \in Requests,
           Wallet(r) \/ Profile(r) \/ Limit(r)
    PROVE  MoneyInv'
<1> SUFFICES ASSUME ~disturbed', faults' <= 1
             PROVE  MoneyInv'
  BY DEF MoneyInv
<1> USE DEF profileVars, sums
<1>1. UNCHANGED <<redis, pay, spent, adjusted, faults>>
  <2>1. CASE Wallet(r)
    BY <2>1 DEF Wallet, WalletLoad, WalletSave, WalletSaveFails
  <2>2. CASE Profile(r)
    BY <2>2 DEF Profile, UpdateUserStatus, DeletePayoutUser, CreateCheck,
                CreatePayoutUser
  <2>3. CASE Limit(r)
    BY <2>3
    DEF Limit, SetLimit, RemoveUserSpendingLimit, DeleteLimit, ClearUsage
  <2>4. QED
    BY <2>1, <2>2, <2>3
<1>2. ~disturbed /\ user.exists
  BY <1>1 DEF Observe, MoneyInv, Disturbance
<1>3. /\ req[r].pc \notin AdjustPc /\ req'[r].pc \notin AdjustPc
      /\ \A q \in Requests \ {r} : req'[q] = req[q]
  <2>1. CASE \E c \in Currencies : WalletLoad(r, c)
    BY <2>1 DEF WalletLoad, WalletRead, TypeOK, NoRequest, AdjustPc
  <2>2. CASE WalletSave(r) \/ WalletSaveFails(r)
    BY <2>2, AnswerDone DEF WalletSave, WalletSaveFails, AdjustPc
  <2>3. CASE UpdateUserStatus(r) \/ DeletePayoutUser(r) \/ CreatePayoutUser(r)
    BY <2>3, AnswerDone
    DEF UpdateUserStatus, DeletePayoutUser, CreatePayoutUser, AdjustPc
  <2>4. CASE CreateCheck(r) \/ DeleteLimit(r)
    BY <2>4, RequestGoes DEF CreateCheck, DeleteLimit, AdjustPc
  <2>5. CASE SetLimit(r) \/ RemoveUserSpendingLimit(r) \/ ClearUsage(r)
    BY <2>5, AnswerDone
    DEF SetLimit, RemoveUserSpendingLimit, ClearUsage, AdjustPc
  <2>6. QED
    BY <2>1, <2>2, <2>3, <2>4, <2>5 DEF Wallet, Profile, Limit
<1>4. mongo' = mongo
  <2>1. CASE Wallet(r)
    BY <2>1 DEF Wallet, WalletLoad, WalletSave, WalletSaveFails
  <2>2. CASE Profile(r)
    BY <1>2, <2>2 DEF Profile, UpdateUserStatus, DeletePayoutUser,
                      CreateCheck, CreatePayoutUser
  <2>3. CASE Limit(r)
    BY <2>3
    DEF Limit, SetLimit, RemoveUserSpendingLimit, DeleteLimit, ClearUsage
  <2>4. QED
    BY <2>1, <2>2, <2>3
<1>5. QED
  BY <1>1, <1>3, <1>4, MoneyFrame

LEMMA MoneyStep == TypeOK /\ LockHeld /\ MoneyInv /\ [Next]_vars => MoneyInv'
<1> SUFFICES ASSUME TypeOK, LockHeld, MoneyInv, [Next]_vars
             PROVE  MoneyInv'
  OBVIOUS
<1>1. CASE ExpireCounter /\ Observe
  BY <1>1, MoneyFrame DEF ExpireCounter, profileVars, sums
<1>2. CASE UNCHANGED vars
  BY <1>2 DEF vars, profileVars, sums, observed, MoneyInv, Disturbance,
              Adjusting, Moving, PayoutMoney, AdjustMoney, Moved, Written, Due
<1>3. CASE Next
  BY <1>1, <1>3, ScenePayouts, PayoutMoneyStep, AdjustMoneyStep,
     RequestMoneyStep DEF Next
<1>4. QED
  BY <1>2, <1>3

(* Unless adjustments and payouts overlapped or the profile was deleted,   *)
(* MongoDB and Redis come to rest on the same, right, amount, although one *)
(* call of adjustBalance may have failed or lost its reply.                *)
THEOREM StoresAgree == Spec => []MoneyExact
<1>1. MoneyInv => MoneyExact
  <2> SUFFICES ASSUME MoneyInv, Quiet, ~disturbed, faults <= 1
               PROVE  /\ redis \in {NoKey, mongo}
                      /\ mongo = InitBalance + adjusted - (spent - InitUsage)
    BY DEF MoneyExact
  <2>1. \A t \in Txns : pay[t].pc \notin {"complete", "snapshot"}
    BY DEF Quiet, Moving
  <2>2. Written
    BY <2>1 DEF Quiet, Written, Adjusting
  <2>3. QED
    BY <2>1, <2>2 DEF MoneyInv, Due
<1>2. QED
  BY <1>1, TypeInit, TypeStep, LockInit, LockStep, MoneyInit, MoneyStep, PTL
  DEF Spec
=============================================================================
