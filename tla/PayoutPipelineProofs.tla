------------------------ MODULE PayoutPipelineProofs ------------------------
(***************************************************************************)
(* Theorems about PayoutPipeline, for any sets of users, payouts and       *)
(* workers, any amounts and balances, and any number of faults of any kind.*)
(***************************************************************************)
EXTENDS PayoutPipeline, TLAPS

-----------------------------------------------------------------------------
(* Lemmas about the operators.                                             *)

(* What a Lua reply keeps of a natural number is a natural number.         *)
LEMMA TruncateNat ==
    ASSUME NEW n \in Nat
    PROVE  Truncate(n) \in Nat
<1>1. n \div Unit \in Nat
  BY DataAssumption
<1>2. QED
  BY <1>1, DataAssumption DEF Truncate

(* Every exception raised in the handler leads to a place in it.           *)
LEMMA OnErrorType ==
    ASSUME NEW p \in HandlerPc
    PROVE  OnError(p) \in HandlerPc
BY DEF OnError, HandlerPc

(* Freeing a lock, or not, leaves a lock table.                            *)
LEMMA ReleasedType ==
    ASSUME TypeOK, NEW t \in Txns
    PROVE  Released(t) \in [Users -> Txns \union {Nobody}]
BY DataAssumption DEF Released, TypeOK

-----------------------------------------------------------------------------
(* Type correctness.                                                       *)

LEMMA TypeInit == Init => TypeOK
BY DataAssumption, BoundAssumption
   DEF Init, TypeOK, GatewayPc, HandlerPc, TxStatus, Balance

(* A fault stays within the bound on faults.                               *)
LEMMA FaultType ==
    ASSUME TypeOK, NEW kind, Fault(kind)
    PROVE  faults' \in 0 .. MaxFaults
BY BoundAssumption DEF TypeOK, Fault

(* A step of the gateway leaves every request at a place in its handler.   *)
LEMMA GoToType ==
    ASSUME TypeOK, NEW t \in Txns, NEW p, NEW q \in GatewayPc, GoTo(t, p, q)
    PROVE  pc' \in [Txns -> GatewayPc]
BY DEF TypeOK, GoTo

LEMMA AnsweredType ==
    ASSUME TypeOK, NEW t \in Txns, NEW p, NEW q \in GatewayPc,
           NEW e \in GatewayPc, Answered(t, p, q, e)
    PROVE  pc' \in [Txns -> GatewayPc] /\ faults' \in 0 .. MaxFaults
<1>1. CASE GoTo(t, p, q) /\ UNCHANGED faults
  BY <1>1, GoToType DEF TypeOK
<1>2. CASE GoTo(t, p, e) /\ Fault("store")
  BY <1>2, GoToType, FaultType
<1>3. QED
  BY <1>1, <1>2 DEF Answered

(* The places named in the gateway's actions are places in its handler.    *)
LEMMA GatewayPlaces ==
    \A p \in {"idle", "loaded", "locked", "unsynced", "synced", "funded",
              "created", "failing", "accepted", "rejected", "gone"} :
        p \in GatewayPc
BY DEF GatewayPc

LEMMA TypeGateway ==
    ASSUME TypeOK, NEW t \in Txns, LoadUser(t) \/ Gateway(t)
    PROVE  TypeOK'
<1> USE GatewayPlaces, GoToType, AnsweredType
    DEF gatewayVars, brokerVars, handlerVars, queryVars, ledgerVars
<1>0. Owner[t] \in Users
  BY DataAssumption
<1>1. CASE LoadUser(t)
  <2>1. snap' \in [Txns -> Nat] /\ pc' \in [Txns -> GatewayPc]
    BY <1>0, <1>1 DEF LoadUser, TypeOK
  <2>2. QED
    BY <1>1, <2>1 DEF LoadUser, TypeOK
<1>2. CASE AcquireLock(t)
  <2>1. pc' \in [Txns -> GatewayPc] /\ faults' \in 0 .. MaxFaults
    BY <1>2 DEF AcquireLock
  <2>2. lock' \in [Users -> Txns \union {Nobody}]
    BY <1>0, <1>2 DEF AcquireLock, TypeOK
  <2>3. QED
    BY <1>2, <2>1, <2>2 DEF AcquireLock, TypeOK
<1>3. CASE RejectUnlocked(t)
  <2>1. pc' \in [Txns -> GatewayPc]
    BY <1>3 DEF RejectUnlocked
  <2>2. QED
    BY <1>3, <2>1 DEF RejectUnlocked, TypeOK
<1>4. CASE RejectLocked(t)
  <2>1. pc' \in [Txns -> GatewayPc]
    BY <1>4 DEF RejectLocked
  <2>2. QED
    BY <1>4, <2>1 DEF RejectLocked, TypeOK
<1>5. CASE ReadBalance(t)
  <2>1. pc' \in [Txns -> GatewayPc]
    BY <1>5 DEF ReadBalance
  <2>2. QED
    BY <1>5, <2>1 DEF ReadBalance, TypeOK
<1>6. CASE SyncBalance(t)
  <2>1. pc' \in [Txns -> GatewayPc] /\ faults' \in 0 .. MaxFaults
    BY <1>6 DEF SyncBalance
  <2>2. redis' \in [Users -> Balance]
    BY <1>0, <1>6 DEF SyncBalance, TypeOK, Balance
  <2>3. QED
    BY <1>6, <2>1, <2>2 DEF SyncBalance, TypeOK
<1>7. CASE CheckFunds(t)
  <2>1. pc' \in [Txns -> GatewayPc]
    BY <1>7 DEF CheckFunds
  <2>2. QED
    BY <1>7, <2>1 DEF CheckFunds, TypeOK
<1>8. CASE CreateTransaction(t)
  <2>1. pc' \in [Txns -> GatewayPc] /\ faults' \in 0 .. MaxFaults
    BY <1>8 DEF CreateTransaction
  <2>2. tx' \in [Txns -> TxStatus]
    BY <1>8 DEF CreateTransaction, TypeOK, TxStatus
  <2>3. QED
    BY <1>8, <2>1, <2>2 DEF CreateTransaction, TypeOK
<1>9. CASE Publish(t)
  <2>1. pc' \in [Txns -> GatewayPc] /\ faults' \in 0 .. MaxFaults
    BY <1>9, FaultType DEF Publish, TypeOK
  <2>2. QED
    BY <1>9, <2>1 DEF Publish, TypeOK
<1>10. CASE PublishOnLostChannel(t)
  <2>1. pc' \in [Txns -> GatewayPc]
    BY <1>10 DEF PublishOnLostChannel
  <2>2. QED
    BY <1>10, <2>1 DEF PublishOnLostChannel, TypeOK
<1>11. CASE ReleaseOnFailure(t)
  <2>1. pc' \in [Txns -> GatewayPc]
    BY <1>11 DEF ReleaseOnFailure
  <2>2. lock' \in [Users -> Txns \union {Nobody}]
    BY <1>11, ReleasedType DEF ReleaseOnFailure
  <2>3. QED
    BY <1>11, <2>1, <2>2 DEF ReleaseOnFailure, TypeOK
<1>12. QED
  BY <1>1, <1>2, <1>3, <1>4, <1>5, <1>6, <1>7, <1>8, <1>9, <1>10, <1>11
     DEF Gateway

LEMMA TypeQuery ==
    ASSUME TypeOK, NEW u \in Users, Query(u)
    PROVE  TypeOK'
<1> USE DEF gatewayVars, brokerVars, handlerVars, queryVars, ledgerVars
<1>1. CASE QueryMiss(u)
  BY <1>1 DEF QueryMiss, TypeOK
<1>2. CASE QueryLoad(u)
  BY <1>2 DEF QueryLoad, TypeOK
<1>3. CASE QuerySync(u)
  BY <1>3 DEF QuerySync, TypeOK, Balance
<1>4. QED
  BY <1>1, <1>2, <1>3 DEF Query

(* A step of a handler leaves it at a place in processMessage.             *)
LEMMA MoveType ==
    ASSUME TypeOK, NEW w \in Workers, NEW t \in Txns, NEW p \in HandlerPc,
           Move(w, t, p)
    PROVE  h' \in [Workers -> [Txns -> HandlerPc]]
BY DEF TypeOK, Move

LEMMA ReplyType ==
    ASSUME TypeOK, NEW w \in Workers, NEW t \in Txns, NEW p \in HandlerPc,
           Reply(w, t, p)
    PROVE  /\ h' \in [Workers -> [Txns -> HandlerPc]]
           /\ faults' \in 0 .. MaxFaults
<1>1. CASE Move(w, t, p) /\ UNCHANGED faults
  BY <1>1, MoveType DEF TypeOK
<1>2. CASE Move(w, t, OnError(h[w][t])) /\ Fault("store")
  <2>1. OnError(h[w][t]) \in HandlerPc
    BY OnErrorType DEF TypeOK
  <2>2. QED
    BY <1>2, <2>1, MoveType, FaultType
<1>3. QED
  BY <1>1, <1>2 DEF Reply

(* A handler that ends leaves no place and no balance behind.              *)
LEMMA DoneType ==
    ASSUME TypeOK, NEW w \in Workers, NEW t \in Txns, Done(w, t)
    PROVE  /\ h' \in [Workers -> [Txns -> HandlerPc]]
           /\ ret' \in [Workers -> [Txns -> Nat]]
BY DEF TypeOK, Done, HandlerPc

(* The places named in the handler's actions are places in processMessage. *)
LEMMA HandlerPlaces ==
    \A p \in {"none", "load", "mark", "check", "deduct", "complete",
              "snapshot", "release", "ack", "refund", "refundNoTx", "fail",
              "nack"} : p \in HandlerPc
BY DEF HandlerPc

(* The handler's steps on the stores, each of which sets tx, redis, mongo, *)
(* lock or ret and moves the handler on.                                   *)
LEMMA TypeHandlerStores ==
    ASSUME TypeOK, NEW w \in Workers, NEW t \in Txns,
           \/ LoadTransaction(w, t)
           \/ MarkAsProcessing(w, t)
           \/ RecheckBalance(w, t)
           \/ Deduct(w, t)
           \/ DeductRefused(w, t)
           \/ MarkAsCompleted(w, t)
           \/ SyncMongo(w, t)
           \/ ReleaseLock(w, t)
           \/ Refund(w, t)
           \/ MarkAsFailed(w, t)
    PROVE  TypeOK'
<1> USE HandlerPlaces, MoveType, ReplyType
    DEF gatewayVars, brokerVars, queryVars, ledgerVars
<1>0. Owner[t] \in Users /\ Amount[t] \in Nat
  BY DataAssumption
<1>1. CASE LoadTransaction(w, t)
  <2>1. h' \in [Workers -> [Txns -> HandlerPc]]
    BY <1>1 DEF LoadTransaction
  <2>2. QED
    BY <1>1, <2>1 DEF LoadTransaction, TypeOK
<1>2. CASE MarkAsProcessing(w, t)
  <2>1. h' \in [Workers -> [Txns -> HandlerPc]] /\ faults' \in 0 .. MaxFaults
    BY <1>2 DEF MarkAsProcessing
  <2>2. tx' \in [Txns -> TxStatus]
    BY <1>2 DEF MarkAsProcessing, TypeOK, TxStatus
  <2>3. QED
    BY <1>2, <2>1, <2>2 DEF MarkAsProcessing, TypeOK
<1>3. CASE RecheckBalance(w, t)
  <2>1. h' \in [Workers -> [Txns -> HandlerPc]]
    BY <1>3 DEF RecheckBalance
  <2>2. QED
    BY <1>3, <2>1 DEF RecheckBalance, TypeOK
<1>4. CASE Deduct(w, t)
  <2>1. h' \in [Workers -> [Txns -> HandlerPc]] /\ faults' \in 0 .. MaxFaults
    BY <1>4 DEF Deduct
  <2>2. redis[Owner[t]] - Amount[t] \in Nat
    BY <1>0, <1>4, DataAssumption DEF Deduct, HasFunds, TypeOK, Balance
  <2>3. redis' \in [Users -> Balance]
    BY <1>0, <1>4, <2>2 DEF Deduct, TypeOK, Balance
  <2>4. ret' \in [Workers -> [Txns -> Nat]]
    BY <1>4, <2>2, TruncateNat DEF Deduct, TypeOK
  <2>5. deducted' \in [Txns -> Nat]
    BY <1>4 DEF Deduct, TypeOK
  <2>6. QED
    BY <1>4, <2>1, <2>3, <2>4, <2>5 DEF Deduct, TypeOK
<1>5. CASE DeductRefused(w, t)
  <2>1. h' \in [Workers -> [Txns -> HandlerPc]]
    BY <1>5 DEF DeductRefused
  <2>2. QED
    BY <1>5, <2>1 DEF DeductRefused, TypeOK
<1>6. CASE MarkAsCompleted(w, t)
  <2>1. h' \in [Workers -> [Txns -> HandlerPc]] /\ faults' \in 0 .. MaxFaults
    BY <1>6 DEF MarkAsCompleted
  <2>2. tx' \in [Txns -> TxStatus]
    BY <1>6 DEF MarkAsCompleted, TypeOK, TxStatus
  <2>3. QED
    BY <1>6, <2>1, <2>2 DEF MarkAsCompleted, TypeOK
<1>7. CASE SyncMongo(w, t)
  <2>1. h' \in [Workers -> [Txns -> HandlerPc]] /\ faults' \in 0 .. MaxFaults
    BY <1>7 DEF SyncMongo
  <2>2. mongo' \in [Users -> Nat]
    BY <1>0, <1>7 DEF SyncMongo, TypeOK
  <2>3. QED
    BY <1>7, <2>1, <2>2 DEF SyncMongo, TypeOK
<1>8. CASE ReleaseLock(w, t)
  <2>1. h' \in [Workers -> [Txns -> HandlerPc]] /\ faults' \in 0 .. MaxFaults
    BY <1>8 DEF ReleaseLock
  <2>2. lock' \in [Users -> Txns \union {Nobody}]
    BY <1>8, ReleasedType DEF ReleaseLock
  <2>3. QED
    BY <1>8, <2>1, <2>2 DEF ReleaseLock, TypeOK
<1>9. CASE Refund(w, t)
  <2>1. h' \in [Workers -> [Txns -> HandlerPc]] /\ faults' \in 0 .. MaxFaults
    BY <1>9 DEF Refund
  <2>2. redis' \in [Users -> Balance]
    BY <1>0, <1>9 DEF Refund, TypeOK, Balance
  <2>3. restored' \in [Txns -> Nat]
    BY <1>9 DEF Refund, TypeOK
  <2>4. QED
    BY <1>9, <2>1, <2>2, <2>3 DEF Refund, TypeOK
<1>10. CASE MarkAsFailed(w, t)
  <2>1. h' \in [Workers -> [Txns -> HandlerPc]] /\ faults' \in 0 .. MaxFaults
    BY <1>10 DEF MarkAsFailed
  <2>2. tx' \in [Txns -> TxStatus]
    BY <1>10 DEF MarkAsFailed, TypeOK, TxStatus
  <2>3. QED
    BY <1>10, <2>1, <2>2 DEF MarkAsFailed, TypeOK
<1>11. QED
  BY <1>1, <1>2, <1>3, <1>4, <1>5, <1>6, <1>7, <1>8, <1>9, <1>10

(* The handler's dealings with the broker, and its timers.                 *)
LEMMA TypeHandlerBroker ==
    ASSUME TypeOK, NEW w \in Workers, NEW t \in Txns,
           \/ Deliver(w, t)
           \/ Ack(w, t)
           \/ HandleFailure(w, t)
           \/ AnswerOnLostChannel(w, t)
           \/ Timer(w, t)
    PROVE  TypeOK'
<1> USE DEF gatewayVars, brokerVars, handlerVars, queryVars, ledgerVars
<1>1. CASE Deliver(w, t)
  <2>1. h' \in [Workers -> [Txns -> HandlerPc]]
    BY <1>1, HandlerPlaces, MoveType DEF Deliver
  <2>2. QED
    BY <1>1, <2>1 DEF Deliver, TypeOK
<1>2. CASE Ack(w, t)
  <2>1. /\ h' \in [Workers -> [Txns -> HandlerPc]]
        /\ ret' \in [Workers -> [Txns -> Nat]]
    BY <1>2, DoneType DEF Ack
  <2>2. QED
    BY <1>2, <2>1 DEF Ack, TypeOK
<1>3. CASE HandleFailure(w, t)
  <2>1. /\ h' \in [Workers -> [Txns -> HandlerPc]]
        /\ ret' \in [Workers -> [Txns -> Nat]]
    BY <1>3, DoneType DEF HandleFailure
  <2>2. timers' \in [Workers -> SUBSET Txns]
    BY <1>3 DEF HandleFailure, TypeOK
  <2>3. dlq' \in [Txns -> Nat]
    BY <1>3 DEF HandleFailure, TypeOK
  <2>4. QED
    BY <1>3, <2>1, <2>2, <2>3 DEF HandleFailure, TypeOK
<1>4. CASE AnswerOnLostChannel(w, t)
  <2>1. /\ h' \in [Workers -> [Txns -> HandlerPc]]
        /\ ret' \in [Workers -> [Txns -> Nat]]
    BY <1>4, DoneType DEF AnswerOnLostChannel
  <2>2. QED
    BY <1>4, <2>1 DEF AnswerOnLostChannel, TypeOK
<1>5. CASE Republish(w, t)
  <2>1. timers' \in [Workers -> SUBSET Txns]
    BY <1>5 DEF Republish, TypeOK
  <2>2. retry' \in [Txns -> Nat]
    BY <1>5 DEF Republish, TypeOK
  <2>3. QED
    BY <1>5, <2>1, <2>2 DEF Republish, TypeOK
<1>6. CASE RepublishOnLostChannel(w, t)
  <2>1. timers' \in [Workers -> SUBSET Txns]
    BY <1>6 DEF RepublishOnLostChannel, TypeOK
  <2>2. QED
    BY <1>6, <2>1 DEF RepublishOnLostChannel, TypeOK
<1>7. QED
  BY <1>1, <1>2, <1>3, <1>4, <1>5, <1>6 DEF Timer

(* The scripts that run twice.                                             *)
LEMMA TypeResent ==
    ASSUME TypeOK, NEW w \in Workers, NEW t \in Txns,
           DeductResent(w, t) \/ RefundResent(w, t)
    PROVE  TypeOK'
<1> USE HandlerPlaces, MoveType, FaultType
    DEF gatewayVars, brokerVars, queryVars, ledgerVars
<1>0. Owner[t] \in Users /\ Amount[t] \in Nat
  BY DataAssumption
<1>1. CASE DeductResent(w, t)
  <2> DEFINE both == redis[Owner[t]] - Amount[t] >= Amount[t]
             left == redis[Owner[t]] - (IF both THEN 2 ELSE 1) * Amount[t]
  <2>1. h' \in [Workers -> [Txns -> HandlerPc]] /\ faults' \in 0 .. MaxFaults
    BY <1>1 DEF DeductResent
  <2>2. redis[Owner[t]] \in Nat /\ redis[Owner[t]] >= Amount[t]
    BY <1>0, <1>1, DataAssumption DEF DeductResent, HasFunds, TypeOK, Balance
  <2>3. left \in Nat
    BY <1>0, <2>2
  <2>4. redis' = [redis EXCEPT ![Owner[t]] = left]
    BY <1>1 DEF DeductResent
  <2>5. redis' \in [Users -> Balance]
    BY <1>0, <2>3, <2>4 DEF TypeOK, Balance
  <2>6. ret' = IF both THEN [ret EXCEPT ![w][t] = Truncate(left)] ELSE ret
    BY <1>1 DEF DeductResent
  <2>7. Truncate(left) \in Nat
    BY <2>3, TruncateNat
  <2>8. ret' \in [Workers -> [Txns -> Nat]]
    BY <2>6, <2>7 DEF TypeOK
  <2>9. deducted' \in [Txns -> Nat]
    BY <1>1 DEF DeductResent, TypeOK
  <2>10. QED
    BY <1>1, <2>1, <2>5, <2>8, <2>9 DEF DeductResent, TypeOK
<1>2. CASE RefundResent(w, t)
  <2>1. h' \in [Workers -> [Txns -> HandlerPc]] /\ faults' \in 0 .. MaxFaults
    BY <1>2 DEF RefundResent
  <2>2. redis[Owner[t]] \in Nat
    BY <1>0, <1>2 DEF RefundResent, TypeOK, Balance
  <2>3. redis' \in [Users -> Balance]
    BY <1>0, <1>2, <2>2 DEF RefundResent, TypeOK, Balance
  <2>4. restored' \in [Txns -> Nat]
    BY <1>2 DEF RefundResent, TypeOK
  <2>5. QED
    BY <1>2, <2>1, <2>3, <2>4 DEF RefundResent, TypeOK
<1>3. QED
  BY <1>1, <1>2

(* Time and faults.                                                        *)
LEMMA TypeEnvironment ==
    ASSUME TypeOK, Environment
    PROVE  TypeOK'
<1> USE FaultType
    DEF gatewayVars, brokerVars, handlerVars, queryVars, ledgerVars
<1>1. CASE \E u \in Users : ExpireLock(u)
  BY <1>1 DEF ExpireLock, TypeOK
<1>2. ASSUME NEW t \in Txns, GatewayStoreError(t)
      PROVE  TypeOK'
  <2>1. pc' \in [Txns -> GatewayPc]
    BY <1>2, GatewayPlaces, GoToType DEF GatewayStoreError
  <2>2. faults' \in 0 .. MaxFaults
    BY <1>2 DEF GatewayStoreError
  <2>3. QED
    BY <1>2, <2>1, <2>2 DEF GatewayStoreError, TypeOK
<1>3. ASSUME NEW t \in Txns, ExpireMessage(t)
      PROVE  TypeOK'
  <2>1. faults' \in 0 .. MaxFaults
    BY <1>3 DEF ExpireMessage
  <2>2. dlq' \in [Txns -> Nat]
    BY <1>3 DEF ExpireMessage, TypeOK
  <2>3. QED
    BY <1>3, <2>1, <2>2 DEF ExpireMessage, TypeOK
<1>4. ASSUME NEW w \in Workers, NEW t \in Txns, HandlerStoreError(w, t)
      PROVE  TypeOK'
  <2>1. OnError(h[w][t]) \in HandlerPc
    BY OnErrorType DEF TypeOK
  <2>2. /\ h' \in [Workers -> [Txns -> HandlerPc]]
        /\ faults' \in 0 .. MaxFaults
    BY <1>4, <2>1, MoveType DEF HandlerStoreError
  <2>3. QED
    BY <1>4, <2>2 DEF HandlerStoreError, TypeOK
<1>5. ASSUME NEW w \in Workers, Crash(w)
      PROVE  TypeOK'
  <2>1. faults' \in 0 .. MaxFaults
    BY <1>5 DEF Crash
  <2>2. h' \in [Workers -> [Txns -> HandlerPc]]
    BY <1>5, HandlerPlaces DEF Crash, TypeOK
  <2>3. /\ ret' \in [Workers -> [Txns -> Nat]]
        /\ unacked' \in [Workers -> SUBSET Txns]
        /\ timers' \in [Workers -> SUBSET Txns]
        /\ queue' \in SUBSET Txns
        /\ link' \in [Workers -> {"up", "lost"}]
    BY <1>5 DEF Crash, TypeOK
  <2>4. QED
    BY <1>5, <2>1, <2>2, <2>3 DEF Crash, TypeOK
<1>6. ASSUME NEW w \in Workers, DropConnection(w)
      PROVE  TypeOK'
  <2>1. faults' \in 0 .. MaxFaults
    BY <1>6 DEF DropConnection
  <2>2. QED
    BY <1>6, <2>1 DEF DropConnection, TypeOK
<1>7. CASE DropGatewayConnection
  <2>1. faults' \in 0 .. MaxFaults
    BY <1>7 DEF DropGatewayConnection
  <2>2. QED
    BY <1>7, <2>1 DEF DropGatewayConnection, TypeOK
<1>8. CASE CrashGateway
  <2>1. faults' \in 0 .. MaxFaults
    BY <1>8 DEF CrashGateway
  <2>2. pc' \in [Txns -> GatewayPc]
    BY <1>8, GatewayPlaces DEF CrashGateway, TypeOK
  <2>3. QED
    BY <1>8, <2>1, <2>2 DEF CrashGateway, TypeOK
<1>9. CASE FlushRedis
  <2>1. faults' \in 0 .. MaxFaults
    BY <1>9 DEF FlushRedis
  <2>2. QED
    BY <1>9, <2>1 DEF FlushRedis, TypeOK, Balance
<1>10. ASSUME NEW w \in Workers, NEW t \in Txns, DeductResent(w, t)
       PROVE  TypeOK'
  BY <1>10, TypeResent
<1>11. ASSUME NEW w \in Workers, NEW t \in Txns, RefundResent(w, t)
       PROVE  TypeOK'
  BY <1>11, TypeResent
<1>12. QED
  BY <1>1, <1>2, <1>3, <1>4, <1>5, <1>6, <1>7, <1>8, <1>9, <1>10, <1>11
     DEF Environment

LEMMA TypeStep == TypeOK /\ [Next]_vars => TypeOK'
<1> SUFFICES ASSUME TypeOK, [Next]_vars
             PROVE  TypeOK'
  OBVIOUS
<1>1. CASE UNCHANGED vars
  BY <1>1 DEF vars, gatewayVars, brokerVars, handlerVars, queryVars,
              ledgerVars, TypeOK
<1>2. ASSUME NEW t \in Txns, LoadUser(t) \/ Gateway(t)
      PROVE  TypeOK'
  BY <1>2, TypeGateway
<1>3. ASSUME NEW u \in Users, Query(u)
      PROVE  TypeOK'
  BY <1>3, TypeQuery
<1>4. ASSUME NEW w \in Workers, NEW t \in Txns,
             Deliver(w, t) \/ Handler(w, t) \/ Timer(w, t)
      PROVE  TypeOK'
  BY <1>4, TypeHandlerStores, TypeHandlerBroker DEF Handler
<1>5. CASE Environment
  BY <1>5, TypeEnvironment
<1>6. QED
  BY <1>1, <1>2, <1>3, <1>4, <1>5 DEF Next

(* No interleaving of requests, workers, queries and faults takes a        *)
(* variable out of its type: above all, no balance ever becomes negative.  *)
THEOREM TypeCorrect == Spec => []TypeOK
<1>1. Init => TypeOK
  BY TypeInit
<1>2. TypeOK /\ [Next]_vars => TypeOK'
  BY TypeStep
<1>3. QED
  BY <1>1, <1>2, PTL DEF Spec

-----------------------------------------------------------------------------
(* Message accounting.  MessageAccounting is not inductive: that the count *)
(* in payout_dlq is right after a nack or a republication rests on the     *)
(* message having been in that one place, which is what Custody says.      *)

MessageInv == Custody /\ MessageAccounting

LEMMA MessageInit == Init => MessageInv
BY BoundAssumption
   DEF Init, MessageInv, Custody, WithWorker, MessageAccounting, InFlight,
       Waiting

(* The steps that leave the broker alone: no request goes back to before   *)
(* its publication, and where a channel is up no handler starts or ends.   *)
Forward == \A t \in Txns : pc'[t] \in BeforePublish => pc[t] \in BeforePublish

SameHandlers ==
    \A w \in Workers, t \in Txns :
        link[w] = "up" => (h'[w][t] # "none" <=> h[w][t] # "none")

LEMMA MessageFrame ==
    ASSUME MessageInv, Forward, SameHandlers,
           UNCHANGED <<brokerVars, published>>
    PROVE  MessageInv'
<1> USE DEF brokerVars
<1>1. \A t \in Txns : (Waiting(t) <=> Waiting(t)') /\ (InFlight(t) <=> InFlight(t)')
  BY DEF Waiting, InFlight
<1>2. \A w \in Workers, t \in Txns : WithWorker(w, t) => WithWorker(w, t)'
  BY <1>1 DEF WithWorker, SameHandlers
<1>3. Custody'
  BY <1>1, <1>2 DEF MessageInv, Custody, Forward
<1>4. MessageAccounting'
  BY <1>1 DEF MessageInv, MessageAccounting
<1>5. QED
  BY <1>3, <1>4 DEF MessageInv

(* A step of a request to a place that follows publication, or from one    *)
(* that precedes it, is a step forward.                                    *)
LEMMA GoToForward ==
    ASSUME TypeOK, NEW t \in Txns, NEW p, NEW q, GoTo(t, p, q),
           q \in BeforePublish => p \in BeforePublish
    PROVE  Forward
BY DEF GoTo, Forward, TypeOK

LEMMA AnsweredForward ==
    ASSUME TypeOK, NEW t \in Txns, NEW p \in BeforePublish, NEW q, NEW e,
           Answered(t, p, q, e)
    PROVE  Forward
BY GoToForward DEF Answered

LEMMA SameHandlersFrame ==
    ASSUME UNCHANGED h
    PROVE  SameHandlers
BY DEF SameHandlers

(* Every step of the gateway but the publication itself.                   *)
LEMMA MessageGateway ==
    ASSUME TypeOK, MessageInv, NEW t \in Txns,
           LoadUser(t) \/ Gateway(t) \/ GatewayStoreError(t), ~Publish(t)
    PROVE  MessageInv'
<1> USE GoToForward, AnsweredForward
    DEF BeforePublish, brokerVars, handlerVars
<1>1. UNCHANGED <<brokerVars, published>> /\ UNCHANGED h
  BY DEF Gateway, LoadUser, AcquireLock, RejectUnlocked, RejectLocked,
         ReadBalance, SyncBalance, CheckFunds, CreateTransaction,
         PublishOnLostChannel, ReleaseOnFailure, GatewayStoreError
<1>2. Forward
  <2>1. CASE LoadUser(t)
    BY <2>1 DEF LoadUser
  <2>2. CASE AcquireLock(t)
    BY <2>2 DEF AcquireLock
  <2>3. CASE RejectUnlocked(t)
    BY <2>3 DEF RejectUnlocked
  <2>4. CASE RejectLocked(t)
    BY <2>4 DEF RejectLocked
  <2>5. CASE ReadBalance(t)
    BY <2>5 DEF ReadBalance
  <2>6. CASE SyncBalance(t)
    BY <2>6 DEF SyncBalance
  <2>7. CASE CheckFunds(t)
    BY <2>7 DEF CheckFunds
  <2>8. CASE CreateTransaction(t)
    BY <2>8 DEF CreateTransaction
  <2>9. CASE PublishOnLostChannel(t)
    BY <2>9 DEF PublishOnLostChannel
  <2>10. CASE ReleaseOnFailure(t)
    BY <2>10 DEF ReleaseOnFailure
  <2>11. CASE GatewayStoreError(t)
    BY <2>11 DEF GatewayStoreError
  <2>12. QED
    BY <2>1, <2>2, <2>3, <2>4, <2>5, <2>6, <2>7, <2>8, <2>9, <2>10, <2>11
       DEF Gateway
<1>3. QED
  BY <1>1, <1>2, SameHandlersFrame, MessageFrame

LEMMA MessagePublish ==
    ASSUME TypeOK, MessageInv, NEW t \in Txns, Publish(t)
    PROVE  MessageInv'
<1> USE DEF handlerVars
<1>1. t \notin published
  BY DEF Publish, GoTo, MessageInv, Custody, BeforePublish
<1>2. pc'[t] \notin BeforePublish
      /\ \A s \in Txns \ {t} : pc'[s] = pc[s]
  BY DEF Publish, GoTo, TypeOK, BeforePublish
<1>3. \A s \in Txns : Waiting(s)' <=> Waiting(s)
  BY DEF Publish, Waiting
<1>4. \A w \in Workers : t \notin unacked[w] /\ t \notin timers[w]
  BY <1>1 DEF MessageInv, Custody, WithWorker
<1>5. t \notin acked
  BY <1>1 DEF MessageInv, Custody
<1>6. \A w \in Workers, s \in Txns : WithWorker(w, s)'
  BY <1>3, <1>4, <1>5 DEF Publish, MessageInv, Custody, WithWorker
<1>7. Custody'
  BY <1>2, <1>3, <1>4, <1>5, <1>6
     DEF Publish, MessageInv, Custody, Waiting
<1>8. InFlight(t)' /\ \A s \in Txns \ {t} : InFlight(s)' <=> InFlight(s)
  BY DEF Publish, InFlight
<1>9. dlq[t] = 0 /\ retry[t] = 0
  BY <1>1 DEF MessageInv, MessageAccounting
<1>10. MessageAccounting'
  BY <1>8, <1>9 DEF Publish, MessageInv, MessageAccounting
<1>11. QED
  BY <1>7, <1>10 DEF MessageInv

LEMMA MessageQuery ==
    ASSUME MessageInv, NEW u \in Users, Query(u)
    PROVE  MessageInv'
<1>1. UNCHANGED <<brokerVars, published, pc, h>>
  BY DEF Query, QueryMiss, QueryLoad, QuerySync, gatewayVars, handlerVars
<1>2. QED
  BY <1>1, SameHandlersFrame, MessageFrame DEF Forward

(* A step of a handler that is under way keeps it under way.               *)
LEMMA MoveHandlers ==
    ASSUME TypeOK, NEW w \in Workers, NEW t \in Txns, NEW p,
           h[w][t] # "none", p # "none", Move(w, t, p)
    PROVE  SameHandlers
BY DEF TypeOK, Move, SameHandlers

LEMMA OnErrorPlace ==
    ASSUME NEW p
    PROVE  OnError(p) # "none"
BY DEF OnError

LEMMA ReplyHandlers ==
    ASSUME TypeOK, NEW w \in Workers, NEW t \in Txns, NEW p,
           h[w][t] # "none", p # "none", Reply(w, t, p)
    PROVE  SameHandlers
BY MoveHandlers, OnErrorPlace DEF Reply

(* The handler's steps on the stores, with or without an error.            *)
LEMMA MessageHandlerStores ==
    ASSUME TypeOK, MessageInv, NEW w \in Workers, NEW t \in Txns,
           \/ LoadTransaction(w, t)
           \/ MarkAsProcessing(w, t)
           \/ RecheckBalance(w, t)
           \/ Deduct(w, t)
           \/ DeductRefused(w, t)
           \/ MarkAsCompleted(w, t)
           \/ SyncMongo(w, t)
           \/ ReleaseLock(w, t)
           \/ Refund(w, t)
           \/ MarkAsFailed(w, t)
           \/ HandlerStoreError(w, t)
           \/ DeductResent(w, t)
           \/ RefundResent(w, t)
    PROVE  MessageInv'
<1> USE DEF At
<1>1. UNCHANGED <<brokerVars, published, pc>>
  BY DEF LoadTransaction, MarkAsProcessing, RecheckBalance, Deduct,
         DeductRefused, MarkAsCompleted, SyncMongo, ReleaseLock, Refund,
         MarkAsFailed, HandlerStoreError, DeductResent, RefundResent,
         gatewayVars
<1>2. SameHandlers
  <2> USE MoveHandlers, ReplyHandlers
  <2>1. CASE LoadTransaction(w, t)
    BY <2>1 DEF LoadTransaction
  <2>2. CASE MarkAsProcessing(w, t)
    BY <2>2 DEF MarkAsProcessing
  <2>3. CASE RecheckBalance(w, t)
    BY <2>3 DEF RecheckBalance
  <2>4. CASE Deduct(w, t)
    BY <2>4 DEF Deduct
  <2>5. CASE DeductRefused(w, t)
    BY <2>5 DEF DeductRefused
  <2>6. CASE MarkAsCompleted(w, t)
    BY <2>6 DEF MarkAsCompleted
  <2>7. CASE SyncMongo(w, t)
    BY <2>7 DEF SyncMongo
  <2>8. CASE ReleaseLock(w, t)
    BY <2>8 DEF ReleaseLock
  <2>9. CASE Refund(w, t)
    BY <2>9 DEF Refund
  <2>10. CASE MarkAsFailed(w, t)
    BY <2>10 DEF MarkAsFailed
  <2>11. CASE HandlerStoreError(w, t)
    BY <2>11, OnErrorPlace DEF HandlerStoreError
  <2>12. CASE DeductResent(w, t)
    BY <2>12 DEF DeductResent
  <2>13. CASE RefundResent(w, t)
    BY <2>13 DEF RefundResent
  <2>14. QED
    BY <2>1, <2>2, <2>3, <2>4, <2>5, <2>6, <2>7, <2>8, <2>9, <2>10, <2>11,
       <2>12, <2>13
<1>3. QED
  BY <1>1, <1>2, MessageFrame DEF Forward

(* The steps that move one message.  Each is shown to leave the others     *)
(* where they were, then to put t in one place and in no other.            *)
LEMMA MessageDeliver ==
    ASSUME TypeOK, MessageInv, NEW w \in Workers, NEW t \in Txns, Deliver(w, t)
    PROVE  MessageInv'
<1> USE DEF gatewayVars
<1>1. /\ h'[w][t] # "none"
      /\ \A v \in Workers, s \in Txns :
           v # w \/ s # t => h'[v][s] = h[v][s]
  BY DEF Deliver, Move, TypeOK
<1>2. /\ queue' = queue \ {t}
      /\ unacked'[w] = unacked[w] \union {t}
      /\ \A v \in Workers \ {w} : unacked'[v] = unacked[v]
  BY DEF Deliver, TypeOK
<1>3. \A v \in Workers : t \notin unacked[v]
  BY DEF Deliver, MessageInv, Custody, WithWorker
<1>4. \A s \in Txns : Waiting(s)' <=> Waiting(s)
  BY DEF Deliver, Waiting
<1>5. \A s \in Txns : InFlight(s)' <=> InFlight(s)
  BY <1>2 DEF Deliver, InFlight
<1>6. \A v \in Workers, s \in Txns : WithWorker(v, s)'
  BY <1>1, <1>2, <1>3, <1>4 DEF Deliver, MessageInv, Custody, WithWorker
<1>7. Custody'
  BY <1>2, <1>4, <1>6 DEF Deliver, MessageInv, Custody
<1>8. MessageAccounting'
  BY <1>5 DEF Deliver, MessageInv, MessageAccounting
<1>9. QED
  BY <1>7, <1>8 DEF MessageInv

(* What Ack and HandleFailure share: w gives the message up.               *)
GivenUp(w, t) ==
    /\ h[w][t] # "none"
    /\ link[w] = "up"
    /\ Done(w, t)
    /\ unacked' = [unacked EXCEPT ![w] = @ \ {t}]

LEMMA GivenUpOnce ==
    ASSUME TypeOK, MessageInv, NEW w \in Workers, NEW t \in Txns, GivenUp(w, t)
    PROVE  /\ t \in published
           /\ t \notin queue /\ t \notin acked
           /\ ~Waiting(t)
           /\ \A v \in Workers : t \notin unacked'[v]
           /\ \A v \in Workers, s \in Txns :
                s # t => (s \in unacked'[v] <=> s \in unacked[v])
           /\ h'[w][t] = "none"
           /\ \A v \in Workers, s \in Txns :
                v # w \/ s # t => h'[v][s] = h[v][s]
<1>1. t \in unacked[w]
  BY DEF GivenUp, MessageInv, Custody, WithWorker
<1>2. \A v \in Workers : t \in unacked[v] => v = w
  BY <1>1 DEF MessageInv, Custody, WithWorker
<1>3. t \in published /\ t \notin queue /\ t \notin acked /\ ~Waiting(t)
  BY <1>1 DEF MessageInv, Custody, WithWorker
<1>4. /\ unacked'[w] = unacked[w] \ {t}
      /\ \A v \in Workers \ {w} : unacked'[v] = unacked[v]
  BY DEF GivenUp, TypeOK
<1>5. /\ h'[w][t] = "none"
      /\ \A v \in Workers, s \in Txns :
           v # w \/ s # t => h'[v][s] = h[v][s]
  BY DEF GivenUp, Done, TypeOK
<1>6. QED
  BY <1>2, <1>3, <1>4, <1>5

LEMMA MessageAck ==
    ASSUME TypeOK, MessageInv, NEW w \in Workers, NEW t \in Txns, Ack(w, t)
    PROVE  MessageInv'
<1> USE DEF gatewayVars
<1>1. GivenUp(w, t)
  BY DEF Ack, At, GivenUp
<1>2. \A s \in Txns : Waiting(s)' <=> Waiting(s)
  BY DEF Ack, Waiting
<1>3. ~InFlight(t)' /\ \A s \in Txns \ {t} : InFlight(s)' <=> InFlight(s)
  BY <1>1, GivenUpOnce DEF Ack, InFlight
<1>4. InFlight(t)
  BY <1>1 DEF GivenUp, InFlight, MessageInv, Custody, WithWorker
<1>5. \A v \in Workers, s \in Txns : WithWorker(v, s)'
  BY <1>1, <1>2, GivenUpOnce
     DEF Ack, MessageInv, Custody, WithWorker, Waiting
<1>6. Custody'
  BY <1>1, <1>2, <1>5, GivenUpOnce DEF Ack, MessageInv, Custody
<1>7. MessageAccounting'
  BY <1>1, <1>3, <1>4, GivenUpOnce DEF Ack, MessageInv, MessageAccounting
<1>8. QED
  BY <1>6, <1>7 DEF MessageInv

LEMMA MessageHandleFailure ==
    ASSUME TypeOK, MessageInv, NEW w \in Workers, NEW t \in Txns,
           HandleFailure(w, t)
    PROVE  MessageInv'
<1> USE DEF gatewayVars
<1>1. GivenUp(w, t)
  BY DEF HandleFailure, At, GivenUp
<1>2. /\ \A v \in Workers, s \in Txns :
           s # t => (s \in timers'[v] <=> s \in timers[v])
      /\ \A v \in Workers : t \in timers'[v] => v = w
      /\ \A v \in Workers : t \in timers'[v] => retry[t] < MaxRetries
  <2>1. \A v \in Workers : t \notin timers[v]
    BY <1>1, GivenUpOnce DEF Waiting
  <2>2. CASE retry[t] + 1 <= MaxRetries
    <3>1. timers' = [timers EXCEPT ![w] = timers[w] \union {t}]
      BY <2>2 DEF HandleFailure
    <3>2. retry[t] < MaxRetries
      BY <2>2, BoundAssumption DEF TypeOK
    <3>3. QED
      BY <2>1, <3>1, <3>2 DEF TypeOK
  <2>3. CASE ~(retry[t] + 1 <= MaxRetries)
    BY <2>1, <2>3 DEF HandleFailure
  <2>4. QED
    BY <2>2, <2>3
<1>3. \A s \in Txns \ {t} : Waiting(s)' <=> Waiting(s)
  BY <1>2 DEF Waiting
<1>4. ~InFlight(t)' /\ \A s \in Txns \ {t} : InFlight(s)' <=> InFlight(s)
  BY <1>1, GivenUpOnce DEF HandleFailure, InFlight
<1>5. InFlight(t)
  BY <1>1 DEF GivenUp, InFlight, MessageInv, Custody, WithWorker
<1>6. dlq'[t] = dlq[t] + 1 /\ \A s \in Txns \ {t} : dlq'[s] = dlq[s]
  BY DEF HandleFailure, TypeOK
<1>7. \A v \in Workers, s \in Txns : WithWorker(v, s)'
  BY <1>1, <1>2, <1>3, GivenUpOnce
     DEF HandleFailure, MessageInv, Custody, WithWorker
<1>8. Custody'
  BY <1>1, <1>3, <1>7, GivenUpOnce DEF HandleFailure, MessageInv, Custody
<1>9. MessageAccounting'
  BY <1>1, <1>4, <1>5, <1>6, GivenUpOnce
     DEF HandleFailure, MessageInv, MessageAccounting, TypeOK
<1>10. QED
  BY <1>8, <1>9 DEF MessageInv

LEMMA MessageAnswerOnLostChannel ==
    ASSUME TypeOK, MessageInv, NEW w \in Workers, NEW t \in Txns,
           AnswerOnLostChannel(w, t)
    PROVE  MessageInv'
<1>1. SameHandlers
  BY DEF AnswerOnLostChannel, Done, SameHandlers, TypeOK
<1>2. QED
  BY <1>1, MessageFrame DEF AnswerOnLostChannel, Forward, gatewayVars

LEMMA MessageTimer ==
    ASSUME TypeOK, MessageInv, NEW w \in Workers, NEW t \in Txns, Timer(w, t)
    PROVE  MessageInv'
<1> USE DEF gatewayVars, handlerVars
<1>1. t \in timers[w] /\ timers' = [timers EXCEPT ![w] = timers[w] \ {t}]
  BY DEF Timer, Republish, RepublishOnLostChannel
<1>2. /\ t \in published /\ t \notin acked /\ retry[t] < MaxRetries
      /\ \A v \in Workers : t \in timers[v] => v = w
  BY <1>1 DEF MessageInv, Custody, WithWorker
<1>3. \A v \in Workers, s \in Txns :
         s \in timers'[v] <=> s \in timers[v] /\ s # t
  BY <1>1, <1>2 DEF TypeOK
<1>4. ~Waiting(t)' /\ \A s \in Txns \ {t} : Waiting(s)' <=> Waiting(s)
  BY <1>3 DEF Waiting
<1>5. ~InFlight(t)
  BY <1>1 DEF InFlight, Waiting, MessageInv, Custody, WithWorker
<1>6. CASE Republish(w, t)
  <2>1. retry'[t] = retry[t] + 1 /\ \A s \in Txns \ {t} : retry'[s] = retry[s]
    BY <1>6 DEF Republish, TypeOK
  <2>2. InFlight(t)' /\ \A s \in Txns \ {t} : InFlight(s)' <=> InFlight(s)
    BY <1>6 DEF Republish, InFlight
  <2>3. \A v \in Workers : t \notin unacked[v]
    BY <1>5 DEF InFlight
  <2>4. \A v \in Workers, s \in Txns : WithWorker(v, s)'
    BY <1>3, <1>4, <1>6, <2>1, <2>3
       DEF Republish, MessageInv, Custody, WithWorker
  <2>5. Custody'
    BY <1>2, <1>4, <1>6, <2>4 DEF Republish, MessageInv, Custody
  <2>6. MessageAccounting'
    BY <1>2, <1>5, <1>6, <2>1, <2>2, BoundAssumption
       DEF Republish, MessageInv, MessageAccounting, TypeOK
  <2>7. QED
    BY <2>5, <2>6 DEF MessageInv
<1>7. CASE RepublishOnLostChannel(w, t)
  <2>1. \A s \in Txns : InFlight(s)' <=> InFlight(s)
    BY <1>7 DEF RepublishOnLostChannel, InFlight
  <2>2. \A v \in Workers, s \in Txns : WithWorker(v, s)'
    BY <1>3, <1>4, <1>7
       DEF RepublishOnLostChannel, MessageInv, Custody, WithWorker
  <2>3. Custody'
    BY <1>4, <1>7, <2>2 DEF RepublishOnLostChannel, MessageInv, Custody
  <2>4. MessageAccounting'
    BY <1>7, <2>1 DEF RepublishOnLostChannel, MessageInv, MessageAccounting
  <2>5. QED
    BY <2>3, <2>4 DEF MessageInv
<1>8. QED
  BY <1>6, <1>7 DEF Timer

(* A crash and a dropped connection give what the worker held back to the  *)
(* queue; a crash takes its timers along as well.                          *)
LEMMA MessageRequeue ==
    ASSUME TypeOK, MessageInv, NEW w \in Workers,
           Crash(w) \/ DropConnection(w)
    PROVE  MessageInv'
<1> USE DEF gatewayVars, handlerVars
<1>1. /\ queue' = queue \union unacked[w]
      /\ unacked'[w] = {}
      /\ \A v \in Workers \ {w} : unacked'[v] = unacked[v]
  BY DEF Crash, DropConnection, TypeOK
<1>2. \A v \in Workers : timers'[v] \subseteq timers[v]
  BY DEF Crash, DropConnection, TypeOK
<1>3. UNCHANGED <<pc, acked, dlq, retry, published>>
  BY DEF Crash, DropConnection
<1>4. \A s \in Txns : Waiting(s)' => Waiting(s)
  BY <1>2 DEF Waiting
<1>5. \A s \in Txns : InFlight(s)' <=> InFlight(s)
  BY <1>1 DEF InFlight
<1>6. \A v \in Workers \ {w} : link'[v] = link[v] /\ h'[v] = h[v]
  BY DEF Crash, DropConnection, TypeOK
<1>7. \A s \in Txns : link'[w] = "up" => h'[w][s] = "none"
  BY DEF Crash, DropConnection, TypeOK
<1>8. \A s \in unacked[w] :
         /\ s \in published /\ s \notin acked /\ ~Waiting(s)
         /\ \A v \in Workers \ {w} : s \notin unacked[v]
  BY DEF MessageInv, Custody, WithWorker, TypeOK
<1>9. \A v \in Workers \ {w}, s \in Txns : WithWorker(v, s)'
  BY <1>1, <1>2, <1>3, <1>4, <1>6, <1>8
     DEF MessageInv, Custody, WithWorker
<1>10. \A s \in Txns : WithWorker(w, s)'
  BY <1>1, <1>2, <1>3, <1>7 DEF MessageInv, Custody, WithWorker
<1>11. Custody'
  BY <1>1, <1>3, <1>4, <1>8, <1>9, <1>10 DEF MessageInv, Custody
<1>12. MessageAccounting'
  BY <1>3, <1>5 DEF MessageInv, MessageAccounting
<1>13. QED
  BY <1>11, <1>12 DEF MessageInv

LEMMA MessageExpire ==
    ASSUME TypeOK, MessageInv, NEW t \in Txns, ExpireMessage(t)
    PROVE  MessageInv'
<1> USE DEF gatewayVars, handlerVars
<1>1. \A s \in Txns : Waiting(s)' <=> Waiting(s)
  BY DEF ExpireMessage, Waiting
<1>2. /\ t \in published /\ t \notin acked
      /\ \A v \in Workers : t \notin unacked[v]
  BY DEF ExpireMessage, MessageInv, Custody, WithWorker
<1>3. InFlight(t) /\ ~InFlight(t)'
      /\ \A s \in Txns \ {t} : InFlight(s)' <=> InFlight(s)
  BY <1>2 DEF ExpireMessage, InFlight
<1>4. dlq'[t] = dlq[t] + 1 /\ \A s \in Txns \ {t} : dlq'[s] = dlq[s]
  BY DEF ExpireMessage, TypeOK
<1>5. \A v \in Workers, s \in Txns : WithWorker(v, s)'
  BY <1>1 DEF ExpireMessage, MessageInv, Custody, WithWorker
<1>6. Custody'
  BY <1>1, <1>5 DEF ExpireMessage, MessageInv, Custody
<1>7. MessageAccounting'
  BY <1>2, <1>3, <1>4 DEF ExpireMessage, MessageInv, MessageAccounting, TypeOK
<1>8. QED
  BY <1>6, <1>7 DEF MessageInv

(* The faults that do not touch the broker.                                *)
LEMMA MessageElsewhere ==
    ASSUME TypeOK, MessageInv,
           \/ \E u \in Users : ExpireLock(u)
           \/ DropGatewayConnection
           \/ CrashGateway
           \/ FlushRedis
           \/ UNCHANGED vars
    PROVE  MessageInv'
<1> USE DEF gatewayVars, handlerVars, vars
<1>1. UNCHANGED <<brokerVars, published>> /\ UNCHANGED h
  BY DEF ExpireLock, DropGatewayConnection, CrashGateway, FlushRedis
<1>2. Forward
  BY DEF ExpireLock, DropGatewayConnection, CrashGateway, FlushRedis, Forward,
         TypeOK, BeforePublish
<1>3. QED
  BY <1>1, <1>2, SameHandlersFrame, MessageFrame

LEMMA MessageStep == TypeOK /\ MessageInv /\ [Next]_vars => MessageInv'
<1> SUFFICES ASSUME TypeOK, MessageInv, [Next]_vars
             PROVE  MessageInv'
  OBVIOUS
<1>1. ASSUME NEW t \in Txns, LoadUser(t) \/ Gateway(t)
      PROVE  MessageInv'
  BY <1>1, MessageGateway, MessagePublish
<1>2. ASSUME NEW u \in Users, Query(u)
      PROVE  MessageInv'
  BY <1>2, MessageQuery
<1>3. ASSUME NEW w \in Workers, NEW t \in Txns,
             Deliver(w, t) \/ Handler(w, t) \/ Timer(w, t)
      PROVE  MessageInv'
  BY <1>3, MessageDeliver, MessageHandlerStores, MessageAck,
     MessageHandleFailure, MessageAnswerOnLostChannel, MessageTimer
     DEF Handler
<1>4. CASE Environment
  <2>1. ASSUME NEW t \in Txns, GatewayStoreError(t)
        PROVE  MessageInv'
    BY <2>1, MessageGateway, MessagePublish
  <2>2. ASSUME NEW w \in Workers, NEW t \in Txns,
               \/ HandlerStoreError(w, t)
               \/ DeductResent(w, t)
               \/ RefundResent(w, t)
        PROVE  MessageInv'
    BY <2>2, MessageHandlerStores
  <2>3. QED
    BY <1>4, <2>1, <2>2, MessageExpire, MessageRequeue, MessageElsewhere
       DEF Environment
<1>5. CASE UNCHANGED vars
  BY <1>5, MessageElsewhere
<1>6. QED
  BY <1>1, <1>2, <1>3, <1>4, <1>5 DEF Next

(* Whatever faults occur, a message is in one place at a time, and the     *)
(* dead letter queue accounts for every attempt that was not acknowledged. *)
THEOREM MessageSafety == Spec => [](Custody /\ MessageAccounting)
<1>1. Init => TypeOK /\ MessageInv
  BY TypeInit, MessageInit
<1>2. TypeOK /\ MessageInv /\ [Next]_vars => (TypeOK /\ MessageInv)'
  BY TypeStep, MessageStep
<1>3. MessageInv => Custody /\ MessageAccounting
  BY DEF MessageInv
<1>4. QED
  BY <1>1, <1>2, <1>3, PTL DEF Spec

(* Custody by itself: through crashes, dropped connections, retries and    *)
(* expiries a published message is in one place, with one holder.          *)
THEOREM MessageCustody == Spec => []Custody
<1>1. Custody /\ MessageAccounting => Custody
  OBVIOUS
<1>2. QED
  BY <1>1, MessageSafety, PTL
=============================================================================
