------------------------- MODULE PayoutLedgerProofs -------------------------
(***************************************************************************)
(* The records and the money, in two parts.                                *)
(*                                                                         *)
(* Records: if only processes crash, what the consumer acknowledges has    *)
(* been paid and stays recorded as paid.                                   *)
(*                                                                         *)
(* Ledger: undisturbed, the pipeline implements the ledger of PayoutLedger.*)
(***************************************************************************)
EXTENDS PayoutPipelineProofs, PayoutRefinement

(***************************************************************************)
(* What the consumer acknowledges has been paid and stays recorded as paid,*)
(* when only processes crash: for any number of crashes of workers and     *)
(* gateways, any sets of users, payouts and workers, locks that expire or  *)
(* not, balance queries or none.                                           *)
(*                                                                         *)
(* The record and the money are written by different awaits of one         *)
(* handler, so the invariant says, for every place of processMessage, what *)
(* the record may be and whether the amount has gone.  It is preserved     *)
(* because no second handler works on the payout, which is Custody.        *)
(***************************************************************************)

OnlyCrashes == FaultKinds \subseteq {"crash", "gateway_crash"}

LinksUp == \A w \in Workers : link[w] = "up"

NeverRefunds ==
    \A w \in Workers, t \in Txns : h[w][t] \notin {"refund", "refundNoTx"}

PlaceTruth(w, t) ==
    /\ h[w][t] \in {"mark", "fail"} => tx[t] # "completed"
    /\ h[w][t] \in {"check", "deduct", "complete"} => tx[t] = "processing"
    /\ h[w][t] = "complete" => deducted[t] > 0
    /\ h[w][t] \in {"snapshot", "release", "ack"} => tx[t] = "completed"

RecordOf(t) ==
    /\ tx[t] \notin {"none", "initiated"} => t \in published
    /\ tx[t] = "completed" => deducted[t] > 0
    /\ t \in acked => tx[t] = "completed"
    /\ \A w \in Workers : PlaceTruth(w, t)

CrashInv == LinksUp /\ NeverRefunds /\ \A t \in Txns : RecordOf(t)

-----------------------------------------------------------------------------
(* Lemmas about the operators when stores and connections do not fail.     *)

LEMMA NoOtherFault ==
    ASSUME OnlyCrashes, NEW kind, Fault(kind)
    PROVE  kind \in {"crash", "gateway_crash"}
BY DEF OnlyCrashes, Fault

(* A reply that cannot be lost takes the handler where the code says.      *)
LEMMA ReplySure ==
    ASSUME OnlyCrashes, NEW w, NEW t, NEW p, Reply(w, t, p)
    PROVE  Move(w, t, p)
BY NoOtherFault DEF Reply

LEMMA AnsweredSure ==
    ASSUME OnlyCrashes, NEW t, NEW p, NEW q, NEW e, Answered(t, p, q, e)
    PROVE  GoTo(t, p, q)
BY NoOtherFault DEF Answered

LEMMA MovePlace ==
    ASSUME TypeOK, NEW w \in Workers, NEW t \in Txns, NEW p, Move(w, t, p)
    PROVE  /\ h'[w][t] = p
           /\ \A v \in Workers, s \in Txns :
                v # w \/ s # t => h'[v][s] = h[v][s]
BY DEF Move, TypeOK

(* While every channel is up one handler at most works on a payout, and its*)
(* message is nowhere else.                                                *)
LEMMA OneHandler ==
    ASSUME MessageInv, LinksUp, NEW w \in Workers, NEW t \in Txns,
           h[w][t] # "none"
    PROVE  /\ t \in published /\ t \notin acked /\ t \notin queue
           /\ ~Waiting(t)
           /\ pc[t] \notin BeforePublish
           /\ \A v \in Workers : h[v][t] # "none" => v = w
BY DEF MessageInv, Custody, WithWorker, LinksUp

(* A message in the queue is in nobody's hands.                            *)
LEMMA NoHandler ==
    ASSUME MessageInv, LinksUp, NEW t \in Txns,
           t \in queue \/ t \notin published \/ Waiting(t)
    PROVE  \A w \in Workers : h[w][t] = "none"
BY OneHandler DEF MessageInv, Custody

-----------------------------------------------------------------------------
(* The ways a step keeps the invariant.                                    *)

(* No record or booking changes, and handlers at most end.                 *)
LEMMA RecordFrame ==
    ASSUME CrashInv, UNCHANGED <<tx, deducted>>,
           LinksUp', published \subseteq published',
           \A w \in Workers, t \in Txns : h'[w][t] \in {h[w][t], "none"},
           \A t \in Txns : t \in acked' => t \in acked \/ tx[t] = "completed"
    PROVE  CrashInv'
<1>1. NeverRefunds'
  BY DEF CrashInv, NeverRefunds
<1>2. ASSUME NEW t \in Txns
      PROVE  RecordOf(t)'
  <2>1. RecordOf(t)
    BY DEF CrashInv
  <2>2. ASSUME NEW w \in Workers
        PROVE  PlaceTruth(w, t)'
    BY <2>1 DEF RecordOf, PlaceTruth
  <2>3. QED
    BY <2>1, <2>2 DEF RecordOf
<1>3. QED
  BY <1>1, <1>2 DEF CrashInv

(* One handler moves, writing its own record and booking its own payout.   *)
LEMMA RecordMove ==
    ASSUME TypeOK, MessageInv, CrashInv, NEW w \in Workers, NEW t \in Txns,
           NEW p, Move(w, t, p), p \notin {"refund", "refundNoTx"},
           UNCHANGED <<link, published, acked>>, t \notin acked,
           t \in published,
           \A v \in Workers : h[v][t] # "none" => v = w,
           \A s \in Txns \ {t} :
               tx'[s] = tx[s] /\ deducted'[s] = deducted[s],
           tx'[t] = "completed" => deducted'[t] > 0,
           PlaceTruth(w, t)'
    PROVE  CrashInv'
<1>1. /\ h'[w][t] = p
      /\ \A v \in Workers, s \in Txns :
           v # w \/ s # t => h'[v][s] = h[v][s]
  BY MovePlace
<1>2. LinksUp' /\ NeverRefunds'
  BY <1>1 DEF CrashInv, LinksUp, NeverRefunds
<1>3. ASSUME NEW s \in Txns \ {t}
      PROVE  RecordOf(s)'
  <2>1. RecordOf(s)
    BY DEF CrashInv
  <2>2. ASSUME NEW v \in Workers
        PROVE  PlaceTruth(v, s)'
    <3>1. h'[v][s] = h[v][s]
      BY <1>1
    <3>2. QED
      BY <2>1, <3>1 DEF RecordOf, PlaceTruth
  <2>3. QED
    BY <2>1, <2>2 DEF RecordOf
<1>4. RecordOf(t)'
  <2>1. ASSUME NEW v \in Workers
        PROVE  PlaceTruth(v, t)'
    <3>1. CASE v = w
      BY <3>1
    <3>2. CASE v # w
      <4>1. h'[v][t] = "none"
        BY <1>1, <3>2
      <4>2. QED
        BY <4>1 DEF PlaceTruth
    <3>3. QED
      BY <3>1, <3>2
  <2>2. QED
    BY <2>1 DEF RecordOf
<1>5. QED
  BY <1>2, <1>3, <1>4 DEF CrashInv

-----------------------------------------------------------------------------
(* The steps.                                                              *)

LEMMA RecordGateway ==
    ASSUME OnlyCrashes, TypeOK, MessageInv, CrashInv, NEW t \in Txns,
           LoadUser(t) \/ Gateway(t)
    PROVE  CrashInv'
<1> USE DEF brokerVars, handlerVars, ledgerVars
<1>1. CASE CreateTransaction(t)
  <2>1. pc[t] = "funded"
    BY <1>1, AnsweredSure DEF CreateTransaction, GoTo
  <2>2. t \notin published
    BY <2>1 DEF MessageInv, Custody, BeforePublish
  <2>3. t \notin acked /\ \A w \in Workers : h[w][t] = "none"
    BY <2>2, NoHandler DEF CrashInv, MessageInv, Custody
  <2>4. /\ UNCHANGED <<h, link, published, acked, deducted>>
        /\ tx'[t] = "initiated"
        /\ \A s \in Txns \ {t} : tx'[s] = tx[s]
    BY <1>1 DEF CreateTransaction, TypeOK
  <2>5. LinksUp' /\ NeverRefunds'
    BY <2>4 DEF CrashInv, LinksUp, NeverRefunds
  <2>6. ASSUME NEW s \in Txns
        PROVE  RecordOf(s)'
    <3>1. RecordOf(s)
      BY DEF CrashInv
    <3>2. CASE s = t
      BY <2>3, <2>4, <3>2 DEF RecordOf, PlaceTruth
    <3>3. CASE s # t
      BY <2>4, <3>1, <3>3 DEF RecordOf, PlaceTruth
    <3>4. QED
      BY <3>2, <3>3
  <2>7. QED
    BY <2>5, <2>6 DEF CrashInv
<1>2. CASE ~CreateTransaction(t)
  <2>1. UNCHANGED <<h, tx, deducted, link, acked>>
        /\ published \subseteq published'
    BY <1>2 DEF Gateway, LoadUser, AcquireLock, RejectUnlocked, RejectLocked,
       ReadBalance, SyncBalance, CheckFunds, Publish, PublishOnLostChannel,
       ReleaseOnFailure
  <2>2. LinksUp'
    BY <2>1 DEF CrashInv, LinksUp
  <2>3. QED
    BY <2>1, <2>2, RecordFrame
<1>3. QED
  BY <1>1, <1>2

(* Each place of the handler, with what it writes and where it goes.       *)
LEMMA RecordHandler ==
    ASSUME OnlyCrashes, TypeOK, MessageInv, CrashInv,
           NEW w \in Workers, NEW t \in Txns,
           \/ LoadTransaction(w, t)
           \/ MarkAsProcessing(w, t)
           \/ RecheckBalance(w, t)
           \/ Deduct(w, t)
           \/ DeductRefused(w, t)
           \/ MarkAsCompleted(w, t)
           \/ SyncMongo(w, t)
           \/ ReleaseLock(w, t)
           \/ MarkAsFailed(w, t)
    PROVE  CrashInv'
<1> USE ReplySure, MovePlace DEF At, brokerVars, ledgerVars
<1>1. h[w][t] # "none"
  BY DEF LoadTransaction, MarkAsProcessing, RecheckBalance, Deduct,
         DeductRefused, MarkAsCompleted, SyncMongo, ReleaseLock, MarkAsFailed
<1>2. /\ t \in published /\ t \notin acked
      /\ \A v \in Workers : h[v][t] # "none" => v = w
  BY <1>1, OneHandler DEF CrashInv
<1>3. RecordOf(t) /\ PlaceTruth(w, t)
  BY DEF CrashInv, RecordOf
<1>4. UNCHANGED <<link, published, acked>>
  BY DEF LoadTransaction, MarkAsProcessing, RecheckBalance, Deduct,
         DeductRefused, MarkAsCompleted, SyncMongo, ReleaseLock, MarkAsFailed
<1>5. \A s \in Txns \ {t} : tx'[s] = tx[s] /\ deducted'[s] = deducted[s]
  BY DEF LoadTransaction, MarkAsProcessing, RecheckBalance, Deduct,
         DeductRefused, MarkAsCompleted, SyncMongo, ReleaseLock, MarkAsFailed,
         TypeOK
<1>6. \E p : /\ Move(w, t, p)
             /\ p \notin {"refund", "refundNoTx"}
             /\ tx'[t] = "completed" => deducted'[t] > 0
             /\ PlaceTruth(w, t)'
  <2> USE <1>3 DEF RecordOf, PlaceTruth
  <2>1. CASE LoadTransaction(w, t)
    BY <2>1 DEF LoadTransaction
  <2>2. CASE MarkAsProcessing(w, t)
    <3>1. Move(w, t, "check")
      BY <2>2 DEF MarkAsProcessing
    <3>2. h'[w][t] = "check" /\ tx'[t] = "processing" /\ UNCHANGED deducted
      BY <2>2, <3>1 DEF MarkAsProcessing, TypeOK
    <3>3. QED
      BY <2>2, <3>1, <3>2 DEF MarkAsProcessing
  <2>3. CASE RecheckBalance(w, t)
    BY <2>3 DEF RecheckBalance
  <2>4. CASE Deduct(w, t)
    <3>1. Move(w, t, "complete") /\ UNCHANGED tx
          /\ deducted'[t] = deducted[t] + 1
      BY <2>4 DEF Deduct, TypeOK
    <3>2. deducted'[t] > 0
      BY <3>1 DEF TypeOK
    <3>3. tx[t] = "processing"
      BY <2>4 DEF Deduct
    <3>4. QED
      BY <3>1, <3>2, <3>3
  <2>5. CASE DeductRefused(w, t)
    BY <2>5 DEF DeductRefused
  <2>6. CASE MarkAsCompleted(w, t)
    <3>1. Move(w, t, "snapshot")
      BY <2>6 DEF MarkAsCompleted
    <3>2. h'[w][t] = "snapshot" /\ tx'[t] = "completed" /\ UNCHANGED deducted
      BY <2>6, <3>1 DEF MarkAsCompleted, TypeOK
    <3>3. QED
      BY <2>6, <3>1, <3>2 DEF MarkAsCompleted
  <2>7. CASE SyncMongo(w, t)
    BY <2>7 DEF SyncMongo
  <2>8. CASE ReleaseLock(w, t)
    BY <2>8 DEF ReleaseLock
  <2>9. CASE MarkAsFailed(w, t)
    <3>1. Move(w, t, "nack")
      BY <2>9 DEF MarkAsFailed
    <3>2. h'[w][t] = "nack" /\ tx'[t] = "failed" /\ UNCHANGED deducted
      BY <2>9, <3>1 DEF MarkAsFailed, TypeOK
    <3>3. QED
      BY <2>9, <3>1, <3>2 DEF MarkAsFailed
  <2>10. QED
    BY <2>1, <2>2, <2>3, <2>4, <2>5, <2>6, <2>7, <2>8, <2>9
<1>7. QED
  BY <1>2, <1>4, <1>5, <1>6, RecordMove

(* A message is handed to a worker: its handler starts from the record, of *)
(* which nothing is required there.                                        *)
LEMMA RecordDeliver ==
    ASSUME TypeOK, MessageInv, CrashInv,
           NEW w \in Workers, NEW t \in Txns, Deliver(w, t)
    PROVE  CrashInv'
<1> USE DEF ledgerVars
<1>1. t \in published /\ t \notin acked
  BY DEF Deliver, MessageInv, Custody
<1>2. \A v \in Workers : h[v][t] # "none" => v = w
  BY NoHandler DEF Deliver, CrashInv
<1>3. Move(w, t, "load") /\ UNCHANGED <<link, published, acked, tx, deducted>>
  BY DEF Deliver
<1>4. PlaceTruth(w, t)'
  BY <1>3, MovePlace DEF PlaceTruth
<1>5. tx'[t] = "completed" => deducted'[t] > 0
  BY <1>3 DEF CrashInv, RecordOf
<1>6. QED
  BY <1>1, <1>2, <1>3, <1>4, <1>5, RecordMove

(* The end of a handler, by an answer to the broker or by a crash, and the *)
(* steps that have nothing to do with records.                             *)
LEMMA RecordElsewhere ==
    ASSUME OnlyCrashes, TypeOK, CrashInv,
           \/ \E u \in Users : Query(u) \/ ExpireLock(u)
           \/ \E w \in Workers, t \in Txns :
                \/ Ack(w, t)
                \/ HandleFailure(w, t)
                \/ Timer(w, t)
           \/ \E w \in Workers : Crash(w)
           \/ CrashGateway
           \/ UNCHANGED vars
    PROVE  CrashInv'
<1> USE DEF brokerVars, handlerVars, ledgerVars
<1>1. UNCHANGED <<tx, deducted, published>>
  BY DEF Query, QueryMiss, QueryLoad, QuerySync, ExpireLock, Ack,
     HandleFailure, Timer, Republish, RepublishOnLostChannel, Crash,
     CrashGateway, vars
<1>2. LinksUp'
  <2>1. CASE \E w \in Workers : Crash(w)
    BY <2>1 DEF Crash, CrashInv, LinksUp, TypeOK
  <2>2. CASE UNCHANGED link
    BY <2>2 DEF CrashInv, LinksUp
  <2>3. QED
    BY <2>1, <2>2 DEF Query, QueryMiss, QueryLoad, QuerySync, ExpireLock, Ack,
       HandleFailure, Timer, Republish, RepublishOnLostChannel, CrashGateway,
       vars
<1>3. /\ \A w \in Workers, t \in Txns : h'[w][t] \in {h[w][t], "none"}
      /\ \A t \in Txns : t \in acked' => t \in acked \/ tx[t] = "completed"
  <2>1. CASE \E w \in Workers, t \in Txns : Ack(w, t)
    BY <2>1 DEF Ack, At, Done, TypeOK, CrashInv, RecordOf, PlaceTruth
  <2>2. CASE \E w \in Workers, t \in Txns : HandleFailure(w, t)
    BY <2>2 DEF HandleFailure, Done, TypeOK
  <2>3. CASE \E w \in Workers : Crash(w)
    BY <2>3 DEF Crash, TypeOK
  <2>4. CASE UNCHANGED <<h, acked>>
    BY <2>4
  <2>5. QED
    BY <2>1, <2>2, <2>3, <2>4
       DEF Query, QueryMiss, QueryLoad, QuerySync, ExpireLock, Timer,
           Republish, RepublishOnLostChannel, CrashGateway, vars
<1>4. QED
  BY <1>1, <1>2, <1>3, RecordFrame

(* What needs a failing store, a lost channel or a refund does not happen. *)
LEMMA CrashesOnly ==
    ASSUME OnlyCrashes, CrashInv,
           \/ \E t \in Txns : GatewayStoreError(t) \/ ExpireMessage(t)
           \/ \E w \in Workers, t \in Txns :
                \/ HandlerStoreError(w, t)
                \/ DeductResent(w, t)
                \/ RefundResent(w, t)
                \/ Refund(w, t)
                \/ AnswerOnLostChannel(w, t)
           \/ \E w \in Workers : DropConnection(w)
           \/ DropGatewayConnection
           \/ FlushRedis
    PROVE  FALSE
BY NoOtherFault
   DEF GatewayStoreError, ExpireMessage, HandlerStoreError, DeductResent,
       RefundResent, Refund, AnswerOnLostChannel, DropConnection,
       DropGatewayConnection, FlushRedis, CrashInv, LinksUp, NeverRefunds, At

LEMMA CrashInit == Init => CrashInv
BY DEF Init, CrashInv, LinksUp, NeverRefunds, RecordOf, PlaceTruth

LEMMA CrashStep ==
    ASSUME OnlyCrashes, TypeOK, MessageInv, CrashInv, [Next]_vars
    PROVE  CrashInv'
<1>1. ASSUME NEW t \in Txns, LoadUser(t) \/ Gateway(t)
      PROVE  CrashInv'
  BY <1>1, RecordGateway
<1>2. ASSUME NEW u \in Users, Query(u)
      PROVE  CrashInv'
  BY <1>2, RecordElsewhere
<1>3. ASSUME NEW w \in Workers, NEW t \in Txns,
             Deliver(w, t) \/ Handler(w, t) \/ Timer(w, t)
      PROVE  CrashInv'
  BY <1>3, RecordDeliver, RecordHandler, RecordElsewhere, CrashesOnly
     DEF Handler
<1>4. CASE Environment
  BY <1>4, RecordElsewhere, CrashesOnly DEF Environment
<1>5. CASE UNCHANGED vars
  BY <1>5, RecordElsewhere
<1>6. QED
  BY <1>1, <1>2, <1>3, <1>4, <1>5 DEF Next

(* With CrashInv, no step takes a completed record back: CreateTransaction *)
(* runs before the record can be completed, and the two other writers of   *)
(* another status are at places where it is not.                           *)
LEMMA CompletedKept ==
    ASSUME OnlyCrashes, TypeOK, MessageInv, CrashInv, [Next]_vars,
           NEW t \in Txns, tx[t] = "completed"
    PROVE  tx'[t] = "completed"
<1> USE DEF brokerVars, handlerVars, ledgerVars
<1>1. /\ t \in published
      /\ \A w \in Workers : h[w][t] \notin {"mark", "fail"}
  BY DEF CrashInv, RecordOf, PlaceTruth
<1>2. ASSUME NEW s \in Txns, LoadUser(s) \/ Gateway(s) \/ GatewayStoreError(s)
      PROVE  tx'[t] = "completed"
  <2>1. CASE CreateTransaction(s)
    <3>1. s # t
      BY <1>1, <2>1, AnsweredSure
         DEF CreateTransaction, GoTo, MessageInv, Custody, BeforePublish
    <3>2. QED
      BY <2>1, <3>1 DEF CreateTransaction, TypeOK
  <2>2. CASE ~CreateTransaction(s)
    BY <1>2, <2>2
       DEF Gateway, LoadUser, AcquireLock, RejectUnlocked, RejectLocked,
           ReadBalance, SyncBalance, CheckFunds, Publish, PublishOnLostChannel,
           ReleaseOnFailure, GatewayStoreError
  <2>3. QED
    BY <2>1, <2>2
<1>3. ASSUME NEW w \in Workers, NEW s \in Txns,
             Deliver(w, s) \/ Handler(w, s) \/ Timer(w, s)
      PROVE  tx'[t] = "completed"
  <2>1. CASE MarkAsProcessing(w, s) \/ MarkAsFailed(w, s)
    BY <1>1, <2>1 DEF MarkAsProcessing, MarkAsFailed, At, TypeOK
  <2>2. CASE MarkAsCompleted(w, s)
    BY <2>2 DEF MarkAsCompleted, TypeOK
  <2>3. CASE UNCHANGED tx
    BY <2>3
  <2>4. QED
    BY <1>3, <2>1, <2>2, <2>3
       DEF Deliver, Handler, Timer, LoadTransaction, RecheckBalance, Deduct,
           DeductRefused, SyncMongo, ReleaseLock, Refund, Ack, HandleFailure,
           AnswerOnLostChannel, Republish, RepublishOnLostChannel
<1>4. CASE \/ \E u \in Users : Query(u) \/ ExpireLock(u)
           \/ \E w \in Workers : Crash(w)
           \/ CrashGateway
           \/ UNCHANGED vars
  BY <1>4 DEF Query, QueryMiss, QueryLoad, QuerySync, ExpireLock, Crash,
     CrashGateway, vars
<1>5. QED
  BY <1>2, <1>3, <1>4, CrashesOnly DEF Next, Environment

(* When only processes crash, however often, the consumer acks a payout    *)
(* only once it has been charged and its record says completed.            *)
THEOREM AckedArePaid ==
    ASSUME OnlyCrashes
    PROVE  Spec => []AckedIsPaid
<1>1. Init => TypeOK /\ MessageInv /\ CrashInv
  BY TypeInit, MessageInit, CrashInit
<1>2. TypeOK /\ MessageInv /\ CrashInv /\ [Next]_vars
        => (TypeOK /\ MessageInv /\ CrashInv)'
  BY TypeStep, MessageStep, CrashStep
<1>3. TypeOK /\ CrashInv => AckedIsPaid
  BY DEF CrashInv, RecordOf, AckedIsPaid, TypeOK
<1>4. QED
  BY <1>1, <1>2, <1>3, PTL DEF Spec

(* When only processes crash, no redelivery, retry or second worker ever   *)
(* turns a completed transaction back.                                     *)
THEOREM CompletedForGood ==
    ASSUME OnlyCrashes
    PROVE  Spec => CompletedIsFinal
<1>1. Init => TypeOK /\ MessageInv /\ CrashInv
  BY TypeInit, MessageInit, CrashInit
<1>2. TypeOK /\ MessageInv /\ CrashInv /\ [Next]_vars
        => (TypeOK /\ MessageInv /\ CrashInv)'
  BY TypeStep, MessageStep, CrashStep
<1>3. TypeOK /\ MessageInv /\ CrashInv /\ [Next]_vars
        => [\A t \in Txns : tx[t] = "completed" => tx'[t] = "completed"]_vars
  BY CompletedKept
<1>4. QED
  BY <1>1, <1>2, <1>3, PTL DEF Spec, CompletedIsFinal

-----------------------------------------------------------------------------
(***************************************************************************)
(* Undisturbed, that is with locks that outlive the payouts they guard and *)
(* no fault but crashes of the gateway, the pipeline implements the ledger *)
(* of PayoutLedger: for any sets of users, payouts and workers, any        *)
(* balances and amounts.                                                   *)
(*                                                                         *)
(* The argument is the one the code relies on: a payout holds its user's   *)
(* lock from the gateway's SET NX to the worker's compare-and-delete, over *)
(* the queue and the retry timers, so what it read stays true meanwhile.   *)
(***************************************************************************)

Undisturbed == ~LockExpires /\ FaultKinds \subseteq {"gateway_crash"}

HoldingPc == {"locked", "unsynced", "synced", "funded", "created", "failing"}

Holds(t) ==
    \/ pc[t] \in HoldingPc
    \/ t \in queue
    \/ Waiting(t)
    \/ \E w \in Workers : h[w][t] \notin {"none", "ack"}

GivenBack(t) == pc[t] \in {"failing", "rejected"}

LockOf(t) ==
    /\ GivenBack(t) => t \notin published
    /\ Holds(t) => lock[Owner[t]] = t

LockInv == CrashInv /\ \A t \in Txns : LockOf(t)

LEMMA UndisturbedCrashes == Undisturbed => OnlyCrashes
BY DEF Undisturbed, OnlyCrashes

LEMMA OwnerType == \A t \in Txns : Owner[t] \in Users
BY DataAssumption

-----------------------------------------------------------------------------
(* The lock.                                                               *)

(* A step that leaves the locks alone must give nobody the need of one.    *)
LEMMA LockFrame ==
    ASSUME LockInv, CrashInv', UNCHANGED lock,
           \A t \in Txns : Holds(t)' => Holds(t),
           \A t \in Txns :
               GivenBack(t)' /\ t \in published' => GivenBack(t) /\ t \in published
    PROVE  LockInv'
BY DEF LockInv, LockOf

(* A lock is given back by a payout that no longer needs it.               *)
LEMMA LockReleased ==
    ASSUME TypeOK, LockInv, CrashInv', NEW t \in Txns, lock' = Released(t),
           Holds(t), ~Holds(t)',
           \A s \in Txns \ {t} : Holds(s)' => Holds(s),
           \A s \in Txns :
               GivenBack(s)' /\ s \in published' => GivenBack(s) /\ s \in published
    PROVE  LockInv'
<1> SUFFICES ASSUME NEW s \in Txns, Holds(s)'
             PROVE  lock'[Owner[s]] = s
  BY DEF LockInv, LockOf
<1>1. s # t /\ Holds(s)
  OBVIOUS
<1>2. lock[Owner[s]] = s /\ lock[Owner[t]] = t
  BY <1>1 DEF LockInv, LockOf
<1>3. Owner[s] # Owner[t]
  BY <1>1, <1>2
<1>4. lock'[Owner[s]] = lock[Owner[s]]
  BY <1>2, <1>3, OwnerType DEF Released, TypeOK
<1>5. QED
  BY <1>2, <1>4

(* Two payouts of one user do not both hold its lock.                      *)
LEMMA OneHolder ==
    ASSUME LockInv, NEW s \in Txns, NEW t \in Txns, Holds(s), Holds(t),
           Owner[s] = Owner[t]
    PROVE  s = t
BY DEF LockInv, LockOf

(* A request moves and nothing else does.                                  *)
LEMMA RequestHolds ==
    ASSUME TypeOK, NEW t \in Txns, NEW p, NEW q, GoTo(t, p, q),
           UNCHANGED <<queue, timers, h>>,
           q \in HoldingPc => p \in HoldingPc
    PROVE  \A s \in Txns : Holds(s)' => Holds(s)
<1>1. pc[t] = p /\ pc'[t] = q /\ \A s \in Txns \ {t} : pc'[s] = pc[s]
  BY DEF GoTo, TypeOK
<1>2. QED
  BY <1>1 DEF Holds, Waiting

LEMMA RequestGivenBack ==
    ASSUME TypeOK, NEW t \in Txns, NEW p, NEW q, GoTo(t, p, q),
           UNCHANGED published,
           q \in {"failing", "rejected"} =>
               t \notin published \/ p \in {"failing", "rejected"}
    PROVE  \A s \in Txns :
               GivenBack(s)' /\ s \in published' => GivenBack(s) /\ s \in published
BY DEF GoTo, TypeOK, GivenBack

LEMMA LockAcquire ==
    ASSUME Undisturbed, TypeOK, MessageInv, LockInv, CrashInv',
           NEW t \in Txns, AcquireLock(t)
    PROVE  LockInv'
<1> USE DEF brokerVars, handlerVars
<1>1. GoTo(t, "loaded", "locked")
  BY UndisturbedCrashes, AnsweredSure DEF AcquireLock
<1>2. /\ UNCHANGED <<queue, timers, h, published>>
      /\ lock[Owner[t]] = Nobody
      /\ lock' = [lock EXCEPT ![Owner[t]] = t]
  BY DEF AcquireLock
<1>3. pc'[t] = "locked" /\ \A s \in Txns \ {t} : pc'[s] = pc[s]
  BY <1>1 DEF GoTo, TypeOK
<1>4. ASSUME NEW s \in Txns
      PROVE  LockOf(s)'
  <2>1. CASE s = t
    <3>1. ~GivenBack(t)' /\ lock'[Owner[t]] = t
      BY <1>2, <1>3, OwnerType DEF GivenBack, TypeOK
    <3>2. QED
      BY <2>1, <3>1 DEF LockOf
  <2>2. CASE s # t
    <3>1. (Holds(s)' <=> Holds(s)) /\ (GivenBack(s)' <=> GivenBack(s))
      BY <1>2, <1>3, <2>2 DEF Holds, Waiting, GivenBack
    <3>2. Holds(s) => Owner[s] # Owner[t]
      BY <1>2, DataAssumption DEF LockInv, LockOf
    <3>3. Owner[s] # Owner[t] => lock'[Owner[s]] = lock[Owner[s]]
      BY <1>2, OwnerType DEF TypeOK
    <3>4. QED
      BY <1>2, <3>1, <3>2, <3>3 DEF LockInv, LockOf
  <2>3. QED
    BY <2>1, <2>2
<1>5. QED
  BY <1>4 DEF LockInv

(* A payout not published is in no queue, timer or handler.                *)
LEMMA Unpublished ==
    ASSUME MessageInv, CrashInv, NEW t \in Txns, t \notin published
    PROVE  /\ t \notin queue /\ ~Waiting(t)
           /\ \A w \in Workers : h[w][t] = "none"
BY NoHandler DEF MessageInv, Custody, WithWorker, Waiting, CrashInv

(* The gateway's other steps: they keep the lock, or give it back last.    *)
LEMMA LockGateway ==
    ASSUME Undisturbed, TypeOK, MessageInv, LockInv, CrashInv',
           NEW t \in Txns, LoadUser(t) \/ Gateway(t)
    PROVE  LockInv'
<1> USE RequestHolds, RequestGivenBack, UndisturbedCrashes, AnsweredSure
    DEF brokerVars, handlerVars, HoldingPc
<1>1. t \in published => pc[t] \notin BeforePublish
  BY DEF MessageInv, Custody
<1>2. ASSUME NEW p \in {"loaded", "locked", "unsynced", "synced", "funded",
                        "created"},
             NEW q, GoTo(t, p, q), UNCHANGED <<lock, brokerVars, h, published>>,
             q \in HoldingPc => p \in HoldingPc
      PROVE  LockInv'
  <2>1. t \notin published
    BY <1>1, <1>2 DEF GoTo, BeforePublish
  <2>2. \A s \in Txns : Holds(s)' => Holds(s)
    BY <1>2
  <2>3. \A s \in Txns :
          GivenBack(s)' /\ s \in published' => GivenBack(s) /\ s \in published
    BY <1>2, <2>1
  <2>4. QED
    BY <1>2, <2>2, <2>3, LockFrame
<1>3. CASE LoadUser(t)
  <2>1. GoTo(t, "idle", "loaded") /\ UNCHANGED <<lock, brokerVars, h, published>>
    BY <1>3 DEF LoadUser
  <2>2. /\ \A s \in Txns : Holds(s)' => Holds(s)
        /\ \A s \in Txns :
             GivenBack(s)' /\ s \in published' => GivenBack(s) /\ s \in published
    BY <2>1
  <2>3. QED
    BY <2>1, <2>2, LockFrame
<1>4. CASE AcquireLock(t)
  BY <1>4, LockAcquire
<1>5. CASE RejectUnlocked(t)
  BY <1>2, <1>5 DEF RejectUnlocked
<1>6. CASE RejectLocked(t)
  BY <1>2, <1>6 DEF RejectLocked
<1>7. CASE ReadBalance(t)
  BY <1>2, <1>7 DEF ReadBalance
<1>8. CASE SyncBalance(t)
  BY <1>2, <1>8 DEF SyncBalance
<1>9. CASE CheckFunds(t)
  BY <1>2, <1>9 DEF CheckFunds
<1>10. CASE CreateTransaction(t)
  BY <1>2, <1>10 DEF CreateTransaction
<1>11. CASE PublishOnLostChannel(t)
  BY <1>2, <1>11 DEF PublishOnLostChannel
<1>12. CASE Publish(t)
  <2>1. GoTo(t, "created", "accepted")
    BY <1>12, NoOtherFault DEF Publish
  <2>2. pc[t] = "created" /\ pc'[t] = "accepted"
        /\ \A s \in Txns \ {t} : pc'[s] = pc[s]
    BY <2>1 DEF GoTo, TypeOK
  <2>3. /\ UNCHANGED <<lock, timers, h>>
        /\ queue' = queue \union {t}
        /\ published' = published \union {t}
    BY <1>12 DEF Publish
  <2>4. \A s \in Txns : Holds(s)' => Holds(s)
    BY <2>2, <2>3 DEF Holds, Waiting
  <2>5. \A s \in Txns :
          GivenBack(s)' /\ s \in published' => GivenBack(s) /\ s \in published
    BY <2>2, <2>3 DEF GivenBack
  <2>6. QED
    BY <2>3, <2>4, <2>5, LockFrame
<1>13. CASE ReleaseOnFailure(t)
  <2>1. /\ GoTo(t, "failing", "rejected")
        /\ lock' = Released(t)
        /\ UNCHANGED <<queue, timers, h, published>>
    BY <1>13 DEF ReleaseOnFailure
  <2>2. pc[t] = "failing" /\ pc'[t] = "rejected"
    BY <2>1 DEF GoTo, TypeOK
  <2>3. t \notin published
    BY <2>2 DEF LockInv, LockOf, GivenBack
  <2>4. Holds(t) /\ ~Holds(t)'
    BY <2>1, <2>2, <2>3, Unpublished DEF Holds, LockInv, Waiting
  <2>5. \A s \in Txns \ {t} : Holds(s)' => Holds(s)
    BY <2>1
  <2>6. \A s \in Txns :
          GivenBack(s)' /\ s \in published' => GivenBack(s) /\ s \in published
    BY <2>1
  <2>7. QED
    BY <2>1, <2>4, <2>5, <2>6, LockReleased
<1>14. QED
  BY <1>3, <1>4, <1>5, <1>6, <1>7, <1>8, <1>9, <1>10, <1>11, <1>12, <1>13
     DEF Gateway

(* A handler at work keeps the lock; its release is the last it needs.     *)
LEMMA LockHandler ==
    ASSUME Undisturbed, TypeOK, MessageInv, LockInv, CrashInv',
           NEW w \in Workers, NEW t \in Txns, Deliver(w, t) \/ Handler(w, t)
    PROVE  LockInv'
<1> USE DEF gatewayVars, brokerVars, At
<1>1. UNCHANGED <<pc, published>>
  BY DEF Deliver, Handler, LoadTransaction, MarkAsProcessing, RecheckBalance,
     Deduct, DeductRefused, MarkAsCompleted, SyncMongo, ReleaseLock, Refund,
     MarkAsFailed, Ack, HandleFailure, AnswerOnLostChannel
<1>2. \A s \in Txns :
        GivenBack(s)' /\ s \in published' => GivenBack(s) /\ s \in published
  BY <1>1 DEF GivenBack
<1>3. CASE ReleaseLock(w, t)
  <2>1. Move(w, t, "ack") /\ h[w][t] = "release" /\ lock' = Released(t)
        /\ UNCHANGED <<queue, timers>>
    BY <1>3, UndisturbedCrashes, ReplySure DEF ReleaseLock
  <2>2. /\ t \in published /\ t \notin queue /\ ~Waiting(t)
        /\ pc[t] \notin BeforePublish
        /\ \A v \in Workers : h[v][t] # "none" => v = w
    BY <2>1, OneHandler DEF LockInv, CrashInv
  <2>3. pc[t] \notin HoldingPc
    BY <2>2 DEF BeforePublish, HoldingPc, LockInv, LockOf, GivenBack
  <2>4. /\ h'[w][t] = "ack"
        /\ \A v \in Workers, s \in Txns :
             v # w \/ s # t => h'[v][s] = h[v][s]
    BY <2>1, MovePlace
  <2>5. Holds(t) /\ ~Holds(t)'
    BY <1>1, <2>1, <2>2, <2>3, <2>4 DEF Holds, Waiting
  <2>6. \A s \in Txns \ {t} : Holds(s)' => Holds(s)
    BY <1>1, <2>1, <2>4 DEF Holds, Waiting
  <2>7. QED
    BY <1>2, <2>1, <2>5, <2>6, LockReleased
<1>4. CASE ~ReleaseLock(w, t)
  <2>1. UNCHANGED lock
    BY <1>4 DEF Deliver, Handler, LoadTransaction, MarkAsProcessing,
       RecheckBalance, Deduct, DeductRefused, MarkAsCompleted, SyncMongo,
       Refund, MarkAsFailed, Ack, HandleFailure, AnswerOnLostChannel
  <2>2. \A v \in Workers, s \in Txns : v # w \/ s # t => h'[v][s] = h[v][s]
    BY <1>4 DEF Deliver, Handler, LoadTransaction, MarkAsProcessing,
       RecheckBalance, Deduct, DeductRefused, MarkAsCompleted, SyncMongo,
       Refund, MarkAsFailed, Ack, HandleFailure, AnswerOnLostChannel, Reply,
       Move, Done, TypeOK
  <2>3. \A s \in Txns \ {t} :
          /\ s \in queue' => s \in queue
          /\ Waiting(s)' => Waiting(s)
    <3>1. CASE HandleFailure(w, t)
      <4>1. /\ UNCHANGED queue
            /\ \A v \in Workers : timers'[v] \subseteq timers[v] \union {t}
        BY <3>1 DEF HandleFailure, TypeOK
      <4>2. QED
        BY <4>1 DEF Waiting
    <3>2. CASE UNCHANGED timers /\ queue' \subseteq queue
      BY <3>2 DEF Waiting
    <3>3. QED
      BY <1>4, <3>1, <3>2
         DEF Deliver, Handler, LoadTransaction, MarkAsProcessing,
             RecheckBalance, Deduct, DeductRefused, MarkAsCompleted, SyncMongo,
             Refund, MarkAsFailed, Ack, AnswerOnLostChannel
  <2>4. \A s \in Txns \ {t} : Holds(s)' => Holds(s)
    BY <1>1, <2>2, <2>3 DEF Holds
  <2>5. Holds(t)' => Holds(t)
    <3>1. CASE t \in queue \/ h[w][t] \notin {"none", "ack"}
      BY <3>1 DEF Holds
    <3>2. CASE h[w][t] \in {"none", "ack"} /\ t \notin queue
      <4>1. Ack(w, t)
        BY <1>4, <3>2, CrashesOnly, UndisturbedCrashes
           DEF LockInv, Deliver, Handler, LoadTransaction, MarkAsProcessing,
               RecheckBalance, Deduct, DeductRefused, MarkAsCompleted,
               SyncMongo, MarkAsFailed, HandleFailure
      <4>2. h'[w][t] = "none" /\ UNCHANGED <<queue, timers>>
        BY <4>1 DEF Ack, Done, TypeOK
      <4>3. QED
        BY <1>1, <2>2, <4>2 DEF Holds, Waiting
    <3>3. QED
      BY <3>1, <3>2
  <2>6. QED
    BY <1>2, <2>1, <2>4, <2>5, LockFrame
<1>5. QED
  BY <1>3, <1>4

(* The timers, the queries and a crash of the gateway.                     *)
LEMMA LockElsewhere ==
    ASSUME TypeOK, LockInv, CrashInv',
           \/ \E w \in Workers, t \in Txns : Timer(w, t)
           \/ \E u \in Users : Query(u)
           \/ CrashGateway
           \/ UNCHANGED vars
    PROVE  LockInv'
<1> USE DEF gatewayVars, brokerVars, handlerVars
<1>1. UNCHANGED <<lock, h, published>>
  BY DEF Timer, Republish, RepublishOnLostChannel, Query, QueryMiss,
     QueryLoad, QuerySync, CrashGateway, vars
<1>2. \A s \in Txns : pc'[s] = pc[s] \/ pc'[s] = "gone"
  BY DEF Timer, Republish, RepublishOnLostChannel, Query, QueryMiss,
     QueryLoad, QuerySync, CrashGateway, vars, TypeOK
<1>3. \A s \in Txns : s \in queue' \/ Waiting(s)' => s \in queue \/ Waiting(s)
  <2>1. CASE \E w \in Workers, t \in Txns : Timer(w, t)
    <3>1. PICK w \in Workers, t \in Txns : Timer(w, t)
      BY <2>1
    <3>2. /\ t \in timers[w]
          /\ timers' = [timers EXCEPT ![w] = timers[w] \ {t}]
          /\ queue' \subseteq queue \union {t}
      BY <3>1 DEF Timer, Republish, RepublishOnLostChannel
    <3>3. \A v \in Workers : timers'[v] \subseteq timers[v]
      BY <3>2 DEF TypeOK
    <3>4. QED
      BY <3>2, <3>3 DEF Waiting
  <2>2. CASE UNCHANGED <<queue, timers>>
    BY <2>2 DEF Waiting
  <2>3. QED
    BY <2>1, <2>2 DEF Query, QueryMiss, QueryLoad, QuerySync, CrashGateway,
       vars
<1>4. \A s \in Txns : Holds(s)' => Holds(s)
  BY <1>1, <1>2, <1>3 DEF Holds, HoldingPc
<1>5. \A s \in Txns :
        GivenBack(s)' /\ s \in published' => GivenBack(s) /\ s \in published
  BY <1>1, <1>2 DEF GivenBack
<1>6. QED
  BY <1>1, <1>4, <1>5, LockFrame

(* What the environment may not do.                                        *)
LEMMA GatewayCrashOnly ==
    ASSUME Undisturbed, CrashInv, Environment
    PROVE  CrashGateway
<1>1. \A w \in Workers : ~Crash(w)
  BY DEF Undisturbed, Crash, Fault
<1>2. \A u \in Users : ~ExpireLock(u)
  BY DEF Undisturbed, ExpireLock
<1>3. QED
  BY <1>1, <1>2, UndisturbedCrashes, CrashesOnly DEF Environment

LEMMA LockInit == Init => LockInv
BY CrashInit
   DEF Init, LockInv, LockOf, GivenBack, Holds, HoldingPc, Waiting

LEMMA LockStep ==
    ASSUME Undisturbed, TypeOK, MessageInv, LockInv, [Next]_vars
    PROVE  LockInv'
<1>1. CrashInv'
  BY UndisturbedCrashes, CrashStep DEF LockInv
<1>2. CASE Next
  BY <1>1, <1>2, LockGateway, LockHandler, LockElsewhere, GatewayCrashOnly
     DEF Next, LockInv
<1>3. CASE UNCHANGED vars
  BY <1>1, <1>3, LockElsewhere
<1>4. QED
  BY <1>2, <1>3

(* While locks outlive the payouts they guard and nothing but a gateway    *)
(* fails, one user's payouts run one at a time, from the gateway's lock to *)
(* the worker's release of it, retries and further workers included.       *)
THEOREM OnePayoutAtATime ==
    ASSUME Undisturbed
    PROVE  Spec => []OneAtATime
<1>1. Init => TypeOK /\ MessageInv /\ LockInv
  BY TypeInit, MessageInit, LockInit
<1>2. TypeOK /\ MessageInv /\ LockInv /\ [Next]_vars
        => (TypeOK /\ MessageInv /\ LockInv)'
  BY TypeStep, MessageStep, LockStep
<1>3. LockInv => OneAtATime
  <2>1. \A t \in Txns : Running(t) => Holds(t)
    BY DEF Running, Holds, HoldingPc
  <2>2. QED
    BY <2>1, OneHolder DEF OneAtATime
<1>4. QED
  BY <1>1, <1>2, <1>3, PTL DEF Spec

-----------------------------------------------------------------------------
(* The balances.  What a payout read under the lock stays true while it    *)
(* holds the lock: the missing key it is about to write, the balance its   *)
(* deduction returned.  And as long as Redis has no balance for a user,    *)
(* MongoDB's is the one every request of the user has loaded.              *)

MayPay(t) ==
    \/ t \notin published
    \/ t \in queue
    \/ Waiting(t)
    \/ \E w \in Workers :
         h[w][t] \notin {"none", "complete", "snapshot", "release", "ack"}

Returned == {"complete", "snapshot"}

KeyOf(t) ==
    /\ pc[t] = "unsynced" => redis[Owner[t]] = NoKey
    /\ pc[t] # "idle" /\ redis[Owner[t]] = NoKey => snap[t] = mongo[Owner[t]]
    /\ \A w \in Workers :
         h[w][t] \in Returned =>
             /\ redis[Owner[t]] # NoKey
             /\ ret[w][t] = Truncate(redis[Owner[t]])
    /\ MayPay(t) => deducted[t] = 0

BalanceInv ==
    /\ \A u \in Users : queryPc[u] = "idle"
    /\ \A t \in Txns : KeyOf(t)

LEMMA BalanceFrame ==
    ASSUME BalanceInv, UNCHANGED <<redis, mongo, deducted, queryPc>>,
           \A s \in Txns :
             /\ pc'[s] = "unsynced" =>
                  pc[s] = "unsynced" \/ redis[Owner[s]] = NoKey
             /\ pc'[s] # "idle" =>
                  \/ pc[s] # "idle" /\ snap'[s] = snap[s]
                  \/ snap'[s] = mongo[Owner[s]]
             /\ MayPay(s)' => MayPay(s),
           \A w \in Workers, s \in Txns :
             h'[w][s] \in Returned => h[w][s] \in Returned /\ ret'[w][s] = ret[w][s]
    PROVE  BalanceInv'
<1>1. ASSUME NEW s \in Txns
      PROVE  KeyOf(s)'
  <2>1. KeyOf(s)
    BY DEF BalanceInv
  <2>2. MayPay(s)' => deducted'[s] = 0
    BY <2>1 DEF KeyOf
  <2>3. \A w \in Workers :
          h'[w][s] \in Returned =>
             /\ redis'[Owner[s]] # NoKey
             /\ ret'[w][s] = Truncate(redis'[Owner[s]])
    BY <2>1 DEF KeyOf
  <2>4. /\ pc'[s] = "unsynced" => redis'[Owner[s]] = NoKey
        /\ pc'[s] # "idle" /\ redis'[Owner[s]] = NoKey
             => snap'[s] = mongo'[Owner[s]]
    BY <2>1 DEF KeyOf
  <2>5. QED
    BY <2>2, <2>3, <2>4 DEF KeyOf, Truncate
<1>2. QED
  BY <1>1 DEF BalanceInv

(* The two things a request may do to its payout's standing.               *)
LEMMA RequestMayPay ==
    ASSUME UNCHANGED <<timers, h>>, NEW t \in Txns,
           \/ UNCHANGED <<queue, published>>
           \/ /\ t \notin published
              /\ queue' = queue \union {t}
              /\ published' = published \union {t}
    PROVE  \A s \in Txns : MayPay(s)' => MayPay(s)
BY DEF MayPay, Waiting

LEMMA BalanceGateway ==
    ASSUME Undisturbed, TypeOK, MessageInv, LockInv, BalanceInv,
           NEW t \in Txns, LoadUser(t) \/ Gateway(t), ~SyncBalance(t)
    PROVE  BalanceInv'
<1> USE DEF brokerVars, handlerVars, queryVars, ledgerVars
<1>1. UNCHANGED <<redis, mongo, deducted, queryPc, h, ret, timers>>
  BY DEF LoadUser, Gateway, AcquireLock, RejectUnlocked, RejectLocked,
     ReadBalance, CheckFunds, CreateTransaction, Publish, PublishOnLostChannel,
     ReleaseOnFailure
<1>2. \A s \in Txns : MayPay(s)' => MayPay(s)
  <2>1. CASE Publish(t)
    <3>1. t \notin published
      BY <2>1 DEF Publish, GoTo, MessageInv, Custody, BeforePublish
    <3>2. QED
      BY <1>1, <2>1, <3>1, RequestMayPay DEF Publish
  <2>2. CASE ~Publish(t)
    <3>1. UNCHANGED <<queue, published>>
      BY <2>2 DEF LoadUser, Gateway, AcquireLock, RejectUnlocked,
         RejectLocked, ReadBalance, CheckFunds, CreateTransaction,
         PublishOnLostChannel, ReleaseOnFailure
    <3>2. QED
      BY <1>1, <3>1, RequestMayPay
  <2>3. QED
    BY <2>1, <2>2
<1>3. \A s \in Txns :
        /\ pc'[s] = "unsynced" => pc[s] = "unsynced" \/ redis[Owner[s]] = NoKey
        /\ pc'[s] # "idle" =>
             \/ pc[s] # "idle" /\ snap'[s] = snap[s]
             \/ snap'[s] = mongo[Owner[s]]
  <2>1. CASE LoadUser(t)
    BY <2>1 DEF LoadUser, GoTo, TypeOK
  <2>2. CASE ReadBalance(t)
    BY <2>2 DEF ReadBalance, GoTo, TypeOK
  <2>3. CASE ~LoadUser(t) /\ ~ReadBalance(t)
    <3>1. UNCHANGED snap
      BY <2>3 DEF Gateway, AcquireLock, RejectUnlocked, RejectLocked,
         CheckFunds, CreateTransaction, Publish, PublishOnLostChannel,
         ReleaseOnFailure
    <3>2. \E p, q : GoTo(t, p, q) /\ p # "idle" /\ q # "unsynced"
      <4> USE UndisturbedCrashes, AnsweredSure
      <4>1. CASE AcquireLock(t)
        BY <4>1 DEF AcquireLock
      <4>2. CASE CreateTransaction(t)
        BY <4>2 DEF CreateTransaction
      <4>3. CASE RejectUnlocked(t) \/ RejectLocked(t)
        BY <4>3 DEF RejectUnlocked, RejectLocked
      <4>4. CASE CheckFunds(t)
        BY <4>4 DEF CheckFunds
      <4>5. CASE Publish(t)
        BY <4>5 DEF Publish
      <4>6. CASE PublishOnLostChannel(t) \/ ReleaseOnFailure(t)
        BY <4>6 DEF PublishOnLostChannel, ReleaseOnFailure
      <4>7. QED
        BY <2>3, <4>1, <4>2, <4>3, <4>4, <4>5, <4>6 DEF Gateway
    <3>3. QED
      BY <3>1, <3>2 DEF GoTo, TypeOK
  <2>4. QED
    BY <2>1, <2>2, <2>3
<1>4. QED
  BY <1>1, <1>2, <1>3, BalanceFrame

(* The lazy sync: under the lock nobody else finds the key missing, and    *)
(* what is written is what MongoDB still has.                              *)
LEMMA SyncFacts ==
    ASSUME Undisturbed, TypeOK, MessageInv, LockInv, BalanceInv,
           NEW t \in Txns, SyncBalance(t)
    PROVE  /\ GoTo(t, "unsynced", "synced")
           /\ redis[Owner[t]] = NoKey
           /\ redis' = [redis EXCEPT ![Owner[t]] = mongo[Owner[t]]]
           /\ \A s \in Txns : Owner[s] = Owner[t] =>
                /\ pc'[s] # "unsynced"
                /\ \A w \in Workers : h[w][s] \notin Returned
<1>1. GoTo(t, "unsynced", "synced")
  BY UndisturbedCrashes, AnsweredSure DEF SyncBalance
<1>2. redis[Owner[t]] = NoKey /\ snap[t] = mongo[Owner[t]]
  BY <1>1 DEF GoTo, BalanceInv, KeyOf
<1>3. redis' = [redis EXCEPT ![Owner[t]] = mongo[Owner[t]]]
  BY <1>2 DEF SyncBalance
<1>4. ASSUME NEW s \in Txns, Owner[s] = Owner[t]
      PROVE  /\ pc'[s] # "unsynced"
             /\ \A w \in Workers : h[w][s] \notin Returned
  <2>1. Holds(t)
    BY <1>1 DEF GoTo, Holds, HoldingPc
  <2>2. pc[s] = "unsynced" => s = t
    BY <1>4, <2>1, OneHolder DEF Holds, HoldingPc
  <2>3. pc'[s] # "unsynced"
    BY <1>1, <2>2 DEF GoTo, TypeOK
  <2>4. \A w \in Workers : h[w][s] \notin Returned
    BY <1>2, <1>4 DEF BalanceInv, KeyOf
  <2>5. QED
    BY <2>3, <2>4
<1>5. QED
  BY <1>1, <1>2, <1>3, <1>4

LEMMA BalanceSync ==
    ASSUME Undisturbed, TypeOK, MessageInv, LockInv, BalanceInv,
           NEW t \in Txns, SyncBalance(t)
    PROVE  BalanceInv'
<1> USE DEF brokerVars, handlerVars, queryVars, ledgerVars
<1>1. UNCHANGED <<snap, mongo, deducted, queryPc, h, ret, queue, published,
                  timers>>
  BY DEF SyncBalance
<1>2. ASSUME NEW s \in Txns
      PROVE  KeyOf(s)'
  <2>1. MayPay(s)' <=> MayPay(s)
    BY <1>1 DEF MayPay, Waiting
  <2>2. KeyOf(s)
    BY DEF BalanceInv
  <2>3. pc'[s] = "idle" <=> pc[s] = "idle"
    BY SyncFacts DEF GoTo, TypeOK
  <2>4. CASE Owner[s] = Owner[t]
    <3>1. redis'[Owner[s]] # NoKey
      BY <2>4, SyncFacts, OwnerType, DataAssumption DEF TypeOK
    <3>2. QED
      BY <1>1, <2>1, <2>2, <2>4, <3>1, SyncFacts DEF KeyOf
  <2>5. CASE Owner[s] # Owner[t]
    <3>1. redis'[Owner[s]] = redis[Owner[s]] /\ pc'[s] = pc[s]
      BY <2>5, SyncFacts, OwnerType DEF TypeOK, GoTo
    <3>2. QED
      BY <1>1, <2>1, <2>2, <3>1 DEF KeyOf, Truncate
  <2>6. QED
    BY <2>4, <2>5
<1>3. QED
  BY <1>1, <1>2 DEF BalanceInv

(* A handler that moves without booking or writing a balance.              *)
QuietHandler(w, t) ==
    \/ LoadTransaction(w, t)
    \/ MarkAsProcessing(w, t)
    \/ RecheckBalance(w, t)
    \/ DeductRefused(w, t)
    \/ MarkAsCompleted(w, t)
    \/ ReleaseLock(w, t)
    \/ MarkAsFailed(w, t)

LEMMA BalanceHandler ==
    ASSUME Undisturbed, TypeOK, LockInv, BalanceInv,
           NEW w \in Workers, NEW t \in Txns, QuietHandler(w, t)
    PROVE  BalanceInv'
<1> USE DEF gatewayVars, brokerVars, queryVars, ledgerVars, At
<1>1. UNCHANGED <<redis, mongo, deducted, queryPc, pc, snap, ret, queue,
                  timers, published>>
  BY DEF QuietHandler, LoadTransaction, MarkAsProcessing, RecheckBalance,
         DeductRefused, MarkAsCompleted, ReleaseLock, MarkAsFailed
<1>2. \E p : /\ Move(w, t, p)
             /\ p \in Returned => h[w][t] \in Returned
             /\ h[w][t] \in {"none", "complete", "snapshot", "release", "ack"}
                  => p \in {"none", "complete", "snapshot", "release", "ack"}
  <2> USE UndisturbedCrashes, ReplySure DEF Returned
  <2>1. CASE LoadTransaction(w, t)
    BY <2>1 DEF LoadTransaction
  <2>2. CASE MarkAsProcessing(w, t)
    BY <2>2 DEF MarkAsProcessing
  <2>3. CASE RecheckBalance(w, t)
    BY <2>3 DEF RecheckBalance
  <2>4. CASE DeductRefused(w, t)
    BY <2>4 DEF DeductRefused
  <2>5. CASE MarkAsCompleted(w, t)
    BY <2>5 DEF MarkAsCompleted
  <2>6. CASE ReleaseLock(w, t)
    BY <2>6 DEF ReleaseLock
  <2>7. CASE MarkAsFailed(w, t)
    BY <2>7 DEF MarkAsFailed
  <2>8. QED
    BY <2>1, <2>2, <2>3, <2>4, <2>5, <2>6, <2>7 DEF QuietHandler
<1>3. \A v \in Workers, s \in Txns :
        /\ h'[v][s] \in Returned => h[v][s] \in Returned
        /\ h[v][s] \in {"none", "complete", "snapshot", "release", "ack"}
             => h'[v][s] \in {"none", "complete", "snapshot", "release", "ack"}
  BY <1>2, MovePlace
<1>4. \A s \in Txns : MayPay(s)' => MayPay(s)
  BY <1>1, <1>3 DEF MayPay, Waiting
<1>5. QED
  BY <1>1, <1>3, <1>4, BalanceFrame

(* Two handlers of one user's payouts are one handler.                     *)
LEMMA SameHandler ==
    ASSUME MessageInv, LockInv, NEW w \in Workers, NEW t \in Txns,
           NEW v \in Workers, NEW s \in Txns, Owner[s] = Owner[t],
           h[w][t] \notin {"none", "ack"}, h[v][s] \notin {"none", "ack"}
    PROVE  s = t /\ v = w
<1>1. s = t
  BY OneHolder DEF Holds
<1>2. v = w
  BY <1>1, OneHandler DEF LockInv, CrashInv
<1>3. QED
  BY <1>1, <1>2

(* The deduction: made once, on a balance that covers it, and what it      *)
(* returns is the balance it leaves.                                       *)
LEMMA DeductFacts ==
    ASSUME Undisturbed, TypeOK, MessageInv, LockInv, BalanceInv,
           NEW w \in Workers, NEW t \in Txns, Deduct(w, t)
    PROVE  /\ Move(w, t, "complete") /\ h[w][t] = "deduct"
           /\ redis[Owner[t]] \in Nat /\ redis[Owner[t]] >= Amount[t]
           /\ redis' = [redis EXCEPT ![Owner[t]] = redis[Owner[t]] - Amount[t]]
           /\ ret' = [ret EXCEPT ![w][t] =
                         Truncate(redis[Owner[t]] - Amount[t])]
           /\ deducted[t] = 0
           /\ deducted' = [deducted EXCEPT ![t] = 1]
           /\ t \in published
           /\ pc[t] # "rejected"
<1>1. /\ Move(w, t, "complete") /\ h[w][t] = "deduct"
      /\ HasFunds(t)
      /\ redis' = [redis EXCEPT ![Owner[t]] = redis[Owner[t]] - Amount[t]]
      /\ ret' = [ret EXCEPT ![w][t] = Truncate(redis[Owner[t]] - Amount[t])]
      /\ deducted' = [deducted EXCEPT ![t] = deducted[t] + 1]
  BY UndisturbedCrashes, ReplySure DEF Deduct, At
<1>2. redis[Owner[t]] \in Nat /\ redis[Owner[t]] >= Amount[t]
  BY <1>1, OwnerType DEF HasFunds, TypeOK, Balance
<1>3. deducted[t] = 0
  BY <1>1 DEF BalanceInv, KeyOf, MayPay
<1>4. t \in published
  BY <1>1, OneHandler DEF LockInv, CrashInv
<1>5. pc[t] # "rejected"
  BY <1>4 DEF LockInv, LockOf, GivenBack
<1>6. QED
  BY <1>1, <1>2, <1>3, <1>4, <1>5

LEMMA BalanceDeduct ==
    ASSUME Undisturbed, TypeOK, MessageInv, LockInv, BalanceInv,
           NEW w \in Workers, NEW t \in Txns, Deduct(w, t)
    PROVE  BalanceInv'
<1> USE DEF gatewayVars, brokerVars, queryVars
<1>1. UNCHANGED <<mongo, queryPc, pc, snap, queue, timers, published>>
  BY DEF Deduct
<1>2. /\ h'[w][t] = "complete"
      /\ \A v \in Workers, s \in Txns :
           v # w \/ s # t => h'[v][s] = h[v][s] /\ ret'[v][s] = ret[v][s]
  BY DeductFacts, MovePlace DEF TypeOK
<1>3. /\ redis'[Owner[t]] = redis[Owner[t]] - Amount[t]
      /\ \A u \in Users \ {Owner[t]} : redis'[u] = redis[u]
      /\ redis'[Owner[t]] # NoKey
      /\ ret'[w][t] = Truncate(redis'[Owner[t]])
  <2>1. redis[Owner[t]] - Amount[t] \in Int
    BY DeductFacts, DataAssumption
  <2>2. QED
    BY <2>1, DeductFacts, OwnerType, DataAssumption DEF TypeOK
<1>4. ASSUME NEW s \in Txns
      PROVE  KeyOf(s)'
  <2>1. KeyOf(s)
    BY DEF BalanceInv
  <2>2. CASE s = t
    <3>1. /\ t \notin queue /\ ~Waiting(t)
          /\ \A v \in Workers : h[v][t] # "none" => v = w
      BY DeductFacts, OneHandler DEF LockInv, CrashInv
    <3>2. ~MayPay(t)'
      BY <1>1, <1>2, <3>1, DeductFacts DEF MayPay, Waiting
    <3>3. pc[t] # "unsynced"
      BY <2>1, <2>2, DeductFacts, DataAssumption DEF KeyOf
    <3>4. \A v \in Workers : h'[v][t] \in Returned => v = w
      BY <1>2, <3>1 DEF Returned
    <3>5. QED
      BY <1>1, <1>3, <2>2, <3>2, <3>3, <3>4 DEF KeyOf, Truncate
  <2>3. CASE s # t
    <3>1. (MayPay(s)' => MayPay(s)) /\ deducted'[s] = deducted[s]
      <4>1. MayPay(s)' => MayPay(s)
        BY <1>1, <1>2, <2>3 DEF MayPay, Waiting
      <4>2. deducted'[s] = deducted[s]
        BY <2>3, DeductFacts DEF TypeOK
      <4>3. QED
        BY <4>1, <4>2
    <3>2. CASE Owner[s] = Owner[t]
      <4>1. \A v \in Workers : h[v][s] \notin Returned
        BY <2>3, <3>2, SameHandler, DeductFacts DEF Returned
      <4>2. pc[s] # "unsynced"
        BY <2>1, <3>2, DeductFacts, DataAssumption DEF KeyOf
      <4>3. QED
        BY <1>1, <1>2, <1>3, <2>1, <2>3, <3>1, <3>2, <4>1, <4>2 DEF KeyOf
    <3>3. CASE Owner[s] # Owner[t]
      <4>1. redis'[Owner[s]] = redis[Owner[s]]
        BY <1>3, <3>3, OwnerType
      <4>2. QED
        BY <1>1, <1>2, <2>1, <2>3, <3>1, <4>1 DEF KeyOf, Truncate
    <3>4. QED
      BY <3>2, <3>3
  <2>4. QED
    BY <2>2, <2>3
<1>5. QED
  BY <1>1, <1>4 DEF BalanceInv

(* The snapshot: written where Redis has the balance already.              *)
LEMMA SnapshotFacts ==
    ASSUME Undisturbed, TypeOK, BalanceInv,
           NEW w \in Workers, NEW t \in Txns, SyncMongo(w, t)
    PROVE  /\ Move(w, t, "release") /\ h[w][t] = "snapshot"
           /\ redis[Owner[t]] # NoKey
           /\ mongo' = [mongo EXCEPT ![Owner[t]] = Truncate(redis[Owner[t]])]
<1>1. /\ Move(w, t, "release") /\ h[w][t] = "snapshot"
      /\ mongo' = [mongo EXCEPT ![Owner[t]] = ret[w][t]]
  BY UndisturbedCrashes, ReplySure DEF SyncMongo, At
<1>2. redis[Owner[t]] # NoKey /\ ret[w][t] = Truncate(redis[Owner[t]])
  BY <1>1 DEF BalanceInv, KeyOf, Returned
<1>3. QED
  BY <1>1, <1>2

LEMMA BalanceSnapshot ==
    ASSUME Undisturbed, TypeOK, BalanceInv,
           NEW w \in Workers, NEW t \in Txns, SyncMongo(w, t)
    PROVE  BalanceInv'
<1> USE DEF gatewayVars, brokerVars, queryVars, ledgerVars
<1>1. UNCHANGED <<redis, ret, deducted, queryPc, pc, snap, queue, timers,
                  published>>
  BY DEF SyncMongo
<1>2. /\ h'[w][t] = "release" /\ h[w][t] = "snapshot"
      /\ \A v \in Workers, s \in Txns :
           v # w \/ s # t => h'[v][s] = h[v][s]
  BY SnapshotFacts, MovePlace
<1>3. ASSUME NEW s \in Txns
      PROVE  KeyOf(s)'
  <2>1. KeyOf(s)
    BY DEF BalanceInv
  <2>2. MayPay(s)' => MayPay(s)
    BY <1>1, <1>2 DEF MayPay, Waiting
  <2>3. redis[Owner[s]] = NoKey => mongo'[Owner[s]] = mongo[Owner[s]]
    BY SnapshotFacts, OwnerType DEF TypeOK
  <2>4. \A v \in Workers : h'[v][s] \in Returned => h[v][s] \in Returned
    BY <1>2 DEF Returned
  <2>5. QED
    BY <1>1, <2>1, <2>2, <2>3, <2>4 DEF KeyOf, Truncate
<1>4. QED
  BY <1>1, <1>3 DEF BalanceInv

(* Messages on the move, and a crash of the gateway.                       *)
LEMMA BalanceElsewhere ==
    ASSUME TypeOK, MessageInv, LockInv, BalanceInv,
           \/ \E w \in Workers, t \in Txns :
                \/ Deliver(w, t)
                \/ Ack(w, t)
                \/ HandleFailure(w, t)
                \/ Timer(w, t)
           \/ CrashGateway
           \/ UNCHANGED vars
    PROVE  BalanceInv'
<1> USE DEF gatewayVars, brokerVars, handlerVars, queryVars, ledgerVars
<1>1. UNCHANGED <<redis, mongo, deducted, snap, published>>
  BY DEF Deliver, Ack, HandleFailure, Timer, Republish,
     RepublishOnLostChannel, CrashGateway, vars
<1>2. UNCHANGED queryPc
  <2>1. CASE CrashGateway
    BY <2>1 DEF CrashGateway, BalanceInv, TypeOK
  <2>2. CASE UNCHANGED queryPc
    BY <2>2
  <2>3. QED
    BY <2>1, <2>2 DEF Deliver, Ack, HandleFailure, Timer, Republish,
       RepublishOnLostChannel, vars
<1>3. \A s \in Txns : \/ pc'[s] = pc[s]
                      \/ pc[s] # "idle" /\ pc'[s] = "gone"
  <2>1. CASE CrashGateway
    BY <2>1 DEF CrashGateway, TypeOK
  <2>2. CASE UNCHANGED pc
    BY <2>2
  <2>3. QED
    BY <2>1, <2>2 DEF Deliver, Ack, HandleFailure, Timer, Republish,
       RepublishOnLostChannel, vars
<1>4. /\ \A s \in Txns : MayPay(s)' => MayPay(s)
      /\ \A v \in Workers, s \in Txns :
           h'[v][s] \in Returned =>
               h[v][s] \in Returned /\ ret'[v][s] = ret[v][s]
  <2>1. CASE \E w \in Workers, t \in Txns : Deliver(w, t)
    <3>1. PICK w \in Workers, t \in Txns : Deliver(w, t)
      BY <2>1
    <3>2. /\ t \in queue /\ queue' \subseteq queue /\ UNCHANGED <<timers, ret>>
          /\ Move(w, t, "load")
      BY <3>1 DEF Deliver
    <3>3. QED
      BY <1>1, <3>2, MovePlace DEF MayPay, Waiting, Returned
  <2>2. CASE \E w \in Workers, t \in Txns : Ack(w, t)
    <3>1. PICK w \in Workers, t \in Txns : Ack(w, t)
      BY <2>2
    <3>2. /\ UNCHANGED <<timers, queue>>
          /\ h'[w][t] = "none"
          /\ \A v \in Workers, s \in Txns :
               v # w \/ s # t => h'[v][s] = h[v][s] /\ ret'[v][s] = ret[v][s]
      BY <3>1 DEF Ack, Done, TypeOK
    <3>3. QED
      BY <1>1, <3>2 DEF MayPay, Waiting, Returned
  <2>3. CASE \E w \in Workers, t \in Txns : HandleFailure(w, t)
    <3>1. PICK w \in Workers, t \in Txns : HandleFailure(w, t)
      BY <2>3
    <3>2. /\ UNCHANGED queue
          /\ h[w][t] = "nack" /\ h'[w][t] = "none"
          /\ \A v \in Workers, s \in Txns :
               v # w \/ s # t => h'[v][s] = h[v][s] /\ ret'[v][s] = ret[v][s]
          /\ \A v \in Workers : timers'[v] \subseteq timers[v] \union {t}
      BY <3>1 DEF HandleFailure, Done, At, TypeOK
    <3>3. MayPay(t)
      BY <3>2 DEF MayPay
    <3>4. QED
      BY <1>1, <3>2, <3>3 DEF MayPay, Waiting, Returned
  <2>4. CASE \E w \in Workers, t \in Txns : Timer(w, t)
    <3>1. PICK w \in Workers, t \in Txns : Timer(w, t)
      BY <2>4
    <3>2. /\ UNCHANGED <<h, ret>>
          /\ t \in timers[w]
          /\ timers' = [timers EXCEPT ![w] = timers[w] \ {t}]
          /\ queue' \subseteq queue \union {t}
      BY <3>1 DEF Timer, Republish, RepublishOnLostChannel
    <3>3. \A v \in Workers : timers'[v] \subseteq timers[v]
      BY <3>2 DEF TypeOK
    <3>4. QED
      BY <1>1, <3>2, <3>3 DEF MayPay, Waiting
  <2>5. CASE CrashGateway \/ UNCHANGED vars
    BY <1>1, <2>5 DEF CrashGateway, vars, MayPay, Waiting
  <2>6. QED
    BY <2>1, <2>2, <2>3, <2>4, <2>5
<1>5. QED
  BY <1>1, <1>2, <1>3, <1>4, BalanceFrame

LEMMA NoQuery ==
    ASSUME ~BalanceQueries, BalanceInv, NEW u \in Users
    PROVE  ~Query(u)
BY DEF BalanceInv, Query, QueryMiss, QueryLoad, QuerySync

(* A handler's step is one of the three that touch balances, a quiet one,  *)
(* or an answer to the broker.                                             *)
LEMMA HandlerSteps ==
    ASSUME Undisturbed, LockInv, NEW w \in Workers, NEW t \in Txns, Handler(w, t)
    PROVE  \/ Deduct(w, t)
           \/ SyncMongo(w, t)
           \/ QuietHandler(w, t)
           \/ Ack(w, t)
           \/ HandleFailure(w, t)
BY UndisturbedCrashes, CrashesOnly DEF Handler, QuietHandler, LockInv

LEMMA BalanceInit == Init => BalanceInv
BY OwnerType DEF Init, BalanceInv, KeyOf, Returned

LEMMA BalanceStep ==
    ASSUME Undisturbed, ~BalanceQueries, TypeOK, MessageInv, LockInv,
           BalanceInv, [Next]_vars
    PROVE  BalanceInv'
<1>1. ASSUME NEW t \in Txns, LoadUser(t) \/ Gateway(t)
      PROVE  BalanceInv'
  BY <1>1, BalanceGateway, BalanceSync
<1>2. ASSUME NEW w \in Workers, NEW t \in Txns,
             Deliver(w, t) \/ Handler(w, t) \/ Timer(w, t)
      PROVE  BalanceInv'
  BY <1>2, HandlerSteps, BalanceHandler, BalanceDeduct, BalanceSnapshot,
     BalanceElsewhere
<1>3. CASE Environment \/ UNCHANGED vars
  BY <1>3, GatewayCrashOnly, BalanceElsewhere DEF LockInv
<1>4. QED
  BY <1>1, <1>2, <1>3, NoQuery DEF Next

-----------------------------------------------------------------------------
(* The refinement, step by step: a deduction pays, a rejection declines,   *)
(* and every other step leaves the ledger as it was.                       *)

LEMMA LedgerFrame ==
    ASSUME UNCHANGED <<redis, mongo, deducted>>,
           \A s \in Txns : pc'[s] = "rejected" <=> pc[s] = "rejected"
    PROVE  UNCHANGED Ledger!ledger
BY DEF Ledger!ledger, LedgerBalance, LedgerOutcome

LEMMA LedgerInitial == Init => Ledger!LedgerInit
<1> SUFFICES ASSUME Init
             PROVE  Ledger!LedgerInit
  OBVIOUS
<1>1. LedgerOutcome = [t \in Txns |-> "open"]
  BY DEF Init, LedgerOutcome
<1>2. \A u \in Users : LedgerBalance[u] = InitBalance[u]
  BY DataAssumption DEF Init, LedgerBalance
<1>3. LedgerBalance = InitBalance
  BY <1>2, DataAssumption DEF LedgerBalance
<1>4. QED
  BY <1>1, <1>3 DEF Ledger!LedgerInit

LEMMA LedgerPays ==
    ASSUME Undisturbed, TypeOK, MessageInv, LockInv, BalanceInv,
           NEW w \in Workers, NEW t \in Txns, Deduct(w, t)
    PROVE  Ledger!Pay(t)
<1> USE DEF gatewayVars
<1>1. UNCHANGED <<mongo, pc>>
  BY DEF Deduct
<1>2. LedgerOutcome[t] = "open"
  BY DeductFacts DEF LedgerOutcome
<1>3. /\ redis[Owner[t]] # NoKey
      /\ LedgerBalance[Owner[t]] = redis[Owner[t]]
  BY DeductFacts, DataAssumption, OwnerType DEF LedgerBalance
<1>4. LedgerBalance[Owner[t]] >= Amount[t]
  BY <1>3, DeductFacts
<1>5. LedgerBalance' = [LedgerBalance EXCEPT ![Owner[t]] = @ - Amount[t]]
  <2>1. redis[Owner[t]] - Amount[t] \in Int
    BY DeductFacts, DataAssumption
  <2>2. redis[Owner[t]] - Amount[t] # NoKey
    BY <2>1, DataAssumption
  <2>3. QED
    BY <1>1, <1>3, <2>2, DeductFacts, OwnerType DEF LedgerBalance, TypeOK
<1>6. LedgerOutcome' = [LedgerOutcome EXCEPT ![t] = "paid"]
  <2>1. deducted'[t] = 1 /\ \A s \in Txns \ {t} : deducted'[s] = deducted[s]
    BY DeductFacts DEF TypeOK
  <2>2. \A s \in Txns : LedgerOutcome'[s] =
                          IF s = t THEN "paid" ELSE LedgerOutcome[s]
    BY <1>1, <2>1 DEF LedgerOutcome
  <2>3. QED
    BY <2>2 DEF LedgerOutcome
<1>7. QED
  BY <1>2, <1>4, <1>5, <1>6 DEF Ledger!Pay

LEMMA LedgerDeclines ==
    ASSUME TypeOK, MessageInv, LockInv, BalanceInv,
           NEW t \in Txns, RejectUnlocked(t) \/ ReleaseOnFailure(t)
    PROVE  Ledger!Decline(t)
<1> USE DEF ledgerVars
<1>1. UNCHANGED <<redis, mongo, deducted>>
  BY DEF RejectUnlocked, ReleaseOnFailure
<1>2. \E p \in {"loaded", "failing"} : GoTo(t, p, "rejected")
  BY DEF RejectUnlocked, ReleaseOnFailure
<1>3. t \notin published
  BY <1>2 DEF GoTo, MessageInv, Custody, BeforePublish, LockInv, LockOf,
     GivenBack
<1>4. deducted[t] = 0
  BY <1>3 DEF BalanceInv, KeyOf, MayPay
<1>5. LedgerOutcome[t] = "open"
  BY <1>2, <1>4 DEF LedgerOutcome, GoTo
<1>6. LedgerOutcome' = [LedgerOutcome EXCEPT ![t] = "declined"]
  <2>1. pc'[t] = "rejected" /\ \A s \in Txns \ {t} : pc'[s] = pc[s]
    BY <1>2 DEF GoTo, TypeOK
  <2>2. \A s \in Txns : LedgerOutcome'[s] =
                          IF s = t THEN "declined" ELSE LedgerOutcome[s]
    BY <1>1, <1>4, <2>1 DEF LedgerOutcome
  <2>3. QED
    BY <2>2 DEF LedgerOutcome
<1>7. UNCHANGED LedgerBalance
  BY <1>1 DEF LedgerBalance
<1>8. QED
  BY <1>5, <1>6, <1>7 DEF Ledger!Decline

LEMMA LedgerSyncs ==
    ASSUME Undisturbed, TypeOK, MessageInv, LockInv, BalanceInv,
           \/ \E t \in Txns : SyncBalance(t)
           \/ \E w \in Workers, t \in Txns : SyncMongo(w, t)
    PROVE  UNCHANGED Ledger!ledger
<1> USE DEF gatewayVars, ledgerVars
<1>1. ASSUME NEW t \in Txns, SyncBalance(t)
      PROVE  UNCHANGED LedgerBalance /\ UNCHANGED LedgerOutcome
  <2>1. UNCHANGED <<mongo, deducted>>
    BY <1>1 DEF SyncBalance
  <2>2. /\ redis[Owner[t]] = NoKey
        /\ redis'[Owner[t]] = mongo[Owner[t]]
        /\ \A u \in Users \ {Owner[t]} : redis'[u] = redis[u]
    BY <1>1, SyncFacts, OwnerType DEF TypeOK
  <2>3. UNCHANGED LedgerBalance
    BY <2>1, <2>2 DEF LedgerBalance
  <2>4. UNCHANGED LedgerOutcome
    BY <1>1, <2>1, SyncFacts DEF LedgerOutcome, GoTo, TypeOK
  <2>5. QED
    BY <2>3, <2>4
<1>2. ASSUME NEW w \in Workers, NEW t \in Txns, SyncMongo(w, t)
      PROVE  UNCHANGED LedgerBalance /\ UNCHANGED LedgerOutcome
  <2>1. UNCHANGED <<redis, deducted, pc>>
    BY <1>2 DEF SyncMongo
  <2>2. UNCHANGED LedgerBalance
    BY <1>2, <2>1, SnapshotFacts, OwnerType DEF LedgerBalance, TypeOK
  <2>3. QED
    BY <2>1, <2>2 DEF LedgerOutcome
<1>3. QED
  BY <1>1, <1>2 DEF Ledger!ledger

LEMMA LedgerStutters ==
    ASSUME Undisturbed, TypeOK, LockInv, NEW t \in Txns,
           LoadUser(t) \/ Gateway(t),
           ~SyncBalance(t), ~RejectUnlocked(t), ~ReleaseOnFailure(t)
    PROVE  UNCHANGED Ledger!ledger
<1> USE DEF ledgerVars
<1>1. UNCHANGED <<redis, mongo, deducted>>
  BY DEF LoadUser, Gateway, AcquireLock, RejectLocked, ReadBalance, CheckFunds,
     CreateTransaction, Publish, PublishOnLostChannel
<1>2. \E p, q : GoTo(t, p, q) /\ p # "rejected" /\ q # "rejected"
  <2> USE UndisturbedCrashes, AnsweredSure
  <2>1. CASE AcquireLock(t)
    BY <2>1 DEF AcquireLock
  <2>2. CASE CreateTransaction(t)
    BY <2>2 DEF CreateTransaction
  <2>3. CASE LoadUser(t) \/ RejectLocked(t)
    BY <2>3 DEF LoadUser, RejectLocked
  <2>4. CASE ReadBalance(t) \/ CheckFunds(t)
    BY <2>4 DEF ReadBalance, CheckFunds
  <2>5. CASE Publish(t) \/ PublishOnLostChannel(t)
    BY <2>5 DEF Publish, PublishOnLostChannel
  <2>6. QED
    BY <2>1, <2>2, <2>3, <2>4, <2>5 DEF Gateway
<1>3. \A s \in Txns : pc'[s] = "rejected" <=> pc[s] = "rejected"
  BY <1>2 DEF GoTo, TypeOK
<1>4. QED
  BY <1>1, <1>3, LedgerFrame

LEMMA LedgerQuiet ==
    ASSUME TypeOK,
           \/ \E w \in Workers, t \in Txns :
                \/ QuietHandler(w, t)
                \/ Deliver(w, t)
                \/ Ack(w, t)
                \/ HandleFailure(w, t)
                \/ Timer(w, t)
           \/ CrashGateway
           \/ UNCHANGED vars
    PROVE  UNCHANGED Ledger!ledger
<1> USE DEF gatewayVars, ledgerVars
<1>1. UNCHANGED <<redis, mongo, deducted>>
  BY DEF QuietHandler, LoadTransaction, MarkAsProcessing, RecheckBalance,
     DeductRefused, MarkAsCompleted, ReleaseLock, MarkAsFailed, Deliver, Ack,
     HandleFailure, Timer, Republish, RepublishOnLostChannel, CrashGateway,
     vars
<1>2. \A s \in Txns : pc'[s] = "rejected" <=> pc[s] = "rejected"
  <2>1. CASE CrashGateway
    BY <2>1 DEF CrashGateway, TypeOK
  <2>2. CASE UNCHANGED pc
    BY <2>2
  <2>3. QED
    BY <2>1, <2>2
       DEF QuietHandler, LoadTransaction, MarkAsProcessing, RecheckBalance,
           DeductRefused, MarkAsCompleted, ReleaseLock, MarkAsFailed, Deliver,
           Ack, HandleFailure, Timer, Republish, RepublishOnLostChannel, vars
<1>3. QED
  BY <1>1, <1>2, LedgerFrame

LEMMA LedgerStep ==
    ASSUME Undisturbed, ~BalanceQueries, TypeOK, MessageInv, LockInv,
           BalanceInv, [Next]_vars
    PROVE  [Ledger!LedgerNext]_(Ledger!ledger)
<1>1. ASSUME NEW t \in Txns, LoadUser(t) \/ Gateway(t)
      PROVE  Ledger!LedgerNext \/ UNCHANGED Ledger!ledger
  BY <1>1, LedgerDeclines, LedgerSyncs, LedgerStutters DEF Ledger!LedgerNext
<1>2. ASSUME NEW w \in Workers, NEW t \in Txns,
             Deliver(w, t) \/ Handler(w, t) \/ Timer(w, t)
      PROVE  Ledger!LedgerNext \/ UNCHANGED Ledger!ledger
  BY <1>2, HandlerSteps, LedgerPays, LedgerSyncs, LedgerQuiet
     DEF Ledger!LedgerNext
<1>3. CASE Environment \/ UNCHANGED vars
  BY <1>3, GatewayCrashOnly, LedgerQuiet DEF LockInv
<1>4. QED
  BY <1>1, <1>2, <1>3, NoQuery DEF Next

(* Undisturbed and with no balance query racing the lazy sync, the pipeline*)
(* is a ledger: each payout is paid at most once, from a balance that      *)
(* covers it, or declined, and nothing else moves a balance.               *)
THEOREM PipelineIsALedger ==
    ASSUME Undisturbed, ~BalanceQueries
    PROVE  Spec => ImplementsLedger
<1>1. Init => TypeOK /\ MessageInv /\ LockInv /\ BalanceInv /\ Ledger!LedgerInit
  BY TypeInit, MessageInit, LockInit, BalanceInit, LedgerInitial
<1>2. TypeOK /\ MessageInv /\ LockInv /\ BalanceInv /\ [Next]_vars
        => (TypeOK /\ MessageInv /\ LockInv /\ BalanceInv)'
  BY TypeStep, MessageStep, LockStep, BalanceStep
<1>3. TypeOK /\ MessageInv /\ LockInv /\ BalanceInv /\ [Next]_vars
        => [Ledger!LedgerNext]_(Ledger!ledger)
  BY LedgerStep
<1>4. QED
  BY <1>1, <1>2, <1>3, PTL DEF Spec, ImplementsLedger, Ledger!LedgerSpec

-----------------------------------------------------------------------------
(* The snapshot is exact for amounts in whole units.                       *)

Whole(n) == Truncate(n) = n

WholeUnits ==
    /\ \A u \in Users : Whole(InitBalance[u])
    /\ \A t \in Txns : Whole(Amount[t])

LEMMA WholeMultiple ==
    ASSUME NEW n \in Int
    PROVE  Whole(n) <=> \E k \in Int : n = k * Unit
<1>1. ASSUME NEW k \in Int
      PROVE  (k * Unit) \div Unit = k
  BY DataAssumption
<1>2. n \div Unit \in Int
  BY DataAssumption
<1>3. QED
  BY <1>1, <1>2 DEF Whole, Truncate

LEMMA WholeDifference ==
    ASSUME NEW a \in Int, NEW b \in Int, Whole(a), Whole(b)
    PROVE  Whole(a - b)
<1>1. PICK j \in Int : a = j * Unit
  BY WholeMultiple
<1>2. PICK k \in Int : b = k * Unit
  BY WholeMultiple
<1>3. a - b = (j - k) * Unit
  BY <1>1, <1>2, DataAssumption
<1>4. j - k \in Int /\ a - b \in Int
  OBVIOUS
<1>5. QED
  BY <1>3, <1>4, WholeMultiple

LEMMA WholeZero == Whole(0)
BY DataAssumption DEF Whole, Truncate

WholeInv ==
    /\ \A u \in Users :
         /\ Whole(mongo[u])
         /\ redis[u] # NoKey => Whole(redis[u])
    /\ \A t \in Txns : Whole(snap[t])

ExactInv == WholeInv /\ SnapshotExact

(* Balances stay where they are, and no handler leaves the two places      *)
(* between the deduction and the snapshot.                                 *)
LEMMA ExactFrame ==
    ASSUME ExactInv, UNCHANGED <<redis, mongo>>,
           \A t \in Txns : snap'[t] = snap[t] \/ snap'[t] = mongo[Owner[t]],
           \A w \in Workers, t \in Txns :
               h[w][t] \in Returned => h'[w][t] \in Returned
    PROVE  ExactInv'
<1>1. WholeInv'
  BY OwnerType DEF ExactInv, WholeInv, Whole, Truncate
<1>2. SnapshotExact'
  BY DEF ExactInv, SnapshotExact, Returned
<1>3. QED
  BY <1>1, <1>2 DEF ExactInv

LEMMA ExactGateway ==
    ASSUME Undisturbed, TypeOK, MessageInv, LockInv, BalanceInv, ExactInv,
           NEW t \in Txns, LoadUser(t) \/ Gateway(t)
    PROVE  ExactInv'
<1> USE DEF handlerVars
<1>1. CASE SyncBalance(t)
  <2>1. UNCHANGED <<mongo, snap, h>>
    BY <1>1 DEF SyncBalance
  <2>2. /\ redis'[Owner[t]] = mongo'[Owner[t]]
        /\ \A u \in Users \ {Owner[t]} : redis'[u] = redis[u]
    BY <1>1, <2>1, SyncFacts, OwnerType DEF TypeOK
  <2>3. WholeInv'
    BY <2>1, <2>2 DEF ExactInv, WholeInv, Whole, Truncate
  <2>4. SnapshotExact'
    BY <2>1, <2>2 DEF ExactInv, SnapshotExact
  <2>5. QED
    BY <2>3, <2>4 DEF ExactInv
<1>2. CASE ~SyncBalance(t)
  <2>1. UNCHANGED <<redis, mongo, h>>
    BY <1>2 DEF LoadUser, Gateway, AcquireLock, RejectUnlocked, RejectLocked,
       ReadBalance, CheckFunds, CreateTransaction, Publish,
       PublishOnLostChannel, ReleaseOnFailure
  <2>2. \A s \in Txns : snap'[s] = snap[s] \/ snap'[s] = mongo[Owner[s]]
    BY <1>2 DEF LoadUser, Gateway, AcquireLock, RejectUnlocked, RejectLocked,
       ReadBalance, CheckFunds, CreateTransaction, Publish,
       PublishOnLostChannel, ReleaseOnFailure, TypeOK
  <2>3. QED
    BY <2>1, <2>2, ExactFrame
<1>3. QED
  BY <1>1, <1>2

LEMMA ExactDeduct ==
    ASSUME Undisturbed, WholeUnits, TypeOK, MessageInv, LockInv, BalanceInv,
           ExactInv, NEW w \in Workers, NEW t \in Txns, Deduct(w, t)
    PROVE  ExactInv'
<1> USE DEF gatewayVars
<1>1. UNCHANGED <<mongo, snap>>
  BY DEF Deduct
<1>2. /\ h'[w][t] = "complete"
      /\ \A v \in Workers, s \in Txns :
           v # w \/ s # t => h'[v][s] = h[v][s]
  BY DeductFacts, MovePlace
<1>3. /\ redis'[Owner[t]] = redis[Owner[t]] - Amount[t]
      /\ \A u \in Users \ {Owner[t]} : redis'[u] = redis[u]
      /\ redis[Owner[t]] \in Nat /\ redis[Owner[t]] # NoKey
  BY DeductFacts, OwnerType, DataAssumption DEF TypeOK
<1>4. Whole(redis[Owner[t]]) /\ Whole(Amount[t])
  BY <1>3, OwnerType DEF ExactInv, WholeInv, WholeUnits
<1>5. Whole(redis[Owner[t]] - Amount[t])
  BY <1>3, <1>4, WholeDifference, DataAssumption
<1>6. WholeInv'
  BY <1>1, <1>3, <1>5 DEF ExactInv, WholeInv, Whole, Truncate
<1>7. SnapshotExact'
  <2> SUFFICES ASSUME NEW u \in Users
               PROVE  \/ redis'[u] \in {NoKey, mongo'[u]}
                      \/ \E v \in Workers, s \in Txns :
                           Owner[s] = u /\ h'[v][s] \in {"complete", "snapshot"}
    BY DEF SnapshotExact
  <2>1. CASE u = Owner[t]
    BY <1>2, <2>1
  <2>2. CASE u # Owner[t]
    BY <1>1, <1>2, <1>3, <2>2 DEF ExactInv, SnapshotExact
  <2>3. QED
    BY <2>1, <2>2
<1>8. QED
  BY <1>6, <1>7 DEF ExactInv

LEMMA ExactSnapshot ==
    ASSUME Undisturbed, TypeOK, BalanceInv, ExactInv,
           NEW w \in Workers, NEW t \in Txns, SyncMongo(w, t)
    PROVE  ExactInv'
<1> USE DEF gatewayVars
<1>1. UNCHANGED <<redis, snap>>
  BY DEF SyncMongo
<1>2. \A v \in Workers, s \in Txns : v # w \/ s # t => h'[v][s] = h[v][s]
  BY SnapshotFacts, MovePlace
<1>3. /\ redis[Owner[t]] # NoKey
      /\ mongo'[Owner[t]] = redis[Owner[t]]
      /\ Whole(redis[Owner[t]])
      /\ \A u \in Users \ {Owner[t]} : mongo'[u] = mongo[u]
  BY SnapshotFacts, OwnerType DEF ExactInv, WholeInv, Whole, TypeOK
<1>4. WholeInv'
  BY <1>1, <1>3 DEF ExactInv, WholeInv, Whole, Truncate
<1>5. SnapshotExact'
  BY <1>1, <1>2, <1>3 DEF ExactInv, SnapshotExact
<1>6. QED
  BY <1>4, <1>5 DEF ExactInv

LEMMA ExactElsewhere ==
    ASSUME Undisturbed, TypeOK, ExactInv,
           \/ \E w \in Workers, t \in Txns :
                \/ QuietHandler(w, t)
                \/ Deliver(w, t)
                \/ Ack(w, t)
                \/ HandleFailure(w, t)
                \/ Timer(w, t)
           \/ CrashGateway
           \/ UNCHANGED vars,
           MessageInv, LockInv
    PROVE  ExactInv'
<1> USE DEF gatewayVars, handlerVars
<1>1. UNCHANGED <<redis, mongo, snap>>
  BY DEF QuietHandler, LoadTransaction, MarkAsProcessing, RecheckBalance,
     DeductRefused, MarkAsCompleted, ReleaseLock, MarkAsFailed, Deliver, Ack,
     HandleFailure, Timer, Republish, RepublishOnLostChannel, CrashGateway,
     vars
<1>2. \A v \in Workers, s \in Txns :
        h[v][s] \in Returned => h'[v][s] \in Returned
  <2>1. ASSUME NEW w \in Workers, NEW t \in Txns, QuietHandler(w, t)
        PROVE  \E p : Move(w, t, p) /\ (h[w][t] \in Returned => p \in Returned)
    <3> USE UndisturbedCrashes, ReplySure DEF Returned, At
    <3>1. CASE LoadTransaction(w, t)
      BY <3>1 DEF LoadTransaction
    <3>2. CASE MarkAsProcessing(w, t)
      BY <3>2 DEF MarkAsProcessing
    <3>3. CASE RecheckBalance(w, t) \/ DeductRefused(w, t)
      BY <3>3 DEF RecheckBalance, DeductRefused
    <3>4. CASE MarkAsCompleted(w, t)
      BY <3>4 DEF MarkAsCompleted
    <3>5. CASE ReleaseLock(w, t)
      BY <3>5 DEF ReleaseLock
    <3>6. CASE MarkAsFailed(w, t)
      BY <3>6 DEF MarkAsFailed
    <3>7. QED
      BY <2>1, <3>1, <3>2, <3>3, <3>4, <3>5, <3>6 DEF QuietHandler
  <2>2. ASSUME NEW w \in Workers, NEW t \in Txns, Deliver(w, t)
        PROVE  Move(w, t, "load") /\ h[w][t] \notin Returned
    <3>1. h[w][t] = "none"
      BY <2>2, NoHandler DEF Deliver, LockInv, CrashInv
    <3>2. QED
      BY <2>2, <3>1 DEF Deliver, Returned
  <2>3. ASSUME NEW w \in Workers, NEW t \in Txns,
               Ack(w, t) \/ HandleFailure(w, t)
        PROVE  /\ h[w][t] \notin Returned
               /\ \A v \in Workers, s \in Txns :
                    v # w \/ s # t => h'[v][s] = h[v][s]
    BY <2>3 DEF Ack, HandleFailure, Done, At, Returned, TypeOK
  <2>4. CASE UNCHANGED h
    BY <2>4
  <2>5. QED
    BY <2>1, <2>2, <2>3, <2>4, MovePlace
       DEF Timer, Republish, RepublishOnLostChannel, CrashGateway, vars
<1>3. QED
  BY <1>1, <1>2, ExactFrame

LEMMA ExactInit ==
    ASSUME WholeUnits, Init
    PROVE  ExactInv
<1>1. \A u \in Users : Whole(mongo[u]) /\ redis[u] \in {NoKey, mongo[u]}
  BY DEF Init, WholeUnits
<1>2. \A t \in Txns : Whole(snap[t])
  BY WholeZero DEF Init
<1>3. QED
  BY <1>1, <1>2 DEF ExactInv, WholeInv, SnapshotExact

LEMMA ExactStep ==
    ASSUME Undisturbed, ~BalanceQueries, WholeUnits, TypeOK, MessageInv,
           LockInv, BalanceInv, ExactInv, [Next]_vars
    PROVE  ExactInv'
<1>1. ASSUME NEW t \in Txns, LoadUser(t) \/ Gateway(t)
      PROVE  ExactInv'
  BY <1>1, ExactGateway
<1>2. ASSUME NEW w \in Workers, NEW t \in Txns,
             Deliver(w, t) \/ Handler(w, t) \/ Timer(w, t)
      PROVE  ExactInv'
  BY <1>2, HandlerSteps, ExactDeduct, ExactSnapshot, ExactElsewhere
<1>3. CASE Environment \/ UNCHANGED vars
  BY <1>3, GatewayCrashOnly, ExactElsewhere DEF LockInv
<1>4. QED
  BY <1>1, <1>2, <1>3, NoQuery DEF Next

(* In the same circumstances and for amounts in whole units, the MongoDB   *)
(* balance is the Redis balance whenever no worker is between the          *)
(* deduction and the write of the snapshot.                                *)
THEOREM SnapshotsAreExact ==
    ASSUME Undisturbed, ~BalanceQueries, WholeUnits
    PROVE  Spec => []SnapshotExact
<1>1. Init => TypeOK /\ MessageInv /\ LockInv /\ BalanceInv /\ ExactInv
  BY TypeInit, MessageInit, LockInit, BalanceInit, ExactInit
<1>2. TypeOK /\ MessageInv /\ LockInv /\ BalanceInv /\ ExactInv /\ [Next]_vars
        => (TypeOK /\ MessageInv /\ LockInv /\ BalanceInv /\ ExactInv)'
  BY TypeStep, MessageStep, LockStep, BalanceStep, ExactStep
<1>3. ExactInv => SnapshotExact
  BY DEF ExactInv
<1>4. QED
  BY <1>1, <1>2, <1>3, PTL DEF Spec

=============================================================================
