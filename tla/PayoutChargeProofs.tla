------------------------- MODULE PayoutChargeProofs -------------------------
(***************************************************************************)
(* That a fault costs at most one wrong booking, for any number of users,  *)
(* payouts, workers, retries and faults.                                   *)
(*                                                                         *)
(* ChargeDrift speaks of the bookings made.  What makes it inductive is to *)
(* count the bookings still to come as well: a handler that may yet reach  *)
(* the deduction, now or by way of a retry, and a message that may yet     *)
(* reach a handler, each stand for one deduction, and a handler in the     *)
(* catch block stands for one refund.  Only a fault adds to these counts.  *)
(***************************************************************************)
EXTENDS PayoutPipelineProofs, SumProofs

MayDeduct ==
    {"load", "mark", "check", "deduct", "refund", "refundNoTx", "fail", "nack"}
MayRefund == {"refund", "refundNoTx"}

Chargers(t) == {w \in Workers : h[w][t] \in MayDeduct}
Refunders(t) == {w \in Workers : h[w][t] \in MayRefund}

ToDeliver(t) == t \notin published \/ t \in queue \/ Waiting(t)
Pending(t) == IF ToDeliver(t) THEN 1 ELSE 0

Booked(t) == deducted[t] - restored[t]

ChargeOf(t) ==
    /\ Booked(t) + Cardinality(Chargers(t)) + Pending(t) <= 1 + faults
    /\ Cardinality(Refunders(t)) - Booked(t) <= faults

ChargeInv == \A t \in Txns : ChargeOf(t)

-----------------------------------------------------------------------------
(* Counting workers.                                                       *)

LEMMA CountType ==
    ASSUME NEW S \in SUBSET Workers
    PROVE  IsFiniteSet(S) /\ Cardinality(S) \in Nat
BY BoundAssumption, FS_Subset, FS_CardinalityType

(* A set of workers that changes for w alone changes its size by one, or   *)
(* not at all.                                                             *)
LEMMA CountChange ==
    ASSUME NEW S \in SUBSET Workers, NEW T \in SUBSET Workers, NEW w,
           \A v \in Workers \ {w} : v \in T <=> v \in S
    PROVE  Cardinality(T) + (IF w \in S THEN 1 ELSE 0)
             = Cardinality(S) + (IF w \in T THEN 1 ELSE 0)
<1>1. IsFiniteSet(S) /\ IsFiniteSet(T)
  BY CountType
<1>2. Cardinality(S) \in Nat /\ Cardinality(T) \in Nat
  BY CountType
<1>3. CASE w \in S /\ w \in T
  <2>1. S = T
    BY <1>3
  <2>2. QED
    BY <1>2, <1>3, <2>1
<1>4. CASE w \in S /\ w \notin T
  <2>1. T = S \ {w}
    BY <1>4
  <2>2. Cardinality(T) = Cardinality(S) - 1
    BY <1>1, <1>4, <2>1, FS_RemoveElement
  <2>3. QED
    BY <1>2, <1>4, <2>2
<1>5. CASE w \notin S /\ w \in T
  <2>1. T = S \union {w}
    BY <1>5
  <2>2. Cardinality(T) = Cardinality(S) + 1
    BY <1>1, <1>5, <2>1, FS_AddElement
  <2>3. QED
    BY <1>2, <1>5, <2>2
<1>6. CASE w \notin S /\ w \notin T
  <2>1. S = T
    BY <1>6
  <2>2. QED
    BY <1>2, <1>6, <2>1
<1>7. QED
  BY <1>3, <1>4, <1>5, <1>6

One(b) == IF b THEN 1 ELSE 0

(* A handler that moves to p takes itself from one count to another.       *)
LEMMA MoveCount ==
    ASSUME TypeOK, NEW w \in Workers, NEW t \in Txns, NEW p, Move(w, t, p)
    PROVE  /\ \A s \in Txns \ {t} :
                Chargers(s)' = Chargers(s) /\ Refunders(s)' = Refunders(s)
           /\ Cardinality(Chargers(t))' + One(h[w][t] \in MayDeduct)
                = Cardinality(Chargers(t)) + One(p \in MayDeduct)
           /\ Cardinality(Refunders(t))' + One(h[w][t] \in MayRefund)
                = Cardinality(Refunders(t)) + One(p \in MayRefund)
<1>1. /\ h'[w][t] = p
      /\ \A v \in Workers, s \in Txns :
           v # w \/ s # t => h'[v][s] = h[v][s]
  BY DEF Move, TypeOK
<1>2. \A s \in Txns \ {t} :
         Chargers(s)' = Chargers(s) /\ Refunders(s)' = Refunders(s)
  BY <1>1 DEF Chargers, Refunders
<1>3. /\ Chargers(t) \in SUBSET Workers /\ Chargers(t)' \in SUBSET Workers
      /\ Refunders(t) \in SUBSET Workers /\ Refunders(t)' \in SUBSET Workers
  BY DEF Chargers, Refunders
<1>4. /\ \A v \in Workers \ {w} : v \in Chargers(t)' <=> v \in Chargers(t)
      /\ w \in Chargers(t) <=> h[w][t] \in MayDeduct
      /\ w \in Chargers(t)' <=> p \in MayDeduct
  BY <1>1 DEF Chargers
<1>5. /\ \A v \in Workers \ {w} : v \in Refunders(t)' <=> v \in Refunders(t)
      /\ w \in Refunders(t) <=> h[w][t] \in MayRefund
      /\ w \in Refunders(t)' <=> p \in MayRefund
  BY <1>1 DEF Refunders
<1>6. Cardinality(Chargers(t))' + One(h[w][t] \in MayDeduct)
        = Cardinality(Chargers(t)) + One(p \in MayDeduct)
  BY <1>3, <1>4, CountChange DEF One
<1>7. Cardinality(Refunders(t))' + One(h[w][t] \in MayRefund)
        = Cardinality(Refunders(t)) + One(p \in MayRefund)
  BY <1>3, <1>5, CountChange DEF One
<1>8. QED
  BY <1>2, <1>6, <1>7

(* The counts and the bookings are numbers.                                *)
LEMMA ChargeNumbers ==
    ASSUME TypeOK, NEW t \in Txns
    PROVE  /\ Cardinality(Chargers(t)) \in Nat
           /\ Cardinality(Refunders(t)) \in Nat
           /\ Booked(t) \in Int
           /\ Pending(t) \in {0, 1}
           /\ faults \in Nat
<1>1. Chargers(t) \in SUBSET Workers /\ Refunders(t) \in SUBSET Workers
  BY DEF Chargers, Refunders
<1>2. Cardinality(Chargers(t)) \in Nat /\ Cardinality(Refunders(t)) \in Nat
  BY <1>1, CountType
<1>3. Booked(t) \in Int /\ faults \in Nat
  BY BoundAssumption DEF Booked, TypeOK
<1>4. Pending(t) \in {0, 1}
  BY DEF Pending
<1>5. QED
  BY <1>2, <1>3, <1>4

-----------------------------------------------------------------------------
(* The two ways a step keeps the counts in check.                          *)

(* No handler moves and nothing is booked: at most, for each fault, one    *)
(* message becomes deliverable again.                                      *)
LEMMA ChargeFrame ==
    ASSUME TypeOK, TypeOK', ChargeInv, UNCHANGED <<h, deducted, restored>>,
           \A s \in Txns : Pending(s)' - Pending(s) <= faults' - faults,
           faults' >= faults
    PROVE  ChargeInv'
<1> SUFFICES ASSUME NEW s \in Txns
             PROVE  ChargeOf(s)'
  BY DEF ChargeInv
<1>1. ChargeOf(s)
  BY DEF ChargeInv
<1>2. Chargers(s)' = Chargers(s) /\ Refunders(s)' = Refunders(s)
  BY DEF Chargers, Refunders
<1>3. Booked(s)' = Booked(s)
  BY DEF Booked
<1>4. /\ Cardinality(Chargers(s)) \in Nat /\ Cardinality(Refunders(s)) \in Nat
      /\ Booked(s) \in Int /\ Pending(s) \in {0, 1} /\ faults \in Nat
  BY ChargeNumbers
<1>5. Pending(s)' \in {0, 1} /\ faults' \in Nat
  BY BoundAssumption DEF Pending, TypeOK
<1>6. QED
  BY <1>1, <1>2, <1>3, <1>4, <1>5 DEF ChargeOf

(* One handler moves: the bookings it makes and the places it leaves and   *)
(* reaches add up to no more than the faults of the step.                  *)
LEMMA ChargeMove ==
    ASSUME TypeOK, TypeOK', ChargeInv,
           NEW w \in Workers, NEW t \in Txns, NEW p, Move(w, t, p),
           \A s \in Txns \ {t} :
               Booked(s)' = Booked(s) /\ Pending(s)' = Pending(s),
           (Booked(t)' - Booked(t)) + One(p \in MayDeduct)
             - One(h[w][t] \in MayDeduct) + (Pending(t)' - Pending(t))
             <= faults' - faults,
           One(p \in MayRefund) - One(h[w][t] \in MayRefund)
             - (Booked(t)' - Booked(t)) <= faults' - faults,
           faults' >= faults
    PROVE  ChargeInv'
<1>1. \A s \in Txns :
         /\ Cardinality(Chargers(s)) \in Nat
         /\ Cardinality(Refunders(s)) \in Nat
         /\ Booked(s) \in Int /\ Pending(s) \in {0, 1} /\ faults \in Nat
  BY ChargeNumbers
<1>2. Booked(t)' \in Int /\ Pending(t)' \in {0, 1} /\ faults' \in Nat
  BY BoundAssumption DEF Booked, Pending, TypeOK
<1>3. Chargers(t)' \in SUBSET Workers /\ Refunders(t)' \in SUBSET Workers
  BY DEF Chargers, Refunders
<1>4. Cardinality(Chargers(t)') \in Nat /\ Cardinality(Refunders(t)') \in Nat
  BY <1>3, CountType
<1>5. ASSUME NEW s \in Txns \ {t}
      PROVE  ChargeOf(s)'
  <2>1. Chargers(s)' = Chargers(s) /\ Refunders(s)' = Refunders(s)
    BY MoveCount
  <2>2. ChargeOf(s)
    BY DEF ChargeInv
  <2>3. QED
    BY <1>1, <1>2, <2>1, <2>2 DEF ChargeOf
<1>6. ChargeOf(t)'
  <2>1. /\ Cardinality(Chargers(t))' + One(h[w][t] \in MayDeduct)
             = Cardinality(Chargers(t)) + One(p \in MayDeduct)
        /\ Cardinality(Refunders(t))' + One(h[w][t] \in MayRefund)
             = Cardinality(Refunders(t)) + One(p \in MayRefund)
    BY MoveCount
  <2>2. /\ One(h[w][t] \in MayDeduct) \in Int /\ One(p \in MayDeduct) \in Int
        /\ One(h[w][t] \in MayRefund) \in Int /\ One(p \in MayRefund) \in Int
    BY DEF One
  <2>3. ChargeOf(t)
    BY DEF ChargeInv
  <2>4. QED
    BY <1>1, <1>2, <1>4, <2>1, <2>2, <2>3 DEF ChargeOf
<1>7. QED
  BY <1>5, <1>6 DEF ChargeInv

(* A message the broker and its timers treat as before is as deliverable.  *)
LEMMA PendingFrame ==
    ASSUME UNCHANGED <<brokerVars, published>>
    PROVE  \A s \in Txns : Pending(s)' = Pending(s)
BY DEF brokerVars, Pending, ToDeliver, Waiting

LEMMA FaultCount ==
    ASSUME NEW kind, Fault(kind)
    PROVE  faults' = faults + 1
BY DEF Fault

-----------------------------------------------------------------------------
(* The steps.                                                              *)

LEMMA FaultsGrow ==
    ASSUME TypeOK, [Next]_vars
    PROVE  faults' >= faults
<1> SUFFICES ASSUME faults' # faults
             PROVE  \E kind : Fault(kind)
  BY ChargeNumbers, BoundAssumption DEF Fault, TypeOK
<1> USE DEF At
<1>1. ASSUME NEW t \in Txns, LoadUser(t) \/ Gateway(t)
      PROVE  \E kind : Fault(kind)
  BY <1>1 DEF LoadUser, Gateway, AcquireLock, RejectUnlocked, RejectLocked,
     ReadBalance, SyncBalance, CheckFunds, CreateTransaction, Publish,
     PublishOnLostChannel, ReleaseOnFailure, Answered
<1>2. ASSUME NEW u \in Users, Query(u)
      PROVE  \E kind : Fault(kind)
  BY <1>2 DEF Query, QueryMiss, QueryLoad, QuerySync
<1>3. ASSUME NEW w \in Workers, NEW t \in Txns,
             Deliver(w, t) \/ Handler(w, t) \/ Timer(w, t)
      PROVE  \E kind : Fault(kind)
  BY <1>3 DEF Deliver, Handler, Timer, LoadTransaction, MarkAsProcessing,
     RecheckBalance, Deduct, DeductRefused, MarkAsCompleted, SyncMongo,
     ReleaseLock, Refund, MarkAsFailed, Ack, HandleFailure,
     AnswerOnLostChannel, Republish, RepublishOnLostChannel, Reply
<1>4. CASE Environment
  BY <1>4 DEF Environment, ExpireLock, GatewayStoreError, ExpireMessage,
     HandlerStoreError, DeductResent, RefundResent, Crash, DropConnection,
     DropGatewayConnection, CrashGateway, FlushRedis
<1>5. CASE UNCHANGED vars
  BY <1>5 DEF vars
<1>6. QED
  BY <1>1, <1>2, <1>3, <1>4, <1>5 DEF Next

(* A step that moves no handler, books nothing and makes no message        *)
(* deliverable that was not.                                               *)
LEMMA ChargeQuiet ==
    ASSUME TypeOK, TypeOK', ChargeInv, UNCHANGED <<h, deducted, restored>>,
           \A s \in Txns : ToDeliver(s)' => ToDeliver(s),
           faults' >= faults
    PROVE  ChargeInv'
<1>1. \A s \in Txns : Pending(s)' - Pending(s) <= faults' - faults
  <2> SUFFICES ASSUME NEW s \in Txns
               PROVE  Pending(s)' - Pending(s) <= faults' - faults
    OBVIOUS
  <2>1. faults \in Int /\ faults' \in Int
    BY BoundAssumption DEF TypeOK
  <2>2. Pending(s)' - Pending(s) <= 0
    BY DEF Pending
  <2>3. Pending(s) \in Int /\ Pending(s)' \in Int
    BY DEF Pending
  <2>4. QED
    BY <2>1, <2>2, <2>3
<1>2. QED
  BY <1>1, ChargeFrame

(* Everything the gateway, a query or the clock does, and the timers.      *)
LEMMA ChargeGateway ==
    ASSUME TypeOK, TypeOK', MessageInv, ChargeInv, faults' >= faults,
           NEW t \in Txns, LoadUser(t) \/ Gateway(t) \/ GatewayStoreError(t)
    PROVE  ChargeInv'
<1> USE DEF handlerVars, ledgerVars, brokerVars
<1>1. UNCHANGED <<h, deducted, restored>>
  BY DEF Gateway, LoadUser, AcquireLock, RejectUnlocked, RejectLocked,
         ReadBalance, SyncBalance, CheckFunds, CreateTransaction, Publish,
         PublishOnLostChannel, ReleaseOnFailure, GatewayStoreError
<1>2. \A s \in Txns : ToDeliver(s)' => ToDeliver(s)
  <2>1. CASE Publish(t)
    <3>1. t \notin published
      BY <2>1 DEF Publish, GoTo, MessageInv, Custody, BeforePublish
    <3>2. QED
      BY <2>1, <3>1 DEF Publish, ToDeliver, Waiting
  <2>2. CASE ~Publish(t)
    <3>1. UNCHANGED <<queue, timers, published>>
      BY <2>2
         DEF Gateway, LoadUser, AcquireLock, RejectUnlocked, RejectLocked,
             ReadBalance, SyncBalance, CheckFunds, CreateTransaction,
             PublishOnLostChannel, ReleaseOnFailure, GatewayStoreError
    <3>2. QED
      BY <3>1 DEF ToDeliver, Waiting
  <2>3. QED
    BY <2>1, <2>2
<1>3. QED
  BY <1>1, <1>2, ChargeQuiet

LEMMA ChargeElsewhere ==
    ASSUME TypeOK, TypeOK', ChargeInv, faults' >= faults,
           \/ \E u \in Users : Query(u) \/ ExpireLock(u)
           \/ \E w \in Workers, t \in Txns : Timer(w, t)
           \/ \E t \in Txns : ExpireMessage(t)
           \/ DropGatewayConnection
           \/ CrashGateway
           \/ FlushRedis
           \/ UNCHANGED vars
    PROVE  ChargeInv'
<1> USE DEF handlerVars, ledgerVars, brokerVars
<1>1. CASE \E w \in Workers, t \in Txns : Timer(w, t)
  <2>1. PICK w \in Workers, t \in Txns : Timer(w, t)
    BY <1>1
  <2>2. /\ UNCHANGED <<h, deducted, restored, published>>
        /\ t \in timers[w]
        /\ timers' = [timers EXCEPT ![w] = timers[w] \ {t}]
        /\ queue' \subseteq queue \union {t}
    BY <2>1 DEF Timer, Republish, RepublishOnLostChannel
  <2>3. \A v \in Workers : timers'[v] \subseteq timers[v]
    BY <2>2 DEF TypeOK
  <2>4. \A s \in Txns : ToDeliver(s)' => ToDeliver(s)
    BY <2>2, <2>3 DEF ToDeliver, Waiting
  <2>5. QED
    BY <2>2, <2>4, ChargeQuiet
<1>2. CASE \E t \in Txns : ExpireMessage(t)
  <2>1. UNCHANGED <<h, deducted, restored, timers, published>>
        /\ queue' \subseteq queue
    BY <1>2 DEF ExpireMessage
  <2>2. \A s \in Txns : ToDeliver(s)' => ToDeliver(s)
    BY <2>1 DEF ToDeliver, Waiting
  <2>3. QED
    BY <2>1, <2>2, ChargeQuiet
<1>3. CASE \/ \E u \in Users : Query(u) \/ ExpireLock(u)
           \/ DropGatewayConnection
           \/ CrashGateway
           \/ FlushRedis
           \/ UNCHANGED vars
  <2>1. UNCHANGED <<h, deducted, restored, queue, timers, published>>
    BY <1>3 DEF Query, QueryMiss, QueryLoad, QuerySync, ExpireLock,
       DropGatewayConnection, CrashGateway, FlushRedis, vars
  <2>2. \A s \in Txns : ToDeliver(s)' => ToDeliver(s)
    BY <2>1 DEF ToDeliver, Waiting
  <2>3. QED
    BY <2>1, <2>2, ChargeQuiet
<1>4. QED
  BY <1>1, <1>2, <1>3

(* A dropped connection puts messages back that a handler still works on:  *)
(* one more deduction may come, and one fault has been counted.            *)
LEMMA ChargeDrop ==
    ASSUME TypeOK, TypeOK', ChargeInv, NEW w \in Workers, DropConnection(w)
    PROVE  ChargeInv'
<1>1. UNCHANGED <<h, deducted, restored>> /\ faults' = faults + 1
  BY FaultCount DEF DropConnection, handlerVars, ledgerVars
<1>2. faults \in Int
  BY BoundAssumption DEF TypeOK
<1>3. \A s \in Txns : Pending(s)' - Pending(s) <= 1
  BY DEF Pending
<1>4. QED
  BY <1>1, <1>2, <1>3, ChargeFrame

(* So does a crash, which ends the handlers.                               *)
LEMMA ChargeCrash ==
    ASSUME TypeOK, TypeOK', ChargeInv, NEW w \in Workers, Crash(w)
    PROVE  ChargeInv'
<1> SUFFICES ASSUME NEW s \in Txns
             PROVE  ChargeOf(s)'
  BY DEF ChargeInv
<1>1. ChargeOf(s)
  BY DEF ChargeInv
<1>2. faults' = faults + 1 /\ Booked(s)' = Booked(s)
  BY FaultCount DEF Crash, ledgerVars, Booked
<1>3. \A v \in Workers : h'[v][s] = h[v][s] \/ h'[v][s] = "none"
  BY DEF Crash, TypeOK
<1>4. /\ Chargers(s)' \in SUBSET Chargers(s)
      /\ Refunders(s)' \in SUBSET Refunders(s)
  BY <1>3 DEF Chargers, Refunders, MayDeduct, MayRefund
<1>5. /\ Chargers(s) \in SUBSET Workers /\ Refunders(s) \in SUBSET Workers
      /\ Chargers(s)' \in SUBSET Workers /\ Refunders(s)' \in SUBSET Workers
  BY DEF Chargers, Refunders
<1>6. /\ Cardinality(Chargers(s)') <= Cardinality(Chargers(s))
      /\ Cardinality(Refunders(s)') <= Cardinality(Refunders(s))
  BY <1>4, <1>5, CountType, FS_Subset
<1>7. /\ Cardinality(Chargers(s)') \in Nat
      /\ Cardinality(Refunders(s)') \in Nat
  BY <1>5, CountType
<1>8. /\ Cardinality(Chargers(s)) \in Nat /\ Cardinality(Refunders(s)) \in Nat
      /\ Booked(s) \in Int /\ Pending(s) \in {0, 1} /\ faults \in Nat
  BY ChargeNumbers
<1>9. Pending(s)' \in {0, 1}
  BY DEF Pending
<1>10. QED
  BY <1>1, <1>2, <1>6, <1>7, <1>8, <1>9 DEF ChargeOf

(* A handler's step on the stores books b and goes to p, with k faults.    *)
LEMMA ChargeBooks ==
    ASSUME TypeOK, TypeOK', ChargeInv, NEW w \in Workers, NEW t \in Txns,
           NEW p, NEW b \in Int, NEW k \in {0, 1},
           Move(w, t, p), faults' = faults + k,
           UNCHANGED <<brokerVars, published>>,
           \A s \in Txns \ {t} : Booked(s)' = Booked(s),
           Booked(t)' = Booked(t) + b,
           b + One(p \in MayDeduct) <= One(h[w][t] \in MayDeduct) + k,
           One(p \in MayRefund) <= One(h[w][t] \in MayRefund) + b + k
    PROVE  ChargeInv'
<1>1. \A s \in Txns : Pending(s)' = Pending(s)
  BY PendingFrame
<1>2. Pending(t) \in Int /\ Booked(t) \in Int /\ faults \in Int
  BY ChargeNumbers
<1>3. \A c : One(c) \in Int
  BY DEF One
<1>4. /\ Booked(t)' - Booked(t) = b
      /\ Pending(t)' - Pending(t) = 0
      /\ faults' - faults = k /\ faults' >= faults
  BY <1>1, <1>2
<1>5. /\ b + One(p \in MayDeduct) - One(h[w][t] \in MayDeduct) + 0 <= k
      /\ One(p \in MayRefund) - One(h[w][t] \in MayRefund) - b <= k
  BY <1>3
<1>6. QED
  BY <1>1, <1>4, <1>5, ChargeMove

(* A handler's step that books nothing: only a fault takes it to a place   *)
(* from which it deducts or refunds once more.                             *)
LEMMA ChargeUnbooked ==
    ASSUME TypeOK, TypeOK', ChargeInv, NEW w \in Workers, NEW t \in Txns,
           NEW p, NEW e,
           \/ Move(w, t, p) /\ faults' = faults
           \/ Move(w, t, e) /\ faults' = faults + 1,
           UNCHANGED <<brokerVars, published, deducted, restored>>,
           p \in MayDeduct => h[w][t] \in MayDeduct,
           p \in MayRefund => h[w][t] \in MayRefund
    PROVE  ChargeInv'
<1>1. \A s \in Txns : Booked(s)' = Booked(s)
  BY DEF Booked
<1>2. Booked(t)' = Booked(t) + 0 /\ faults = faults + 0
  BY <1>1, ChargeNumbers
<1>3. \A c, d :
         /\ 0 + One(c) <= One(d) + 1
         /\ One(c) <= One(d) + 0 + 1
         /\ (c => d) => 0 + One(c) <= One(d) + 0 /\ One(c) <= One(d) + 0 + 0
  BY DEF One
<1>4. CASE Move(w, t, p) /\ faults' = faults
  <2>1. /\ 0 + One(p \in MayDeduct) <= One(h[w][t] \in MayDeduct) + 0
        /\ One(p \in MayRefund) <= One(h[w][t] \in MayRefund) + 0 + 0
    BY <1>3
  <2>2. QED
    BY <1>1, <1>2, <1>4, <2>1, ChargeBooks
<1>5. CASE Move(w, t, e) /\ faults' = faults + 1
  <2>1. /\ 0 + One(e \in MayDeduct) <= One(h[w][t] \in MayDeduct) + 1
        /\ One(e \in MayRefund) <= One(h[w][t] \in MayRefund) + 0 + 1
    BY <1>3
  <2>2. QED
    BY <1>1, <1>2, <1>5, <2>1, ChargeBooks
<1>6. QED
  BY <1>4, <1>5

LEMMA ReplyFaults ==
    ASSUME NEW w \in Workers, NEW t \in Txns, NEW p, Reply(w, t, p)
    PROVE  \/ Move(w, t, p) /\ faults' = faults
           \/ Move(w, t, OnError(h[w][t])) /\ faults' = faults + 1
BY FaultCount DEF Reply

LEMMA ChargeHandler ==
    ASSUME TypeOK, TypeOK', ChargeInv, NEW w \in Workers, NEW t \in Txns,
           \/ LoadTransaction(w, t)
           \/ MarkAsProcessing(w, t)
           \/ RecheckBalance(w, t)
           \/ DeductRefused(w, t)
           \/ MarkAsCompleted(w, t)
           \/ SyncMongo(w, t)
           \/ ReleaseLock(w, t)
           \/ MarkAsFailed(w, t)
           \/ HandlerStoreError(w, t)
    PROVE  ChargeInv'
<1> DEFINE e == OnError(h[w][t])
<1>1. UNCHANGED <<brokerVars, published, deducted, restored>>
  BY DEF LoadTransaction, MarkAsProcessing, RecheckBalance, DeductRefused,
         MarkAsCompleted, SyncMongo, ReleaseLock, MarkAsFailed,
         HandlerStoreError, ledgerVars
<1>2. \E p :
         /\ \/ Move(w, t, p) /\ faults' = faults
            \/ Move(w, t, e) /\ faults' = faults + 1
         /\ p \in MayDeduct => h[w][t] \in MayDeduct
         /\ p \in MayRefund => h[w][t] \in MayRefund
  <2> USE DEF At, MayDeduct, MayRefund
  <2>1. CASE LoadTransaction(w, t)
    BY <2>1 DEF LoadTransaction
  <2>2. CASE MarkAsProcessing(w, t)
    BY <2>2, ReplyFaults DEF MarkAsProcessing
  <2>3. CASE RecheckBalance(w, t)
    BY <2>3 DEF RecheckBalance
  <2>4. CASE DeductRefused(w, t)
    BY <2>4 DEF DeductRefused
  <2>5. CASE MarkAsCompleted(w, t)
    BY <2>5, ReplyFaults DEF MarkAsCompleted
  <2>6. CASE SyncMongo(w, t)
    BY <2>6, ReplyFaults DEF SyncMongo
  <2>7. CASE ReleaseLock(w, t)
    BY <2>7, ReplyFaults DEF ReleaseLock
  <2>8. CASE MarkAsFailed(w, t)
    BY <2>8, ReplyFaults DEF MarkAsFailed
  <2>9. CASE HandlerStoreError(w, t)
    <3>1. Move(w, t, e) /\ faults' = faults + 1
      BY <2>9, FaultCount DEF HandlerStoreError
    <3>2. WITNESS h[w][t]
    <3>3. QED
      BY <3>1
  <2>10. QED
    BY <2>1, <2>2, <2>3, <2>4, <2>5, <2>6, <2>7, <2>8, <2>9
<1>3. QED
  BY <1>1, <1>2, ChargeUnbooked

(* The two scripts that book, sent once or twice.  A refund is only ever   *)
(* tried on behalf of a handler that may come to deduct again.             *)
LEMMA ChargeBooking ==
    ASSUME TypeOK, TypeOK', ChargeInv, NEW w \in Workers, NEW t \in Txns,
           \/ Deduct(w, t)
           \/ Refund(w, t)
           \/ DeductResent(w, t)
           \/ RefundResent(w, t)
    PROVE  ChargeInv'
<1>1. UNCHANGED <<brokerVars, published>>
  BY DEF Deduct, Refund, DeductResent, RefundResent
<1>2. \A s \in Txns \ {t} : Booked(s)' = Booked(s)
  BY DEF Deduct, Refund, DeductResent, RefundResent, Booked, TypeOK
<1>3. deducted[t] \in Int /\ restored[t] \in Int /\ faults = faults + 0
  BY ChargeNumbers DEF TypeOK
<1> DEFINE q == h[w][t]
<1>4. CASE Deduct(w, t)
  <2>1. Booked(t)' = Booked(t) + 1
    BY <1>3, <1>4 DEF Deduct, Booked, TypeOK
  <2>2. q = "deduct" /\ OnError(q) = "refund"
    BY <1>4 DEF Deduct, At, OnError
  <2>3. \/ Move(w, t, "complete") /\ faults' = faults + 0
        \/ Move(w, t, "refund") /\ faults' = faults + 1
    BY <1>3, <1>4, <2>2, ReplyFaults DEF Deduct
  <2>4. /\ 1 + One("complete" \in MayDeduct) <= One(q \in MayDeduct) + 0
        /\ One("complete" \in MayRefund) <= One(q \in MayRefund) + 1 + 0
        /\ 1 + One("refund" \in MayDeduct) <= One(q \in MayDeduct) + 1
        /\ One("refund" \in MayRefund) <= One(q \in MayRefund) + 1 + 1
    BY <2>2 DEF One, MayDeduct, MayRefund
  <2>5. QED
    BY <1>1, <1>2, <2>1, <2>3, <2>4, ChargeBooks
<1>5. CASE Refund(w, t)
  <2>1. PICK b \in {0, -1} : Booked(t)' = Booked(t) + b
    BY <1>3, <1>5 DEF Refund, Booked, TypeOK
  <2>2. PICK p \in {"fail", "nack"}, k \in {0, 1} :
           Move(w, t, p) /\ faults' = faults + k
    BY <1>3, <1>5, ReplyFaults DEF Refund, At, OnError
  <2>3. q \in {"refund", "refundNoTx"}
    BY <1>5 DEF Refund, At
  <2>4. /\ b + One(p \in MayDeduct) <= One(q \in MayDeduct) + k
        /\ One(p \in MayRefund) <= One(q \in MayRefund) + b + k
    BY <2>3 DEF One, MayDeduct, MayRefund
  <2>5. QED
    BY <1>1, <1>2, <2>1, <2>2, <2>4, ChargeBooks
<1>6. CASE DeductResent(w, t)
  <2>1. faults' = faults + 1
    BY <1>6, FaultCount DEF DeductResent
  <2>2. \/ Move(w, t, "complete") /\ Booked(t)' = Booked(t) + 2
        \/ Move(w, t, "fail") /\ Booked(t)' = Booked(t) + 1
    BY <1>3, <1>6 DEF DeductResent, Booked, TypeOK
  <2>3. q = "deduct"
    BY <1>6 DEF DeductResent, At
  <2>4. /\ 2 + One("complete" \in MayDeduct) <= One(q \in MayDeduct) + 1
        /\ One("complete" \in MayRefund) <= One(q \in MayRefund) + 2 + 1
        /\ 1 + One("fail" \in MayDeduct) <= One(q \in MayDeduct) + 1
        /\ One("fail" \in MayRefund) <= One(q \in MayRefund) + 1 + 1
    BY <2>3 DEF One, MayDeduct, MayRefund
  <2>5. QED
    BY <1>1, <1>2, <2>1, <2>2, <2>4, ChargeBooks
<1>7. CASE RefundResent(w, t)
  <2>1. faults' = faults + 1
    BY <1>7, FaultCount DEF RefundResent
  <2>2. Booked(t)' = Booked(t) + (-2)
    BY <1>3, <1>7 DEF RefundResent, Booked, TypeOK
  <2>3. PICK p \in {"fail", "nack"} : Move(w, t, p)
    BY <1>7 DEF RefundResent
  <2>4. q \in {"refund", "refundNoTx"}
    BY <1>7 DEF RefundResent, At
  <2>5. /\ (-2) + One(p \in MayDeduct) <= One(q \in MayDeduct) + 1
        /\ One(p \in MayRefund) <= One(q \in MayRefund) + (-2) + 1
    BY <2>3, <2>4 DEF One, MayDeduct, MayRefund
  <2>6. QED
    BY <1>1, <1>2, <2>1, <2>2, <2>3, <2>5, ChargeBooks
<1>8. QED
  BY <1>4, <1>5, <1>6, <1>7

(* A delivery turns a deliverable message into a handler; a handler that   *)
(* gives its message up leaves nothing, or the message of one retry.       *)
LEMMA ChargeDeliver ==
    ASSUME TypeOK, TypeOK', MessageInv, ChargeInv,
           NEW w \in Workers, NEW t \in Txns, Deliver(w, t)
    PROVE  ChargeInv'
<1>1. /\ Move(w, t, "load") /\ faults' = faults
      /\ queue' = queue \ {t}
      /\ UNCHANGED <<timers, published, deducted, restored>>
  BY DEF Deliver, ledgerVars
<1>2. t \in queue /\ t \in published /\ ~Waiting(t)
  BY DEF Deliver, MessageInv, Custody
<1>3. \A s \in Txns \ {t} : Booked(s)' = Booked(s) /\ Pending(s)' = Pending(s)
  BY <1>1 DEF Booked, Pending, ToDeliver, Waiting
<1>4. Pending(t) = 1 /\ Pending(t)' = 0
  BY <1>1, <1>2 DEF Pending, ToDeliver, Waiting
<1>5. Booked(t)' - Booked(t) = 0 /\ faults' - faults = 0 /\ faults' >= faults
  BY <1>1, ChargeNumbers DEF Booked
<1>6. /\ 0 + One("load" \in MayDeduct) - One(h[w][t] \in MayDeduct)
           + (0 - 1) <= 0
      /\ One("load" \in MayRefund) - One(h[w][t] \in MayRefund) - 0 <= 0
  BY DEF One, MayDeduct, MayRefund
<1>7. QED
  BY <1>1, <1>3, <1>4, <1>5, <1>6, ChargeMove

LEMMA ChargeGivenUp ==
    ASSUME TypeOK, TypeOK', MessageInv, ChargeInv,
           NEW w \in Workers, NEW t \in Txns,
           Ack(w, t) \/ HandleFailure(w, t) \/ AnswerOnLostChannel(w, t)
    PROVE  ChargeInv'
<1>1. /\ Move(w, t, "none") /\ faults' = faults
      /\ UNCHANGED <<queue, published, deducted, restored>>
  BY DEF Ack, HandleFailure, AnswerOnLostChannel, Done, Move, ledgerVars,
         brokerVars
<1>2. \/ UNCHANGED timers
      \/ /\ timers' = [timers EXCEPT ![w] = timers[w] \union {t}]
         /\ HandleFailure(w, t)
  BY DEF Ack, HandleFailure, AnswerOnLostChannel, brokerVars
<1>3. \A s \in Txns \ {t} : Booked(s)' = Booked(s) /\ Pending(s)' = Pending(s)
  <2>1. ASSUME NEW v \in Workers, NEW s \in Txns \ {t}
        PROVE  s \in timers'[v] <=> s \in timers[v]
    <3>1. timers'[v] = timers[v] \/ timers'[v] = timers[v] \union {t}
      BY <1>2 DEF TypeOK
    <3>2. QED
      BY <3>1
  <2>2. \A s \in Txns \ {t} : Waiting(s)' <=> Waiting(s)
    BY <2>1 DEF Waiting
  <2>3. QED
    BY <1>1, <2>2 DEF Booked, Pending, ToDeliver
<1>4. Booked(t)' - Booked(t) = 0 /\ faults' - faults = 0 /\ faults' >= faults
  BY <1>1, ChargeNumbers DEF Booked
<1>5. Pending(t)' - Pending(t) <= One(h[w][t] \in MayDeduct)
  <2>1. CASE UNCHANGED timers
    <3>1. Pending(t)' = Pending(t)
      BY <1>1, <2>1 DEF Pending, ToDeliver, Waiting
    <3>2. QED
      BY <3>1, ChargeNumbers DEF One
  <2>2. CASE HandleFailure(w, t)
    <3>1. GivenUp(w, t) /\ h[w][t] = "nack"
      BY <2>2 DEF HandleFailure, At, GivenUp
    <3>2. ~ToDeliver(t)
      BY <3>1, GivenUpOnce DEF ToDeliver
    <3>3. QED
      BY <3>1, <3>2 DEF Pending, One, MayDeduct
  <2>3. QED
    BY <1>2, <2>1, <2>2
<1>6. /\ 0 + One("none" \in MayDeduct) - One(h[w][t] \in MayDeduct)
           + (Pending(t)' - Pending(t)) <= 0
      /\ One("none" \in MayRefund) - One(h[w][t] \in MayRefund) - 0 <= 0
  <2>1. Pending(t)' - Pending(t) \in Int
    BY DEF Pending
  <2>2. QED
    BY <1>5, <2>1 DEF One, MayDeduct, MayRefund
<1>7. QED
  BY <1>1, <1>3, <1>4, <1>6, ChargeMove

-----------------------------------------------------------------------------
LEMMA ChargeInit == Init => ChargeInv
<1> SUFFICES ASSUME Init, NEW t \in Txns
             PROVE  ChargeOf(t)
  BY DEF ChargeInv
<1>1. Chargers(t) = {} /\ Refunders(t) = {}
  BY DEF Init, Chargers, Refunders, MayDeduct, MayRefund
<1>2. Cardinality(Chargers(t)) = 0 /\ Cardinality(Refunders(t)) = 0
  BY <1>1, FS_EmptySet
<1>3. Booked(t) = 0 /\ Pending(t) = 1 /\ faults = 0
  BY DEF Init, Booked, Pending, ToDeliver
<1>4. QED
  BY <1>2, <1>3 DEF ChargeOf

LEMMA ChargeStep == TypeOK /\ MessageInv /\ ChargeInv /\ [Next]_vars => ChargeInv'
<1> SUFFICES ASSUME TypeOK, MessageInv, ChargeInv, [Next]_vars
             PROVE  ChargeInv'
  OBVIOUS
<1>1. TypeOK' /\ faults' >= faults
  BY TypeStep, FaultsGrow
<1>2. ASSUME NEW t \in Txns, LoadUser(t) \/ Gateway(t)
      PROVE  ChargeInv'
  BY <1>1, <1>2, ChargeGateway
<1>3. ASSUME NEW u \in Users, Query(u)
      PROVE  ChargeInv'
  BY <1>1, <1>3, ChargeElsewhere
<1>4. ASSUME NEW w \in Workers, NEW t \in Txns,
             Deliver(w, t) \/ Handler(w, t) \/ Timer(w, t)
      PROVE  ChargeInv'
  BY <1>1, <1>4, ChargeDeliver, ChargeHandler, ChargeBooking, ChargeGivenUp,
     ChargeElsewhere DEF Handler
<1>5. CASE Environment
  <2>1. ASSUME NEW t \in Txns, GatewayStoreError(t)
        PROVE  ChargeInv'
    BY <1>1, <2>1, ChargeGateway
  <2>2. ASSUME NEW w \in Workers, NEW t \in Txns,
               \/ HandlerStoreError(w, t)
               \/ DeductResent(w, t)
               \/ RefundResent(w, t)
        PROVE  ChargeInv'
    BY <1>1, <2>2, ChargeHandler, ChargeBooking
  <2>3. ASSUME NEW w \in Workers, Crash(w) \/ DropConnection(w)
        PROVE  ChargeInv'
    BY <1>1, <2>3, ChargeCrash, ChargeDrop
  <2>4. QED
    BY <1>1, <1>5, <2>1, <2>2, <2>3, ChargeElsewhere DEF Environment
<1>6. CASE UNCHANGED vars
  BY <1>1, <1>6, ChargeElsewhere
<1>7. QED
  BY <1>2, <1>3, <1>4, <1>5, <1>6 DEF Next

(* A fault costs at most one wrong booking: however many workers, retries, *)
(* redeliveries and expired locks there are, a payout's amount is taken at *)
(* most once more than it is given back for each fault, and once besides.  *)
THEOREM ChargeBounded == Spec => []ChargeDrift
<1>1. Init => TypeOK /\ MessageInv /\ ChargeInv
  BY TypeInit, MessageInit, ChargeInit
<1>2. TypeOK /\ MessageInv /\ ChargeInv /\ [Next]_vars
        => (TypeOK /\ MessageInv /\ ChargeInv)'
  BY TypeStep, MessageStep, ChargeStep
<1>3. TypeOK /\ ChargeInv => ChargeDrift
  <2> SUFFICES ASSUME TypeOK, ChargeInv, NEW t \in Txns
               PROVE  /\ deducted[t] - restored[t] <= 1 + faults
                      /\ restored[t] - deducted[t] <= faults
    BY DEF ChargeDrift
  <2>1. ChargeOf(t)
    BY DEF ChargeInv
  <2>2. deducted[t] \in Int /\ restored[t] \in Int
    BY DEF TypeOK
  <2>3. QED
    BY <2>1, <2>2, ChargeNumbers DEF ChargeOf, Booked
<1>4. QED
  BY <1>1, <1>2, <1>3, PTL DEF Spec

-----------------------------------------------------------------------------
(* No lost update.  Once every balance is in Redis and Redis keeps its     *)
(* keys, nobody copies a balance from MongoDB; whatever else fails, a      *)
(* balance only moves by what the scripts book.                            *)

BalancesKept == WarmStart /\ "flush" \notin FaultKinds

Payouts(u) == {t \in Txns : Owner[t] = u}

Bookings == [t \in Txns |-> Amount[t] * (deducted[t] - restored[t])]

NoSync ==
    /\ \A t \in Txns : pc[t] # "unsynced"
    /\ \A u \in Users : queryPc[u] = "idle"

KeptInv ==
    /\ NoSync
    /\ \A u \in Users : redis[u] # NoKey /\ redis[u] = InitBalance[u] - Net(u)

LEMMA NetIsSum ==
    ASSUME NEW u
    PROVE  Net(u) = SumFunctionOnSet(Bookings, Payouts(u))
BY DEF Net, Bookings, Payouts

LEMMA BookingsType ==
    ASSUME TypeOK
    PROVE  \A t \in Txns : Bookings[t] \in Int
<1>1. \A t \in Txns : Amount[t] \in Int
  BY DataAssumption
<1>2. \A t \in Txns : deducted[t] - restored[t] \in Int
  BY DEF TypeOK
<1>3. \A a, b \in Int : a * b \in Int
  OBVIOUS
<1>4. QED
  BY <1>1, <1>2, <1>3 DEF Bookings

(* A booking of k on t moves the balance of its owner by k, and no other.  *)
LEMMA KeptBooks ==
    ASSUME TypeOK, TypeOK', IsFiniteSet(Txns), KeptInv, NEW t \in Txns,
           NEW k \in Int,
           redis' = [redis EXCEPT ![Owner[t]] = @ - k],
           \A s \in Txns \ {t} : Bookings'[s] = Bookings[s],
           Bookings'[t] = Bookings[t] + k,
           UNCHANGED <<pc, queryPc>>
    PROVE  KeptInv'
<1>1. \A s \in Txns : Bookings[s] \in Int /\ Bookings'[s] \in Int
  <2>1. \A s \in Txns : Bookings[s] \in Int
    BY BookingsType
  <2>2. QED
    BY <2>1
<1>2. ASSUME NEW u \in Users
      PROVE  redis'[u] # NoKey /\ redis'[u] = InitBalance[u] - Net(u)'
  <2>1. /\ IsFiniteSet(Payouts(u)) /\ Payouts(u) \subseteq Txns
        /\ Payouts(u)' = Payouts(u)
    BY FS_Subset DEF Payouts
  <2>2. Net(u)' = SumFunctionOnSet(Bookings', Payouts(u))
    BY <2>1 DEF Net, Bookings, Payouts
  <2>3. /\ redis[u] # NoKey /\ redis[u] = InitBalance[u] - Net(u)
        /\ InitBalance[u] \in Int /\ Net(u) \in Int
    BY <1>1, <2>1, NetIsSum, SumInt, DataAssumption DEF KeptInv
  <2>4. CASE u = Owner[t]
    <3> DEFINE S == Payouts(u)
               f == Bookings
               g == Bookings'
    <3>0. /\ t \in S /\ IsFiniteSet(S)
          /\ \A s \in S : f[s] \in Int /\ g[s] \in Int
          /\ \A s \in S \ {t} : g[s] = f[s]
      BY <1>1, <2>1, <2>4 DEF Payouts
    <3>1. SumFunctionOnSet(g, S) = SumFunctionOnSet(f, S) - f[t] + g[t]
      <4> HIDE DEF S, f, g
      <4>1. QED
        BY <3>0, SumChange
    <3>2. Net(u)' = Net(u) + k
      BY <1>1, <2>2, <2>3, <3>1, NetIsSum
    <3>3. redis'[u] = redis[u] - k
      BY <2>4 DEF TypeOK
    <3>5. redis'[u] = InitBalance[u] - Net(u)'
      BY <2>3, <3>2, <3>3
    <3>6. InitBalance[u] - Net(u)' \in Int
      BY <2>3, <3>2
    <3>7. QED
      BY <3>5, <3>6, DataAssumption
  <2>5. CASE u # Owner[t]
    <3>1. \A s \in Payouts(u) : Bookings'[s] = Bookings[s]
      BY <1>1, <2>5 DEF Payouts
    <3>2. Net(u)' = Net(u)
      BY <2>1, <2>2, <3>1, NetIsSum, SumSame
    <3>3. redis'[u] = redis[u]
      BY <2>5 DEF TypeOK
    <3>4. QED
      BY <2>3, <3>2, <3>3
  <2>6. QED
    BY <2>4, <2>5
<1>3. NoSync'
  BY DEF KeptInv, NoSync
<1>4. QED
  BY <1>2, <1>3 DEF KeptInv

(* The balance of t's owner is charged n times more than it was.           *)
Moved(n, a) == IF n = -2 THEN -(2 * a) ELSE IF n = -1 THEN -a
               ELSE IF n = 2 THEN 2 * a ELSE a

Charged(t, n) ==
    /\ redis' = [redis EXCEPT ![Owner[t]] = @ - Moved(n, Amount[t])]
    /\ \A s \in Txns \ {t} : /\ deducted'[s] = deducted[s]
                             /\ restored'[s] = restored[s]
    /\ deducted'[t] - restored'[t] = deducted[t] - restored[t] + n
    /\ UNCHANGED <<pc, queryPc>>

LEMMA KeptScript ==
    ASSUME TypeOK, TypeOK', IsFiniteSet(Txns), KeptInv, NEW t \in Txns,
           NEW n \in {-2, -1, 1, 2}, Charged(t, n)
    PROVE  KeptInv'
<1> DEFINE a == Amount[t]
           b == deducted[t] - restored[t]
           k == Moved(n, a)
<1>1. a \in Int /\ b \in Int
  BY DataAssumption DEF TypeOK
<1>2. /\ Bookings[t] = a * b
      /\ Bookings'[t] = a * (b + n)
      /\ \A s \in Txns \ {t} : Bookings'[s] = Bookings[s]
  BY DEF Bookings, Charged
<1>3. k \in Int /\ a * (b + n) = a * b + k
  <2> USE DEF Moved
  <2> HIDE DEF a, b
  <2>1. CASE n = -2
    BY <1>1, <2>1
  <2>2. CASE n = -1
    BY <1>1, <2>2
  <2>3. CASE n = 1
    BY <1>1, <2>3
  <2>4. CASE n = 2
    BY <1>1, <2>4
  <2>5. QED
    BY <2>1, <2>2, <2>3, <2>4
<1>4. Bookings'[t] = Bookings[t] + k
  BY <1>2, <1>3
<1>5. /\ redis' = [redis EXCEPT ![Owner[t]] = @ - k]
      /\ UNCHANGED <<pc, queryPc>>
  BY DEF Charged
<1>6. QED
  <2> HIDE DEF k
  <2>1. QED
    BY <1>2, <1>3, <1>4, <1>5, KeptBooks

LEMMA KeptFrame ==
    ASSUME KeptInv, UNCHANGED <<redis, deducted, restored>>, NoSync'
    PROVE  KeptInv'
BY DEF KeptInv, Net

(* The steps that move no balance; the syncs are not among them, for       *)
(* nothing leads to one.                                                   *)
LEMMA GoToNoSync ==
    ASSUME TypeOK, NoSync, UNCHANGED queryPc,
           NEW t \in Txns, NEW p, NEW q, q # "unsynced", GoTo(t, p, q)
    PROVE  NoSync'
BY DEF NoSync, GoTo, TypeOK

LEMMA KeptGateway ==
    ASSUME TypeOK, KeptInv, NEW t \in Txns, LoadUser(t) \/ Gateway(t)
    PROVE  KeptInv'
<1> USE DEF queryVars, ledgerVars
<1>1. NoSync
  BY DEF KeptInv
<1>2. CASE LoadUser(t)
  BY <1>1, <1>2, GoToNoSync, KeptFrame DEF LoadUser
<1>3. CASE AcquireLock(t)
  BY <1>1, <1>3, GoToNoSync, KeptFrame DEF AcquireLock, Answered
<1>4. CASE RejectUnlocked(t)
  BY <1>1, <1>4, GoToNoSync, KeptFrame DEF RejectUnlocked
<1>5. CASE RejectLocked(t)
  BY <1>1, <1>5, GoToNoSync, KeptFrame DEF RejectLocked
<1>6. CASE ReadBalance(t)
  <2>1. redis[Owner[t]] # NoKey
    BY DataAssumption DEF KeptInv
  <2>2. GoTo(t, "locked", "synced")
    BY <1>6, <2>1 DEF ReadBalance
  <2>3. QED
    BY <1>1, <1>6, <2>2, GoToNoSync, KeptFrame DEF ReadBalance
<1>7. CASE SyncBalance(t)
  BY <1>1, <1>7 DEF SyncBalance, Answered, GoTo, NoSync
<1>8. CASE CheckFunds(t)
  BY <1>1, <1>8, GoToNoSync, KeptFrame DEF CheckFunds
<1>9. CASE CreateTransaction(t)
  BY <1>1, <1>9, GoToNoSync, KeptFrame DEF CreateTransaction, Answered
<1>10. CASE Publish(t)
  BY <1>1, <1>10, GoToNoSync, KeptFrame DEF Publish
<1>11. CASE PublishOnLostChannel(t)
  BY <1>1, <1>11, GoToNoSync, KeptFrame DEF PublishOnLostChannel
<1>12. CASE ReleaseOnFailure(t)
  BY <1>1, <1>12, GoToNoSync, KeptFrame DEF ReleaseOnFailure
<1>13. QED
  BY <1>2, <1>3, <1>4, <1>5, <1>6, <1>7, <1>8, <1>9, <1>10, <1>11, <1>12
     DEF Gateway

LEMMA KeptQuery ==
    ASSUME KeptInv, NEW u \in Users, Query(u)
    PROVE  FALSE
BY DEF Query, QueryMiss, QueryLoad, QuerySync, KeptInv, NoSync

LEMMA KeptHandler ==
    ASSUME TypeOK, TypeOK', IsFiniteSet(Txns), KeptInv,
           NEW w \in Workers, NEW t \in Txns,
           \/ Deliver(w, t) \/ Handler(w, t) \/ Timer(w, t)
           \/ DeductResent(w, t) \/ RefundResent(w, t)
    PROVE  KeptInv'
<1> USE DEF gatewayVars, queryVars, ledgerVars
<1>1. /\ NoSync /\ redis[Owner[t]] # NoKey
      /\ \A s \in Txns : deducted[s] \in Nat /\ restored[s] \in Nat
      /\ Amount[t] \in Nat
  BY DataAssumption DEF KeptInv, TypeOK
<1>3. ASSUME UNCHANGED <<redis, deducted, restored, pc, queryPc>>
      PROVE  KeptInv'
  BY <1>1, <1>3, KeptFrame DEF NoSync
<1>4. CASE Deduct(w, t)
  <2>1. Charged(t, 1)
    BY <1>1, <1>4 DEF Deduct, Charged, Moved, TypeOK
  <2>2. QED
    BY <2>1, KeptScript
<1>5. CASE Refund(w, t)
  <2>1. Charged(t, -1)
    <3>1. redis' = [redis EXCEPT ![Owner[t]] = @ - Moved(-1, Amount[t])]
      <4>1. redis' = [redis EXCEPT ![Owner[t]] = @ + Amount[t]]
        BY <1>1, <1>5 DEF Refund
      <4>2. redis[Owner[t]] \in Int /\ Moved(-1, Amount[t]) = -Amount[t]
        BY <1>1, DataAssumption DEF TypeOK, Balance, Moved
      <4>3. redis[Owner[t]] + Amount[t] = redis[Owner[t]] - (-Amount[t])
        BY <1>1, <4>2
      <4>4. QED
        BY <4>1, <4>2, <4>3
    <3>2. restored' = [restored EXCEPT ![t] = @ + 1] /\ deducted' = deducted
      BY <1>1, <1>5 DEF Refund
    <3>3. UNCHANGED <<pc, queryPc>>
      BY <1>5 DEF Refund
    <3>4. QED
      BY <1>1, <3>1, <3>2, <3>3 DEF Charged, TypeOK
  <2>2. QED
    BY <2>1, KeptScript
<1>6. CASE DeductResent(w, t)
  <2> DEFINE n == IF redis[Owner[t]] - Amount[t] >= Amount[t] THEN 2 ELSE 1
  <2>1. Charged(t, n)
    <3>1. redis' = [redis EXCEPT ![Owner[t]] = @ - Moved(n, Amount[t])]
      <4>1. redis' = [redis EXCEPT ![Owner[t]] = @ - n * Amount[t]]
        BY <1>6 DEF DeductResent
      <4>2. 1 * Amount[t] = Amount[t]
        BY <1>1
      <4>3. n * Amount[t] = Moved(n, Amount[t])
        BY <4>2 DEF Moved
      <4>4. QED
        BY <4>1, <4>3
    <3>2. deducted' = [deducted EXCEPT ![t] = @ + n] /\ restored' = restored
      BY <1>6 DEF DeductResent
    <3>3. UNCHANGED <<pc, queryPc>>
      BY <1>6 DEF DeductResent
    <3>4. n \in Int
      OBVIOUS
    <3> HIDE DEF n
    <3>5. QED
      BY <1>1, <3>1, <3>2, <3>3, <3>4 DEF Charged, TypeOK
  <2>2. n \in {1, 2}
    OBVIOUS
  <2> HIDE DEF n
  <2>3. QED
    BY <2>1, <2>2, KeptScript
<1>7. CASE RefundResent(w, t)
  <2>1. Charged(t, -2)
    <3>1. redis' = [redis EXCEPT ![Owner[t]] = @ - Moved(-2, Amount[t])]
      <4>1. redis' = [redis EXCEPT ![Owner[t]] = @ + 2 * Amount[t]]
        BY <1>1, <1>7 DEF RefundResent
      <4>2. /\ redis[Owner[t]] \in Int /\ 2 * Amount[t] \in Int
            /\ Moved(-2, Amount[t]) = -(2 * Amount[t])
        BY <1>1, DataAssumption DEF TypeOK, Balance, Moved
      <4>3. \A x, y \in Int : x + y = x - (-y)
        OBVIOUS
      <4>4. QED
        BY <4>1, <4>2, <4>3
    <3>2. restored' = [restored EXCEPT ![t] = @ + 2] /\ deducted' = deducted
      BY <1>1, <1>7 DEF RefundResent
    <3>3. UNCHANGED <<pc, queryPc>>
      BY <1>7 DEF RefundResent
    <3>4. QED
      BY <1>1, <3>1, <3>2, <3>3 DEF Charged, TypeOK
  <2>2. QED
    BY <2>1, KeptScript
<1>8. CASE Deliver(w, t)
  BY <1>3, <1>8 DEF Deliver
<1>9. CASE Handler(w, t) /\ ~Deduct(w, t) /\ ~Refund(w, t)
  BY <1>3, <1>9
  DEF Handler, LoadTransaction, MarkAsProcessing, RecheckBalance,
      DeductRefused, MarkAsCompleted, SyncMongo, ReleaseLock, MarkAsFailed,
      Ack, HandleFailure, AnswerOnLostChannel
<1>10. CASE Timer(w, t)
  BY <1>3, <1>10
  DEF Timer, Republish, RepublishOnLostChannel
<1>11. QED
  BY <1>4, <1>5, <1>6, <1>7, <1>8, <1>9, <1>10

LEMMA KeptEnvironment ==
    ASSUME BalancesKept, TypeOK, KeptInv, Environment,
           ~\E w \in Workers, t \in Txns :
               DeductResent(w, t) \/ RefundResent(w, t)
    PROVE  KeptInv'
<1> USE DEF gatewayVars, queryVars, ledgerVars
<1>1. NoSync
  BY DEF KeptInv
<1>2. ASSUME UNCHANGED <<redis, deducted, restored, pc, queryPc>>
      PROVE  KeptInv'
  BY <1>1, <1>2, KeptFrame DEF NoSync
<1>3. ASSUME NEW t \in Txns, GatewayStoreError(t)
      PROVE  KeptInv'
  BY <1>1, <1>3, GoToNoSync, KeptFrame DEF GatewayStoreError
<1>4. CASE CrashGateway
  <2>1. NoSync'
    BY <1>1, <1>4 DEF CrashGateway, NoSync, TypeOK
  <2>2. QED
    BY <1>4, <2>1, KeptFrame DEF CrashGateway
<1>5. ~FlushRedis
  BY DEF BalancesKept, FlushRedis, Fault
<1>6. CASE \E u \in Users : ExpireLock(u)
  BY <1>2, <1>6 DEF ExpireLock
<1>7. CASE \E t \in Txns : ExpireMessage(t)
  BY <1>2, <1>7 DEF ExpireMessage
<1>8. CASE \E w \in Workers, t \in Txns : HandlerStoreError(w, t)
  BY <1>2, <1>8 DEF HandlerStoreError
<1>9. CASE \E w \in Workers : Crash(w) \/ DropConnection(w)
  BY <1>2, <1>9 DEF Crash, DropConnection
<1>10. CASE DropGatewayConnection
  <2>1. UNCHANGED <<redis, deducted, restored, pc, queryPc>>
    BY <1>10 DEF DropGatewayConnection
  <2>2. QED
    BY <1>2, <2>1
<1>11. QED
  BY <1>3, <1>4, <1>5, <1>6, <1>7, <1>8, <1>9, <1>10 DEF Environment

LEMMA KeptInit ==
    ASSUME BalancesKept, IsFiniteSet(Txns), Init
    PROVE  KeptInv
<1>1. NoSync
  BY DEF Init, NoSync
<1>2. ASSUME NEW u \in Users
      PROVE  redis[u] # NoKey /\ redis[u] = InitBalance[u] - Net(u)
  <2> DEFINE S == Payouts(u)
  <2>1. \A t \in Txns : Bookings[t] = 0
    <3>1. \A a \in Int : a * (0 - 0) = 0
      OBVIOUS
    <3>2. \A t \in Txns : Amount[t] \in Int
      BY DataAssumption
    <3>3. QED
      BY <3>1, <3>2 DEF Bookings, Init
  <2>2. IsFiniteSet(S) /\ S \subseteq Txns
    BY FS_Subset DEF Payouts
  <2>3. SumFunctionOnSet(Bookings, S) = 0
    BY <2>1, <2>2, SumZero
  <2>4. redis[u] = InitBalance[u] /\ InitBalance[u] \in Int
    BY DataAssumption DEF Init, BalancesKept
  <2>5. QED
    BY <2>3, <2>4, NetIsSum, DataAssumption
<1>3. QED
  BY <1>1, <1>2 DEF KeptInv

LEMMA KeptStep ==
    ASSUME BalancesKept, IsFiniteSet(Txns)
    PROVE  TypeOK /\ KeptInv /\ [Next]_vars => KeptInv'
<1> SUFFICES ASSUME TypeOK, KeptInv, [Next]_vars
             PROVE  KeptInv'
  OBVIOUS
<1>1. TypeOK'
  BY TypeStep
<1>2. CASE UNCHANGED vars
  BY <1>2
  DEF vars, gatewayVars, queryVars, ledgerVars, KeptInv, NoSync, Net
<1>3. CASE Next
  <2>1. CASE Environment
    BY <1>1, <2>1, KeptEnvironment, KeptHandler
  <2>2. QED
    BY <1>1, <1>3, <2>1, KeptGateway, KeptQuery, KeptHandler DEF Next
<1>4. QED
  BY <1>2, <1>3

(* With the balances in Redis, which keeps them, no update is ever lost,   *)
(* whatever crashes, fails, drops, expires or is sent again.               *)
THEOREM NoUpdateLost ==
    ASSUME WarmStart, "flush" \notin FaultKinds, IsFiniteSet(Txns)
    PROVE  Spec => []NoLostUpdate
<1>1. BalancesKept
  BY DEF BalancesKept
<1>2. Init => TypeOK /\ KeptInv
  BY <1>1, TypeInit, KeptInit
<1>3. TypeOK /\ KeptInv /\ [Next]_vars => (TypeOK /\ KeptInv)'
  BY <1>1, TypeStep, KeptStep
<1>4. KeptInv => NoLostUpdate
  BY DEF KeptInv, NoLostUpdate
<1>5. QED
  BY <1>2, <1>3, <1>4, PTL DEF Spec
=============================================================================
