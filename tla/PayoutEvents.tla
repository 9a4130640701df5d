---------------------------- MODULE PayoutEvents ----------------------------
(***************************************************************************)
(* What a user hears of one payout.  The gateway emits "initiated" to his  *)
(* sockets itself; a worker publishes "processing", "completed", "failed"  *)
(* to Redis, one await after it has recorded them, and the bridge of the   *)
(* gateway emits what its subscription gets.  Nothing is kept for later.   *)
(*                                                                         *)
(* The money is left out: PayoutPipeline has it.  The user listens from    *)
(* the start: his socket stays in his room.                                *)
(***************************************************************************)
EXTENDS Integers, Sequences

CONSTANTS
    Payers,             \* the payout workers
    MaxResends,         \* MAX_RETRY_ATTEMPTS
    MaxEventFaults      \* in all: crashes, lost connections, failing calls

ASSUME PayoutEventsAssumption == {MaxResends, MaxEventFaults} \subseteq Nat

VARIABLES
    payment,        \* the Transaction's status, and the step of its request
    envelope,       \* the message: where it is, whose, and x-retry-count
    payer,          \* payer[w]: the handler of w, and is its channel up
    bus,            \* the events on their way to the bridge
    heard,          \* what was emitted to the user's room
    eventFaults,
    muddled         \* history: was an event or a record lost; were two
                    \* handlers at work at once; did one not see its record?

eventVars == <<payment, envelope, payer, bus, heard, eventFaults, muddled>>

IdlePayer == [pc |-> "idle", linked |-> TRUE]

PayoutEventsInit ==
    /\ payment = [record |-> "initiated", request |-> "publish"]
    /\ envelope = [at |-> "unsent", by |-> {}, resends |-> 0]
    /\ payer = [w \in Payers |-> IdlePayer]
    /\ bus = <<>>
    /\ heard = <<>>
    /\ eventFaults = 0
    /\ muddled = [lost |-> FALSE, overlap |-> FALSE, blind |-> FALSE]

EventFault ==
    /\ eventFaults < MaxEventFaults
    /\ eventFaults' = eventFaults + 1

Muddle(kind) == muddled' = [muddled EXCEPT ![kind] = TRUE]

-----------------------------------------------------------------------------
(* The gateway.                                                            *)

(* publishPayoutMessage.  If the buffer is full the message goes out, and  *)
(* the request fails all the same, without an event.                       *)
PublishPayment ==
    /\ payment.request = "publish"
    /\ envelope' = [envelope EXCEPT !.at = "queue"]
    /\ \E outcome \in {"audit", "failed"} :
         payment' = [payment EXCEPT !.request = outcome]
    /\ UNCHANGED <<payer, bus, heard, eventFaults, muddled>>

(* emitToUser.                                                             *)
Emit(event) == heard' = Append(heard, event)

(* After the audit entry, which is awaited: the worker may be done by then.*)
EmitInitiated ==
    /\ payment.request = "audit"
    /\ payment' = [payment EXCEPT !.request = "done"]
    /\ Emit("initiated")
    /\ UNCHANGED <<envelope, payer, bus, eventFaults, muddled>>

(* The bridge: one subscription, in the order of the publications.         *)
ForwardEvent ==
    /\ bus # <<>>
    /\ Emit(Head(bus))
    /\ bus' = Tail(bus)
    /\ UNCHANGED <<payment, envelope, payer, eventFaults, muddled>>

(* The subscription is lost for a while, or the gateway with its requests. *)
LoseEvents ==
    /\ EventFault
    /\ bus' = <<>>
    /\ \/ bus # <<>> /\ UNCHANGED payment
       \/ /\ payment.request = "audit"
          /\ payment' = [payment EXCEPT !.request = "gone"]
    /\ Muddle("lost")
    /\ UNCHANGED <<envelope, payer, heard>>

-----------------------------------------------------------------------------
(* A worker: processMessage, one action per await that matters here.       *)

PayerAt(w, pc) == payer[w].pc = pc
PayerTo(w, pc) == payer' = [payer EXCEPT ![w].pc = pc]

TakeEnvelope(w) ==
    /\ envelope.at = "queue" /\ PayerAt(w, "idle") /\ payer[w].linked
    /\ envelope' = [envelope EXCEPT !.at = "held", !.by = {w}]
    /\ PayerTo(w, "load")
    /\ muddled' = [muddled EXCEPT !.overlap =
                     muddled.overlap \/ \E v \in Payers : ~PayerAt(v, "idle")]
    /\ UNCHANGED <<payment, bus, heard, eventFaults>>

(* Mutant: no guard against a second delivery of a completed payout.       *)
LoadPaymentMutant(w) ==
    /\ PayerAt(w, "load")
    /\ PayerTo(w, IF payment.record = "processing" THEN "fail" ELSE "mark")
    /\ UNCHANGED <<payment, envelope, bus, heard, eventFaults, muddled>>

(* A failed payout is processed again, one in processing fails.  With no   *)
(* record in hand a failure is told and not recorded.                      *)
LoadPayment(w) ==
    /\ PayerAt(w, "load")
    /\ \/ /\ PayerTo(w, CASE payment.record = "completed" -> "ack"
                          [] payment.record = "processing" -> "fail"
                          [] OTHER -> "mark")
          /\ UNCHANGED <<eventFaults, muddled>>
       \/ EventFault /\ PayerTo(w, "tell failed") /\ Muddle("blind")
    /\ UNCHANGED <<payment, envelope, bus, heard>>

Record(w, status, then) ==
    /\ payment' = [payment EXCEPT !.record = status]
    /\ PayerTo(w, then)

MarkAsProcessing(w) ==
    /\ PayerAt(w, "mark")
    /\ \/ Record(w, "processing", "tell processing") /\ UNCHANGED eventFaults
       \/ EventFault /\ PayerTo(w, "fail") /\ UNCHANGED payment
    /\ UNCHANGED <<envelope, bus, heard, muddled>>

(* The deduction, or what stands against it.                               *)
Pay(w) ==
    /\ PayerAt(w, "pay")
    /\ \E then \in {"complete", "fail"} : PayerTo(w, then)
    /\ UNCHANGED <<payment, envelope, bus, heard, eventFaults, muddled>>

MarkAsCompleted(w) ==
    /\ PayerAt(w, "complete")
    /\ \/ Record(w, "completed", "settle") /\ UNCHANGED eventFaults
       \/ EventFault /\ PayerTo(w, "fail") /\ UNCHANGED payment
    /\ UNCHANGED <<envelope, bus, heard, muddled>>

(* The copy in MongoDB and the lock: an error here undoes the payout.      *)
Settle(w) ==
    /\ PayerAt(w, "settle")
    /\ \/ PayerTo(w, "tell completed") /\ UNCHANGED eventFaults
       \/ EventFault /\ PayerTo(w, "fail")
    /\ UNCHANGED <<payment, envelope, bus, heard, muddled>>

(* markAsFailed in the catch block: if it fails, so has the event.         *)
MarkAsFailed(w) ==
    /\ PayerAt(w, "fail")
    /\ \/ Record(w, "failed", "tell failed") /\ UNCHANGED <<eventFaults, muddled>>
       \/ EventFault /\ PayerTo(w, "nack") /\ Muddle("lost") /\ UNCHANGED payment
    /\ UNCHANGED <<envelope, bus, heard>>

(* A publish whose answer is lost with the connection is sent again by     *)
(* ioredis, which does not know that it was made.                          *)
Tells(w, at, event, then) ==
    /\ PayerAt(w, at)
    /\ PayerTo(w, then)
    /\ \/ bus' = Append(bus, event) /\ UNCHANGED <<eventFaults, muddled>>
       \/ EventFault /\ bus' = Append(Append(bus, event), event) /\ UNCHANGED muddled
       \/ EventFault /\ Muddle("lost") /\ UNCHANGED bus
    /\ UNCHANGED <<payment, envelope, heard>>

(* _publishWsEvent, whose error is logged only.                            *)
PublishWsEvent(w) ==
    \/ Tells(w, "tell processing", "processing", "pay")
    \/ Tells(w, "tell completed", "completed", "ack")
    \/ Tells(w, "tell failed", "failed", "nack")

(* The answer of a handler whose channel is gone reaches nobody.           *)
AnswerEnvelope(w) ==
    /\ payer[w].pc \in {"ack", "nack"}
    /\ PayerTo(w, "idle")
    /\ envelope' =
         IF ~payer[w].linked THEN envelope
         ELSE IF PayerAt(w, "ack") THEN [envelope EXCEPT !.at = "done", !.by = {}]
         ELSE IF envelope.resends < MaxResends
         THEN [envelope EXCEPT !.at = "timer", !.resends = envelope.resends + 1]
         ELSE [envelope EXCEPT !.at = "dead", !.by = {}]
    /\ UNCHANGED <<payment, bus, heard, eventFaults, muddled>>

ResendEnvelope ==
    /\ envelope.at = "timer"
    /\ envelope' = [envelope EXCEPT !.at = "queue", !.by = {}]
    /\ UNCHANGED <<payment, payer, bus, heard, eventFaults, muddled>>

(* A worker dies and comes back: its message returns to the queue, or goes *)
(* with the timer.  A completion it has not told is never told.            *)
CrashPayer(w) ==
    /\ ~PayerAt(w, "idle") \/ w \in envelope.by
    /\ EventFault
    /\ payer' = [payer EXCEPT ![w] = IdlePayer]
    /\ envelope' = IF w \notin envelope.by THEN envelope
                   ELSE [envelope EXCEPT !.by = {},
                            !.at = IF envelope.at = "timer" THEN "dead" ELSE "queue"]
    /\ muddled' = [muddled EXCEPT !.lost =
                     \/ muddled.lost
                     \/ /\ payment.record = "completed"
                        /\ payer[w].pc \in {"settle", "tell completed", "fail"}]
    /\ UNCHANGED <<payment, bus, heard>>

(* The channel of w is lost; its handler goes on, its message comes back.  *)
(* A timer sends on the dead channel, which throws.                        *)
LosePayerChannel(w) ==
    /\ w \in envelope.by
    /\ EventFault
    /\ payer' = [payer EXCEPT ![w].linked = FALSE]
    /\ envelope' = [envelope EXCEPT !.by = {},
                       !.at = IF envelope.at = "timer" THEN "dead" ELSE "queue"]
    /\ UNCHANGED <<payment, bus, heard, muddled>>

PayerStep(w) ==
    \/ TakeEnvelope(w) \/ LoadPayment(w) \/ MarkAsProcessing(w) \/ Pay(w)
    \/ MarkAsCompleted(w) \/ Settle(w) \/ MarkAsFailed(w) \/ PublishWsEvent(w)
    \/ AnswerEnvelope(w)

PayoutEventsNext ==
    \/ PublishPayment \/ EmitInitiated \/ ForwardEvent \/ LoseEvents
    \/ ResendEnvelope
    \/ \E w \in Payers : PayerStep(w) \/ CrashPayer(w) \/ LosePayerChannel(w)

PayoutEventsSpec == PayoutEventsInit /\ [][PayoutEventsNext]_eventVars

-----------------------------------------------------------------------------
(* Properties.                                                             *)

(* What the workers said last of all: after it only the gateway spoke, or  *)
(* the same was said again.                                                *)
LastWord(i) ==
    /\ heard[i] # "initiated"
    /\ \A j \in DOMAIN heard : j > i => heard[j] \in {"initiated", heard[i]}

Quiet ==
    /\ payment.request # "audit" /\ bus = <<>>
    /\ envelope.at \in {"done", "dead"}
    /\ \A w \in Payers : PayerAt(w, "idle")

(* "completed" is the last word of the workers, and true for good: no      *)
(* retry, crash or redelivery says otherwise later, but for two handlers   *)
(* at once, which a lost channel leads to, and for a handler that could    *)
(* not load the record.  And when all is still the last word is what the   *)
(* transaction says, if nothing was lost.  (processMessage,                *)
(* _publishWsEvent, the bridge.)                                           *)
EventsTell ==
    ~muddled.overlap /\ ~muddled.blind =>
        /\ \A i \in DOMAIN heard : heard[i] = "completed" =>
              LastWord(i) /\ payment.record = "completed"
        /\ Quiet /\ ~muddled.lost =>
              \E i \in DOMAIN heard : LastWord(i) /\ heard[i] = payment.record
=============================================================================
