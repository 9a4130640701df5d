------------------------------ MODULE Webhook ------------------------------
(***************************************************************************)
(* One webhook and the deliveries to it: webhook.service.js.  A delivery   *)
(* loads the document once and makes up to MaxAttempts attempts, each of   *)
(* them a POST, a log entry and an update of the document's statistics,    *)
(* with a timer before the next.  The process may die at any time.         *)
(***************************************************************************)
EXTENDS Integers, Sequences, FiniteSets

CONSTANTS
    Deliveries,     \* the calls of _deliver with attempt 1, numbered
    Urls,           \* the endpoints
    EventNames,     \* the events a webhook may subscribe to
    TestEvent,      \* "webhook.test"
    MaxAttempts,    \* MAX_RETRIES
    MaxHookEdits,   \* the updates and the deletion in one behaviour
    MaxHookFaults   \* in all: failing store calls, endless answers, deaths

ASSUME WebhookAssumption ==
    /\ Deliveries \subseteq Nat /\ IsFiniteSet(Deliveries)
    /\ MaxAttempts \in Nat \ {0}
    /\ {MaxHookEdits, MaxHookFaults} \subseteq Nat

VARIABLES
    hook,       \* the Webhook document; version is history: its updates
    delivery,   \* delivery[d]: one chain of attempts
    hookLog,    \* hookLog[d]: did it succeed, for each WebhookDelivery of d
    hookFaults, \* what the environment has done so far
    uncounted   \* history: log entries the statistics never heard of

webhookVars == <<hook, delivery, hookLog, hookFaults, uncounted>>

NoDelivery == [pc |-> "idle", event |-> TestEvent, url |-> TestEvent,
               version |-> 0, attempt |-> 0, ok |-> FALSE]

WebhookInit ==
    /\ hook = [state |-> "none", url |-> TestEvent, events |-> {},
               active |-> TRUE, success |-> 0, failure |-> 0, version |-> 0]
    /\ delivery = [d \in Deliveries |-> NoDelivery]
    /\ hookLog = [d \in Deliveries |-> <<>>]
    /\ hookFaults = 0
    /\ uncounted = 0

HookFault ==
    /\ hookFaults < MaxHookFaults
    /\ hookFaults' = hookFaults + 1

-----------------------------------------------------------------------------
(* The user's operations.                                                  *)

CreateWebhook ==
    /\ hook.state = "none"
    /\ \E u \in Urls, es \in SUBSET EventNames :
         hook' = [hook EXCEPT !.state = "there", !.url = u, !.events = es]
    /\ UNCHANGED <<delivery, hookLog, hookFaults, uncounted>>

(* findOne and save; the save writes the changed paths only.               *)
UpdateWebhook ==
    /\ hook.state = "there"
    /\ hook.version < MaxHookEdits
    /\ \/ \E u \in Urls : hook' = [hook EXCEPT !.url = u, !.version = @ + 1]
       \/ \E es \in SUBSET EventNames :
            hook' = [hook EXCEPT !.events = es, !.version = @ + 1]
       \/ hook' = [hook EXCEPT !.active = ~@, !.version = @ + 1]
    /\ UNCHANGED <<delivery, hookLog, hookFaults, uncounted>>

DeleteWebhook ==
    /\ hook.state = "there"
    /\ hook.version < MaxHookEdits
    /\ hook' = [hook EXCEPT !.state = "deleted", !.version = @ + 1]
    /\ UNCHANGED <<delivery, hookLog, hookFaults, uncounted>>

-----------------------------------------------------------------------------
(* A delivery.                                                             *)

At(d, pc) == delivery[d].pc = pc

Move(d, pc) == delivery' = [delivery EXCEPT ![d].pc = pc]

(* Deliveries start in the order of their numbers, which tell nothing.  The*)
(* document that the find returned serves every attempt.                   *)
Launch(d, event) ==
    /\ At(d, "idle")
    /\ \A c \in Deliveries : c < d => ~At(c, "idle")
    /\ delivery' = [delivery EXCEPT ![d] =
         [pc |-> "post", event |-> event, url |-> hook.url,
          version |-> hook.version, attempt |-> 1, ok |-> FALSE]]
    /\ UNCHANGED <<hook, hookLog, hookFaults, uncounted>>

(* Mutant: a paused webhook is called as well.                             *)
DeliverEventMutant(d) ==
    /\ hook.state = "there"
    /\ \E event \in EventNames : event \in hook.events /\ Launch(d, event)

(* find: an empty list of events matches no event.                         *)
DeliverEvent(d) ==
    /\ hook.state = "there"
    /\ hook.active
    /\ \E event \in EventNames : event \in hook.events /\ Launch(d, event)

(* The test asks for no subscription.  It answers after one attempt; the   *)
(* later ones come all the same.                                           *)
TestWebhook(d) ==
    /\ hook.state = "there"
    /\ Launch(d, TestEvent)

(* Mutant: without the AbortController a request may wait for ever.        *)
PostAnsweredMutant(d) ==
    /\ At(d, "post")
    /\ \/ \E ok \in BOOLEAN : delivery' =
            [delivery EXCEPT ![d].pc = "body", ![d].ok = ok]
       \/ Move(d, "waiting")
    /\ UNCHANGED <<hook, hookLog, hookFaults, uncounted>>

(* fetch: an answer, or an error, or the abort of the timer.               *)
PostAnswered(d) ==
    /\ At(d, "post")
    /\ \/ \E ok \in BOOLEAN : delivery' =
            [delivery EXCEPT ![d].pc = "body", ![d].ok = ok]
       \/ delivery' = [delivery EXCEPT ![d].pc = "log", ![d].ok = FALSE]
    /\ UNCHANGED <<hook, hookLog, hookFaults, uncounted>>

(* res.text(), with the timer cleared: a body that fails is a failure, one *)
(* that never ends is waited for without end.                              *)
ReadBody(d) ==
    /\ At(d, "body")
    /\ \/ Move(d, "log") /\ UNCHANGED hookFaults
       \/ /\ HookFault
          /\ delivery' = [delivery EXCEPT ![d].pc = "log", ![d].ok = FALSE]
       \/ HookFault /\ Move(d, "hung")
    /\ UNCHANGED <<hook, hookLog, uncounted>>

(* Mutant: a log entry that cannot be written does not stop the delivery.  *)
LogAttemptMutant(d) ==
    /\ At(d, "log")
    /\ \/ /\ hookLog' = [hookLog EXCEPT ![d] =
               Append(@, delivery[d].ok)]
          /\ UNCHANGED hookFaults
       \/ HookFault /\ UNCHANGED hookLog
    /\ Move(d, "stats")
    /\ UNCHANGED <<hook, uncounted>>

(* A failing create ends the chain: there is no attempt after it.          *)
LogAttempt(d) ==
    /\ At(d, "log")
    /\ \/ /\ hookLog' = [hookLog EXCEPT ![d] =
               Append(@, delivery[d].ok)]
          /\ Move(d, "stats")
          /\ UNCHANGED hookFaults
       \/ HookFault /\ Move(d, "lost") /\ UNCHANGED hookLog
    /\ UNCHANGED <<hook, uncounted>>

(* updateOne, which finds nothing once the webhook is deleted; then the    *)
(* timer, unless that was the last attempt.                                *)
CountAttempt(d) ==
    /\ At(d, "stats")
    /\ \/ /\ hook' = IF hook.state # "there" THEN hook
                     ELSE IF delivery[d].ok THEN [hook EXCEPT !.success = @ + 1]
                     ELSE [hook EXCEPT !.failure = @ + 1]
          /\ Move(d, IF delivery[d].ok THEN "delivered"
                     ELSE IF delivery[d].attempt < MaxAttempts THEN "timer"
                     ELSE "given up")
          /\ UNCHANGED <<hookFaults, uncounted>>
       \/ /\ HookFault
          /\ Move(d, "lost")
          /\ uncounted' = uncounted + 1
          /\ UNCHANGED hook
    /\ UNCHANGED hookLog

(* The document is the one loaded before the first attempt.                *)
RetryTimer(d) ==
    /\ At(d, "timer")
    /\ delivery' = [delivery EXCEPT ![d].pc = "post", ![d].ok = FALSE,
                                    ![d].attempt = @ + 1]
    /\ UNCHANGED <<hook, hookLog, hookFaults, uncounted>>

Ended == {"idle", "delivered", "given up", "lost"}

(* The process dies: its requests and its timers are forgotten.            *)
CrashSender ==
    /\ HookFault
    /\ uncounted' = uncounted + Cardinality({d \in Deliveries : At(d, "stats")})
    /\ delivery' = [d \in Deliveries |->
         IF delivery[d].pc \in Ended THEN delivery[d]
         ELSE [delivery[d] EXCEPT !.pc = "lost"]]
    /\ \E d \in Deliveries : delivery[d].pc \notin Ended
    /\ UNCHANGED <<hook, hookLog>>

DeliveryStep(d) ==
    \/ PostAnswered(d) \/ ReadBody(d) \/ LogAttempt(d) \/ CountAttempt(d)
    \/ RetryTimer(d)

WebhookNext ==
    \/ CreateWebhook \/ UpdateWebhook \/ DeleteWebhook
    \/ \E d \in Deliveries : DeliverEvent(d) \/ TestWebhook(d) \/ DeliveryStep(d)
    \/ CrashSender

(* A request without an answer is aborted, store calls answer, timers fire.*)
WebhookFairness == \A d \in Deliveries : WF_webhookVars(DeliveryStep(d))

WebhookSpec == WebhookInit /\ [][WebhookNext]_webhookVars /\ WebhookFairness

-----------------------------------------------------------------------------
(* Properties.                                                             *)

(* A request goes to the endpoint the webhook has, active and subscribed,  *)
(* unless the webhook was edited after the delivery began, and then it is  *)
(* one of the MaxAttempts of that delivery: an edit is final for every     *)
(* delivery that begins after it, and late for the others by no more.      *)
HookFresh ==
    \A d \in Deliveries : At(d, "post") =>
        /\ delivery[d].version = hook.version =>
             /\ hook.state = "there"
             /\ delivery[d].url = hook.url
             /\ \/ delivery[d].event = TestEvent
                \/ hook.active /\ delivery[d].event \in hook.events
        /\ Len(hookLog[d]) = delivery[d].attempt - 1
        /\ delivery[d].attempt <= MaxAttempts

Logged(ok) == Cardinality({r \in Deliveries \X (1 .. MaxAttempts) :
                             /\ r[2] \in DOMAIN hookLog[r[1]]
                             /\ hookLog[r[1]][r[2]] = ok})

Pending == Cardinality({d \in Deliveries : At(d, "stats")})

(* The statistics of a webhook and its delivery log tell the same story,   *)
(* but for the entries whose update is under way or was lost; and only the *)
(* last entry of a delivery can be a success.                              *)
HookAccounts ==
    /\ \A d \in Deliveries : \A i \in DOMAIN hookLog[d] :
         hookLog[d][i] => i = Len(hookLog[d])
    /\ hook.state = "there" =>
         /\ hook.success <= Logged(TRUE)
         /\ hook.failure <= Logged(FALSE)
         /\ hook.success + hook.failure + Pending + uncounted
              = Logged(TRUE) + Logged(FALSE)

(* A delivery that began ends: delivered, or given up after the last       *)
(* attempt, unless a store call failed, the process died or an answer has  *)
(* no end.                                                                 *)
DeliverySettles ==
    \A d \in Deliveries : At(d, "post") ~>
        delivery[d].pc \in {"delivered", "given up", "lost", "hung"}
=============================================================================
