----------------------------- MODULE Scheduler ------------------------------
(***************************************************************************)
(* Scheduled payouts: SchedulerService polls MongoDB for payouts that are  *)
(* due and sends each through the normal payout flow, in every gateway     *)
(* process, while SchedulerController lets their owner create, cancel and  *)
(* update them.                                                            *)
(*                                                                         *)
(* A poll is a chain of awaits, and setInterval starts the next one whether*)
(* or not the last is over: a gateway has several polls, its slots, under  *)
(* way.  Cancel and update read the record, check its status, and save.    *)
(* The payout flow (PayoutPipeline) is one step here: what the scheduler   *)
(* learns of it is that it was accepted or that it threw.                  *)
(***************************************************************************)
EXTENDS Integers, FiniteSets

CONSTANTS
    Payouts,        \* the scheduled payouts
    Gateways,       \* the gateway processes
    Slots,          \* the polls one of them may have under way at once
    Requests,       \* the cancel and update requests
    MaxTime,        \* the clock, in units that tell due times apart
    FaultKinds,     \* the kinds of fault the environment may inject
    MaxFaults,      \* and how many of them in one behaviour
    NoPayout        \* what a slot or request is about when it is idle

AllFaults == {"crash", "stop", "store", "full"}

ASSUME SchedulerAssumption ==
    /\ NoPayout \notin Payouts
    /\ MaxTime \in Nat
    /\ MaxFaults \in Nat
    /\ FaultKinds \subseteq AllFaults

VARIABLES
    clock,      \* the time, the same for every process
    status,     \* status[p]: ScheduledPayout.status, or "none"
    at,         \* at[p]: ScheduledPayout.scheduledAt
    running,    \* running[g]: has g's interval not been cleared?
    tick,       \* tick[g][k]: where the poll k of g stands, and on which payout
    req,        \* req[r]: a request between its read and its save
    sent,       \* history: sent[p], times the payout flow took p's payout on
    faults      \* the number of faults injected so far

vars == <<clock, status, at, running, tick, req, sent, faults>>

Status ==
    {"none", "pending", "processing", "completed", "failed", "cancelled"}

TickPc == {"idle", "claim", "pay", "complete", "fail"}

(* A request remembers the record it loaded: that it was pending goes      *)
(* without saying, and the due time tells whether an update changes it.    *)
Request ==
    [pc : {"idle", "cancel", "update", "done"},
     p : Payouts \union {NoPayout}, was : 0 .. MaxTime, to : 0 .. MaxTime]

NoTick == [pc |-> "idle", p |-> NoPayout]
NoRequest == [pc |-> "idle", p |-> NoPayout, was |-> 0, to |-> 0]

Init ==
    /\ clock = 0
    /\ status = [p \in Payouts |-> "none"]
    /\ at = [p \in Payouts |-> 0]
    /\ running = [g \in Gateways |-> TRUE]
    /\ tick = [g \in Gateways |-> [k \in Slots |-> NoTick]]
    /\ req = [r \in Requests |-> NoRequest]
    /\ sent = [p \in Payouts |-> 0]
    /\ faults = 0

Fault(kind) ==
    /\ kind \in FaultKinds
    /\ faults < MaxFaults
    /\ faults' = faults + 1

-----------------------------------------------------------------------------
(* The requests: SchedulerController.                                      *)

(* The validator wants a time in the future, here and in an update.        *)
Future == clock + 1 .. MaxTime

Create(p) ==
    /\ status[p] = "none"
    /\ status' = [status EXCEPT ![p] = "pending"]
    /\ \E time \in Future : at' = [at EXCEPT ![p] = time]
    /\ UNCHANGED <<clock, running, tick, req, sent, faults>>

(* Only a pending payout passes the check; every other is answered 400.    *)
Load(r, p, pc, time) ==
    /\ req[r].pc = "idle"
    /\ status[p] = "pending"
    /\ req' = [req EXCEPT ![r] =
                 [pc |-> pc, p |-> p, was |-> at[p], to |-> time]]
    /\ UNCHANGED <<clock, status, at, running, tick, sent, faults>>

CancelLoad(r, p) == Load(r, p, "cancel", at[p])

UpdateLoad(r, p) == \E time \in Future \union {at[p]} : Load(r, p, "update", time)

Answer(r) == req' = [req EXCEPT ![r] = [NoRequest EXCEPT !.pc = "done"]]

(* payout.save() writes the paths assigned since the load, and nothing     *)
(* guards the write: whatever happened to the record since is overwritten. *)
CancelSave(r) ==
    /\ req[r].pc = "cancel"
    /\ status' = [status EXCEPT ![req[r].p] = "cancelled"]
    /\ Answer(r)
    /\ UNCHANGED <<clock, at, running, tick, sent, faults>>

(* Mutant: the whole document is written back, with the status it had.     *)
UpdateSaveMutant(r) ==
    /\ req[r].pc = "update"
    /\ at' = [at EXCEPT ![req[r].p] = req[r].to]
    /\ status' = [status EXCEPT ![req[r].p] = "pending"]
    /\ Answer(r)
    /\ UNCHANGED <<clock, running, tick, sent, faults>>

UpdateSave(r) ==
    /\ req[r].pc = "update"
    /\ at' = IF req[r].to = req[r].was THEN at
             ELSE [at EXCEPT ![req[r].p] = req[r].to]
    /\ Answer(r)
    /\ UNCHANGED <<clock, status, running, tick, sent, faults>>

-----------------------------------------------------------------------------
(* The polls: SchedulerService._tick and _executeScheduledPayout.          *)

At(g, k, pc) == tick[g][k].pc = pc
Goto(g, k, pc, p) == tick' = [tick EXCEPT ![g][k] = [pc |-> pc, p |-> p]]

(* setInterval, and the poll that start() makes at once.                   *)
StartTick(g, k) ==
    /\ running[g]
    /\ At(g, k, "idle")
    /\ Goto(g, k, "claim", NoPayout)
    /\ UNCHANGED <<clock, status, at, running, req, sent, faults>>

(* Mutant: $gte for $lte.                                                  *)
DueMutant(p) == status[p] = "pending" /\ at[p] >= clock

Due(p) == status[p] = "pending" /\ at[p] <= clock

(* Mutant: a payout in processing is found as well.                        *)
ClaimMutant(g, k, p) ==
    /\ At(g, k, "claim")
    /\ status[p] \in {"pending", "processing"} /\ at[p] <= clock
    /\ status' = [status EXCEPT ![p] = "processing"]
    /\ \/ Goto(g, k, "pay", p) /\ UNCHANGED faults
       \/ Goto(g, k, "idle", NoPayout) /\ Fault("store")
    /\ UNCHANGED <<clock, at, running, req, sent>>

(* findOneAndUpdate claims one of the due payouts.  If its reply is lost   *)
(* the poll ends, and nobody knows of the claim.                           *)
Claim(g, k, p) ==
    /\ At(g, k, "claim")
    /\ Due(p)
    /\ status' = [status EXCEPT ![p] = "processing"]
    /\ \/ Goto(g, k, "pay", p) /\ UNCHANGED faults
       \/ Goto(g, k, "idle", NoPayout) /\ Fault("store")
    /\ UNCHANGED <<clock, at, running, req, sent>>

(* Nothing is due, or the query fails.                                     *)
ClaimNothing(g, k) ==
    /\ At(g, k, "claim")
    /\ \/ UNCHANGED faults /\ \A p \in Payouts : ~Due(p)
       \/ Fault("store")
    /\ Goto(g, k, "idle", NoPayout)
    /\ UNCHANGED <<clock, status, at, running, req, sent>>

(* initiatePayout returns: the payout is on its way.                       *)
PayAccepted(g, k, p) ==
    /\ tick[g][k] = [pc |-> "pay", p |-> p]
    /\ Goto(g, k, "complete", p)
    /\ sent' = [sent EXCEPT ![p] = @ + 1]
    /\ UNCHANGED <<clock, status, at, running, req, faults>>

(* Mutant: a payout that is turned down counts as executed.                *)
PayRejectedMutant(g, k, p) ==
    /\ tick[g][k] = [pc |-> "pay", p |-> p]
    /\ \/ UNCHANGED <<sent, faults>>
       \/ sent' = [sent EXCEPT ![p] = @ + 1] /\ Fault("full")
    /\ Goto(g, k, "complete", p)
    /\ UNCHANGED <<clock, status, at, running, req>>

(* It throws: the payout is turned down, or (PayoutPipeline's Publish) it  *)
(* went out through a full buffer and is reported as failed all the same.  *)
PayRejected(g, k, p) ==
    /\ tick[g][k] = [pc |-> "pay", p |-> p]
    /\ \/ UNCHANGED <<sent, faults>>
       \/ sent' = [sent EXCEPT ![p] = @ + 1] /\ Fault("full")
    /\ Goto(g, k, "fail", p)
    /\ UNCHANGED <<clock, status, at, running, req>>

(* The update to completed, which is inside the try: if it fails, or loses *)
(* its reply, the catch block takes over.  A poll that got through asks for*)
(* the next payout by setImmediate, stopped or not.                        *)
Complete(g, k, p) ==
    /\ tick[g][k] = [pc |-> "complete", p |-> p]
    /\ \/ /\ status' = [status EXCEPT ![p] = "completed"]
          /\ \/ Goto(g, k, "claim", NoPayout) /\ UNCHANGED faults
             \/ Goto(g, k, "fail", p) /\ Fault("store")
       \/ Goto(g, k, "fail", p) /\ Fault("store") /\ UNCHANGED status
    /\ UNCHANGED <<clock, at, running, req, sent>>

(* Mutant: the failure is logged and not recorded.                         *)
FailMutant(g, k, p) ==
    /\ tick[g][k] = [pc |-> "fail", p |-> p]
    /\ Goto(g, k, "claim", NoPayout)
    /\ UNCHANGED <<clock, status, at, running, req, sent, faults>>

(* The catch block's own update: if that fails, the poll ends.             *)
Fail(g, k, p) ==
    /\ tick[g][k] = [pc |-> "fail", p |-> p]
    /\ \/ /\ status' = [status EXCEPT ![p] = "failed"]
          /\ \/ Goto(g, k, "claim", NoPayout) /\ UNCHANGED faults
             \/ Goto(g, k, "idle", NoPayout) /\ Fault("store")
       \/ Goto(g, k, "idle", NoPayout) /\ Fault("store") /\ UNCHANGED status
    /\ UNCHANGED <<clock, at, running, req, sent>>

-----------------------------------------------------------------------------
(* The environment.                                                        *)

Advance ==
    /\ clock < MaxTime
    /\ clock' = clock + 1
    /\ UNCHANGED <<status, at, running, tick, req, sent, faults>>

Restarted(g) ==
    /\ tick' = [tick EXCEPT ![g] = [k \in Slots |-> NoTick]]
    /\ running' = [running EXCEPT ![g] = TRUE]
    /\ UNCHANGED <<clock, status, at, req, sent>>

Crash(g) == Fault("crash") /\ Restarted(g)

(* shutdown() clears the interval first and closes the rest one after the  *)
(* other; it does not wait for polls, and they go on until the exit.       *)
Stop(g) ==
    /\ running[g]
    /\ Fault("stop")
    /\ running' = [running EXCEPT ![g] = FALSE]
    /\ UNCHANGED <<clock, status, at, tick, req, sent>>

Exit(g) == ~running[g] /\ Restarted(g) /\ UNCHANGED faults

-----------------------------------------------------------------------------
Ask(r) ==
    \/ \E p \in Payouts : CancelLoad(r, p) \/ UpdateLoad(r, p)
    \/ CancelSave(r)
    \/ UpdateSave(r)

Execute(g, k) ==
    \/ ClaimNothing(g, k)
    \/ \E p \in Payouts :
         \/ Claim(g, k, p)
         \/ PayAccepted(g, k, p)
         \/ PayRejected(g, k, p)
         \/ Complete(g, k, p)
         \/ Fail(g, k, p)

Next ==
    \/ \E p \in Payouts : Create(p)
    \/ \E r \in Requests : Ask(r)
    \/ \E g \in Gateways, k \in Slots : StartTick(g, k) \/ Execute(g, k)
    \/ \E g \in Gateways : Crash(g) \/ Stop(g) \/ Exit(g)
    \/ Advance

Spec == Init /\ [][Next]_vars

(* Time passes, the interval fires, every await resumes and a process that *)
(* shuts down exits and is started again.  Nobody has to ask for anything. *)
Fairness ==
    /\ WF_vars(Advance)
    /\ \A g \in Gateways : WF_vars(Exit(g))
    /\ \A g \in Gateways, k \in Slots :
         WF_vars(StartTick(g, k)) /\ WF_vars(Execute(g, k))

LiveSpec == Spec /\ Fairness

-----------------------------------------------------------------------------
(* Properties.                                                             *)

TypeOK ==
    /\ clock \in 0 .. MaxTime
    /\ status \in [Payouts -> Status]
    /\ at \in [Payouts -> 0 .. MaxTime]
    /\ running \in [Gateways -> BOOLEAN]
    /\ tick \in [Gateways -> [Slots ->
                   [pc : TickPc, p : Payouts \union {NoPayout}]]]
    /\ req \in [Requests -> Request]
    /\ sent \in [Payouts -> Nat]
    /\ faults \in 0 .. MaxFaults

Executes(g, k, p) == tick[g][k].p = p
InHand(p) == \E g \in Gateways, k \in Slots : Executes(g, k, p)

(* However the polls of all gateways overlap, crash, lose replies and race *)
(* with cancels and updates, a scheduled payout is taken on by one of them *)
(* at most, and enters the payout flow at most once: not before it has been*)
(* claimed, and not again once it has.                                     *)
OneExecution ==
    \A p \in Payouts :
        /\ sent[p] <= 1
        /\ status[p] \in {"none", "pending"} => ~InHand(p) /\ sent[p] = 0
        /\ \A g \in Gateways, k \in Slots :
             Executes(g, k, p) =>
               /\ At(g, k, "pay") => sent[p] = 0
               /\ \A f \in Gateways, j \in Slots :
                    Executes(f, j, p) => f = g /\ j = k

(* What the record says is what happened: completed means that the payout  *)
(* went out, and without a fault failed means that it did not.  A cancelled*)
(* record says nothing: the cancel may have been saved after the claim.    *)
RecordTruth ==
    \A p \in Payouts :
        /\ status[p] = "completed" => sent[p] = 1
        /\ status[p] = "failed" /\ faults = 0 => sent[p] = 0

(* A cancelled payout that no poll had taken up before is never taken up:  *)
(* no update that read the record while it was pending brings it back.     *)
CancelledForGood ==
    [][\A p \in Payouts :
         status[p] = "cancelled" /\ ~InHand(p)
           => status'[p] = "cancelled" /\ ~InHand(p)']_vars

(* No scheduled payout stays pending for ever, whatever crashes, shutdowns *)
(* and failing queries come between: it is taken up or cancelled.          *)
EventuallyTakenUp ==
    \A p \in Payouts : status[p] = "pending" ~> status[p] # "pending"

(* Without a fault none stays in processing either.                        *)
EventuallyRecorded ==
    \A p \in Payouts :
        status[p] = "processing" ~> status[p] # "processing" \/ faults > 0
=============================================================================
