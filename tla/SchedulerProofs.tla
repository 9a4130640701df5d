-------------------------- MODULE SchedulerProofs ---------------------------
(***************************************************************************)
(* What holds of scheduled payouts for any number of payouts, gateways,    *)
(* polls, requests and faults.                                             *)
(***************************************************************************)
EXTENDS Scheduler, TLAPS

(* A poll after the claim has a payout, one before it has none; what it    *)
(* will record is what happened, and it is the only one to record it.      *)
PollTruth ==
    \A g \in Gateways, k \in Slots :
        /\ tick[g][k].pc \in {"idle", "claim"} <=> tick[g][k].p = NoPayout
        /\ \A p \in Payouts :
             Executes(g, k, p) =>
               /\ status[p] # "failed"
               /\ At(g, k, "complete") => sent[p] = 1
               /\ At(g, k, "fail") /\ faults = 0 => sent[p] = 0

SchedulerInv == OneExecution /\ RecordTruth /\ PollTruth

-----------------------------------------------------------------------------
LEMMA FaultType ==
    ASSUME TypeOK, NEW kind, Fault(kind)
    PROVE  faults' \in 0 .. MaxFaults /\ faults' > 0
BY SchedulerAssumption DEF TypeOK, Fault

LEMMA GotoTick ==
    ASSUME TypeOK, NEW g \in Gateways, NEW k \in Slots, NEW pc \in TickPc,
           NEW p \in Payouts \union {NoPayout}, Goto(g, k, pc, p)
    PROVE  /\ tick' \in [Gateways -> [Slots ->
                           [pc : TickPc, p : Payouts \union {NoPayout}]]]
           /\ tick'[g][k] = [pc |-> pc, p |-> p]
           /\ \A f \in Gateways, j \in Slots :
                f # g \/ j # k => tick'[f][j] = tick[f][j]
BY DEF Goto, TypeOK

LEMMA TypeInit == Init => TypeOK
BY SchedulerAssumption
   DEF Init, TypeOK, NoTick, NoRequest, Request, Status, TickPc

LEMMA TypeRequests ==
    ASSUME TypeOK, NEW r \in Requests, Ask(r)
    PROVE  TypeOK'
<1> USE SchedulerAssumption DEF TypeOK
<1>1. ASSUME NEW p \in Payouts, NEW pc \in {"cancel", "update"},
             NEW time \in 0 .. MaxTime, Load(r, p, pc, time)
      PROVE  TypeOK'
  BY <1>1 DEF Load, Request
<1>2. ASSUME NEW p \in Payouts, CancelLoad(r, p)
      PROVE  TypeOK'
  BY <1>1, <1>2 DEF CancelLoad
<1>3. ASSUME NEW p \in Payouts, UpdateLoad(r, p)
      PROVE  TypeOK'
  BY <1>1, <1>3 DEF UpdateLoad, Future
<1>4. Answer(r) => req' \in [Requests -> Request]
  BY DEF Answer, NoRequest, Request
<1>5. CASE CancelSave(r)
  BY <1>4, <1>5 DEF CancelSave, Status
<1>6. CASE UpdateSave(r)
  <2>1. req[r].to \in 0 .. MaxTime
    BY DEF Request
  <2>2. QED
    BY <1>4, <1>6, <2>1 DEF UpdateSave
<1>7. QED
  BY <1>2, <1>3, <1>5, <1>6 DEF Ask

LEMMA TypePolls ==
    ASSUME TypeOK, NEW g \in Gateways, NEW k \in Slots,
           StartTick(g, k) \/ Execute(g, k)
    PROVE  TypeOK'
<1>1. tick' \in [Gateways -> [Slots ->
                   [pc : TickPc, p : Payouts \union {NoPayout}]]]
  BY GotoTick
     DEF StartTick, Execute, Claim, ClaimNothing, PayAccepted, PayRejected,
         Complete, Fail, TickPc
<1>2. faults' \in 0 .. MaxFaults
  BY FaultType
     DEF StartTick, Execute, Claim, ClaimNothing, PayAccepted, PayRejected,
         Complete, Fail, TypeOK
<1>3. status' \in [Payouts -> Status]
  BY DEF StartTick, Execute, Claim, ClaimNothing, PayAccepted, PayRejected,
         Complete, Fail, TypeOK, Status
<1>4. sent' \in [Payouts -> Nat]
  <2>1. \/ UNCHANGED sent
        \/ \E p \in Payouts : sent' = [sent EXCEPT ![p] = sent[p] + 1]
    BY DEF StartTick, Execute, Claim, ClaimNothing, PayAccepted, PayRejected,
           Complete, Fail
  <2>2. QED
    BY <2>1 DEF TypeOK
<1>5. UNCHANGED <<clock, at, running, req>>
  BY DEF StartTick, Execute, Claim, ClaimNothing, PayAccepted, PayRejected,
         Complete, Fail
<1>6. QED
  BY <1>1, <1>2, <1>3, <1>4, <1>5 DEF TypeOK

LEMMA TypeStep == TypeOK /\ [Next]_vars => TypeOK'
<1> SUFFICES ASSUME TypeOK, [Next]_vars
             PROVE  TypeOK'
  OBVIOUS
<1> USE SchedulerAssumption
<1>1. ASSUME NEW p \in Payouts, Create(p)
      PROVE  TypeOK'
  BY <1>1 DEF Create, Future, TypeOK, Status
<1>2. ASSUME NEW g \in Gateways, Crash(g) \/ Stop(g) \/ Exit(g)
      PROVE  TypeOK'
  <2>1. CASE Stop(g)
    BY <2>1, FaultType DEF Stop, TypeOK
  <2>2. Restarted(g) => tick' \in [Gateways -> [Slots ->
                          [pc : TickPc, p : Payouts \union {NoPayout}]]]
    BY DEF Restarted, NoTick, TickPc, TypeOK
  <2>3. CASE Crash(g) \/ Exit(g)
    BY <2>2, <2>3, FaultType DEF Crash, Exit, Restarted, TypeOK
  <2>4. QED
    BY <1>2, <2>1, <2>3
<1>3. CASE Advance
  BY <1>3 DEF Advance, TypeOK
<1>4. CASE UNCHANGED vars
  BY <1>4 DEF vars, TypeOK
<1>5. QED
  BY <1>1, <1>2, <1>3, <1>4, TypeRequests, TypePolls DEF Next

-----------------------------------------------------------------------------
(* The requests leave the polls alone, and only ever cancel.               *)
LEMMA InvRequests ==
    ASSUME TypeOK, SchedulerInv, NEW r \in Requests, Ask(r)
    PROVE  SchedulerInv'
<1>1. UNCHANGED <<tick, sent, faults>>
  BY DEF Ask, CancelLoad, UpdateLoad, Load, CancelSave, UpdateSave
<1>2. \A p \in Payouts : status'[p] = status[p] \/ status'[p] = "cancelled"
  BY DEF Ask, CancelLoad, UpdateLoad, Load, CancelSave, UpdateSave, TypeOK
<1>3. QED
  BY <1>1, <1>2
     DEF SchedulerInv, OneExecution, RecordTruth, PollTruth, InHand, Executes,
         At

LEMMA InvCreate ==
    ASSUME TypeOK, SchedulerInv, NEW p \in Payouts, Create(p)
    PROVE  SchedulerInv'
<1>1. /\ UNCHANGED <<tick, sent, faults>>
      /\ status[p] = "none" /\ status' = [status EXCEPT ![p] = "pending"]
  BY DEF Create
<1>2. QED
  BY <1>1
     DEF SchedulerInv, OneExecution, RecordTruth, PollTruth, InHand, Executes,
         At, TypeOK

(* A process that ends takes its polls out of every hand.                  *)
LEMMA InvProcess ==
    ASSUME TypeOK, SchedulerInv, NEW g \in Gateways,
           Crash(g) \/ Stop(g) \/ Exit(g)
    PROVE  SchedulerInv'
<1>1. UNCHANGED <<status, sent>> /\ (faults' = 0 => faults = 0)
  BY FaultType DEF Crash, Stop, Exit, Restarted
<1>2. \A f \in Gateways, j \in Slots :
        tick'[f][j] = tick[f][j] \/ tick'[f][j] = NoTick
  <2>1. \/ tick' = tick
        \/ tick' = [tick EXCEPT ![g] = [k \in Slots |-> NoTick]]
    BY DEF Crash, Stop, Exit, Restarted
  <2>2. QED
    BY <2>1 DEF TypeOK
<1>3. \A f \in Gateways, j \in Slots, p \in Payouts :
        Executes(f, j, p)' => Executes(f, j, p) /\ tick'[f][j] = tick[f][j]
  BY <1>2, SchedulerAssumption DEF Executes, NoTick
<1>4. PollTruth'
  BY <1>1, <1>2, <1>3 DEF SchedulerInv, PollTruth, At, NoTick, Executes
<1>5. OneExecution'
  BY <1>1, <1>3 DEF SchedulerInv, OneExecution, InHand, At
<1>6. QED
  BY <1>1, <1>4, <1>5 DEF SchedulerInv, RecordTruth

(* What every poll step leaves to show: that of the one poll that moves.   *)
LEMMA InvPoll ==
    ASSUME TypeOK, TypeOK', SchedulerInv, NEW g \in Gateways, NEW k \in Slots,
           StartTick(g, k) \/ Execute(g, k)
    PROVE  SchedulerInv'
<1> USE DEF At
<1>1. ASSUME NEW pc \in {"idle", "claim"}, Goto(g, k, pc, NoPayout),
             UNCHANGED sent, faults' = 0 => faults = 0,
             \A p \in Payouts :
                 \/ status'[p] = status[p]
                 \/ status'[p] = "completed" /\ sent[p] = 1
                 \/ /\ status'[p] = "failed" /\ (faults = 0 => sent[p] = 0)
                    /\ Executes(g, k, p)
                 \/ status'[p] = "processing"
      PROVE  SchedulerInv'
  <2>1. pc \in TickPc
    BY DEF TickPc
  <2>2. /\ tick'[g][k] = [pc |-> pc, p |-> NoPayout]
        /\ \A f \in Gateways, j \in Slots :
             f # g \/ j # k => tick'[f][j] = tick[f][j]
    BY <1>1, <2>1, GotoTick
  <2>3. \A f \in Gateways, j \in Slots, p \in Payouts :
          Executes(f, j, p)' => Executes(f, j, p) /\ tick'[f][j] = tick[f][j]
    BY <2>2, SchedulerAssumption DEF Executes
  <2>4. PollTruth'
    <3>1. ASSUME NEW f \in Gateways, NEW j \in Slots, NEW p \in Payouts,
                 Executes(f, j, p)'
          PROVE  status'[p] # "failed"
      <4>1. Executes(f, j, p) /\ (f # g \/ j # k)
        BY <2>2, <2>3, <3>1, SchedulerAssumption DEF Executes
      <4>2. ~Executes(g, k, p)
        BY <4>1 DEF SchedulerInv, OneExecution
      <4>3. status[p] # "failed"
        BY <4>1 DEF SchedulerInv, PollTruth
      <4>4. QED
        BY <1>1, <4>2, <4>3
    <3>2. \A f \in Gateways, j \in Slots :
             tick'[f][j].pc \in {"idle", "claim"} <=> tick'[f][j].p = NoPayout
      BY <2>2 DEF SchedulerInv, PollTruth
    <3>3. QED
      BY <1>1, <2>3, <3>1, <3>2 DEF SchedulerInv, PollTruth
  <2>5. OneExecution'
    BY <1>1, <2>3 DEF SchedulerInv, OneExecution, InHand
  <2>6. RecordTruth'
    BY <1>1 DEF SchedulerInv, RecordTruth
  <2>7. QED
    BY <2>4, <2>5, <2>6 DEF SchedulerInv
<1>2. CASE StartTick(g, k) \/ ClaimNothing(g, k)
  BY <1>1, <1>2, FaultType DEF StartTick, ClaimNothing
<1>3. ASSUME NEW p \in Payouts, Claim(g, k, p)
      PROVE  SchedulerInv'
  <2>1. CASE Goto(g, k, "idle", NoPayout) /\ Fault("store")
    BY <1>1, <1>3, <2>1, FaultType DEF Claim, TypeOK
  <2>2. CASE Goto(g, k, "pay", p) /\ UNCHANGED faults
    <3>1. /\ tick'[g][k] = [pc |-> "pay", p |-> p]
          /\ \A f \in Gateways, j \in Slots :
               f # g \/ j # k => tick'[f][j] = tick[f][j]
      BY <2>2, GotoTick DEF TickPc
    <3>2. ~InHand(p) /\ sent[p] = 0 /\ UNCHANGED sent
      BY <1>3 DEF Claim, Due, SchedulerInv, OneExecution
    <3>3. status' = [status EXCEPT ![p] = "processing"]
      BY <1>3 DEF Claim
    <3>4. \A f \in Gateways, j \in Slots, q \in Payouts :
            \/ /\ f = g /\ j = k
               /\ Executes(f, j, q)' <=> q = p
            \/ /\ tick'[f][j] = tick[f][j] /\ ~Executes(f, j, p)
               /\ Executes(f, j, q)' <=> Executes(f, j, q)
      BY <3>1, <3>2 DEF Executes, InHand
    <3>5. \A q \in Payouts :
            status'[q] = IF q = p THEN "processing" ELSE status[q]
      BY <3>3 DEF TypeOK
    <3>6. PollTruth'
      <4>1. \A f \in Gateways, j \in Slots :
              tick'[f][j].pc \in {"idle", "claim"} <=> tick'[f][j].p = NoPayout
        BY <3>1, SchedulerAssumption DEF SchedulerInv, PollTruth
      <4>2. ASSUME NEW f \in Gateways, NEW j \in Slots, NEW q \in Payouts,
                   Executes(f, j, q)'
            PROVE  /\ status'[q] # "failed"
                   /\ At(f, j, "complete")' => sent'[q] = 1
                   /\ At(f, j, "fail")' /\ faults' = 0 => sent'[q] = 0
        <5>1. CASE f = g /\ j = k
          <6>1. q = p /\ tick'[f][j].pc = "pay"
            BY <3>1, <4>2, <5>1 DEF Executes
          <6>2. QED
            BY <3>5, <6>1
        <5>2. CASE ~(f = g /\ j = k)
          BY <2>2, <3>2, <3>4, <3>5, <4>2, <5>2 DEF SchedulerInv, PollTruth
        <5>3. QED
          BY <5>1, <5>2
      <4>3. QED
        BY <4>1, <4>2 DEF PollTruth
    <3>7. OneExecution'
      <4> SUFFICES ASSUME NEW q \in Payouts
                   PROVE  /\ sent'[q] <= 1
                          /\ status'[q] \in {"none", "pending"}
                               => ~InHand(q)' /\ sent'[q] = 0
                          /\ \A f \in Gateways, j \in Slots :
                               Executes(f, j, q)' =>
                                 /\ At(f, j, "pay")' => sent'[q] = 0
                                 /\ \A e \in Gateways, i \in Slots :
                                      Executes(e, i, q)' => e = f /\ i = j
        BY DEF OneExecution
      <4>1. CASE q = p
        BY <3>2, <3>4, <3>5, <4>1
      <4>2. CASE q # p
        BY <3>2, <3>4, <3>5, <4>2 DEF SchedulerInv, OneExecution, InHand
      <4>3. QED
        BY <4>1, <4>2
    <3>8. RecordTruth'
      BY <2>2, <3>2, <3>5 DEF SchedulerInv, RecordTruth
    <3>9. QED
      BY <3>6, <3>7, <3>8 DEF SchedulerInv
  <2>3. QED
    BY <1>3, <2>1, <2>2 DEF Claim
<1>4. ASSUME NEW p \in Payouts, NEW pc \in {"complete", "fail"},
             Goto(g, k, pc, p), Executes(g, k, p),
             faults' = 0 => faults = 0,
             sent' = sent \/ (At(g, k, "pay")
                              /\ sent' = [sent EXCEPT ![p] = @ + 1]),
             pc = "complete" => sent'[p] = 1,
             pc = "fail" /\ faults' = 0 => sent'[p] = 0,
             \/ UNCHANGED status
             \/ /\ status' = [status EXCEPT ![p] = "completed"]
                /\ sent'[p] = 1
      PROVE  SchedulerInv'
  <2>1. /\ tick'[g][k] = [pc |-> pc, p |-> p]
        /\ \A f \in Gateways, j \in Slots :
             f # g \/ j # k => tick'[f][j] = tick[f][j]
    BY <1>4, GotoTick DEF TickPc
  <2>2. \A f \in Gateways, j \in Slots, q \in Payouts :
          Executes(f, j, q)' <=> Executes(f, j, q)
    BY <1>4, <2>1 DEF Executes
  <2>3. /\ \A f \in Gateways, j \in Slots :
             Executes(f, j, p) => f = g /\ j = k
        /\ status[p] \notin {"none", "pending"}
    BY <1>4 DEF SchedulerInv, OneExecution, InHand
  <2>4. \A q \in Payouts \ {p} : sent'[q] = sent[q] /\ status'[q] = status[q]
    BY <1>4 DEF TypeOK
  <2>5. sent'[p] = sent[p] \/ (sent[p] = 0 /\ sent'[p] = 1)
    BY <1>4 DEF SchedulerInv, OneExecution, TypeOK
  <2>6. status'[p] \in {status[p], "completed"}
    BY <1>4 DEF TypeOK
  <2>7. PollTruth'
    <3> SUFFICES ASSUME NEW f \in Gateways, NEW j \in Slots
                 PROVE  /\ tick'[f][j].pc \in {"idle", "claim"}
                             <=> tick'[f][j].p = NoPayout
                        /\ \A q \in Payouts :
                             Executes(f, j, q)' =>
                               /\ status'[q] # "failed"
                               /\ At(f, j, "complete")' => sent'[q] = 1
                               /\ At(f, j, "fail")' /\ faults' = 0
                                    => sent'[q] = 0
      BY DEF PollTruth
    <3>1. CASE f = g /\ j = k
      <4>1. status[p] # "failed"
        BY <1>4 DEF SchedulerInv, PollTruth
      <4>2. QED
        BY <1>4, <2>1, <2>6, <3>1, <4>1, SchedulerAssumption DEF Executes
    <3>2. CASE f # g \/ j # k
      <4>1. tick'[f][j] = tick[f][j]
        BY <2>1, <3>2
      <4>2. \A q \in Payouts : Executes(f, j, q) => q # p
        BY <2>3, <3>2
      <4>3. QED
        BY <1>4, <2>2, <2>4, <4>1, <4>2 DEF SchedulerInv, PollTruth
    <3>3. QED
      BY <3>1, <3>2
  <2>8. OneExecution'
    <3> SUFFICES ASSUME NEW q \in Payouts
                 PROVE  /\ sent'[q] <= 1
                        /\ status'[q] \in {"none", "pending"}
                             => ~InHand(q)' /\ sent'[q] = 0
                        /\ \A f \in Gateways, j \in Slots :
                             Executes(f, j, q)' =>
                               /\ At(f, j, "pay")' => sent'[q] = 0
                               /\ \A e \in Gateways, i \in Slots :
                                    Executes(e, i, q)' => e = f /\ i = j
      BY DEF OneExecution
    <3>1. InHand(q)' <=> InHand(q)
      BY <2>2 DEF InHand
    <3>2. CASE q = p
      BY <1>4, <2>1, <2>2, <2>3, <2>5, <2>6, <3>1, <3>2
         DEF SchedulerInv, OneExecution
    <3>3. CASE q # p
      <4>1. \A f \in Gateways, j \in Slots :
              Executes(f, j, q) => tick'[f][j] = tick[f][j]
        BY <1>4, <2>1, <3>3 DEF Executes
      <4>2. QED
        BY <2>2, <2>4, <3>1, <3>3, <4>1 DEF SchedulerInv, OneExecution
    <3>4. QED
      BY <3>2, <3>3
  <2>9. RecordTruth'
    <3>1. status[p] # "failed"
      BY <1>4 DEF SchedulerInv, PollTruth
    <3>2. QED
      BY <1>4, <2>4, <2>5, <3>1 DEF SchedulerInv, RecordTruth, TypeOK
  <2>10. QED
    BY <2>7, <2>8, <2>9 DEF SchedulerInv
<1>5. ASSUME NEW p \in Payouts, PayAccepted(g, k, p) \/ PayRejected(g, k, p)
      PROVE  SchedulerInv'
  <2>1. Executes(g, k, p) /\ At(g, k, "pay") /\ sent[p] = 0
    BY <1>5
       DEF PayAccepted, PayRejected, Executes, SchedulerInv, OneExecution
  <2>2. CASE PayAccepted(g, k, p)
    <3>1. /\ Goto(g, k, "complete", p) /\ UNCHANGED <<status, faults>>
          /\ sent' = [sent EXCEPT ![p] = sent[p] + 1]
      BY <2>2 DEF PayAccepted
    <3>2. sent'[p] = 1
      BY <2>1, <3>1 DEF TypeOK
    <3>3. QED
      BY <1>4, <2>1, <3>1, <3>2
  <2>3. CASE PayRejected(g, k, p)
    BY <1>4, <2>1, <2>3, FaultType DEF PayRejected, TypeOK
  <2>4. QED
    BY <1>5, <2>2, <2>3
<1>6. ASSUME NEW p \in Payouts, Complete(g, k, p)
      PROVE  SchedulerInv'
  <2>1. Executes(g, k, p) /\ sent[p] = 1
    BY <1>6 DEF Complete, Executes, SchedulerInv, PollTruth
  <2>2. CASE Goto(g, k, "claim", NoPayout)
    BY <1>1, <1>6, <2>1, <2>2, FaultType DEF Complete, TypeOK
  <2>3. CASE Goto(g, k, "fail", p) /\ Fault("store")
    BY <1>4, <1>6, <2>1, <2>3, FaultType DEF Complete, TypeOK
  <2>4. QED
    BY <1>6, <2>2, <2>3 DEF Complete
<1>7. ASSUME NEW p \in Payouts, Fail(g, k, p)
      PROVE  SchedulerInv'
  <2>1. faults = 0 => sent[p] = 0
    BY <1>7 DEF Fail, Executes, SchedulerInv, PollTruth
  <2>2. Executes(g, k, p) /\ UNCHANGED sent
    BY <1>7 DEF Fail, Executes
  <2>3. \A q \in Payouts :
          \/ status'[q] = status[q]
          \/ q = p /\ status'[q] = "failed"
    BY <1>7 DEF Fail, TypeOK
  <2>4. PICK pc \in {"idle", "claim"} : Goto(g, k, pc, NoPayout)
    BY <1>7 DEF Fail
  <2>5. faults' = 0 => faults = 0
    BY <1>7, FaultType DEF Fail
  <2>6. QED
    BY <1>1, <2>1, <2>2, <2>3, <2>4, <2>5
<1>8. QED
  BY <1>2, <1>3, <1>5, <1>6, <1>7 DEF Execute

-----------------------------------------------------------------------------
LEMMA InvInit == Init => SchedulerInv
BY SchedulerAssumption
   DEF Init, SchedulerInv, OneExecution, RecordTruth, PollTruth, InHand,
       Executes, At, NoTick

LEMMA InvStep == TypeOK /\ SchedulerInv /\ [Next]_vars => SchedulerInv'
<1> SUFFICES ASSUME TypeOK, SchedulerInv, [Next]_vars
             PROVE  SchedulerInv'
  OBVIOUS
<1>1. TypeOK'
  BY TypeStep
<1>2. ASSUME UNCHANGED <<status, tick, sent, faults>>
      PROVE  SchedulerInv'
  BY <1>2
     DEF SchedulerInv, OneExecution, RecordTruth, PollTruth, InHand, Executes,
         At
<1>3. CASE Advance \/ UNCHANGED vars
  BY <1>2, <1>3 DEF Advance, vars
<1>4. QED
  BY <1>1, <1>3, InvRequests, InvCreate, InvProcess, InvPoll DEF Next

(* Every variable keeps to its type.                                       *)
THEOREM TypeCorrect == Spec => []TypeOK
<1>1. QED
  BY TypeInit, TypeStep, PTL DEF Spec

LEMMA InvHolds == Spec => [](TypeOK /\ SchedulerInv)
<1>1. Init => TypeOK /\ SchedulerInv
  BY TypeInit, InvInit
<1>2. TypeOK /\ SchedulerInv /\ [Next]_vars => (TypeOK /\ SchedulerInv)'
  BY TypeStep, InvStep
<1>3. QED
  BY <1>1, <1>2, PTL DEF Spec

(* However many gateways poll, a scheduled payout enters the payout flow at*)
(* most once.                                                              *)
THEOREM ExecutedOnce == Spec => []OneExecution
<1>1. SchedulerInv => OneExecution
  BY DEF SchedulerInv
<1>2. QED
  BY <1>1, InvHolds, PTL

(* A record says completed or failed only of what came of the payout.      *)
THEOREM RecordsAreTrue == Spec => []RecordTruth
<1>1. SchedulerInv => RecordTruth
  BY DEF SchedulerInv
<1>2. QED
  BY <1>1, InvHolds, PTL

(* A payout cancelled before any poll took it up is never taken up.        *)
THEOREM CancelHonoured == Spec => CancelledForGood
<1> DEFINE Kept ==
      \A p \in Payouts :
        status[p] = "cancelled" /\ ~InHand(p)
          => status'[p] = "cancelled" /\ ~InHand(p)'
<1>1. TypeOK /\ SchedulerInv /\ [Next]_vars => Kept
  <2> SUFFICES ASSUME TypeOK, SchedulerInv, [Next]_vars, NEW p \in Payouts,
                      status[p] = "cancelled", ~InHand(p)
               PROVE  status'[p] = "cancelled" /\ ~InHand(p)'
    OBVIOUS
  <2>1. CASE UNCHANGED <<status, tick>>
    BY <2>1 DEF InHand, Executes
  <2>2. ASSUME NEW q \in Payouts, Create(q)
        PROVE  status'[p] = "cancelled" /\ ~InHand(p)'
    BY <2>2 DEF Create, InHand, Executes, TypeOK
  <2>3. ASSUME NEW r \in Requests, Ask(r)
        PROVE  status'[p] = "cancelled" /\ ~InHand(p)'
    BY <2>3
       DEF Ask, CancelLoad, UpdateLoad, Load, CancelSave, UpdateSave, InHand,
           Executes, TypeOK
  <2>4. ASSUME NEW g \in Gateways, Crash(g) \/ Stop(g) \/ Exit(g)
        PROVE  status'[p] = "cancelled" /\ ~InHand(p)'
    <3>1. UNCHANGED status
      BY <2>4 DEF Crash, Stop, Exit, Restarted
    <3>2. \/ tick' = tick
          \/ tick' = [tick EXCEPT ![g] = [k \in Slots |-> NoTick]]
      BY <2>4 DEF Crash, Stop, Exit, Restarted
    <3>3. \A f \in Gateways, j \in Slots :
            tick'[f][j] = tick[f][j] \/ tick'[f][j] = NoTick
      BY <3>2 DEF TypeOK
    <3>4. QED
      BY <3>1, <3>3, SchedulerAssumption DEF InHand, Executes, NoTick
  <2>5. ASSUME NEW g \in Gateways, NEW k \in Slots,
               StartTick(g, k) \/ Execute(g, k)
        PROVE  status'[p] = "cancelled" /\ ~InHand(p)'
    <3>1. PICK to \in TickPc, n \in Payouts \union {NoPayout} :
            Goto(g, k, to, n) /\ n # p
      <4>1. CASE StartTick(g, k) \/ ClaimNothing(g, k)
        BY <4>1, SchedulerAssumption DEF StartTick, ClaimNothing, TickPc
      <4>2. ASSUME NEW q \in Payouts,
                   \/ Claim(g, k, q) \/ PayAccepted(g, k, q)
                   \/ PayRejected(g, k, q) \/ Complete(g, k, q)
                   \/ Fail(g, k, q)
            PROVE  /\ q # p
                   /\ \E pc \in TickPc, m \in {q, NoPayout} : Goto(g, k, pc, m)
        BY <4>2
           DEF Claim, Due, PayAccepted, PayRejected, Complete, Fail, InHand,
               Executes, TickPc
      <4>3. QED
        BY <2>5, <4>1, <4>2, SchedulerAssumption DEF Execute
    <3>2. \A f \in Gateways, j \in Slots : ~Executes(f, j, p)'
      <4>1. /\ tick'[g][k] = [pc |-> to, p |-> n]
            /\ \A f \in Gateways, j \in Slots :
                 f # g \/ j # k => tick'[f][j] = tick[f][j]
        BY <3>1, GotoTick
      <4>2. QED
        BY <3>1, <4>1 DEF InHand, Executes
    <3>3. status'[p] = "cancelled"
      <4>1. CASE StartTick(g, k) \/ ClaimNothing(g, k)
        BY <4>1 DEF StartTick, ClaimNothing
      <4>2. ASSUME NEW q \in Payouts,
                   \/ Claim(g, k, q) \/ PayAccepted(g, k, q)
                   \/ PayRejected(g, k, q) \/ Complete(g, k, q)
                   \/ Fail(g, k, q)
            PROVE  status'[p] = "cancelled"
        <5>1. q # p
          BY <4>2
             DEF Claim, Due, PayAccepted, PayRejected, Complete, Fail, InHand,
                 Executes
        <5>2. QED
          BY <4>2, <5>1
             DEF Claim, PayAccepted, PayRejected, Complete, Fail, TypeOK
      <4>3. QED
        BY <2>5, <4>1, <4>2 DEF Execute
    <3>4. QED
      BY <3>2, <3>3 DEF InHand
  <2>6. QED
    BY <2>1, <2>2, <2>3, <2>4, <2>5 DEF Next, Advance, vars
<1>2. Init => TypeOK /\ SchedulerInv
  BY TypeInit, InvInit
<1>3. TypeOK /\ SchedulerInv /\ [Next]_vars => (TypeOK /\ SchedulerInv)'
  BY TypeStep, InvStep
<1>4. QED
  BY <1>1, <1>2, <1>3, PTL DEF Spec, CancelledForGood
=============================================================================
