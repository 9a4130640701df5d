------------------------------- MODULE Agents -------------------------------
(***************************************************************************)
(* The Groq client: the conversations of the investigation agent, kept in  *)
(* the memory of the gateway, and the assessment of a transaction by two   *)
(* agents and a supervisor.  A request to the model gives text, text that  *)
(* does not parse, or null, whatever went wrong.                           *)
(***************************************************************************)
EXTENDS Integers, Sequences, SequencesExt, FiniteSets

CONSTANTS
    Turns,          \* the calls of investigateTransaction, numbered
    Conversations,  \* the histories one session may have in turn, numbered
    HistoryLimit,   \* 22, of which groq.service.js:37 says that it is 20
    Verdicts,       \* approve, review, reject
    NoVerdict

ASSUME AgentAssumption ==
    /\ Turns \subseteq Nat /\ Conversations \subseteq Nat \ {0}
    /\ HistoryLimit \in Nat /\ HistoryLimit >= 3
    /\ {"approve", "review"} \subseteq Verdicts /\ NoVerdict \notin Verdicts

VARIABLES
    session,        \* the entry of _conversations: a history, or 0
    history,        \* history[g]: the array, which a clear only forgets
    turn,           \* turn[t]: a call, before or after its request
    widest,         \* history variable: the most turns g had at once
    assessment      \* a call of runMultiAgentRiskAssessment

agentVars == <<session, history, turn, widest, assessment>>

Message(role, t) == [role |-> role, turn |-> t]

AgentsInit ==
    /\ session = 0
    /\ history = [g \in Conversations |-> <<>>]
    /\ turn = [t \in Turns |-> [pc |-> "idle", g |-> 0]]
    /\ widest = [g \in Conversations |-> 0]
    /\ assessment = [fraud |-> "asked", anomaly |-> "asked", pc |-> "agents",
                     verdict |-> NoVerdict, approvals |-> {}]

(* Mutant: the trimming begins at twice the limit.                          *)
TrimMutant(h) == IF Len(h) > 2 * HistoryLimit
                 THEN <<h[1]>> \o SubSeq(h, 4, Len(h)) ELSE h

(* The oldest two after the system prompt go.                              *)
Trim(h) == IF Len(h) > HistoryLimit THEN <<h[1]>> \o SubSeq(h, 4, Len(h)) ELSE h

Asked(g) == {t \in Turns : turn[t].pc = "asked" /\ turn[t].g = g}

(* Up to the request nothing is awaited: the history is created, if the    *)
(* session has none, the question appended, the oldest two dropped.        *)
Investigate(t) ==
    /\ turn[t].pc = "idle"
    /\ \A s \in Turns : s < t => turn[s].pc # "idle"
    /\ \E g \in Conversations :
         /\ IF session = 0
            THEN history[g] = <<>> /\ \A f \in Conversations : f < g => history[f] # <<>>
            ELSE g = session
         /\ LET h == IF session = 0 THEN <<Message("system", t)>> ELSE history[g] IN
            history' = [history EXCEPT ![g] = Trim(Append(h, Message("user", t)))]
         /\ session' = g
         /\ turn' = [turn EXCEPT ![t] = [pc |-> "asked", g |-> g]]
         /\ widest' = [widest EXCEPT ![g] =
                         IF @ > Cardinality(Asked(g)) THEN @
                         ELSE Cardinality(Asked(g)) + 1]
    /\ UNCHANGED assessment

(* The answer goes to the array the call holds, the session's or not.  No  *)
(* answer leaves the question in it.                                       *)
InvestigationAnswered(t) ==
    /\ turn[t].pc = "asked"
    /\ \/ history' = [history EXCEPT ![turn[t].g] =
                        Append(@, Message("assistant", t))]
       \/ UNCHANGED history
    /\ turn' = [turn EXCEPT ![t].pc = "done"]
    /\ UNCHANGED <<session, widest, assessment>>

ClearSession ==
    /\ session # 0
    /\ session' = 0
    /\ UNCHANGED <<history, turn, widest, assessment>>

-----------------------------------------------------------------------------
(* runMultiAgentRiskAssessment.  approvals (history) are the agents that   *)
(* said "approve" in a text of their own.                                  *)

(* scoreFraudRisk: without a usable answer it says "review"; so it does if *)
(* the answer names no recommendation.  The retries never happen: _request *)
(* gives null and throws nothing.                                          *)
ScoreFraudRisk ==
    /\ assessment.fraud = "asked"
    /\ \/ assessment' = [assessment EXCEPT !.fraud = "unavailable", !.verdict = "review"]
       \/ \E v \in Verdicts : assessment' =
            [assessment EXCEPT !.fraud = "answered", !.verdict = v,
               !.approvals = IF v = "approve" THEN @ \cup {"fraud"} ELSE @]
    /\ UNCHANGED <<session, history, turn, widest>>

(* detectAnomaly: without a history there is nothing to ask.               *)
DetectAnomaly ==
    /\ assessment.anomaly = "asked"
    /\ \E how \in {"unavailable", "answered"} :
         assessment' = [assessment EXCEPT !.anomaly = how]
    /\ UNCHANGED <<session, history, turn, widest>>

(* The supervisor is asked unless neither agent answered; its verdict, if  *)
(* it gives one, replaces the fraud agent's.                               *)
Supervise ==
    /\ assessment.pc = "agents"
    /\ assessment.fraud # "asked" /\ assessment.anomaly # "asked"
    /\ \/ assessment' = [assessment EXCEPT !.pc = "done"]
       \/ /\ "answered" \in {assessment.fraud, assessment.anomaly}
          /\ \E v \in Verdicts : assessment' =
               [assessment EXCEPT !.pc = "done", !.verdict = v,
                  !.approvals = IF v = "approve" THEN @ \cup {"supervisor"} ELSE @]
    /\ UNCHANGED <<session, history, turn, widest>>

ConversationNext ==
    \/ \E t \in Turns : Investigate(t) \/ InvestigationAnswered(t)
    \/ ClearSession

AssessmentNext == ScoreFraudRisk \/ DetectAnomaly \/ Supervise

AgentsNext == ConversationNext \/ AssessmentNext

AgentsSpec == AgentsInit /\ [][AgentsNext]_agentVars

-----------------------------------------------------------------------------
(* Properties.                                                             *)

(* A history stays short, whatever turns overlap, fail or outlive their    *)
(* session: it exceeds the limit by no more than the turns it had at once, *)
(* whose answers are appended after the trimming.  This is the bound of the*)
(* code, HistoryLimit + 1 or 23 messages for turns that never overlap; the *)
(* comment at groq.service.js:37, "Capped at 20 messages per session", does*)
(* not hold, as eleven turns in a row show: the model is sent 22 messages, *)
(* and 23 are kept.                                                        *)
(* And what the model is shown makes sense: the prompt of the system comes *)
(* first, and if turns never overlapped an answer follows its question,    *)
(* unless the trimming took the question alone.                            *)
ConversationSound ==
    \A g \in Conversations : history[g] # <<>> =>
        /\ Len(history[g]) <= HistoryLimit + widest[g]
        /\ history[g][1].role = "system"
        /\ widest[g] <= 1 =>
             \A i \in 3 .. Len(history[g]) : history[g][i].role = "assistant" =>
                 history[g][i - 1] = Message("user", history[g][i].turn)

(* Nobody's silence approves: the verdict is "approve" only if the agent   *)
(* whose verdict it is said so.                                            *)
NoSilentApproval ==
    assessment.verdict = "approve" => assessment.approvals # {}

AgentsSound == ConversationSound /\ NoSilentApproval
=============================================================================
