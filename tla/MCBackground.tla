---------------------------- MODULE MCBackground ----------------------------
(***************************************************************************)
(* An instance of what goes on behind the requests: the workflow worker,   *)
(* the deliveries to webhooks, and the life of a process with its RabbitMQ *)
(* connection.  They share no state, so a behaviour plays one of them.     *)
(***************************************************************************)
EXTENDS Workflow, Webhook, Lifecycle

VARIABLE scene      \* the component this behaviour is about

backgroundVars == <<scene, workflowVars, webhookVars, lifecycleVars>>

(* A condition with a branch to nowhere before a message; a single task.   *)
MCGraphs ==
    {<<[id |-> "c", kind |-> "condition", next |-> NoNode, yes |-> "s", no |-> "gone"],
       [id |-> "s", kind |-> "send", next |-> NoNode, yes |-> NoNode, no |-> NoNode]>>,
     <<[id |-> "t", kind |-> "task", next |-> NoNode, yes |-> NoNode, no |-> NoNode]>>}

BackgroundInit ==
    /\ scene \in {"workflow", "webhook", "lifecycle"}
    /\ WorkflowInit /\ WebhookInit /\ LifecycleInit
    /\ scene # "lifecycle" => proc.kind = "gateway" /\ broker.up

InWorkflow(A) ==
    scene = "workflow" /\ A /\ UNCHANGED <<scene, webhookVars, lifecycleVars>>
InWebhook(A) ==
    scene = "webhook" /\ A /\ UNCHANGED <<scene, workflowVars, lifecycleVars>>
InLifecycle(A) ==
    scene = "lifecycle" /\ A /\ UNCHANGED <<scene, workflowVars, webhookVars>>

BackgroundNext ==
    InWorkflow(WorkflowNext) \/ InWebhook(WebhookNext) \/ InLifecycle(LifecycleNext)

(* The fairness of the three, each in its scene.                           *)
BackgroundFairness ==
    /\ \A j \in Jobs : WF_backgroundVars(InWorkflow(HandleJob(j) /\ Watch))
    /\ \A j \in Jobs : WF_backgroundVars(InWorkflow(Deliver(j) /\ Watch))
    /\ \A d \in Deliveries : WF_backgroundVars(InWebhook(DeliveryStep(d)))
    /\ WF_backgroundVars(InLifecycle(StartStep))
    /\ WF_backgroundVars(InLifecycle(ConnectionStep))
    /\ \A s \in Signals : WF_backgroundVars(InLifecycle(ShutdownStep(s)))

BackgroundSpec ==
    BackgroundInit /\ [][BackgroundNext]_backgroundVars /\ BackgroundFairness
=============================================================================
