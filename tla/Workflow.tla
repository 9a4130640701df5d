------------------------------ MODULE Workflow ------------------------------
(***************************************************************************)
(* One workflow and its executions: workflow.service.js triggers, retries, *)
(* edits and deletes; the workflow worker takes the jobs from              *)
(* workflow_queue and runs executeWorkflow, a chain of store calls around  *)
(* each node.  Up to WorkflowPrefetch jobs run at once in the worker, which*)
(* may crash.                                                              *)
(*                                                                         *)
(* What a node computes is left out: it succeeds or throws, and a condition*)
(* takes either branch.  Of send_message, the writes to the channel stay.  *)
(***************************************************************************)
EXTENDS Integers, Sequences, FiniteSets

CONSTANTS
    Executions,         \* the WorkflowExecution documents
    Jobs,               \* the messages in workflow_queue, numbered
    WorkflowRequests,   \* the trigger and retry requests, numbered
    Graphs,             \* the node lists a workflow may have: see Node
    WorkflowPrefetch,   \* WORKFLOW_CONCURRENCY
    MaxRetries,         \* WorkflowExecution.maxRetries
    MaxMishaps,         \* in all: updates and deletions of the workflow,
                        \* crashes, failing or endless calls, expired jobs
    NoNode              \* nextId null, or a branch that is not set

Node == [id : STRING, kind : {"task", "send", "condition"},
         next : STRING \cup {NoNode},
         yes : STRING \cup {NoNode}, no : STRING \cup {NoNode}]

ASSUME WorkflowAssumption ==
    /\ \A g \in Graphs : g \in Seq(Node)
    /\ {WorkflowPrefetch, MaxRetries, MaxMishaps} \subseteq Nat
    /\ Jobs \subseteq Nat /\ WorkflowRequests \subseteq Nat
    /\ IsFiniteSet(Executions) /\ IsFiniteSet(Jobs)
    /\ IsFiniteSet(WorkflowRequests)

VARIABLES
    workflow,       \* the Workflow document
    execution,      \* execution[e]: the WorkflowExecution document
    posted,         \* posted[e]: the messages e's send nodes created, and ...
    counted,        \* ... those its channel's messageCount knows of
    job,            \* job[j]: the message and, in the worker, its handler
    ask,            \* ask[q]: a request between two awaits
    workflowFaults, \* what the environment has done so far
    plan,           \* history: the nodes published last for e
    raced,          \* history: raced[e], was e reset on an outdated check?
    redone,         \* history: did a crash bring back a job of e whose run was
                    \* over, or which has other nodes than its last run?
    overlapped,     \* history: were two jobs of e in play at once?
    stranded        \* history: did e lose the call that would have ended it?

workflowHistory == <<plan, raced, redone, overlapped, stranded>>
workflowVars == <<workflow, execution, posted, counted, job, ask,
                  workflowFaults, workflowHistory>>

NoExecution == [status |-> "none", retries |-> 0, results |-> <<>>]
NoJob == [at |-> "unused", e |-> NoNode, graph |-> <<>>, pc |-> "start",
          node |-> NoNode, ran |-> <<>>]
NoAsk == [pc |-> "idle", e |-> NoNode, graph |-> <<>>, seen |-> NoExecution]

WorkflowInit ==
    /\ workflow = [exists |-> FALSE, enabled |-> FALSE, nodes |-> <<>>,
                   runs |-> 0, last |-> "uncreated"]
    /\ execution = [e \in Executions |-> NoExecution]
    /\ posted = [e \in Executions |-> 0]
    /\ counted = [e \in Executions |-> 0]
    /\ job = [j \in Jobs |-> NoJob]
    /\ ask = [q \in WorkflowRequests |-> NoAsk]
    /\ workflowFaults = [k \in {"edits", "crashes", "calls"} |-> 0]
    /\ plan = [e \in Executions |-> <<>>]
    /\ raced = [e \in Executions |-> FALSE]
    /\ redone = [e \in Executions |-> FALSE]
    /\ overlapped = [e \in Executions |-> FALSE]
    /\ stranded = [e \in Executions |-> FALSE]

Happens(kind) ==
    /\ workflowFaults.edits + workflowFaults.crashes + workflowFaults.calls
         < MaxMishaps
    /\ workflowFaults' = [workflowFaults EXCEPT ![kind] = @ + 1]

CallFault == Happens("calls")

-----------------------------------------------------------------------------
(* The graph: nodes.find, and what executeWorkflow takes for the next node.*)

Known(g, id) == \E i \in DOMAIN g : g[i].id = id

NodeOf(g, id) ==
    g[CHOOSE i \in DOMAIN g :
        g[i].id = id /\ \A k \in DOMAIN g : g[k].id = id => i <= k]

FirstNode(g) == IF g = <<>> THEN NoNode ELSE g[1].id

Successors(node) ==
    IF node.kind = "condition" THEN {node.yes, node.no} ELSE {node.next}

-----------------------------------------------------------------------------
(* Which jobs are in play: waiting, being published, or run by a handler   *)
(* that has not written the end of the run yet.                            *)

Over == {"stats", "failstats", "ack", "nack"}

Playing(j, e) ==
    /\ job[j].e = e
    /\ job[j].at = "queue" \/ (job[j].at = "worker" /\ job[j].pc \notin Over)

InPlay(e) ==
    Cardinality({j \in Jobs : Playing(j, e)})
      + Cardinality({q \in WorkflowRequests :
                       ask[q].pc = "publish" /\ ask[q].e = e})

Watch ==
    overlapped' = [e \in Executions |-> overlapped[e] \/ InPlay(e)' > 1]

-----------------------------------------------------------------------------
(* workflow.service.js                                                     *)

Await(q, pc, e, g, x) ==
    ask' = [ask EXCEPT ![q] = [pc |-> pc, e |-> e, graph |-> g, seen |-> x]]

(* The requests come in the order of their numbers, which tell nothing.    *)
Arrives(q) ==
    /\ ask[q].pc = "idle"
    /\ \A p \in WorkflowRequests : p < q => ask[p].pc # "idle"

Unused == {e \in Executions : execution[e].status = "none"}

CreateWorkflow ==
    /\ workflow.last = "uncreated"
    /\ workflow' \in [exists : {TRUE}, enabled : BOOLEAN, nodes : Graphs,
                      runs : {0}, last : {"none"}]
    /\ UNCHANGED <<execution, posted, counted, job, ask, workflowFaults, plan,
                   raced, redone, stranded>>

(* getWorkflow: the nodes published later are the ones read here.          *)
TriggerRead(q) ==
    /\ Arrives(q)
    /\ Cardinality({p \in WorkflowRequests : ask[p].pc = "create"})
         < Cardinality(Unused)
    /\ workflow.exists
    /\ workflow.enabled
    /\ Await(q, "create", NoNode, workflow.nodes, NoExecution)
    /\ UNCHANGED <<workflow, execution, posted, counted, job, workflowFaults,
                   plan, raced, redone, stranded>>

TriggerCreate(q) ==
    /\ ask[q].pc = "create"
    /\ \E e \in Unused :
         /\ execution' = [execution EXCEPT ![e].status = "queued"]
         /\ plan' = [plan EXCEPT ![e] = ask[q].graph]
         /\ Await(q, "publish", e, ask[q].graph, NoExecution)
    /\ UNCHANGED <<workflow, posted, counted, job, workflowFaults, raced,
                   redone, stranded>>

(* Mutant: an execution that is still under way may be retried as well.    *)
RetryReadMutant(q) ==
    /\ Arrives(q)
    /\ \E e \in Executions :
         /\ execution[e].status \in {"running", "failed"}
         /\ execution[e].retries < MaxRetries
         /\ Await(q, "find", e, <<>>, execution[e])
    /\ UNCHANGED <<workflow, execution, posted, counted, job, workflowFaults,
                   plan, raced, redone, stranded>>

(* retryExecution: the check, on a record read here ...                    *)
RetryRead(q) ==
    /\ Arrives(q)
    /\ \E e \in Executions :
         /\ execution[e].status = "failed"
         /\ execution[e].retries < MaxRetries
         /\ Await(q, "find", e, <<>>, execution[e])
    /\ UNCHANGED <<workflow, execution, posted, counted, job, workflowFaults,
                   plan, raced, redone, stranded>>

(* ... the workflow, enabled or not, with the nodes it has by now ...      *)
RetryFind(q) ==
    /\ ask[q].pc = "find"
    /\ IF workflow.exists
       THEN Await(q, "reset", ask[q].e, workflow.nodes, ask[q].seen)
       ELSE Await(q, "done", NoNode, <<>>, NoExecution)
    /\ UNCHANGED <<workflow, execution, posted, counted, job, workflowFaults,
                   plan, raced, redone, stranded>>

(* ... and the update, which checks nothing and keeps nodeResults.         *)
RetryReset(q) ==
    /\ ask[q].pc = "reset"
    /\ LET e == ask[q].e IN
         /\ execution' = [execution EXCEPT ![e].status = "queued",
                                           ![e].retries = @ + 1]
         /\ plan' = [plan EXCEPT ![e] = ask[q].graph]
         /\ raced' = [raced EXCEPT ![e] =
              @ \/ execution[e].status # ask[q].seen.status
                \/ execution[e].retries # ask[q].seen.retries]
         /\ Await(q, "publish", e, ask[q].graph, NoExecution)
    /\ UNCHANGED <<workflow, posted, counted, job, workflowFaults, redone,
                   stranded>>

(* publishWorkflowJob.  On a dead channel sendToQueue throws, and the      *)
(* execution stays queued; if it only returns false, nobody looks.         *)
PublishWorkflowJob(q) ==
    /\ ask[q].pc = "publish"
    /\ \/ /\ \E j \in Jobs :
               /\ job[j].at = "unused"
               /\ \A k \in Jobs : k < j => job[k].at # "unused"
               /\ job' = [job EXCEPT ![j] = [NoJob EXCEPT
                    !.at = "queue", !.e = ask[q].e, !.graph = ask[q].graph]]
          /\ UNCHANGED workflowFaults
       \/ CallFault /\ UNCHANGED job
    /\ Await(q, "done", NoNode, <<>>, NoExecution)
    /\ UNCHANGED <<workflow, execution, posted, counted, plan, raced, redone,
                   stranded>>

(* The nodes, the switch, or both.                                         *)
UpdateWorkflow ==
    /\ workflow.exists
    /\ Happens("edits")
    /\ \E g \in Graphs, b \in BOOLEAN :
         workflow' = [workflow EXCEPT !.nodes = g, !.enabled = b]
    /\ UNCHANGED <<execution, posted, counted, job, ask, plan, raced, redone,
                   stranded>>

SetWorkflowEnabled ==
    /\ workflow.exists
    /\ Happens("edits")
    /\ workflow' = [workflow EXCEPT !.enabled = ~@]
    /\ UNCHANGED <<execution, posted, counted, job, ask, plan, raced, redone,
                   stranded>>

(* The executions and jobs of a deleted workflow stay.                     *)
DeleteWorkflow ==
    /\ workflow.exists
    /\ Happens("edits")
    /\ workflow' = [workflow EXCEPT !.exists = FALSE]
    /\ UNCHANGED <<execution, posted, counted, job, ask, plan, raced, redone,
                   stranded>>

-----------------------------------------------------------------------------
(* The broker and the worker: workflow.worker.js                           *)

AtWorker(j, pc) == job[j].at = "worker" /\ job[j].pc = pc

Goto(j, pc) == job' = [job EXCEPT ![j].pc = pc]

Strand(e) == stranded' = [stranded EXCEPT ![e] = TRUE]

Deliver(j) ==
    /\ job[j].at = "queue"
    /\ Cardinality({k \in Jobs : job[k].at = "worker"}) < WorkflowPrefetch
    /\ job' = [job EXCEPT ![j].at = "worker"]
    /\ UNCHANGED <<workflow, execution, posted, counted, ask, workflowFaults,
                   plan, raced, redone, stranded>>

(* The first update stands before the try block: its failure goes straight *)
(* to the consumer.                                                        *)
MarkRunning(j) ==
    /\ AtWorker(j, "start")
    /\ \/ /\ execution' = [execution EXCEPT ![job[j].e].status = "running"]
          /\ job' = [job EXCEPT ![j].pc = "loop",
                                ![j].node = FirstNode(job[j].graph)]
          /\ UNCHANGED <<workflowFaults, stranded>>
       \/ CallFault /\ Goto(j, "nack") /\ Strand(job[j].e) /\ UNCHANGED execution
    /\ UNCHANGED <<workflow, posted, counted, ask, plan, raced, redone>>

PushResult(j) ==
    /\ AtWorker(j, "loop")
    /\ Known(job[j].graph, job[j].node)
    /\ \/ /\ execution' = [execution EXCEPT ![job[j].e].results =
                             Append(@, [node |-> job[j].node, st |-> "running"])]
          /\ Goto(j, "run")
          /\ UNCHANGED workflowFaults
       \/ CallFault /\ Goto(j, "catch") /\ UNCHANGED execution
    /\ UNCHANGED <<workflow, posted, counted, ask, plan, raced, redone, stranded>>

Ran(j, st) ==
    job' = [job EXCEPT ![j].pc = "record",
                       ![j].ran = Append(@, [node |-> job[j].node, st |-> st])]

RunNode(j) ==
    /\ AtWorker(j, "run")
    /\ NodeOf(job[j].graph, job[j].node).kind # "send"
    /\ \E st \in {"success", "failed"} : Ran(j, st)
    /\ UNCHANGED <<workflow, execution, posted, counted, ask, workflowFaults,
                   plan, raced, redone, stranded>>

(* http_request reads the body after clearTimeout: an answer that never    *)
(* ends holds the job, and its place among the prefetched ones.            *)
HangNode(j) ==
    /\ AtWorker(j, "run")
    /\ NodeOf(job[j].graph, job[j].node).kind = "task"
    /\ CallFault
    /\ Goto(j, "hung")
    /\ Strand(job[j].e)
    /\ UNCHANGED <<workflow, execution, posted, counted, ask, plan, raced, redone>>

(* send_message: Message.create, or no channel, no content, no sender ...  *)
PostMessage(j) ==
    /\ AtWorker(j, "run")
    /\ NodeOf(job[j].graph, job[j].node).kind = "send"
    /\ \/ /\ posted' = [posted EXCEPT ![job[j].e] = @ + 1]
          /\ Goto(j, "count")
       \/ Ran(j, "failed") /\ UNCHANGED posted
    /\ UNCHANGED <<workflow, execution, counted, ask, workflowFaults, plan,
                   raced, redone, stranded>>

(* ... and the channel's count; populate and redis.publish come after.     *)
CountMessage(j) ==
    /\ AtWorker(j, "count")
    /\ \/ /\ counted' = [counted EXCEPT ![job[j].e] = @ + 1]
          /\ Goto(j, "announce")
          /\ UNCHANGED workflowFaults
       \/ CallFault /\ Ran(j, "failed") /\ UNCHANGED counted
    /\ UNCHANGED <<workflow, execution, posted, ask, plan, raced, redone, stranded>>

AnnounceMessage(j) ==
    /\ AtWorker(j, "announce")
    /\ \/ Ran(j, "success") /\ UNCHANGED workflowFaults
       \/ CallFault /\ Ran(j, "failed")
    /\ UNCHANGED <<workflow, execution, posted, counted, ask, plan, raced,
                   redone, stranded>>

(* MongoDB's $set of the element k of an array, padded if it is shorter.   *)
SetAt(s, k, x) ==
    [i \in 1 .. IF k > Len(s) THEN k ELSE Len(s) |->
        IF i = k THEN x
        ELSE IF i \in DOMAIN s THEN s[i] ELSE [node |-> NoNode, st |-> "null"]]

(* The index is the handler's own: in a record with the results of an      *)
(* earlier run it is not the one PushResult appended.                      *)
RecordNode(j) ==
    /\ AtWorker(j, "record")
    /\ LET n == Len(job[j].ran)
           result == job[j].ran[n] IN
       \/ /\ execution' = [execution EXCEPT ![job[j].e].results =
                             SetAt(@, n, result)]
          /\ \/ result.st = "failed" /\ Goto(j, "catch")
             \/ /\ result.st = "success"
                /\ \E next \in Successors(NodeOf(job[j].graph, job[j].node)) :
                     job' = [job EXCEPT ![j].pc = "loop", ![j].node = next]
          /\ UNCHANGED workflowFaults
       \/ CallFault /\ Goto(j, "catch") /\ UNCHANGED execution
    /\ UNCHANGED <<workflow, posted, counted, ask, plan, raced, redone, stranded>>

(* Mutant: the final update leaves nodeResults to RecordNode.              *)
MarkSuccessMutant(j) ==
    /\ AtWorker(j, "loop")
    /\ ~Known(job[j].graph, job[j].node)
    /\ \/ /\ execution' = [execution EXCEPT ![job[j].e].status = "success"]
          /\ Goto(j, "stats")
          /\ UNCHANGED workflowFaults
       \/ CallFault /\ Goto(j, "catch") /\ UNCHANGED execution
    /\ UNCHANGED <<workflow, posted, counted, ask, plan, raced, redone, stranded>>

(* No node of that id, nextId null or a branch to nowhere: all are the end.*)
MarkSuccess(j) ==
    /\ AtWorker(j, "loop")
    /\ ~Known(job[j].graph, job[j].node)
    /\ \/ /\ execution' = [execution EXCEPT ![job[j].e].status = "success",
                                            ![job[j].e].results = job[j].ran]
          /\ Goto(j, "stats")
          /\ UNCHANGED workflowFaults
       \/ CallFault /\ Goto(j, "catch") /\ UNCHANGED execution
    /\ UNCHANGED <<workflow, posted, counted, ask, plan, raced, redone, stranded>>

(* Inside the try block still: if this fails, so has the execution.        *)
CountExecution(j) ==
    /\ AtWorker(j, "stats")
    /\ \/ /\ workflow' = IF workflow.exists
                         THEN [workflow EXCEPT !.runs = @ + 1, !.last = "success"]
                         ELSE workflow
          /\ Goto(j, "ack")
          /\ UNCHANGED workflowFaults
       \/ CallFault /\ Goto(j, "catch") /\ UNCHANGED workflow
    /\ UNCHANGED <<execution, posted, counted, ask, plan, raced, redone, stranded>>

(* Mutant: the error is only passed on.                                    *)
MarkFailedMutant(j) ==
    /\ AtWorker(j, "catch")
    /\ Goto(j, "failstats")
    /\ UNCHANGED <<workflow, execution, posted, counted, ask, workflowFaults,
                   plan, raced, redone, stranded>>

(* The catch block.  Nothing catches what fails in it: the record stays.   *)
MarkFailed(j) ==
    /\ AtWorker(j, "catch")
    /\ \/ /\ execution' = [execution EXCEPT ![job[j].e].status = "failed",
                                            ![job[j].e].results = job[j].ran]
          /\ Goto(j, "failstats")
          /\ UNCHANGED <<workflowFaults, stranded>>
       \/ /\ CallFault
          /\ Goto(j, "nack")
          /\ Strand(job[j].e)
          /\ UNCHANGED execution
    /\ UNCHANGED <<workflow, posted, counted, ask, plan, raced, redone>>

MarkWorkflowFailed(j) ==
    /\ AtWorker(j, "failstats")
    /\ \/ /\ workflow' = IF workflow.exists
                         THEN [workflow EXCEPT !.last = "failed"] ELSE workflow
          /\ UNCHANGED workflowFaults
       \/ CallFault /\ UNCHANGED workflow
    /\ Goto(j, "nack")
    /\ UNCHANGED <<execution, posted, counted, ask, plan, raced, redone, stranded>>

(* Both branches on the retry count nack without requeueing: every failed  *)
(* job goes to workflow_dlq, and nothing publishes it again.  A job that   *)
(* left the queue makes room for another one.                              *)
AnswerBroker(j) ==
    /\ AtWorker(j, "ack") \/ AtWorker(j, "nack")
    /\ job' = [job EXCEPT ![j] = NoJob]
    /\ UNCHANGED <<workflow, execution, posted, counted, ask, workflowFaults,
                   plan, raced, redone, stranded>>

(* The jobs without an answer go back to the queue, and start over.        *)
CrashWorker ==
    /\ \E j \in Jobs : job[j].at = "worker"
    /\ Happens("crashes")
    /\ job' = [j \in Jobs |->
         IF job[j].at = "worker"
         THEN [NoJob EXCEPT !.at = "queue", !.e = job[j].e, !.graph = job[j].graph]
         ELSE job[j]]
    /\ redone' = [e \in Executions |->
         \/ redone[e]
         \/ \E j \in Jobs : job[j].e = e /\ job[j].at = "worker"
                              /\ (job[j].pc \in Over \/ job[j].graph # plan[e])]
    /\ UNCHANGED <<workflow, execution, posted, counted, ask, plan, raced, stranded>>

(* x-message-ttl: a job that waited an hour.                               *)
ExpireJob(j) ==
    /\ job[j].at = "queue"
    /\ CallFault
    /\ job' = [job EXCEPT ![j] = NoJob]
    /\ Strand(job[j].e)
    /\ UNCHANGED <<workflow, execution, posted, counted, ask, plan, raced, redone>>

HandleJob(j) ==
    \/ MarkRunning(j) \/ PushResult(j) \/ RunNode(j) \/ HangNode(j)
    \/ PostMessage(j) \/ CountMessage(j) \/ AnnounceMessage(j) \/ RecordNode(j)
    \/ MarkSuccess(j) \/ CountExecution(j) \/ MarkFailed(j)
    \/ MarkWorkflowFailed(j) \/ AnswerBroker(j)

HandleRequest(q) ==
    \/ TriggerRead(q) \/ TriggerCreate(q) \/ RetryRead(q) \/ RetryFind(q)
    \/ RetryReset(q) \/ PublishWorkflowJob(q)

WorkflowNext ==
    /\ \/ \E q \in WorkflowRequests : HandleRequest(q)
       \/ \E j \in Jobs : Deliver(j) \/ HandleJob(j) \/ ExpireJob(j)
       \/ CreateWorkflow
       \/ UpdateWorkflow
       \/ SetWorkflowEnabled
       \/ DeleteWorkflow
       \/ CrashWorker
    /\ Watch

(* The worker consumes as long as it runs, and is restarted when it dies;  *)
(* a handler goes on by itself, unless it hangs.                           *)
WorkflowFairness ==
    /\ \A j \in Jobs : WF_workflowVars(HandleJob(j) /\ Watch)
    /\ \A j \in Jobs : WF_workflowVars(Deliver(j) /\ Watch)

WorkflowSpec == WorkflowInit /\ [][WorkflowNext]_workflowVars /\ WorkflowFairness

-----------------------------------------------------------------------------
(* Properties.                                                             *)

(* Two jobs of one execution are in play at once only after a retry acted  *)
(* on an outdated check, or a crash brought back a job whose run was over: *)
(* otherwise the check on the status in retryExecution is enough.  Nor is  *)
(* an execution retried more often than maxRetries but for such a check.   *)
OneRunEach ==
    \A e \in Executions :
        /\ overlapped[e] => raced[e] \/ redone[e]
        /\ execution[e].retries > MaxRetries => raced[e]

(* The nodes of results are a path of g that nothing cuts short.           *)
FullRun(results, g) ==
    /\ \A i \in DOMAIN results :
         /\ results[i].st = "success"
         /\ results[i].node \in
              IF i = 1 THEN {FirstNode(g)}
              ELSE Successors(NodeOf(g, results[i - 1].node))
    /\ results = <<>> => ~Known(g, FirstNode(g))
    /\ results # <<>> =>
         \E id \in Successors(NodeOf(g, results[Len(results)].node)) : ~Known(g, id)

Sends(results, g) ==
    Cardinality({i \in DOMAIN results : NodeOf(g, results[i].node).kind = "send"})

Undisturbed == workflowFaults.crashes = 0 /\ workflowFaults.calls = 0

(* A finished record tells what its last run did, however many runs before *)
(* left results in it: a success is one whole path through the nodes       *)
(* published last, unless a crash brought back the job of an earlier run,  *)
(* which has the nodes of its own day; a failure ends in a failed node     *)
(* unless a store call failed.  And if nothing was disturbed, a first run  *)
(* posted each of its messages once, and executionCount counts the         *)
(* successes.                                                              *)
ExecutionTruth ==
    \A e \in Executions : ~overlapped[e] =>
        /\ (execution[e].status = "success" /\ ~redone[e]) =>
             FullRun(execution[e].results, plan[e])
        /\ (execution[e].status = "failed" /\ Undisturbed) =>
             LET ran == execution[e].results IN
             ran # <<>> /\ ran[Len(ran)].st = "failed"
        /\ (/\ Undisturbed
            /\ execution[e].status = "success"
            /\ execution[e].retries = 0) =>
             /\ posted[e] = Sends(execution[e].results, plan[e])
             /\ counted[e] = posted[e]
        /\ ( /\ Undisturbed
             /\ workflow.exists
             /\ \A d \in Executions : ~overlapped[d] /\ ~raced[d]
             /\ \A j \in Jobs : job[j].at # "worker") =>
             workflow.runs =
               Cardinality({d \in Executions : execution[d].status = "success"})

Clogged == Cardinality({j \in Jobs : AtWorker(j, "hung")}) >= WorkflowPrefetch

(* An execution that runs ends, in success or failure, whatever its nodes  *)
(* do and however often the worker dies, unless the very call failed that  *)
(* would have said so, a node hung, or its job expired in the queue.       *)
(* (Of the graphs: nothing stops a cycle of nodes, which runs for ever.)   *)
RunEnds ==
    \A e \in Executions :
        execution[e].status = "running" ~>
            execution[e].status \in {"success", "failed"} \/ stranded[e] \/ Clogged
=============================================================================
