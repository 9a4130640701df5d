-------------------------- MODULE BackgroundProofs --------------------------
(***************************************************************************)
(* Proofs about what goes on behind the requests: the executions of a      *)
(* workflow and the deliveries to a webhook.  For any numbers of           *)
(* executions, jobs, requests, deliveries and mishaps, and any graphs.     *)
(***************************************************************************)
EXTENDS Workflow, Webhook, SumProofs

-----------------------------------------------------------------------------
(* Types.                                                                  *)

Ids == STRING \cup {NoNode}

Result == [node : Ids, st : {"running", "success", "failed", "null"}]

ExecutionDoc ==
    [status : {"none", "queued", "running", "success", "failed"},
     retries : Nat, results : Seq(Result)]

JobPc == {"start", "loop", "run", "hung", "count", "announce", "record", "catch"}
           \cup Over

JobRecord ==
    [at : {"unused", "queue", "worker"}, e : Executions \cup {NoNode},
     graph : Seq(Node), pc : JobPc, node : Ids, ran : Seq(Result)]

AskRecord ==
    [pc : {"idle", "create", "find", "reset", "publish", "done"},
     e : Executions \cup {NoNode}, graph : Seq(Node), seen : ExecutionDoc]

Flags == [Executions -> BOOLEAN]

(* A handler past the lookup has a node that is there, one past the node   *)
(* has its result.                                                         *)
JobOK(r) ==
    /\ r \in JobRecord
    /\ r.at # "unused" => r.e \in Executions
    /\ r.pc = "record" => r.ran # <<>>
    /\ r.pc \in {"run", "hung", "count", "announce", "record"} =>
         Known(r.graph, r.node)

JobsType ==
    /\ job \in [Jobs -> JobRecord]
    /\ \A j \in Jobs : JobOK(job[j])

WorkflowTypeOK ==
    /\ workflow \in [exists : BOOLEAN, enabled : BOOLEAN, nodes : Seq(Node),
                     runs : Nat, last : {"uncreated", "none", "success", "failed"}]
    /\ execution \in [Executions -> ExecutionDoc]
    /\ posted \in [Executions -> Nat]
    /\ counted \in [Executions -> Nat]
    /\ JobsType
    /\ ask \in [WorkflowRequests -> AskRecord]
    /\ \A q \in WorkflowRequests :
         ask[q].pc \in {"find", "reset", "publish"} => ask[q].e \in Executions
    /\ workflowFaults \in [{"edits", "crashes", "calls"} -> Nat]
    /\ plan \in [Executions -> Seq(Node)]
    /\ raced \in Flags /\ redone \in Flags
    /\ overlapped \in Flags /\ stranded \in Flags

(* nodes.find: the first of the nodes with an id is one of them.           *)
LEMMA NodeFound ==
    ASSUME NEW g \in Seq(Node), NEW id, Known(g, id)
    PROVE  NodeOf(g, id) \in Node /\ NodeOf(g, id).id = id
<1> DEFINE D == {i \in DOMAIN g : g[i].id = id}
<1>1. D \subseteq 1 .. Len(g) /\ D # {} /\ Len(g) \in Nat
  BY DEF Known
<1>2. PICK i \in D : \A k \in D : i <= k
  BY <1>1, LeastIndex
<1>3. \E k \in DOMAIN g :
        g[k].id = id /\ \A m \in DOMAIN g : g[m].id = id => k <= m
  BY <1>2
<1>4. PICK k \in DOMAIN g : g[k].id = id /\ NodeOf(g, id) = g[k]
  BY <1>3 DEF NodeOf
<1>5. QED
  BY <1>4

LEMMA NodeIds ==
    ASSUME NEW g \in Seq(Node)
    PROVE  /\ FirstNode(g) \in Ids
           /\ \A id : Known(g, id) => /\ id \in Ids
                                      /\ Successors(NodeOf(g, id)) \subseteq Ids
<1>1. FirstNode(g) \in Ids
  <2>1. CASE g = <<>>
    BY <2>1 DEF FirstNode, Ids
  <2>2. CASE g # <<>>
    <3>1. g[1] \in Node
      BY <2>2
    <3>2. QED
      BY <2>2, <3>1 DEF FirstNode, Ids, Node
  <2>3. QED
    BY <2>1, <2>2
<1>2. ASSUME NEW id, Known(g, id)
      PROVE  id \in Ids /\ Successors(NodeOf(g, id)) \subseteq Ids
  <2>1. NodeOf(g, id) \in Node /\ NodeOf(g, id).id = id
    BY <1>2, NodeFound
  <2>2. QED
    BY <2>1 DEF Successors, Ids, Node
<1>3. QED
  BY <1>1, <1>2

LEMMA WorkflowTypeInit == WorkflowInit => WorkflowTypeOK
<1> SUFFICES ASSUME WorkflowInit
             PROVE  WorkflowTypeOK
  OBVIOUS
<1> USE DEF WorkflowInit
<1>1. NoExecution \in ExecutionDoc
  BY DEF NoExecution, ExecutionDoc
<1>2. NoJob \in JobRecord /\ NoJob.at = "unused"
  BY DEF NoJob, JobRecord, JobPc, Ids
<1>3. NoAsk \in AskRecord /\ NoAsk.pc = "idle"
  BY <1>1 DEF NoAsk, AskRecord
<1>4. workflow \in [exists : BOOLEAN, enabled : BOOLEAN, nodes : Seq(Node),
                    runs : Nat, last : {"uncreated", "none", "success", "failed"}]
  OBVIOUS
<1>5. JobsType
  <2>1. JobOK(NoJob)
    BY <1>2 DEF JobOK, NoJob
  <2>2. QED
    BY <1>2, <2>1 DEF JobsType
<1>6. QED
  BY <1>1, <1>3, <1>4, <1>5 DEF WorkflowTypeOK, Flags

LEMMA WatchType ==
    ASSUME Watch
    PROVE  overlapped' \in Flags
BY DEF Watch, Flags

LEMMA AwaitType ==
    ASSUME WorkflowTypeOK, NEW q \in WorkflowRequests,
           NEW pc \in {"create", "find", "reset", "publish", "done"},
           NEW e \in Executions \cup {NoNode}, NEW g \in Seq(Node),
           NEW x \in ExecutionDoc, Await(q, pc, e, g, x),
           pc \in {"find", "reset", "publish"} => e \in Executions
    PROVE  /\ ask' \in [WorkflowRequests -> AskRecord]
           /\ \A p \in WorkflowRequests :
                ask'[p].pc \in {"find", "reset", "publish"} =>
                  ask'[p].e \in Executions
BY DEF Await, WorkflowTypeOK, AskRecord

LEMMA NoTypes ==
    /\ NoExecution \in ExecutionDoc
    /\ NoJob \in JobRecord /\ NoJob.at = "unused"
    /\ <<>> \in Seq(Node)
<1>1. NoExecution \in ExecutionDoc
  BY DEF NoExecution, ExecutionDoc
<1>2. NoJob \in JobRecord /\ NoJob.at = "unused"
  BY DEF NoJob, JobRecord, JobPc, Ids
<1>3. QED
  BY <1>1, <1>2

LEMMA HappensType ==
    ASSUME WorkflowTypeOK, NEW kind \in {"edits", "crashes", "calls"},
           Happens(kind)
    PROVE  workflowFaults' \in [{"edits", "crashes", "calls"} -> Nat]
BY DEF WorkflowTypeOK, Happens

LEMMA JobFields ==
    ASSUME WorkflowTypeOK, NEW j \in Jobs
    PROVE  /\ job[j] \in JobRecord
           /\ job[j].graph \in Seq(Node) /\ job[j].ran \in Seq(Result)
           /\ job[j].node \in Ids
           /\ job[j].at # "unused" => job[j].e \in Executions
BY DEF WorkflowTypeOK, JobsType, JobOK, JobRecord

LEMMA SetJobType ==
    ASSUME WorkflowTypeOK, NEW j \in Jobs, NEW r, JobOK(r),
           job' = [job EXCEPT ![j] = r]
    PROVE  JobsType'
<1>1. r \in JobRecord
  BY DEF JobOK
<1>2. \A i \in Jobs : job'[i] = IF i = j THEN r ELSE job[i]
  BY DEF WorkflowTypeOK, JobsType
<1>3. \A i \in Jobs : JobOK(job'[i])
  BY <1>2 DEF WorkflowTypeOK, JobsType
<1>4. job' \in [Jobs -> JobRecord]
  BY <1>1 DEF WorkflowTypeOK, JobsType
<1>5. QED
  BY <1>3, <1>4 DEF JobsType

LEMMA RequestTypes ==
    ASSUME WorkflowTypeOK, Watch, NEW q \in WorkflowRequests,
           HandleRequest(q)
    PROVE  WorkflowTypeOK'
<1>0. /\ workflow.nodes \in Seq(Node)
      /\ ask[q].graph \in Seq(Node) /\ ask[q].seen \in ExecutionDoc
      /\ \A e \in Executions : execution[e] \in ExecutionDoc
  BY DEF WorkflowTypeOK, AskRecord
<1>1. CASE TriggerRead(q)
  <2>1. Await(q, "create", NoNode, workflow.nodes, NoExecution)
    BY <1>1 DEF TriggerRead
  <2>2. QED
    BY <1>0, <1>1, <2>1, NoTypes, AwaitType, WatchType
    DEF TriggerRead, WorkflowTypeOK, JobsType
<1>2. CASE TriggerCreate(q)
  <2>1. PICK e \in Unused :
          /\ execution' = [execution EXCEPT ![e].status = "queued"]
          /\ plan' = [plan EXCEPT ![e] = ask[q].graph]
          /\ Await(q, "publish", e, ask[q].graph, NoExecution)
    BY <1>2 DEF TriggerCreate
  <2>2. e \in Executions
    BY DEF Unused
  <2>3. /\ execution' \in [Executions -> ExecutionDoc]
        /\ plan' \in [Executions -> Seq(Node)]
    BY <1>0, <2>1, <2>2 DEF WorkflowTypeOK, ExecutionDoc
  <2>4. QED
    BY <1>0, <1>2, <2>1, <2>2, <2>3, NoTypes, AwaitType, WatchType
    DEF TriggerCreate, WorkflowTypeOK, JobsType
<1>3. CASE RetryRead(q)
  <2>1. PICK e \in Executions : Await(q, "find", e, <<>>, execution[e])
    BY <1>3 DEF RetryRead
  <2>2. QED
    BY <1>0, <1>3, <2>1, NoTypes, AwaitType, WatchType
    DEF RetryRead, WorkflowTypeOK, JobsType
<1>4. CASE RetryFind(q)
  <2>1. ask[q].e \in Executions
    BY <1>4 DEF RetryFind, WorkflowTypeOK
  <2>2. \/ Await(q, "reset", ask[q].e, workflow.nodes, ask[q].seen)
        \/ Await(q, "done", NoNode, <<>>, NoExecution)
    BY <1>4 DEF RetryFind
  <2>3. QED
    BY <1>0, <1>4, <2>1, <2>2, NoTypes, AwaitType, WatchType
    DEF RetryFind, WorkflowTypeOK, JobsType
<1>5. CASE RetryReset(q)
  <2> DEFINE e == ask[q].e
  <2>1. e \in Executions
    BY <1>5 DEF RetryReset, WorkflowTypeOK
  <2>2. Await(q, "publish", e, ask[q].graph, NoExecution)
    BY <1>5 DEF RetryReset
  <2>3. execution' \in [Executions -> ExecutionDoc]
    <3> DEFINE x == [execution[e] EXCEPT !.status = "queued", !.retries = @ + 1]
    <3>1. execution' = [execution EXCEPT ![e] = x]
      BY <1>5, <2>1 DEF RetryReset, WorkflowTypeOK
    <3>2. x \in ExecutionDoc
      <4>1. execution[e].retries + 1 \in Nat
        BY <1>0, <2>1 DEF ExecutionDoc
      <4>2. QED
        BY <1>0, <2>1, <4>1 DEF ExecutionDoc
    <3> HIDE DEF x
    <3>3. QED
      BY <3>1, <3>2 DEF WorkflowTypeOK
  <2>4. plan' \in [Executions -> Seq(Node)] /\ raced' \in Flags
    <3> DEFINE b == \/ raced[e]
                    \/ execution[e].status # ask[q].seen.status
                    \/ execution[e].retries # ask[q].seen.retries
    <3>1. raced' = [raced EXCEPT ![e] = b] /\ b \in BOOLEAN
      BY <1>5 DEF RetryReset
    <3> HIDE DEF b
    <3>2. QED
      BY <1>0, <1>5, <2>1, <3>1 DEF RetryReset, WorkflowTypeOK, Flags
  <2>5. QED
    BY <1>0, <1>5, <2>1, <2>2, <2>3, <2>4, NoTypes, AwaitType, WatchType
    DEF RetryReset, WorkflowTypeOK, JobsType
<1>6. CASE PublishWorkflowJob(q)
  <2>1. ask[q].e \in Executions
    BY <1>6 DEF PublishWorkflowJob, WorkflowTypeOK
  <2>2. Await(q, "done", NoNode, <<>>, NoExecution)
    BY <1>6 DEF PublishWorkflowJob
  <2>3. JobsType'
    <3> DEFINE r == [NoJob EXCEPT !.at = "queue", !.e = ask[q].e,
                                  !.graph = ask[q].graph]
    <3>1. r \in JobRecord /\ r.e \in Executions /\ r.pc = "start"
      BY <1>0, <2>1, NoTypes DEF JobRecord, NoJob
    <3>2. \/ UNCHANGED job
          \/ \E j \in Jobs : job' = [job EXCEPT ![j] = r]
      BY <1>6 DEF PublishWorkflowJob
    <3> HIDE DEF r
    <3>3. JobOK(r)
      BY <3>1 DEF JobOK
    <3>4. QED
      BY <3>2, <3>3, SetJobType DEF WorkflowTypeOK, JobsType
  <2>4. workflowFaults' \in [{"edits", "crashes", "calls"} -> Nat]
    BY <1>6, HappensType DEF PublishWorkflowJob, CallFault, WorkflowTypeOK
  <2>5. QED
    BY <1>0, <1>6, <2>2, <2>3, <2>4, NoTypes, AwaitType, WatchType
    DEF PublishWorkflowJob, WorkflowTypeOK
<1>7. QED
  BY <1>1, <1>2, <1>3, <1>4, <1>5, <1>6 DEF HandleRequest

LEMMA EditTypes ==
    ASSUME WorkflowTypeOK, Watch,
           \/ CreateWorkflow \/ UpdateWorkflow \/ SetWorkflowEnabled
           \/ DeleteWorkflow
    PROVE  WorkflowTypeOK'
<1>1. workflow' \in [exists : BOOLEAN, enabled : BOOLEAN, nodes : Seq(Node),
                     runs : Nat, last : {"uncreated", "none", "success", "failed"}]
  <2>1. CASE CreateWorkflow
    <3>1. PICK w \in [exists : {TRUE}, enabled : BOOLEAN, nodes : Graphs,
                      runs : {0}, last : {"none"}] : workflow' = w
      BY <2>1 DEF CreateWorkflow
    <3>2. /\ w = [exists |-> w.exists, enabled |-> w.enabled,
                  nodes |-> w.nodes, runs |-> w.runs, last |-> w.last]
          /\ w.exists \in BOOLEAN /\ w.enabled \in BOOLEAN /\ w.runs = 0
          /\ w.last = "none" /\ w.nodes \in Seq(Node)
      BY WorkflowAssumption
    <3>3. QED
      BY <3>1, <3>2
  <2>2. CASE UpdateWorkflow
    <3>1. PICK g \in Graphs, b \in BOOLEAN :
            workflow' = [workflow EXCEPT !.nodes = g, !.enabled = b]
      BY <2>2 DEF UpdateWorkflow
    <3>2. g \in Seq(Node)
      BY WorkflowAssumption
    <3>3. QED
      BY <3>1, <3>2 DEF WorkflowTypeOK
  <2>3. CASE SetWorkflowEnabled \/ DeleteWorkflow
    BY <2>3 DEF SetWorkflowEnabled, DeleteWorkflow, WorkflowTypeOK
  <2>4. QED
    BY <2>1, <2>2, <2>3
<1>2. workflowFaults' \in [{"edits", "crashes", "calls"} -> Nat]
  BY HappensType
  DEF CreateWorkflow, UpdateWorkflow, SetWorkflowEnabled, DeleteWorkflow,
      WorkflowTypeOK
<1>3. QED
  BY <1>1, <1>2, WatchType
  DEF CreateWorkflow, UpdateWorkflow, SetWorkflowEnabled, DeleteWorkflow,
      WorkflowTypeOK, JobsType

LEMMA GotoType ==
    ASSUME WorkflowTypeOK, NEW j \in Jobs, NEW pc \in JobPc, Goto(j, pc),
           pc = "record" => job[j].ran # <<>>,
           pc \in {"run", "hung", "count", "announce", "record"} =>
             Known(job[j].graph, job[j].node)
    PROVE  JobsType'
<1> DEFINE r == [job[j] EXCEPT !.pc = pc]
<1>1. /\ r \in JobRecord /\ r.e = job[j].e /\ r.at = job[j].at /\ r.pc = pc
      /\ r.ran = job[j].ran /\ r.graph = job[j].graph /\ r.node = job[j].node
  BY JobFields DEF JobRecord
<1>2. job' = [job EXCEPT ![j] = r]
  BY DEF Goto
<1>3. job[j].at # "unused" => job[j].e \in Executions
  BY JobFields
<1> HIDE DEF r
<1>4. JobOK(r)
  BY <1>1, <1>3 DEF JobOK
<1>5. QED
  BY <1>2, <1>4, SetJobType

LEMMA Appended ==
    ASSUME NEW S, NEW s \in Seq(S), NEW x \in S
    PROVE  /\ Append(s, x) \in Seq(S) /\ Append(s, x) # <<>>
           /\ Len(s) \in Nat /\ DOMAIN s = 1 .. Len(s)
           /\ Len(Append(s, x)) = Len(s) + 1
           /\ DOMAIN Append(s, x) = 1 .. Len(s) + 1
           /\ Append(s, x)[Len(s) + 1] = x
           /\ \A i \in 1 .. Len(s) : Append(s, x)[i] = s[i]
<1>1. Len(Append(s, x)) = Len(s) + 1 /\ Append(s, x) \in Seq(S)
  OBVIOUS
<1>2. Len(s) \in Nat /\ Len(<<>>) = 0
  OBVIOUS
<1>3. QED
  BY <1>1, <1>2

LEMMA RanType ==
    ASSUME WorkflowTypeOK, NEW j \in Jobs, NEW st \in {"success", "failed"},
           job[j].pc \in {"run", "count", "announce"}, Ran(j, st)
    PROVE  JobsType'
<1> DEFINE x == [node |-> job[j].node, st |-> st]
           r == [job[j] EXCEPT !.pc = "record", !.ran = Append(@, x)]
<1>1. x \in Result
  BY JobFields DEF Result
<1>2. Append(job[j].ran, x) \in Seq(Result) /\ Append(job[j].ran, x) # <<>>
  BY <1>1, JobFields, Appended
<1>3. /\ r \in JobRecord /\ r.e = job[j].e /\ r.at = job[j].at
      /\ r.ran = Append(job[j].ran, x)
      /\ r.graph = job[j].graph /\ r.node = job[j].node
  BY <1>2, JobFields DEF JobRecord, JobPc
<1>4. job' = [job EXCEPT ![j] = r]
  BY DEF Ran
<1>5. JobOK(job[j])
  BY DEF WorkflowTypeOK, JobsType
<1> HIDE DEF r, x
<1>6. JobOK(r)
  BY <1>2, <1>3, <1>5 DEF JobOK
<1>7. QED
  BY <1>4, <1>6, SetJobType

LEMMA StepJobType ==
    ASSUME WorkflowTypeOK, NEW j \in Jobs, NEW id \in Ids,
           job' = [job EXCEPT ![j].pc = "loop", ![j].node = id]
    PROVE  JobsType'
<1> DEFINE r == [job[j] EXCEPT !.pc = "loop", !.node = id]
<1>1. /\ r \in JobRecord /\ r.e = job[j].e /\ r.at = job[j].at
      /\ r.pc = "loop"
  BY JobFields DEF JobRecord, JobPc
<1>2. job' = [job EXCEPT ![j] = r]
  BY DEF WorkflowTypeOK, JobsType
<1>3. job[j].at # "unused" => job[j].e \in Executions
  BY JobFields
<1> HIDE DEF r
<1>4. JobOK(r)
  BY <1>1, <1>3 DEF JobOK
<1>5. QED
  BY <1>2, <1>4, SetJobType

(* The document of e with another status, other results.                   *)
LEMMA DocType ==
    ASSUME WorkflowTypeOK, NEW e \in Executions,
           NEW st \in {"none", "queued", "running", "success", "failed"},
           NEW results \in Seq(Result)
    PROVE  /\ [execution EXCEPT ![e].status = st] \in [Executions -> ExecutionDoc]
           /\ [execution EXCEPT ![e].results = results]
                \in [Executions -> ExecutionDoc]
           /\ [execution EXCEPT ![e].status = st, ![e].results = results]
                \in [Executions -> ExecutionDoc]
<1>1. /\ execution \in [Executions -> ExecutionDoc]
      /\ execution[e] \in ExecutionDoc
  BY DEF WorkflowTypeOK
<1>2. [execution[e] EXCEPT !.status = st] \in ExecutionDoc
  BY <1>1 DEF ExecutionDoc
<1>3. [execution[e] EXCEPT !.results = results] \in ExecutionDoc
  BY <1>1 DEF ExecutionDoc
<1>4. [execution[e] EXCEPT !.status = st, !.results = results] \in ExecutionDoc
  BY <1>1 DEF ExecutionDoc
<1>5. /\ [execution EXCEPT ![e].status = st]
           = [execution EXCEPT ![e] = [execution[e] EXCEPT !.status = st]]
      /\ [execution EXCEPT ![e].results = results]
           = [execution EXCEPT ![e] = [execution[e] EXCEPT !.results = results]]
      /\ [execution EXCEPT ![e].status = st, ![e].results = results]
           = [execution EXCEPT ![e] =
                [execution[e] EXCEPT !.status = st, !.results = results]]
  BY <1>1
<1>6. QED
  BY <1>1, <1>2, <1>3, <1>4, <1>5

LEMMA SetAtType ==
    ASSUME NEW s \in Seq(Result), NEW k \in Nat \ {0}, NEW x \in Result
    PROVE  SetAt(s, k, x) \in Seq(Result)
<1> DEFINE n == IF k > Len(s) THEN k ELSE Len(s)
           Item(i) == IF i = k THEN x
                      ELSE IF i \in DOMAIN s THEN s[i]
                      ELSE [node |-> NoNode, st |-> "null"]
<1>1. n \in Nat
  OBVIOUS
<1>2. [node |-> NoNode, st |-> "null"] \in Result
  BY DEF Result, Ids
<1>3. \A i \in 1 .. n : Item(i) \in Result
  BY <1>2
<1>4. SetAt(s, k, x) = [i \in 1 .. n |-> Item(i)]
  BY DEF SetAt
<1> HIDE DEF n, Item
<1>5. QED
  BY <1>1, <1>3, <1>4

LEMMA CallFaultType ==
    ASSUME WorkflowTypeOK, CallFault
    PROVE  workflowFaults' \in [{"edits", "crashes", "calls"} -> Nat]
BY HappensType DEF CallFault

LEMMA StrandType ==
    ASSUME WorkflowTypeOK, NEW e, Strand(e)
    PROVE  stranded' \in Flags
BY DEF WorkflowTypeOK, Strand, Flags

LEMMA AtWorkerType ==
    ASSUME WorkflowTypeOK, NEW j \in Jobs, NEW pc, AtWorker(j, pc)
    PROVE  job[j].e \in Executions /\ job[j].pc = pc
BY JobFields DEF AtWorker

LEMMA HandleJobTypes ==
    ASSUME WorkflowTypeOK, Watch, NEW j \in Jobs, HandleJob(j)
    PROVE  WorkflowTypeOK'
<1> DEFINE e == job[j].e
<1>0. overlapped' \in Flags
  BY WatchType
<1> USE DEF JobPc, Over
<1>a. WorkflowTypeOK
  OBVIOUS
<1>b. /\ job[j].graph \in Seq(Node) /\ job[j].ran \in Seq(Result)
      /\ job[j].node \in Ids /\ JobOK(job[j])
  BY JobFields DEF WorkflowTypeOK, JobsType
<1>1. CASE MarkRunning(j)
  <2>1. e \in Executions
    BY <1>1, AtWorkerType DEF MarkRunning
  <2>2. JobsType'
    <3>1. CASE job' = [job EXCEPT ![j].pc = "loop",
                                  ![j].node = FirstNode(job[j].graph)]
      BY <1>b, <3>1, NodeIds, StepJobType
    <3>2. CASE Goto(j, "nack")
      BY <3>2, GotoType
    <3>3. QED
      BY <1>1, <3>1, <3>2 DEF MarkRunning
  <2>3. execution' \in [Executions -> ExecutionDoc]
    <3>1. \/ UNCHANGED execution
          \/ execution' = [execution EXCEPT ![e].status = "running"]
      BY <1>1 DEF MarkRunning
    <3>2. [execution EXCEPT ![e].status = "running"]
            \in [Executions -> ExecutionDoc]
      BY <2>1, <1>b, DocType
    <3>3. QED
      BY <3>1, <3>2 DEF WorkflowTypeOK
  <2>4. /\ workflowFaults' \in [{"edits", "crashes", "calls"} -> Nat]
        /\ stranded' \in Flags
    BY <1>1, CallFaultType, StrandType DEF MarkRunning, WorkflowTypeOK
  <2>5. QED
    BY <1>0, <1>1, <2>2, <2>3, <2>4 DEF MarkRunning, WorkflowTypeOK
<1>2. CASE PushResult(j)
  <2>1. e \in Executions /\ Known(job[j].graph, job[j].node)
    BY <1>2, AtWorkerType DEF PushResult
  <2>2. JobsType'
    BY <1>2, <2>1, GotoType DEF PushResult
  <2>3. execution' \in [Executions -> ExecutionDoc]
    <3> DEFINE x == [node |-> job[j].node, st |-> "running"]
               s == Append(execution[e].results, x)
    <3>1. \/ UNCHANGED execution
          \/ execution' = [execution EXCEPT ![e].results = s]
      BY <1>2 DEF PushResult
    <3>2. s \in Seq(Result)
      <4>1. x \in Result
        BY <1>b DEF Result
      <4>2. execution[e].results \in Seq(Result)
        BY <2>1 DEF WorkflowTypeOK, ExecutionDoc
      <4>3. QED
        BY <4>1, <4>2
    <3> HIDE DEF s
    <3>3. [execution EXCEPT ![e].results = s] \in [Executions -> ExecutionDoc]
      BY <2>1, <3>2, DocType
    <3>4. QED
      BY <3>1, <3>3 DEF WorkflowTypeOK
  <2>4. workflowFaults' \in [{"edits", "crashes", "calls"} -> Nat]
    BY <1>2, CallFaultType DEF PushResult, WorkflowTypeOK
  <2>5. QED
    BY <1>0, <1>2, <2>2, <2>3, <2>4 DEF PushResult, WorkflowTypeOK
<1>3. CASE RunNode(j)
  <2>1. JobsType'
    <3>1. PICK st \in {"success", "failed"} : Ran(j, st)
      BY <1>3 DEF RunNode
    <3>2. QED
      BY <1>3, <3>1, RanType DEF RunNode, AtWorker
  <2>2. QED
    BY <1>0, <1>3, <2>1 DEF RunNode, WorkflowTypeOK
<1>4. CASE HangNode(j)
  <2>1. Known(job[j].graph, job[j].node)
    BY <1>4, <1>b DEF HangNode, AtWorker, JobOK
  <2>2. JobsType'
    BY <1>4, <2>1, GotoType DEF HangNode
  <2>3. /\ workflowFaults' \in [{"edits", "crashes", "calls"} -> Nat]
        /\ stranded' \in Flags
    BY <1>4, CallFaultType, StrandType DEF HangNode
  <2>4. QED
    BY <1>0, <1>4, <2>2, <2>3 DEF HangNode, WorkflowTypeOK
<1>5. CASE PostMessage(j)
  <2>1. Known(job[j].graph, job[j].node) /\ e \in Executions
    BY <1>5, <1>b, AtWorkerType DEF PostMessage, AtWorker, JobOK
  <2>2. JobsType'
    BY <1>5, <2>1, GotoType, RanType DEF PostMessage, AtWorker
  <2>3. posted' \in [Executions -> Nat]
    <3>1. UNCHANGED posted \/ posted' = [posted EXCEPT ![e] = @ + 1]
      BY <1>5 DEF PostMessage
    <3>2. posted \in [Executions -> Nat]
      BY DEF WorkflowTypeOK
    <3>3. QED
      BY <2>1, <3>1, <3>2
  <2>4. QED
    BY <1>0, <1>5, <2>2, <2>3 DEF PostMessage, WorkflowTypeOK
<1>6. CASE CountMessage(j)
  <2>1. Known(job[j].graph, job[j].node) /\ e \in Executions
    BY <1>6, <1>b, AtWorkerType DEF CountMessage, AtWorker, JobOK
  <2>2. JobsType'
    BY <1>6, <2>1, GotoType, RanType DEF CountMessage, AtWorker
  <2>3. /\ counted' \in [Executions -> Nat]
        /\ workflowFaults' \in [{"edits", "crashes", "calls"} -> Nat]
    <3>1. UNCHANGED counted \/ counted' = [counted EXCEPT ![e] = @ + 1]
      BY <1>6 DEF CountMessage
    <3>2. counted \in [Executions -> Nat]
      BY DEF WorkflowTypeOK
    <3>3. counted' \in [Executions -> Nat]
      BY <2>1, <3>1, <3>2
    <3>4. QED
      BY <1>6, <3>3, CallFaultType DEF CountMessage, WorkflowTypeOK
  <2>4. QED
    BY <1>0, <1>6, <2>2, <2>3 DEF CountMessage, WorkflowTypeOK
<1>7. CASE AnnounceMessage(j)
  <2>1. JobsType'
    BY <1>7, RanType DEF AnnounceMessage, AtWorker
  <2>2. workflowFaults' \in [{"edits", "crashes", "calls"} -> Nat]
    BY <1>7, CallFaultType DEF AnnounceMessage, WorkflowTypeOK
  <2>3. QED
    BY <1>0, <1>7, <2>1, <2>2 DEF AnnounceMessage, WorkflowTypeOK
<1>8. CASE RecordNode(j)
  <2> DEFINE n == Len(job[j].ran)
             result == job[j].ran[n]
  <2>1. /\ e \in Executions /\ Known(job[j].graph, job[j].node)
        /\ job[j].ran # <<>>
    BY <1>8, <1>b, AtWorkerType DEF RecordNode, AtWorker, JobOK
  <2>2. n \in Nat \ {0} /\ result \in Result
    BY <1>b, <2>1
  <2>3. JobsType'
    <3>1. CASE Goto(j, "catch")
      BY <3>1, GotoType
    <3>2. ASSUME NEW next \in Successors(NodeOf(job[j].graph, job[j].node)),
                 job' = [job EXCEPT ![j].pc = "loop", ![j].node = next]
          PROVE  JobsType'
      <4>1. next \in Ids
        BY <1>b, <2>1, NodeIds
      <4>2. QED
        BY <3>2, <4>1, StepJobType
    <3>3. QED
      BY <1>8, <3>1, <3>2 DEF RecordNode
  <2>4. execution' \in [Executions -> ExecutionDoc]
    <3> DEFINE s == SetAt(execution[e].results, n, result)
    <3>1. \/ UNCHANGED execution
          \/ execution' = [execution EXCEPT ![e].results = s]
      BY <1>8 DEF RecordNode
    <3>2. s \in Seq(Result)
      <4>1. execution[e].results \in Seq(Result)
        BY <2>1 DEF WorkflowTypeOK, ExecutionDoc
      <4> HIDE DEF n, result
      <4>2. QED
        BY <2>2, <4>1, SetAtType
    <3> HIDE DEF s
    <3>3. [execution EXCEPT ![e].results = s] \in [Executions -> ExecutionDoc]
      BY <2>1, <3>2, DocType
    <3>4. QED
      BY <3>1, <3>3 DEF WorkflowTypeOK
  <2>5. workflowFaults' \in [{"edits", "crashes", "calls"} -> Nat]
    BY <1>8, CallFaultType DEF RecordNode, WorkflowTypeOK
  <2>6. QED
    BY <1>0, <1>8, <2>3, <2>4, <2>5 DEF RecordNode, WorkflowTypeOK
<1>9. CASE MarkSuccess(j) \/ MarkFailed(j)
  <2>1. e \in Executions
    BY <1>9, AtWorkerType DEF MarkSuccess, MarkFailed
  <2>2. JobsType'
    BY <1>9, GotoType DEF MarkSuccess, MarkFailed
  <2>3. execution' \in [Executions -> ExecutionDoc]
    <3>1. \/ UNCHANGED execution
          \/ \E st \in {"success", "failed"} :
               execution' = [execution EXCEPT ![e].status = st,
                                              ![e].results = job[j].ran]
      BY <1>9 DEF MarkSuccess, MarkFailed
    <3>2. \A st \in {"success", "failed"} :
            [execution EXCEPT ![e].status = st, ![e].results = job[j].ran]
              \in [Executions -> ExecutionDoc]
      BY <1>b, <2>1, DocType
    <3>3. execution \in [Executions -> ExecutionDoc]
      BY DEF WorkflowTypeOK
    <3>4. QED
      BY <3>1, <3>2, <3>3
  <2>4. /\ workflowFaults' \in [{"edits", "crashes", "calls"} -> Nat]
        /\ stranded' \in Flags
    BY <1>9, CallFaultType, StrandType
    DEF MarkSuccess, MarkFailed, WorkflowTypeOK
  <2>5. QED
    BY <1>0, <1>9, <2>2, <2>3, <2>4
    DEF MarkSuccess, MarkFailed, WorkflowTypeOK
<1>10. CASE CountExecution(j) \/ MarkWorkflowFailed(j)
  <2>1. JobsType'
    BY <1>10, GotoType DEF CountExecution, MarkWorkflowFailed
  <2>2. workflow' \in [exists : BOOLEAN, enabled : BOOLEAN, nodes : Seq(Node),
                       runs : Nat,
                       last : {"uncreated", "none", "success", "failed"}]
    <3>1. \/ UNCHANGED workflow
          \/ workflow' = [workflow EXCEPT !.runs = @ + 1, !.last = "success"]
          \/ workflow' = [workflow EXCEPT !.last = "failed"]
      BY <1>10 DEF CountExecution, MarkWorkflowFailed
    <3>2. workflow \in [exists : BOOLEAN, enabled : BOOLEAN, nodes : Seq(Node),
                        runs : Nat,
                        last : {"uncreated", "none", "success", "failed"}]
      BY DEF WorkflowTypeOK
    <3>3. workflow.runs + 1 \in Nat
      BY <3>2
    <3>4. QED
      BY <3>1, <3>2, <3>3
  <2>3. workflowFaults' \in [{"edits", "crashes", "calls"} -> Nat]
    BY <1>10, CallFaultType
    DEF CountExecution, MarkWorkflowFailed, WorkflowTypeOK
  <2>4. QED
    BY <1>0, <1>10, <2>1, <2>2, <2>3
    DEF CountExecution, MarkWorkflowFailed, WorkflowTypeOK
<1>11. CASE AnswerBroker(j)
  <2>1. JobOK(NoJob)
    BY NoTypes DEF JobOK, NoJob
  <2>2. JobsType'
    BY <1>11, <2>1, SetJobType DEF AnswerBroker
  <2>3. QED
    BY <1>0, <1>11, <2>2 DEF AnswerBroker, WorkflowTypeOK
<1>12. QED
  BY <1>1, <1>2, <1>3, <1>4, <1>5, <1>6, <1>7, <1>8, <1>9, <1>10, <1>11
  DEF HandleJob

LEMMA BrokerTypes ==
    ASSUME WorkflowTypeOK, Watch,
           CrashWorker \/ \E j \in Jobs : Deliver(j) \/ ExpireJob(j)
    PROVE  WorkflowTypeOK'
<1>0. overlapped' \in Flags
  BY WatchType
<1>1. ASSUME NEW j \in Jobs, Deliver(j)
      PROVE  WorkflowTypeOK'
  <2> DEFINE r == [job[j] EXCEPT !.at = "worker"]
  <2>1. JobOK(job[j]) /\ job[j].at = "queue"
    BY <1>1 DEF WorkflowTypeOK, JobsType, Deliver
  <2>2. JobOK(r)
    BY <2>1 DEF JobOK, JobRecord
  <2>3. job' = [job EXCEPT ![j] = r]
    BY <1>1 DEF Deliver
  <2> HIDE DEF r
  <2>4. JobsType'
    BY <2>2, <2>3, SetJobType
  <2>5. QED
    BY <1>0, <1>1, <2>4 DEF Deliver, WorkflowTypeOK
<1>2. ASSUME NEW j \in Jobs, ExpireJob(j)
      PROVE  WorkflowTypeOK'
  <2>1. JobOK(NoJob)
    BY NoTypes DEF JobOK, NoJob
  <2>2. JobsType'
    BY <1>2, <2>1, SetJobType DEF ExpireJob
  <2>3. QED
    BY <1>0, <1>2, <2>2, CallFaultType, StrandType
    DEF ExpireJob, WorkflowTypeOK
<1>3. CASE CrashWorker
  <2> DEFINE r(j) == [NoJob EXCEPT !.at = "queue", !.e = job[j].e,
                                   !.graph = job[j].graph]
  <2>1. ASSUME NEW j \in Jobs, job[j].at = "worker"
        PROVE  JobOK(r(j))
    <3>1. /\ job[j].e \in Executions /\ job[j].graph \in Seq(Node)
      BY <2>1, JobFields
    <3>2. r(j) \in JobRecord /\ r(j).pc = "start" /\ r(j).e \in Executions
      BY <3>1, NoTypes DEF JobRecord, NoJob
    <3>3. QED
      BY <3>2 DEF JobOK
  <2>2. job' = [j \in Jobs |-> IF job[j].at = "worker" THEN r(j) ELSE job[j]]
    BY <1>3 DEF CrashWorker
  <2>3. JobsType'
    <3> HIDE DEF r
    <3>1. \A j \in Jobs : JobOK(job'[j])
      BY <2>1, <2>2 DEF WorkflowTypeOK, JobsType
    <3>2. job' \in [Jobs -> JobRecord]
      BY <2>2, <3>1 DEF JobOK
    <3>3. QED
      BY <3>1, <3>2 DEF JobsType
  <2>4. redone' \in Flags
    BY <1>3 DEF CrashWorker, Flags
  <2>5. QED
    BY <1>0, <1>3, <2>3, <2>4, HappensType DEF CrashWorker, WorkflowTypeOK
<1>4. QED
  BY <1>1, <1>2, <1>3

LEMMA WorkflowTypeStep ==
    WorkflowTypeOK /\ [WorkflowNext]_workflowVars => WorkflowTypeOK'
<1> SUFFICES ASSUME WorkflowTypeOK, [WorkflowNext]_workflowVars
             PROVE  WorkflowTypeOK'
  OBVIOUS
<1>1. CASE UNCHANGED workflowVars
  BY <1>1 DEF workflowVars, workflowHistory, WorkflowTypeOK, JobsType
<1>2. CASE WorkflowNext
  BY <1>2, RequestTypes, EditTypes, HandleJobTypes, BrokerTypes
  DEF WorkflowNext
<1>3. QED
  BY <1>1, <1>2

-----------------------------------------------------------------------------
(* The places of processWorkflowJob and executeWorkflow.                   *)

Edges ==
    {<<"start", "loop">>, <<"start", "nack">>, <<"loop", "run">>,
     <<"loop", "catch">>, <<"loop", "stats">>, <<"run", "record">>,
     <<"run", "hung">>, <<"run", "count">>, <<"count", "announce">>,
     <<"count", "record">>, <<"announce", "record">>, <<"record", "loop">>,
     <<"record", "catch">>, <<"stats", "ack">>, <<"stats", "catch">>,
     <<"catch", "failstats">>, <<"catch", "nack">>, <<"failstats", "nack">>}

StatusStep(j) ==
    LET e == job[j].e IN
    \/ execution'[e].status = execution[e].status
    \/ /\ execution'[e].status = "running"
       /\ job[j].pc = "start" /\ job'[j].pc = "loop"
    \/ /\ execution'[e].status = "success"
       /\ job[j].pc = "loop" /\ job'[j].pc = "stats"
    \/ /\ execution'[e].status = "failed"
       /\ job[j].pc = "catch" /\ job'[j].pc = "failstats"

LEMMA JobIs ==
    ASSUME WorkflowTypeOK, NEW j \in Jobs, NEW pc
    PROVE  /\ Goto(j, pc) =>
                /\ \A i \in Jobs \ {j} : job'[i] = job[i]
                /\ job'[j] = [job[j] EXCEPT !.pc = pc]
                /\ job'[j].pc = pc /\ job'[j].at = job[j].at
                /\ job'[j].e = job[j].e /\ job'[j].graph = job[j].graph
                /\ job'[j].ran = job[j].ran /\ job'[j].node = job[j].node
           /\ \A st : Ran(j, st) =>
                /\ \A i \in Jobs \ {j} : job'[i] = job[i]
                /\ job'[j].pc = "record" /\ job'[j].at = job[j].at
                /\ job'[j].e = job[j].e /\ job'[j].graph = job[j].graph
                /\ job'[j].node = job[j].node
                /\ job'[j].ran = Append(job[j].ran, [node |-> job[j].node,
                                                     st |-> st])
           /\ \A id : job' = [job EXCEPT ![j].pc = "loop", ![j].node = id] =>
                /\ \A i \in Jobs \ {j} : job'[i] = job[i]
                /\ job'[j].pc = "loop" /\ job'[j].at = job[j].at
                /\ job'[j].e = job[j].e /\ job'[j].graph = job[j].graph
                /\ job'[j].ran = job[j].ran /\ job'[j].node = id
<1>1. job \in [Jobs -> JobRecord] /\ job[j] \in JobRecord
  BY DEF WorkflowTypeOK, JobsType
<1>2. Goto(j, pc) =>
        /\ \A i \in Jobs \ {j} : job'[i] = job[i]
        /\ job'[j] = [job[j] EXCEPT !.pc = pc]
        /\ job'[j].pc = pc /\ job'[j].at = job[j].at
        /\ job'[j].e = job[j].e /\ job'[j].graph = job[j].graph
        /\ job'[j].ran = job[j].ran /\ job'[j].node = job[j].node
  BY <1>1 DEF Goto, JobRecord
<1>3. ASSUME NEW st, Ran(j, st)
      PROVE  /\ \A i \in Jobs \ {j} : job'[i] = job[i]
             /\ job'[j].pc = "record" /\ job'[j].at = job[j].at
             /\ job'[j].e = job[j].e /\ job'[j].graph = job[j].graph
             /\ job'[j].node = job[j].node
             /\ job'[j].ran = Append(job[j].ran, [node |-> job[j].node,
                                                  st |-> st])
  BY <1>1, <1>3 DEF Ran, JobRecord
<1>4. ASSUME NEW id, job' = [job EXCEPT ![j].pc = "loop", ![j].node = id]
      PROVE  /\ \A i \in Jobs \ {j} : job'[i] = job[i]
             /\ job'[j].pc = "loop" /\ job'[j].at = job[j].at
             /\ job'[j].e = job[j].e /\ job'[j].graph = job[j].graph
             /\ job'[j].ran = job[j].ran /\ job'[j].node = id
  BY <1>1, <1>4 DEF JobRecord
<1>5. QED
  BY <1>2, <1>3, <1>4

LEMMA DocIs ==
    ASSUME WorkflowTypeOK, NEW e \in Executions, NEW st, NEW results
    PROVE  /\ execution' = [execution EXCEPT ![e].status = st] =>
                /\ \A d \in Executions \ {e} : execution'[d] = execution[d]
                /\ execution'[e].status = st
                /\ execution'[e].retries = execution[e].retries
                /\ execution'[e].results = execution[e].results
           /\ execution' = [execution EXCEPT ![e].results = results] =>
                /\ \A d \in Executions \ {e} : execution'[d] = execution[d]
                /\ execution'[e].status = execution[e].status
                /\ execution'[e].retries = execution[e].retries
                /\ execution'[e].results = results
           /\ execution' = [execution EXCEPT ![e].status = st,
                                             ![e].results = results] =>
                /\ \A d \in Executions \ {e} : execution'[d] = execution[d]
                /\ execution'[e].status = st
                /\ execution'[e].retries = execution[e].retries
                /\ execution'[e].results = results
<1>1. /\ execution \in [Executions -> ExecutionDoc]
      /\ execution[e] \in ExecutionDoc
  BY DEF WorkflowTypeOK
<1>2. execution' = [execution EXCEPT ![e].status = st] =>
        /\ \A d \in Executions \ {e} : execution'[d] = execution[d]
        /\ execution'[e].status = st
        /\ execution'[e].retries = execution[e].retries
        /\ execution'[e].results = execution[e].results
  BY <1>1 DEF ExecutionDoc
<1>3. execution' = [execution EXCEPT ![e].results = results] =>
        /\ \A d \in Executions \ {e} : execution'[d] = execution[d]
        /\ execution'[e].status = execution[e].status
        /\ execution'[e].retries = execution[e].retries
        /\ execution'[e].results = results
  BY <1>1 DEF ExecutionDoc
<1>4. execution' = [execution EXCEPT ![e].status = st,
                                     ![e].results = results] =>
        /\ \A d \in Executions \ {e} : execution'[d] = execution[d]
        /\ execution'[e].status = st
        /\ execution'[e].retries = execution[e].retries
        /\ execution'[e].results = results
  BY <1>1 DEF ExecutionDoc
<1>5. QED
  BY <1>2, <1>3, <1>4

(* What any step of a handler does, and does not.                          *)
LEMMA HandlerShape ==
    ASSUME WorkflowTypeOK, NEW j \in Jobs, HandleJob(j)
    PROVE  /\ UNCHANGED <<ask, plan, raced, redone>>
           /\ job[j].at = "worker" /\ job[j].e \in Executions
           /\ \A i \in Jobs \ {j} : job'[i] = job[i]
           /\ \/ job'[j] = NoJob /\ job[j].pc \in {"ack", "nack"}
              \/ /\ job'[j].at = "worker" /\ job'[j].e = job[j].e
                 /\ job'[j].graph = job[j].graph
                 /\ <<job[j].pc, job'[j].pc>> \in Edges
           /\ \A e \in Executions :
                /\ execution'[e].retries = execution[e].retries
                /\ e # job[j].e => execution'[e] = execution[e]
           /\ StatusStep(j)
<1> DEFINE e == job[j].e
<1> USE DEF Edges, StatusStep, AtWorker
<1>1. CASE MarkRunning(j)
  <2>1. e \in Executions
    BY <1>1, AtWorkerType DEF MarkRunning
  <2>2. \/ /\ execution' = [execution EXCEPT ![e].status = "running"]
           /\ job' = [job EXCEPT ![j].pc = "loop",
                               ![j].node = FirstNode(job[j].graph)]
        \/ execution' = execution /\ Goto(j, "nack")
    BY <1>1 DEF MarkRunning
  <2>3. UNCHANGED <<ask, plan, raced, redone>>
    BY <1>1 DEF MarkRunning
  <2>4. job[j].at = "worker" /\ job[j].pc = "start"
    BY <1>1 DEF MarkRunning
  <2>5. CASE execution' = execution /\ Goto(j, "nack")
    BY <2>1, <2>3, <2>4, <2>5, JobIs
  <2>6. CASE /\ execution' = [execution EXCEPT ![e].status = "running"]
             /\ job' = [job EXCEPT ![j].pc = "loop",
                               ![j].node = FirstNode(job[j].graph)]
    <3>1. /\ \A d \in Executions \ {e} : execution'[d] = execution[d]
          /\ execution'[e].retries = execution[e].retries
          /\ execution'[e].status = "running"
      BY <2>1, <2>6, DocIs
    <3>2. /\ \A i \in Jobs \ {j} : job'[i] = job[i]
          /\ job'[j].at = "worker" /\ job'[j].e = e
          /\ job'[j].graph = job[j].graph
          /\ job'[j].pc = "loop"
      BY <2>4, <2>6, JobIs
    <3>3. QED
      BY <2>1, <2>3, <2>4, <3>1, <3>2
  <2>7. QED
    BY <2>2, <2>5, <2>6
<1>2. CASE PushResult(j)
  <2>1. e \in Executions
    BY <1>2, AtWorkerType DEF PushResult
  <2>2. \/ /\ execution' = [execution EXCEPT ![e].results = Append(@,
                             [node |-> job[j].node, st |-> "running"])]
           /\ Goto(j, "run")
        \/ execution' = execution /\ Goto(j, "catch")
    BY <1>2 DEF PushResult
  <2>3. UNCHANGED <<ask, plan, raced, redone>>
    BY <1>2 DEF PushResult
  <2>4. job[j].at = "worker" /\ job[j].pc = "loop"
    BY <1>2 DEF PushResult
  <2>5. CASE execution' = execution /\ Goto(j, "catch")
    BY <2>1, <2>3, <2>4, <2>5, JobIs
  <2>6. CASE /\ execution' = [execution EXCEPT ![e].results = Append(@,
                             [node |-> job[j].node, st |-> "running"])]
             /\ Goto(j, "run")
    <3>1. /\ \A d \in Executions \ {e} : execution'[d] = execution[d]
          /\ execution'[e].retries = execution[e].retries
          /\ execution'[e].status = execution[e].status
      BY <2>1, <2>6, DocIs
    <3>2. /\ \A i \in Jobs \ {j} : job'[i] = job[i]
          /\ job'[j].at = "worker" /\ job'[j].e = e
          /\ job'[j].graph = job[j].graph
          /\ job'[j].pc = "run"
      BY <2>4, <2>6, JobIs
    <3>3. QED
      BY <2>1, <2>3, <2>4, <3>1, <3>2
  <2>7. QED
    BY <2>2, <2>5, <2>6
<1>3. CASE RunNode(j)
  <2>1. e \in Executions
    BY <1>3, AtWorkerType DEF RunNode
  <2>2. QED
    BY <1>3, <2>1, JobIs DEF RunNode
<1>4. CASE HangNode(j)
  <2>1. e \in Executions
    BY <1>4, AtWorkerType DEF HangNode
  <2>2. QED
    BY <1>4, <2>1, JobIs DEF HangNode
<1>5. CASE PostMessage(j)
  <2>1. e \in Executions
    BY <1>5, AtWorkerType DEF PostMessage
  <2>2. QED
    BY <1>5, <2>1, JobIs DEF PostMessage
<1>6. CASE CountMessage(j)
  <2>1. e \in Executions
    BY <1>6, AtWorkerType DEF CountMessage
  <2>2. QED
    BY <1>6, <2>1, JobIs DEF CountMessage
<1>7. CASE AnnounceMessage(j)
  <2>1. e \in Executions
    BY <1>7, AtWorkerType DEF AnnounceMessage
  <2>2. QED
    BY <1>7, <2>1, JobIs DEF AnnounceMessage
<1>8. CASE RecordNode(j)
  <2> DEFINE rs == SetAt(execution[e].results, Len(job[j].ran),
                         job[j].ran[Len(job[j].ran)])
  <2>1. e \in Executions
    BY <1>8, AtWorkerType DEF RecordNode
  <2>2. /\ \/ execution' = [execution EXCEPT ![e].results = rs]
           \/ execution' = execution
        /\ \/ Goto(j, "catch")
           \/ \E id : job' = [job EXCEPT ![j].pc = "loop", ![j].node = id]
    BY <1>8 DEF RecordNode
  <2>3. UNCHANGED <<ask, plan, raced, redone>>
    BY <1>8 DEF RecordNode
  <2>4. job[j].at = "worker" /\ job[j].pc = "record"
    BY <1>8 DEF RecordNode
  <2> HIDE DEF rs
  <2>5. /\ \A d \in Executions \ {e} : execution'[d] = execution[d]
        /\ execution'[e].retries = execution[e].retries
        /\ execution'[e].status = execution[e].status
    BY <2>1, <2>2, DocIs
  <2>6. /\ \A i \in Jobs \ {j} : job'[i] = job[i]
        /\ job'[j].at = "worker" /\ job'[j].e = e
        /\ job'[j].graph = job[j].graph
        /\ job'[j].pc \in {"loop", "catch"}
    BY <2>2, <2>4, JobIs
  <2>7. QED
    BY <2>1, <2>3, <2>4, <2>5, <2>6
<1>9. CASE MarkSuccess(j)
  <2>1. e \in Executions
    BY <1>9, AtWorkerType DEF MarkSuccess
  <2>2. \/ /\ execution' = [execution EXCEPT ![e].status = "success",
                                             ![e].results = job[j].ran]
           /\ Goto(j, "stats")
        \/ execution' = execution /\ Goto(j, "catch")
    BY <1>9 DEF MarkSuccess
  <2>3. UNCHANGED <<ask, plan, raced, redone>>
    BY <1>9 DEF MarkSuccess
  <2>4. job[j].at = "worker" /\ job[j].pc = "loop"
    BY <1>9 DEF MarkSuccess
  <2>5. CASE execution' = execution /\ Goto(j, "catch")
    BY <2>1, <2>3, <2>4, <2>5, JobIs
  <2>6. CASE /\ execution' = [execution EXCEPT ![e].status = "success",
                                             ![e].results = job[j].ran]
             /\ Goto(j, "stats")
    <3>1. /\ \A d \in Executions \ {e} : execution'[d] = execution[d]
          /\ execution'[e].retries = execution[e].retries
          /\ execution'[e].status = "success"
      BY <2>1, <2>6, DocIs
    <3>2. /\ \A i \in Jobs \ {j} : job'[i] = job[i]
          /\ job'[j].at = "worker" /\ job'[j].e = e
          /\ job'[j].graph = job[j].graph
          /\ job'[j].pc = "stats"
      BY <2>4, <2>6, JobIs
    <3>3. QED
      BY <2>1, <2>3, <2>4, <3>1, <3>2
  <2>7. QED
    BY <2>2, <2>5, <2>6
<1>10. CASE CountExecution(j)
  <2>1. e \in Executions
    BY <1>10, AtWorkerType DEF CountExecution
  <2>2. /\ job[j].at = "worker" /\ job[j].pc = "stats"
        /\ Goto(j, "ack") \/ Goto(j, "catch")
        /\ UNCHANGED <<execution, ask, plan, raced, redone>>
    BY <1>10 DEF CountExecution
  <2>3. /\ \A i \in Jobs \ {j} : job'[i] = job[i]
        /\ job'[j].at = "worker" /\ job'[j].e = e
        /\ job'[j].graph = job[j].graph
        /\ job'[j].pc \in {"ack", "catch"}
    BY <2>2, JobIs
  <2>4. QED
    BY <2>1, <2>2, <2>3
<1>11. CASE MarkFailed(j)
  <2>1. e \in Executions
    BY <1>11, AtWorkerType DEF MarkFailed
  <2>2. \/ /\ execution' = [execution EXCEPT ![e].status = "failed",
                                             ![e].results = job[j].ran]
           /\ Goto(j, "failstats")
        \/ execution' = execution /\ Goto(j, "nack")
    BY <1>11 DEF MarkFailed
  <2>3. UNCHANGED <<ask, plan, raced, redone>>
    BY <1>11 DEF MarkFailed
  <2>4. job[j].at = "worker" /\ job[j].pc = "catch"
    BY <1>11 DEF MarkFailed
  <2>5. CASE execution' = execution /\ Goto(j, "nack")
    BY <2>1, <2>3, <2>4, <2>5, JobIs
  <2>6. CASE /\ execution' = [execution EXCEPT ![e].status = "failed",
                                             ![e].results = job[j].ran]
             /\ Goto(j, "failstats")
    <3>1. /\ \A d \in Executions \ {e} : execution'[d] = execution[d]
          /\ execution'[e].retries = execution[e].retries
          /\ execution'[e].status = "failed"
      BY <2>1, <2>6, DocIs
    <3>2. /\ \A i \in Jobs \ {j} : job'[i] = job[i]
          /\ job'[j].at = "worker" /\ job'[j].e = e
          /\ job'[j].graph = job[j].graph
          /\ job'[j].pc = "failstats"
      BY <2>4, <2>6, JobIs
    <3>3. QED
      BY <2>1, <2>3, <2>4, <3>1, <3>2
  <2>7. QED
    BY <2>2, <2>5, <2>6
<1>12. CASE MarkWorkflowFailed(j)
  <2>1. e \in Executions
    BY <1>12, AtWorkerType DEF MarkWorkflowFailed
  <2>2. QED
    BY <1>12, <2>1, JobIs DEF MarkWorkflowFailed
<1>13. CASE AnswerBroker(j)
  <2>1. e \in Executions
    BY <1>13, AtWorkerType DEF AnswerBroker
  <2>2. QED
    BY <1>13, <2>1 DEF AnswerBroker, WorkflowTypeOK, JobsType
<1>14. QED
  BY <1>1, <1>2, <1>3, <1>4, <1>5, <1>6, <1>7, <1>8, <1>9, <1>10, <1>11,
     <1>12, <1>13 DEF HandleJob

-----------------------------------------------------------------------------
(* One run of each execution.                                              *)

Live(j, e) == Playing(j, e) \/ (job[j].e = e /\ AtWorker(j, "stats"))

Asks(q, e) == ask[q].pc = "publish" /\ ask[q].e = e

Idle(e) ==
    /\ \A j \in Jobs : ~Live(j, e)
    /\ \A q \in WorkflowRequests : ~Asks(q, e)

AtMostOne(e) ==
    /\ \A i, j \in Jobs : Live(i, e) /\ Live(j, e) => i = j
    /\ \A p, q \in WorkflowRequests : Asks(p, e) /\ Asks(q, e) => p = q
    /\ \A j \in Jobs, q \in WorkflowRequests : ~(Live(j, e) /\ Asks(q, e))

(* The check of a retry was passed with what it saw.                       *)
SeenInv ==
    \A q \in WorkflowRequests : ask[q].pc \in {"find", "reset"} =>
        ask[q].seen.status = "failed" /\ ask[q].seen.retries < MaxRetries

Orderly(e) == ~raced[e] /\ ~redone[e]

(* Up to the update of the counts, so that what fails there is not missed: *)
(* nothing is live of an execution that may be triggered or retried.       *)
LiveInv ==
    \A e \in Executions : Orderly(e) =>
        /\ AtMostOne(e)
        /\ execution[e].status \in {"none", "failed"} => Idle(e)

OneRunInv == WorkflowTypeOK /\ SeenInv /\ LiveInv /\ OneRunEach

LEMMA FewInAll ==
    ASSUME NEW P, NEW Q, \A x, y \in P : x = y, \A x, y \in Q : x = y,
           P = {} \/ Q = {}
    PROVE  ~(Cardinality(P) + Cardinality(Q) > 1)
<1>1. P = {} \/ \E x : P = {x}
  OBVIOUS
<1>2. Q = {} \/ \E x : Q = {x}
  OBVIOUS
<1>3. Cardinality({}) = 0 /\ \A x : Cardinality({x}) = 1
  BY FS_EmptySet, FS_Singleton
<1>4. \/ Cardinality(P) = 0 /\ Cardinality(Q) \in {0, 1}
      \/ Cardinality(P) \in {0, 1} /\ Cardinality(Q) = 0
  BY <1>1, <1>2, <1>3
<1>5. QED
  BY <1>4

(* Nothing comes to life, and nothing may be triggered or retried anew.    *)
LEMMA LiveFrame ==
    ASSUME NEW e \in Executions, LiveInv, Orderly(e),
           \A j \in Jobs : Live(j, e)' => Live(j, e),
           \A q \in WorkflowRequests : Asks(q, e)' => Asks(q, e),
           execution'[e].status \in {"none", "failed"} =>
             execution[e].status \in {"none", "failed"} \/ Idle(e)'
    PROVE  /\ AtMostOne(e)'
           /\ execution'[e].status \in {"none", "failed"} => Idle(e)'
<1>1. /\ AtMostOne(e)
      /\ execution[e].status \in {"none", "failed"} => Idle(e)
  BY DEF LiveInv
<1>2. QED
  BY <1>1 DEF AtMostOne, Idle

LEMMA LiveInit == WorkflowInit => SeenInv /\ LiveInv /\ OneRunEach
<1> SUFFICES ASSUME WorkflowInit
             PROVE  SeenInv /\ LiveInv /\ OneRunEach
  OBVIOUS
<1>1. SeenInv
  BY DEF WorkflowInit, SeenInv, NoAsk
<1>2. ASSUME NEW e \in Executions
      PROVE  Idle(e)
  BY DEF WorkflowInit, Idle, Live, Playing, AtWorker, Asks, NoJob, NoAsk
<1>3. LiveInv
  BY <1>2 DEF LiveInv, AtMostOne, Idle
<1>4. MaxRetries \in Nat
  BY WorkflowAssumption
<1>5. OneRunEach
  BY <1>4 DEF WorkflowInit, OneRunEach, NoExecution
<1>6. QED
  BY <1>1, <1>3, <1>5

LEMMA RequestOneRun ==
    ASSUME WorkflowTypeOK, SeenInv, LiveInv, NEW q \in WorkflowRequests,
           HandleRequest(q)
    PROVE  SeenInv' /\ LiveInv'
<1> USE DEF Asks, Live, Playing, AtWorker
<1>1. CASE TriggerRead(q)
  <2>1. /\ UNCHANGED <<execution, job, raced, redone>>
        /\ Await(q, "create", NoNode, workflow.nodes, NoExecution)
    BY <1>1 DEF TriggerRead
  <2>a. /\ \A p \in WorkflowRequests \ {q} : ask'[p] = ask[p]
        /\ ask'[q].pc = "create" /\ ask'[q].e = NoNode
    BY <2>1 DEF Await, WorkflowTypeOK
  <2>2. SeenInv'
    BY <2>1, <2>a DEF SeenInv
  <2>3. ASSUME NEW e \in Executions, Orderly(e)'
        PROVE  /\ AtMostOne(e)'
               /\ execution'[e].status \in {"none", "failed"} => Idle(e)'
    <3>1. \A p \in WorkflowRequests : Asks(p, e)' => Asks(p, e)
      BY <2>a
    <3>2. QED
      BY <2>1, <2>3, <3>1, LiveFrame DEF Orderly
  <2>4. QED
    BY <2>2, <2>3 DEF LiveInv
<1>2. CASE TriggerCreate(q)
  <2>1. PICK e \in Unused :
          /\ execution' = [execution EXCEPT ![e].status = "queued"]
          /\ Await(q, "publish", e, ask[q].graph, NoExecution)
    BY <1>2 DEF TriggerCreate
  <2>a. /\ \A p \in WorkflowRequests \ {q} : ask'[p] = ask[p]
        /\ ask'[q].pc = "publish" /\ ask'[q].e = e
    BY <2>1 DEF Await, WorkflowTypeOK
  <2>2. UNCHANGED <<job, raced, redone>>
    BY <1>2 DEF TriggerCreate
  <2>3. e \in Executions /\ execution[e].status = "none"
    BY <2>1 DEF Unused
  <2>4. SeenInv'
    BY <2>1, <2>a DEF SeenInv
  <2>5. ASSUME Orderly(e)'
        PROVE  /\ AtMostOne(e)'
               /\ execution'[e].status \in {"none", "failed"} => Idle(e)'
    <3>1. Idle(e)
      BY <2>2, <2>3, <2>5 DEF LiveInv, Orderly
    <3>2. execution'[e].status = "queued"
      BY <2>1, <2>3, DocIs
    <3>3. QED
      BY <2>1, <2>2, <3>1, <3>2, <2>a DEF Idle, AtMostOne
  <2>6. ASSUME NEW d \in Executions \ {e}, Orderly(d)'
        PROVE  /\ AtMostOne(d)'
               /\ execution'[d].status \in {"none", "failed"} => Idle(d)'
    <3>1. execution'[d] = execution[d]
      BY <2>1, <2>3, DocIs
    <3>b. \A p \in WorkflowRequests : Asks(p, d)' => Asks(p, d)
      BY <2>a
    <3>2. QED
      BY <2>1, <2>2, <2>6, <3>1, <3>b, LiveFrame DEF Orderly
  <2>7. QED
    BY <2>4, <2>5, <2>6 DEF LiveInv
<1>3. CASE RetryRead(q)
  <2>1. PICK e \in Executions :
          /\ execution[e].status = "failed"
          /\ execution[e].retries < MaxRetries
          /\ Await(q, "find", e, <<>>, execution[e])
    BY <1>3 DEF RetryRead
  <2>a. /\ \A p \in WorkflowRequests \ {q} : ask'[p] = ask[p]
        /\ ask'[q].pc = "find" /\ ask'[q].e = e
        /\ ask'[q].seen = execution[e]
    BY <2>1 DEF Await, WorkflowTypeOK
  <2>2. UNCHANGED <<execution, job, raced, redone>>
    BY <1>3 DEF RetryRead
  <2>3. SeenInv'
    BY <2>1, <2>a DEF SeenInv
  <2>4. ASSUME NEW d \in Executions, Orderly(d)'
        PROVE  /\ AtMostOne(d)'
               /\ execution'[d].status \in {"none", "failed"} => Idle(d)'
    <3>1. \A p \in WorkflowRequests : Asks(p, d)' => Asks(p, d)
      BY <2>a
    <3>2. QED
      BY <2>1, <2>2, <2>4, <3>1, LiveFrame DEF Orderly
  <2>5. QED
    BY <2>3, <2>4 DEF LiveInv
<1>4. CASE RetryFind(q)
  <2>1. /\ ask[q].pc = "find"
        /\ \/ Await(q, "reset", ask[q].e, workflow.nodes, ask[q].seen)
           \/ Await(q, "done", NoNode, <<>>, NoExecution)
        /\ UNCHANGED <<execution, job, raced, redone>>
    BY <1>4 DEF RetryFind
  <2>a. /\ \A p \in WorkflowRequests \ {q} : ask'[p] = ask[p]
        /\ \/ ask'[q].pc = "reset" /\ ask'[q].seen = ask[q].seen
           \/ ask'[q].pc = "done"
    BY <2>1 DEF Await, WorkflowTypeOK
  <2>2. SeenInv'
    BY <2>1, <2>a DEF SeenInv
  <2>3. ASSUME NEW e \in Executions, Orderly(e)'
        PROVE  /\ AtMostOne(e)'
               /\ execution'[e].status \in {"none", "failed"} => Idle(e)'
    <3>1. \A p \in WorkflowRequests : Asks(p, e)' => Asks(p, e)
      BY <2>a
    <3>2. QED
      BY <2>1, <2>3, <3>1, LiveFrame DEF Orderly
  <2>4. QED
    BY <2>2, <2>3 DEF LiveInv
<1>5. CASE RetryReset(q)
  <2>0. PICK e \in Executions : e = ask[q].e
    BY <1>5 DEF RetryReset, WorkflowTypeOK
  <2>1. /\ ask[q].pc = "reset"
        /\ execution' = [execution EXCEPT ![e].status = "queued",
                                          ![e].retries = @ + 1]
        /\ raced' = [raced EXCEPT ![e] =
             @ \/ execution[e].status # ask[q].seen.status
               \/ execution[e].retries # ask[q].seen.retries]
        /\ Await(q, "publish", e, ask[q].graph, NoExecution)
        /\ UNCHANGED <<job, redone>>
    BY <1>5, <2>0 DEF RetryReset
  <2>a. /\ \A p \in WorkflowRequests \ {q} : ask'[p] = ask[p]
        /\ ask'[q].pc = "publish" /\ ask'[q].e = e
    BY <2>1 DEF Await, WorkflowTypeOK
  <2>2. e \in Executions /\ ask[q].seen.status = "failed"
    BY <2>1 DEF WorkflowTypeOK, SeenInv
  <2>3. SeenInv'
    BY <2>1, <2>a DEF SeenInv
  <2>4. /\ execution'[e].status = "queued"
        /\ \A d \in Executions \ {e} : execution'[d] = execution[d]
    BY <2>1, <2>2 DEF WorkflowTypeOK, ExecutionDoc
  <2>5. /\ ~raced'[e] => /\ ~raced[e]
                         /\ execution[e].status = ask[q].seen.status
        /\ \A d \in Executions \ {e} : raced'[d] = raced[d]
    BY <2>1, <2>2 DEF WorkflowTypeOK, Flags
  <2>6. ASSUME Orderly(e)'
        PROVE  /\ AtMostOne(e)'
               /\ execution'[e].status \in {"none", "failed"} => Idle(e)'
    <3>1. Orderly(e) /\ execution[e].status = "failed"
      BY <2>1, <2>2, <2>5, <2>6 DEF Orderly
    <3>2. Idle(e)
      BY <2>2, <3>1 DEF LiveInv
    <3>3. QED
      BY <2>1, <2>4, <3>2, <2>a DEF Idle, AtMostOne
  <2>7. ASSUME NEW d \in Executions \ {e}, Orderly(d)'
        PROVE  /\ AtMostOne(d)'
               /\ execution'[d].status \in {"none", "failed"} => Idle(d)'
    <3>1. \A p \in WorkflowRequests : Asks(p, d)' => Asks(p, d)
      BY <2>a
    <3>2. QED
      BY <2>1, <2>4, <2>5, <2>7, <3>1, LiveFrame DEF Orderly
  <2>8. QED
    BY <2>3, <2>6, <2>7 DEF LiveInv
<1>6. CASE PublishWorkflowJob(q)
  <2>0. PICK e \in Executions : e = ask[q].e
    BY <1>6 DEF PublishWorkflowJob, WorkflowTypeOK
  <2>1. /\ ask[q].pc = "publish"
        /\ Await(q, "done", NoNode, <<>>, NoExecution)
        /\ UNCHANGED <<execution, raced, redone>>
    BY <1>6 DEF PublishWorkflowJob
  <2>a. /\ \A p \in WorkflowRequests \ {q} : ask'[p] = ask[p]
        /\ ask'[q].pc = "done" /\ ask'[q].e = NoNode
    BY <2>1 DEF Await, WorkflowTypeOK
  <2>2. e \in Executions
    BY <2>0
  <2>3. SeenInv'
    BY <2>1, <2>a DEF SeenInv
  <2>4. CASE UNCHANGED job
    <3>1. ASSUME NEW d \in Executions, Orderly(d)'
          PROVE  /\ AtMostOne(d)'
                 /\ execution'[d].status \in {"none", "failed"} => Idle(d)'
      <4>1. \A p \in WorkflowRequests : Asks(p, d)' => Asks(p, d)
        BY <2>a
      <4>2. QED
        BY <2>1, <2>4, <3>1, <4>1, LiveFrame DEF Orderly
    <3>2. QED
      BY <2>3, <3>1 DEF LiveInv
  <2>5. ASSUME NEW j \in Jobs, job[j].at = "unused",
               job' = [job EXCEPT ![j] = [NoJob EXCEPT
                 !.at = "queue", !.e = e, !.graph = ask[q].graph]]
        PROVE  SeenInv' /\ LiveInv'
    <3>1. /\ job'[j].at = "queue" /\ job'[j].e = e
          /\ \A i \in Jobs \ {j} : job'[i] = job[i]
      BY <2>5 DEF WorkflowTypeOK, JobsType, NoJob
    <3>2. ASSUME Orderly(e)'
          PROVE  /\ AtMostOne(e)'
                 /\ execution'[e].status \in {"none", "failed"} => Idle(e)'
      <4>1. /\ AtMostOne(e)
            /\ execution[e].status \in {"none", "failed"} => Idle(e)
        BY <2>1, <2>2, <3>2 DEF LiveInv, Orderly
      <4>2. Asks(q, e)
        BY <2>0, <2>1
      <4>3. execution'[e].status \notin {"none", "failed"}
        BY <2>1, <4>1, <4>2 DEF Idle
      <4>4. \A i \in Jobs : ~Live(i, e)
        BY <4>1, <4>2 DEF AtMostOne
      <4>5. \A p \in WorkflowRequests : ~Asks(p, e)'
        BY <2>1, <4>1, <4>2, <2>a DEF AtMostOne
      <4>6. \A i \in Jobs : Live(i, e)' => i = j
        BY <3>1, <4>4
      <4>7. QED
        BY <4>3, <4>5, <4>6 DEF AtMostOne
    <3>3. ASSUME NEW d \in Executions \ {e}, Orderly(d)'
          PROVE  /\ AtMostOne(d)'
                 /\ execution'[d].status \in {"none", "failed"} => Idle(d)'
      <4>1. \A i \in Jobs : Live(i, d)' => Live(i, d)
        BY <3>1
      <4>b. \A p \in WorkflowRequests : Asks(p, d)' => Asks(p, d)
        BY <2>a
      <4>2. QED
        BY <2>1, <3>3, <4>1, <4>b, LiveFrame DEF Orderly
    <3>4. QED
      BY <2>3, <3>2, <3>3 DEF LiveInv
  <2>6. QED
    BY <1>6, <2>0, <2>4, <2>5 DEF PublishWorkflowJob
<1>7. QED
  BY <1>1, <1>2, <1>3, <1>4, <1>5, <1>6 DEF HandleRequest

LEMMA BrokerOneRun ==
    ASSUME WorkflowTypeOK, SeenInv, LiveInv,
           \/ CrashWorker
           \/ \E j \in Jobs : Deliver(j) \/ HandleJob(j) \/ ExpireJob(j)
           \/ CreateWorkflow \/ UpdateWorkflow
           \/ SetWorkflowEnabled \/ DeleteWorkflow
    PROVE  SeenInv' /\ LiveInv'
<1> USE DEF Live, Playing, AtWorker, Asks
<1>1. CASE CreateWorkflow \/ UpdateWorkflow \/ SetWorkflowEnabled
             \/ DeleteWorkflow
  <2>1. UNCHANGED <<execution, job, ask, raced, redone>>
    BY <1>1 DEF CreateWorkflow, UpdateWorkflow, SetWorkflowEnabled,
                DeleteWorkflow
  <2>2. SeenInv'
    BY <2>1 DEF SeenInv
  <2>3. LiveInv'
    BY <2>1 DEF LiveInv, AtMostOne, Idle, Orderly
  <2>4. QED
    BY <2>2, <2>3
<1>2. ASSUME NEW j \in Jobs, Deliver(j)
      PROVE  SeenInv' /\ LiveInv'
  <2>1. /\ job[j].at = "queue"
        /\ job' = [job EXCEPT ![j].at = "worker"]
        /\ UNCHANGED <<execution, ask, raced, redone>>
    BY <1>2 DEF Deliver
  <2>2. /\ \A i \in Jobs \ {j} : job'[i] = job[i]
        /\ job'[j].e = job[j].e
    BY <2>1 DEF WorkflowTypeOK, JobsType, JobRecord
  <2>3. SeenInv'
    BY <2>1 DEF SeenInv
  <2>4. ASSUME NEW e \in Executions, Orderly(e)'
        PROVE  /\ AtMostOne(e)'
               /\ execution'[e].status \in {"none", "failed"} => Idle(e)'
    <3>1. \A i \in Jobs : Live(i, e)' => Live(i, e)
      BY <2>1, <2>2
    <3>2. QED
      BY <2>1, <2>4, <3>1, LiveFrame DEF Orderly
  <2>5. QED
    BY <2>3, <2>4 DEF LiveInv
<1>3. ASSUME NEW j \in Jobs, ExpireJob(j)
      PROVE  SeenInv' /\ LiveInv'
  <2>1. /\ job' = [job EXCEPT ![j] = NoJob]
        /\ UNCHANGED <<execution, ask, raced, redone>>
    BY <1>3 DEF ExpireJob
  <2>2. /\ \A i \in Jobs \ {j} : job'[i] = job[i]
        /\ job'[j].at = "unused"
    BY <2>1 DEF WorkflowTypeOK, JobsType, NoJob
  <2>3. SeenInv'
    BY <2>1 DEF SeenInv
  <2>4. ASSUME NEW e \in Executions, Orderly(e)'
        PROVE  /\ AtMostOne(e)'
               /\ execution'[e].status \in {"none", "failed"} => Idle(e)'
    <3>1. \A i \in Jobs : Live(i, e)' => Live(i, e)
      BY <2>2
    <3>2. QED
      BY <2>1, <2>4, <3>1, LiveFrame DEF Orderly
  <2>5. QED
    BY <2>3, <2>4 DEF LiveInv
<1>4. CASE CrashWorker
  <2>1. /\ job' = [j \in Jobs |->
             IF job[j].at = "worker"
             THEN [NoJob EXCEPT !.at = "queue", !.e = job[j].e,
                                !.graph = job[j].graph]
             ELSE job[j]]
        /\ redone' = [e \in Executions |->
             \/ redone[e]
             \/ \E j \in Jobs : job[j].e = e /\ job[j].at = "worker"
                   /\ (job[j].pc \in Over \/ job[j].graph # plan[e])]
        /\ UNCHANGED <<execution, ask, raced>>
    BY <1>4 DEF CrashWorker
  <2>2. \A j \in Jobs :
          IF job[j].at = "worker"
          THEN job'[j].at = "queue" /\ job'[j].e = job[j].e
          ELSE job'[j] = job[j]
    BY <2>1 DEF NoJob
  <2>3. SeenInv'
    BY <2>1 DEF SeenInv
  <2>4. ASSUME NEW e \in Executions, Orderly(e)'
        PROVE  /\ AtMostOne(e)'
               /\ execution'[e].status \in {"none", "failed"} => Idle(e)'
    <3>1. /\ Orderly(e)
          /\ \A j \in Jobs : ~(job[j].e = e /\ job[j].at = "worker"
                                 /\ job[j].pc \in Over)
      BY <2>1, <2>4 DEF Orderly
    <3>2. \A i \in Jobs : Live(i, e)' => Live(i, e)
      BY <2>2, <3>1
    <3>3. QED
      BY <2>1, <3>1, <3>2, LiveFrame
  <2>5. QED
    BY <2>3, <2>4 DEF LiveInv
<1>5. ASSUME NEW j \in Jobs, HandleJob(j)
      PROVE  SeenInv' /\ LiveInv'
  <2>1. /\ UNCHANGED <<ask, raced, redone>>
        /\ job[j].at = "worker" /\ job[j].e \in Executions
        /\ \A i \in Jobs \ {j} : job'[i] = job[i]
    BY <1>5, HandlerShape
  <2>2. \/ job'[j] = NoJob
        \/ /\ job'[j].at = "worker" /\ job'[j].e = job[j].e
           /\ <<job[j].pc, job'[j].pc>> \in Edges
    BY <1>5, HandlerShape
  <2>3. /\ \A e \in Executions : e # job[j].e => execution'[e] = execution[e]
        /\ StatusStep(j)
    BY <1>5, HandlerShape
  <2>4. SeenInv'
    BY <2>1 DEF SeenInv
  <2>5. ASSUME NEW e \in Executions
        PROVE  \A i \in Jobs : Live(i, e)' => Live(i, e)
    BY <2>1, <2>2 DEF Edges, Over, NoJob
  <2>6. ASSUME NEW e \in Executions, Orderly(e)'
        PROVE  /\ AtMostOne(e)'
               /\ execution'[e].status \in {"none", "failed"} => Idle(e)'
    <3>1. Orderly(e) /\ AtMostOne(e)
      BY <2>1, <2>6 DEF Orderly, LiveInv
    <3>2. CASE \/ e # job[j].e
               \/ execution'[e].status = execution[e].status
               \/ execution'[e].status \in {"running", "success"}
      BY <2>1, <2>3, <2>5, <3>1, <3>2, LiveFrame
    <3>3. CASE /\ e = job[j].e
               /\ job[j].pc = "catch" /\ job'[j].pc = "failstats"
      <4>1. Live(j, e)
        BY <2>1, <3>3 DEF Over
      <4>2. \A i \in Jobs : ~Live(i, e)'
        <5>1. ~Live(j, e)'
          BY <2>2, <3>3 DEF Over, NoJob
        <5>2. QED
          BY <2>5, <3>1, <4>1, <5>1 DEF AtMostOne
      <4>3. \A q \in WorkflowRequests : ~Asks(q, e)'
        BY <2>1, <3>1, <4>1 DEF AtMostOne
      <4>4. QED
        BY <4>2, <4>3 DEF AtMostOne, Idle
    <3>4. QED
      BY <2>3, <3>2, <3>3 DEF StatusStep
  <2>7. QED
    BY <2>4, <2>6 DEF LiveInv
<1>6. QED
  BY <1>1, <1>2, <1>3, <1>4, <1>5

(* Only a retry counts retries, and it has looked at the number.           *)
LEMMA RetriesStep ==
    ASSUME WorkflowTypeOK, SeenInv, WorkflowNext,
           \A e \in Executions : execution[e].retries > MaxRetries => raced[e]
    PROVE  \A e \in Executions :
             execution'[e].retries > MaxRetries => raced'[e]
<1>1. ASSUME NEW q \in WorkflowRequests, RetryReset(q)
      PROVE  \A e \in Executions :
               execution'[e].retries > MaxRetries => raced'[e]
  <2>0. PICK e \in Executions : e = ask[q].e
    BY <1>1 DEF RetryReset, WorkflowTypeOK
  <2>1. /\ ask[q].pc = "reset"
        /\ execution' = [execution EXCEPT ![e].status = "queued",
                                          ![e].retries = @ + 1]
        /\ raced' = [raced EXCEPT ![e] =
             @ \/ execution[e].status # ask[q].seen.status
               \/ execution[e].retries # ask[q].seen.retries]
    BY <1>1, <2>0 DEF RetryReset
  <2>2. /\ execution'[e].retries = execution[e].retries + 1
        /\ \A d \in Executions \ {e} : execution'[d] = execution[d]
    BY <2>1 DEF WorkflowTypeOK, ExecutionDoc
  <2>3. /\ ~raced'[e] => execution[e].retries = ask[q].seen.retries
        /\ \A d \in Executions \ {e} : raced'[d] = raced[d]
    BY <2>1 DEF WorkflowTypeOK, Flags
  <2>4. /\ ask[q].seen.retries < MaxRetries
        /\ execution[e].retries \in Nat /\ MaxRetries \in Nat
    BY <2>1, WorkflowAssumption
    DEF SeenInv, WorkflowTypeOK, ExecutionDoc
  <2>5. execution'[e].retries > MaxRetries => raced'[e]
    BY <2>2, <2>3, <2>4
  <2>6. QED
    BY <2>2, <2>3, <2>5
<1>2. ASSUME NEW q \in WorkflowRequests, TriggerCreate(q)
      PROVE  \A e \in Executions :
               execution'[e].retries > MaxRetries => raced'[e]
  <2>1. PICK e \in Executions :
          execution' = [execution EXCEPT ![e].status = "queued"]
    BY <1>2 DEF TriggerCreate, Unused
  <2>2. UNCHANGED raced
    BY <1>2 DEF TriggerCreate
  <2>3. \A d \in Executions : execution'[d].retries = execution[d].retries
    BY <2>1, DocIs
  <2>4. QED
    BY <2>2, <2>3
<1>3. ASSUME NEW j \in Jobs, HandleJob(j)
      PROVE  \A e \in Executions :
               execution'[e].retries > MaxRetries => raced'[e]
  BY <1>3, HandlerShape
<1>4. ASSUME UNCHANGED <<execution, raced>>
      PROVE  \A e \in Executions :
               execution'[e].retries > MaxRetries => raced'[e]
  BY <1>4
<1>5. QED
  BY <1>1, <1>2, <1>3, <1>4
  DEF WorkflowNext, HandleRequest, TriggerRead, RetryRead, RetryFind,
      PublishWorkflowJob, CreateWorkflow, UpdateWorkflow, SetWorkflowEnabled,
      DeleteWorkflow, Deliver, ExpireJob, CrashWorker

LEMMA HistoryGrows ==
    ASSUME WorkflowTypeOK, WorkflowNext, NEW e \in Executions
    PROVE  /\ raced[e] => raced'[e]
           /\ redone[e] => redone'[e]
<1>1. ASSUME NEW q \in WorkflowRequests, HandleRequest(q)
      PROVE  (raced[e] => raced'[e]) /\ (redone[e] => redone'[e])
  BY <1>1
  DEF WorkflowTypeOK, Flags, HandleRequest, TriggerRead, TriggerCreate,
      RetryRead, RetryFind, RetryReset, PublishWorkflowJob
<1>2. ASSUME NEW j \in Jobs, HandleJob(j)
      PROVE  (raced[e] => raced'[e]) /\ (redone[e] => redone'[e])
  BY <1>2, HandlerShape
<1>3. CASE CrashWorker
  BY <1>3 DEF CrashWorker
<1>4. CASE \/ CreateWorkflow \/ UpdateWorkflow \/ SetWorkflowEnabled
           \/ DeleteWorkflow \/ \E j \in Jobs : Deliver(j) \/ ExpireJob(j)
  BY <1>4 DEF CreateWorkflow, UpdateWorkflow, SetWorkflowEnabled,
              DeleteWorkflow, Deliver, ExpireJob
<1>5. QED
  BY <1>1, <1>2, <1>3, <1>4 DEF WorkflowNext

(* Watch looks at the state after the step, in which nothing lives twice.  *)
LEMMA OverlapStep ==
    ASSUME WorkflowTypeOK, WorkflowNext, LiveInv', OneRunEach,
           NEW e \in Executions, overlapped'[e]
    PROVE  raced'[e] \/ redone'[e]
<1>1. CASE overlapped[e]
  BY <1>1, HistoryGrows DEF OneRunEach
<1>2. CASE ~overlapped[e]
  <2> DEFINE P == {j \in Jobs : Playing(j, e)}
             Q == {q \in WorkflowRequests :
                     ask[q].pc = "publish" /\ ask[q].e = e}
  <2>1. Cardinality(P') + Cardinality(Q') > 1
    BY <1>2 DEF WorkflowNext, Watch, InPlay
  <2>2. SUFFICES ASSUME Orderly(e)'
                 PROVE  FALSE
    BY DEF Orderly
  <2>3. AtMostOne(e)'
    BY <2>2 DEF LiveInv
  <2>4. /\ \A x, y \in P' : x = y
        /\ \A x, y \in Q' : x = y
        /\ P' = {} \/ Q' = {}
    BY <2>3 DEF AtMostOne, Live, Asks
  <2> HIDE DEF P, Q
  <2>5. QED
    BY <2>1, <2>4, FewInAll
<1>3. QED
  BY <1>1, <1>2

LEMMA OneRunStep ==
    OneRunInv /\ [WorkflowNext]_workflowVars => OneRunInv'
<1> SUFFICES ASSUME OneRunInv, [WorkflowNext]_workflowVars
             PROVE  OneRunInv'
  OBVIOUS
<1> USE DEF OneRunInv
<1>1. WorkflowTypeOK'
  BY WorkflowTypeStep
<1>2. CASE UNCHANGED workflowVars
  <2>1. UNCHANGED <<execution, job, ask, raced, redone, overlapped>>
    BY <1>2 DEF workflowVars, workflowHistory
  <2>2. SeenInv' /\ OneRunEach'
    BY <2>1 DEF SeenInv, OneRunEach
  <2>3. LiveInv'
    BY <2>1 DEF LiveInv, AtMostOne, Idle, Orderly, Live, Asks, Playing,
                AtWorker
  <2>4. QED
    BY <1>1, <2>2, <2>3
<1>3. CASE WorkflowNext
  <2>1. SeenInv' /\ LiveInv'
    BY <1>3, RequestOneRun, BrokerOneRun DEF WorkflowNext
  <2>2. \A e \in Executions : overlapped'[e] => raced'[e] \/ redone'[e]
    BY <1>3, <2>1, OverlapStep
  <2>3. \A e \in Executions :
          execution'[e].retries > MaxRetries => raced'[e]
    BY <1>3, RetriesStep DEF OneRunEach
  <2>4. OneRunEach'
    BY <2>2, <2>3 DEF OneRunEach
  <2>5. QED
    BY <1>1, <2>1, <2>4
<1>4. QED
  BY <1>2, <1>3

(* With any number of requests and jobs at once, and whatever crashes or   *)
(* fails: an execution has one run in play at a time and no more retries   *)
(* than it may, but for a retry that acted on an outdated check of         *)
(* retryExecution, or a crash that brought back a job already over.        *)
THEOREM OneRunOfEach == WorkflowSpec => []OneRunEach
<1>1. WorkflowInit => OneRunInv
  BY WorkflowTypeInit, LiveInit DEF OneRunInv
<1>2. OneRunInv => OneRunEach
  BY DEF OneRunInv
<1>3. QED
  BY <1>1, <1>2, OneRunStep, PTL DEF WorkflowSpec

-----------------------------------------------------------------------------
(* What a finished execution records.                                      *)

(* What a handler has run: a path through its nodes, all of them successes *)
(* up to the last, which it is about to record.                            *)
Walk(ran, g) ==
    \A i \in DOMAIN ran :
        ran[i].node \in IF i = 1 THEN {FirstNode(g)}
                        ELSE Successors(NodeOf(g, ran[i - 1].node))

Follows(ran, g, id) ==
    IF ran = <<>> THEN id = FirstNode(g)
    ELSE id \in Successors(NodeOf(g, ran[Len(ran)].node))

Succeeded(ran) == \A i \in DOMAIN ran : ran[i].st = "success"

FailedAtLast(ran) == ran # <<>> /\ ran[Len(ran)].st = "failed"

BeforeRecord == {"loop", "run", "hung", "count", "announce"}

PathOK(r) ==
    /\ r.at # "worker" => r.pc = "start"
    /\ r.pc = "start" => r.ran = <<>>
    /\ r.pc \in BeforeRecord =>
         Walk(r.ran, r.graph) /\ Follows(r.ran, r.graph, r.node) /\ Succeeded(r.ran)
    /\ r.pc \in {"count", "announce"} => NodeOf(r.graph, r.node).kind = "send"
    /\ r.pc = "record" =>
         /\ Walk(r.ran, r.graph)
         /\ r.ran[Len(r.ran)].node = r.node
         /\ \A i \in DOMAIN r.ran : i # Len(r.ran) => r.ran[i].st = "success"
         /\ r.ran[Len(r.ran)].st \in {"success", "failed"}

PathInv ==
    \A j \in Jobs :
        /\ PathOK(job[j])
        /\ AtWorker(j, "catch") /\ Undisturbed => FailedAtLast(job[j].ran)

LEMMA WalkOn ==
    ASSUME NEW ran \in Seq(Result), NEW g, NEW x \in Result,
           Walk(ran, g), Follows(ran, g, x.node)
    PROVE  /\ Walk(Append(ran, x), g)
           /\ Append(ran, x)[Len(Append(ran, x))] = x
           /\ \A i \in DOMAIN Append(ran, x) : i # Len(Append(ran, x)) =>
                i \in DOMAIN ran /\ Append(ran, x)[i] = ran[i]
<1>1. PICK n \in Nat : n = Len(ran)
  OBVIOUS
<1>2. PICK s : s = Append(ran, x)
  OBVIOUS
<1>3. /\ DOMAIN ran = 1 .. n /\ Len(s) = n + 1 /\ DOMAIN s = 1 .. n + 1
      /\ s[n + 1] = x /\ \A i \in 1 .. n : s[i] = ran[i]
      /\ ran = <<>> <=> n = 0
  BY <1>1, <1>2, Appended
<1>4. ASSUME NEW i \in 1 .. n + 1
      PROVE  s[i].node \in IF i = 1 THEN {FirstNode(g)}
                           ELSE Successors(NodeOf(g, s[i - 1].node))
  <2>1. CASE i = n + 1 /\ n = 0
    BY <1>3, <2>1 DEF Follows
  <2>2. CASE i = n + 1 /\ n # 0
    <3>1. i - 1 = n /\ n \in 1 .. n /\ i # 1
      BY <2>2
    <3>2. x.node \in Successors(NodeOf(g, ran[n].node))
      BY <1>1, <1>3, <2>2 DEF Follows
    <3>3. QED
      BY <1>3, <2>2, <3>1, <3>2
  <2>3. CASE i \in 1 .. n /\ i = 1
    BY <1>3, <2>3 DEF Walk
  <2>4. CASE i \in 1 .. n /\ i # 1
    <3>1. i - 1 \in 1 .. n
      BY <2>4
    <3>2. ran[i].node \in Successors(NodeOf(g, ran[i - 1].node))
      BY <1>3, <2>4 DEF Walk
    <3>3. QED
      BY <1>3, <2>4, <3>1, <3>2
  <2>5. QED
    BY <2>1, <2>2, <2>3, <2>4
<1>5. Walk(s, g)
  BY <1>3, <1>4 DEF Walk
<1>6. QED
  BY <1>2, <1>3, <1>5

LEMMA PathEnds ==
    ASSUME NEW ran, NEW g, NEW id, Walk(ran, g), Succeeded(ran),
           Follows(ran, g, id), ~Known(g, id)
    PROVE  FullRun(ran, g)
BY DEF Walk, Succeeded, Follows, FullRun

LEMMA SendsOn ==
    ASSUME NEW ran \in Seq(Result), NEW g, NEW x \in Result
    PROVE  /\ Sends(ran, g) \in Nat
           /\ NodeOf(g, x.node).kind = "send" =>
                Sends(Append(ran, x), g) = Sends(ran, g) + 1
           /\ NodeOf(g, x.node).kind # "send" =>
                Sends(Append(ran, x), g) = Sends(ran, g)
<1> DEFINE n == Len(ran)
           s == Append(ran, x)
           S == {i \in DOMAIN ran : NodeOf(g, ran[i].node).kind = "send"}
           T == {i \in DOMAIN s : NodeOf(g, s[i].node).kind = "send"}
<1>1. /\ n \in Nat /\ DOMAIN ran = 1 .. n /\ DOMAIN s = 1 .. n + 1
      /\ s[n + 1] = x /\ \A i \in 1 .. n : s[i] = ran[i]
  BY Appended
<1>2. Sends(ran, g) = Cardinality(S) /\ Sends(s, g) = Cardinality(T)
  BY DEF Sends
<1>3. IsFiniteSet(S)
  <2>1. IsFiniteSet(1 .. n) /\ S \subseteq 1 .. n
    BY <1>1, FS_Interval
  <2>2. QED
    BY <2>1, FS_Subset
<1> HIDE DEF s, n
<1>4. \A y : y # n + 1 => (y \in T <=> y \in S)
  BY <1>1
<1>5. /\ n + 1 \notin S
      /\ n + 1 \in T <=> NodeOf(g, x.node).kind = "send"
  BY <1>1
<1> HIDE DEF S, T
<1>6. /\ Cardinality(S) \in Nat
      /\ n + 1 \in T => Cardinality(T) = Cardinality(S) + 1
      /\ n + 1 \notin T => Cardinality(T) = Cardinality(S)
  BY <1>3, <1>4, <1>5, Recount
<1>7. QED
  BY <1>2, <1>5, <1>6 DEF s

LEMMA NoSends ==
    ASSUME NEW g
    PROVE  Sends(<<>>, g) = 0
<1>1. {i \in DOMAIN <<>> : NodeOf(g, <<>>[i].node).kind = "send"} = {}
  OBVIOUS
<1>2. QED
  BY <1>1, FS_EmptySet DEF Sends

LEMMA CallDisturbs ==
    ASSUME WorkflowTypeOK, CallFault
    PROVE  ~Undisturbed'
BY DEF WorkflowTypeOK, CallFault, Happens, Undisturbed

LEMMA FaultsGrow ==
    ASSUME WorkflowTypeOK, WorkflowNext, Undisturbed'
    PROVE  Undisturbed
<1>1. ASSUME NEW kind \in {"edits", "crashes", "calls"}, Happens(kind)
      PROVE  Undisturbed
  BY <1>1 DEF WorkflowTypeOK, Happens, Undisturbed
<1>2. \/ UNCHANGED workflowFaults
      \/ \E kind \in {"edits", "crashes", "calls"} : Happens(kind)
  <2>1. ASSUME NEW q \in WorkflowRequests, HandleRequest(q)
        PROVE  UNCHANGED workflowFaults \/ Happens("calls")
    BY <2>1 DEF HandleRequest, TriggerRead, TriggerCreate, RetryRead, RetryFind,
                RetryReset, PublishWorkflowJob, CallFault
  <2>2. ASSUME NEW j \in Jobs, Deliver(j) \/ ExpireJob(j)
        PROVE  UNCHANGED workflowFaults \/ Happens("calls")
    BY <2>2 DEF Deliver, ExpireJob, CallFault
  <2>3. ASSUME NEW j \in Jobs, HandleJob(j)
        PROVE  UNCHANGED workflowFaults \/ Happens("calls")
    BY <2>3 DEF HandleJob, MarkRunning, PushResult, RunNode, HangNode, PostMessage,
                CountMessage, AnnounceMessage, RecordNode, MarkSuccess,
                CountExecution, MarkFailed, MarkWorkflowFailed, AnswerBroker,
                CallFault
  <2>4. CASE CreateWorkflow \/ UpdateWorkflow \/ SetWorkflowEnabled
             \/ DeleteWorkflow
    BY <2>4 DEF CreateWorkflow, UpdateWorkflow, SetWorkflowEnabled, DeleteWorkflow
  <2>5. CASE CrashWorker
    BY <2>5 DEF CrashWorker
  <2>6. QED
    BY <2>1, <2>2, <2>3, <2>4, <2>5 DEF WorkflowNext
<1>3. QED
  BY <1>1, <1>2 DEF Undisturbed

LEMMA RanPath ==
    ASSUME WorkflowTypeOK, NEW j \in Jobs, PathOK(job[j]), job[j].at = "worker",
           job[j].pc \in {"run", "count", "announce"},
           NEW st \in {"success", "failed"}, Ran(j, st)
    PROVE  PathOK(job'[j]) /\ job'[j].pc = "record"
<1>1. PICK x : x = [node |-> job[j].node, st |-> st]
  OBVIOUS
<1>2. /\ job'[j].pc = "record" /\ job'[j].at = "worker"
      /\ job'[j].graph = job[j].graph /\ job'[j].node = job[j].node
      /\ job'[j].ran = Append(job[j].ran, x)
  BY <1>1, JobIs
<1>3. /\ job[j].ran \in Seq(Result)
      /\ x \in Result /\ x.node = job[j].node /\ x.st = st
  BY <1>1, JobFields DEF Result
<1>4. /\ Walk(job[j].ran, job[j].graph) /\ Succeeded(job[j].ran)
      /\ Follows(job[j].ran, job[j].graph, x.node)
  BY <1>3 DEF PathOK, BeforeRecord
<1>5. /\ Walk(job'[j].ran, job'[j].graph)
      /\ job'[j].ran[Len(job'[j].ran)] = x
      /\ \A i \in DOMAIN job'[j].ran : i # Len(job'[j].ran) =>
           job'[j].ran[i].st = "success"
  BY <1>2, <1>3, <1>4, WalkOn DEF Succeeded
<1>6. QED
  BY <1>2, <1>3, <1>5 DEF PathOK, BeforeRecord

LEMMA HandlerPath ==
    ASSUME WorkflowTypeOK, NEW j \in Jobs, PathOK(job[j]), HandleJob(j)
    PROVE  /\ PathOK(job'[j])
           /\ AtWorker(j, "catch")' /\ Undisturbed' => FailedAtLast(job'[j].ran)
<1> USE DEF AtWorker
<1>a. /\ job[j].ran \in Seq(Result) /\ JobOK(job[j])
  BY JobFields DEF WorkflowTypeOK, JobsType
(* On to a place of which nothing is said but that it may be a fault.      *)
<1>b. ASSUME NEW pc \in {"catch", "nack", "stats", "ack", "failstats"},
             Goto(j, pc), job[j].at = "worker",
             pc = "catch" => CallFault \/ FailedAtLast(job[j].ran)
      PROVE  /\ PathOK(job'[j])
             /\ AtWorker(j, "catch")' /\ Undisturbed' => FailedAtLast(job'[j].ran)
  <2>1. /\ job'[j].pc = pc /\ job'[j].at = "worker" /\ job'[j].ran = job[j].ran
    BY <1>b, JobIs
  <2>2. PathOK(job'[j])
    BY <2>1 DEF PathOK, BeforeRecord
  <2>3. QED
    BY <1>b, <2>1, <2>2, CallDisturbs
(* On to another place before the record of the same node.                 *)
<1>c. ASSUME NEW pc \in {"run", "hung", "count", "announce"}, Goto(j, pc),
             job[j].at = "worker", job[j].pc \in BeforeRecord,
             pc \in {"count", "announce"} =>
               NodeOf(job[j].graph, job[j].node).kind = "send"
      PROVE  PathOK(job'[j]) /\ job'[j].pc # "catch"
  <2>1. /\ job'[j].pc = pc /\ job'[j].at = "worker" /\ job'[j].ran = job[j].ran
        /\ job'[j].graph = job[j].graph /\ job'[j].node = job[j].node
    BY <1>c, JobIs
  <2>2. /\ Walk(job[j].ran, job[j].graph) /\ Succeeded(job[j].ran)
        /\ Follows(job[j].ran, job[j].graph, job[j].node)
    BY <1>c DEF PathOK
  <2>3. QED
    BY <1>c, <2>1, <2>2 DEF PathOK, BeforeRecord
<1>1. CASE MarkRunning(j)
  <2>1. job[j].at = "worker" /\ job[j].pc = "start"
    BY <1>1 DEF MarkRunning
  <2>2. CASE Goto(j, "nack")
    BY <1>b, <2>1, <2>2
  <2>3. CASE job' = [job EXCEPT ![j].pc = "loop",
                                ![j].node = FirstNode(job[j].graph)]
    <3>1. job[j].ran = <<>>
      BY <2>1 DEF PathOK
    <3>2. job'[j] = [job[j] EXCEPT !.pc = "loop", !.node = FirstNode(job[j].graph)]
      BY <2>3 DEF WorkflowTypeOK, JobsType
    <3>3. /\ job'[j].pc = "loop" /\ job'[j].at = "worker" /\ job'[j].ran = <<>>
          /\ job'[j].graph = job[j].graph /\ job'[j].node = FirstNode(job[j].graph)
      BY <2>1, <3>1, <3>2, JobFields DEF WorkflowTypeOK, JobsType, JobRecord
    <3>4. Walk(<<>>, job[j].graph) /\ Succeeded(<<>>)
          /\ Follows(<<>>, job[j].graph, FirstNode(job[j].graph))
      BY DEF Walk, Follows, Succeeded
    <3>5. PathOK(job'[j])
      BY <3>3, <3>4 DEF PathOK, BeforeRecord
    <3>6. QED
      BY <3>3, <3>5
  <2>4. QED
    BY <1>1, <2>2, <2>3 DEF MarkRunning
<1>2. CASE PushResult(j)
  <2>1. job[j].at = "worker" /\ job[j].pc \in BeforeRecord
    BY <1>2 DEF PushResult, BeforeRecord
  <2>2. Goto(j, "run") \/ (CallFault /\ Goto(j, "catch"))
    BY <1>2 DEF PushResult
  <2>3. QED
    BY <1>b, <1>c, <2>1, <2>2
<1>3. CASE RunNode(j)
  BY <1>3, RanPath DEF RunNode
<1>4. CASE HangNode(j)
  BY <1>4, <1>c DEF HangNode, BeforeRecord
<1>5. CASE PostMessage(j)
  <2>1. job[j].at = "worker" /\ job[j].pc \in BeforeRecord /\ job[j].pc = "run"
        /\ NodeOf(job[j].graph, job[j].node).kind = "send"
    BY <1>5 DEF PostMessage, BeforeRecord
  <2>2. Goto(j, "count") \/ Ran(j, "failed")
    BY <1>5 DEF PostMessage
  <2>3. QED
    BY <1>c, <2>1, <2>2, RanPath
<1>6. CASE CountMessage(j)
  <2>1. job[j].at = "worker" /\ job[j].pc \in BeforeRecord /\ job[j].pc = "count"
        /\ NodeOf(job[j].graph, job[j].node).kind = "send"
    BY <1>6 DEF CountMessage, BeforeRecord, PathOK
  <2>2. Goto(j, "announce") \/ Ran(j, "failed")
    BY <1>6 DEF CountMessage
  <2>3. QED
    BY <1>c, <2>1, <2>2, RanPath
<1>7. CASE AnnounceMessage(j)
  BY <1>7, RanPath DEF AnnounceMessage
<1>8. CASE RecordNode(j)
  <2> DEFINE n == Len(job[j].ran)
             ran == job[j].ran
             g == job[j].graph
  <2>1. job[j].at = "worker" /\ job[j].pc = "record" /\ ran # <<>>
    BY <1>8, <1>a DEF RecordNode, JobOK
  <2>2. \/ Goto(j, "catch") /\ (CallFault \/ ran[n].st = "failed")
        \/ /\ ran[n].st = "success"
           /\ \E next \in Successors(NodeOf(g, job[j].node)) :
                job' = [job EXCEPT ![j].pc = "loop", ![j].node = next]
    BY <1>8 DEF RecordNode
  <2>3. CASE Goto(j, "catch") /\ (CallFault \/ ran[n].st = "failed")
    BY <1>b, <2>1, <2>3 DEF FailedAtLast
  <2>4. ASSUME ran[n].st = "success",
               NEW next \in Successors(NodeOf(g, job[j].node)),
               job' = [job EXCEPT ![j].pc = "loop", ![j].node = next]
        PROVE  PathOK(job'[j]) /\ job'[j].pc # "catch"
    <3>0. job'[j] = [job[j] EXCEPT !.pc = "loop", !.node = next]
      BY <2>4 DEF WorkflowTypeOK, JobsType
    <3>1. /\ job'[j].pc = "loop" /\ job'[j].at = "worker" /\ job'[j].ran = ran
          /\ job'[j].graph = g /\ job'[j].node = next
      BY <2>1, <3>0, JobFields DEF WorkflowTypeOK, JobsType, JobRecord
    <3>2. /\ Walk(ran, g) /\ ran[n].node = job[j].node
          /\ \A i \in DOMAIN ran : i # n => ran[i].st = "success"
      BY <2>1 DEF PathOK
    <3>3. Follows(ran, g, next) /\ Succeeded(ran)
      BY <2>1, <2>4, <3>2 DEF Follows, Succeeded
    <3>4. QED
      BY <3>1, <3>2, <3>3 DEF PathOK, BeforeRecord
  <2>5. QED
    BY <2>2, <2>3, <2>4
<1>9. CASE MarkSuccess(j)
  <2>1. /\ job[j].at = "worker"
        /\ Goto(j, "stats") \/ (CallFault /\ Goto(j, "catch"))
    BY <1>9 DEF MarkSuccess
  <2>2. QED
    BY <1>b, <2>1
<1>10. CASE CountExecution(j)
  <2>1. /\ job[j].at = "worker"
        /\ Goto(j, "ack") \/ (CallFault /\ Goto(j, "catch"))
    BY <1>10 DEF CountExecution
  <2>2. QED
    BY <1>b, <2>1
<1>11. CASE MarkFailed(j)
  <2>1. job[j].at = "worker" /\ (Goto(j, "failstats") \/ Goto(j, "nack"))
    BY <1>11 DEF MarkFailed
  <2>2. QED
    BY <1>b, <2>1
<1>12. CASE MarkWorkflowFailed(j)
  <2>1. job[j].at = "worker" /\ Goto(j, "nack")
    BY <1>12 DEF MarkWorkflowFailed
  <2>2. QED
    BY <1>b, <2>1
<1>13. CASE AnswerBroker(j)
  <2>1. job'[j] = NoJob
    BY <1>13 DEF AnswerBroker, WorkflowTypeOK, JobsType
  <2>2. QED
    BY <2>1 DEF NoJob, PathOK, BeforeRecord
<1>14. QED
  BY <1>1, <1>2, <1>3, <1>4, <1>5, <1>6, <1>7, <1>8, <1>9, <1>10, <1>11,
     <1>12, <1>13 DEF HandleJob

LEMMA PathStep ==
    ASSUME WorkflowTypeOK, PathInv, WorkflowNext
    PROVE  PathInv'
<1> USE DEF AtWorker
<1>a. Undisturbed' => Undisturbed
  BY FaultsGrow
<1>b. ASSUME NEW j \in Jobs, job'[j] = job[j]
      PROVE  /\ PathOK(job'[j])
             /\ AtWorker(j, "catch")' /\ Undisturbed' => FailedAtLast(job'[j].ran)
  BY <1>a, <1>b DEF PathInv
<1>c. ASSUME NEW j \in Jobs, PathOK(job'[j]), job'[j].pc # "catch"
      PROVE  /\ PathOK(job'[j])
             /\ AtWorker(j, "catch")' /\ Undisturbed' => FailedAtLast(job'[j].ran)
  BY <1>c
<1>1. CASE UNCHANGED job
  BY <1>1, <1>b DEF PathInv
<1>2. ASSUME NEW q \in WorkflowRequests, PublishWorkflowJob(q)
      PROVE  PathInv'
  <2>1. CASE UNCHANGED job
    BY <1>1, <2>1
  <2>2. ASSUME NEW j \in Jobs,
               job' = [job EXCEPT ![j] = [NoJob EXCEPT
                 !.at = "queue", !.e = ask[q].e, !.graph = ask[q].graph]]
        PROVE  PathInv'
    <3>1. /\ \A i \in Jobs \ {j} : job'[i] = job[i]
          /\ job'[j].at = "queue" /\ job'[j].pc = "start" /\ job'[j].ran = <<>>
      BY <2>2 DEF WorkflowTypeOK, JobsType, NoJob
    <3>2. PathOK(job'[j])
      BY <3>1 DEF PathOK, BeforeRecord
    <3>3. QED
      BY <1>b, <1>c, <3>1, <3>2 DEF PathInv
  <2>3. QED
    BY <1>2, <2>1, <2>2 DEF PublishWorkflowJob
<1>3. ASSUME NEW j \in Jobs, HandleJob(j)
      PROVE  PathInv'
  <2>1. \A i \in Jobs \ {j} : job'[i] = job[i]
    BY <1>3, HandlerShape
  <2>2. /\ PathOK(job'[j])
        /\ AtWorker(j, "catch")' /\ Undisturbed' => FailedAtLast(job'[j].ran)
    BY <1>3, HandlerPath DEF PathInv
  <2>3. QED
    BY <1>b, <2>1, <2>2 DEF PathInv
<1>4. ASSUME NEW j \in Jobs, Deliver(j)
      PROVE  PathInv'
  <2>1. job[j].at = "queue" /\ job' = [job EXCEPT ![j].at = "worker"]
    BY <1>4 DEF Deliver
  <2>2. /\ \A i \in Jobs \ {j} : job'[i] = job[i]
        /\ job'[j].pc = "start" /\ job'[j].ran = <<>>
    BY <2>1, JobFields DEF WorkflowTypeOK, JobsType, JobRecord, PathInv, PathOK
  <2>3. PathOK(job'[j])
    BY <2>2 DEF PathOK, BeforeRecord
  <2>4. QED
    BY <1>b, <1>c, <2>2, <2>3 DEF PathInv
<1>5. ASSUME NEW j \in Jobs, ExpireJob(j)
      PROVE  PathInv'
  <2>1. \A i \in Jobs : job'[i] = job[i] \/ job'[i] = NoJob
    BY <1>5 DEF ExpireJob, WorkflowTypeOK, JobsType
  <2>2. PathOK(NoJob) /\ NoJob.pc # "catch"
    BY DEF NoJob, PathOK, BeforeRecord
  <2>3. QED
    BY <1>b, <1>c, <2>1, <2>2 DEF PathInv
<1>6. CASE CrashWorker
  <2>1. \A j \in Jobs :
          \/ job'[j] = job[j]
          \/ job'[j] = [NoJob EXCEPT !.at = "queue", !.e = job[j].e,
                                     !.graph = job[j].graph]
    BY <1>6 DEF CrashWorker
  <2>2. \A j \in Jobs :
          \/ job'[j] = job[j]
          \/ job'[j].at = "queue" /\ job'[j].pc = "start" /\ job'[j].ran = <<>>
    BY <2>1 DEF NoJob
  <2>3. \A j \in Jobs : 
          job'[j] = job[j] \/ (PathOK(job'[j]) /\ job'[j].pc # "catch")
    BY <2>2 DEF PathOK, BeforeRecord
  <2>4. QED
    BY <1>b, <1>c, <2>3 DEF PathInv
<1>7. QED
  BY <1>1, <1>2, <1>3, <1>4, <1>5, <1>6
  DEF WorkflowNext, HandleRequest, TriggerRead, TriggerCreate, RetryRead, RetryFind,
      RetryReset, CreateWorkflow, UpdateWorkflow, SetWorkflowEnabled, DeleteWorkflow


-----------------------------------------------------------------------------
(* The run that is in play, as long as there is only one of an execution.  *)

Works(j) ==
    /\ job[j].at = "worker"
    /\ job[j].pc \in {"loop", "run", "hung", "count", "announce", "record"}

Alone(e) ==
    /\ \A i, j \in Jobs : Playing(i, e) /\ Playing(j, e) => i = j
    /\ \A p, q \in WorkflowRequests : Asks(p, e) /\ Asks(q, e) => p = q
    /\ \A j \in Jobs, q \in WorkflowRequests : ~(Playing(j, e) /\ Asks(q, e))

(* It has the nodes published last, unless it is on its way to fail.       *)
Planned(j, e) ==
    Playing(j, e) /\ ~AtWorker(j, "catch") => job[j].graph = plan[e]

PlanOf(e) ==
    /\ \A j \in Jobs : Planned(j, e)
    /\ \A q \in WorkflowRequests : Asks(q, e) => ask[q].graph = plan[e]
    /\ execution[e].status = "success" => FullRun(execution[e].results, plan[e])

RunOf(e) ==
    /\ Alone(e)
    /\ \A j \in Jobs : job[j].e = e /\ Works(j) => execution[e].status = "running"
    /\ ~redone[e] => PlanOf(e)
    /\ execution[e].status = "failed" /\ Undisturbed =>
         FailedAtLast(execution[e].results)

RunInv == \A e \in Executions : ~overlapped[e] => RunOf(e)

LEMMA AtMostSingle ==
    ASSUME NEW S, IsFiniteSet(S), ~(Cardinality(S) > 1)
    PROVE  \A x, y \in S : x = y
<1> SUFFICES ASSUME NEW x \in S, NEW y \in S, x # y
             PROVE  FALSE
  OBVIOUS
<1>1. {x, y} \subseteq S
  OBVIOUS
<1>2. Cardinality({x}) = 1 /\ IsFiniteSet({x}) /\ y \notin {x}
  BY FS_Singleton
<1>3. Cardinality({x} \cup {y}) = Cardinality({x}) + 1
  BY <1>2, FS_AddElement
<1>4. {x} \cup {y} = {x, y}
  OBVIOUS
<1>5. Cardinality({x, y}) <= Cardinality(S) /\ Cardinality(S) \in Nat
  BY <1>1, FS_Subset, FS_CardinalityType
<1>6. QED
  BY <1>2, <1>3, <1>4, <1>5

LEMMA InPlayOne ==
    ASSUME Watch, NEW e \in Executions, ~overlapped'[e]
    PROVE  ~overlapped[e] /\ Alone(e)'
<1> DEFINE P == {j \in Jobs : Playing(j, e)}
           Q == {q \in WorkflowRequests : ask[q].pc = "publish" /\ ask[q].e = e}
<1>1. ~overlapped[e] /\ ~(Cardinality(P') + Cardinality(Q') > 1)
  BY DEF Watch, InPlay
<1>2. IsFiniteSet(P') /\ IsFiniteSet(Q')
  <2>1. IsFiniteSet(Jobs) /\ IsFiniteSet(WorkflowRequests)
    BY WorkflowAssumption
  <2>2. P' \subseteq Jobs /\ Q' \subseteq WorkflowRequests
    OBVIOUS
  <2>3. QED
    BY <2>1, <2>2, FS_Subset
<1>3. /\ \A j \in Jobs : Playing(j, e)' <=> j \in P'
      /\ \A q \in WorkflowRequests : Asks(q, e)' <=> q \in Q'
  BY DEF Asks
<1> HIDE DEF P, Q
<1>4. /\ Cardinality(P') \in Nat /\ Cardinality(Q') \in Nat
      /\ Cardinality(P') = 0 <=> P' = {}
      /\ Cardinality(Q') = 0 <=> Q' = {}
  BY <1>2, FS_CardinalityType, FS_EmptySet
<1>5. P' = {} \/ Q' = {}
  BY <1>1, <1>4
<1>6. ~(Cardinality(P') > 1) /\ ~(Cardinality(Q') > 1)
  BY <1>1, <1>4
<1>7. (\A x, y \in P' : x = y) /\ (\A x, y \in Q' : x = y)
  BY <1>2, <1>6, AtMostSingle
<1>8. QED
  BY <1>1, <1>3, <1>5, <1>7 DEF Alone

LEMMA RunInit == WorkflowInit => PathInv /\ RunInv
<1> SUFFICES ASSUME WorkflowInit
             PROVE  PathInv /\ RunInv
  OBVIOUS
<1>1. \A j \in Jobs : job[j] = NoJob
  BY DEF WorkflowInit
<1>2. PathInv
  BY <1>1 DEF PathInv, PathOK, NoJob, AtWorker, BeforeRecord
<1>3. RunInv
  BY <1>1 DEF WorkflowInit, RunInv, RunOf, Alone, PlanOf, Planned, Works, Playing,
              Asks, NoJob, NoAsk, NoExecution
<1>4. QED
  BY <1>2, <1>3

(* No run begins or ends.                                                  *)
LEMMA RunFrame ==
    ASSUME NEW e \in Executions, RunOf(e), Alone(e)',
           Undisturbed' => Undisturbed, redone[e] => redone'[e],
           execution'[e] = execution[e], plan'[e] = plan[e],
           \A j \in Jobs : job'[j].e = e /\ Works(j)' => job[j].e = e /\ Works(j),
           ~redone'[e] => \A j \in Jobs : Planned(j, e) => Planned(j, e)',
           \A q \in WorkflowRequests :
             Asks(q, e)' => Asks(q, e) /\ ask'[q].graph = ask[q].graph
    PROVE  RunOf(e)'
<1>1. ~redone'[e] => PlanOf(e)'
  BY DEF RunOf, PlanOf
<1>2. QED
  BY <1>1 DEF RunOf

(* A run begins that nobody has published yet.                             *)
LEMMA RunFresh ==
    ASSUME NEW e \in Executions, NEW q \in WorkflowRequests, Alone(e)',
           execution'[e].status = "queued",
           Asks(q, e)', ask'[q].graph = plan'[e]
    PROVE  RunOf(e)'
<1>1. \A j \in Jobs : ~Playing(j, e)'
  BY DEF Alone
<1>2. \A p \in WorkflowRequests : Asks(p, e)' => p = q
  BY DEF Alone
<1>3. PlanOf(e)'
  BY <1>1, <1>2 DEF PlanOf, Planned
<1>4. \A j \in Jobs : ~(job'[j].e = e /\ Works(j)')
  BY <1>1 DEF Works, Playing, Over
<1>5. QED
  BY <1>3, <1>4 DEF RunOf

(* What a handler writes of its execution.                                 *)
DocStep(j) ==
    LET e == job[j].e IN
    \/ execution'[e] = execution[e] /\ ~(Works(j)' /\ ~Works(j))
    \/ execution'[e].status = "running" /\ job[j].pc = "start"
    \/ Works(j) /\ execution'[e].status = execution[e].status
    \/ /\ job[j].pc = "loop" /\ job'[j].pc = "stats"
       /\ ~Known(job[j].graph, job[j].node)
       /\ execution'[e].status = "success" /\ execution'[e].results = job[j].ran
    \/ /\ job[j].pc = "catch" /\ job'[j].pc = "failstats"
       /\ execution'[e].status = "failed" /\ execution'[e].results = job[j].ran

LEMMA HandlerDoc ==
    ASSUME WorkflowTypeOK, NEW j \in Jobs, HandleJob(j)
    PROVE  DocStep(j)
<1> USE DEF DocStep, Works, AtWorker
<1>0. PICK e \in Executions : e = job[j].e
  BY HandlerShape
<1>a. ASSUME NEW pc \in JobPc, Goto(j, pc)
      PROVE  job'[j].pc = pc /\ job'[j].at = job[j].at
  BY <1>a, JobIs
<1>1. CASE MarkRunning(j)
  <2>1. /\ job[j].at = "worker" /\ job[j].pc = "start"
        /\ \/ execution' = [execution EXCEPT ![e].status = "running"]
           \/ UNCHANGED execution /\ Goto(j, "nack")
    BY <1>0, <1>1 DEF MarkRunning
  <2>2. CASE execution' = [execution EXCEPT ![e].status = "running"]
    <3>1. execution'[e].status = "running"
      BY <2>2, DocIs
    <3>2. QED
      BY <1>0, <2>1, <3>1
  <2>3. CASE UNCHANGED execution /\ Goto(j, "nack")
    BY <1>a, <2>3 DEF JobPc, Over
  <2>4. QED
    BY <2>1, <2>2, <2>3
<1>2. CASE PushResult(j)
  <2>1. /\ Works(j)
        /\ \/ UNCHANGED execution
           \/ execution' = [execution EXCEPT ![e].results =
                Append(@, [node |-> job[j].node, st |-> "running"])]
    BY <1>0, <1>2 DEF PushResult
  <2>2. execution'[e].status = execution[e].status
    BY <2>1, DocIs
  <2>3. QED
    BY <1>0, <2>1, <2>2
<1>3. CASE RunNode(j) \/ HangNode(j) \/ PostMessage(j) \/ CountMessage(j)
           \/ AnnounceMessage(j)
  BY <1>3 DEF RunNode, HangNode, PostMessage, CountMessage, AnnounceMessage
<1>4. CASE RecordNode(j)
  <2>1. Works(j)
    BY <1>4 DEF RecordNode
  <2>2. \/ UNCHANGED execution
        \/ \E results : execution' = [execution EXCEPT ![e].results = results]
    BY <1>0, <1>4 DEF RecordNode
  <2>3. execution'[e].status = execution[e].status
    BY <2>2 DEF WorkflowTypeOK, ExecutionDoc
  <2>4. QED
    BY <1>0, <2>1, <2>3
<1>5. CASE MarkSuccess(j)
  <2>1. /\ Works(j) /\ job[j].pc = "loop" /\ ~Known(job[j].graph, job[j].node)
        /\ \/ UNCHANGED execution
           \/ /\ execution' = [execution EXCEPT ![e].status = "success",
                                                ![e].results = job[j].ran]
              /\ Goto(j, "stats")
    BY <1>0, <1>5 DEF MarkSuccess
  <2>2. CASE UNCHANGED execution
    BY <2>1, <2>2
  <2>3. CASE /\ execution' = [execution EXCEPT ![e].status = "success",
                                               ![e].results = job[j].ran]
             /\ Goto(j, "stats")
    <3>1. /\ execution'[e].status = "success"
          /\ execution'[e].results = job[j].ran
      BY <2>3 DEF WorkflowTypeOK, ExecutionDoc
    <3>2. job'[j].pc = "stats"
      BY <1>a, <2>3 DEF JobPc, Over
    <3>3. QED
      BY <1>0, <2>1, <3>1, <3>2
  <2>4. QED
    BY <2>1, <2>2, <2>3
<1>6. CASE CountExecution(j)
  <2>1. UNCHANGED execution /\ (Goto(j, "ack") \/ Goto(j, "catch"))
    BY <1>6 DEF CountExecution
  <2>2. job'[j].pc \in {"ack", "catch"}
    BY <1>a, <2>1 DEF JobPc, Over
  <2>3. QED
    BY <2>1, <2>2
<1>7. CASE MarkFailed(j)
  <2>1. /\ job[j].pc = "catch"
        /\ \/ UNCHANGED execution /\ Goto(j, "nack")
           \/ /\ execution' = [execution EXCEPT ![e].status = "failed",
                                                ![e].results = job[j].ran]
              /\ Goto(j, "failstats")
    BY <1>0, <1>7 DEF MarkFailed
  <2>2. CASE UNCHANGED execution /\ Goto(j, "nack")
    BY <1>a, <2>2 DEF JobPc, Over
  <2>3. CASE /\ execution' = [execution EXCEPT ![e].status = "failed",
                                               ![e].results = job[j].ran]
             /\ Goto(j, "failstats")
    <3>1. /\ execution'[e].status = "failed"
          /\ execution'[e].results = job[j].ran
      BY <2>3 DEF WorkflowTypeOK, ExecutionDoc
    <3>2. job'[j].pc = "failstats"
      BY <1>a, <2>3 DEF JobPc, Over
    <3>3. QED
      BY <1>0, <2>1, <3>1, <3>2
  <2>4. QED
    BY <2>1, <2>2, <2>3
<1>8. CASE MarkWorkflowFailed(j)
  <2>1. UNCHANGED execution /\ Goto(j, "nack")
    BY <1>8 DEF MarkWorkflowFailed
  <2>2. job'[j].pc = "nack"
    BY <1>a, <2>1 DEF JobPc, Over
  <2>3. QED
    BY <2>1, <2>2
<1>9. CASE AnswerBroker(j)
  <2>1. UNCHANGED execution /\ job'[j] = NoJob
    BY <1>9 DEF AnswerBroker, WorkflowTypeOK, JobsType
  <2>2. QED
    BY <2>1 DEF NoJob
<1>10. QED
  BY <1>1, <1>2, <1>3, <1>4, <1>5, <1>6, <1>7, <1>8, <1>9 DEF HandleJob

LEMMA HandlerRun ==
    ASSUME WorkflowTypeOK, PathInv, RunInv, NEW j \in Jobs, HandleJob(j),
           Undisturbed' => Undisturbed,
           NEW e \in Executions, ~overlapped[e], Alone(e)'
    PROVE  RunOf(e)'
<1>1. /\ UNCHANGED <<ask, plan, raced, redone>>
      /\ job[j].at = "worker" /\ job[j].e \in Executions
      /\ \A i \in Jobs \ {j} : job'[i] = job[i]
      /\ \A d \in Executions : d # job[j].e => execution'[d] = execution[d]
  BY HandlerShape
<1>2. \/ job'[j] = NoJob /\ job[j].pc \in {"ack", "nack"}
      \/ /\ job'[j].at = "worker" /\ job'[j].e = job[j].e
         /\ job'[j].graph = job[j].graph
         /\ <<job[j].pc, job'[j].pc>> \in Edges
  BY HandlerShape
<1>3. RunOf(e)
  BY DEF RunInv
<1>4. \A i \in Jobs : Playing(i, e)' => Playing(i, e) \/ AtWorker(i, "catch")'
  BY <1>1, <1>2 DEF Playing, Edges, Over, NoJob, AtWorker
<1>5. \A i \in Jobs : Playing(i, e)' /\ ~AtWorker(i, "catch")' =>
        ~AtWorker(i, "catch") /\ job'[i].graph = job[i].graph
  BY <1>1, <1>2 DEF Playing, Edges, Over, NoJob, AtWorker
<1>6. \A i \in Jobs : Planned(i, e) => Planned(i, e)'
  BY <1>1, <1>4, <1>5 DEF Planned
<1>7. \A q \in WorkflowRequests :
        Asks(q, e)' => Asks(q, e) /\ ask'[q].graph = ask[q].graph
  BY <1>1 DEF Asks
<1>8. \A i \in Jobs : job'[i].e = e /\ Works(i)' =>
        job[i].e = e /\ (Works(i) \/ (i = j /\ job[j].pc = "start"))
  BY <1>1, <1>2 DEF Works, Edges, NoJob
<1>9. DocStep(j)
  BY HandlerDoc
<1>10. CASE e # job[j].e
  <2>1. \A i \in Jobs : job'[i].e = e /\ Works(i)' => job[i].e = e /\ Works(i)
    BY <1>8, <1>10
  <2>2. QED
    BY <1>1, <1>3, <1>6, <1>7, <1>10, <2>1, RunFrame
<1>11. CASE e = job[j].e
  <2>1. CASE execution'[e] = execution[e] /\ ~(Works(j)' /\ ~Works(j))
    <3>1. \A i \in Jobs : job'[i].e = e /\ Works(i)' => job[i].e = e /\ Works(i)
      BY <1>8, <2>1
    <3>2. QED
      BY <1>1, <1>3, <1>6, <1>7, <2>1, <3>1, RunFrame
  <2>2. CASE \/ execution'[e].status = "running" /\ job[j].pc = "start"
             \/ Works(j) /\ execution'[e].status = execution[e].status
    <3>1. execution'[e].status = "running"
      BY <1>3, <1>11, <2>2 DEF RunOf
    <3>2. ~redone'[e] => PlanOf(e)'
      BY <1>1, <1>3, <1>6, <1>7, <3>1 DEF RunOf, PlanOf
    <3>3. QED
      BY <3>1, <3>2 DEF RunOf
  <2>3. CASE /\ job[j].pc = "loop" /\ job'[j].pc = "stats"
             /\ ~Known(job[j].graph, job[j].node)
             /\ execution'[e].status = "success"
             /\ execution'[e].results = job[j].ran
    <3>1. Playing(j, e) /\ ~Playing(j, e)' /\ ~AtWorker(j, "catch")
      BY <1>1, <1>2, <1>11, <2>3 DEF Playing, Over, NoJob, AtWorker
    <3>2. \A i \in Jobs : job'[i].e = e /\ Works(i)' => Playing(i, e)' /\ Playing(i, e)
      BY <1>4 DEF Works, Playing, Over, AtWorker
    <3>3. \A i \in Jobs : ~(job'[i].e = e /\ Works(i)')
      BY <1>3, <3>1, <3>2 DEF RunOf, Alone
    <3>4. FullRun(job[j].ran, job[j].graph)
      <4>1. /\ Walk(job[j].ran, job[j].graph) /\ Succeeded(job[j].ran)
            /\ Follows(job[j].ran, job[j].graph, job[j].node)
        BY <2>3 DEF PathInv, PathOK, BeforeRecord
      <4>2. QED
        BY <2>3, <4>1, PathEnds
    <3>5. ~redone'[e] => job[j].graph = plan[e]
      BY <1>1, <1>3, <3>1 DEF RunOf, PlanOf, Planned
    <3>6. ~redone'[e] => PlanOf(e)'
      BY <1>1, <1>3, <1>6, <1>7, <2>3, <3>4, <3>5 DEF RunOf, PlanOf
    <3>7. QED
      BY <2>3, <3>3, <3>6 DEF RunOf
  <2>4. CASE /\ job[j].pc = "catch" /\ job'[j].pc = "failstats"
             /\ execution'[e].status = "failed"
             /\ execution'[e].results = job[j].ran
    <3>1. Playing(j, e) /\ ~Playing(j, e)'
      BY <1>1, <1>2, <1>11, <2>4 DEF Playing, Over, NoJob
    <3>2. \A i \in Jobs : job'[i].e = e /\ Works(i)' => Playing(i, e)' /\ Playing(i, e)
      BY <1>4 DEF Works, Playing, Over, AtWorker
    <3>3. \A i \in Jobs : ~(job'[i].e = e /\ Works(i)')
      BY <1>3, <3>1, <3>2 DEF RunOf, Alone
    <3>4. Undisturbed' => FailedAtLast(execution'[e].results)
      BY <1>1, <2>4 DEF PathInv, AtWorker
    <3>5. ~redone'[e] => PlanOf(e)'
      BY <1>1, <1>3, <1>6, <1>7, <2>4 DEF RunOf, PlanOf
    <3>6. QED
      BY <2>4, <3>3, <3>4, <3>5 DEF RunOf
  <2>5. QED
    BY <1>9, <1>11, <2>1, <2>2, <2>3, <2>4 DEF DocStep
<1>12. QED
  BY <1>10, <1>11

LEMMA RequestRun ==
    ASSUME WorkflowTypeOK, NEW q \in WorkflowRequests, HandleRequest(q),
           Undisturbed' => Undisturbed,
           NEW e \in Executions, RunOf(e), Alone(e)'
    PROVE  RunOf(e)'
<1> USE DEF Playing, Planned, Works, AtWorker, Asks
(* What the request does to the others.                                    *)
<1>a. ASSUME NEW d \in Executions \cup {NoNode}, NEW pc, NEW g, NEW x,
             Await(q, pc, d, g, x)
      PROVE  /\ \A p \in WorkflowRequests \ {q} : ask'[p] = ask[p]
             /\ ask'[q].pc = pc /\ ask'[q].e = d /\ ask'[q].graph = g
  BY <1>a DEF Await, WorkflowTypeOK
<1>b. ASSUME UNCHANGED <<execution, job, plan, redone>>,
             \A p \in WorkflowRequests \ {q} : ask'[p] = ask[p],
             ask'[q].pc # "publish"
      PROVE  RunOf(e)'
  BY <1>b, RunFrame
<1>c. ASSUME NEW d \in Executions, UNCHANGED <<job, redone>>,
             execution'[d].status = "queued", plan'[d] = ask[q].graph,
             \A c \in Executions \ {d} :
               execution'[c] = execution[c] /\ plan'[c] = plan[c],
             Await(q, "publish", d, ask[q].graph, NoExecution)
      PROVE  RunOf(e)'
  <2>1. /\ \A p \in WorkflowRequests \ {q} : ask'[p] = ask[p]
        /\ ask'[q].pc = "publish" /\ ask'[q].e = d /\ ask'[q].graph = ask[q].graph
    BY <1>a, <1>c
  <2>2. CASE e = d
    BY <1>c, <2>1, <2>2, RunFresh
  <2>3. CASE e # d
    <3>1. \A p \in WorkflowRequests :
            Asks(p, e)' => Asks(p, e) /\ ask'[p].graph = ask[p].graph
      BY <2>1, <2>3
    <3>2. QED
      BY <1>c, <2>3, <3>1, RunFrame
  <2>4. QED
    BY <2>2, <2>3
<1>1. CASE TriggerRead(q)
  <2>1. /\ UNCHANGED <<execution, job, plan, redone>>
        /\ Await(q, "create", NoNode, workflow.nodes, NoExecution)
    BY <1>1 DEF TriggerRead
  <2>2. QED
    BY <1>a, <1>b, <2>1
<1>2. CASE TriggerCreate(q)
  <2>1. PICK d \in Unused :
          /\ execution' = [execution EXCEPT ![d].status = "queued"]
          /\ plan' = [plan EXCEPT ![d] = ask[q].graph]
          /\ Await(q, "publish", d, ask[q].graph, NoExecution)
    BY <1>2 DEF TriggerCreate
  <2>2. UNCHANGED <<job, redone>> /\ d \in Executions
    BY <1>2 DEF TriggerCreate, Unused
  <2>3. /\ execution'[d].status = "queued"
        /\ \A c \in Executions \ {d} : execution'[c] = execution[c]
    BY <2>1, <2>2, DocIs
  <2>4. /\ plan'[d] = ask[q].graph
        /\ \A c \in Executions \ {d} : plan'[c] = plan[c]
    BY <2>1, <2>2 DEF WorkflowTypeOK
  <2>5. QED
    BY <1>c, <2>1, <2>2, <2>3, <2>4
<1>3. CASE RetryRead(q)
  <2>1. PICK d \in Executions : Await(q, "find", d, <<>>, execution[d])
    BY <1>3 DEF RetryRead
  <2>2. UNCHANGED <<execution, job, plan, redone>>
    BY <1>3 DEF RetryRead
  <2>3. QED
    BY <1>a, <1>b, <2>1, <2>2
<1>4. CASE RetryFind(q)
  <2>1. /\ ask[q].pc = "find"
        /\ \/ Await(q, "reset", ask[q].e, workflow.nodes, ask[q].seen)
           \/ Await(q, "done", NoNode, <<>>, NoExecution)
        /\ UNCHANGED <<execution, job, plan, redone>>
    BY <1>4 DEF RetryFind
  <2>2. ask[q].e \in Executions
    BY <2>1 DEF WorkflowTypeOK
  <2>3. CASE Await(q, "reset", ask[q].e, workflow.nodes, ask[q].seen)
    BY <1>a, <1>b, <2>1, <2>2, <2>3
  <2>4. CASE Await(q, "done", NoNode, <<>>, NoExecution)
    BY <1>a, <1>b, <2>1, <2>4
  <2>5. QED
    BY <2>1, <2>3, <2>4
<1>5. CASE RetryReset(q)
  <2>0. PICK d \in Executions : d = ask[q].e
    BY <1>5 DEF RetryReset, WorkflowTypeOK
  <2>1. /\ execution' = [execution EXCEPT ![d].status = "queued",
                                          ![d].retries = @ + 1]
        /\ plan' = [plan EXCEPT ![d] = ask[q].graph]
        /\ Await(q, "publish", d, ask[q].graph, NoExecution)
        /\ UNCHANGED <<job, redone>>
    BY <1>5, <2>0 DEF RetryReset
  <2>2. /\ execution'[d].status = "queued"
        /\ \A c \in Executions \ {d} : execution'[c] = execution[c]
    BY <2>1 DEF WorkflowTypeOK, ExecutionDoc
  <2>3. /\ plan'[d] = ask[q].graph
        /\ \A c \in Executions \ {d} : plan'[c] = plan[c]
    BY <2>1 DEF WorkflowTypeOK
  <2>4. QED
    BY <1>c, <2>1, <2>2, <2>3
<1>6. CASE PublishWorkflowJob(q)
  <2>1. /\ ask[q].pc = "publish"
        /\ Await(q, "done", NoNode, <<>>, NoExecution)
        /\ UNCHANGED <<execution, plan, redone>>
    BY <1>6 DEF PublishWorkflowJob
  <2>2. /\ \A p \in WorkflowRequests \ {q} : ask'[p] = ask[p]
        /\ ask'[q].pc = "done"
    BY <1>a, <2>1
  <2>3. CASE UNCHANGED job
    BY <1>b, <2>1, <2>2, <2>3
  <2>4. ASSUME NEW j \in Jobs,
               job' = [job EXCEPT ![j] = [NoJob EXCEPT
                 !.at = "queue", !.e = ask[q].e, !.graph = ask[q].graph]]
        PROVE  RunOf(e)'
    <3>1. /\ job'[j].at = "queue" /\ job'[j].e = ask[q].e
          /\ job'[j].graph = ask[q].graph
          /\ \A i \in Jobs \ {j} : job'[i] = job[i]
      BY <2>4 DEF WorkflowTypeOK, JobsType, NoJob
    <3>2. ~redone'[e] => \A i \in Jobs : Planned(i, e) => Planned(i, e)'
      BY <2>1, <3>1 DEF RunOf, PlanOf
    <3>3. \A i \in Jobs : job'[i].e = e /\ Works(i)' => job[i].e = e /\ Works(i)
      BY <3>1
    <3>4. \A p \in WorkflowRequests :
            Asks(p, e)' => Asks(p, e) /\ ask'[p].graph = ask[p].graph
      BY <2>2
    <3>5. QED
      BY <2>1, <3>2, <3>3, <3>4, RunFrame
  <2>5. QED
    BY <1>6, <2>3, <2>4 DEF PublishWorkflowJob
<1>7. QED
  BY <1>1, <1>2, <1>3, <1>4, <1>5, <1>6 DEF HandleRequest

LEMMA BrokerRun ==
    ASSUME WorkflowTypeOK, WorkflowNext,
           \/ CrashWorker
           \/ \E j \in Jobs : Deliver(j) \/ ExpireJob(j)
           \/ CreateWorkflow \/ UpdateWorkflow
           \/ SetWorkflowEnabled \/ DeleteWorkflow,
           Undisturbed' => Undisturbed, PathInv,
           NEW e \in Executions, RunOf(e), Alone(e)'
    PROVE  RunOf(e)'
<1> USE DEF Playing, Planned, Works, AtWorker
<1>a. ASSUME UNCHANGED <<execution, plan, ask>>, redone[e] => redone'[e],
             ~redone'[e] => \A i \in Jobs : Planned(i, e) => Planned(i, e)',
             \A i \in Jobs : job'[i].e = e /\ Works(i)' => job[i].e = e /\ Works(i)
      PROVE  RunOf(e)'
  BY <1>a, RunFrame DEF Asks
<1>1. CASE CreateWorkflow \/ UpdateWorkflow \/ SetWorkflowEnabled
           \/ DeleteWorkflow
  <2>1. UNCHANGED <<execution, job, plan, ask, redone>>
    BY <1>1 DEF CreateWorkflow, UpdateWorkflow, SetWorkflowEnabled,
                DeleteWorkflow
  <2>2. QED
    BY <1>a, <2>1
<1>2. ASSUME NEW j \in Jobs, Deliver(j)
      PROVE  RunOf(e)'
  <2>1. /\ job[j].at = "queue" /\ job' = [job EXCEPT ![j].at = "worker"]
        /\ UNCHANGED <<execution, plan, ask, redone>>
    BY <1>2 DEF Deliver
  <2>2. /\ \A i \in Jobs \ {j} : job'[i] = job[i]
        /\ job'[j].pc = "start" /\ job'[j].e = job[j].e
        /\ job'[j].graph = job[j].graph
    BY <2>1, JobFields DEF WorkflowTypeOK, JobsType, JobRecord, PathInv, PathOK
  <2>3. QED
    BY <1>a, <2>1, <2>2 DEF Over
<1>3. ASSUME NEW j \in Jobs, ExpireJob(j)
      PROVE  RunOf(e)'
  <2>1. /\ \A i \in Jobs \ {j} : job'[i] = job[i]
        /\ job'[j].at = "unused"
        /\ UNCHANGED <<execution, plan, ask, redone>>
    BY <1>3 DEF ExpireJob, WorkflowTypeOK, JobsType, NoJob
  <2>2. QED
    BY <1>a, <2>1
<1>4. CASE CrashWorker
  <2>1. /\ job' = [j \in Jobs |->
             IF job[j].at = "worker"
             THEN [NoJob EXCEPT !.at = "queue", !.e = job[j].e,
                                !.graph = job[j].graph]
             ELSE job[j]]
        /\ redone' = [d \in Executions |->
             \/ redone[d]
             \/ \E j \in Jobs : job[j].e = d /\ job[j].at = "worker"
                   /\ (job[j].pc \in Over \/ job[j].graph # plan[d])]
        /\ UNCHANGED <<execution, plan, ask>>
    BY <1>4 DEF CrashWorker
  <2>2. \A j \in Jobs :
          IF job[j].at = "worker"
          THEN /\ job'[j].at = "queue" /\ job'[j].e = job[j].e
               /\ job'[j].graph = job[j].graph
          ELSE job'[j] = job[j]
    BY <2>1 DEF NoJob
  <2>3. \A j \in Jobs :
          ~redone'[e] /\ job[j].at = "worker" /\ job[j].e = e =>
            job[j].graph = plan[e]
    BY <2>1
  <2>4. ~redone'[e] => \A i \in Jobs : Planned(i, e) => Planned(i, e)'
    BY <2>1, <2>2, <2>3
  <2>5. QED
    BY <1>a, <2>1, <2>2, <2>4
<1>5. QED
  BY <1>1, <1>2, <1>3, <1>4

LEMMA RunStep ==
    ASSUME WorkflowTypeOK, PathInv, RunInv, WorkflowNext
    PROVE  RunInv'
<1>1. ASSUME NEW e \in Executions, ~overlapped'[e]
      PROVE  RunOf(e)'
  <2>1. Undisturbed' => Undisturbed
    BY FaultsGrow
  <2>2. ~overlapped[e] /\ Alone(e)'
    BY <1>1, InPlayOne DEF WorkflowNext
  <2>3. RunOf(e)
    BY <2>2 DEF RunInv
  <2>4. QED
    BY <2>1, <2>2, <2>3, RequestRun, HandlerRun, BrokerRun DEF WorkflowNext
<1>2. QED
  BY <1>1 DEF RunInv

-----------------------------------------------------------------------------
(* What an undisturbed first run has posted, by where its handler is.      *)

Mine(j, e) == job[j].at # "unused" /\ job[j].e = e

Posted(e, p, c) == posted[e] = p /\ counted[e] = c

PostedBy(j, e) ==
    LET n == Sends(job[j].ran, job[j].graph) IN
    /\ job[j].at = "queue" \/ job[j].pc = "start" => Posted(e, 0, 0)
    /\ AtWorker(j, "loop") \/ AtWorker(j, "run") => Posted(e, n, n)
    /\ AtWorker(j, "count") => Posted(e, n + 1, n)
    /\ AtWorker(j, "announce") => Posted(e, n + 1, n + 1)
    /\ AtWorker(j, "record") /\ job[j].ran[Len(job[j].ran)].st = "success" =>
         Posted(e, n, n)

PostedAll(e) ==
    LET n == Sends(execution[e].results, plan[e]) IN Posted(e, n, n)

FirstRunOf(e) ==
    /\ \A i, j \in Jobs : Mine(i, e) /\ Mine(j, e) => i = j
    /\ \A p, q \in WorkflowRequests : Asks(p, e) /\ Asks(q, e) => p = q
    /\ \A j \in Jobs, q \in WorkflowRequests : ~(Mine(j, e) /\ Asks(q, e))
    /\ execution[e].status = "none" =>
         /\ \A j \in Jobs : ~Mine(j, e)
         /\ \A q \in WorkflowRequests : ~Asks(q, e)
         /\ Posted(e, 0, 0)
    /\ \A q \in WorkflowRequests : Asks(q, e) => Posted(e, 0, 0)
    /\ \A j \in Jobs : Mine(j, e) => PostedBy(j, e)
    /\ execution[e].status = "success" => PostedAll(e)

FirstRun(e) == Undisturbed /\ ~overlapped[e] /\ execution[e].retries = 0

FirstInv == \A e \in Executions : FirstRun(e) => FirstRunOf(e)

(* What a step that no call failed posts.                                  *)
PostStep(j, e) ==
    /\ \A d \in Executions \ {e} : posted'[d] = posted[d] /\ counted'[d] = counted[d]
    /\ PostedBy(j, e) => PostedBy(j, e)' \/ job'[j].at = "unused"
    /\ Works(j) \/ Posted(e, posted'[e], counted'[e])
    /\ job[j].pc = "loop" /\ job'[j].pc = "stats" =>
         Posted(e, posted'[e], counted'[e])

LEMMA RanPosts ==
    ASSUME WorkflowTypeOK, NEW j \in Jobs, NEW e \in Executions,
           job[j].at = "worker", NEW st \in {"success", "failed"}, Ran(j, st),
           UNCHANGED <<posted, counted>>, Works(j),
           \/ st = "failed"
           \/ job[j].pc = "run" /\ NodeOf(job[j].graph, job[j].node).kind # "send"
           \/ job[j].pc = "announce" /\ NodeOf(job[j].graph, job[j].node).kind = "send"
    PROVE  PostStep(j, e)
<1>1. PICK x : x = [node |-> job[j].node, st |-> st]
  OBVIOUS
<1>2. /\ job'[j].pc = "record" /\ job'[j].at = "worker"
      /\ job'[j].graph = job[j].graph /\ job'[j].ran = Append(job[j].ran, x)
  BY <1>1, JobIs
<1>3. /\ job[j].ran \in Seq(Result)
      /\ x \in Result /\ x.node = job[j].node /\ x.st = st
  BY <1>1, JobFields DEF Result
<1>4. job'[j].ran[Len(job'[j].ran)] = x
  BY <1>2, <1>3, Appended
<1>5. PICK n : n = Sends(job[j].ran, job[j].graph)
  OBVIOUS
<1>6. PICK m : m = Sends(job'[j].ran, job'[j].graph)
  OBVIOUS
<1>7. /\ NodeOf(job[j].graph, job[j].node).kind = "send" => m = n + 1
      /\ NodeOf(job[j].graph, job[j].node).kind # "send" => m = n
  BY <1>2, <1>3, <1>5, <1>6, SendsOn
<1>8. ASSUME PostedBy(j, e), st = "success"
      PROVE  Posted(e, m, m)'
  <2>1. \/ Posted(e, n, n) /\ m = n
        \/ Posted(e, n + 1, n + 1) /\ m = n + 1
    BY <1>5, <1>7, <1>8 DEF PostedBy, AtWorker
  <2>2. QED
    BY <2>1 DEF Posted
<1>9. PostedBy(j, e) => PostedBy(j, e)'
  BY <1>2, <1>3, <1>4, <1>6, <1>8 DEF PostedBy, AtWorker
<1>10. QED
  BY <1>2, <1>9 DEF PostStep

LEMMA HandlerPosts ==
    ASSUME WorkflowTypeOK, NEW j \in Jobs, PathOK(job[j]), HandleJob(j), ~CallFault,
           NEW e \in Executions, e = job[j].e
    PROVE  PostStep(j, e)
<1> USE DEF AtWorker
(* On to a place of which nothing is said.                                 *)
<1>a. ASSUME NEW pc \in {"stats", "ack", "catch", "failstats", "nack"}, Goto(j, pc),
             UNCHANGED <<posted, counted>>, job[j].at = "worker"
      PROVE  PostStep(j, e)
  <2>1. job'[j].pc = pc /\ job'[j].at = "worker"
    BY <1>a, JobIs
  <2>2. QED
    BY <1>a, <2>1 DEF PostStep, PostedBy, Posted
<1>1. CASE MarkRunning(j)
  <2>1. /\ job[j].at = "worker" /\ job[j].pc = "start"
        /\ UNCHANGED <<posted, counted>>
        /\ job' = [job EXCEPT ![j].pc = "loop",
                              ![j].node = FirstNode(job[j].graph)]
    BY <1>1 DEF MarkRunning
  <2>2. job[j].ran = <<>>
    BY <2>1 DEF PathOK
  <2>3. job'[j] = [job[j] EXCEPT !.pc = "loop", !.node = FirstNode(job[j].graph)]
    BY <2>1 DEF WorkflowTypeOK, JobsType
  <2>4. job'[j].pc = "loop" /\ job'[j].at = "worker" /\ job'[j].ran = <<>>
    BY <2>1, <2>2, <2>3, JobFields DEF WorkflowTypeOK, JobsType, JobRecord
  <2>5. Sends(<<>>, job'[j].graph) = 0
    BY NoSends
  <2>6. QED
    BY <2>1, <2>4, <2>5 DEF PostStep, PostedBy, Posted
<1>2. CASE PushResult(j)
  <2>1. /\ job[j].at = "worker" /\ job[j].pc = "loop" /\ Goto(j, "run")
        /\ UNCHANGED <<posted, counted>>
    BY <1>2 DEF PushResult
  <2>2. /\ job'[j].pc = "run" /\ job'[j].at = "worker"
        /\ job'[j].ran = job[j].ran /\ job'[j].graph = job[j].graph
    BY <2>1, JobIs
  <2>3. QED
    BY <2>1, <2>2 DEF PostStep, PostedBy, Posted
<1>3. CASE RunNode(j)
  BY <1>3, RanPosts DEF RunNode, Works
<1>4. CASE HangNode(j)
  BY <1>4 DEF HangNode
<1>5. CASE PostMessage(j)
  <2>1. /\ job[j].at = "worker" /\ job[j].pc = "run" /\ Works(j)
        /\ UNCHANGED counted
        /\ \/ posted' = [posted EXCEPT ![e] = @ + 1] /\ Goto(j, "count")
           \/ Ran(j, "failed") /\ UNCHANGED posted
    BY <1>5 DEF PostMessage, Works
  <2>2. CASE Ran(j, "failed") /\ UNCHANGED posted
    BY <2>1, <2>2, RanPosts
  <2>3. CASE posted' = [posted EXCEPT ![e] = @ + 1] /\ Goto(j, "count")
    <3>1. /\ job'[j].pc = "count" /\ job'[j].at = "worker"
          /\ job'[j].ran = job[j].ran /\ job'[j].graph = job[j].graph
      BY <2>1, <2>3, JobIs
    <3>2. /\ posted'[e] = posted[e] + 1
          /\ \A d \in Executions \ {e} : posted'[d] = posted[d]
      BY <2>3 DEF WorkflowTypeOK
    <3>3. QED
      BY <2>1, <3>1, <3>2 DEF PostStep, PostedBy, Posted
  <2>4. QED
    BY <2>1, <2>2, <2>3
<1>6. CASE CountMessage(j)
  <2>1. /\ job[j].at = "worker" /\ job[j].pc = "count" /\ Works(j)
        /\ UNCHANGED posted
        /\ counted' = [counted EXCEPT ![e] = @ + 1] /\ Goto(j, "announce")
    BY <1>6 DEF CountMessage, Works
  <2>2. /\ job'[j].pc = "announce" /\ job'[j].at = "worker"
        /\ job'[j].ran = job[j].ran /\ job'[j].graph = job[j].graph
    BY <2>1, JobIs
  <2>3. /\ counted'[e] = counted[e] + 1
        /\ \A d \in Executions \ {e} : counted'[d] = counted[d]
    BY <2>1 DEF WorkflowTypeOK
  <2>4. QED
    BY <2>1, <2>2, <2>3 DEF PostStep, PostedBy, Posted
<1>7. CASE AnnounceMessage(j)
  <2>1. /\ job[j].at = "worker" /\ job[j].pc = "announce" /\ Works(j)
        /\ UNCHANGED <<posted, counted>> /\ Ran(j, "success")
    BY <1>7 DEF AnnounceMessage, Works
  <2>2. NodeOf(job[j].graph, job[j].node).kind = "send"
    BY <2>1 DEF PathOK
  <2>3. QED
    BY <2>1, <2>2, RanPosts
<1>8. CASE RecordNode(j)
  <2>1. /\ job[j].at = "worker" /\ job[j].pc = "record" /\ Works(j)
        /\ UNCHANGED <<posted, counted>>
        /\ \/ Goto(j, "catch")
           \/ /\ job[j].ran[Len(job[j].ran)].st = "success"
              /\ \E id : job' = [job EXCEPT ![j].pc = "loop", ![j].node = id]
    BY <1>8 DEF RecordNode, Works
  <2>2. CASE Goto(j, "catch")
    BY <1>a, <2>1, <2>2
  <2>3. ASSUME job[j].ran[Len(job[j].ran)].st = "success",
               NEW id, job' = [job EXCEPT ![j].pc = "loop", ![j].node = id]
        PROVE  PostStep(j, e)
    <3>1. job'[j] = [job[j] EXCEPT !.pc = "loop", !.node = id]
      BY <2>3 DEF WorkflowTypeOK, JobsType
    <3>2. /\ job'[j].pc = "loop" /\ job'[j].at = "worker"
          /\ job'[j].ran = job[j].ran /\ job'[j].graph = job[j].graph
      BY <2>1, <3>1, JobFields DEF WorkflowTypeOK, JobsType, JobRecord
    <3>3. QED
      BY <2>1, <2>3, <3>2 DEF PostStep, PostedBy, Posted
  <2>4. QED
    BY <2>1, <2>2, <2>3
<1>9. CASE MarkSuccess(j) \/ CountExecution(j) \/ MarkFailed(j)
           \/ MarkWorkflowFailed(j)
  <2>1. /\ job[j].at = "worker" /\ UNCHANGED <<posted, counted>>
        /\ \/ Goto(j, "stats") \/ Goto(j, "ack") \/ Goto(j, "failstats")
           \/ Goto(j, "nack")
    BY <1>9 DEF MarkSuccess, CountExecution, MarkFailed, MarkWorkflowFailed
  <2>2. QED
    BY <1>a, <2>1
<1>10. CASE AnswerBroker(j)
  <2>1. /\ job'[j] = NoJob /\ UNCHANGED <<posted, counted>>
        /\ job[j].pc \in {"ack", "nack"}
    BY <1>10 DEF AnswerBroker, WorkflowTypeOK, JobsType
  <2>2. QED
    BY <2>1 DEF PostStep, Posted, NoJob
<1>11. QED
  BY <1>1, <1>2, <1>3, <1>4, <1>5, <1>6, <1>7, <1>8, <1>9, <1>10 DEF HandleJob

(* Nothing but what one handler does changes for the execution.            *)
LEMMA FirstFrame ==
    ASSUME NEW e \in Executions, FirstRunOf(e),
           execution'[e] = execution[e], plan'[e] = plan[e],
           posted'[e] = posted[e], counted'[e] = counted[e],
           \A j \in Jobs : Mine(j, e)' => /\ Mine(j, e)
                                          /\ PostedBy(j, e) => PostedBy(j, e)',
           \A q \in WorkflowRequests : Asks(q, e)' => Asks(q, e)
    PROVE  FirstRunOf(e)'
<1>1. /\ Posted(e, 0, 0)' <=> Posted(e, 0, 0)
      /\ PostedAll(e)' <=> PostedAll(e)
  BY DEF Posted, PostedAll
<1>2. /\ \A j \in Jobs : Mine(j, e)' => PostedBy(j, e)'
      /\ \A i, j \in Jobs : Mine(i, e)' /\ Mine(j, e)' => i = j
      /\ \A j \in Jobs, q \in WorkflowRequests : ~(Mine(j, e)' /\ Asks(q, e)')
  BY DEF FirstRunOf
<1>3. /\ \A p, q \in WorkflowRequests : Asks(p, e)' /\ Asks(q, e)' => p = q
      /\ \A q \in WorkflowRequests : Asks(q, e)' => Posted(e, 0, 0)'
      /\ execution'[e].status = "none" =>
           /\ \A j \in Jobs : ~Mine(j, e)'
           /\ \A q \in WorkflowRequests : ~Asks(q, e)'
           /\ Posted(e, 0, 0)'
      /\ execution'[e].status = "success" => PostedAll(e)'
  BY <1>1 DEF FirstRunOf
<1>4. QED
  BY <1>2, <1>3 DEF FirstRunOf

LEMMA FirstInit == WorkflowInit => FirstInv
<1> SUFFICES ASSUME WorkflowInit
             PROVE  FirstInv
  OBVIOUS
<1>1. ASSUME NEW e \in Executions
      PROVE  FirstRunOf(e)
  <2>1. /\ \A j \in Jobs : ~Mine(j, e)
        /\ \A q \in WorkflowRequests : ~Asks(q, e)
        /\ Posted(e, 0, 0) /\ execution[e].status = "none"
    BY DEF WorkflowInit, Mine, Asks, Posted, NoJob, NoAsk, NoExecution
  <2>2. QED
    BY <2>1 DEF FirstRunOf
<1>2. QED
  BY <1>1 DEF FirstInv

LEMMA HandlerFirst ==
    ASSUME WorkflowTypeOK, PathInv, RunInv, NEW j \in Jobs, HandleJob(j),
           ~CallFault, NEW e \in Executions, ~overlapped[e], ~redone[e],
           FirstRunOf(e)
    PROVE  FirstRunOf(e)'
<1>0. NoJob.at = "unused"
  BY DEF NoJob
<1>1. /\ UNCHANGED <<ask, plan>>
      /\ job[j].at = "worker" /\ job[j].e \in Executions
      /\ \A i \in Jobs \ {j} : job'[i] = job[i]
      /\ job'[j].at = "unused" \/ job'[j].e = job[j].e
      /\ \A d \in Executions : d # job[j].e => execution'[d] = execution[d]
  BY <1>0, HandlerShape
<1>2. PostStep(j, job[j].e)
  BY <1>1, HandlerPosts DEF PathInv
<1>3. /\ \A i \in Jobs : Mine(i, e)' => Mine(i, e)
      /\ \A q \in WorkflowRequests : Asks(q, e)' <=> Asks(q, e)
  BY <1>1 DEF Mine, Asks
<1>4. CASE e # job[j].e
  <2>1. \A i \in Jobs : Mine(i, e)' => i # j /\ job'[i] = job[i]
    BY <1>1, <1>4 DEF Mine
  <2>2. posted'[e] = posted[e] /\ counted'[e] = counted[e]
    BY <1>2, <1>4 DEF PostStep
  <2>3. \A i \in Jobs : Mine(i, e)' => (PostedBy(i, e) => PostedBy(i, e)')
    BY <2>1, <2>2 DEF PostedBy, Posted, AtWorker
  <2>4. QED
    BY <1>1, <1>3, <1>4, <2>2, <2>3, FirstFrame
<1>5. CASE e = job[j].e
  <2>1. Mine(j, e)
    BY <1>1, <1>5 DEF Mine
  <2>2. /\ \A i \in Jobs : Mine(i, e)' => i = j
        /\ \A q \in WorkflowRequests : ~Asks(q, e)'
        /\ PostedBy(j, e)
        /\ execution[e].status # "none"
    BY <1>3, <2>1 DEF FirstRunOf
  <2>3. ASSUME Mine(j, e)'
        PROVE  PostedBy(j, e)'
    BY <1>2, <1>5, <2>2, <2>3 DEF PostStep, Mine
  <2>4. execution'[e].status # "none"
    BY <1>5, <2>2, HandlerShape DEF StatusStep
  <2>5. ASSUME execution'[e].status = "success"
        PROVE  PostedAll(e)'
    <3>1. DocStep(j)
      BY HandlerDoc
    <3>2. Works(j) => execution[e].status = "running"
      BY <1>5 DEF RunInv, RunOf
    <3>3. CASE execution'[e] = execution[e] /\ ~Works(j)
      <4>1. Posted(e, posted'[e], counted'[e])
        BY <1>2, <1>5, <3>3 DEF PostStep
      <4>2. QED
        BY <1>1, <2>5, <3>3, <4>1 DEF FirstRunOf, PostedAll, Posted
    <3>4. CASE /\ job[j].pc = "loop" /\ job'[j].pc = "stats"
               /\ execution'[e].results = job[j].ran
      <4>1. PICK n : n = Sends(job[j].ran, job[j].graph)
        OBVIOUS
      <4>2. Posted(e, n, n)
        BY <1>1, <2>2, <3>4, <4>1 DEF PostedBy, AtWorker
      <4>3. Posted(e, posted'[e], counted'[e])
        BY <1>2, <1>5, <3>4 DEF PostStep
      <4>4. job[j].graph = plan[e]
        <5>1. Playing(j, e) /\ ~AtWorker(j, "catch")
          BY <1>1, <1>5, <3>4 DEF Playing, AtWorker, Over
        <5>2. QED
          BY <5>1 DEF RunInv, RunOf, PlanOf, Planned
      <4>5. QED
        BY <1>1, <3>4, <4>1, <4>2, <4>3, <4>4 DEF PostedAll, Posted
    <3>5. QED
      BY <1>5, <2>5, <3>1, <3>2, <3>3, <3>4 DEF DocStep
  <2>6. QED
    BY <2>2, <2>3, <2>4, <2>5 DEF FirstRunOf
<1>6. QED
  BY <1>4, <1>5

LEMMA RequestFirst ==
    ASSUME WorkflowTypeOK, NEW q \in WorkflowRequests, HandleRequest(q),
           ~CallFault, NEW e \in Executions, FirstRunOf(e),
           execution'[e].retries = 0
    PROVE  FirstRunOf(e)'
<1> USE DEF Asks
<1>a. ASSUME NEW d \in Executions \cup {NoNode}, NEW pc, NEW g, NEW x,
             Await(q, pc, d, g, x)
      PROVE  /\ \A p \in WorkflowRequests \ {q} : ask'[p] = ask[p]
             /\ ask'[q].pc = pc /\ ask'[q].e = d
  BY <1>a DEF Await, WorkflowTypeOK
<1>b. UNCHANGED <<posted, counted>>
  BY DEF HandleRequest, TriggerRead, TriggerCreate, RetryRead, RetryFind,
         RetryReset, PublishWorkflowJob
<1>c. ASSUME UNCHANGED job, execution'[e] = execution[e], plan'[e] = plan[e],
             \A p \in WorkflowRequests : Asks(p, e)' => Asks(p, e)
      PROVE  FirstRunOf(e)'
  <2>1. \A j \in Jobs :
          (Mine(j, e)' => Mine(j, e)) /\ (PostedBy(j, e) => PostedBy(j, e)')
    BY <1>b, <1>c DEF Mine, PostedBy, Posted, AtWorker
  <2>2. QED
    BY <1>b, <1>c, <2>1, FirstFrame
<1>d. ASSUME UNCHANGED <<execution, job, plan>>,
             \A p \in WorkflowRequests \ {q} : ask'[p] = ask[p],
             ask'[q].pc # "publish"
      PROVE  FirstRunOf(e)'
  BY <1>c, <1>d
<1>1. CASE TriggerRead(q)
  <2>1. /\ UNCHANGED <<execution, job, plan>>
        /\ Await(q, "create", NoNode, workflow.nodes, NoExecution)
    BY <1>1 DEF TriggerRead
  <2>2. QED
    BY <1>a, <1>d, <2>1
<1>2. CASE TriggerCreate(q)
  <2>1. PICK d \in Unused :
          /\ execution' = [execution EXCEPT ![d].status = "queued"]
          /\ plan' = [plan EXCEPT ![d] = ask[q].graph]
          /\ Await(q, "publish", d, ask[q].graph, NoExecution)
    BY <1>2 DEF TriggerCreate
  <2>2. UNCHANGED job /\ d \in Executions /\ execution[d].status = "none"
    BY <1>2 DEF TriggerCreate, Unused
  <2>3. /\ execution'[d].status = "queued"
        /\ \A c \in Executions \ {d} : execution'[c] = execution[c]
    BY <2>1, <2>2, DocIs
  <2>4. \A c \in Executions \ {d} : plan'[c] = plan[c]
    BY <2>1, <2>2 DEF WorkflowTypeOK
  <2>5. /\ \A p \in WorkflowRequests \ {q} : ask'[p] = ask[p]
        /\ ask'[q].e = d
    BY <1>a, <2>1, <2>2
  <2>6. CASE e # d
    BY <1>c, <2>2, <2>3, <2>4, <2>5, <2>6
  <2>7. CASE e = d
    <3>1. /\ \A j \in Jobs : ~Mine(j, e)
          /\ \A p \in WorkflowRequests : ~Asks(p, e)
          /\ Posted(e, 0, 0)
      BY <2>2, <2>7 DEF FirstRunOf
    <3>2. /\ \A j \in Jobs : ~Mine(j, e)'
          /\ \A p \in WorkflowRequests : Asks(p, e)' => p = q
          /\ Posted(e, 0, 0)'
      BY <1>b, <2>2, <2>5, <3>1 DEF Mine, Posted
    <3>3. QED
      BY <2>3, <2>7, <3>2 DEF FirstRunOf
  <2>8. QED
    BY <2>6, <2>7
<1>3. CASE RetryRead(q)
  <2>1. PICK d \in Executions : Await(q, "find", d, <<>>, execution[d])
    BY <1>3 DEF RetryRead
  <2>2. UNCHANGED <<execution, job, plan>>
    BY <1>3 DEF RetryRead
  <2>3. QED
    BY <1>a, <1>d, <2>1, <2>2
<1>4. CASE RetryFind(q)
  <2>1. /\ ask[q].pc = "find"
        /\ \/ Await(q, "reset", ask[q].e, workflow.nodes, ask[q].seen)
           \/ Await(q, "done", NoNode, <<>>, NoExecution)
        /\ UNCHANGED <<execution, job, plan>>
    BY <1>4 DEF RetryFind
  <2>2. ask[q].e \in Executions
    BY <2>1 DEF WorkflowTypeOK
  <2>3. CASE Await(q, "reset", ask[q].e, workflow.nodes, ask[q].seen)
    BY <1>a, <1>d, <2>1, <2>2, <2>3
  <2>4. CASE Await(q, "done", NoNode, <<>>, NoExecution)
    BY <1>a, <1>d, <2>1, <2>4
  <2>5. QED
    BY <2>1, <2>3, <2>4
<1>5. CASE RetryReset(q)
  <2>0. PICK d \in Executions : d = ask[q].e
    BY <1>5 DEF RetryReset, WorkflowTypeOK
  <2>1. /\ execution' = [execution EXCEPT ![d].status = "queued",
                                          ![d].retries = @ + 1]
        /\ plan' = [plan EXCEPT ![d] = ask[q].graph]
        /\ Await(q, "publish", d, ask[q].graph, NoExecution)
        /\ UNCHANGED job
    BY <1>5, <2>0 DEF RetryReset
  <2>2. /\ execution'[d].retries = execution[d].retries + 1
        /\ execution[d].retries \in Nat
        /\ \A c \in Executions \ {d} : execution'[c] = execution[c]
    BY <2>1 DEF WorkflowTypeOK, ExecutionDoc
  <2>3. \A c \in Executions \ {d} : plan'[c] = plan[c]
    BY <2>1 DEF WorkflowTypeOK
  <2>4. /\ \A p \in WorkflowRequests \ {q} : ask'[p] = ask[p]
        /\ ask'[q].e = d
    BY <1>a, <2>1
  <2>5. e # d
    BY <2>2
  <2>6. QED
    BY <1>c, <2>1, <2>2, <2>3, <2>4, <2>5
<1>6. CASE PublishWorkflowJob(q)
  <2>1. /\ ask[q].pc = "publish"
        /\ Await(q, "done", NoNode, <<>>, NoExecution)
        /\ UNCHANGED <<execution, plan>>
    BY <1>6 DEF PublishWorkflowJob
  <2>2. /\ \A p \in WorkflowRequests \ {q} : ask'[p] = ask[p]
        /\ ask'[q].pc = "done"
    BY <1>a, <2>1
  <2>3. PICK j \in Jobs :
          job' = [job EXCEPT ![j] = [NoJob EXCEPT
                    !.at = "queue", !.e = ask[q].e, !.graph = ask[q].graph]]
    BY <1>6 DEF PublishWorkflowJob
  <2>4. /\ job'[j].at = "queue" /\ job'[j].e = ask[q].e /\ job'[j].pc = "start"
        /\ \A i \in Jobs \ {j} : job'[i] = job[i]
    BY <2>3 DEF WorkflowTypeOK, JobsType, NoJob
  <2>5. \A i \in Jobs \ {j} :
          (Mine(i, e)' <=> Mine(i, e)) /\ (PostedBy(i, e) => PostedBy(i, e)')
    BY <1>b, <2>4 DEF Mine, PostedBy, Posted, AtWorker
  <2>6. \A p \in WorkflowRequests : Asks(p, e)' => Asks(p, e) /\ p # q
    BY <2>2
  <2>7. CASE e # ask[q].e
    <3>1. ~Mine(j, e)'
      BY <2>4, <2>7 DEF Mine
    <3>2. QED
      BY <1>b, <2>1, <2>5, <2>6, <3>1, FirstFrame
  <2>8. CASE e = ask[q].e
    <3>1. Asks(q, e)
      BY <2>1, <2>8
    <3>2. /\ \A i \in Jobs : ~Mine(i, e)
          /\ \A p \in WorkflowRequests : Asks(p, e) => p = q
          /\ Posted(e, 0, 0) /\ execution[e].status # "none"
      BY <3>1 DEF FirstRunOf
    <3>3. /\ \A i \in Jobs : Mine(i, e)' => i = j
          /\ \A p \in WorkflowRequests : ~Asks(p, e)'
          /\ Posted(e, 0, 0)' /\ execution'[e].status # "none"
      BY <1>b, <2>1, <2>5, <2>6, <3>2 DEF Posted
    <3>4. PostedBy(j, e)'
      BY <2>4, <3>3 DEF PostedBy, AtWorker
    <3>5. execution'[e].status = "success" => PostedAll(e)'
      BY <1>b, <2>1 DEF FirstRunOf, PostedAll, Posted
    <3>6. QED
      BY <3>3, <3>4, <3>5 DEF FirstRunOf
  <2>9. QED
    BY <2>7, <2>8
<1>7. QED
  BY <1>1, <1>2, <1>3, <1>4, <1>5, <1>6 DEF HandleRequest

LEMMA BrokerFirst ==
    ASSUME WorkflowTypeOK, PathInv, NEW e \in Executions, FirstRunOf(e),
           \/ \E j \in Jobs : Deliver(j)
           \/ CreateWorkflow \/ UpdateWorkflow
           \/ SetWorkflowEnabled \/ DeleteWorkflow
    PROVE  FirstRunOf(e)'
<1> USE DEF Mine, PostedBy, Posted, AtWorker, Asks
<1>1. CASE CreateWorkflow \/ UpdateWorkflow \/ SetWorkflowEnabled
           \/ DeleteWorkflow
  <2>1. UNCHANGED <<execution, posted, counted, job, plan, ask>>
    BY <1>1 DEF CreateWorkflow, UpdateWorkflow, SetWorkflowEnabled,
                DeleteWorkflow
  <2>2. QED
    BY <2>1, FirstFrame
<1>2. ASSUME NEW j \in Jobs, Deliver(j)
      PROVE  FirstRunOf(e)'
  <2>1. /\ job[j].at = "queue" /\ job' = [job EXCEPT ![j].at = "worker"]
        /\ UNCHANGED <<execution, posted, counted, plan, ask>>
    BY <1>2 DEF Deliver
  <2>2. /\ \A i \in Jobs \ {j} : job'[i] = job[i]
        /\ job'[j].pc = "start" /\ job'[j].e = job[j].e
    BY <2>1, JobFields DEF WorkflowTypeOK, JobsType, JobRecord, PathInv, PathOK
  <2>3. \A i \in Jobs : Mine(i, e)' => Mine(i, e)
    BY <2>1, <2>2
  <2>4. \A i \in Jobs : PostedBy(i, e) => PostedBy(i, e)'
    BY <2>1, <2>2
  <2>5. QED
    BY <2>1, <2>3, <2>4, FirstFrame
<1>3. QED
  BY <1>1, <1>2

LEMMA Undisturbs ==
    ASSUME WorkflowTypeOK, Undisturbed'
    PROVE  /\ ~CallFault /\ ~CrashWorker
           /\ \A j \in Jobs : ~ExpireJob(j)
<1>1. ~CallFault
  BY CallDisturbs
<1>2. ~Happens("crashes")
  BY DEF WorkflowTypeOK, Happens, Undisturbed
<1>3. QED
  BY <1>1, <1>2 DEF ExpireJob, CrashWorker

LEMMA FirstStep ==
    ASSUME WorkflowTypeOK, PathInv, RunInv, FirstInv, WorkflowNext,
           Undisturbed => \A e \in Executions : ~redone[e]
    PROVE  FirstInv'
<1>1. ASSUME NEW e \in Executions, FirstRun(e)'
      PROVE  FirstRunOf(e)'
  <2>1. Undisturbed /\ ~overlapped[e] /\ ~redone[e]
    BY <1>1, FaultsGrow, InPlayOne DEF FirstRun, WorkflowNext
  <2>2. execution[e].retries = 0
    <3>1. execution'[e].retries = 0
      BY <1>1 DEF FirstRun
    <3>2. ASSUME NEW q \in WorkflowRequests, TriggerCreate(q)
          PROVE  execution[e].retries = 0
      <4>1. PICK d \in Executions :
              execution' = [execution EXCEPT ![d].status = "queued"]
        BY <3>2 DEF TriggerCreate, Unused
      <4>2. QED
        BY <3>1, <4>1, DocIs
    <3>3. ASSUME NEW q \in WorkflowRequests, RetryReset(q)
          PROVE  execution[e].retries = 0
      <4>1. PICK d \in Executions :
              execution' = [execution EXCEPT ![d].status = "queued",
                                             ![d].retries = @ + 1]
        BY <3>3 DEF RetryReset, WorkflowTypeOK
      <4>2. /\ execution'[d].retries = execution[d].retries + 1
            /\ execution[d].retries \in Nat
            /\ \A c \in Executions \ {d} : execution'[c] = execution[c]
        BY <4>1 DEF WorkflowTypeOK, ExecutionDoc
      <4>3. QED
        BY <3>1, <4>2
    <3>4. QED
      BY <3>1, <3>2, <3>3, HandlerShape
      DEF WorkflowNext, HandleRequest, TriggerRead, RetryRead, RetryFind,
          PublishWorkflowJob, CreateWorkflow, UpdateWorkflow,
          SetWorkflowEnabled, DeleteWorkflow, Deliver, ExpireJob, CrashWorker
  <2>3. FirstRunOf(e)
    BY <2>1, <2>2 DEF FirstInv, FirstRun
  <2>4. /\ ~CallFault /\ ~CrashWorker
        /\ \A j \in Jobs : ~ExpireJob(j)
    BY <1>1, Undisturbs DEF FirstRun
  <2>5. execution'[e].retries = 0
    BY <1>1 DEF FirstRun
  <2>6. QED
    BY <2>1, <2>3, <2>4, <2>5, RequestFirst, HandlerFirst, BrokerFirst
    DEF WorkflowNext
<1>2. QED
  BY <1>1 DEF FirstInv

-----------------------------------------------------------------------------
(* The statistics: an execution is a success once, and counted once.       *)

Successes == {d \in Executions : execution[d].status = "success"}
AtStats == {j \in Jobs : AtWorker(j, "stats")}

Uncreated ==
    /\ ~workflow.exists /\ workflow.runs = 0
    /\ \A e \in Executions : execution[e].status = "none"
    /\ \A j \in Jobs : job[j].at = "unused"
    /\ \A q \in WorkflowRequests : ask[q].pc = "idle"

NotPlaying(e) ==
    /\ \A j \in Jobs : ~Playing(j, e)
    /\ \A q \in WorkflowRequests : ~Asks(q, e)

CountsExactly ==
    workflow.runs + Cardinality(AtStats) = Cardinality(Successes)

Straight == workflow.exists /\ \A d \in Executions : ~overlapped[d] /\ ~raced[d]

SettledInv ==
    \A e \in Executions :
        ~raced[e] /\ execution[e].status = "success" => NotPlaying(e)

RunsInv ==
    /\ workflow.last = "uncreated" => Uncreated
    /\ Undisturbed =>
         /\ \A e \in Executions : ~redone[e]
         /\ SettledInv
         /\ Straight => CountsExactly

LEMMA RunsInit == WorkflowInit => RunsInv
<1> SUFFICES ASSUME WorkflowInit
             PROVE  RunsInv
  OBVIOUS
<1>1. Uncreated /\ SettledInv
  BY DEF WorkflowInit, Uncreated, SettledInv, NoJob, NoAsk, NoExecution
<1>2. ~Straight /\ \A e \in Executions : ~redone[e]
  BY DEF WorkflowInit, Straight
<1>3. QED
  BY <1>1, <1>2 DEF RunsInv

(* Before there is a workflow there is nothing to do but to create it.     *)
LEMMA CreatedFirst ==
    ASSUME WorkflowTypeOK, WorkflowNext,
           workflow.last = "uncreated" => Uncreated
    PROVE  /\ workflow'.last # "uncreated"
           /\ workflow.last = "uncreated" => CreateWorkflow
<1>1. workflow.last = "uncreated" => CreateWorkflow
  <2> SUFFICES ASSUME Uncreated, ~CreateWorkflow
               PROVE  FALSE
    OBVIOUS
  <2> USE DEF Uncreated
  <2>1. ASSUME NEW q \in WorkflowRequests, HandleRequest(q)
        PROVE  FALSE
    BY <2>1 DEF HandleRequest, TriggerRead, TriggerCreate, RetryRead, RetryFind,
                RetryReset, PublishWorkflowJob
  <2>2. ASSUME NEW j \in Jobs, Deliver(j) \/ HandleJob(j) \/ ExpireJob(j)
        PROVE  FALSE
    BY <2>2, HandlerShape DEF Deliver, ExpireJob
  <2>3. QED
    BY <2>1, <2>2 DEF WorkflowNext, UpdateWorkflow, SetWorkflowEnabled,
                      DeleteWorkflow, CrashWorker
<1>2. CASE CreateWorkflow
  BY <1>1, <1>2 DEF CreateWorkflow
<1>3. CASE ~CreateWorkflow
  <2>1. workflow.last # "uncreated"
    BY <1>1, <1>3
  <2>2. ASSUME NEW q \in WorkflowRequests, HandleRequest(q)
        PROVE  UNCHANGED workflow
    BY <2>2 DEF HandleRequest, TriggerRead, TriggerCreate, RetryRead, RetryFind,
                RetryReset, PublishWorkflowJob
  <2>3. ASSUME NEW j \in Jobs, HandleJob(j)
        PROVE  workflow'.last \in {workflow.last, "success", "failed"}
    <3>1. CASE CountExecution(j)
      BY <3>1 DEF CountExecution, WorkflowTypeOK
    <3>2. CASE MarkWorkflowFailed(j)
      BY <3>2 DEF MarkWorkflowFailed, WorkflowTypeOK
    <3>3. QED
      BY <2>3, <3>1, <3>2
      DEF HandleJob, MarkRunning, PushResult, RunNode, HangNode, PostMessage,
          CountMessage, AnnounceMessage, RecordNode, MarkSuccess, MarkFailed,
          AnswerBroker
  <2>4. CASE UpdateWorkflow \/ SetWorkflowEnabled \/ DeleteWorkflow
    <3>1. CASE UpdateWorkflow
      <4>1. PICK g \in Graphs, b \in BOOLEAN :
              workflow' = [workflow EXCEPT !.nodes = g, !.enabled = b]
        BY <3>1 DEF UpdateWorkflow
      <4>2. QED
        BY <2>1, <4>1 DEF WorkflowTypeOK
    <3>2. CASE SetWorkflowEnabled
      <4>1. PICK b : workflow' = [workflow EXCEPT !.enabled = b]
        BY <3>2 DEF SetWorkflowEnabled
      <4>2. QED
        BY <2>1, <4>1 DEF WorkflowTypeOK
    <3>3. CASE DeleteWorkflow
      BY <2>1, <3>3 DEF DeleteWorkflow, WorkflowTypeOK
    <3>4. QED
      BY <2>4, <3>1, <3>2, <3>3
  <2>5. QED
    BY <1>3, <2>1, <2>2, <2>3, <2>4
    DEF WorkflowNext, Deliver, ExpireJob, CrashWorker
<1>4. QED
  BY <1>1, <1>2, <1>3

(* A success is not played again unless a retry was raced.                 *)
LEMMA SettledStep ==
    ASSUME OneRunInv, WorkflowNext, SettledInv, Undisturbed',
           \A e \in Executions : ~redone[e]
    PROVE  SettledInv'
<1> USE DEF OneRunInv
<1>1. SUFFICES ASSUME NEW e \in Executions, ~raced'[e],
                      execution'[e].status = "success"
               PROVE  NotPlaying(e)'
  BY DEF SettledInv
<1>2. ~raced[e] /\ AtMostOne(e)
  BY <1>1, HistoryGrows DEF LiveInv, Orderly
<1>3. /\ ~CallFault /\ ~CrashWorker
      /\ \A j \in Jobs : ~ExpireJob(j)
  BY Undisturbs
<1>a. ASSUME execution[e].status = "success",
             \A j \in Jobs : Playing(j, e)' => Playing(j, e),
             \A q \in WorkflowRequests : Asks(q, e)' => Asks(q, e)
      PROVE  NotPlaying(e)'
  BY <1>a, <1>2 DEF SettledInv, NotPlaying
<1>b. ASSUME UNCHANGED <<execution, job, ask>>
      PROVE  NotPlaying(e)'
  BY <1>a, <1>b, <1>1 DEF Playing, Asks
<1>4. ASSUME NEW j \in Jobs, HandleJob(j)
      PROVE  NotPlaying(e)'
  <2>1. /\ UNCHANGED ask /\ job[j].at = "worker" /\ job[j].e \in Executions
        /\ \A i \in Jobs \ {j} : job'[i] = job[i]
        /\ \A d \in Executions : d # job[j].e => execution'[d] = execution[d]
        /\ StatusStep(j)
    BY <1>4, HandlerShape
  <2>2. \/ job'[j] = NoJob /\ job[j].pc \in {"ack", "nack"}
        \/ /\ job'[j].at = "worker" /\ job'[j].e = job[j].e
           /\ <<job[j].pc, job'[j].pc>> \in Edges
    BY <1>4, HandlerShape
  <2>3. ~(job[j].pc = "stats" /\ job'[j].pc = "catch")
    <3>1. CASE CountExecution(j)
      <4>1. Goto(j, "ack")
        BY <1>3, <3>1 DEF CountExecution
      <4>2. job'[j].pc = "ack"
        BY <4>1, JobFields DEF Goto, WorkflowTypeOK, JobsType, JobRecord
      <4>3. QED
        BY <4>2
    <3>2. CASE ~CountExecution(j) /\ job[j].pc = "stats"
      BY <1>4, <3>2
      DEF HandleJob, MarkRunning, PushResult, RunNode, HangNode, PostMessage,
          CountMessage, AnnounceMessage, RecordNode, MarkSuccess, MarkFailed,
          MarkWorkflowFailed, AnswerBroker, AtWorker
    <3>3. QED
      BY <3>1, <3>2
  <2>4. \A i \in Jobs : Playing(i, e)' => Playing(i, e)
    BY <2>1, <2>2, <2>3 DEF Playing, Edges, Over, NoJob
  <2>5. \A q \in WorkflowRequests : Asks(q, e)' => Asks(q, e)
    BY <2>1 DEF Asks
  <2>6. CASE execution[e].status = "success"
    BY <1>a, <2>4, <2>5, <2>6
  <2>7. CASE execution[e].status # "success"
    <3>1. e = job[j].e /\ job[j].pc = "loop" /\ job'[j].pc = "stats"
      BY <1>1, <2>1, <2>7 DEF StatusStep
    <3>2. Live(j, e) /\ ~Playing(j, e)'
      BY <2>1, <2>2, <3>1 DEF Live, Playing, Over, NoJob
    <3>3. \A i \in Jobs : ~Playing(i, e)'
      BY <1>2, <2>4, <3>2 DEF AtMostOne, Live
    <3>4. \A q \in WorkflowRequests : ~Asks(q, e)'
      BY <1>2, <2>5, <3>2 DEF AtMostOne
    <3>5. QED
      BY <3>3, <3>4 DEF NotPlaying
  <2>8. QED
    BY <2>6, <2>7
<1>5. ASSUME NEW q \in WorkflowRequests, HandleRequest(q)
      PROVE  NotPlaying(e)'
  <2>a. ASSUME NEW d \in Executions \cup {NoNode}, NEW pc, NEW g, NEW x,
               Await(q, pc, d, g, x)
        PROVE  /\ \A p \in WorkflowRequests \ {q} : ask'[p] = ask[p]
               /\ ask'[q].pc = pc /\ ask'[q].e = d
    BY <2>a DEF Await, WorkflowTypeOK
  <2>b. ASSUME UNCHANGED <<execution, job>>,
               \A p \in WorkflowRequests \ {q} : ask'[p] = ask[p],
               ask'[q].pc # "publish"
        PROVE  NotPlaying(e)'
    BY <1>1, <1>a, <2>b DEF Playing, Asks
  <2>c. ASSUME NEW d \in Executions, UNCHANGED job,
               execution'[d].status = "queued",
               \A c \in Executions \ {d} : execution'[c] = execution[c],
               Await(q, "publish", d, ask[q].graph, NoExecution)
        PROVE  NotPlaying(e)'
    <3>1. e # d
      BY <1>1, <2>c
    <3>2. /\ \A p \in WorkflowRequests \ {q} : ask'[p] = ask[p]
          /\ ask'[q].e = d
      BY <2>a, <2>c
    <3>3. QED
      BY <1>1, <1>a, <2>c, <3>1, <3>2 DEF Playing, Asks
  <2>1. CASE TriggerRead(q)
    <3>1. /\ UNCHANGED <<execution, job>>
          /\ Await(q, "create", NoNode, workflow.nodes, NoExecution)
      BY <2>1 DEF TriggerRead
    <3>2. QED
      BY <2>a, <2>b, <3>1
  <2>2. CASE TriggerCreate(q)
    <3>1. PICK d \in Unused :
            /\ execution' = [execution EXCEPT ![d].status = "queued"]
            /\ Await(q, "publish", d, ask[q].graph, NoExecution)
      BY <2>2 DEF TriggerCreate
    <3>2. UNCHANGED job /\ d \in Executions
      BY <2>2 DEF TriggerCreate, Unused
    <3>3. /\ execution'[d].status = "queued"
          /\ \A c \in Executions \ {d} : execution'[c] = execution[c]
      BY <3>1, <3>2, DocIs
    <3>4. QED
      BY <2>c, <3>1, <3>2, <3>3
  <2>3. CASE RetryRead(q)
    <3>1. PICK d \in Executions : Await(q, "find", d, <<>>, execution[d])
      BY <2>3 DEF RetryRead
    <3>2. UNCHANGED <<execution, job>>
      BY <2>3 DEF RetryRead
    <3>3. QED
      BY <2>a, <2>b, <3>1, <3>2
  <2>4. CASE RetryFind(q)
    <3>1. /\ ask[q].pc = "find"
          /\ \/ Await(q, "reset", ask[q].e, workflow.nodes, ask[q].seen)
             \/ Await(q, "done", NoNode, <<>>, NoExecution)
          /\ UNCHANGED <<execution, job>>
      BY <2>4 DEF RetryFind
    <3>2. ask[q].e \in Executions
      BY <3>1 DEF WorkflowTypeOK
    <3>3. CASE Await(q, "reset", ask[q].e, workflow.nodes, ask[q].seen)
      <4>1. /\ \A p \in WorkflowRequests \ {q} : ask'[p] = ask[p]
            /\ ask'[q].pc = "reset"
        BY <2>a, <3>2, <3>3
      <4>2. QED
        BY <2>b, <3>1, <4>1
    <3>4. CASE Await(q, "done", NoNode, <<>>, NoExecution)
      <4>1. /\ \A p \in WorkflowRequests \ {q} : ask'[p] = ask[p]
            /\ ask'[q].pc = "done"
        BY <2>a, <3>4
      <4>2. QED
        BY <2>b, <3>1, <4>1
    <3>5. QED
      BY <3>1, <3>3, <3>4
  <2>5. CASE RetryReset(q)
    <3>0. PICK d \in Executions : d = ask[q].e
      BY <2>5 DEF RetryReset, WorkflowTypeOK
    <3>1. /\ execution' = [execution EXCEPT ![d].status = "queued",
                                            ![d].retries = @ + 1]
          /\ Await(q, "publish", d, ask[q].graph, NoExecution)
          /\ UNCHANGED job
      BY <2>5, <3>0 DEF RetryReset
    <3>2. /\ execution'[d].status = "queued"
          /\ \A c \in Executions \ {d} : execution'[c] = execution[c]
      BY <3>1 DEF WorkflowTypeOK, ExecutionDoc
    <3>3. QED
      BY <2>c, <3>1, <3>2
  <2>6. CASE PublishWorkflowJob(q)
    <3>1. /\ ask[q].pc = "publish"
          /\ Await(q, "done", NoNode, <<>>, NoExecution)
          /\ UNCHANGED execution
      BY <2>6 DEF PublishWorkflowJob
    <3>2. /\ \A p \in WorkflowRequests \ {q} : ask'[p] = ask[p]
          /\ ask'[q].pc = "done"
      BY <2>a, <3>1
    <3>3. PICK j \in Jobs :
            job' = [job EXCEPT ![j] = [NoJob EXCEPT
                      !.at = "queue", !.e = ask[q].e, !.graph = ask[q].graph]]
      BY <1>3, <2>6 DEF PublishWorkflowJob
    <3>4. /\ job'[j].e = ask[q].e
          /\ \A i \in Jobs \ {j} : job'[i] = job[i]
      BY <3>3 DEF WorkflowTypeOK, JobsType, NoJob
    <3>5. ~Asks(q, e)
      BY <1>1, <1>2, <3>1 DEF SettledInv, NotPlaying
    <3>6. QED
      BY <1>1, <1>a, <3>1, <3>2, <3>4, <3>5 DEF Playing, Asks
  <2>7. QED
    BY <1>5, <2>1, <2>2, <2>3, <2>4, <2>5, <2>6 DEF HandleRequest
<1>6. ASSUME NEW j \in Jobs, Deliver(j)
      PROVE  NotPlaying(e)'
  <2>1. /\ job[j].at = "queue" /\ job' = [job EXCEPT ![j].at = "worker"]
        /\ UNCHANGED <<execution, ask>>
    BY <1>6 DEF Deliver
  <2>2. /\ \A i \in Jobs \ {j} : job'[i] = job[i]
        /\ job'[j].e = job[j].e
    BY <2>1 DEF WorkflowTypeOK, JobsType, JobRecord
  <2>3. QED
    BY <1>1, <1>a, <2>1, <2>2 DEF Playing, Asks
<1>7. CASE CreateWorkflow \/ UpdateWorkflow \/ SetWorkflowEnabled
           \/ DeleteWorkflow
  BY <1>7, <1>b DEF CreateWorkflow, UpdateWorkflow, SetWorkflowEnabled,
                    DeleteWorkflow
<1>8. QED
  BY <1>3, <1>4, <1>5, <1>6, <1>7 DEF WorkflowNext

LEMMA CountFrame ==
    ASSUME CountsExactly, workflow'.runs = workflow.runs,
           \A j \in Jobs : AtWorker(j, "stats")' <=> AtWorker(j, "stats"),
           \A e \in Executions :
             execution'[e].status = "success" <=> execution[e].status = "success"
    PROVE  CountsExactly'
<1>1. AtStats' = AtStats /\ Successes' = Successes
  BY DEF AtStats, Successes
<1>2. QED
  BY <1>1 DEF CountsExactly

LEMMA Finites == IsFiniteSet(AtStats) /\ IsFiniteSet(Successes)
<1>1. AtStats \subseteq Jobs /\ Successes \subseteq Executions
  BY DEF AtStats, Successes
<1>2. QED
  BY <1>1, WorkflowAssumption, FS_Subset

(* In an undisturbed and straight history a handler writes success over    *)
(* what was not a success, and anything else over no success.              *)
LEMMA HandlerCounts ==
    ASSUME OneRunInv, RunInv, SettledInv, CountsExactly, Straight,
           NEW j \in Jobs, HandleJob(j), ~CallFault
    PROVE  CountsExactly'
<1> USE DEF OneRunInv
<1>1. PICK e \in Executions : e = job[j].e
  BY HandlerShape
<1>2. /\ job[j].at = "worker"
      /\ \A i \in Jobs \ {j} : job'[i] = job[i]
      /\ \A d \in Executions : d # e => execution'[d] = execution[d]
      /\ StatusStep(j)
  BY <1>1, HandlerShape
<1>3. \/ job'[j] = NoJob /\ job[j].pc \in {"ack", "nack"}
      \/ /\ job'[j].at = "worker" /\ job'[j].e = job[j].e
         /\ <<job[j].pc, job'[j].pc>> \in Edges
  BY HandlerShape
<1>4. Playing(j, e) => execution[e].status # "success"
  BY DEF SettledInv, NotPlaying, Straight
<1>5. CASE MarkSuccess(j)
  <2>1. /\ job[j].pc = "loop" /\ Goto(j, "stats") /\ UNCHANGED workflow
        /\ execution' = [execution EXCEPT ![e].status = "success",
                                          ![e].results = job[j].ran]
    BY <1>1, <1>5 DEF MarkSuccess, AtWorker
  <2>2. job'[j].pc = "stats" /\ job'[j].at = "worker"
    BY <1>2, <2>1, JobFields DEF Goto, WorkflowTypeOK, JobsType, JobRecord
  <2>3. execution'[e].status = "success"
    BY <2>1 DEF WorkflowTypeOK, ExecutionDoc
  <2>4. execution[e].status # "success"
    BY <1>1, <1>2, <1>4, <2>1 DEF Playing, Over
  <2>5. /\ \A d : d # e => (d \in Successes' <=> d \in Successes)
        /\ e \in Successes' /\ e \notin Successes
    BY <1>2, <2>3, <2>4 DEF Successes
  <2>6. /\ \A i : i # j => (i \in AtStats' <=> i \in AtStats)
        /\ j \in AtStats' /\ j \notin AtStats
    BY <1>2, <2>1, <2>2 DEF AtStats, AtWorker
  <2>7. Cardinality(Successes') = Cardinality(Successes) + 1
    BY <2>5, Finites, Recount
  <2>8. /\ Cardinality(AtStats') = Cardinality(AtStats) + 1
        /\ Cardinality(AtStats) \in Nat
    BY <2>6, Finites, Recount
  <2>9. QED
    BY <2>1, <2>7, <2>8 DEF CountsExactly, WorkflowTypeOK
<1>6. CASE CountExecution(j)
  <2>1. /\ job[j].pc = "stats" /\ Goto(j, "ack") /\ UNCHANGED execution
        /\ workflow' = [workflow EXCEPT !.runs = @ + 1, !.last = "success"]
    BY <1>6 DEF CountExecution, AtWorker, Straight
  <2>2. job'[j].pc = "ack"
    BY <2>1, JobFields DEF Goto, WorkflowTypeOK, JobsType, JobRecord
  <2>3. workflow'.runs = workflow.runs + 1 /\ workflow.runs \in Nat
    BY <2>1 DEF WorkflowTypeOK
  <2>4. Successes' = Successes
    BY <2>1 DEF Successes
  <2>5. /\ \A i : i # j => (i \in AtStats' <=> i \in AtStats)
        /\ j \notin AtStats' /\ j \in AtStats
    BY <1>2, <2>1, <2>2 DEF AtStats, AtWorker
  <2>6. /\ Cardinality(AtStats') = Cardinality(AtStats) - 1
        /\ Cardinality(AtStats) \in Nat
    BY <2>5, Finites, Recount
  <2>7. QED
    BY <2>3, <2>4, <2>6 DEF CountsExactly
<1>7. CASE ~MarkSuccess(j) /\ ~CountExecution(j)
  <2>1. workflow'.runs = workflow.runs
    <3>1. CASE MarkWorkflowFailed(j)
      BY <3>1 DEF MarkWorkflowFailed, WorkflowTypeOK
    <3>2. QED
      BY <1>7, <3>1
      DEF HandleJob, MarkRunning, PushResult, RunNode, HangNode, PostMessage,
          CountMessage, AnnounceMessage, RecordNode, MarkFailed, AnswerBroker
  <2>2. job[j].pc # "stats"
    BY <1>7
    DEF HandleJob, MarkRunning, PushResult, RunNode, HangNode, PostMessage,
        CountMessage, AnnounceMessage, RecordNode, MarkFailed,
        MarkWorkflowFailed, AnswerBroker, AtWorker
  <2>3. ~(job[j].pc = "loop" /\ job'[j].pc = "stats")
    <3>1. CASE job[j].pc = "loop"
      <4>1. PushResult(j)
        BY <1>7, <3>1
        DEF HandleJob, MarkRunning, RunNode, HangNode, PostMessage,
            CountMessage, AnnounceMessage, RecordNode, MarkFailed,
            MarkWorkflowFailed, AnswerBroker, AtWorker
      <4>2. Goto(j, "run")
        BY <4>1 DEF PushResult
      <4>3. job'[j].pc = "run"
        BY <4>2, JobFields DEF Goto, WorkflowTypeOK, JobsType, JobRecord
      <4>4. QED
        BY <4>3
    <3>2. QED
      BY <3>1
  <2>4. \A i \in Jobs : AtWorker(i, "stats")' <=> AtWorker(i, "stats")
    BY <1>2, <1>3, <2>2, <2>3 DEF AtWorker, Edges, NoJob
  <2>5. execution'[e].status = "success" <=> execution[e].status = "success"
    <3>1. CASE execution'[e].status = execution[e].status
      BY <3>1
    <3>2. CASE execution'[e].status # execution[e].status
      <4>1. /\ job[j].pc \in {"start", "catch"}
            /\ execution'[e].status \in {"running", "failed"}
        BY <1>1, <1>2, <2>3, <3>2 DEF StatusStep
      <4>2. Playing(j, e)
        BY <1>1, <1>2, <4>1 DEF Playing, Over
      <4>3. QED
        BY <1>4, <4>1, <4>2
    <3>3. QED
      BY <3>1, <3>2
  <2>6. QED
    BY <1>2, <2>1, <2>4, <2>5, CountFrame
<1>8. QED
  BY <1>5, <1>6, <1>7

LEMMA RequestCounts ==
    ASSUME OneRunInv, CountsExactly, NEW q \in WorkflowRequests, HandleRequest(q),
           \A e \in Executions : ~raced'[e]
    PROVE  CountsExactly'
<1> USE DEF OneRunInv
<1>1. UNCHANGED workflow
  BY DEF HandleRequest, TriggerRead, TriggerCreate, RetryRead, RetryFind,
         RetryReset, PublishWorkflowJob
<1>2. \A j \in Jobs : AtWorker(j, "stats")' <=> AtWorker(j, "stats")
  <2>1. CASE UNCHANGED job
    BY <2>1 DEF AtWorker
  <2>2. ASSUME NEW j \in Jobs, job[j].at = "unused",
               job' = [job EXCEPT ![j] = [NoJob EXCEPT
                 !.at = "queue", !.e = ask[q].e, !.graph = ask[q].graph]]
        PROVE  \A i \in Jobs : AtWorker(i, "stats")' <=> AtWorker(i, "stats")
    <3>1. /\ job'[j].at = "queue"
          /\ \A i \in Jobs \ {j} : job'[i] = job[i]
      BY <2>2 DEF WorkflowTypeOK, JobsType, NoJob
    <3>2. QED
      BY <2>2, <3>1 DEF AtWorker
  <2>3. QED
    BY <2>1, <2>2 DEF HandleRequest, TriggerRead, TriggerCreate, RetryRead,
                      RetryFind, RetryReset, PublishWorkflowJob
<1>3. \A e \in Executions :
        execution'[e].status = "success" <=> execution[e].status = "success"
  <2>1. CASE TriggerCreate(q)
    <3>1. PICK d \in Unused : execution' = [execution EXCEPT ![d].status = "queued"]
      BY <2>1 DEF TriggerCreate
    <3>2. d \in Executions /\ execution[d].status = "none"
      BY DEF Unused
    <3>3. /\ execution'[d].status = "queued"
          /\ \A c \in Executions \ {d} : execution'[c] = execution[c]
      BY <3>1, <3>2, DocIs
    <3>4. QED
      BY <3>2, <3>3
  <2>2. CASE RetryReset(q)
    <3>0. PICK d \in Executions : d = ask[q].e
      BY <2>2 DEF RetryReset, WorkflowTypeOK
    <3>1. /\ ask[q].pc = "reset"
          /\ execution' = [execution EXCEPT ![d].status = "queued",
                                            ![d].retries = @ + 1]
          /\ raced' = [raced EXCEPT ![d] =
               @ \/ execution[d].status # ask[q].seen.status
                 \/ execution[d].retries # ask[q].seen.retries]
      BY <2>2, <3>0 DEF RetryReset
    <3>2. /\ execution'[d].status = "queued"
          /\ \A c \in Executions \ {d} : execution'[c] = execution[c]
      BY <3>1 DEF WorkflowTypeOK, ExecutionDoc
    <3>3. execution[d].status = ask[q].seen.status
      BY <3>1 DEF WorkflowTypeOK, Flags
    <3>4. execution[d].status = "failed"
      BY <3>1, <3>3 DEF SeenInv
    <3>5. QED
      BY <3>2, <3>4
  <2>3. CASE UNCHANGED execution
    BY <2>3
  <2>4. QED
    BY <2>1, <2>2, <2>3 DEF HandleRequest, TriggerRead, RetryRead, RetryFind,
                            PublishWorkflowJob
<1>4. QED
  BY <1>1, <1>2, <1>3, CountFrame

LEMMA RunsStep ==
    ASSUME OneRunInv, PathInv, RunInv, RunsInv, WorkflowNext
    PROVE  RunsInv'
<1> USE DEF OneRunInv
<1>1. /\ workflow'.last # "uncreated"
      /\ workflow.last = "uncreated" => CreateWorkflow
  BY CreatedFirst DEF RunsInv
<1>2. SUFFICES ASSUME Undisturbed'
               PROVE  /\ \A e \in Executions : ~redone'[e]
                      /\ SettledInv'
                      /\ Straight' => CountsExactly'
  BY <1>1 DEF RunsInv
<1>3. /\ \A e \in Executions : ~redone[e]
      /\ SettledInv
      /\ Straight => CountsExactly
  BY <1>2, FaultsGrow DEF RunsInv
<1>4. /\ ~CallFault /\ ~CrashWorker
      /\ \A j \in Jobs : ~ExpireJob(j)
  BY <1>2, Undisturbs
<1>5. UNCHANGED redone
  <2>1. ASSUME NEW q \in WorkflowRequests, HandleRequest(q)
        PROVE  UNCHANGED redone
    BY <2>1 DEF HandleRequest, TriggerRead, TriggerCreate, RetryRead, RetryFind,
                RetryReset, PublishWorkflowJob
  <2>2. QED
    BY <1>4, <2>1, HandlerShape
    DEF WorkflowNext, Deliver, CreateWorkflow, UpdateWorkflow,
        SetWorkflowEnabled, DeleteWorkflow
<1>6. SettledInv'
  BY <1>2, <1>3, SettledStep
<1>7. ASSUME Straight'
      PROVE  CountsExactly'
  <2>1. /\ workflow'.exists
        /\ \A e \in Executions : ~raced'[e] /\ ~raced[e] /\ ~overlapped[e]
    BY <1>7, HistoryGrows, InPlayOne DEF Straight, WorkflowNext
  <2>2. CASE CreateWorkflow
    <3>1. Uncreated /\ UNCHANGED <<execution, job>> /\ workflow'.runs = 0
      BY <2>2 DEF CreateWorkflow, RunsInv
    <3>2. AtStats' = {} /\ Successes' = {}
      BY <3>1 DEF Uncreated, AtStats, Successes, AtWorker
    <3>3. QED
      BY <3>1, <3>2, FS_EmptySet DEF CountsExactly
  <2>3. CASE UpdateWorkflow \/ SetWorkflowEnabled
    <3>1. /\ UNCHANGED <<execution, job>>
          /\ workflow.exists
      BY <2>3 DEF UpdateWorkflow, SetWorkflowEnabled
    <3>2. workflow'.runs = workflow.runs
      <4>1. CASE UpdateWorkflow
        <5>1. PICK g \in Graphs, b \in BOOLEAN :
                workflow' = [workflow EXCEPT !.nodes = g, !.enabled = b]
          BY <4>1 DEF UpdateWorkflow
        <5>2. QED
          BY <5>1 DEF WorkflowTypeOK
      <4>2. CASE SetWorkflowEnabled
        <5>1. PICK b : workflow' = [workflow EXCEPT !.enabled = b]
          BY <4>2 DEF SetWorkflowEnabled
        <5>2. QED
          BY <5>1 DEF WorkflowTypeOK
      <4>3. QED
        BY <2>3, <4>1, <4>2
    <3>3. CountsExactly
      BY <1>3, <2>1, <3>1 DEF Straight
    <3>4. QED
      BY <3>1, <3>2, <3>3, CountFrame DEF AtWorker
  <2>4. CASE DeleteWorkflow
    BY <2>1, <2>4 DEF DeleteWorkflow, WorkflowTypeOK
  <2>5. ASSUME NEW j \in Jobs, HandleJob(j)
        PROVE  CountsExactly'
    <3>1. workflow.exists
      <4>1. CASE CountExecution(j)
        BY <2>1, <4>1 DEF CountExecution
      <4>2. CASE MarkWorkflowFailed(j)
        BY <2>1, <4>2 DEF MarkWorkflowFailed
      <4>3. QED
        BY <2>1, <2>5, <4>1, <4>2
        DEF HandleJob, MarkRunning, PushResult, RunNode, HangNode, PostMessage,
            CountMessage, AnnounceMessage, RecordNode, MarkSuccess, MarkFailed,
            AnswerBroker
    <3>2. Straight
      BY <2>1, <3>1 DEF Straight
    <3>3. QED
      BY <1>3, <1>4, <2>5, <3>2, HandlerCounts
  <2>6. ASSUME NEW q \in WorkflowRequests, HandleRequest(q)
        PROVE  CountsExactly'
    <3>1. UNCHANGED workflow
      BY <2>6 DEF HandleRequest, TriggerRead, TriggerCreate, RetryRead,
                  RetryFind, RetryReset, PublishWorkflowJob
    <3>2. CountsExactly
      BY <1>3, <2>1, <3>1 DEF Straight
    <3>3. QED
      BY <2>1, <2>6, <3>2, RequestCounts
  <2>7. ASSUME NEW j \in Jobs, Deliver(j)
        PROVE  CountsExactly'
    <3>1. /\ job[j].at = "queue" /\ job' = [job EXCEPT ![j].at = "worker"]
          /\ UNCHANGED <<execution, workflow>>
      BY <2>7 DEF Deliver
    <3>2. CountsExactly
      BY <1>3, <2>1, <3>1 DEF Straight
    <3>3. /\ \A i \in Jobs \ {j} : job'[i] = job[i]
          /\ job'[j].pc = "start" /\ job[j].pc = "start"
      BY <3>1, JobFields DEF WorkflowTypeOK, JobsType, JobRecord, PathInv, PathOK
    <3>4. \A i \in Jobs : AtWorker(i, "stats")' <=> AtWorker(i, "stats")
      BY <3>3 DEF AtWorker
    <3>5. QED
      BY <3>1, <3>2, <3>4, CountFrame
  <2>8. QED
    BY <1>4, <2>2, <2>3, <2>4, <2>5, <2>6, <2>7 DEF WorkflowNext
<1>8. QED
  BY <1>3, <1>5, <1>6, <1>7

TruthInv == OneRunInv /\ PathInv /\ RunInv /\ FirstInv /\ RunsInv

LEMMA TruthStep ==
    TruthInv /\ [WorkflowNext]_workflowVars => TruthInv'
<1> SUFFICES ASSUME TruthInv, [WorkflowNext]_workflowVars
             PROVE  TruthInv'
  OBVIOUS
<1>1. OneRunInv' /\ WorkflowTypeOK
  BY OneRunStep DEF TruthInv, OneRunInv
<1>2. CASE UNCHANGED workflowVars
  <2> USE <1>2 DEF workflowVars, workflowHistory, TruthInv, Playing, AtWorker,
                   Asks, Undisturbed
  <2>1. PathInv'
    BY DEF PathInv
  <2>2. RunInv'
    BY DEF RunInv, RunOf, Alone, Works, PlanOf, Planned
  <2>3. FirstInv'
    BY DEF FirstInv, FirstRun, FirstRunOf, Mine, Posted, PostedBy, PostedAll
  <2>4. RunsInv'
    BY DEF RunsInv, Uncreated, SettledInv, NotPlaying, Straight, CountsExactly,
           AtStats, Successes
  <2>5. QED
    BY <1>1, <2>1, <2>2, <2>3, <2>4
<1>3. CASE WorkflowNext
  <2>1. PathInv' /\ RunInv'
    BY <1>1, <1>3, PathStep, RunStep DEF TruthInv
  <2>2. FirstInv'
    BY <1>1, <1>3, FirstStep DEF TruthInv, RunsInv
  <2>3. RunsInv'
    BY <1>3, RunsStep DEF TruthInv
  <2>4. QED
    BY <1>1, <2>1, <2>2, <2>3 DEF TruthInv
<1>4. QED
  BY <1>2, <1>3

LEMMA TruthFollows == TruthInv => ExecutionTruth
<1> SUFFICES ASSUME TruthInv, NEW e \in Executions, ~overlapped[e]
             PROVE  /\ (execution[e].status = "success" /\ ~redone[e]) =>
                         FullRun(execution[e].results, plan[e])
                    /\ (execution[e].status = "failed" /\ Undisturbed) =>
                         FailedAtLast(execution[e].results)
                    /\ (/\ Undisturbed
                        /\ execution[e].status = "success"
                        /\ execution[e].retries = 0) =>
                         PostedAll(e)
                    /\ ( /\ Undisturbed
                         /\ workflow.exists
                         /\ \A d \in Executions : ~overlapped[d] /\ ~raced[d]
                         /\ \A j \in Jobs : job[j].at # "worker") =>
                         workflow.runs = Cardinality(Successes)
  BY DEF ExecutionTruth, FailedAtLast, PostedAll, Posted, Successes
<1>1. RunOf(e) /\ (~redone[e] => PlanOf(e))
  BY DEF TruthInv, RunInv, RunOf
<1>2. FirstRun(e) => FirstRunOf(e)
  BY DEF TruthInv, FirstInv
<1>3. ASSUME Undisturbed, Straight, \A j \in Jobs : job[j].at # "worker"
      PROVE  workflow.runs = Cardinality(Successes)
  <2>1. AtStats = {}
    BY <1>3 DEF AtStats, AtWorker
  <2>2. CountsExactly
    BY <1>3 DEF TruthInv, RunsInv
  <2>3. workflow.runs \in Nat
    BY DEF TruthInv, OneRunInv, WorkflowTypeOK
  <2>4. QED
    BY <2>1, <2>2, <2>3, FS_EmptySet DEF CountsExactly
<1>4. QED
  BY <1>1, <1>2, <1>3 DEF RunOf, PlanOf, FirstRun, FirstRunOf, Straight

(* With any graphs, requests, jobs and mishaps: as long as an execution    *)
(* had one run in play at a time, a success recorded by executeWorkflow is *)
(* one whole path through the nodes published last (but for a crash that   *)
(* brought back an old job), and if no call failed and nothing crashed, a  *)
(* failure ends in a failed node, a first run has posted and counted each  *)
(* of its messages once, and executionCount is the number of successes.    *)
THEOREM RecordsTellTheRun == WorkflowSpec => []ExecutionTruth
<1>1. WorkflowInit => TruthInv
  BY WorkflowTypeInit, LiveInit, RunInit, FirstInit, RunsInit
  DEF TruthInv, OneRunInv
<1>2. QED
  BY <1>1, TruthStep, TruthFollows, PTL DEF WorkflowSpec

-----------------------------------------------------------------------------
(* Deliveries to a webhook: the types, and where a delivery's log stands.  *)

Sending == {"post", "body", "log", "hung"}

DeliveryRecord ==
    [pc : Sending \cup Ended \cup {"stats", "timer"},
     event : EventNames \cup {TestEvent}, url : Urls \cup {TestEvent},
     version : Nat, attempt : Nat, ok : BOOLEAN]

HookDoc ==
    [state : {"none", "there", "deleted"}, url : Urls \cup {TestEvent},
     events : SUBSET EventNames, active : BOOLEAN,
     success : Nat, failure : Nat, version : Nat]

HookTypeOK ==
    /\ hook \in HookDoc
    /\ delivery \in [Deliveries -> DeliveryRecord]
    /\ hookLog \in [Deliveries -> Seq(BOOLEAN)]
    /\ hookFaults \in Nat
    /\ uncounted \in Nat

(* What a delivery with record r takes the webhook h for.                  *)
Current(r, h) ==
    r.version = h.version =>
      /\ h.state = "there"
      /\ r.url = h.url
      /\ r.event = TestEvent \/ (h.active /\ r.event \in h.events)

(* Before its entry an attempt has those of the earlier ones, which failed.*)
Logs(r, log) ==
    /\ r.pc = "idle" => log = <<>>
    /\ r.pc # "idle" => r.attempt \in 1 .. MaxAttempts
    /\ r.pc \in Sending => Len(log) = r.attempt - 1
    /\ r.pc \in {"stats", "timer"} => Len(log) = r.attempt
    /\ r.pc = "timer" => r.attempt < MaxAttempts
    /\ Len(log) <= MaxAttempts

HookInv ==
    /\ \A d \in Deliveries :
         /\ delivery[d].version <= hook.version
         /\ delivery[d].pc # "idle" => Current(delivery[d], hook)
         /\ Logs(delivery[d], hookLog[d])
    /\ hook.state = "none" => \A d \in Deliveries : delivery[d].pc = "idle"

LEMMA HookInit == WebhookInit => HookTypeOK /\ HookInv
<1> SUFFICES ASSUME WebhookInit
             PROVE  HookTypeOK /\ HookInv
  OBVIOUS
<1>1. NoDelivery \in DeliveryRecord
  BY DEF NoDelivery, DeliveryRecord, Ended
<1>2. HookTypeOK
  BY <1>1 DEF WebhookInit, HookTypeOK, HookDoc
<1>3. MaxAttempts \in Nat
  BY WebhookAssumption
<1>4. HookInv
  BY <1>3 DEF WebhookInit, HookInv, NoDelivery, Logs, Sending
<1>5. QED
  BY <1>2, <1>4

(* A step of one delivery that leaves what it took the webhook for.        *)
LEMMA OneDelivery ==
    ASSUME HookTypeOK, HookInv, NEW d \in Deliveries, NEW r \in DeliveryRecord,
           delivery' = [delivery EXCEPT ![d] = r],
           UNCHANGED hook, UNCHANGED hookLog,
           r.version <= hook.version,
           r.pc # "idle" /\ Current(r, hook),
           Logs(r, hookLog[d]), hook.state # "none"
    PROVE  /\ delivery' \in [Deliveries -> DeliveryRecord]
           /\ HookInv'
<1>1. /\ delivery'[d] = r
      /\ \A c \in Deliveries \ {d} : delivery'[c] = delivery[c]
      /\ delivery' \in [Deliveries -> DeliveryRecord]
  BY DEF HookTypeOK
<1>2. ASSUME NEW c \in Deliveries
      PROVE  /\ delivery'[c].version <= hook'.version
             /\ delivery'[c].pc # "idle" => Current(delivery'[c], hook')
             /\ Logs(delivery'[c], hookLog'[c])
  <2>1. CASE c = d
    BY <1>1, <2>1
  <2>2. CASE c # d
    <3>1. delivery'[c] = delivery[c]
      BY <1>1, <2>2
    <3>2. QED
      BY <3>1 DEF HookInv
  <2>3. QED
    BY <2>1, <2>2
<1>3. QED
  BY <1>1, <1>2 DEF HookInv

LEMMA LaunchStep ==
    ASSUME HookTypeOK, HookInv, NEW d \in Deliveries,
           NEW event \in EventNames \cup {TestEvent}, hook.state = "there",
           event = TestEvent \/ (hook.active /\ event \in hook.events),
           Launch(d, event)
    PROVE  HookTypeOK' /\ HookInv'
<1> DEFINE r == [pc |-> "post", event |-> event, url |-> hook.url,
                 version |-> hook.version, attempt |-> 1, ok |-> FALSE]
<1>1. /\ r \in DeliveryRecord /\ r.pc = "post" /\ r.attempt = 1
      /\ r.version = hook.version /\ r.url = hook.url /\ r.event = event
  BY DEF HookTypeOK, HookDoc, DeliveryRecord, Sending
<1>2. /\ delivery' = [delivery EXCEPT ![d] = r]
      /\ UNCHANGED <<hook, hookLog, hookFaults, uncounted>>
      /\ delivery[d].pc = "idle"
  BY DEF Launch, At
<1>3. hookLog[d] = <<>> /\ Len(<<>>) = 0 /\ MaxAttempts \in Nat \ {0}
  BY <1>2, WebhookAssumption DEF HookInv, Logs
<1> HIDE DEF r
<1>4. Logs(r, hookLog[d])
  BY <1>1, <1>3 DEF Logs, Sending
<1>5. Current(r, hook) /\ hook.version \in Nat
  BY <1>1 DEF Current, HookTypeOK, HookDoc
<1>a. r.version <= hook.version /\ hook.state # "none" /\ r.pc # "idle"
  BY <1>1, <1>5
<1>b. r \in DeliveryRecord /\ UNCHANGED hook /\ UNCHANGED hookLog
  BY <1>1, <1>2
<1>6. /\ delivery' \in [Deliveries -> DeliveryRecord]
      /\ HookInv'
  BY <1>2, <1>4, <1>5, <1>a, <1>b, OneDelivery
<1>7. QED
  BY <1>2, <1>6 DEF HookTypeOK

LEMMA UserStep ==
    ASSUME HookTypeOK, HookInv,
           CreateWebhook \/ UpdateWebhook \/ DeleteWebhook
    PROVE  HookTypeOK' /\ HookInv'
<1>1. UNCHANGED <<delivery, hookLog, hookFaults, uncounted>>
  BY DEF CreateWebhook, UpdateWebhook, DeleteWebhook
<1>2. CASE CreateWebhook
  <2>1. PICK u \in Urls, es \in SUBSET EventNames :
          hook' = [hook EXCEPT !.state = "there", !.url = u, !.events = es]
    BY <1>2 DEF CreateWebhook
  <2>2. hook.state = "none"
    BY <1>2 DEF CreateWebhook
  <2>3. HookTypeOK'
    BY <1>1, <2>1 DEF HookTypeOK, HookDoc
  <2>4. hook'.version = hook.version /\ hook'.state = "there"
    BY <2>1 DEF HookTypeOK, HookDoc
  <2>5. HookInv'
    BY <1>1, <2>2, <2>4 DEF HookInv
  <2>6. QED
    BY <2>3, <2>5
<1>3. CASE UpdateWebhook \/ DeleteWebhook
  <2>0. hook \in HookDoc /\ hook.version \in Nat /\ hook.state = "there"
    BY <1>3 DEF HookTypeOK, HookDoc, UpdateWebhook, DeleteWebhook
  <2>v. PICK v \in Nat : v = hook.version + 1
    BY <2>0
  <2>h. \/ \E u \in Urls : hook' = [hook EXCEPT !.url = u, !.version = v]
        \/ \E es \in SUBSET EventNames :
             hook' = [hook EXCEPT !.events = es, !.version = v]
        \/ hook' = [hook EXCEPT !.active = ~@, !.version = v]
        \/ hook' = [hook EXCEPT !.state = "deleted", !.version = v]
    BY <1>3, <2>v DEF UpdateWebhook, DeleteWebhook
  <2>1. /\ hook'.version = hook.version + 1
        /\ hook.version \in Nat
        /\ hook'.state # "none"
        /\ HookTypeOK'
    <3>1. hook'.version = v /\ hook'.state # "none"
      BY <2>0, <2>h DEF HookDoc
    <3>2. hook' \in HookDoc
      <4>1. CASE \E u \in Urls :
                   hook' = [hook EXCEPT !.url = u, !.version = v]
        BY <2>0, <4>1 DEF HookDoc
      <4>2. CASE \E es \in SUBSET EventNames :
                   hook' = [hook EXCEPT !.events = es, !.version = v]
        BY <2>0, <4>2 DEF HookDoc
      <4>3. CASE hook' = [hook EXCEPT !.active = ~@, !.version = v]
        BY <2>0, <4>3 DEF HookDoc
      <4>4. CASE hook' = [hook EXCEPT !.state = "deleted", !.version = v]
        BY <2>0, <4>4 DEF HookDoc
      <4>5. QED
        BY <2>h, <4>1, <4>2, <4>3, <4>4
    <3>3. QED
      BY <1>1, <2>0, <2>v, <3>1, <3>2 DEF HookTypeOK
  <2>2. \A d \in Deliveries : delivery[d].version \in Nat
    BY DEF HookTypeOK, DeliveryRecord
  <2>3. HookInv'
    BY <1>1, <2>1, <2>2 DEF HookInv, Current
  <2>4. QED
    BY <2>1, <2>3
<1>4. QED
  BY <1>2, <1>3

HookEdges ==
    {<<"post", "body">>, <<"post", "log">>, <<"body", "log">>,
     <<"body", "hung">>, <<"log", "stats">>, <<"log", "lost">>,
     <<"stats", "delivered">>, <<"stats", "timer">>, <<"stats", "given up">>,
     <<"stats", "lost">>, <<"timer", "post">>}

(* What an attempt does to its record, s before and r after.               *)
Turn(s, r) ==
    /\ r.event = s.event /\ r.url = s.url /\ r.version = s.version
    /\ <<s.pc, r.pc>> \in HookEdges
    /\ r.attempt = IF s.pc = "timer" THEN s.attempt + 1 ELSE s.attempt
    /\ s.pc \in {"log", "stats"} => r.ok = s.ok
    /\ r.pc = "timer" => s.attempt < MaxAttempts
    /\ r.pc \in {"timer", "given up"} => ~s.ok

SameAddress ==
    /\ hook'.version = hook.version /\ hook'.state = hook.state
    /\ hook'.url = hook.url /\ hook'.events = hook.events
    /\ hook'.active = hook.active

LEMMA DeliveryShape ==
    ASSUME HookTypeOK, NEW d \in Deliveries, DeliveryStep(d)
    PROVE  \E r \in DeliveryRecord :
             /\ delivery' = [delivery EXCEPT ![d] = r]
             /\ Turn(delivery[d], r)
             /\ IF r.pc = "stats"
                THEN hookLog' = [hookLog EXCEPT ![d] =
                                   Append(@, delivery[d].ok)]
                ELSE UNCHANGED hookLog
             /\ delivery[d].pc # "stats" => UNCHANGED <<hook, uncounted>>
<1> DEFINE s == delivery[d]
           Logging(r) == IF r.pc = "stats"
                         THEN hookLog' = [hookLog EXCEPT ![d] =
                                            Append(@, s.ok)]
                         ELSE UNCHANGED hookLog
           Done(r) == /\ delivery' = [delivery EXCEPT ![d] = r]
                      /\ Turn(s, r)
                      /\ Logging(r)
                      /\ s.pc # "stats" => UNCHANGED <<hook, uncounted>>
<1>0. s \in DeliveryRecord
  BY DEF HookTypeOK
<1>m. ASSUME NEW pc, Move(d, pc)
      PROVE  delivery' = [delivery EXCEPT ![d] = [s EXCEPT !.pc = pc]]
  BY <1>m DEF Move
<1>1. CASE PostAnswered(d)
  <2>1. PICK pc \in {"body", "log"}, ok \in BOOLEAN :
          delivery' = [delivery EXCEPT ![d].pc = pc, ![d].ok = ok]
    BY <1>1 DEF PostAnswered
  <2> DEFINE r == [s EXCEPT !.pc = pc, !.ok = ok]
  <2>2. s.pc = "post" /\ UNCHANGED <<hook, hookLog, uncounted>>
    BY <1>1 DEF PostAnswered, At
  <2>3. delivery' = [delivery EXCEPT ![d] = r]
    BY <2>1
  <2>4. r \in DeliveryRecord /\ r.pc = pc /\ Turn(s, r)
    BY <1>0, <2>2 DEF DeliveryRecord, Turn, HookEdges, Sending
  <2>5. QED
    BY <2>2, <2>3, <2>4
<1>2. CASE ReadBody(d)
  <2>1. s.pc = "body" /\ UNCHANGED <<hook, hookLog, uncounted>>
    BY <1>2 DEF ReadBody, At
  <2>2. CASE delivery' = [delivery EXCEPT ![d].pc = "log", ![d].ok = FALSE]
    <3> DEFINE r == [s EXCEPT !.pc = "log", !.ok = FALSE]
    <3>1. delivery' = [delivery EXCEPT ![d] = r]
      BY <2>2
    <3>2. r \in DeliveryRecord /\ r.pc = "log" /\ Turn(s, r)
      BY <1>0, <2>1 DEF DeliveryRecord, Turn, HookEdges, Sending
    <3>3. QED
      BY <2>1, <3>1, <3>2
  <2>3. CASE \E pc \in {"log", "hung"} : Move(d, pc)
    <3>1. PICK pc \in {"log", "hung"} : Move(d, pc)
      BY <2>3
    <3> DEFINE r == [s EXCEPT !.pc = pc]
    <3>2. r \in DeliveryRecord /\ r.pc = pc /\ Turn(s, r)
      BY <1>0, <2>1 DEF DeliveryRecord, Turn, HookEdges, Sending
    <3>3. QED
      BY <1>m, <2>1, <3>1, <3>2
  <2>4. QED
    BY <1>2, <2>2, <2>3 DEF ReadBody
<1>3. CASE LogAttempt(d)
  <2>1. s.pc = "log" /\ UNCHANGED <<hook, uncounted>>
    BY <1>3 DEF LogAttempt, At
  <2>2. PICK pc \in {"stats", "lost"} :
          /\ Move(d, pc)
          /\ IF pc = "stats"
             THEN hookLog' = [hookLog EXCEPT ![d] = Append(@, s.ok)]
             ELSE UNCHANGED hookLog
    BY <1>3 DEF LogAttempt
  <2> DEFINE r == [s EXCEPT !.pc = pc]
  <2>3. r \in DeliveryRecord /\ r.pc = pc /\ Turn(s, r)
    BY <1>0, <2>1 DEF DeliveryRecord, Turn, HookEdges, Ended
  <2>4. QED
    BY <1>m, <2>1, <2>2, <2>3
<1>4. CASE CountAttempt(d)
  <2>1. s.pc = "stats" /\ UNCHANGED hookLog
    BY <1>4 DEF CountAttempt, At
  <2>2. PICK pc \in {"delivered", "timer", "given up", "lost"} :
          /\ Move(d, pc)
          /\ pc = "timer" => s.attempt < MaxAttempts
          /\ pc \in {"timer", "given up"} => ~s.ok
    BY <1>4 DEF CountAttempt
  <2> DEFINE r == [s EXCEPT !.pc = pc]
  <2>3. r \in DeliveryRecord /\ r.pc = pc /\ Turn(s, r)
    BY <1>0, <2>1, <2>2 DEF DeliveryRecord, Turn, HookEdges, Ended
  <2>4. QED
    BY <1>m, <2>1, <2>2, <2>3
<1>5. CASE RetryTimer(d)
  <2>1. /\ s.pc = "timer" /\ UNCHANGED <<hook, hookLog, uncounted>>
        /\ delivery' = [delivery EXCEPT ![d].pc = "post", ![d].ok = FALSE,
                                        ![d].attempt = @ + 1]
    BY <1>5 DEF RetryTimer, At
  <2>a. PICK a \in Nat : a = s.attempt + 1
    BY <1>0 DEF DeliveryRecord
  <2> DEFINE r == [s EXCEPT !.pc = "post", !.ok = FALSE, !.attempt = a]
  <2>2. delivery' = [delivery EXCEPT ![d] = r]
    BY <2>1, <2>a
  <2>3. r \in DeliveryRecord /\ r.pc = "post" /\ Turn(s, r)
    BY <1>0, <2>1, <2>a DEF DeliveryRecord, Turn, HookEdges, Sending
  <2>4. QED
    BY <2>1, <2>2, <2>3
<1>6. QED
  BY <1>1, <1>2, <1>3, <1>4, <1>5 DEF DeliveryStep

(* What counting an attempt does to the document and its statistics.       *)
LEMMA CountShape ==
    ASSUME HookTypeOK, NEW d \in Deliveries, DeliveryStep(d)
    PROVE  /\ hook' \in HookDoc /\ SameAddress
           /\ hookFaults' \in Nat /\ uncounted' \in Nat
<1>1. /\ hook \in HookDoc /\ hook.success + 1 \in Nat
      /\ hook.failure + 1 \in Nat
      /\ hookFaults \in Nat /\ uncounted \in Nat
  BY DEF HookTypeOK, HookDoc
<1>2. hookFaults' \in Nat /\ uncounted' \in Nat
  <2>1. /\ hookFaults' = hookFaults \/ hookFaults' = hookFaults + 1
        /\ uncounted' = uncounted \/ uncounted' = uncounted + 1
    BY DEF DeliveryStep, PostAnswered, ReadBody, LogAttempt, CountAttempt,
           RetryTimer, HookFault
  <2>2. QED
    BY <1>1, <2>1
<1>3. ASSUME UNCHANGED hook
      PROVE  hook' \in HookDoc /\ SameAddress
  BY <1>1, <1>3 DEF SameAddress
<1>4. ASSUME NEW v \in Nat, hook' = [hook EXCEPT !.success = v]
      PROVE  hook' \in HookDoc /\ SameAddress
  BY <1>1, <1>4 DEF SameAddress, HookDoc
<1>5. ASSUME NEW v \in Nat, hook' = [hook EXCEPT !.failure = v]
      PROVE  hook' \in HookDoc /\ SameAddress
  BY <1>1, <1>5 DEF SameAddress, HookDoc
<1>6. \/ UNCHANGED hook
      \/ hook' = [hook EXCEPT !.success = @ + 1]
      \/ hook' = [hook EXCEPT !.failure = @ + 1]
  BY DEF DeliveryStep, PostAnswered, ReadBody, LogAttempt, CountAttempt,
         RetryTimer
<1>7. QED
  BY <1>1, <1>2, <1>3, <1>4, <1>5, <1>6

LEMMA TurnLogs ==
    ASSUME NEW s \in DeliveryRecord, NEW r \in DeliveryRecord, Turn(s, r),
           NEW log \in Seq(BOOLEAN), Logs(s, log)
    PROVE  /\ s.pc # "idle" /\ r.pc # "idle"
           /\ r.pc = "stats" => Logs(r, Append(log, s.ok))
           /\ r.pc # "stats" => Logs(r, log)
<1>1. /\ s.attempt \in Nat /\ s.ok \in BOOLEAN /\ Len(log) \in Nat
      /\ MaxAttempts \in Nat
  BY WebhookAssumption DEF DeliveryRecord
<1>2. Append(log, s.ok) # <<>> /\ Len(Append(log, s.ok)) = Len(log) + 1
  BY <1>1
<1> DEFINE more == Append(log, s.ok)
<1> HIDE DEF more
<1>3. s.pc # "idle" /\ r.pc # "idle"
  BY DEF Turn, HookEdges
<1>4. r.pc = "stats" => Logs(r, more)
  BY <1>1, <1>2, <1>3 DEF Turn, HookEdges, Logs, Sending, more
<1>5. CASE s.pc = "timer"
  <2>a. r.pc = "post" /\ r.attempt = s.attempt + 1
    BY <1>5 DEF Turn, HookEdges
  <2>b. /\ s.attempt \in 1 .. MaxAttempts /\ Len(log) = s.attempt
        /\ s.attempt < MaxAttempts /\ Len(log) <= MaxAttempts
    BY <1>5 DEF Logs
  <2>1. /\ r.pc = "post" /\ r.attempt = s.attempt + 1
        /\ s.attempt < MaxAttempts /\ s.attempt >= 1
        /\ Len(log) = s.attempt
    BY <1>1, <2>a, <2>b
  <2>2. r.attempt \in 1 .. MaxAttempts /\ Len(log) = r.attempt - 1
    BY <1>1, <2>1
  <2>3. Logs(r, log)
    BY <1>1, <2>1, <2>2 DEF Logs, Sending
  <2>4. QED
    BY <1>3, <2>1, <2>3
<1>6. CASE s.pc # "timer"
  <2>1. r.attempt = s.attempt /\ r.attempt \in 1 .. MaxAttempts
    BY <1>3, <1>6 DEF Turn, Logs
  <2>2. r.pc # "stats" => Logs(r, log)
    BY <1>1, <1>3, <1>6, <2>1 DEF Turn, HookEdges, Logs, Sending
  <2>3. QED
    BY <1>3, <1>4, <2>2 DEF more
<1>7. QED
  BY <1>5, <1>6

LEMMA DeliveryStepHook ==
    ASSUME HookTypeOK, HookInv, NEW d \in Deliveries, DeliveryStep(d)
    PROVE  HookTypeOK' /\ HookInv'
<1>1. PICK r \in DeliveryRecord :
        /\ delivery' = [delivery EXCEPT ![d] = r]
        /\ Turn(delivery[d], r)
        /\ IF r.pc = "stats"
           THEN hookLog' = [hookLog EXCEPT ![d] = Append(@, delivery[d].ok)]
           ELSE UNCHANGED hookLog
  BY DeliveryShape
<1>2. /\ delivery[d] \in DeliveryRecord /\ delivery[d].ok \in BOOLEAN
      /\ hookLog[d] \in Seq(BOOLEAN)
  BY DEF HookTypeOK, DeliveryRecord
<1>3. Append(hookLog[d], delivery[d].ok) \in Seq(BOOLEAN)
  BY <1>2
<1>4. /\ delivery' \in [Deliveries -> DeliveryRecord]
      /\ hookLog' \in [Deliveries -> Seq(BOOLEAN)]
  BY <1>1, <1>3 DEF HookTypeOK
<1>5. HookTypeOK'
  BY <1>4, CountShape DEF HookTypeOK
<1>6. SameAddress
  BY CountShape
<1>7. ASSUME NEW c \in Deliveries
      PROVE  /\ delivery'[c].version <= hook'.version
             /\ delivery'[c].pc # "idle" => Current(delivery'[c], hook')
             /\ Logs(delivery'[c], hookLog'[c])
  <2>1. CASE c = d
    <3>1. /\ delivery'[d] = r
          /\ hookLog'[d] = IF r.pc = "stats"
                           THEN Append(hookLog[d], delivery[d].ok)
                           ELSE hookLog[d]
      BY <1>1 DEF HookTypeOK
    <3>2. Logs(r, hookLog'[d]) /\ delivery[d].pc # "idle"
      BY <1>1, <1>2, <3>1, TurnLogs DEF HookInv
    <3>3. /\ delivery[d].version <= hook.version
          /\ Current(delivery[d], hook)
      BY <3>2 DEF HookInv
    <3>4. r.version <= hook'.version /\ Current(r, hook')
      BY <1>1, <1>6, <3>3 DEF Turn, SameAddress, Current
    <3>5. QED
      BY <2>1, <3>1, <3>2, <3>4
  <2>2. CASE c # d
    <3>1. delivery'[c] = delivery[c] /\ hookLog'[c] = hookLog[c]
      BY <1>1, <2>2 DEF HookTypeOK
    <3>2. QED
      BY <1>6, <3>1 DEF HookInv, SameAddress, Current
  <2>3. QED
    BY <2>1, <2>2
<1>8. hook'.state # "none"
  <2>1. delivery[d].pc # "idle"
    BY <1>1 DEF Turn, HookEdges
  <2>2. QED
    BY <1>6, <2>1 DEF HookInv, SameAddress
<1>9. QED
  BY <1>5, <1>7, <1>8 DEF HookInv

LEMMA CrashStepHook ==
    ASSUME HookTypeOK, HookInv, CrashSender
    PROVE  HookTypeOK' /\ HookInv'
<1> DEFINE gone(d) == [delivery[d] EXCEPT !.pc = "lost"]
<1>1. /\ delivery' = [d \in Deliveries |->
             IF delivery[d].pc \in Ended THEN delivery[d] ELSE gone(d)]
      /\ UNCHANGED <<hook, hookLog>>
      /\ hookFaults' = hookFaults + 1
      /\ uncounted' = uncounted
           + Cardinality({d \in Deliveries : At(d, "stats")})
  BY DEF CrashSender, HookFault
<1>2. ASSUME NEW d \in Deliveries, delivery[d].pc \notin Ended
      PROVE  /\ gone(d) \in DeliveryRecord /\ gone(d).pc = "lost"
             /\ gone(d).version = delivery[d].version
             /\ gone(d).attempt = delivery[d].attempt
             /\ Current(gone(d), hook) = Current(delivery[d], hook)
             /\ delivery[d].pc # "idle"
  <2>1. delivery[d] \in DeliveryRecord
    BY DEF HookTypeOK
  <2>2. QED
    BY <1>2, <2>1 DEF DeliveryRecord, Current, Ended
<1> HIDE DEF gone
<1>3. Cardinality({d \in Deliveries : At(d, "stats")}) \in Nat
  <2>1. IsFiniteSet({d \in Deliveries : At(d, "stats")})
    BY WebhookAssumption, FS_Subset
  <2>2. QED
    BY <2>1, FS_CardinalityType
<1>4. HookTypeOK'
  BY <1>1, <1>2, <1>3 DEF HookTypeOK
<1>5. ASSUME NEW c \in Deliveries
      PROVE  /\ delivery'[c].version <= hook'.version
             /\ delivery'[c].pc # "idle" => Current(delivery'[c], hook')
             /\ Logs(delivery'[c], hookLog'[c])
  <2>1. CASE delivery[c].pc \in Ended
    BY <1>1, <2>1 DEF HookInv
  <2>2. CASE delivery[c].pc \notin Ended
    <3>1. delivery'[c] = gone(c)
      BY <1>1, <2>2
    <3>2. Logs(gone(c), hookLog[c])
      BY <1>2, <2>2 DEF HookInv, Logs, Sending
    <3>3. QED
      BY <1>1, <1>2, <2>2, <3>1, <3>2 DEF HookInv
  <2>3. QED
    BY <2>1, <2>2
<1>6. hook'.state = "none" => \A c \in Deliveries : delivery'[c].pc = "idle"
  BY <1>1 DEF HookInv, Ended
<1>7. QED
  BY <1>4, <1>5, <1>6 DEF HookInv

LEMMA HookStep ==
    HookTypeOK /\ HookInv /\ [WebhookNext]_webhookVars
      => HookTypeOK' /\ HookInv'
<1> SUFFICES ASSUME HookTypeOK, HookInv, [WebhookNext]_webhookVars
             PROVE  HookTypeOK' /\ HookInv'
  OBVIOUS
<1>1. ASSUME NEW d \in Deliveries, DeliverEvent(d) \/ TestWebhook(d)
      PROVE  HookTypeOK' /\ HookInv'
  <2>1. PICK event \in EventNames \cup {TestEvent} :
          /\ hook.state = "there"
          /\ event = TestEvent \/ (hook.active /\ event \in hook.events)
          /\ Launch(d, event)
    BY <1>1 DEF DeliverEvent, TestWebhook
  <2>2. QED
    BY <2>1, LaunchStep
<1>2. CASE UNCHANGED webhookVars
  BY <1>2 DEF webhookVars, HookTypeOK, HookInv
<1>3. CASE WebhookNext
  BY <1>1, <1>3, UserStep, DeliveryStepHook, CrashStepHook DEF WebhookNext
<1>4. QED
  BY <1>2, <1>3

(* With any number of deliveries, edits, faults and deaths of the process: *)
(* the retries of a delivery may go to an address the webhook no longer    *)
(* has, but to MaxAttempts posts in all, and no delivery that begins after *)
(* an update or the deletion in webhook.service.js does.                   *)
THEOREM RequestsAreFresh == WebhookSpec => []HookFresh
<1>1. WebhookInit => HookTypeOK /\ HookInv
  BY HookInit
<1>2. HookTypeOK /\ HookInv => HookFresh
  BY DEF HookFresh, HookInv, Current, Logs, Sending, At
<1>3. QED
  BY <1>1, <1>2, HookStep, PTL DEF WebhookSpec

-----------------------------------------------------------------------------
(* The statistics of the webhook, and the log.                             *)

Outcomes == {"success", "failure"}

Outcome(ok) == IF ok THEN "success" ELSE "failure"

Entries(o) == {r \in Deliveries \X (1 .. MaxAttempts) :
                 /\ r[2] \in DOMAIN hookLog[r[1]]
                 /\ Outcome(hookLog[r[1]][r[2]]) = o}

InStats == {d \in Deliveries : delivery[d].pc = "stats"}

(* The attempts that are logged and not counted yet, by their outcome.     *)
Counting(o) == {d \in InStats : Outcome(delivery[d].ok) = o}

(* Only the last entry is a success, and then the delivery is as good as   *)
(* over; what is about to be counted is what was logged.                   *)
Ends(r, log) ==
    /\ \A i \in DOMAIN log :
         log[i] => i = Len(log) /\ r.pc \in {"stats", "delivered", "lost"}
    /\ r.pc = "stats" => log[Len(log)] = r.ok

Tally ==
    hook.state # "deleted" =>
      /\ hook.success + Cardinality(Counting("success"))
           <= Cardinality(Entries("success"))
      /\ hook.failure + Cardinality(Counting("failure"))
           <= Cardinality(Entries("failure"))
      /\ hook.success + hook.failure + Cardinality(InStats) + uncounted
           = Cardinality(Entries("success")) + Cardinality(Entries("failure"))

CountInv ==
    /\ \A d \in Deliveries : Ends(delivery[d], hookLog[d])
    /\ Tally

LEMMA FiniteTallies ==
    /\ IsFiniteSet(InStats) /\ Cardinality(InStats) \in Nat
    /\ \A o \in Outcomes :
         /\ IsFiniteSet(Entries(o)) /\ Cardinality(Entries(o)) \in Nat
         /\ IsFiniteSet(Counting(o)) /\ Cardinality(Counting(o)) \in Nat
<1>1. IsFiniteSet(Deliveries) /\ IsFiniteSet(1 .. MaxAttempts)
  BY WebhookAssumption, FS_Interval
<1>2. IsFiniteSet(Deliveries \X (1 .. MaxAttempts))
  BY <1>1, FS_Product
<1>3. /\ InStats \in SUBSET Deliveries
      /\ \A o \in Outcomes :
           /\ Entries(o) \in SUBSET (Deliveries \X (1 .. MaxAttempts))
           /\ Counting(o) \in SUBSET InStats
  BY DEF InStats, Entries, Counting
<1>4. IsFiniteSet(InStats)
  BY <1>1, <1>3, FS_Subset
<1>5. \A o \in Outcomes : IsFiniteSet(Entries(o)) /\ IsFiniteSet(Counting(o))
  BY <1>2, <1>3, <1>4, FS_Subset
<1>6. QED
  BY <1>4, <1>5, FS_CardinalityType

LEMMA CountInit == WebhookInit => CountInv
<1> SUFFICES ASSUME WebhookInit
             PROVE  CountInv
  OBVIOUS
<1>1. InStats = {} /\ \A o \in Outcomes : Counting(o) = {}
  BY DEF WebhookInit, InStats, Counting, NoDelivery
<1>2. \A o \in Outcomes : Entries(o) = {}
  BY DEF WebhookInit, Entries
<1>3. hook.success = 0 /\ hook.failure = 0 /\ uncounted = 0
  BY DEF WebhookInit
<1>a. /\ Cardinality(InStats) = 0
      /\ Cardinality(Counting("success")) = 0 /\ Cardinality(Counting("failure")) = 0
      /\ Cardinality(Entries("success")) = 0 /\ Cardinality(Entries("failure")) = 0
  BY <1>1, <1>2, FS_EmptySet DEF Outcomes
<1>4. Tally
  BY <1>3, <1>a DEF Tally
<1>5. \A d \in Deliveries : Ends(delivery[d], hookLog[d])
  BY DEF WebhookInit, Ends, NoDelivery
<1>6. QED
  BY <1>4, <1>5 DEF CountInv

(* Nothing is logged, nor about to be counted, that was not before.        *)
LEMMA TallyFrame ==
    ASSUME Tally, UNCHANGED <<hookLog, uncounted>>,
           hook'.success = hook.success, hook'.failure = hook.failure,
           hook'.state # "deleted" => hook.state # "deleted",
           \A d \in Deliveries :
             \/ delivery'[d] = delivery[d]
             \/ delivery'[d].pc # "stats" /\ delivery[d].pc # "stats"
    PROVE  Tally'
<1>1. InStats' = InStats /\ \A o \in Outcomes : Counting(o)' = Counting(o)
  BY DEF InStats, Counting
<1>2. \A o \in Outcomes : Entries(o)' = Entries(o)
  BY DEF Entries
<1>3. QED
  BY <1>1, <1>2 DEF Tally, Outcomes

(* LogAttempt: the entry and the attempt about to be counted come together.*)
LEMMA TallyLogged ==
    ASSUME HookTypeOK, Tally, NEW d \in Deliveries, NEW r \in DeliveryRecord,
           NEW v \in BOOLEAN, v = delivery[d].ok, r.ok = v,
           delivery[d].pc # "stats", r.pc = "stats",
           Len(hookLog[d]) + 1 \in 1 .. MaxAttempts,
           delivery' = [delivery EXCEPT ![d] = r],
           hookLog' = [hookLog EXCEPT ![d] = Append(@, v)],
           UNCHANGED <<hook, uncounted>>
    PROVE  Tally'
<1>n. PICK n : n = Len(hookLog[d]) + 1
  OBVIOUS
<1>m. PICK more : more = Append(hookLog[d], v)
  OBVIOUS
<1>x. PICK x : x = <<d, n>>
  OBVIOUS
<1>w. PICK w \in Outcomes : w = Outcome(v)
  BY DEF Outcome, Outcomes
<1>1. /\ \A c \in Deliveries \ {d} : /\ delivery'[c] = delivery[c]
                                     /\ hookLog'[c] = hookLog[c]
      /\ delivery'[d] = r /\ hookLog'[d] = more
      /\ hookLog[d] \in Seq(BOOLEAN)
  BY <1>m DEF HookTypeOK
<1>2. /\ DOMAIN hookLog[d] = 1 .. Len(hookLog[d]) /\ Len(hookLog[d]) \in Nat
      /\ DOMAIN more = 1 .. n /\ more[n] = v
      /\ \A i \in DOMAIN hookLog[d] : more[i] = hookLog[d][i]
  BY <1>1, <1>n, <1>m, Appended
<1>3. n \in 1 .. MaxAttempts
  BY <1>n
<1>4. /\ DOMAIN more = DOMAIN hookLog[d] \cup {n} /\ n \notin DOMAIN hookLog[d]
  BY <1>2, <1>n
<1>5. InStats' = InStats \cup {d} /\ d \notin InStats
  BY <1>1 DEF InStats
<1>6. /\ Counting(w)' = Counting(w) \cup {d} /\ d \notin Counting(w)
      /\ \A o \in Outcomes \ {w} : Counting(o)' = Counting(o)
  BY <1>1, <1>5, <1>w DEF Counting
<1>7. /\ Entries(w)' = Entries(w) \cup {x} /\ x \notin Entries(w)
      /\ \A o \in Outcomes \ {w} : Entries(o)' = Entries(o)
  <2>1. \A p \in Deliveries \X (1 .. MaxAttempts) :
          p = x <=> p[1] = d /\ p[2] = n
    BY <1>x
  <2>2. ASSUME NEW o \in Outcomes, NEW p \in Deliveries \X (1 .. MaxAttempts)
        PROVE  p \in Entries(o)' <=> p \in Entries(o) \/ (p = x /\ o = w)
    <3>0. p[1] \in Deliveries
      OBVIOUS
    <3>1. CASE p[1] # d
      BY <1>1, <2>1, <3>0, <3>1 DEF Entries
    <3>2. CASE p[1] = d /\ p[2] # n
      BY <1>1, <1>2, <1>4, <2>1, <3>2 DEF Entries
    <3>3. CASE p[1] = d /\ p[2] = n
      BY <1>1, <1>2, <1>4, <1>w, <2>1, <3>3 DEF Entries
    <3>4. QED
      BY <3>1, <3>2, <3>3
  <2>3. x \in Deliveries \X (1 .. MaxAttempts)
    BY <1>3, <1>x
  <2>4. x \notin Entries(w)
    BY <1>4, <1>x DEF Entries
  <2>5. \A o \in Outcomes :
          /\ Entries(o) \subseteq Deliveries \X (1 .. MaxAttempts)
          /\ Entries(o)' \subseteq Deliveries \X (1 .. MaxAttempts)
    BY DEF Entries
  <2>6. Entries(w)' = Entries(w) \cup {x}
    BY <2>2, <2>3, <2>5
  <2>7. \A o \in Outcomes \ {w} : Entries(o)' = Entries(o)
    BY <2>2, <2>5
  <2>8. QED
    BY <2>4, <2>6, <2>7
<1>8. /\ Cardinality(InStats') = Cardinality(InStats) + 1
      /\ Cardinality(Counting(w)') = Cardinality(Counting(w)) + 1
      /\ Cardinality(Entries(w)') = Cardinality(Entries(w)) + 1
  BY <1>5, <1>6, <1>7, <1>w, FiniteTallies, FS_AddElement
<1>9. /\ hook.success \in Nat /\ hook.failure \in Nat /\ uncounted \in Nat
      /\ UNCHANGED <<hook, uncounted>>
  BY DEF HookTypeOK, HookDoc
<1>f. /\ Cardinality(InStats) \in Nat
      /\ Cardinality(Counting("success")) \in Nat
      /\ Cardinality(Counting("failure")) \in Nat
      /\ Cardinality(Entries("success")) \in Nat
      /\ Cardinality(Entries("failure")) \in Nat
  BY FiniteTallies DEF Outcomes
<1>10. PICK a \in {0, 1}, b \in {0, 1} :
         /\ a + b = 1
         /\ Cardinality(Counting("success")')
              = Cardinality(Counting("success")) + a
         /\ Cardinality(Entries("success")')
              = Cardinality(Entries("success")) + a
         /\ Cardinality(Counting("failure")')
              = Cardinality(Counting("failure")) + b
         /\ Cardinality(Entries("failure")')
              = Cardinality(Entries("failure")) + b
  <2>1. CASE w = "success"
    <3>1. /\ Counting("failure")' = Counting("failure")
          /\ Entries("failure")' = Entries("failure")
      BY <1>6, <1>7, <2>1 DEF Outcomes
    <3>2. QED
      BY <1>8, <1>f, <2>1, <3>1
  <2>2. CASE w = "failure"
    <3>1. /\ Counting("success")' = Counting("success")
          /\ Entries("success")' = Entries("success")
      BY <1>6, <1>7, <2>2 DEF Outcomes
    <3>2. QED
      BY <1>8, <1>f, <2>2, <3>1
  <2>3. QED
    BY <2>1, <2>2 DEF Outcomes
<1>11. SUFFICES ASSUME hook'.state # "deleted"
                PROVE  Tally'
  BY DEF Tally
<1>12. /\ hook.success + Cardinality(Counting("success"))
            <= Cardinality(Entries("success"))
       /\ hook.failure + Cardinality(Counting("failure"))
            <= Cardinality(Entries("failure"))
       /\ hook.success + hook.failure + Cardinality(InStats) + uncounted
            = Cardinality(Entries("success")) + Cardinality(Entries("failure"))
  BY <1>9, <1>11 DEF Tally
<1>i. a \in Nat /\ b \in Nat
  OBVIOUS
<1>a. hook.success + Cardinality(Counting("success")')
        <= Cardinality(Entries("success")')
  <2>1. hook.success + Cardinality(Counting("success")')
          = (hook.success + Cardinality(Counting("success"))) + a
    BY <1>9, <1>10, <1>f, <1>i
  <2>2. QED
    BY <1>9, <1>10, <1>12, <1>f, <1>i, <2>1, SMTT(30)
<1>b. hook.failure + Cardinality(Counting("failure")')
        <= Cardinality(Entries("failure")')
  <2>1. hook.failure + Cardinality(Counting("failure")')
          = (hook.failure + Cardinality(Counting("failure"))) + b
    BY <1>9, <1>10, <1>f, <1>i
  <2>2. QED
    BY <1>9, <1>10, <1>12, <1>f, <1>i, <2>1, SMTT(30)
<1>13. hook.success + hook.failure + Cardinality(InStats') + uncounted
         = Cardinality(Entries("success")') + Cardinality(Entries("failure")')
  <2>1. hook.success + hook.failure + Cardinality(InStats') + uncounted
          = (hook.success + hook.failure + Cardinality(InStats) + uncounted) + 1
    BY <1>8, <1>9, <1>f
  <2>2. Cardinality(Entries("success")') + Cardinality(Entries("failure")')
          = (Cardinality(Entries("success"))
               + Cardinality(Entries("failure"))) + 1
    BY <1>10, <1>f
  <2>3. QED
    BY <1>12, <2>1, <2>2
<1>14. QED
  BY <1>9, <1>a, <1>b, <1>13 DEF Tally

(* CountAttempt: counted, or lost to the statistics for ever.              *)
LEMMA TallyCounted ==
    ASSUME HookTypeOK, HookInv, Tally, NEW d \in Deliveries, CountAttempt(d)
    PROVE  Tally'
<1>1. \E pc \in {"delivered", "timer", "given up", "lost"} :
        delivery' = [delivery EXCEPT ![d].pc = pc]
  BY DEF CountAttempt, Move
<1>2. /\ delivery[d].pc = "stats" /\ delivery[d] \in DeliveryRecord
      /\ UNCHANGED hookLog
  BY DEF CountAttempt, At, HookTypeOK
<1>3. /\ \A c \in Deliveries \ {d} : delivery'[c] = delivery[c]
      /\ delivery'[d].pc # "stats"
  <2>1. PICK pc \in {"delivered", "timer", "given up", "lost"} :
          delivery' = [delivery EXCEPT ![d].pc = pc]
    BY <1>1
  <2>2. delivery \in [Deliveries -> DeliveryRecord]
    BY DEF HookTypeOK
  <2>3. delivery'[d] = [delivery[d] EXCEPT !.pc = pc]
    BY <2>1, <2>2
  <2>4. delivery'[d].pc = pc
    BY <1>2, <2>3 DEF DeliveryRecord
  <2>5. QED
    BY <2>1, <2>2, <2>4
<1>w. PICK w \in Outcomes : w = Outcome(delivery[d].ok)
  BY DEF Outcome, Outcomes
<1>4. InStats' = InStats \ {d} /\ d \in InStats
  BY <1>2, <1>3 DEF InStats
<1>s. \A c \in InStats \ {d} : delivery'[c] = delivery[c]
  BY <1>3 DEF InStats
<1>5. /\ Counting(w)' = Counting(w) \ {d} /\ d \in Counting(w)
      /\ \A o \in Outcomes \ {w} : Counting(o)' = Counting(o)
  <2>1. Counting(w)' = Counting(w) \ {d} /\ d \in Counting(w)
    BY <1>4, <1>s, <1>w DEF Counting
  <2>2. ASSUME NEW o \in Outcomes \ {w}
        PROVE  Counting(o)' = Counting(o)
    BY <1>4, <1>s, <1>w DEF Counting
  <2>3. QED
    BY <2>1, <2>2
<1>6. \A o \in Outcomes : Entries(o)' = Entries(o)
  BY <1>2 DEF Entries
<1>7. /\ Cardinality(InStats') = Cardinality(InStats) - 1
      /\ Cardinality(Counting(w)') = Cardinality(Counting(w)) - 1
  <2>1. IsFiniteSet(InStats) /\ IsFiniteSet(Counting(w))
    BY FiniteTallies
  <2>2. /\ Cardinality(InStats \ {d}) = Cardinality(InStats) - 1
        /\ Cardinality(Counting(w) \ {d}) = Cardinality(Counting(w)) - 1
    BY <1>4, <1>5, <2>1, FS_RemoveElement
  <2>3. QED
    BY <1>4, <1>5, <2>2
<1>f. /\ Cardinality(InStats) \in Nat
      /\ Cardinality(Counting("success")) \in Nat
      /\ Cardinality(Counting("failure")) \in Nat
      /\ Cardinality(Entries("success")) \in Nat
      /\ Cardinality(Entries("failure")) \in Nat
  BY FiniteTallies DEF Outcomes
<1>8. PICK a \in {0, 1}, b \in {0, 1} :
        /\ a + b = 1
        /\ a = 1 <=> w = "success"
        /\ b = 1 <=> w = "failure"
        /\ Cardinality(Counting("success")')
             = Cardinality(Counting("success")) - a
        /\ Cardinality(Counting("failure")')
             = Cardinality(Counting("failure")) - b
  <2>1. CASE w = "success"
    <3>1. Counting("failure")' = Counting("failure")
      BY <1>5, <2>1 DEF Outcomes
    <3>2. QED
      BY <1>7, <1>f, <2>1, <3>1
  <2>2. CASE w = "failure"
    <3>1. Counting("success")' = Counting("success")
      BY <1>5, <2>2 DEF Outcomes
    <3>2. QED
      BY <1>7, <1>f, <2>2, <3>1
  <2>3. QED
    BY <2>1, <2>2 DEF Outcomes
<1>9. /\ hook.success \in Nat /\ hook.failure \in Nat /\ uncounted \in Nat
      /\ hook \in HookDoc
  BY DEF HookTypeOK, HookDoc
<1>10. SUFFICES ASSUME hook'.state # "deleted"
                PROVE  Tally'
  BY DEF Tally
<1>11. hook.state = "there"
  <2>1. hook.state # "none"
    BY <1>2 DEF HookInv
  <2>2. hook.state # "deleted"
    BY <1>10 DEF CountAttempt
  <2>3. QED
    BY <1>9, <2>1, <2>2 DEF HookDoc
<1>12. PICK x \in {0, 1}, y \in {0, 1}, z \in {0, 1} :
         /\ x + y + z = 1 /\ x <= a /\ y <= b
         /\ hook'.success = hook.success + x
         /\ hook'.failure = hook.failure + y
         /\ uncounted' = uncounted + z
  <2>1. CASE uncounted' = uncounted + 1 /\ UNCHANGED hook
    BY <1>9, <2>1
  <2>2. CASE UNCHANGED uncounted /\ delivery[d].ok
               /\ hook' = [hook EXCEPT !.success = @ + 1]
    <3>0. PICK v \in Nat : v = hook.success + 1
      BY <1>9
    <3>a. hook' = [hook EXCEPT !.success = v]
      BY <2>2, <3>0
    <3>1. /\ hook'.success = hook.success + 1
          /\ hook'.failure = hook.failure
      BY <1>9, <3>0, <3>a DEF HookDoc
    <3>2. a = 1
      BY <1>8, <1>w, <2>2 DEF Outcome
    <3>3. QED
      BY <1>9, <2>2, <3>1, <3>2
  <2>3. CASE UNCHANGED uncounted /\ ~delivery[d].ok
               /\ hook' = [hook EXCEPT !.failure = @ + 1]
    <3>0. PICK v \in Nat : v = hook.failure + 1
      BY <1>9
    <3>a. hook' = [hook EXCEPT !.failure = v]
      BY <2>3, <3>0
    <3>1. /\ hook'.failure = hook.failure + 1
          /\ hook'.success = hook.success
      BY <1>9, <3>0, <3>a DEF HookDoc
    <3>2. b = 1
      BY <1>8, <1>w, <2>3 DEF Outcome
    <3>3. QED
      BY <1>9, <2>3, <3>1, <3>2
  <2>4. QED
    BY <1>11, <2>1, <2>2, <2>3 DEF CountAttempt
<1>i. /\ a \in Nat /\ b \in Nat /\ x \in Nat /\ y \in Nat /\ z \in Nat
  OBVIOUS
<1>13. /\ hook.success + Cardinality(Counting("success"))
            <= Cardinality(Entries("success"))
       /\ hook.failure + Cardinality(Counting("failure"))
            <= Cardinality(Entries("failure"))
       /\ hook.success + hook.failure + Cardinality(InStats) + uncounted
            = Cardinality(Entries("success")) + Cardinality(Entries("failure"))
  BY <1>11 DEF Tally
<1>14. /\ Entries("success")' = Entries("success")
       /\ Entries("failure")' = Entries("failure")
  BY <1>6 DEF Outcomes
<1>15. hook'.success + Cardinality(Counting("success")')
         <= Cardinality(Entries("success")')
  <2>1. hook'.success + Cardinality(Counting("success")')
          <= hook.success + Cardinality(Counting("success"))
    BY <1>8, <1>9, <1>12, <1>f, <1>i
  <2>2. QED
    BY <1>8, <1>9, <1>12, <1>13, <1>14, <1>f, <1>i, <2>1
<1>16. hook'.failure + Cardinality(Counting("failure")')
         <= Cardinality(Entries("failure")')
  <2>1. hook'.failure + Cardinality(Counting("failure")')
          <= hook.failure + Cardinality(Counting("failure"))
    BY <1>8, <1>9, <1>12, <1>f, <1>i
  <2>2. QED
    BY <1>8, <1>9, <1>12, <1>13, <1>14, <1>f, <1>i, <2>1
<1>17. hook'.success + hook'.failure + Cardinality(InStats') + uncounted'
         = Cardinality(Entries("success")') + Cardinality(Entries("failure")')
  <2>1. hook'.success + hook'.failure + Cardinality(InStats') + uncounted'
          = hook.success + hook.failure + Cardinality(InStats) + uncounted
    BY <1>7, <1>9, <1>12, <1>f, <1>i
  <2>2. QED
    BY <1>13, <1>14, <2>1
<1>18. QED
  BY <1>15, <1>16, <1>17 DEF Tally

(* The death of the process: what it was about to count is not counted.    *)
LEMMA TallyCrash ==
    ASSUME HookTypeOK, Tally, CrashSender
    PROVE  Tally'
<1>1. /\ delivery' = [d \in Deliveries |->
             IF delivery[d].pc \in Ended THEN delivery[d]
             ELSE [delivery[d] EXCEPT !.pc = "lost"]]
      /\ UNCHANGED <<hook, hookLog>>
      /\ uncounted' = uncounted
           + Cardinality({d \in Deliveries : At(d, "stats")})
  BY DEF CrashSender
<1>2. InStats = {d \in Deliveries : At(d, "stats")}
  BY DEF InStats, At
<1>3. uncounted' = uncounted + Cardinality(InStats)
  BY <1>1, <1>2
<1>4. \A d \in Deliveries : delivery'[d].pc # "stats"
  BY <1>1 DEF HookTypeOK, DeliveryRecord, Ended
<1>5. InStats' = {} /\ \A o \in Outcomes : Counting(o)' = {}
  BY <1>4 DEF InStats, Counting
<1>6. \A o \in Outcomes : Entries(o)' = Entries(o)
  BY <1>1 DEF Entries
<1>7. /\ Cardinality(InStats') = 0
      /\ Cardinality(Counting("success")') = 0
      /\ Cardinality(Counting("failure")') = 0
      /\ Entries("success")' = Entries("success")
      /\ Entries("failure")' = Entries("failure")
  BY <1>5, <1>6, FS_EmptySet DEF Outcomes
<1>f. /\ Cardinality(InStats) \in Nat
      /\ Cardinality(Counting("success")) \in Nat
      /\ Cardinality(Counting("failure")) \in Nat
      /\ Cardinality(Entries("success")) \in Nat
      /\ Cardinality(Entries("failure")) \in Nat
  BY FiniteTallies DEF Outcomes
<1>8. /\ hook.success \in Nat /\ hook.failure \in Nat /\ uncounted \in Nat
  BY DEF HookTypeOK, HookDoc
<1>9. SUFFICES ASSUME hook.state # "deleted"
               PROVE  Tally'
  BY <1>1 DEF Tally
<1>10. /\ hook.success + Cardinality(Counting("success"))
            <= Cardinality(Entries("success"))
       /\ hook.failure + Cardinality(Counting("failure"))
            <= Cardinality(Entries("failure"))
       /\ hook.success + hook.failure + Cardinality(InStats) + uncounted
            = Cardinality(Entries("success")) + Cardinality(Entries("failure"))
  BY <1>9 DEF Tally
<1>11. /\ hook.success + 0 <= Cardinality(Entries("success"))
       /\ hook.failure + 0 <= Cardinality(Entries("failure"))
  BY <1>10, <1>8, <1>f
<1>12. hook.success + hook.failure + 0 + uncounted'
         = hook.success + hook.failure + Cardinality(InStats) + uncounted
  BY <1>3, <1>8, <1>f
<1>13. QED
  BY <1>1, <1>7, <1>10, <1>11, <1>12 DEF Tally

(* One attempt on a log: only what is logged now may be a success.         *)
LEMMA TurnEnds ==
    ASSUME NEW s \in DeliveryRecord, NEW r \in DeliveryRecord, Turn(s, r),
           NEW log \in Seq(BOOLEAN), Logs(s, log), Ends(s, log)
    PROVE  /\ r.pc = "stats" => Ends(r, Append(log, s.ok))
           /\ r.pc # "stats" => Ends(r, log)
<1>1. s.ok \in BOOLEAN /\ s.attempt \in Nat
  BY DEF DeliveryRecord
<1>2. CASE r.pc = "stats"
  <2>1. s.pc = "log" /\ r.ok = s.ok
    BY <1>2 DEF Turn, HookEdges
  <2>2. \A i \in DOMAIN log : ~log[i]
    BY <2>1 DEF Ends
  <2>3. PICK more : more = Append(log, s.ok)
    OBVIOUS
  <2>4. /\ Len(log) \in Nat /\ DOMAIN log = 1 .. Len(log)
        /\ Len(more) = Len(log) + 1 /\ DOMAIN more = 1 .. Len(log) + 1
        /\ more[Len(log) + 1] = s.ok
        /\ \A i \in 1 .. Len(log) : more[i] = log[i]
    BY <1>1, <2>3, Appended
  <2>5. \A i \in DOMAIN more : more[i] => i = Len(more)
    BY <2>2, <2>4
  <2>6. more[Len(more)] = r.ok
    BY <2>1, <2>4
  <2>7. Ends(r, more)
    BY <1>2, <2>5, <2>6 DEF Ends
  <2>8. QED
    BY <1>2, <2>3, <2>7
<1>3. CASE r.pc # "stats" /\ s.pc # "stats"
  <2>1. s.pc \notin {"stats", "delivered", "lost"}
    BY <1>3 DEF Turn, HookEdges
  <2>2. QED
    BY <1>3, <2>1 DEF Ends
<1>4. CASE r.pc # "stats" /\ s.pc = "stats"
  <2>1. log[Len(log)] = s.ok
    BY <1>4 DEF Ends
  <2>2. CASE s.ok = TRUE
    <3>1. r.pc \in {"delivered", "lost"}
      BY <1>4, <2>2 DEF Turn, HookEdges
    <3>2. QED
      BY <1>4, <3>1 DEF Ends
  <2>3. CASE s.ok = FALSE
    <3>1. \A i \in DOMAIN log : ~log[i]
      BY <2>1, <2>3 DEF Ends
    <3>2. QED
      BY <1>4, <3>1 DEF Ends
  <2>4. QED
    BY <1>1, <2>2, <2>3
<1>5. QED
  BY <1>2, <1>3, <1>4

LEMMA DeliveryStepCount ==
    ASSUME HookTypeOK, HookInv, CountInv, NEW d \in Deliveries,
           DeliveryStep(d)
    PROVE  CountInv'
<1>1. PICK r \in DeliveryRecord :
        /\ delivery' = [delivery EXCEPT ![d] = r]
        /\ Turn(delivery[d], r)
        /\ IF r.pc = "stats"
           THEN hookLog' = [hookLog EXCEPT ![d] = Append(@, delivery[d].ok)]
           ELSE UNCHANGED hookLog
        /\ delivery[d].pc # "stats" => UNCHANGED <<hook, uncounted>>
  BY DeliveryShape
<1>2. /\ delivery[d] \in DeliveryRecord /\ delivery[d].ok \in BOOLEAN
      /\ hookLog[d] \in Seq(BOOLEAN)
      /\ Logs(delivery[d], hookLog[d]) /\ Ends(delivery[d], hookLog[d])
  BY DEF HookTypeOK, DeliveryRecord, HookInv, CountInv
<1>3. /\ \A c \in Deliveries \ {d} : /\ delivery'[c] = delivery[c]
                                     /\ hookLog'[c] = hookLog[c]
      /\ delivery'[d] = r
      /\ hookLog'[d] = IF r.pc = "stats"
                       THEN Append(hookLog[d], delivery[d].ok)
                       ELSE hookLog[d]
  BY <1>1 DEF HookTypeOK
<1>4. Ends(delivery'[d], hookLog'[d])
  BY <1>1, <1>2, <1>3, TurnEnds
<1>5. \A c \in Deliveries : Ends(delivery'[c], hookLog'[c])
  BY <1>3, <1>4 DEF CountInv
<1>6. Tally'
  <2>1. CASE delivery[d].pc = "stats"
    <3>1. CountAttempt(d)
      BY <2>1 DEF DeliveryStep, PostAnswered, ReadBody, LogAttempt,
                  RetryTimer, At
    <3>2. QED
      BY <3>1, TallyCounted DEF CountInv
  <2>2. CASE r.pc = "stats"
    <3>1. delivery[d].pc = "log" /\ r.ok = delivery[d].ok
      BY <1>1, <2>2 DEF Turn, HookEdges
    <3>2. Len(hookLog[d]) + 1 \in 1 .. MaxAttempts
      <4>1. /\ delivery[d].attempt \in 1 .. MaxAttempts
            /\ Len(hookLog[d]) = delivery[d].attempt - 1
        BY <1>2, <3>1 DEF Logs, Sending
      <4>2. MaxAttempts \in Nat
        BY WebhookAssumption
      <4>3. QED
        BY <4>1, <4>2
    <3>3. /\ hookLog' = [hookLog EXCEPT ![d] = Append(@, delivery[d].ok)]
          /\ UNCHANGED <<hook, uncounted>>
      BY <1>1, <2>2, <3>1
    <3>4. QED
      BY <1>1, <1>2, <2>2, <3>1, <3>2, <3>3, TallyLogged DEF CountInv
  <2>3. CASE delivery[d].pc # "stats" /\ r.pc # "stats"
    <3>1. UNCHANGED <<hookLog, uncounted, hook>>
      BY <1>1, <2>3
    <3>2. \A c \in Deliveries :
            \/ delivery'[c] = delivery[c]
            \/ delivery'[c].pc # "stats" /\ delivery[c].pc # "stats"
      BY <1>3, <2>3
    <3>3. QED
      BY <3>1, <3>2, TallyFrame DEF CountInv
  <2>4. QED
    BY <2>1, <2>2, <2>3
<1>7. QED
  BY <1>5, <1>6 DEF CountInv

LEMMA CountStep ==
    HookTypeOK /\ HookInv /\ CountInv /\ [WebhookNext]_webhookVars => CountInv'
<1> SUFFICES ASSUME HookTypeOK, HookInv, CountInv, [WebhookNext]_webhookVars
             PROVE  CountInv'
  OBVIOUS
<1>1. ASSUME NEW d \in Deliveries, NEW event, Launch(d, event)
      PROVE  CountInv'
  <2> DEFINE r == [pc |-> "post", event |-> event, url |-> hook.url,
                   version |-> hook.version, attempt |-> 1, ok |-> FALSE]
  <2>1. /\ delivery' = [delivery EXCEPT ![d] = r]
        /\ UNCHANGED <<hook, hookLog, uncounted>>
        /\ delivery[d].pc = "idle"
    BY <1>1 DEF Launch, At
  <2>2. r.pc = "post"
    OBVIOUS
  <2> HIDE DEF r
  <2>3. /\ delivery'[d] = r
        /\ \A c \in Deliveries \ {d} : delivery'[c] = delivery[c]
    BY <2>1 DEF HookTypeOK
  <2>4. hookLog[d] = <<>>
    BY <2>1 DEF HookInv, Logs
  <2>5. Ends(r, <<>>)
    BY <2>2 DEF Ends
  <2>6. \A c \in Deliveries : Ends(delivery'[c], hookLog'[c])
    BY <2>1, <2>3, <2>4, <2>5 DEF CountInv
  <2>7. \A c \in Deliveries :
          \/ delivery'[c] = delivery[c]
          \/ delivery'[c].pc # "stats" /\ delivery[c].pc # "stats"
    BY <2>1, <2>2, <2>3
  <2>8. Tally'
    BY <2>1, <2>7, TallyFrame DEF CountInv
  <2>9. QED
    BY <2>6, <2>8 DEF CountInv
<1>2. CASE CreateWebhook \/ UpdateWebhook \/ DeleteWebhook
  <2>1. UNCHANGED <<delivery, hookLog, uncounted>>
    BY <1>2 DEF CreateWebhook, UpdateWebhook, DeleteWebhook
  <2>2. /\ hook'.success = hook.success /\ hook'.failure = hook.failure
        /\ hook'.state # "deleted" => hook.state # "deleted"
    BY <1>2 DEF CreateWebhook, UpdateWebhook, DeleteWebhook, HookTypeOK,
                HookDoc
  <2>3. Tally'
    BY <2>1, <2>2, TallyFrame DEF CountInv
  <2>4. QED
    BY <2>1, <2>3 DEF CountInv
<1>3. CASE CrashSender
  <2> DEFINE gone(d) == [delivery[d] EXCEPT !.pc = "lost"]
  <2>1. /\ delivery' = [d \in Deliveries |->
             IF delivery[d].pc \in Ended THEN delivery[d] ELSE gone(d)]
        /\ UNCHANGED hookLog
    BY <1>3 DEF CrashSender
  <2>2. ASSUME NEW d \in Deliveries
        PROVE  gone(d).pc = "lost" /\ delivery[d] \in DeliveryRecord
    BY DEF HookTypeOK, DeliveryRecord
  <2> HIDE DEF gone
  <2>3. ASSUME NEW d \in Deliveries, delivery[d].pc \notin Ended
        PROVE  Ends(gone(d), hookLog[d])
    BY <2>2, <2>3 DEF CountInv, Ends, Ended
  <2>4. \A d \in Deliveries : Ends(delivery'[d], hookLog'[d])
    BY <2>1, <2>3 DEF CountInv
  <2>5. QED
    BY <1>3, <2>4, TallyCrash DEF CountInv
<1>4. CASE UNCHANGED webhookVars
  <2>1. UNCHANGED <<hook, delivery, hookLog, uncounted>>
    BY <1>4 DEF webhookVars
  <2>2. Tally'
    BY <2>1, TallyFrame DEF CountInv
  <2>3. QED
    BY <2>1, <2>2 DEF CountInv
<1>5. CASE WebhookNext
  BY <1>1, <1>2, <1>3, <1>5, DeliveryStepCount
  DEF WebhookNext, DeliverEvent, TestWebhook
<1>6. QED
  BY <1>4, <1>5

LEMMA CountMeans ==
    HookTypeOK /\ CountInv => HookAccounts
<1> SUFFICES ASSUME HookTypeOK, CountInv
             PROVE  HookAccounts
  OBVIOUS
<1>1. \A d \in Deliveries : \A i \in DOMAIN hookLog[d] :
        hookLog[d][i] => i = Len(hookLog[d])
  BY DEF CountInv, Ends
<1>2. Entries("success") = {r \in Deliveries \X (1 .. MaxAttempts) :
                              /\ r[2] \in DOMAIN hookLog[r[1]]
                              /\ hookLog[r[1]][r[2]] = TRUE}
  <2>1. ASSUME NEW r \in Deliveries \X (1 .. MaxAttempts),
               r[2] \in DOMAIN hookLog[r[1]]
        PROVE  Outcome(hookLog[r[1]][r[2]]) = "success"
                 <=> hookLog[r[1]][r[2]] = TRUE
    <3>1. hookLog[r[1]] \in Seq(BOOLEAN)
      BY DEF HookTypeOK
    <3>2. hookLog[r[1]][r[2]] \in BOOLEAN
      BY <2>1, <3>1
    <3>3. QED
      BY <3>2 DEF Outcome
  <2>2. QED
    BY <2>1 DEF Entries
<1>3. Entries("failure") = {r \in Deliveries \X (1 .. MaxAttempts) :
                              /\ r[2] \in DOMAIN hookLog[r[1]]
                              /\ hookLog[r[1]][r[2]] = FALSE}
  <2>1. ASSUME NEW r \in Deliveries \X (1 .. MaxAttempts),
               r[2] \in DOMAIN hookLog[r[1]]
        PROVE  Outcome(hookLog[r[1]][r[2]]) = "failure"
                 <=> hookLog[r[1]][r[2]] = FALSE
    <3>1. hookLog[r[1]] \in Seq(BOOLEAN)
      BY DEF HookTypeOK
    <3>2. hookLog[r[1]][r[2]] \in BOOLEAN
      BY <2>1, <3>1
    <3>3. QED
      BY <3>2 DEF Outcome
  <2>2. QED
    BY <2>1 DEF Entries
<1>4. /\ Logged(TRUE) = Cardinality(Entries("success"))
      /\ Logged(FALSE) = Cardinality(Entries("failure"))
  BY <1>2, <1>3 DEF Logged
<1>5. Pending = Cardinality(InStats)
  BY DEF Pending, InStats, At
<1>6. /\ Cardinality(InStats) \in Nat
      /\ Cardinality(Counting("success")) \in Nat
      /\ Cardinality(Counting("failure")) \in Nat
      /\ Cardinality(Entries("success")) \in Nat
      /\ Cardinality(Entries("failure")) \in Nat
      /\ hook.success \in Nat /\ hook.failure \in Nat /\ uncounted \in Nat
  BY FiniteTallies DEF Outcomes, HookTypeOK, HookDoc
<1>7. ASSUME hook.state = "there"
      PROVE  /\ hook.success <= Logged(TRUE)
             /\ hook.failure <= Logged(FALSE)
             /\ hook.success + hook.failure + Pending + uncounted
                  = Logged(TRUE) + Logged(FALSE)
  <2>1. /\ hook.success + Cardinality(Counting("success"))
             <= Cardinality(Entries("success"))
        /\ hook.failure + Cardinality(Counting("failure"))
             <= Cardinality(Entries("failure"))
        /\ hook.success + hook.failure + Cardinality(InStats) + uncounted
             = Cardinality(Entries("success"))
                 + Cardinality(Entries("failure"))
    BY <1>7 DEF CountInv, Tally
  <2>2. /\ hook.success <= Cardinality(Entries("success"))
        /\ hook.failure <= Cardinality(Entries("failure"))
    BY <1>6, <2>1
  <2>3. QED
    BY <1>4, <1>5, <2>1, <2>2
<1>8. QED
  BY <1>1, <1>7 DEF HookAccounts

(* However many deliveries, edits, faults and deaths of the process there  *)
(* are: the statistics of webhook.service.js never count an attempt that   *)
(* was not logged, and miss none but those under way or lost; and a        *)
(* delivery that succeeded has no attempt after it.                        *)
THEOREM StatisticsAddUp == WebhookSpec => []HookAccounts
<1> DEFINE Inv == HookTypeOK /\ HookInv /\ CountInv
<1>1. WebhookInit => Inv
  BY HookInit, CountInit
<1>2. Inv /\ [WebhookNext]_webhookVars => Inv'
  BY HookStep, CountStep
<1>3. Inv => HookAccounts
  BY CountMeans
<1> HIDE DEF Inv
<1>4. QED
  BY <1>1, <1>2, <1>3, PTL DEF WebhookSpec
=============================================================================
