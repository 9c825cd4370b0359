----------------------------- MODULE WorkflowRun -----------------------------
(***************************************************************************)
(* The automation runtime (lib/automations/runtime.ts): one trigger event, *)
(* the run it starts, and everybody who moves that run.                    *)
(*                                                                         *)
(* A run walks its graph until it meets an approval or an AI node, writes  *)
(* down what it waits for, and stops.  Approvers, the approval timeout,    *)
(* the poller and OpenAI's webhook each start it again from that node.     *)
(* None of them takes a lock: the database rows and the unique key of a    *)
(* step are all they share.  Every awaited write is a step of its own.     *)
(***************************************************************************)
EXTENDS Naturals, Sequences, Functions

CONSTANTS
    Workers,       \* sync workers: they run the 'automations' module
    Requests,      \* web requests: ingest, approvers, webhook deliveries
    Nodes, Trigger,
    Kind,          \* Kind[n]: what executeRunGraph does with node n
    Edges,         \* Edges[n][l]: targets of n's edges labelled l, by priority
    MaxAttempts,   \* dispatch attempts before an event is dead-lettered (6)
    MaxIngests,    \* bound: how often the source delivers the event
    MaxResponses,  \* bound: background responses created per AI node
    MaxFaults      \* bound: tasks that die

Tasks == Workers \cup Requests
Labels == {"plain", "true", "false", "approved", "rejected", "timeout"}

ASSUME WorkflowAssumption ==
    /\ Trigger \in Nodes
    /\ Kind \in [Nodes -> {"TRIGGER", "CONDITION", "ACTION", "AI", "APPROVAL"}]
    /\ Edges \in [Nodes -> [Labels -> Seq(Nodes)]]
    /\ {MaxAttempts, MaxIngests, MaxResponses, MaxFaults} \subseteq Nat

VARIABLES
    event, attempts, ingests,    \* the WorkflowTriggerEvent
    run,                         \* WorkflowRun.status, "none" before its creation
    step,                        \* step[n]: status of n's WorkflowRunStep
    approval,                    \* approval[n]: status of n's WorkflowApproval
    job, responseId,             \* n's AutomationAiJob; responseId 0 is null
    answers,                     \* OpenAI: answers[n][i], status of response i
    effects,                     \* effects[n]: times n's action was carried out
    persisted,                   \* persisted[n]: n's envelope has been stored
    decisions,                   \* decisions[n]: every outcome n has had
    task,                        \* task[t]: where t is in the runtime's code
    faults

rows == <<event, attempts, ingests, run, step, approval, job, responseId>>
world == <<answers, effects, persisted, decisions, faults>>
vars == <<rows, world, task>>

\* home is the node of the approval or job in hand, at the node being executed,
\* seen executeRunGraph's visited set, count what a findMany returned.
Idle == [pc |-> "idle", origin |-> "none", home |-> Trigger, at |-> Trigger,
         queue |-> <<>>, seen |-> {}, result |-> "none", count |-> 0]

Init ==
    /\ event = "none" /\ attempts = 0 /\ ingests = 0
    /\ run = "none"
    /\ step = [n \in Nodes |-> "none"]
    /\ approval = [n \in Nodes |-> "none"]
    /\ job = [n \in Nodes |-> "none"]
    /\ responseId = [n \in Nodes |-> 0]
    /\ answers = [n \in Nodes |-> <<>>]
    /\ effects = [n \in Nodes |-> 0]
    /\ persisted = [n \in Nodes |-> FALSE]
    /\ decisions = [n \in Nodes |-> {}]
    /\ task = [t \in Tasks |-> Idle]
    /\ faults = 0

-----------------------------------------------------------------------------
(* Control *)

At(t, pc) == task[t].pc = pc

Go(t, pc) == task' = [task EXCEPT ![t].pc = pc]

Begin(t, pc, origin, n, result, count) ==
    /\ At(t, "idle")
    /\ task' = [task EXCEPT ![t] = [Idle EXCEPT !.pc = pc, !.origin = origin,
                     !.home = n, !.at = n, !.result = result, !.count = count]]

\* The handler returns.  processTimedOutApprovals is the first half of
\* dispatchWorkflowTriggerEvents, which goes on to the events.
Done(t) ==
    task' = [task EXCEPT ![t] =
                IF @.origin = "timeout" THEN [Idle EXCEPT !.pc = "select"] ELSE Idle]

\* An exception leaves executeRunGraph: the event is retried, the job is failed,
\* and for an approval nothing at all is written.
Throw(t) ==
    task' = [task EXCEPT ![t] =
                CASE @.origin = "trigger" -> [@ EXCEPT !.pc = "nack"]
                  [] @.origin = "settle"  -> [@ EXCEPT !.pc = "failJob",
                                                       !.result = "failed"]
                  [] OTHER                -> Idle]

All(n) == Edges[n]["plain"] \o Edges[n]["true"] \o Edges[n]["false"]
          \o Edges[n]["approved"] \o Edges[n]["rejected"] \o Edges[n]["timeout"]

\* selectOutgoingTargets.  Without an edge for the outcome a failed condition
\* stops; an approval follows every edge it has, whatever was decided.
Follow(n, label) ==
    IF Kind[n] \in {"CONDITION", "APPROVAL"} /\ Edges[n][label] # <<>>
    THEN Edges[n][label]
    ELSE IF Kind[n] = "CONDITION" /\ label = "false" THEN <<>> ELSE All(n)

-----------------------------------------------------------------------------
(* Trigger events *)

\* A delivery of the same event puts it back in the queue.
Ingest ==
    /\ ingests < MaxIngests
    /\ ingests' = ingests + 1
    /\ event' = "QUEUED"
    /\ UNCHANGED <<attempts, run, step, approval, job, responseId, world, task>>

\* dispatchWorkflowTriggerEvents: first a pending approval whose time is up.
ExpireFirst(t) ==
    /\ \E n \in Nodes : approval[n] = "PENDING" /\ Begin(t, "expire", "timeout", n, "timeout", 0)
    /\ UNCHANGED <<rows, world>>

SelectNow(t) ==
    /\ Begin(t, "select", "trigger", Trigger, "none", 0)
    /\ UNCHANGED <<rows, world>>

SelectEvent(t) ==
    /\ At(t, "select")
    /\ task' = [task EXCEPT ![t] =
                   IF event = "QUEUED"
                   THEN [Idle EXCEPT !.pc = "find", !.origin = "trigger",
                                     !.count = attempts]
                   ELSE Idle]
    /\ UNCHANGED <<rows, world>>

\* The lookup by dedupeKey: a run that exists is not started again.
FindRun(t) ==
    /\ At(t, "find")
    /\ \/ Go(t, IF run = "none" THEN "create" ELSE "ack")
       \/ Throw(t)
    /\ UNCHANGED <<rows, world>>

CreateRun(t) ==
    /\ At(t, "create")
    /\ \/ run = "none" /\ run' = "QUEUED" /\ Go(t, "start")
       \/ run # "none" /\ Throw(t) /\ UNCHANGED run
    /\ UNCHANGED <<event, attempts, ingests, step, approval, job, responseId, world>>

\* The source documents are stored, or that fails and the run stays QUEUED.
StartRun(t) ==
    /\ At(t, "start")
    /\ \/ /\ run' = "RUNNING"
          /\ task' = [task EXCEPT ![t].pc = "walk", ![t].queue = <<Trigger>>]
       \/ Throw(t) /\ UNCHANGED run
    /\ UNCHANGED <<event, attempts, ingests, step, approval, job, responseId, world>>

AckEvent(t) ==
    /\ At(t, "ack")
    /\ event' = "DISPATCHED"
    /\ attempts' = attempts + 1
    /\ Done(t)
    /\ UNCHANGED <<ingests, run, step, approval, job, responseId, world>>

\* Mutant of NackEvent: the attempt is not counted.
NackUncounted(t) ==
    /\ At(t, "nack")
    /\ attempts' = task[t].count
    /\ event' = IF attempts' >= MaxAttempts THEN "DEAD_LETTER" ELSE "QUEUED"
    /\ Done(t)
    /\ UNCHANGED <<ingests, run, step, approval, job, responseId, world>>

\* The attempt is counted from the snapshot, not from the row.
NackEvent(t) ==
    /\ At(t, "nack")
    /\ attempts' = task[t].count + 1
    /\ event' = IF attempts' >= MaxAttempts THEN "DEAD_LETTER" ELSE "QUEUED"
    /\ Done(t)
    /\ UNCHANGED <<ingests, run, step, approval, job, responseId, world>>

-----------------------------------------------------------------------------
(* executeRunGraph *)

\* Mutant of Visit: steps without their unique key.
VisitUnkeyed(t) ==
    /\ At(t, "walk")
    /\ task[t].queue # <<>>
    /\ LET n == Head(task[t].queue)
       IN /\ step' = [step EXCEPT ![n] = "RUNNING"]
          /\ task' = [task EXCEPT ![t].pc = "node", ![t].at = n,
                        ![t].queue = Tail(@), ![t].seen = @ \cup {n}]
    /\ UNCHANGED <<event, attempts, ingests, run, approval, job, responseId, world>>

\* A node comes up: skipped if visited (actions never are), else its step is
\* created; the unique key runId:nodeKey makes a second one throw.
Visit(t) ==
    /\ At(t, "walk")
    /\ task[t].queue # <<>>
    /\ LET n == Head(task[t].queue)
           rest == Tail(task[t].queue)
       IN \/ /\ n \in task[t].seen /\ Kind[n] \notin {"ACTION", "AI"}
             /\ task' = [task EXCEPT ![t].queue = rest]
             /\ UNCHANGED step
          \/ /\ n \notin task[t].seen \/ Kind[n] \in {"ACTION", "AI"}
             /\ step[n] = "none"
             /\ step' = [step EXCEPT ![n] = "RUNNING"]
             /\ task' = [task EXCEPT ![t].pc = "node", ![t].at = n,
                                     ![t].queue = rest, ![t].seen = @ \cup {n}]
          \/ /\ n \notin task[t].seen \/ Kind[n] \in {"ACTION", "AI"}
             /\ step[n] # "none"
             /\ Throw(t)
             /\ UNCHANGED step
    /\ UNCHANGED <<event, attempts, ingests, run, approval, job, responseId, world>>

\* The step succeeds and its targets join the queue.
Succeed(t, label) ==
    /\ step' = [step EXCEPT ![task[t].at] = "SUCCEEDED"]
    /\ task' = [task EXCEPT ![t].pc = "walk",
                            ![t].queue = @ \o Follow(task[t].at, label)]
    /\ UNCHANGED <<event, attempts, ingests, run, approval, job, responseId>>

PassNode(t) ==
    /\ At(t, "node")
    /\ \/ Kind[task[t].at] = "TRIGGER" /\ Succeed(t, "plain") /\ UNCHANGED decisions
       \/ /\ Kind[task[t].at] = "CONDITION"
          /\ \E l \in {"true", "false"} :
                Succeed(t, l) /\ decisions' = [decisions EXCEPT ![task[t].at] = @ \cup {l}]
    /\ UNCHANGED <<answers, effects, persisted, faults>>

\* executeActionNode: an outbox row, or the approved recommendations.
Act(t) ==
    /\ At(t, "node")
    /\ Kind[task[t].at] = "ACTION"
    /\ effects' = [effects EXCEPT ![task[t].at] = @ + 1]
    /\ \E pc \in {"record", "failNode"} : Go(t, pc)
    /\ UNCHANGED <<rows, answers, persisted, decisions, faults>>

RecordAction(t) ==
    /\ At(t, "record")
    /\ Succeed(t, "plain")
    /\ UNCHANGED world

\* The catch block: whatever is awaited while a node is executed may throw, the
\* creation of a job or an approval and the writes of a pause included.
Catch(t) ==
    /\ task[t].pc \in {"node", "record", "pause", "pauseRun"}
    /\ Go(t, "failNode")
    /\ UNCHANGED <<rows, world>>

FailNode(t) ==
    /\ At(t, "failNode")
    /\ step' = [step EXCEPT ![task[t].at] = "FAILED"]
    /\ task' = [task EXCEPT ![t].pc = "finalize", ![t].result = "FAILED"]
    /\ UNCHANGED <<event, attempts, ingests, run, approval, job, responseId, world>>

\* queueAutomationAiJobForNode.
QueueJob(t) ==
    /\ At(t, "node")
    /\ Kind[task[t].at] = "AI"
    /\ job' = [job EXCEPT ![task[t].at] = "QUEUED"]
    /\ responseId' = [responseId EXCEPT ![task[t].at] = 0]
    /\ task' = [task EXCEPT ![t].pc = "pause", ![t].result = "WAITING_EXTERNAL"]
    /\ UNCHANGED <<event, attempts, ingests, run, step, approval, world>>

AskApproval(t) ==
    /\ At(t, "node")
    /\ Kind[task[t].at] = "APPROVAL"
    /\ approval' = [approval EXCEPT ![task[t].at] = "PENDING"]
    /\ task' = [task EXCEPT ![t].pc = "pause", ![t].result = "WAITING_APPROVAL"]
    /\ UNCHANGED <<event, attempts, ingests, run, step, job, responseId, world>>

\* The step is written after the job or the approval can be seen by others.
Pause(t) ==
    /\ At(t, "pause")
    /\ step' = [step EXCEPT ![task[t].at] = task[t].result]
    /\ Go(t, "pauseRun")
    /\ UNCHANGED <<event, attempts, ingests, run, approval, job, responseId, world>>

\* What is left in the queue is forgotten.
PauseRun(t) ==
    /\ At(t, "pauseRun")
    /\ run' = task[t].result
    /\ Go(t, "finalize")
    /\ UNCHANGED <<event, attempts, ingests, step, approval, job, responseId, world>>

WalkEnds(t) ==
    /\ At(t, "walk")
    /\ task[t].queue = <<>>
    /\ task' = [task EXCEPT ![t].pc = "finalize", ![t].result = "SUCCEEDED"]
    /\ UNCHANGED <<rows, world>>

\* finalizeWorkflowRun writes the result whatever the run is by now.
Finalize(t) ==
    /\ At(t, "finalize")
    /\ run' = task[t].result
    /\ IF task[t].origin = "trigger" THEN Go(t, "ack") ELSE Done(t)
    /\ UNCHANGED <<event, attempts, ingests, step, approval, job, responseId, world>>

-----------------------------------------------------------------------------
(* Approvals *)

\* resolveWorkflowApproval reads the row and checks that it is pending ...
ReadApproval(t) ==
    /\ \E n \in Nodes, d \in {"approved", "rejected"} :
          approval[n] = "PENDING" /\ Begin(t, "decide", "approval", n, d, 0)
    /\ UNCHANGED <<rows, world>>

\* ... and writes the decision without asking again.
Decide(t) ==
    /\ At(t, "decide")
    /\ approval' = [approval EXCEPT ![task[t].at] =
                       IF task[t].result = "approved" THEN "APPROVED" ELSE "REJECTED"]
    /\ decisions' = [decisions EXCEPT ![task[t].at] = @ \cup {task[t].result}]
    /\ Go(t, "decideStep")
    /\ UNCHANGED <<event, attempts, ingests, run, step, job, responseId,
                   answers, effects, persisted, faults>>

DecideStep(t) ==
    /\ At(t, "decideStep")
    /\ step' = [step EXCEPT ![task[t].at] =
                   IF task[t].result = "approved" THEN "SUCCEEDED" ELSE "FAILED"]
    /\ Go(t, "proceed")
    /\ UNCHANGED <<event, attempts, ingests, run, approval, job, responseId, world>>

\* processTimedOutApprovals: the step keeps WAITING_APPROVAL.
Expire(t) ==
    /\ At(t, "expire")
    /\ approval' = [approval EXCEPT ![task[t].at] = "TIMED_OUT"]
    /\ decisions' = [decisions EXCEPT ![task[t].at] = @ \cup {"timeout"}]
    /\ Go(t, "proceed")
    /\ UNCHANGED <<event, attempts, ingests, run, step, job, responseId,
                   answers, effects, persisted, faults>>

\* Mutant of Proceed: the edge for the decision is not looked up.
ProceedApproved(t) ==
    /\ At(t, "proceed")
    /\ run' = "RUNNING"
    /\ task' = [task EXCEPT ![t].pc = "walk",
                            ![t].queue = Follow(task[t].at, "approved")]
    /\ UNCHANGED <<event, attempts, ingests, step, approval, job, responseId, world>>

\* The run goes on behind the approval, or ends there.
Proceed(t) ==
    /\ At(t, "proceed")
    /\ LET targets == Follow(task[t].at, task[t].result)
       IN \/ /\ targets = <<>>
             /\ run' = IF task[t].result = "approved" THEN "SUCCEEDED" ELSE "CANCELED"
             /\ Done(t)
          \/ /\ targets # <<>>
             /\ run' = "RUNNING"
             /\ task' = [task EXCEPT ![t].pc = "walk", ![t].queue = targets]
    /\ UNCHANGED <<event, attempts, ingests, step, approval, job, responseId, world>>

-----------------------------------------------------------------------------
(* AI jobs *)

Terminal == {"completed", "failed", "cancelled"}

\* dispatchAutomationAiJobs picks queued and failed jobs, without a limit.
PickJob(t) ==
    /\ \E n \in Nodes : job[n] \in {"QUEUED", "FAILED"}
                        /\ Begin(t, "request", "settle", n, "none", 0)
    /\ UNCHANGED <<rows, world>>

RequestJob(t) ==
    /\ At(t, "request")
    /\ job' = [job EXCEPT ![task[t].at] = "REQUESTED"]
    /\ Go(t, "submit")
    /\ UNCHANGED <<event, attempts, ingests, run, step, approval, responseId, world>>

\* The call to OpenAI creates a background response.
Submit(t) ==
    /\ At(t, "submit")
    /\ Len(answers[task[t].at]) < MaxResponses
    /\ \E status \in {"in_progress", "completed"} :
          /\ answers' = [answers EXCEPT ![task[t].at] = Append(@, status)]
          /\ task' = [task EXCEPT ![t].pc = "respond", ![t].result = status,
                                  ![t].count = Len(answers[task[t].at]) + 1]
    /\ UNCHANGED <<rows, effects, persisted, decisions, faults>>

SubmitFails(t) ==
    /\ At(t, "submit")
    /\ job' = [job EXCEPT ![task[t].at] = "FAILED"]
    /\ Done(t)
    /\ UNCHANGED <<event, attempts, ingests, run, step, approval, responseId, world>>

\* Mutant of RecordResponse: the id of the next response is recorded.
RecordNextResponse(t) ==
    /\ At(t, "respond")
    /\ job' = [job EXCEPT ![task[t].at] = "RUNNING"]
    /\ responseId' = [responseId EXCEPT ![task[t].at] = task[t].count + 1]
    /\ Go(t, "settle")
    /\ UNCHANGED <<event, attempts, ingests, run, step, approval, world>>

RecordResponse(t) ==
    /\ At(t, "respond")
    /\ job' = [job EXCEPT ![task[t].at] =
                  IF task[t].result \in Terminal THEN "REQUESTED" ELSE "RUNNING"]
    /\ responseId' = [responseId EXCEPT ![task[t].at] = task[t].count]
    /\ Go(t, "settle")
    /\ UNCHANGED <<event, attempts, ingests, run, step, approval, world>>

\* OpenAI finishes a response.
Answer(n) ==
    /\ \E i \in 1 .. Len(answers[n]), status \in Terminal :
          /\ answers[n][i] = "in_progress"
          /\ answers' = [answers EXCEPT ![n][i] = status]
    /\ UNCHANGED <<rows, task, effects, persisted, decisions, faults>>

PickPoll(t) ==
    /\ \E n \in Nodes :
          /\ job[n] \in {"REQUESTED", "RUNNING"} /\ responseId[n] # 0
          /\ Begin(t, "retrieve", "settle", n, "poll", responseId[n])
    /\ UNCHANGED <<rows, world>>

\* A webhook finds the job by its response, in whatever state the job is.
Webhook(t) ==
    /\ \E n \in Nodes :
          /\ responseId[n] # 0 /\ answers[n][responseId[n]] \in Terminal
          /\ Begin(t, "retrieve", "settle", n, "webhook", responseId[n])
    /\ UNCHANGED <<rows, world>>

Retrieve(t) ==
    /\ At(t, "retrieve")
    /\ task' = [task EXCEPT ![t].pc = "settle",
                            ![t].result = answers[task[t].at][task[t].count]]
    /\ UNCHANGED <<rows, world>>

\* Mutant of RetrieveFails: a failed poll gives the job up.
RetrieveGivesUp(t) ==
    /\ At(t, "retrieve")
    /\ job' = [job EXCEPT ![task[t].at] = "CANCELED"]
    /\ Done(t)
    /\ UNCHANGED <<event, attempts, ingests, run, step, approval, responseId, world>>

RetrieveFails(t) ==
    /\ At(t, "retrieve")
    /\ job' = IF task[t].result = "poll"
              THEN [job EXCEPT ![task[t].at] = "FAILED"] ELSE job
    /\ Done(t)
    /\ UNCHANGED <<event, attempts, ingests, run, step, approval, responseId, world>>

\* settleAutomationAiJobWithResponse.  It does not ask whether the job has been
\* settled before.
StillRunning(t) ==
    /\ At(t, "settle")
    /\ task[t].result = "in_progress"
    /\ job' = [job EXCEPT ![task[t].at] = "RUNNING"]
    /\ Done(t)
    /\ UNCHANGED <<event, attempts, ingests, run, step, approval, responseId, world>>

\* Mutant of Persist: an envelope that cannot be stored is passed over.
PersistLoosely(t) ==
    /\ At(t, "settle")
    /\ task[t].result = "completed"
    /\ \E stored \in BOOLEAN :
          persisted' = [persisted EXCEPT ![task[t].at] = @ \/ stored]
    /\ Go(t, "complete")
    /\ UNCHANGED <<rows, answers, effects, decisions, faults>>

Persist(t) ==
    /\ At(t, "settle")
    /\ task[t].result = "completed"
    /\ \/ persisted' = [persisted EXCEPT ![task[t].at] = TRUE] /\ Go(t, "complete")
       \/ Throw(t) /\ UNCHANGED persisted
    /\ UNCHANGED <<rows, answers, effects, decisions, faults>>

CompleteJob(t) ==
    /\ At(t, "complete")
    /\ job' = [job EXCEPT ![task[t].at] = "SUCCEEDED"]
    /\ Go(t, "completeStep")
    /\ UNCHANGED <<event, attempts, ingests, run, step, approval, responseId, world>>

CompleteStep(t) ==
    /\ At(t, "completeStep")
    /\ step' = [step EXCEPT ![task[t].at] = "SUCCEEDED"]
    /\ Go(t, "resume")
    /\ UNCHANGED <<event, attempts, ingests, run, approval, job, responseId, world>>

\* resumeWorkflowRunAfterNode.
Resume(t) ==
    /\ At(t, "resume")
    /\ LET targets == Follow(task[t].at, "plain")
       IN \/ /\ targets = <<>>
             /\ task' = [task EXCEPT ![t].pc = "finalize", ![t].result = "SUCCEEDED"]
             /\ UNCHANGED run
          \/ /\ targets # <<>>
             /\ run' = "RUNNING"
             /\ task' = [task EXCEPT ![t].pc = "walk", ![t].queue = targets]
    /\ UNCHANGED <<event, attempts, ingests, step, approval, job, responseId, world>>

Rejected(t) ==
    /\ At(t, "settle")
    /\ task[t].result \in {"failed", "cancelled"}
    /\ Go(t, "failJob")
    /\ UNCHANGED <<rows, world>>

\* failAutomationAiJob: the job, its step and the run, one after the other.
FailJob(t) ==
    /\ At(t, "failJob")
    /\ job' = [job EXCEPT ![task[t].home] =
                  IF task[t].result = "cancelled" THEN "CANCELED" ELSE "FAILED"]
    /\ Go(t, "failStep")
    /\ UNCHANGED <<event, attempts, ingests, run, step, approval, responseId, world>>

FailStep(t) ==
    /\ At(t, "failStep")
    /\ step' = [step EXCEPT ![task[t].home] = "FAILED"]
    /\ task' = [task EXCEPT ![t].pc = "finalize",
                            ![t].result = IF @ = "cancelled" THEN "CANCELED" ELSE "FAILED"]
    /\ UNCHANGED <<event, attempts, ingests, run, approval, job, responseId, world>>

-----------------------------------------------------------------------------

\* The process dies.  Nothing remembers what it was doing.
Crash(t) ==
    /\ ~ At(t, "idle")
    /\ faults < MaxFaults
    /\ faults' = faults + 1
    /\ task' = [task EXCEPT ![t] = Idle]
    /\ UNCHANGED <<rows, answers, effects, persisted, decisions>>

BeginDispatch(t) == ExpireFirst(t) \/ SelectNow(t)

\* What a task that has begun does next.
EventStep(t) ==
    SelectEvent(t) \/ FindRun(t) \/ CreateRun(t) \/ StartRun(t)
        \/ AckEvent(t) \/ NackEvent(t)

GraphStep(t) ==
    Visit(t) \/ PassNode(t) \/ Act(t) \/ RecordAction(t) \/ Catch(t) \/ FailNode(t)
        \/ QueueJob(t) \/ AskApproval(t) \/ Pause(t) \/ PauseRun(t)
        \/ WalkEnds(t) \/ Finalize(t)

ApprovalStep(t) == Decide(t) \/ DecideStep(t) \/ Expire(t) \/ Proceed(t)

JobStep(t) ==
    RequestJob(t) \/ Submit(t) \/ SubmitFails(t) \/ RecordResponse(t)
        \/ Retrieve(t) \/ RetrieveFails(t) \/ StillRunning(t) \/ Persist(t)
        \/ CompleteJob(t) \/ CompleteStep(t) \/ Resume(t) \/ Rejected(t)
        \/ FailJob(t) \/ FailStep(t)

TaskStep(t) == EventStep(t) \/ GraphStep(t) \/ ApprovalStep(t) \/ JobStep(t)

Next ==
    \/ Ingest
    \/ \E n \in Nodes : Answer(n)
    \/ \E t \in Tasks : BeginDispatch(t) \/ TaskStep(t) \/ Crash(t)
    \/ \E t \in Workers : PickJob(t) \/ PickPoll(t)
    \/ \E t \in Requests : ReadApproval(t) \/ Webhook(t)

\* A call that has begun goes on; the automations module of every sync cycle of a
\* worker begins with dispatchWorkflowTriggerEvents, ahead of jobs and polls, so these
\* never keep it from there.
Fairness ==
    /\ \A t \in Tasks : WF_vars(TaskStep(t))
    /\ \A t \in Workers : SF_vars(BeginDispatch(t))

Spec == Init /\ [][Next]_vars /\ Fairness

-----------------------------------------------------------------------------
(* Properties *)

RunStatus == {"none", "QUEUED", "RUNNING", "WAITING_APPROVAL", "WAITING_EXTERNAL",
              "SUCCEEDED", "FAILED", "CANCELED"}
StepStatus == {"none", "RUNNING", "SUCCEEDED", "FAILED", "WAITING_APPROVAL",
               "WAITING_EXTERNAL"}

WorkflowTypeOK ==
    /\ event \in {"none", "QUEUED", "DISPATCHED", "DEAD_LETTER"}
    /\ attempts \in Nat /\ ingests \in 0 .. MaxIngests
    /\ run \in RunStatus
    /\ step \in [Nodes -> StepStatus]
    /\ approval \in [Nodes -> {"none", "PENDING", "APPROVED", "REJECTED", "TIMED_OUT"}]
    /\ job \in [Nodes -> {"none", "QUEUED", "REQUESTED", "RUNNING", "SUCCEEDED",
                          "FAILED", "CANCELED"}]
    /\ responseId \in [Nodes -> Nat]
    /\ \A n \in Nodes : responseId[n] \in 0 .. Len(answers[n])
    /\ answers \in [Nodes -> Seq(Terminal \cup {"in_progress"})]
    /\ effects \in [Nodes -> Nat]
    /\ persisted \in [Nodes -> BOOLEAN]
    /\ decisions \in [Nodes -> SUBSET Labels]
    /\ faults \in 0 .. MaxFaults

\* docs/prd/arda-gtm-operators.md:68: "No duplicate run side effects on replay."
\* Whoever resumes the run, in whatever order and however often, an action of the
\* graph is carried out at most once.
EffectsOnce == \A n \in Nodes : effects[n] <= 1

\* Node m may follow node n: n has come out in a way that leads to m.
LeadsTo(n, m) ==
    \/ /\ Kind[n] \in {"APPROVAL", "CONDITION"}
       /\ \E d \in decisions[n] : m \in Range(Follow(n, d))
    \/ /\ IF Kind[n] = "AI" THEN persisted[n] ELSE step[n] = "SUCCEEDED"
       /\ Kind[n] \in {"TRIGGER", "ACTION", "AI"}
       /\ m \in Range(Follow(n, "plain"))

\* Nothing runs unasked: a node is executed only behind an approval that was
\* decided that way, an AI answer that was stored, or an action that succeeded.
NothingRunsUnasked ==
    \A m \in Nodes : step[m] # "none" =>
        m = Trigger \/ \E n \in Nodes : LeadsTo(n, m)

\* A run is a Walk through its graph: how a node has come out is what was decided
\* on it, the answer stored for it, or the success of its step.
Outcomes(n) ==
    CASE Kind[n] \in {"APPROVAL", "CONDITION"} -> decisions[n]
      [] Kind[n] = "AI"                        -> {d \in {"plain"} : persisted[n]}
      [] OTHER                                 -> {d \in {"plain"} : step[n] = "SUCCEEDED"}

Journey == INSTANCE Walk WITH
    Targets <- [n \in Nodes |-> [l \in Labels |-> Range(Follow(n, l))]],
    entered <- {n \in Nodes : step[n] # "none"},
    outcomes <- [n \in Nodes |-> Outcomes(n)],
    acts <- effects

\* The whole runtime keeps to the graph: with workers, approvers, polls, webhooks
\* and crashes in any order, every node is entered once and behind an outcome that
\* leads to it, every action is carried out once, and nothing but an approval comes
\* out in two ways.
ImplementsWalk == Journey!Spec

\* A settled job has its envelope stored: the run never goes on with nothing.
SettledIsPersisted ==
    \A n \in Nodes : job[n] = "SUCCEEDED" => persisted[n]

\* Whatever fails, and however deliveries and dispatchers overlap, a trigger event
\* leaves the queue: it is dispatched, or dead-lettered after MaxAttempts.
EventSettles == (event = "QUEUED") ~> (event # "QUEUED")

Waits == {"WAITING_EXTERNAL", "WAITING_APPROVAL"}
OpenJob == {"QUEUED", "REQUESTED", "RUNNING", "FAILED"}

\* What a run with this status waits for can still happen.
HasEnd(status) ==
    /\ status = "WAITING_EXTERNAL" => \E n \in Nodes : job[n] \in OpenJob
    /\ status = "WAITING_APPROVAL" => \E n \in Nodes : approval[n] = "PENDING"

\* Tasks that have closed what the run waits for, or are about to end it: unless
\* they die they write a status that waits for nothing.
Movers == {t \in Tasks :
    \/ task[t].pc \in {"completeStep", "resume", "failStep", "decideStep", "proceed"}
    \/ At(t, "finalize") /\ task[t].result \notin Waits}

\* The run waits for what has happened already, and nobody will tell it.
Stranded == ~ HasEnd(run) /\ Movers = {}

\* A walk writes that the run waits when its own job is settled, or its own
\* approval decided.
WritesLate(t) ==
    /\ task[t].pc \in {"pauseRun", "finalize"} /\ task[t].result \in Waits
    /\ job[task[t].at] \notin OpenJob /\ approval[task[t].at] # "PENDING"
    /\ run' = task[t].result /\ task'[t] # task[t]

\* docs/prd/arda-gtm-operators.md:28 promises that a completed response "resumes
\* the workflow graph from the completed node".  However workers, approvers, polls
\* and webhooks overlap, a run is stranded only by a crash, or by a walk that
\* writes its wait after what it waits for is over (runtime.ts:471, 523).
OnlyLateWritesStrand ==
    [][~ Stranded /\ Stranded' => faults' > faults \/ \E t \in Tasks : WritesLate(t)]_vars

\* runtime.ts:1528: "Approval is no longer pending": a decision is made once.
DecidedOnce == \A n \in Nodes : decisions[n] = {} \/ \E d \in decisions[n] : decisions[n] = {d}
=============================================================================
