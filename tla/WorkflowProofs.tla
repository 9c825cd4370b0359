---------------------------- MODULE WorkflowProofs ----------------------------
(***************************************************************************)
(* Theorems about WorkflowRun, for every graph and any number of tasks:    *)
(* actions are carried out at most once, nothing runs unasked, settled     *)
(* jobs have their envelope, and only late writes strand a run.            *)
(*                                                                         *)
(* The invariant ties the rows to what each task is about to do with them  *)
(* (TaskOK).  A step disturbs one task; the others keep their part because *)
(* rows only move forward (Forward) and a step row in execution belongs to *)
(* one task (Kept).                                                        *)
(***************************************************************************)
EXTENDS WorkflowRun, SequenceTheorems, TLAPS

OwnPC == {"node", "record", "pause", "pauseRun", "failNode"}
ApprovalPC == {"decide", "decideStep", "expire", "proceed"}
StoredPC == {"complete", "completeStep", "resume"}
JobPC == {"request", "submit", "respond", "retrieve", "settle"} \cup StoredPC
FailPC == {"failJob", "failStep"}

OtherPC == {"idle", "select", "find", "create", "start", "ack", "nack", "walk", "finalize"}
PCs == OwnPC \cup ApprovalPC \cup JobPC \cup FailPC \cup OtherPC
Origins == {"none", "trigger", "timeout", "approval", "settle"}
Results == RunStatus \cup {"approved", "rejected", "timeout", "poll", "webhook",
                          "in_progress", "completed", "failed", "cancelled"}

TaskRecord ==
    [pc : PCs, origin : Origins, home : Nodes, at : Nodes, queue : Seq(Nodes),
     seen : SUBSET Nodes, result : Results, count : Nat]

Asked(m) == m = Trigger \/ \E n \in Nodes : LeadsTo(n, m)

\* What task t is about to do rests on rows that are still as it left them.
TaskOK(t) ==
    /\ task[t].pc \in ApprovalPC =>
          Kind[task[t].at] = "APPROVAL" /\ task[t].result \in {"approved", "rejected", "timeout"}
    /\ task[t].pc = "expire" => task[t].result = "timeout"
    /\ task[t].pc \in {"decideStep", "proceed"} => task[t].result \in decisions[task[t].at]
    /\ task[t].origin = "settle" => Kind[task[t].home] = "AI" /\ step[task[t].home] # "none"
    /\ task[t].pc \in JobPC \cup FailPC => task[t].origin = "settle"
    /\ task[t].pc \in JobPC => task[t].at = task[t].home
    /\ task[t].pc \in StoredPC => persisted[task[t].at]
    /\ task[t].pc \in {"respond", "retrieve"} => task[t].count \in 1 .. Len(answers[task[t].at])
    /\ task[t].pc \in {"pause", "pauseRun"} => task[t].result \in Waits
    /\ task[t].pc \in {"pause", "pauseRun", "finalize"} =>
          /\ task[t].result = "WAITING_EXTERNAL" => Kind[task[t].at] = "AI"
          /\ task[t].result = "WAITING_APPROVAL" => Kind[task[t].at] = "APPROVAL"
    /\ task[t].pc = "finalize" => task[t].result \in RunStatus
    /\ task[t].pc \in OwnPC \cup ApprovalPC => step[task[t].at] # "none"
    /\ task[t].pc \in OwnPC /\ Kind[task[t].at] \in {"TRIGGER", "ACTION"} =>
          step[task[t].at] = "RUNNING"
    /\ task[t].pc = "record" => Kind[task[t].at] = "ACTION"
    /\ task[t].pc = "node" => effects[task[t].at] = 0
    /\ \A i \in 1 .. Len(task[t].queue) : Asked(task[t].queue[i])

\* One task executes a node.
OneOwner ==
    \A t, u \in Tasks :
        t # u /\ task[t].pc \in OwnPC /\ task[u].pc \in OwnPC => task[t].at # task[u].at

RowsOK ==
    /\ WorkflowTypeOK
    /\ \A n \in Nodes :
          /\ effects[n] \in {0, 1}
          /\ effects[n] # 0 => step[n] # "none"
          /\ step[n] # "none" => Asked(n)
          /\ approval[n] # "none" => Kind[n] = "APPROVAL" /\ step[n] # "none"
          /\ job[n] # "none" \/ responseId[n] # 0 => Kind[n] = "AI" /\ step[n] # "none"
          /\ job[n] = "SUCCEEDED" => persisted[n]

WInv ==
    /\ RowsOK
    /\ task \in [Tasks -> TaskRecord]
    /\ OneOwner
    /\ \A t \in Tasks : TaskOK(t)

\* Rows only move forward.
Forward ==
    \A n \in Nodes :
        /\ step[n] # "none" => step'[n] # "none"
        /\ Kind[n] \in {"TRIGGER", "ACTION"} /\ step[n] = "SUCCEEDED" => step'[n] = "SUCCEEDED"
        /\ persisted[n] => persisted'[n]
        /\ decisions[n] \subseteq decisions'[n]
        /\ Len(answers[n]) \in Nat /\ Len(answers'[n]) \in Nat
        /\ Len(answers[n]) <= Len(answers'[n])

\* The others stay where they are and keep the nodes they execute.
Kept(t) ==
    \A u \in Tasks \ {t} :
        /\ task'[u] = task[u]
        /\ task[u].pc \in OwnPC /\ Kind[task[u].at] \in {"TRIGGER", "ACTION"} =>
              step'[task[u].at] = step[task[u].at]
        /\ task[u].pc \in OwnPC => effects'[task[u].at] = effects[task[u].at]

\* t executes the node it executed, or one nobody had created a step for.
Entered(t) ==
    task'[t].pc \in OwnPC =>
        \/ task[t].pc \in OwnPC /\ task'[t].at = task[t].at
        \/ step[task'[t].at] = "none"

-----------------------------------------------------------------------------

\* What selectOutgoingTargets returns is a list of nodes.
LEMMA FollowTyped ==
    ASSUME NEW n \in Nodes, NEW l \in Labels
    PROVE  Follow(n, l) \in Seq(Nodes)
<1>1. \A k \in Labels : Edges[n][k] \in Seq(Nodes)
  BY WorkflowAssumption
<1>2. All(n) \in Seq(Nodes)
  BY <1>1 DEF All, Labels
<1> QED
  BY <1>1, <1>2 DEF Follow

LEMMA InRange ==
    ASSUME NEW S, NEW s \in Seq(S), NEW i \in 1 .. Len(s)
    PROVE  s[i] \in Range(s)
  BY DEF Range

\* What has been asked for stays so.
LEMMA AskedStays ==
    ASSUME Forward, NEW m, Asked(m)
    PROVE  Asked(m)'
<1>1. CASE m = Trigger
  BY <1>1 DEF Asked
<1>2. ASSUME NEW n \in Nodes, LeadsTo(n, m)
      PROVE  LeadsTo(n, m)'
  <2>1. CASE Kind[n] \in {"APPROVAL", "CONDITION"}
    <3>1. PICK d \in decisions[n] : m \in Range(Follow(n, d))
      BY <1>2, <2>1 DEF LeadsTo
    <3>2. d \in decisions'[n]
      BY <3>1 DEF Forward
    <3> QED
      BY <2>1, <3>1, <3>2 DEF LeadsTo
  <2>2. CASE Kind[n] \notin {"APPROVAL", "CONDITION"}
    BY <1>2, <2>2 DEF LeadsTo, Forward
  <2> QED
    BY <2>1, <2>2
<1> QED
  BY <1>1, <1>2 DEF Asked

\* A step that moves rows forward leaves the other tasks' part of the invariant.
LEMMA Frame ==
    ASSUME WInv, NEW t \in Tasks, Forward, Kept(t), Entered(t), RowsOK',
           task' \in [Tasks -> TaskRecord], TaskOK(t)'
    PROVE  WInv'
<1>1. ASSUME NEW u \in Tasks \ {t}
      PROVE  TaskOK(u)'
  <2>1. task'[u] = task[u] /\ TaskOK(u)
    BY DEF Kept, WInv
  <2>2. \A i \in 1 .. Len(task[u].queue) : Asked(task[u].queue[i])'
    BY <2>1, AskedStays DEF TaskOK
  <2>3. task[u].at \in Nodes /\ task[u].home \in Nodes
    BY DEF WInv, TaskRecord
  <2>4. /\ task[u].pc \in OwnPC /\ Kind[task[u].at] \in {"TRIGGER", "ACTION"} =>
              step'[task[u].at] = step[task[u].at]
        /\ task[u].pc \in OwnPC => effects'[task[u].at] = effects[task[u].at]
    BY DEF Kept
  <2>8. /\ step[task[u].at] # "none" => step'[task[u].at] # "none"
        /\ step[task[u].home] # "none" => step'[task[u].home] # "none"
    BY <2>3 DEF Forward
  <2>5. task[u].pc \in {"respond", "retrieve"} =>
           task[u].count \in 1 .. Len(answers'[task[u].at])
    <3>1. task[u].count \in Nat
      BY DEF WInv, TaskRecord
    <3> QED
      BY <2>1, <2>3, <3>1 DEF TaskOK, Forward
  <2>6. task[u].pc \in StoredPC => persisted'[task[u].at]
    BY <2>1, <2>3 DEF TaskOK, Forward
  <2>7. task[u].pc \in {"decideStep", "proceed"} => task[u].result \in decisions'[task[u].at]
    BY <2>1, <2>3 DEF TaskOK, Forward
  <2> QED
    BY <2>1, <2>2, <2>3, <2>4, <2>5, <2>6, <2>7, <2>8 DEF TaskOK, OwnPC, ApprovalPC
<1>2. OneOwner'
  <2>1. SUFFICES ASSUME NEW u \in Tasks \ {t}, task'[t].pc \in OwnPC, task'[u].pc \in OwnPC
                 PROVE  task'[t].at # task'[u].at
    BY DEF Kept, WInv, OneOwner
  <2>2. task'[u] = task[u] /\ TaskOK(u)
    BY DEF Kept, WInv
  <2>3. CASE task[t].pc \in OwnPC /\ task'[t].at = task[t].at
    BY <2>1, <2>2, <2>3 DEF WInv, OneOwner
  <2>4. CASE step[task'[t].at] = "none"
    BY <2>1, <2>2, <2>4 DEF TaskOK
  <2> QED
    BY <2>1, <2>3, <2>4 DEF Entered
<1> QED
  BY <1>1, <1>2 DEF WInv

\* A task that has returned, or has just begun, owes nothing to the rows.
LEMMA IdleOK == Idle \in TaskRecord
<1>1. Trigger \in Nodes
  BY WorkflowAssumption
<1>2. <<>> \in Seq(Nodes)
  OBVIOUS
<1>3. {} \in SUBSET Nodes
  OBVIOUS
<1>4. "idle" \in PCs /\ "none" \in Origins /\ "none" \in Results
  BY DEF PCs, OtherPC, Origins, Results, RunStatus
<1> QED
  BY <1>1, <1>2, <1>3, <1>4 DEF Idle, TaskRecord

\* Steps that touch the event and the run only.
LEMMA ControlFrame ==
    ASSUME WInv, NEW t \in Tasks, NEW x \in TaskRecord, task' = [task EXCEPT ![t] = x],
           UNCHANGED <<step, approval, job, responseId, world>>,
           event' \in {"none", "QUEUED", "DISPATCHED", "DEAD_LETTER"},
           attempts' \in Nat, ingests' \in 0 .. MaxIngests, run' \in RunStatus,
           TaskOK(t)', x.pc \in OwnPC => task[t].pc \in OwnPC /\ x.at = task[t].at
    PROVE  WInv'
<1>1. Forward
  <2>1. \A n \in Nodes : answers[n] \in Seq(Terminal \cup {"in_progress"})
    BY DEF WInv, RowsOK, WorkflowTypeOK
  <2> QED
    BY <2>1 DEF Forward, world
<1>2. task' \in [Tasks -> TaskRecord] /\ task'[t] = x
  BY DEF WInv
<1>3. Kept(t) /\ Entered(t)
  BY <1>2 DEF Kept, Entered, world, WInv
<1>4. RowsOK'
  <2>1. WorkflowTypeOK'
    BY DEF WInv, RowsOK, WorkflowTypeOK, world
  <2>2. \A n \in Nodes : step[n] # "none" => Asked(n)'
    BY <1>1, AskedStays DEF WInv, RowsOK
  <2> QED
    BY <2>1, <2>2 DEF WInv, RowsOK, world
<1> QED
  BY <1>1, <1>2, <1>3, <1>4, Frame

\* Steps that touch neither steps, approvals, jobs nor tasks.
LEMMA RowFrame ==
    ASSUME WInv, UNCHANGED <<step, approval, job, responseId, effects, persisted,
                             decisions, task, faults>>,
           event' \in {"none", "QUEUED", "DISPATCHED", "DEAD_LETTER"},
           attempts' \in Nat, ingests' \in 0 .. MaxIngests, run' \in RunStatus,
           answers' \in [Nodes -> Seq(Terminal \cup {"in_progress"})],
           \A n \in Nodes : Len(answers'[n]) = Len(answers[n])
    PROVE  WInv'
<1>1. \A m : Asked(m)' <=> Asked(m)
  BY DEF Asked, LeadsTo
<1>2. RowsOK'
  <2>1. WorkflowTypeOK'
    BY DEF WInv, RowsOK, WorkflowTypeOK
  <2> QED
    BY <1>1, <2>1 DEF WInv, RowsOK
<1>3. \A t \in Tasks : task[t] \in TaskRecord /\ TaskOK(t)
  BY DEF WInv
<1>4. \A t \in Tasks : TaskOK(t)'
  BY <1>1, <1>3, SMTT(60) DEF TaskOK, TaskRecord, OwnPC, ApprovalPC, StoredPC, JobPC, FailPC
<1> QED
  BY <1>2, <1>4 DEF WInv, OneOwner

\* What Done and Throw leave behind.
LEMMA DoneOK ==
    ASSUME WInv, NEW t \in Tasks, Done(t)
    PROVE  \E x \in TaskRecord :
              task' = [task EXCEPT ![t] = x] /\ x.pc \notin OwnPC /\ TaskOK(t)'
<1> DEFINE x == IF task[t].origin = "timeout" THEN [Idle EXCEPT !.pc = "select"] ELSE Idle
<1>1. x \in TaskRecord
  BY IdleOK DEF TaskRecord, PCs, OtherPC, Idle
<1>2. task' = [task EXCEPT ![t] = x]
  BY DEF Done
<1>3. x.pc \in {"idle", "select"} /\ x.origin = "none" /\ x.queue = <<>>
  BY DEF Idle
<1> HIDE DEF x
<1>4. task'[t] = x
  BY <1>2 DEF WInv
<1>5. TaskOK(t)'
  BY <1>3, <1>4 DEF TaskOK, OwnPC, ApprovalPC, StoredPC, JobPC, FailPC
<1> QED
  BY <1>1, <1>2, <1>3, <1>5 DEF OwnPC

LEMMA ThrowOK ==
    ASSUME WInv, NEW t \in Tasks, Throw(t), UNCHANGED <<step, persisted, decisions>>
    PROVE  \E x \in TaskRecord :
              task' = [task EXCEPT ![t] = x] /\ x.pc \notin OwnPC /\ TaskOK(t)'
<1> DEFINE x == CASE task[t].origin = "trigger" -> [task[t] EXCEPT !.pc = "nack"]
                  [] task[t].origin = "settle"  -> [task[t] EXCEPT !.pc = "failJob",
                                                                   !.result = "failed"]
                  [] OTHER                      -> Idle
<1>1. task' = [task EXCEPT ![t] = x]
  BY DEF Throw
<1>2. task[t] \in TaskRecord /\ TaskOK(t)
  BY DEF WInv
<1>3. \A m : Asked(m) => Asked(m)'
  BY DEF Asked, LeadsTo
<1>4. CASE task[t].origin = "trigger"
  <2>1. x = [task[t] EXCEPT !.pc = "nack"]
    BY <1>4
  <2>2. x \in TaskRecord /\ x.pc = "nack" /\ x.origin = "trigger" /\ x.queue = task[t].queue
    BY <1>2, <1>4, <2>1 DEF TaskRecord, PCs, OtherPC
  <2> HIDE DEF x
  <2>3. task'[t] = x
    BY <1>1 DEF WInv
  <2>4. TaskOK(t)'
    BY <1>2, <1>3, <2>2, <2>3 DEF TaskOK, OwnPC, ApprovalPC, StoredPC, JobPC, FailPC
  <2> QED
    BY <1>1, <2>2, <2>4 DEF OwnPC
<1>5. CASE task[t].origin = "settle"
  <2>1. x = [task[t] EXCEPT !.pc = "failJob", !.result = "failed"]
    BY <1>5
  <2>2. /\ x \in TaskRecord /\ x.pc = "failJob" /\ x.origin = "settle"
        /\ x.queue = task[t].queue /\ x.home = task[t].home
    BY <1>2, <1>5, <2>1 DEF TaskRecord, PCs, FailPC, Results
  <2> HIDE DEF x
  <2>3. task'[t] = x
    BY <1>1 DEF WInv
  <2>4. TaskOK(t)'
    BY <1>2, <1>3, <1>5, <2>2, <2>3 DEF TaskOK, OwnPC, ApprovalPC, StoredPC, JobPC, FailPC
  <2> QED
    BY <1>1, <2>2, <2>4 DEF OwnPC
<1>6. CASE task[t].origin \notin {"trigger", "settle"}
  <2>1. x = Idle
    BY <1>6
  <2>2. x \in TaskRecord /\ x.pc = "idle" /\ x.origin = "none" /\ x.queue = <<>>
    BY <2>1, IdleOK DEF Idle
  <2> HIDE DEF x
  <2>3. task'[t] = x
    BY <1>1 DEF WInv
  <2>4. TaskOK(t)'
    BY <2>2, <2>3 DEF TaskOK, OwnPC, ApprovalPC, StoredPC, JobPC, FailPC
  <2> QED
    BY <1>1, <2>2, <2>4 DEF OwnPC
<1> QED
  BY <1>4, <1>5, <1>6

-----------------------------------------------------------------------------
(* Beginning *)

LEMMA BeginInv ==
    ASSUME WInv, NEW t \in Tasks, NEW n \in Nodes, NEW result \in Results, NEW count \in Nat,
           NEW pc \in {"expire", "decide", "request", "retrieve", "select"},
           NEW origin \in Origins,
           Begin(t, pc, origin, n, result, count), UNCHANGED <<rows, world>>,
           pc \in {"expire", "decide"} =>
              /\ Kind[n] = "APPROVAL" /\ step[n] # "none"
              /\ result \in {"approved", "rejected", "timeout"},
           pc = "expire" => result = "timeout",
           pc \in {"request", "retrieve"} => origin = "settle",
           origin = "settle" => Kind[n] = "AI" /\ step[n] # "none",
           pc = "retrieve" => count \in 1 .. Len(answers[n])
    PROVE  WInv'
<1> DEFINE x == [Idle EXCEPT !.pc = pc, !.origin = origin, !.home = n, !.at = n,
                             !.result = result, !.count = count]
<1>1. x \in TaskRecord
  BY IdleOK DEF TaskRecord, PCs, OtherPC, ApprovalPC, JobPC, Idle
<1>2. task' = [task EXCEPT ![t] = x]
  BY DEF Begin
<1>3. task'[t] = x
  BY <1>2 DEF WInv
<1>4. /\ x.pc = pc /\ x.origin = origin /\ x.home = n /\ x.at = n /\ x.result = result
      /\ x.count = count /\ x.queue = <<>>
  BY DEF Idle
<1> HIDE DEF x
<1>5. TaskOK(t)'
  BY <1>3, <1>4, SMTT(60) DEF TaskOK, OwnPC, ApprovalPC, StoredPC, JobPC, FailPC, rows, world
<1> QED
  BY <1>1, <1>2, <1>4, <1>5, ControlFrame
     DEF rows, WInv, RowsOK, WorkflowTypeOK, OwnPC

LEMMA BeginSteps ==
    ASSUME WInv, NEW t \in Tasks,
           ExpireFirst(t) \/ SelectNow(t) \/ ReadApproval(t) \/ PickJob(t) \/ PickPoll(t)
              \/ Webhook(t)
    PROVE  WInv'
<1>1. CASE ExpireFirst(t)
  <2>1. PICK n \in Nodes : approval[n] = "PENDING" /\ Begin(t, "expire", "timeout", n, "timeout", 0)
    BY <1>1 DEF ExpireFirst
  <2>2. Kind[n] = "APPROVAL" /\ step[n] # "none"
    BY <2>1 DEF WInv, RowsOK
  <2> QED
    BY <1>1, <2>1, <2>2, BeginInv DEF ExpireFirst, Origins, Results
<1>2. CASE SelectNow(t)
  BY <1>2, BeginInv, WorkflowAssumption DEF SelectNow, Origins, Results, RunStatus
<1>3. CASE ReadApproval(t)
  <2>1. PICK n \in Nodes, d \in {"approved", "rejected"} :
           approval[n] = "PENDING" /\ Begin(t, "decide", "approval", n, d, 0)
    BY <1>3 DEF ReadApproval
  <2>2. Kind[n] = "APPROVAL" /\ step[n] # "none"
    BY <2>1 DEF WInv, RowsOK
  <2> QED
    BY <1>3, <2>1, <2>2, BeginInv DEF ReadApproval, Origins, Results
<1>4. CASE PickJob(t)
  <2>1. PICK n \in Nodes : /\ job[n] \in {"QUEUED", "FAILED"}
                           /\ Begin(t, "request", "settle", n, "none", 0)
    BY <1>4 DEF PickJob
  <2>2. Kind[n] = "AI" /\ step[n] # "none"
    BY <2>1 DEF WInv, RowsOK
  <2> QED
    BY <1>4, <2>1, <2>2, BeginInv DEF PickJob, Origins, Results, RunStatus
<1>5. CASE PickPoll(t)
  <2>1. PICK n \in Nodes : /\ responseId[n] # 0
                           /\ Begin(t, "retrieve", "settle", n, "poll", responseId[n])
    BY <1>5 DEF PickPoll
  <2>2. Kind[n] = "AI" /\ step[n] # "none" /\ responseId[n] \in 1 .. Len(answers[n]) /\ responseId[n] \in Nat
    BY <2>1 DEF WInv, RowsOK, WorkflowTypeOK
  <2> QED
    BY <1>5, <2>1, <2>2, BeginInv DEF PickPoll, Origins, Results
<1>6. CASE Webhook(t)
  <2>1. PICK n \in Nodes : /\ responseId[n] # 0
                           /\ Begin(t, "retrieve", "settle", n, "webhook", responseId[n])
    BY <1>6 DEF Webhook
  <2>2. Kind[n] = "AI" /\ step[n] # "none" /\ responseId[n] \in 1 .. Len(answers[n]) /\ responseId[n] \in Nat
    BY <2>1 DEF WInv, RowsOK, WorkflowTypeOK
  <2> QED
    BY <1>6, <2>1, <2>2, BeginInv DEF Webhook, Origins, Results
<1> QED
  BY <1>1, <1>2, <1>3, <1>4, <1>5, <1>6

-----------------------------------------------------------------------------
(* Events *)

LEMMA EventSteps ==
    ASSUME WInv, NEW t \in Tasks, EventStep(t)
    PROVE  WInv'
<1> USE DEF At
<1>1. event \in {"none", "QUEUED", "DISPATCHED", "DEAD_LETTER"} /\ attempts \in Nat
      /\ ingests \in 0 .. MaxIngests /\ run \in RunStatus
  BY DEF WInv, RowsOK, WorkflowTypeOK
<1>2. task[t] \in TaskRecord /\ TaskOK(t)
  BY DEF WInv
<1>3. ASSUME UNCHANGED <<step, approval, job, responseId, world>>, Throw(t) \/ Done(t),
             event' \in {"none", "QUEUED", "DISPATCHED", "DEAD_LETTER"},
             attempts' \in Nat, ingests' \in 0 .. MaxIngests, run' \in RunStatus
      PROVE  WInv'
  <2>1. PICK x \in TaskRecord :
           task' = [task EXCEPT ![t] = x] /\ x.pc \notin OwnPC /\ TaskOK(t)'
    BY <1>3, ThrowOK, DoneOK DEF world
  <2> QED
    BY <1>3, <2>1, ControlFrame
<1>4. CASE SelectEvent(t)
  <2> DEFINE x == IF event = "QUEUED"
                  THEN [Idle EXCEPT !.pc = "find", !.origin = "trigger", !.count = attempts]
                  ELSE Idle
  <2>1. x \in TaskRecord /\ x.pc \in {"find", "idle"} /\ x.queue = <<>> /\ x.origin # "settle"
    BY <1>1, IdleOK DEF Idle, TaskRecord, PCs, OtherPC, Origins
  <2>2. task' = [task EXCEPT ![t] = x]
    BY <1>4 DEF SelectEvent
  <2> HIDE DEF x
  <2>3. task'[t] = x
    BY <2>2 DEF WInv
  <2>4. TaskOK(t)'
    BY <2>1, <2>3 DEF TaskOK, OwnPC, ApprovalPC, StoredPC, JobPC, FailPC
  <2> QED
    BY <1>1, <1>4, <2>1, <2>2, <2>4, ControlFrame DEF SelectEvent, rows, OwnPC
<1>5. ASSUME NEW pc \in {"create", "ack", "start"}, Go(t, pc), run' \in RunStatus,
             UNCHANGED <<event, attempts, ingests, step, approval, job, responseId, world>>
      PROVE  WInv'
  <2> DEFINE x == [task[t] EXCEPT !.pc = pc]
  <2>1. x \in TaskRecord /\ x.pc = pc /\ x.queue = task[t].queue /\ x.origin = task[t].origin
        /\ x.home = task[t].home
    BY <1>2 DEF TaskRecord, PCs, OtherPC
  <2>2. task' = [task EXCEPT ![t] = x]
    BY <1>5 DEF Go
  <2> HIDE DEF x
  <2>3. task'[t] = x
    BY <2>2 DEF WInv
  <2>4. \A m : Asked(m) => Asked(m)'
    BY <1>5 DEF Asked, LeadsTo, world
  <2>5. TaskOK(t)'
    BY <1>2, <1>5, <2>1, <2>3, <2>4, SMTT(60) DEF TaskOK, OwnPC, ApprovalPC, StoredPC, JobPC, FailPC
  <2> QED
    BY <1>1, <1>5, <2>1, <2>2, <2>5, ControlFrame DEF OwnPC
<1>6. CASE FindRun(t)
  <2>1. CASE Throw(t)
    BY <1>1, <1>3, <1>6, <2>1 DEF FindRun, rows
  <2>2. CASE Go(t, IF run = "none" THEN "create" ELSE "ack")
    BY <1>1, <1>5, <1>6, <2>2 DEF FindRun, rows
  <2> QED
    BY <1>6, <2>1, <2>2 DEF FindRun
<1>7. CASE CreateRun(t)
  <2>1. CASE Throw(t) /\ UNCHANGED run
    BY <1>1, <1>3, <1>7, <2>1 DEF CreateRun
  <2>2. CASE run' = "QUEUED" /\ Go(t, "start")
    BY <1>1, <1>5, <1>7, <2>2 DEF CreateRun, RunStatus
  <2> QED
    BY <1>7, <2>1, <2>2 DEF CreateRun
<1>8. CASE StartRun(t)
  <2>1. CASE Throw(t) /\ UNCHANGED run
    BY <1>1, <1>3, <1>8, <2>1 DEF StartRun
  <2>2. CASE /\ run' = "RUNNING"
             /\ task' = [task EXCEPT ![t].pc = "walk", ![t].queue = <<Trigger>>]
    <3> DEFINE x == [task[t] EXCEPT !.pc = "walk", !.queue = <<Trigger>>]
    <3>1. <<Trigger>> \in Seq(Nodes)
      BY WorkflowAssumption
    <3>2. x \in TaskRecord /\ x.pc = "walk" /\ x.queue = <<Trigger>>
          /\ x.origin = task[t].origin /\ x.home = task[t].home
      BY <1>2, <3>1 DEF TaskRecord, PCs, OtherPC
    <3>3. task' = [task EXCEPT ![t] = x]
      BY <2>2
    <3> HIDE DEF x
    <3>4. task'[t] = x
      BY <3>3 DEF WInv
    <3>5. Asked(Trigger)'
      BY DEF Asked
    <3>6. \A i \in 1 .. Len(<<Trigger>>) : <<Trigger>>[i] = Trigger
      OBVIOUS
    <3>7. TaskOK(t)'
      BY <1>2, <1>8, <3>2, <3>4, <3>5, <3>6 DEF StartRun, TaskOK, OwnPC, ApprovalPC, StoredPC, JobPC, FailPC
    <3> QED
      BY <1>1, <1>8, <2>2, <3>2, <3>3, <3>7, ControlFrame DEF StartRun, OwnPC, RunStatus
  <2> QED
    BY <1>8, <2>1, <2>2 DEF StartRun
<1>9. CASE AckEvent(t)
  BY <1>1, <1>3, <1>9 DEF AckEvent
<1>10. CASE NackEvent(t)
  <2>1. task[t].count \in Nat
    BY <1>2 DEF TaskRecord
  <2> QED
    BY <1>1, <1>3, <1>10, <2>1 DEF NackEvent
<1> QED
  BY <1>4, <1>6, <1>7, <1>8, <1>9, <1>10 DEF EventStep
-----------------------------------------------------------------------------
(* Frames *)

\* Every list of answers is a list, before and after a step that leaves them.
LEMMA AnswersKept ==
    ASSUME WInv, UNCHANGED answers
    PROVE  \A n \in Nodes : /\ Len(answers[n]) \in Nat /\ Len(answers'[n]) \in Nat
                            /\ Len(answers[n]) <= Len(answers'[n])
<1>1. \A n \in Nodes : answers[n] \in Seq(Terminal \cup {"in_progress"})
  BY DEF WInv, RowsOK, WorkflowTypeOK
<1> QED
  BY <1>1

\* A step that sets the status of one step row, of a node that was asked for.
LEMMA StepFrame ==
    ASSUME WInv, NEW t \in Tasks, NEW x \in TaskRecord, task' = [task EXCEPT ![t] = x],
           NEW n \in Nodes, NEW status \in StepStatus \ {"none"}, Asked(n),
           step' = [step EXCEPT ![n] = status], Forward,
           UNCHANGED <<event, attempts, ingests, run, approval, job, responseId,
                       answers, effects, persisted, faults>>,
           decisions' \in [Nodes -> SUBSET Labels],
           Kind[n] \in {"TRIGGER", "ACTION"} =>
              \A u \in Tasks \ {t} : task[u].pc \in OwnPC => task[u].at # n,
           x.pc \in OwnPC => \/ task[t].pc \in OwnPC /\ x.at = task[t].at
                             \/ step[x.at] = "none",
           TaskOK(t)'
    PROVE  WInv'
<1>1. \A m \in Nodes : step'[m] = IF m = n THEN status ELSE step[m]
  BY DEF WInv, RowsOK, WorkflowTypeOK
<1>2. task' \in [Tasks -> TaskRecord] /\ task'[t] = x
  BY DEF WInv
<1>3. Kept(t)
  <2>1. \A u \in Tasks \ {t} : task'[u] = task[u] /\ task[u].at \in Nodes
    BY DEF WInv, TaskRecord
  <2> QED
    BY <1>1, <2>1 DEF Kept
<1>4. Entered(t)
  BY <1>2 DEF Entered
<1>5. RowsOK'
  <2>1. WorkflowTypeOK'
    BY <1>1 DEF WInv, RowsOK, WorkflowTypeOK
  <2>2. \A m \in Nodes : step'[m] # "none" => Asked(m)'
    BY <1>1, AskedStays DEF WInv, RowsOK
  <2> QED
    BY <1>1, <2>1, <2>2 DEF WInv, RowsOK
<1> QED
  BY <1>2, <1>3, <1>4, <1>5, Frame

\* A step that touches approvals, jobs and what is known of them, and no step row.
LEMMA CallFrame ==
    ASSUME WInv, NEW t \in Tasks, NEW x \in TaskRecord, task' = [task EXCEPT ![t] = x],
           UNCHANGED <<event, attempts, ingests, run, step, effects, faults>>, Forward,
           WorkflowTypeOK',
           \A n \in Nodes :
              /\ approval'[n] # "none" => Kind[n] = "APPROVAL" /\ step[n] # "none"
              /\ job'[n] # "none" \/ responseId'[n] # 0 => Kind[n] = "AI" /\ step[n] # "none"
              /\ job'[n] = "SUCCEEDED" => persisted'[n],
           x.pc \in OwnPC => task[t].pc \in OwnPC /\ x.at = task[t].at, TaskOK(t)'
    PROVE  WInv'
<1>1. task' \in [Tasks -> TaskRecord] /\ task'[t] = x
  BY DEF WInv
<1>2. Kept(t) /\ Entered(t)
  BY <1>1 DEF Kept, Entered, WInv
<1>3. RowsOK'
  <2>1. \A n \in Nodes : step'[n] # "none" => Asked(n)'
    BY AskedStays DEF WInv, RowsOK
  <2> QED
    BY <2>1 DEF WInv, RowsOK
<1> QED
  BY <1>1, <1>2, <1>3, Frame

\* A task that goes on to pc with its result replaced, and with everything else.
Moved(t, x) ==
    /\ x \in TaskRecord /\ task' = [task EXCEPT ![t] = x] /\ task'[t] = x
    /\ x.origin = task[t].origin /\ x.home = task[t].home /\ x.at = task[t].at
    /\ x.queue = task[t].queue /\ x.count = task[t].count

LEMMA GoMoves ==
    ASSUME WInv, NEW t \in Tasks, NEW pc \in PCs, Go(t, pc)
    PROVE  \E x : Moved(t, x) /\ x.pc = pc /\ x.result = task[t].result
<1> DEFINE x == [task[t] EXCEPT !.pc = pc]
<1>1. task[t] \in TaskRecord
  BY DEF WInv
<1>2. task' = [task EXCEPT ![t] = x]
  BY DEF Go
<1>3. x \in TaskRecord
  BY <1>1 DEF TaskRecord
<1>4. task'[t] = x
  BY <1>2 DEF WInv
<1> QED
  BY <1>1, <1>2, <1>3, <1>4 DEF Moved, TaskRecord

GoWith(t, pc, result) == task' = [task EXCEPT ![t].pc = pc, ![t].result = result]

LEMMA ResultMoves ==
    ASSUME WInv, NEW t \in Tasks, NEW pc \in PCs, NEW result \in Results,
           GoWith(t, pc, result)
    PROVE  \E x : Moved(t, x) /\ x.pc = pc /\ x.result = result
<1> DEFINE x == [task[t] EXCEPT !.pc = pc, !.result = result]
<1>1. task[t] \in TaskRecord
  BY DEF WInv
<1>2. task' = [task EXCEPT ![t] = x]
  BY DEF GoWith
<1>3. x \in TaskRecord
  BY <1>1 DEF TaskRecord
<1>4. task'[t] = x
  BY <1>2 DEF WInv
<1> QED
  BY <1>1, <1>2, <1>3, <1>4 DEF Moved, TaskRecord

-----------------------------------------------------------------------------
(* The graph *)

\* The targets of a node that has come out by label are asked for.
LEMMA TargetsAsked ==
    ASSUME NEW n \in Nodes, NEW label \in Labels,
           \/ Kind[n] \in {"TRIGGER", "ACTION"} /\ label = "plain" /\ step'[n] = "SUCCEEDED"
           \/ Kind[n] = "AI" /\ label = "plain" /\ persisted'[n]
           \/ Kind[n] \in {"CONDITION", "APPROVAL"} /\ label \in decisions'[n]
    PROVE  \A i \in 1 .. Len(Follow(n, label)) : Asked(Follow(n, label)[i])'
<1> DEFINE targets == Follow(n, label)
<1>1. targets \in Seq(Nodes)
  BY FollowTyped
<1>2. ASSUME NEW m \in Range(targets)
      PROVE  LeadsTo(n, m)'
  BY <1>2 DEF LeadsTo
<1> HIDE DEF targets
<1>3. \A i \in 1 .. Len(targets) : Asked(targets[i])'
  BY <1>1, <1>2, InRange DEF Asked
<1> QED
  BY <1>3 DEF targets

\* A queue of two parts holds what the parts hold.
LEMMA JoinedAsked ==
    ASSUME NEW p \in Seq(Nodes), NEW q \in Seq(Nodes),
           \A i \in 1 .. Len(p) : Asked(p[i])', \A i \in 1 .. Len(q) : Asked(q[i])'
    PROVE  \A i \in 1 .. Len(p \o q) : Asked((p \o q)[i])'
<1>1. SUFFICES ASSUME NEW i \in 1 .. Len(p \o q)
               PROVE  Asked((p \o q)[i])'
  OBVIOUS
<1>2. Len(p) \in Nat /\ Len(q) \in Nat /\ Len(p \o q) = Len(p) + Len(q)
  OBVIOUS
<1>3. CASE i <= Len(p)
  <2>1. i \in 1 .. Len(p) /\ (p \o q)[i] = p[i]
    BY <1>2, <1>3
  <2> QED
    BY <2>1
<1>4. CASE i > Len(p)
  <2>1. i - Len(p) \in 1 .. Len(q) /\ (p \o q)[i] = q[i - Len(p)]
    BY <1>2, <1>4
  <2> QED
    BY <2>1
<1> QED
  BY <1>2, <1>3, <1>4

LEMMA SucceedInv ==
    ASSUME WInv, NEW t \in Tasks, NEW label \in Labels, Succeed(t, label),
           UNCHANGED <<answers, effects, persisted, faults>>,
           task[t].pc \in OwnPC,
           decisions' \in [Nodes -> SUBSET Labels],
           \A m \in Nodes : decisions[m] \subseteq decisions'[m],
           \/ Kind[task[t].at] \in {"TRIGGER", "ACTION"} /\ label = "plain"
           \/ Kind[task[t].at] = "CONDITION" /\ label \in decisions'[task[t].at]
    PROVE  WInv'
<1>1. task[t] \in TaskRecord /\ TaskOK(t)
  BY DEF WInv
<1>2. PICK n \in Nodes : n = task[t].at
  BY <1>1 DEF TaskRecord
<1>3. PICK queue \in Seq(Nodes) : queue = task[t].queue
  BY <1>1 DEF TaskRecord
<1>4. PICK targets \in Seq(Nodes) : targets = Follow(n, label)
  BY FollowTyped
<1>5. step[n] # "none" /\ Asked(n)
  BY <1>1, <1>2 DEF TaskOK, WInv, RowsOK
<1>6. step' = [step EXCEPT ![n] = "SUCCEEDED"] /\ step'[n] = "SUCCEEDED"
  BY <1>2 DEF Succeed, WInv, RowsOK, WorkflowTypeOK
<1>7. Forward
  BY <1>6, AnswersKept DEF Forward, WInv, RowsOK, WorkflowTypeOK
<1>8. \A i \in 1 .. Len(targets) : Asked(targets[i])'
  <2>1. \/ Kind[n] \in {"TRIGGER", "ACTION"} /\ label = "plain" /\ step'[n] = "SUCCEEDED"
        \/ Kind[n] \in {"CONDITION", "APPROVAL"} /\ label \in decisions'[n]
    BY <1>2, <1>6
  <2>2. \A i \in 1 .. Len(Follow(n, label)) : Asked(Follow(n, label)[i])'
    BY <2>1, TargetsAsked
  <2> QED
    BY <1>4, <2>2
<1>9. \A i \in 1 .. Len(queue) : Asked(queue[i])'
  BY <1>1, <1>3, <1>7, AskedStays DEF TaskOK
<1>10. \A i \in 1 .. Len(queue \o targets) : Asked((queue \o targets)[i])'
  BY <1>8, <1>9, JoinedAsked
<1>11. \E x \in TaskRecord :
          /\ task' = [task EXCEPT ![t] = x] /\ x.pc = "walk" /\ x.queue = queue \o targets
          /\ x.origin = task[t].origin /\ x.home = task[t].home
  <2> DEFINE x == [task[t] EXCEPT !.pc = "walk", !.queue = @ \o targets]
  <2>1. queue \o targets \in Seq(Nodes)
    OBVIOUS
  <2>2. x = [task[t] EXCEPT !.pc = "walk", !.queue = queue \o targets]
    BY <1>1, <1>3 DEF TaskRecord
  <2>3. x \in TaskRecord /\ x.pc = "walk" /\ x.queue = queue \o targets
        /\ x.origin = task[t].origin /\ x.home = task[t].home
    BY <1>1, <2>1, <2>2 DEF TaskRecord, PCs, OtherPC
  <2>4. task' = [task EXCEPT ![t] = x]
    BY <1>2, <1>4 DEF Succeed
  <2> QED
    BY <2>3, <2>4
<1>12. PICK x \in TaskRecord :
          /\ task' = [task EXCEPT ![t] = x] /\ x.pc = "walk" /\ x.queue = queue \o targets
          /\ x.origin = task[t].origin /\ x.home = task[t].home
  BY <1>11
<1>13. TaskOK(t)'
  <2>1. task'[t] = x
    BY <1>12 DEF WInv
  <2>2. step'[task[t].home] # "none" \/ task[t].origin # "settle"
    BY <1>1, <1>7 DEF TaskOK, TaskRecord, Forward
  <2> QED
    BY <1>1, <1>10, <1>12, <2>1, <2>2 DEF TaskOK, OwnPC, ApprovalPC, StoredPC, JobPC, FailPC
<1>14. \A u \in Tasks \ {t} : task[u].pc \in OwnPC => task[u].at # n
  BY <1>2 DEF WInv, OneOwner
<1> QED
  BY <1>5, <1>6, <1>7, <1>12, <1>13, <1>14, StepFrame DEF Succeed, StepStatus, OwnPC

\* Visiting, carrying out and finishing a node.
LEMMA NodeSteps ==
    ASSUME WInv, NEW t \in Tasks,
           Visit(t) \/ PassNode(t) \/ Act(t) \/ RecordAction(t) \/ Catch(t) \/ FailNode(t)
    PROVE  WInv'
<1> USE DEF At
<1>1. /\ event \in {"none", "QUEUED", "DISPATCHED", "DEAD_LETTER"} /\ attempts \in Nat
      /\ ingests \in 0 .. MaxIngests /\ run \in RunStatus
      /\ step \in [Nodes -> StepStatus] /\ decisions \in [Nodes -> SUBSET Labels]
      /\ effects \in [Nodes -> Nat]
  BY DEF WInv, RowsOK, WorkflowTypeOK
<1>2. task[t] \in TaskRecord /\ TaskOK(t)
  BY DEF WInv
<1>3. PICK n \in Nodes : n = task[t].at
  BY <1>2 DEF TaskRecord
<1>4. CASE Visit(t)
  <2>1. task[t].queue \in Seq(Nodes) /\ task[t].queue # <<>>
    BY <1>2, <1>4 DEF TaskRecord, Visit
  <2>2. PICK m \in Nodes : m = Head(task[t].queue)
    BY <2>1
  <2>3. PICK rest \in Seq(Nodes) : rest = Tail(task[t].queue)
    <3>1. \A q \in Seq(Nodes) : q # <<>> => Tail(q) \in Seq(Nodes)
      OBVIOUS
    <3> QED
      BY <2>1, <3>1
  <2>4. Asked(m) /\ \A i \in 1 .. Len(rest) : Asked(rest[i])
    <3>1. \A i \in 1 .. Len(task[t].queue) : Asked(task[t].queue[i])
      BY <1>2 DEF TaskOK
    <3>2. m = task[t].queue[1] /\ 1 \in 1 .. Len(task[t].queue)
      BY <2>1, <2>2
    <3>3. \A i \in 1 .. Len(rest) : rest[i] = task[t].queue[i + 1]
                                    /\ i + 1 \in 1 .. Len(task[t].queue)
      BY <2>1, <2>3
    <3> QED
      BY <3>1, <3>2, <3>3
  <2>5. UNCHANGED <<event, attempts, ingests, run, approval, job, responseId, world>>
    BY <1>4 DEF Visit
  <2>6. CASE task' = [task EXCEPT ![t].queue = rest] /\ UNCHANGED step
    <3> DEFINE x == [task[t] EXCEPT !.queue = rest]
    <3>1. x \in TaskRecord /\ x.pc = "walk" /\ x.queue = rest
          /\ x.origin = task[t].origin /\ x.home = task[t].home
      BY <1>2, <1>4 DEF TaskRecord, Visit
    <3>2. task' = [task EXCEPT ![t] = x]
      BY <2>6
    <3> HIDE DEF x
    <3>3. task'[t] = x
      BY <3>2 DEF WInv
    <3>4. \A i \in 1 .. Len(rest) : Asked(rest[i])'
      BY <2>4, <2>5, <2>6 DEF Asked, LeadsTo, world
    <3>5. TaskOK(t)'
      BY <1>2, <2>6, <3>1, <3>3, <3>4 DEF TaskOK, OwnPC, ApprovalPC, StoredPC, JobPC, FailPC
    <3> QED
      BY <1>1, <2>5, <2>6, <3>1, <3>2, <3>5, ControlFrame DEF OwnPC
  <2>7. CASE Throw(t) /\ UNCHANGED step
    <3>1. PICK x \in TaskRecord :
             task' = [task EXCEPT ![t] = x] /\ x.pc \notin OwnPC /\ TaskOK(t)'
      BY <2>5, <2>7, ThrowOK DEF world
    <3> QED
      BY <1>1, <2>5, <2>7, <3>1, ControlFrame
  <2>8. CASE /\ step[m] = "none" /\ step' = [step EXCEPT ![m] = "RUNNING"]
             /\ task' = [task EXCEPT ![t].pc = "node", ![t].at = m,
                                     ![t].queue = rest, ![t].seen = @ \cup {m}]
    <3>1. \E x \in TaskRecord :
             /\ task' = [task EXCEPT ![t] = x] /\ x.pc = "node" /\ x.at = m
             /\ x.queue = rest /\ x.origin = task[t].origin /\ x.home = task[t].home
      <4> DEFINE seen == task[t].seen \cup {m}
                 x == [task[t] EXCEPT !.pc = "node", !.at = m, !.queue = rest, !.seen = seen]
      <4>1. seen \in SUBSET Nodes
        BY <1>2 DEF TaskRecord
      <4>2. task' = [task EXCEPT ![t] = x]
        BY <2>8
      <4> HIDE DEF seen
      <4>3. x \in TaskRecord /\ x.pc = "node" /\ x.at = m /\ x.queue = rest
            /\ x.origin = task[t].origin /\ x.home = task[t].home
        BY <1>2, <4>1 DEF TaskRecord, PCs, OwnPC
      <4> QED
        BY <4>2, <4>3
    <3>2. PICK x \in TaskRecord :
             /\ task' = [task EXCEPT ![t] = x] /\ x.pc = "node" /\ x.at = m
             /\ x.queue = rest /\ x.origin = task[t].origin /\ x.home = task[t].home
      BY <3>1
    <3>3. Forward
      BY <1>1, <2>5, <2>8, AnswersKept DEF Forward, world
    <3>4. \A i \in 1 .. Len(rest) : Asked(rest[i])'
      BY <2>4, <3>3, AskedStays
    <3>5. task'[t] = x /\ step'[m] = "RUNNING" /\ effects'[m] = 0
      BY <1>1, <2>5, <2>8, <3>2 DEF WInv, RowsOK, world
    <3>6. task[t].origin = "settle" => step'[task[t].home] # "none"
      BY <1>2, <3>3 DEF TaskOK, TaskRecord, Forward
    <3>7. TaskOK(t)'
      BY <1>2, <3>2, <3>4, <3>5, <3>6 DEF TaskOK, OwnPC, ApprovalPC, StoredPC, JobPC, FailPC
    <3>8. \A u \in Tasks \ {t} : task[u].pc \in OwnPC => task[u].at # m
      BY <2>8 DEF WInv, TaskOK
    <3> QED
      BY <1>1, <2>4, <2>5, <2>8, <3>2, <3>3, <3>7, <3>8, StepFrame DEF StepStatus, world
  <2> QED
    BY <1>4, <2>2, <2>3, <2>6, <2>7, <2>8 DEF Visit
<1>5. CASE PassNode(t)
  <2>1. task[t].pc \in OwnPC /\ UNCHANGED <<answers, effects, persisted, faults>>
    BY <1>5 DEF PassNode, OwnPC
  <2>2. CASE Kind[n] = "TRIGGER"
    BY <1>1, <1>3, <1>5, <2>1, <2>2, SucceedInv DEF PassNode, Labels
  <2>3. CASE Kind[n] = "CONDITION"
    <3>1. PICK l \in {"true", "false"} :
             Succeed(t, l) /\ decisions' = [decisions EXCEPT ![n] = @ \cup {l}]
      BY <1>3, <1>5, <2>3 DEF PassNode
    <3>2. l \in Labels
      BY DEF Labels
    <3>3. decisions' \in [Nodes -> SUBSET Labels] /\ l \in decisions'[n]
          /\ \A m \in Nodes : decisions[m] \subseteq decisions'[m]
      BY <1>1, <3>1, <3>2
    <3> QED
      BY <1>3, <2>1, <2>3, <3>1, <3>2, <3>3, SucceedInv
  <2> QED
    BY <1>3, <1>5, <2>2, <2>3 DEF PassNode
<1>6. CASE RecordAction(t)
  BY <1>1, <1>2, <1>6, SucceedInv DEF RecordAction, TaskOK, OwnPC, Labels, world
<1>7. CASE FailNode(t)
  <2>1. PICK x : Moved(t, x) /\ x.pc = "finalize" /\ x.result = "FAILED"
    <3>1. "finalize" \in PCs /\ "FAILED" \in Results
      BY DEF PCs, OtherPC, Results, RunStatus
    <3>2. GoWith(t, "finalize", "FAILED")
      BY <1>7 DEF FailNode, GoWith
    <3> QED
      BY <3>1, <3>2, ResultMoves
  <2>2. step[n] # "none" /\ Asked(n) /\ (Kind[n] \in {"TRIGGER", "ACTION"} => step[n] = "RUNNING")
    BY <1>2, <1>3, <1>7 DEF FailNode, TaskOK, OwnPC, WInv, RowsOK
  <2>3. step' = [step EXCEPT ![n] = "FAILED"]
    BY <1>3, <1>7 DEF FailNode
  <2>4. Forward
    BY <1>1, <1>7, <2>2, <2>3, AnswersKept DEF FailNode, Forward, world
  <2>5. \A m : Asked(m) => Asked(m)'
    BY <2>4, AskedStays
  <2>6. task[t].origin = "settle" => step'[task[t].home] # "none"
    BY <1>2, <2>4 DEF TaskOK, TaskRecord, Forward
  <2>7. TaskOK(t)'
    BY <1>2, <2>1, <2>5, <2>6
       DEF TaskOK, Moved, OwnPC, ApprovalPC, StoredPC, JobPC, FailPC, RunStatus
  <2>8. \A u \in Tasks \ {t} : task[u].pc \in OwnPC => task[u].at # n
    BY <1>3, <1>7 DEF FailNode, WInv, OneOwner, OwnPC
  <2> QED
    BY <1>1, <1>7, <2>1, <2>2, <2>3, <2>4, <2>7, <2>8, StepFrame
       DEF FailNode, Moved, StepStatus, OwnPC, world
<1>8. CASE Act(t)
  <2>1. PICK pc \in {"record", "failNode"} : Go(t, pc)
    BY <1>8 DEF Act
  <2>2. PICK x : Moved(t, x) /\ x.pc = pc
    BY <2>1, GoMoves DEF PCs, OwnPC
  <2>3. effects' = [effects EXCEPT ![n] = @ + 1] /\ effects[n] = 0 /\ Kind[n] = "ACTION"
    BY <1>2, <1>3, <1>8 DEF Act, TaskOK
  <2>4. UNCHANGED <<rows, answers, persisted, decisions, faults>>
    BY <1>8 DEF Act
  <2>5. Forward
    BY <2>4, AnswersKept DEF Forward, rows
  <2>6. \A m : Asked(m)' <=> Asked(m)
    BY <2>4 DEF Asked, LeadsTo, rows
  <2>7. TaskOK(t)'
    BY <1>2, <1>3, <1>8, <2>2, <2>3, <2>4, <2>6
       DEF Act, TaskOK, Moved, OwnPC, ApprovalPC, StoredPC, JobPC, FailPC, rows
  <2>8. task' \in [Tasks -> TaskRecord] /\ Entered(t)
    BY <1>8, <2>2 DEF Act, WInv, Moved, Entered, OwnPC
  <2>9. Kept(t)
    <3>1. \A u \in Tasks \ {t} : task'[u] = task[u] /\ task[u].at \in Nodes
      BY <2>2 DEF Moved, WInv, TaskRecord
    <3>2. \A u \in Tasks \ {t} : task[u].pc \in OwnPC => task[u].at # n
      BY <1>3, <1>8 DEF Act, WInv, OneOwner, OwnPC
    <3> QED
      BY <1>1, <2>3, <2>4, <3>1, <3>2 DEF Kept, rows
  <2>10. RowsOK'
    <3>1. effects' \in [Nodes -> Nat] /\ \A m \in Nodes : effects'[m] \in {0, 1}
      BY <1>1, <2>3 DEF WInv, RowsOK
    <3>2. WorkflowTypeOK'
      BY <2>4, <3>1 DEF WInv, RowsOK, WorkflowTypeOK, rows
    <3>3. step[n] # "none"
      BY <1>2, <1>3, <1>8 DEF Act, TaskOK, OwnPC
    <3> QED
      BY <1>1, <2>3, <2>4, <2>6, <3>1, <3>2, <3>3 DEF WInv, RowsOK, rows
  <2> QED
    BY <2>5, <2>7, <2>8, <2>9, <2>10, Frame
<1>9. CASE Catch(t)
  <2>1. PICK x : Moved(t, x) /\ x.pc = "failNode"
    BY <1>9, GoMoves DEF Catch, PCs, OwnPC
  <2>2. \A m : Asked(m) => Asked(m)'
    BY <1>9 DEF Catch, Asked, LeadsTo, rows, world
  <2>3. task[t].pc \in {"node", "record", "pause", "pauseRun"} /\ UNCHANGED <<rows, world>>
    BY <1>9 DEF Catch
  <2>4. TaskOK(t)'
    BY <1>2, <2>1, <2>2, <2>3
       DEF TaskOK, Moved, OwnPC, ApprovalPC, StoredPC, JobPC, FailPC, rows, world
  <2> QED
    BY <1>1, <2>1, <2>3, <2>4, ControlFrame DEF Moved, OwnPC, rows
<1> QED
  BY <1>4, <1>5, <1>6, <1>7, <1>8, <1>9

\* The walk waits for somebody, or ends.
LEMMA WaitSteps ==
    ASSUME WInv, NEW t \in Tasks,
           QueueJob(t) \/ AskApproval(t) \/ Pause(t) \/ PauseRun(t) \/ WalkEnds(t)
              \/ Finalize(t)
    PROVE  WInv'
<1> USE DEF At
<1>1. WorkflowTypeOK /\ RowsOK
  BY DEF WInv, RowsOK
<1>2. task[t] \in TaskRecord /\ TaskOK(t)
  BY DEF WInv
<1>3. PICK n \in Nodes : n = task[t].at
  BY <1>2 DEF TaskRecord
<1>4. {"pause", "pauseRun", "finalize", "ack"} \subseteq PCs /\ RunStatus \subseteq Results
  BY DEF PCs, OwnPC, OtherPC, Results
<1>5. {"WAITING_EXTERNAL", "WAITING_APPROVAL", "SUCCEEDED"} \subseteq RunStatus
  BY DEF RunStatus
<1>6. CASE QueueJob(t)
  <2>1. PICK x : Moved(t, x) /\ x.pc = "pause" /\ x.result = "WAITING_EXTERNAL"
    <3>1. GoWith(t, "pause", "WAITING_EXTERNAL")
      BY <1>6 DEF QueueJob, GoWith
    <3> QED
      BY <1>4, <1>5, <3>1, ResultMoves
  <2>2. /\ job' = [job EXCEPT ![n] = "QUEUED"] /\ responseId' = [responseId EXCEPT ![n] = 0]
        /\ Kind[n] = "AI" /\ step[n] # "none"
    BY <1>2, <1>3, <1>6 DEF QueueJob, TaskOK, OwnPC
  <2>3. UNCHANGED <<event, attempts, ingests, run, step, approval, world>>
    BY <1>6 DEF QueueJob
  <2>4. Forward
    BY <2>3, AnswersKept DEF Forward, world
  <2>5. \A m : Asked(m) => Asked(m)'
    BY <2>4, AskedStays
  <2>6. TaskOK(t)'
    BY <1>2, <1>3, <2>1, <2>2, <2>3, <2>5
       DEF TaskOK, Moved, OwnPC, ApprovalPC, StoredPC, JobPC, FailPC, Waits
  <2>7. WorkflowTypeOK'
    <3>1. \A m \in Nodes : Len(answers[m]) \in Nat
      BY AnswersKept, <2>3 DEF world
    <3>2. \A m \in Nodes : responseId'[m] \in 0 .. Len(answers[m])
      BY <1>1, <2>2, <3>1 DEF WorkflowTypeOK
    <3> QED
      BY <3>2, <1>1, <2>2, <2>3 DEF WorkflowTypeOK, world
  <2>8. \A m \in Nodes : /\ job'[m] = IF m = n THEN "QUEUED" ELSE job[m]
                         /\ responseId'[m] = IF m = n THEN 0 ELSE responseId[m]
    BY <1>1, <2>2 DEF WorkflowTypeOK
  <2>9. \A m \in Nodes :
           /\ approval'[m] # "none" => Kind[m] = "APPROVAL" /\ step[m] # "none"
           /\ job'[m] # "none" \/ responseId'[m] # 0 => Kind[m] = "AI" /\ step[m] # "none"
           /\ job'[m] = "SUCCEEDED" => persisted'[m]
    BY <1>1, <2>2, <2>3, <2>8 DEF RowsOK, world
  <2>10. /\ x \in TaskRecord /\ task' = [task EXCEPT ![t] = x]
         /\ task[t].pc \in OwnPC /\ x.at = task[t].at
    BY <1>6, <2>1 DEF QueueJob, Moved, OwnPC
  <2> QED
    BY <2>3, <2>4, <2>6, <2>7, <2>9, <2>10, CallFrame DEF world
<1>7. CASE AskApproval(t)
  <2>1. PICK x : Moved(t, x) /\ x.pc = "pause" /\ x.result = "WAITING_APPROVAL"
    <3>1. GoWith(t, "pause", "WAITING_APPROVAL")
      BY <1>7 DEF AskApproval, GoWith
    <3> QED
      BY <1>4, <1>5, <3>1, ResultMoves
  <2>2. approval' = [approval EXCEPT ![n] = "PENDING"] /\ Kind[n] = "APPROVAL"
        /\ step[n] # "none"
    BY <1>2, <1>3, <1>7 DEF AskApproval, TaskOK, OwnPC
  <2>3. UNCHANGED <<event, attempts, ingests, run, step, job, responseId, world>>
    BY <1>7 DEF AskApproval
  <2>4. Forward
    BY <2>3, AnswersKept DEF Forward, world
  <2>5. \A m : Asked(m) => Asked(m)'
    BY <2>4, AskedStays
  <2>6. TaskOK(t)'
    BY <1>2, <1>3, <2>1, <2>2, <2>3, <2>5
       DEF TaskOK, Moved, OwnPC, ApprovalPC, StoredPC, JobPC, FailPC, Waits
  <2>7. WorkflowTypeOK'
    BY <1>1, <2>2, <2>3 DEF WorkflowTypeOK, world
  <2>8. \A m \in Nodes : approval'[m] = IF m = n THEN "PENDING" ELSE approval[m]
    BY <1>1, <2>2 DEF WorkflowTypeOK
  <2>9. \A m \in Nodes :
           /\ approval'[m] # "none" => Kind[m] = "APPROVAL" /\ step[m] # "none"
           /\ job'[m] # "none" \/ responseId'[m] # 0 => Kind[m] = "AI" /\ step[m] # "none"
           /\ job'[m] = "SUCCEEDED" => persisted'[m]
    BY <1>1, <2>2, <2>3, <2>8 DEF RowsOK, world
  <2>10. /\ x \in TaskRecord /\ task' = [task EXCEPT ![t] = x]
         /\ task[t].pc \in OwnPC /\ x.at = task[t].at
    BY <1>7, <2>1 DEF AskApproval, Moved, OwnPC
  <2> QED
    BY <2>3, <2>4, <2>6, <2>7, <2>9, <2>10, CallFrame DEF world
<1>8. CASE Pause(t)
  <2>1. PICK x : Moved(t, x) /\ x.pc = "pauseRun" /\ x.result = task[t].result
    BY <1>4, <1>8, GoMoves DEF Pause
  <2>2. PICK status \in Waits : status = task[t].result
    BY <1>2, <1>8 DEF Pause, TaskOK
  <2>3. step' = [step EXCEPT ![n] = status] /\ Kind[n] \in {"AI", "APPROVAL"} /\ step[n] # "none"
    BY <1>2, <1>3, <1>8, <2>2 DEF Pause, TaskOK, OwnPC, Waits
  <2>4. UNCHANGED <<event, attempts, ingests, run, approval, job, responseId, world>>
    BY <1>8 DEF Pause
  <2>5. Forward
    BY <1>1, <2>3, <2>4, AnswersKept DEF Forward, WorkflowTypeOK, Waits, world
  <2>6. \A m : Asked(m) => Asked(m)'
    BY <2>5, AskedStays
  <2>7. task[t].origin = "settle" => step'[task[t].home] # "none"
    BY <1>2, <2>5 DEF TaskOK, TaskRecord, Forward
  <2>8. TaskOK(t)'
    BY <1>2, <1>3, <1>8, <2>1, <2>2, <2>3, <2>5, <2>6, <2>7
       DEF Pause, TaskOK, Moved, OwnPC, ApprovalPC, StoredPC, JobPC, FailPC, Forward
  <2>9. Asked(n) /\ status \in StepStatus \ {"none"}
    BY <1>1, <2>3 DEF RowsOK, StepStatus, Waits
  <2>10. /\ x \in TaskRecord /\ task' = [task EXCEPT ![t] = x]
         /\ task[t].pc \in OwnPC /\ x.at = task[t].at
         /\ Kind[n] \notin {"TRIGGER", "ACTION"}
    BY <1>8, <2>1, <2>3 DEF Pause, Moved, OwnPC
  <2>11. decisions' \in [Nodes -> SUBSET Labels]
    BY <1>1, <2>4 DEF WorkflowTypeOK, world
  <2> QED
    BY <2>3, <2>4, <2>5, <2>8, <2>9, <2>10, <2>11, StepFrame DEF world
<1>9. ASSUME NEW x, Moved(t, x), x.pc \in {"finalize", "ack"},
             run' \in RunStatus,
             x.pc = "finalize" =>
                /\ x.result \in RunStatus
                /\ x.result = "WAITING_EXTERNAL" => Kind[n] = "AI"
                /\ x.result = "WAITING_APPROVAL" => Kind[n] = "APPROVAL",
             UNCHANGED <<event, attempts, ingests, step, approval, job, responseId, world>>
      PROVE  WInv'
  <2>1. \A m : Asked(m) => Asked(m)'
    BY <1>9 DEF Asked, LeadsTo, world
  <2>2. TaskOK(t)'
    BY <1>2, <1>3, <1>9, <2>1
       DEF TaskOK, Moved, OwnPC, ApprovalPC, StoredPC, JobPC, FailPC
  <2> QED
    BY <1>1, <1>9, <2>2, ControlFrame DEF Moved, OwnPC, WorkflowTypeOK
<1>10. CASE PauseRun(t)
  <2>1. PICK x : Moved(t, x) /\ x.pc = "finalize" /\ x.result = task[t].result
    BY <1>4, <1>10, GoMoves DEF PauseRun
  <2>2. /\ task[t].result \in RunStatus
        /\ task[t].result = "WAITING_EXTERNAL" => Kind[n] = "AI"
        /\ task[t].result = "WAITING_APPROVAL" => Kind[n] = "APPROVAL"
    BY <1>2, <1>3, <1>5, <1>10 DEF PauseRun, TaskOK, Waits
  <2> QED
    BY <1>9, <1>10, <2>1, <2>2 DEF PauseRun
<1>11. CASE WalkEnds(t)
  <2>1. PICK x : Moved(t, x) /\ x.pc = "finalize" /\ x.result = "SUCCEEDED"
    <3>1. GoWith(t, "finalize", "SUCCEEDED")
      BY <1>11 DEF WalkEnds, GoWith
    <3> QED
      BY <1>4, <1>5, <3>1, ResultMoves
  <2> QED
    BY <1>1, <1>5, <1>9, <1>11, <2>1 DEF WalkEnds, rows, WorkflowTypeOK
<1>12. CASE Finalize(t)
  <2>1. task[t].result \in RunStatus
    BY <1>2, <1>12 DEF Finalize, TaskOK
  <2>2. CASE task[t].origin = "trigger"
    <3>1. PICK x : Moved(t, x) /\ x.pc = "ack"
      BY <1>4, <1>12, <2>2, GoMoves DEF Finalize
    <3> QED
      BY <1>9, <1>12, <2>1, <3>1 DEF Finalize
  <2>3. CASE task[t].origin # "trigger"
    <3>1. PICK x \in TaskRecord :
             task' = [task EXCEPT ![t] = x] /\ x.pc \notin OwnPC /\ TaskOK(t)'
      BY <1>12, <2>3, DoneOK DEF Finalize
    <3> QED
      BY <1>1, <1>12, <2>1, <3>1, ControlFrame DEF Finalize, WorkflowTypeOK
  <2> QED
    BY <2>2, <2>3
<1> QED
  BY <1>6, <1>7, <1>8, <1>10, <1>11, <1>12

\* The run goes on with the targets of a node that has come out.
LEMMA GoOnInv ==
    ASSUME WInv, NEW t \in Tasks, NEW n \in Nodes, NEW label \in Labels,
           task' = [task EXCEPT ![t].pc = "walk", ![t].queue = Follow(n, label)],
           \/ Kind[n] = "AI" /\ label = "plain" /\ persisted[n]
           \/ Kind[n] = "APPROVAL" /\ label \in decisions[n],
           run' \in RunStatus,
           UNCHANGED <<event, attempts, ingests, step, approval, job, responseId, world>>
    PROVE  WInv'
<1>1. task[t] \in TaskRecord /\ TaskOK(t)
  BY DEF WInv
<1>2. PICK targets \in Seq(Nodes) : targets = Follow(n, label)
  BY FollowTyped
<1>3. \A i \in 1 .. Len(targets) : Asked(targets[i])'
  <2>1. \/ Kind[n] = "AI" /\ label = "plain" /\ persisted'[n]
        \/ Kind[n] = "APPROVAL" /\ label \in decisions'[n]
    BY DEF world
  <2>2. \A i \in 1 .. Len(Follow(n, label)) : Asked(Follow(n, label)[i])'
    BY <2>1, TargetsAsked
  <2> QED
    BY <1>2, <2>2
<1>4. \E x \in TaskRecord :
         /\ task' = [task EXCEPT ![t] = x] /\ x.pc = "walk" /\ x.queue = targets
         /\ x.origin = task[t].origin /\ x.home = task[t].home
  <2> DEFINE x == [task[t] EXCEPT !.pc = "walk", !.queue = targets]
  <2>1. x \in TaskRecord /\ x.pc = "walk" /\ x.queue = targets
        /\ x.origin = task[t].origin /\ x.home = task[t].home
    BY <1>1 DEF TaskRecord, PCs, OtherPC
  <2>2. task' = [task EXCEPT ![t] = x]
    BY <1>2
  <2> QED
    BY <2>1, <2>2
<1>5. PICK x \in TaskRecord :
         /\ task' = [task EXCEPT ![t] = x] /\ x.pc = "walk" /\ x.queue = targets
         /\ x.origin = task[t].origin /\ x.home = task[t].home
  BY <1>4
<1>6. TaskOK(t)'
  <2>1. task'[t] = x
    BY <1>5 DEF WInv
  <2> QED
    BY <1>1, <1>3, <1>5, <2>1 DEF TaskOK, OwnPC, ApprovalPC, StoredPC, JobPC, FailPC
<1> QED
  BY <1>5, <1>6, ControlFrame DEF OwnPC, WInv, RowsOK, WorkflowTypeOK

-----------------------------------------------------------------------------
(* Approvals *)

LEMMA ApprovalSteps ==
    ASSUME WInv, NEW t \in Tasks, ApprovalStep(t)
    PROVE  WInv'
<1> USE DEF At
<1>1. WorkflowTypeOK /\ RowsOK
  BY DEF WInv, RowsOK
<1>2. task[t] \in TaskRecord /\ TaskOK(t)
  BY DEF WInv
<1>3. PICK n \in Nodes : n = task[t].at
  BY <1>2 DEF TaskRecord
<1>4. {"decideStep", "proceed"} \subseteq PCs
  BY DEF PCs, ApprovalPC
<1>5. Decide(t) \/ DecideStep(t) \/ Expire(t) \/ Proceed(t)
  BY DEF ApprovalStep
<1>6. PICK d \in {"approved", "rejected", "timeout"} : d = task[t].result
  BY <1>2, <1>5 DEF Decide, DecideStep, Expire, Proceed, TaskOK, ApprovalPC
<1>7. Kind[n] = "APPROVAL" /\ step[n] # "none"
  BY <1>2, <1>3, <1>5 DEF Decide, DecideStep, Expire, Proceed, TaskOK, ApprovalPC
\* The outcome is written and noted down.
<1>8. ASSUME NEW status \in {"APPROVED", "REJECTED", "TIMED_OUT"}, NEW pc \in {"decideStep", "proceed"},
             NEW o \in {"approved", "rejected", "timeout"}, Go(t, pc),
             task[t].result = o,
             approval' = [approval EXCEPT ![n] = status],
             decisions' = [decisions EXCEPT ![n] = @ \cup {o}],
             UNCHANGED <<event, attempts, ingests, run, step, job, responseId,
                         answers, effects, persisted, faults>>
      PROVE  WInv'
  <2>1. PICK x : Moved(t, x) /\ x.pc = pc /\ x.result = task[t].result
    BY <1>4, <1>8, GoMoves
  <2>2. /\ decisions' \in [Nodes -> SUBSET Labels]
        /\ o \in decisions'[n]
        /\ \A m \in Nodes : decisions[m] \subseteq decisions'[m]
    BY <1>1, <1>8 DEF WorkflowTypeOK, Labels
  <2>3. Forward
    BY <1>8, <2>2, AnswersKept DEF Forward
  <2>4. \A m : Asked(m) => Asked(m)'
    BY <2>3, AskedStays
  <2>5. TaskOK(t)'
    BY <1>2, <1>3, <1>7, <1>8, <2>1, <2>2, <2>4
       DEF TaskOK, Moved, OwnPC, ApprovalPC, StoredPC, JobPC, FailPC
  <2>6. WorkflowTypeOK'
    BY <1>1, <1>8, <2>2 DEF WorkflowTypeOK
  <2>7. \A m \in Nodes : approval'[m] = IF m = n THEN status ELSE approval[m]
    BY <1>1, <1>8 DEF WorkflowTypeOK
  <2>8. \A m \in Nodes :
           /\ approval'[m] # "none" => Kind[m] = "APPROVAL" /\ step[m] # "none"
           /\ job'[m] # "none" \/ responseId'[m] # 0 => Kind[m] = "AI" /\ step[m] # "none"
           /\ job'[m] = "SUCCEEDED" => persisted'[m]
    BY <1>1, <1>7, <1>8, <2>7 DEF RowsOK
  <2>9. x \in TaskRecord /\ task' = [task EXCEPT ![t] = x] /\ x.pc \notin OwnPC
    BY <2>1 DEF Moved, OwnPC
  <2> QED
    BY <1>8, <2>3, <2>5, <2>6, <2>8, <2>9, CallFrame
<1>9. CASE Decide(t)
  <2>1. PICK status \in {"APPROVED", "REJECTED", "TIMED_OUT"} :
           status = IF task[t].result = "approved" THEN "APPROVED" ELSE "REJECTED"
    OBVIOUS
  <2>2. approval' = [approval EXCEPT ![n] = status]
        /\ decisions' = [decisions EXCEPT ![n] = @ \cup {d}]
    BY <1>3, <1>6, <1>9, <2>1 DEF Decide
  <2> QED
    BY <1>6, <1>8, <1>9, <2>2 DEF Decide
<1>10. CASE Expire(t)
  <2>1. task[t].result = "timeout"
    BY <1>2, <1>10 DEF Expire, TaskOK
  <2>2. approval' = [approval EXCEPT ![n] = "TIMED_OUT"]
        /\ decisions' = [decisions EXCEPT ![n] = @ \cup {"timeout"}]
    BY <1>3, <1>10 DEF Expire
  <2> QED
    BY <1>8, <1>10, <2>1, <2>2 DEF Expire
<1>11. CASE DecideStep(t)
  <2>1. PICK x : Moved(t, x) /\ x.pc = "proceed" /\ x.result = task[t].result
    BY <1>4, <1>11, GoMoves DEF DecideStep
  <2>2. PICK status \in {"SUCCEEDED", "FAILED"} :
           status = IF task[t].result = "approved" THEN "SUCCEEDED" ELSE "FAILED"
    OBVIOUS
  <2>3. step' = [step EXCEPT ![n] = status]
    BY <1>3, <1>11, <2>2 DEF DecideStep
  <2>4. UNCHANGED <<event, attempts, ingests, run, approval, job, responseId, world>>
    BY <1>11 DEF DecideStep
  <2>5. Forward
    BY <1>1, <1>7, <2>3, <2>4, AnswersKept DEF Forward, WorkflowTypeOK, world
  <2>6. \A m : Asked(m) => Asked(m)'
    BY <2>5, AskedStays
  <2>7. /\ task[t].origin = "settle" => step'[task[t].home] # "none"
        /\ step'[n] # "none"
    BY <1>2, <1>7, <2>5 DEF TaskOK, TaskRecord, Forward
  <2>8. TaskOK(t)'
    BY <1>2, <1>3, <1>11, <2>1, <2>4, <2>6, <2>7
       DEF DecideStep, TaskOK, Moved, OwnPC, ApprovalPC, StoredPC, JobPC, FailPC, world
  <2>9. Asked(n) /\ status \in StepStatus \ {"none"}
    BY <1>1, <1>7 DEF RowsOK, StepStatus
  <2> QED
    BY <1>1, <1>7, <2>1, <2>3, <2>4, <2>5, <2>8, <2>9, StepFrame
       DEF Moved, OwnPC, WorkflowTypeOK, world
<1>12. CASE Proceed(t)
  <2>1. d \in decisions[n] /\ d \in Labels
    BY <1>2, <1>3, <1>6, <1>12 DEF Proceed, TaskOK, Labels
  <2>2. UNCHANGED <<event, attempts, ingests, step, approval, job, responseId, world>>
    BY <1>12 DEF Proceed
  <2>3. CASE Done(t) /\ run' \in RunStatus
    <3>1. PICK x \in TaskRecord :
             task' = [task EXCEPT ![t] = x] /\ x.pc \notin OwnPC /\ TaskOK(t)'
      BY <2>3, DoneOK
    <3> QED
      BY <1>1, <2>2, <2>3, <3>1, ControlFrame DEF WorkflowTypeOK
  <2>4. CASE /\ run' = "RUNNING"
             /\ task' = [task EXCEPT ![t].pc = "walk", ![t].queue = Follow(n, d)]
    BY <1>7, <2>1, <2>2, <2>4, GoOnInv DEF RunStatus
  <2> QED
    BY <1>3, <1>6, <1>12, <2>3, <2>4 DEF Proceed, RunStatus
<1> QED
  BY <1>5, <1>9, <1>10, <1>11, <1>12

-----------------------------------------------------------------------------
(* AI jobs *)

\* A step that sets the status of a job, and perhaps the response it waits for.
LEMMA JobFrame ==
    ASSUME WInv, NEW t \in Tasks, NEW x \in TaskRecord, task' = [task EXCEPT ![t] = x],
           NEW k \in Nodes, Kind[k] = "AI", step[k] # "none",
           NEW status \in {"QUEUED", "REQUESTED", "RUNNING", "SUCCEEDED", "FAILED", "CANCELED"},
           job' = [job EXCEPT ![k] = status], status = "SUCCEEDED" => persisted[k],
           \/ UNCHANGED responseId
           \/ \E i \in 1 .. Len(answers[k]) : responseId' = [responseId EXCEPT ![k] = i],
           UNCHANGED <<event, attempts, ingests, run, step, approval, world>>,
           x.pc \notin OwnPC, TaskOK(t)'
    PROVE  WInv'
<1>1. WorkflowTypeOK /\ RowsOK
  BY DEF WInv, RowsOK
<1>2. Forward
  BY AnswersKept DEF Forward, world
<1>3. \A m \in Nodes : Len(answers[m]) \in Nat
  BY AnswersKept DEF world
<1>4. /\ responseId' \in [Nodes -> Nat]
      /\ \A m \in Nodes : /\ responseId'[m] \in 0 .. Len(answers[m])
                          /\ responseId'[m] # 0 => m = k \/ responseId[m] # 0
  <2>1. CASE UNCHANGED responseId
    BY <1>1, <2>1 DEF WorkflowTypeOK
  <2>2. ASSUME NEW i \in 1 .. Len(answers[k]), responseId' = [responseId EXCEPT ![k] = i]
        PROVE  <1>4!1 /\ <1>4!2
    BY <1>1, <1>3, <2>2 DEF WorkflowTypeOK
  <2> QED
    BY <2>1, <2>2
<1>5. \A m \in Nodes : job'[m] = IF m = k THEN status ELSE job[m]
  BY <1>1 DEF WorkflowTypeOK
<1>6. WorkflowTypeOK'
  <2>1. job' \in [Nodes -> {"none", "QUEUED", "REQUESTED", "RUNNING", "SUCCEEDED",
                            "FAILED", "CANCELED"}]
    BY <1>1 DEF WorkflowTypeOK
  <2> QED
    BY <1>1, <1>4, <2>1 DEF WorkflowTypeOK, world
<1>7. \A m \in Nodes :
         /\ approval'[m] # "none" => Kind[m] = "APPROVAL" /\ step[m] # "none"
         /\ job'[m] # "none" \/ responseId'[m] # 0 => Kind[m] = "AI" /\ step[m] # "none"
         /\ job'[m] = "SUCCEEDED" => persisted'[m]
  BY <1>1, <1>4, <1>5 DEF RowsOK, world
<1> QED
  BY <1>2, <1>6, <1>7, CallFrame DEF world

\* Asking OpenAI, and hearing from it.
LEMMA AskingSteps ==
    ASSUME WInv, NEW t \in Tasks,
           RequestJob(t) \/ Submit(t) \/ SubmitFails(t) \/ RecordResponse(t)
              \/ Retrieve(t) \/ RetrieveFails(t) \/ StillRunning(t)
    PROVE  WInv'
<1> USE DEF At
<1>1. WorkflowTypeOK /\ RowsOK
  BY DEF WInv, RowsOK
<1>2. task[t] \in TaskRecord /\ TaskOK(t)
  BY DEF WInv
<1>3. PICK n \in Nodes : n = task[t].at
  BY <1>2 DEF TaskRecord
<1>4. {"submit", "respond", "settle"} \subseteq PCs /\ Terminal \cup {"in_progress"} \subseteq Results
  BY DEF PCs, JobPC, Results, Terminal
<1>5. /\ task[t].home = n /\ task[t].origin = "settle"
      /\ Kind[n] = "AI" /\ step[n] # "none"
  BY <1>2, <1>3
     DEF RequestJob, Submit, SubmitFails, RecordResponse, Retrieve, RetrieveFails,
         StillRunning, TaskOK, JobPC
\* The task returns, having written the job.
<1>6. ASSUME NEW status \in {"FAILED", "RUNNING"}, Done(t),
             job' = [job EXCEPT ![n] = status] \/ UNCHANGED job,
             UNCHANGED <<event, attempts, ingests, run, step, approval, responseId, world>>
      PROVE  WInv'
  <2>1. PICK x \in TaskRecord :
           task' = [task EXCEPT ![t] = x] /\ x.pc \notin OwnPC /\ TaskOK(t)'
    BY <1>6, DoneOK
  <2>2. CASE UNCHANGED job
    BY <1>1, <1>6, <2>1, <2>2, ControlFrame DEF WorkflowTypeOK
  <2>3. CASE job' = [job EXCEPT ![n] = status]
    BY <1>5, <1>6, <2>1, <2>3, JobFrame
  <2> QED
    BY <1>6, <2>2, <2>3
<1>7. CASE SubmitFails(t)
  BY <1>3, <1>6, <1>7 DEF SubmitFails
<1>8. CASE RetrieveFails(t)
  BY <1>3, <1>6, <1>8 DEF RetrieveFails
<1>9. CASE StillRunning(t)
  BY <1>3, <1>6, <1>9 DEF StillRunning
<1>10. ASSUME UNCHANGED <<step, world>>
       PROVE  \A m : Asked(m) => Asked(m)'
  BY <1>10 DEF Asked, LeadsTo, world
<1>11. CASE RequestJob(t)
  <2>1. PICK x : Moved(t, x) /\ x.pc = "submit"
    BY <1>4, <1>11, GoMoves DEF RequestJob
  <2>2. TaskOK(t)'
    BY <1>2, <1>5, <1>10, <1>11, <2>1
       DEF RequestJob, TaskOK, Moved, OwnPC, ApprovalPC, StoredPC, JobPC, FailPC
  <2> QED
    BY <1>3, <1>5, <1>11, <2>1, <2>2, JobFrame DEF RequestJob, Moved, OwnPC
<1>12. CASE RecordResponse(t)
  <2>1. PICK x : Moved(t, x) /\ x.pc = "settle"
    BY <1>4, <1>12, GoMoves DEF RecordResponse
  <2>2. TaskOK(t)'
    BY <1>2, <1>5, <1>10, <1>12, <2>1
       DEF RecordResponse, TaskOK, Moved, OwnPC, ApprovalPC, StoredPC, JobPC, FailPC
  <2>3. PICK i \in 1 .. Len(answers[n]) : i = task[t].count
    BY <1>2, <1>3, <1>12 DEF RecordResponse, TaskOK
  <2>4. PICK status \in {"REQUESTED", "RUNNING"} :
           status = IF task[t].result \in Terminal THEN "REQUESTED" ELSE "RUNNING"
    OBVIOUS
  <2>5. job' = [job EXCEPT ![n] = status] /\ responseId' = [responseId EXCEPT ![n] = i]
    BY <1>3, <1>12, <2>3, <2>4 DEF RecordResponse
  <2>6. /\ x \in TaskRecord /\ task' = [task EXCEPT ![t] = x] /\ x.pc \notin OwnPC
        /\ UNCHANGED <<event, attempts, ingests, run, step, approval, world>>
    BY <1>12, <2>1 DEF RecordResponse, Moved, OwnPC
  <2>7. status \in {"QUEUED", "REQUESTED", "RUNNING", "SUCCEEDED", "FAILED", "CANCELED"}
        /\ status # "SUCCEEDED"
    OBVIOUS
  <2> QED
    BY <1>5, <2>2, <2>5, <2>6, <2>7, JobFrame
<1>13. CASE Retrieve(t)
  <2>1. PICK i \in 1 .. Len(answers[n]) : i = task[t].count
    BY <1>2, <1>3, <1>13 DEF Retrieve, TaskOK
  <2>2. answers[n] \in Seq(Terminal \cup {"in_progress"})
    BY <1>1 DEF WorkflowTypeOK
  <2>3. PICK status \in Terminal \cup {"in_progress"} : status = answers[n][i]
    BY <2>1, <2>2
  <2>4. GoWith(t, "settle", status)
    BY <1>3, <1>13, <2>1, <2>3 DEF Retrieve, GoWith
  <2>5. PICK x : Moved(t, x) /\ x.pc = "settle"
    BY <1>4, <2>4, ResultMoves
  <2>6. TaskOK(t)'
    BY <1>2, <1>5, <1>10, <1>13, <2>5
       DEF Retrieve, TaskOK, Moved, OwnPC, ApprovalPC, StoredPC, JobPC, FailPC, rows
  <2> QED
    BY <1>1, <1>13, <2>5, <2>6, ControlFrame DEF Retrieve, Moved, OwnPC, WorkflowTypeOK, rows
<1>14. CASE Submit(t)
  <2>1. PICK status \in {"in_progress", "completed"} :
           /\ answers' = [answers EXCEPT ![n] = Append(@, status)]
           /\ task' = [task EXCEPT ![t].pc = "respond", ![t].result = status,
                                   ![t].count = Len(answers[n]) + 1]
    BY <1>3, <1>14 DEF Submit
  <2>2. UNCHANGED <<rows, effects, persisted, decisions, faults>>
    BY <1>14 DEF Submit
  <2>3. PICK old \in Seq(Terminal \cup {"in_progress"}) : old = answers[n]
    BY <1>1 DEF WorkflowTypeOK
  <2>4. /\ answers'[n] = Append(old, status) /\ Len(answers'[n]) = Len(old) + 1
        /\ Len(old) \in Nat /\ Append(old, status) \in Seq(Terminal \cup {"in_progress"})
    BY <1>1, <2>1, <2>3 DEF WorkflowTypeOK, Terminal
  <2>5. \A m \in Nodes : m # n => answers'[m] = answers[m]
    BY <1>1, <2>1 DEF WorkflowTypeOK
  <2>6. \A m \in Nodes : /\ Len(answers[m]) \in Nat /\ Len(answers'[m]) \in Nat
                         /\ Len(answers[m]) <= Len(answers'[m])
    <3>1. \A m \in Nodes : answers[m] \in Seq(Terminal \cup {"in_progress"})
      BY <1>1 DEF WorkflowTypeOK
    <3>2. \A m \in Nodes : Len(answers[m]) \in Nat
      BY <3>1
    <3> QED
      BY <2>3, <2>4, <2>5, <3>2
  <2>7. Forward
    BY <2>2, <2>6 DEF Forward, rows
  <2>8. \E x \in TaskRecord :
           /\ task' = [task EXCEPT ![t] = x] /\ x.pc = "respond" /\ x.count = Len(old) + 1
           /\ x.queue = task[t].queue /\ x.origin = "settle" /\ x.home = n /\ x.at = n
    <3> DEFINE x == [task[t] EXCEPT !.pc = "respond", !.result = status, !.count = Len(old) + 1]
    <3>1. task' = [task EXCEPT ![t] = x]
      BY <2>1, <2>3
    <3>2. status \in Results /\ Len(old) + 1 \in Nat
      BY <1>4, <2>4 DEF Terminal
    <3>3. x \in TaskRecord /\ x.pc = "respond" /\ x.count = Len(old) + 1
          /\ x.queue = task[t].queue /\ x.origin = "settle" /\ x.home = n /\ x.at = n
      BY <1>2, <1>3, <1>4, <1>5, <3>2 DEF TaskRecord
    <3> QED
      BY <3>1, <3>3
  <2>9. PICK x \in TaskRecord :
           /\ task' = [task EXCEPT ![t] = x] /\ x.pc = "respond" /\ x.count = Len(old) + 1
           /\ x.queue = task[t].queue /\ x.origin = "settle" /\ x.home = n /\ x.at = n
    BY <2>8
  <2>10. TaskOK(t)'
    <3>1. task'[t] = x
      BY <2>9 DEF WInv
    <3>2. \A m : Asked(m) => Asked(m)'
      BY <2>7, AskedStays
    <3> QED
      BY <1>2, <1>5, <2>2, <2>4, <2>9, <3>1, <3>2
         DEF TaskOK, OwnPC, ApprovalPC, StoredPC, JobPC, FailPC, rows
  <2>11. WorkflowTypeOK'
    <3>1. answers' \in [Nodes -> Seq(Terminal \cup {"in_progress"})]
      BY <1>1, <2>1, <2>3, <2>4 DEF WorkflowTypeOK
    <3>2. \A m \in Nodes : responseId[m] \in 0 .. Len(answers'[m])
      BY <1>1, <2>6 DEF WorkflowTypeOK
    <3> QED
      BY <1>1, <2>2, <3>1, <3>2 DEF WorkflowTypeOK, rows
  <2>12. \A m \in Nodes :
           /\ approval'[m] # "none" => Kind[m] = "APPROVAL" /\ step[m] # "none"
           /\ job'[m] # "none" \/ responseId'[m] # 0 => Kind[m] = "AI" /\ step[m] # "none"
           /\ job'[m] = "SUCCEEDED" => persisted'[m]
    BY <1>1, <2>2 DEF RowsOK, rows
  <2> QED
    BY <2>2, <2>7, <2>9, <2>10, <2>11, <2>12, CallFrame DEF OwnPC, rows
<1> QED
  BY <1>7, <1>8, <1>9, <1>11, <1>12, <1>13, <1>14

\* Settling a job and going on behind it.
LEMMA SettlingSteps ==
    ASSUME WInv, NEW t \in Tasks,
           Persist(t) \/ CompleteJob(t) \/ CompleteStep(t) \/ Resume(t) \/ Rejected(t)
              \/ FailJob(t) \/ FailStep(t)
    PROVE  WInv'
<1> USE DEF At
<1>1. WorkflowTypeOK /\ RowsOK
  BY DEF WInv, RowsOK
<1>2. task[t] \in TaskRecord /\ TaskOK(t)
  BY DEF WInv
<1>3. PICK n \in Nodes : n = task[t].home
  BY <1>2 DEF TaskRecord
<1>4. {"complete", "completeStep", "resume", "failJob", "failStep", "finalize"} \subseteq PCs
      /\ {"SUCCEEDED", "CANCELED", "FAILED"} \subseteq RunStatus /\ RunStatus \subseteq Results
  BY DEF PCs, JobPC, StoredPC, FailPC, OtherPC, Results, RunStatus
<1>5. task[t].origin = "settle" /\ Kind[n] = "AI" /\ step[n] # "none" /\ Asked(n)
  BY <1>1, <1>2, <1>3
     DEF Persist, CompleteJob, CompleteStep, Resume, Rejected, FailJob, FailStep,
         TaskOK, JobPC, StoredPC, FailPC, RowsOK
<1>6. task[t].pc \in JobPC => task[t].at = n
  BY <1>2, <1>3 DEF TaskOK
<1>7. ASSUME UNCHANGED <<step, world>>
      PROVE  \A m : Asked(m) => Asked(m)'
  BY <1>7 DEF Asked, LeadsTo, world
<1>8. CASE Persist(t)
  <2>1. UNCHANGED <<rows, answers, effects, decisions, faults>> /\ task[t].at = n
    BY <1>6, <1>8 DEF Persist, JobPC
  <2>2. CASE Throw(t) /\ UNCHANGED persisted
    <3>1. PICK x \in TaskRecord :
             task' = [task EXCEPT ![t] = x] /\ x.pc \notin OwnPC /\ TaskOK(t)'
      BY <2>1, <2>2, ThrowOK DEF rows
    <3> QED
      BY <1>1, <2>1, <2>2, <3>1, ControlFrame DEF rows, world, WorkflowTypeOK
  <2>3. CASE persisted' = [persisted EXCEPT ![n] = TRUE] /\ Go(t, "complete")
    <3>1. PICK x : Moved(t, x) /\ x.pc = "complete"
      BY <1>4, <2>3, GoMoves
    <3>2. persisted' \in [Nodes -> BOOLEAN] /\ persisted'[n]
          /\ \A m \in Nodes : persisted[m] => persisted'[m]
      BY <1>1, <2>3 DEF WorkflowTypeOK
    <3>3. Forward
      BY <2>1, <3>2, AnswersKept DEF Forward, rows
    <3>4. \A m : Asked(m) => Asked(m)'
      BY <3>3, AskedStays
    <3>5. TaskOK(t)'
      BY <1>2, <1>3, <1>5, <1>8, <2>1, <3>1, <3>2, <3>4
         DEF TaskOK, Moved, OwnPC, ApprovalPC, StoredPC, JobPC, FailPC, rows
    <3>6. WorkflowTypeOK'
      BY <1>1, <2>1, <3>2 DEF WorkflowTypeOK, rows
    <3>7. \A m \in Nodes :
             /\ approval'[m] # "none" => Kind[m] = "APPROVAL" /\ step[m] # "none"
             /\ job'[m] # "none" \/ responseId'[m] # 0 => Kind[m] = "AI" /\ step[m] # "none"
             /\ job'[m] = "SUCCEEDED" => persisted'[m]
      BY <1>1, <2>1, <3>2 DEF RowsOK, rows
    <3> QED
      BY <2>1, <3>1, <3>3, <3>5, <3>6, <3>7, CallFrame DEF Moved, OwnPC, rows
  <2> QED
    BY <1>8, <2>1, <2>2, <2>3 DEF Persist
<1>9. CASE CompleteJob(t)
  <2>1. PICK x : Moved(t, x) /\ x.pc = "completeStep"
    BY <1>4, <1>9, GoMoves DEF CompleteJob
  <2>2. task[t].at = n /\ persisted[n]
    BY <1>2, <1>6, <1>9 DEF CompleteJob, TaskOK, JobPC, StoredPC
  <2>3. TaskOK(t)'
    BY <1>2, <1>5, <1>7, <1>9, <2>1, <2>2
       DEF CompleteJob, TaskOK, Moved, OwnPC, ApprovalPC, StoredPC, JobPC, FailPC, world
  <2> QED
    BY <1>5, <1>9, <2>1, <2>2, <2>3, JobFrame DEF CompleteJob, Moved, OwnPC
\* The step of the job's node is settled.
<1>10. ASSUME NEW x, Moved(t, x), NEW status \in {"SUCCEEDED", "FAILED"},
              x.pc \in {"resume", "finalize"},
              x.pc = "resume" => persisted[n] /\ task[t].at = n,
              x.pc = "finalize" => x.result \in {"FAILED", "CANCELED"},
              step' = [step EXCEPT ![n] = status],
              UNCHANGED <<event, attempts, ingests, run, approval, job, responseId, world>>
       PROVE  WInv'
  <2>1. Forward
    BY <1>1, <1>5, <1>10, AnswersKept DEF Forward, WorkflowTypeOK, world
  <2>2. \A m : Asked(m) => Asked(m)'
    BY <2>1, AskedStays
  <2>3. step'[n] # "none"
    BY <1>5, <2>1 DEF Forward
  <2>4. TaskOK(t)'
    BY <1>2, <1>3, <1>5, <1>10, <2>2, <2>3
       DEF TaskOK, Moved, OwnPC, ApprovalPC, StoredPC, JobPC, FailPC, RunStatus, world
  <2> QED
    BY <1>1, <1>5, <1>10, <2>1, <2>4, StepFrame
       DEF Moved, OwnPC, WorkflowTypeOK, StepStatus, world
<1>11. CASE CompleteStep(t)
  <2>1. PICK x : Moved(t, x) /\ x.pc = "resume"
    BY <1>4, <1>11, GoMoves DEF CompleteStep
  <2>2. task[t].at = n /\ persisted[n]
    BY <1>2, <1>6, <1>11 DEF CompleteStep, TaskOK, JobPC, StoredPC
  <2> QED
    BY <1>10, <1>11, <2>1, <2>2 DEF CompleteStep
<1>12. CASE Resume(t)
  <2>1. task[t].at = n /\ persisted[n]
    BY <1>2, <1>6, <1>12 DEF Resume, TaskOK, JobPC, StoredPC
  <2>2. UNCHANGED <<event, attempts, ingests, step, approval, job, responseId, world>>
    BY <1>12 DEF Resume
  <2>3. CASE GoWith(t, "finalize", "SUCCEEDED") /\ UNCHANGED run
    <3>1. PICK x : Moved(t, x) /\ x.pc = "finalize" /\ x.result = "SUCCEEDED"
      BY <1>4, <2>3, ResultMoves
    <3>2. TaskOK(t)'
      BY <1>2, <1>4, <1>7, <2>2, <3>1
         DEF TaskOK, Moved, OwnPC, ApprovalPC, StoredPC, JobPC, FailPC
    <3> QED
      BY <1>1, <2>2, <2>3, <3>1, <3>2, ControlFrame DEF Moved, OwnPC, WorkflowTypeOK
  <2>4. CASE /\ run' = "RUNNING"
             /\ task' = [task EXCEPT ![t].pc = "walk", ![t].queue = Follow(n, "plain")]
    BY <1>5, <2>1, <2>2, <2>4, GoOnInv DEF RunStatus, Labels
  <2> QED
    BY <1>12, <2>1, <2>3, <2>4 DEF Resume, GoWith
<1>13. CASE Rejected(t)
  <2>1. PICK x : Moved(t, x) /\ x.pc = "failJob"
    BY <1>4, <1>13, GoMoves DEF Rejected
  <2>2. TaskOK(t)'
    BY <1>2, <1>5, <1>7, <1>13, <2>1
       DEF Rejected, TaskOK, Moved, OwnPC, ApprovalPC, StoredPC, JobPC, FailPC, rows
  <2> QED
    BY <1>1, <1>13, <2>1, <2>2, ControlFrame DEF Rejected, Moved, OwnPC, WorkflowTypeOK, rows
<1>14. CASE FailJob(t)
  <2>1. PICK x : Moved(t, x) /\ x.pc = "failStep"
    BY <1>4, <1>14, GoMoves DEF FailJob
  <2>2. TaskOK(t)'
    BY <1>2, <1>5, <1>7, <1>14, <2>1
       DEF FailJob, TaskOK, Moved, OwnPC, ApprovalPC, StoredPC, JobPC, FailPC, world
  <2>3. PICK status \in {"CANCELED", "FAILED"} :
           status = IF task[t].result = "cancelled" THEN "CANCELED" ELSE "FAILED"
    OBVIOUS
  <2>4. job' = [job EXCEPT ![n] = status]
    BY <1>3, <1>14, <2>3 DEF FailJob
  <2> QED
    BY <1>5, <1>14, <2>1, <2>2, <2>4, JobFrame DEF FailJob, Moved, OwnPC
<1>15. CASE FailStep(t)
  <2>1. PICK result \in {"CANCELED", "FAILED"} :
           result = IF task[t].result = "cancelled" THEN "CANCELED" ELSE "FAILED"
    OBVIOUS
  <2>2. GoWith(t, "finalize", result)
    BY <1>2, <1>15, <2>1 DEF FailStep, GoWith, TaskRecord, WInv
  <2>3. PICK x : Moved(t, x) /\ x.pc = "finalize" /\ x.result = result
    BY <1>4, <2>2, ResultMoves
  <2>4. step' = [step EXCEPT ![n] = "FAILED"]
    BY <1>3, <1>15 DEF FailStep
  <2> QED
    BY <1>4, <1>10, <1>15, <2>3, <2>4 DEF FailStep
<1> QED
  BY <1>8, <1>9, <1>11, <1>12, <1>13, <1>14, <1>15

-----------------------------------------------------------------------------
(* The others *)

LEMMA SourceSteps ==
    ASSUME WInv, Ingest \/ \E n \in Nodes : Answer(n)
    PROVE  WInv'
<1>1. WorkflowTypeOK
  BY DEF WInv, RowsOK
<1>2. CASE Ingest
  <2>1. ingests' \in 0 .. MaxIngests /\ event' = "QUEUED"
    BY <1>1, <1>2, WorkflowAssumption DEF Ingest, WorkflowTypeOK
  <2> QED
    BY <1>1, <1>2, <2>1, RowFrame DEF Ingest, world, WorkflowTypeOK
<1>3. ASSUME NEW n \in Nodes, Answer(n)
      PROVE  WInv'
  <2>1. PICK i \in 1 .. Len(answers[n]), status \in Terminal :
           answers' = [answers EXCEPT ![n][i] = status]
    BY <1>3 DEF Answer
  <2>2. PICK old \in Seq(Terminal \cup {"in_progress"}) : old = answers[n]
    BY <1>1 DEF WorkflowTypeOK
  <2>3. /\ [old EXCEPT ![i] = status] \in Seq(Terminal \cup {"in_progress"})
        /\ Len([old EXCEPT ![i] = status]) = Len(old)
    <3>1. \A S : \A q \in Seq(S) : \A j \in 1 .. Len(q) : \A e \in S :
             [q EXCEPT ![j] = e] \in Seq(S) /\ Len([q EXCEPT ![j] = e]) = Len(q)
      BY ExceptSeq
    <3> QED
      BY <2>1, <2>2, <3>1
  <2>4. answers' = [answers EXCEPT ![n] = [old EXCEPT ![i] = status]]
    BY <2>1, <2>2
  <2>5. /\ answers' \in [Nodes -> Seq(Terminal \cup {"in_progress"})]
        /\ \A m \in Nodes : Len(answers'[m]) = Len(answers[m])
    BY <1>1, <2>2, <2>3, <2>4 DEF WorkflowTypeOK
  <2> QED
    BY <1>1, <1>3, <2>5, RowFrame DEF Answer, rows, WorkflowTypeOK
<1> QED
  BY <1>2, <1>3

LEMMA CrashStep ==
    ASSUME WInv, NEW t \in Tasks, Crash(t)
    PROVE  WInv'
<1>1. UNCHANGED <<rows, answers, effects, persisted, decisions>>
  BY DEF Crash
<1>2. Forward
  BY <1>1, AnswersKept DEF Forward, rows
<1>3. PICK x \in TaskRecord :
         x.pc = "idle" /\ x.origin = "none" /\ x.queue = <<>> /\ task' = [task EXCEPT ![t] = x]
  BY IdleOK DEF Crash, Idle
<1>4. task' \in [Tasks -> TaskRecord] /\ task'[t] = x
  BY <1>3 DEF WInv
<1>5. TaskOK(t)'
  BY <1>3, <1>4 DEF TaskOK, OwnPC, ApprovalPC, StoredPC, JobPC, FailPC
<1>6. Kept(t) /\ Entered(t)
  BY <1>1, <1>3, <1>4 DEF Kept, Entered, OwnPC, rows, WInv
<1>7. RowsOK'
  <2>1. faults' \in 0 .. MaxFaults
    BY WorkflowAssumption DEF Crash, WInv, RowsOK, WorkflowTypeOK
  <2>2. WorkflowTypeOK'
    BY <1>1, <2>1 DEF WInv, RowsOK, WorkflowTypeOK, rows
  <2>3. \A n \in Nodes : step[n] # "none" => Asked(n)'
    BY <1>2, AskedStays DEF WInv, RowsOK
  <2> QED
    BY <1>1, <2>2, <2>3 DEF WInv, RowsOK, rows
<1> QED
  BY <1>2, <1>4, <1>5, <1>6, <1>7, Frame

-----------------------------------------------------------------------------
(* Where a step brings its task *)

LEMMA DonePC ==
    ASSUME WInv, NEW t \in Tasks, Done(t)
    PROVE  task'[t].pc \in {"idle", "select"}
<1>1. task'[t] = IF task[t].origin = "timeout" THEN [Idle EXCEPT !.pc = "select"] ELSE Idle
  BY DEF Done, WInv
<1> QED
  BY <1>1 DEF Idle

LEMMA ThrowPC ==
    ASSUME WInv, NEW t \in Tasks, Throw(t)
    PROVE  /\ task'[t].pc \in {"idle", "nack", "failJob"}
           /\ task[t].origin = "settle" => task'[t].pc = "failJob"
<1> DEFINE x == CASE task[t].origin = "trigger" -> [task[t] EXCEPT !.pc = "nack"]
                  [] task[t].origin = "settle"  -> [task[t] EXCEPT !.pc = "failJob",
                                                                   !.result = "failed"]
                  [] OTHER                      -> Idle
<1>1. task'[t] = x
  BY DEF Throw, WInv
<1>2. task[t] \in TaskRecord
  BY DEF WInv
<1>3. CASE task[t].origin = "trigger"
  BY <1>1, <1>2, <1>3 DEF TaskRecord
<1>4. CASE task[t].origin = "settle"
  BY <1>1, <1>2, <1>4 DEF TaskRecord
<1>5. CASE task[t].origin \notin {"trigger", "settle"}
  BY <1>1, <1>5 DEF Idle
<1> QED
  BY <1>3, <1>4, <1>5

LEMMA GoPC ==
    ASSUME WInv, NEW t \in Tasks, NEW pc, Go(t, pc)
    PROVE  task'[t].pc = pc /\ task'[t].result = task[t].result
<1>1. task[t] \in TaskRecord
  BY DEF WInv
<1>2. task'[t] = [task[t] EXCEPT !.pc = pc]
  BY DEF Go, WInv
<1> QED
  BY <1>1, <1>2 DEF TaskRecord

LEMMA GoWithPC ==
    ASSUME WInv, NEW t \in Tasks, NEW pc, NEW result, GoWith(t, pc, result)
    PROVE  task'[t].pc = pc /\ task'[t].result = result
<1>1. task[t] \in TaskRecord
  BY DEF WInv
<1>2. task'[t] = [task[t] EXCEPT !.pc = pc, !.result = result]
  BY DEF GoWith, WInv
<1> QED
  BY <1>1, <1>2 DEF TaskRecord

\* One task moves in a step, and the others stay where they are.
LEMMA OthersStay ==
    ASSUME WInv, NEW t \in Tasks,
           \/ BeginDispatch(t) \/ TaskStep(t) \/ PickJob(t) \/ PickPoll(t)
           \/ ReadApproval(t) \/ Webhook(t)
    PROVE  \A u \in Tasks \ {t} : task'[u] = task[u]
<1> USE DEF WInv
<1>1. CASE BeginDispatch(t) \/ PickJob(t) \/ PickPoll(t) \/ ReadApproval(t) \/ Webhook(t)
  BY <1>1 DEF BeginDispatch, ExpireFirst, SelectNow, ReadApproval, PickJob, PickPoll, Webhook, Begin
<1>2. CASE EventStep(t) \/ ApprovalStep(t)
  BY <1>2 DEF EventStep, SelectEvent, FindRun, CreateRun, StartRun, AckEvent, NackEvent,
              ApprovalStep, Decide, DecideStep, Expire, Proceed, Go, Done, Throw
<1>3. CASE GraphStep(t)
  BY <1>3 DEF GraphStep, Visit, PassNode, Act, RecordAction, Catch, FailNode, QueueJob,
              AskApproval, Pause, PauseRun, WalkEnds, Finalize, Succeed, Go, Done, Throw
<1>4. CASE JobStep(t)
  BY <1>4 DEF JobStep, RequestJob, Submit, SubmitFails, RecordResponse, Retrieve, RetrieveFails,
              StillRunning, Persist, CompleteJob, CompleteStep, Resume, Rejected, FailJob,
              FailStep, Go, Done, Throw
<1> QED
  BY <1>1, <1>2, <1>3, <1>4 DEF TaskStep

-----------------------------------------------------------------------------
(* Runs that wait for nothing                                              *)
(*                                                                         *)
(* A step that does not write late either leaves a run that waits for      *)
(* something, or makes its task one that will end the run (a mover), or    *)
(* closes nothing and was no mover's step.                                 *)

Lands(t) ==
    \/ HasEnd(run)'
    \/ t \in Movers'
    \/ /\ t \notin Movers /\ UNCHANGED run
       /\ \A n \in Nodes : job[n] \in OpenJob => job'[n] \in OpenJob
       /\ \A n \in Nodes : approval[n] = "PENDING" => approval'[n] = "PENDING"

\* A status that is no wait needs no end.
LEMMA EndsAnyway ==
    ASSUME run' \notin Waits
    PROVE  HasEnd(run)'
  BY DEF HasEnd, Waits

\* A task that writes neither the run nor what it waits for.
LEMMA Leaves ==
    ASSUME NEW t \in Tasks, UNCHANGED <<run, job, approval>>,
           task[t].pc \notin {"completeStep", "resume", "failStep", "decideStep", "proceed",
                              "finalize"}
    PROVE  Lands(t)
  BY DEF Lands, Movers, At

LEMMA EventLands ==
    ASSUME WInv, NEW t \in Tasks, EventStep(t)
    PROVE  Lands(t)
<1>1. CASE UNCHANGED run
  <2>1. UNCHANGED <<job, approval>>
    BY DEF EventStep, SelectEvent, FindRun, CreateRun, StartRun, AckEvent, NackEvent, rows
  <2>2. task[t].pc \in {"select", "find", "create", "start", "ack", "nack"}
    BY DEF EventStep, SelectEvent, FindRun, CreateRun, StartRun, AckEvent, NackEvent, At
  <2> QED
    BY <1>1, <2>1, <2>2, Leaves
<1>2. CASE run' \in {"QUEUED", "RUNNING"}
  BY <1>2, EndsAnyway DEF Waits, Lands
<1> QED
  BY <1>1, <1>2 DEF EventStep, SelectEvent, FindRun, CreateRun, StartRun, AckEvent, NackEvent, rows

LEMMA GraphLands ==
    ASSUME WInv, NEW t \in Tasks, GraphStep(t), ~ WritesLate(t)
    PROVE  Lands(t)
<1> USE DEF At
<1>1. task[t] \in TaskRecord /\ TaskOK(t) /\ task \in [Tasks -> TaskRecord] /\ RowsOK
      /\ WorkflowTypeOK
  BY DEF WInv, RowsOK
<1>2. PICK n \in Nodes : n = task[t].at
  BY <1>1 DEF TaskRecord
<1>3. CASE Visit(t) \/ PassNode(t) \/ Act(t) \/ RecordAction(t) \/ Catch(t) \/ FailNode(t)
           \/ Pause(t) \/ WalkEnds(t)
  <2>1. UNCHANGED <<run, job, approval>>
    BY <1>3 DEF Visit, PassNode, Act, RecordAction, Catch, FailNode, Pause, WalkEnds, Succeed, rows
  <2>2. task[t].pc \in {"walk", "node", "record", "failNode", "pause", "pauseRun"}
    BY <1>3 DEF Visit, PassNode, Act, RecordAction, Catch, FailNode, Pause, WalkEnds
  <2> QED
    BY <2>1, <2>2, Leaves
<1>4. CASE QueueJob(t)
  <2>1. job' = [job EXCEPT ![n] = "QUEUED"] /\ UNCHANGED <<run, approval>> /\ task[t].pc = "node"
    BY <1>2, <1>4 DEF QueueJob
  <2>2. \A m \in Nodes : job[m] \in OpenJob => job'[m] \in OpenJob
    BY <1>1, <2>1 DEF WorkflowTypeOK, OpenJob
  <2> QED
    BY <2>1, <2>2 DEF Lands, Movers
<1>5. CASE AskApproval(t)
  <2>1. /\ approval' = [approval EXCEPT ![n] = "PENDING"] /\ UNCHANGED <<run, job>>
        /\ task[t].pc = "node"
    BY <1>2, <1>5 DEF AskApproval
  <2>2. \A m \in Nodes : approval[m] = "PENDING" => approval'[m] = "PENDING"
    BY <1>1, <2>1 DEF WorkflowTypeOK
  <2> QED
    BY <2>1, <2>2 DEF Lands, Movers
<1>6. CASE PauseRun(t) \/ Finalize(t)
  <2>1. /\ task[t].pc \in {"pauseRun", "finalize"} /\ run' = task[t].result
        /\ UNCHANGED <<job, approval>>
    BY <1>6 DEF PauseRun, Finalize
  <2>2. task'[t] # task[t]
    <3>1. task'[t].pc \in {"finalize", "ack", "idle", "select"}
      BY <1>6, GoPC, DonePC DEF PauseRun, Finalize
    <3>2. task[t].pc = "finalize" => task'[t].pc \in {"ack", "idle", "select"}
      BY <1>6, GoPC, DonePC DEF PauseRun, Finalize
    <3> QED
      BY <2>1, <3>1, <3>2
  <2>3. CASE task[t].result \notin Waits
    BY <2>1, <2>3, EndsAnyway DEF Lands
  <2>4. CASE task[t].result \in Waits
    <3>1. job[n] \in OpenJob \/ approval[n] = "PENDING"
      BY <1>2, <2>1, <2>2, <2>4 DEF WritesLate
    <3>2. /\ task[t].result = "WAITING_EXTERNAL" => Kind[n] = "AI"
          /\ task[t].result = "WAITING_APPROVAL" => Kind[n] = "APPROVAL"
      BY <1>1, <1>2, <2>1 DEF TaskOK
    <3>3. /\ job[n] \in OpenJob => Kind[n] = "AI"
          /\ approval[n] = "PENDING" => Kind[n] = "APPROVAL"
      BY <1>1 DEF RowsOK, OpenJob
    <3>4. PICK status \in Waits : status = task[t].result
      BY <2>4
    <3>5. /\ status = "WAITING_EXTERNAL" => job[n] \in OpenJob
          /\ status = "WAITING_APPROVAL" => approval[n] = "PENDING"
      BY <3>1, <3>2, <3>3, <3>4 DEF Waits
    <3>6. HasEnd(run)'
      BY <2>1, <3>4, <3>5 DEF HasEnd
    <3> QED
      BY <3>6 DEF Lands
  <2> QED
    BY <2>3, <2>4
<1> QED
  BY <1>3, <1>4, <1>5, <1>6 DEF GraphStep

LEMMA ApprovalLands ==
    ASSUME WInv, NEW t \in Tasks, ApprovalStep(t)
    PROVE  Lands(t)
<1>1. CASE Decide(t) \/ DecideStep(t) \/ Expire(t)
  <2>1. task'[t].pc \in {"decideStep", "proceed"}
    BY <1>1, GoPC DEF Decide, DecideStep, Expire
  <2> QED
    BY <2>1 DEF Lands, Movers
<1>2. CASE Proceed(t)
  <2>1. run' \in {"SUCCEEDED", "CANCELED", "RUNNING"}
    BY <1>2 DEF Proceed
  <2> QED
    BY <2>1, EndsAnyway DEF Lands, Waits
<1> QED
  BY <1>1, <1>2 DEF ApprovalStep

LEMMA JobLands ==
    ASSUME WInv, NEW t \in Tasks, JobStep(t)
    PROVE  Lands(t)
<1> USE DEF At
<1>1. task[t] \in TaskRecord /\ task \in [Tasks -> TaskRecord]
      /\ job \in [Nodes -> {"none", "QUEUED", "REQUESTED", "RUNNING", "SUCCEEDED", "FAILED",
                            "CANCELED"}]
  BY DEF WInv, RowsOK, WorkflowTypeOK
<1>2. CASE RequestJob(t) \/ SubmitFails(t) \/ RecordResponse(t) \/ RetrieveFails(t)
           \/ StillRunning(t)
  <2>1. /\ task[t].pc \in {"request", "submit", "respond", "retrieve", "settle"}
        /\ UNCHANGED <<run, approval>>
    BY <1>2 DEF RequestJob, SubmitFails, RecordResponse, RetrieveFails, StillRunning
  <2>2. \/ UNCHANGED job
        \/ \E status \in OpenJob : job' = [job EXCEPT ![task[t].at] = status]
    BY <1>2 DEF RequestJob, SubmitFails, RecordResponse, RetrieveFails, StillRunning, OpenJob
  <2>3. \A n \in Nodes : job[n] \in OpenJob => job'[n] \in OpenJob
    BY <1>1, <2>2
  <2> QED
    BY <2>1, <2>3 DEF Lands, Movers
<1>3. CASE Submit(t) \/ Retrieve(t) \/ Persist(t) \/ Rejected(t)
  <2>1. UNCHANGED <<run, job, approval>> /\ task[t].pc \in {"submit", "retrieve", "settle"}
    BY <1>3 DEF Submit, Retrieve, Persist, Rejected, rows
  <2> QED
    BY <2>1, Leaves
<1>4. CASE CompleteJob(t) \/ CompleteStep(t) \/ FailJob(t)
  <2>1. task'[t].pc \in {"completeStep", "resume", "failStep"}
    BY <1>4, GoPC DEF CompleteJob, CompleteStep, FailJob
  <2> QED
    BY <2>1 DEF Lands, Movers
<1>5. ASSUME NEW result \in {"SUCCEEDED", "CANCELED", "FAILED"}, GoWith(t, "finalize", result)
      PROVE  Lands(t)
  <2>1. task'[t].pc = "finalize" /\ task'[t].result = result
    BY <1>5, GoWithPC
  <2> QED
    BY <1>5, <2>1 DEF Lands, Movers, Waits
<1>6. CASE Resume(t)
  <2>1. CASE run' = "RUNNING"
    BY <2>1, EndsAnyway DEF Lands, Waits
  <2>2. CASE GoWith(t, "finalize", "SUCCEEDED")
    BY <1>5, <2>2
  <2> QED
    BY <1>6, <2>1, <2>2 DEF Resume, GoWith
<1>7. CASE FailStep(t)
  <2>1. PICK result \in {"CANCELED", "FAILED"} :
           result = IF task[t].result = "cancelled" THEN "CANCELED" ELSE "FAILED"
    OBVIOUS
  <2>2. GoWith(t, "finalize", result)
    BY <1>1, <1>7, <2>1 DEF FailStep, GoWith, TaskRecord
  <2> QED
    BY <1>5, <2>2
<1> QED
  BY <1>2, <1>3, <1>4, <1>6, <1>7 DEF JobStep

LEMMA BeginLands ==
    ASSUME WInv, NEW t \in Tasks,
           BeginDispatch(t) \/ PickJob(t) \/ PickPoll(t) \/ ReadApproval(t) \/ Webhook(t)
    PROVE  Lands(t)
<1>1. UNCHANGED <<run, job, approval>>
  BY DEF BeginDispatch, ExpireFirst, SelectNow, ReadApproval, PickJob, PickPoll, Webhook, rows
<1>2. task[t].pc = "idle"
  BY DEF BeginDispatch, ExpireFirst, SelectNow, ReadApproval, PickJob, PickPoll, Webhook, Begin, At
<1> QED
  BY <1>1, <1>2, Leaves

LEMMA StrandStep ==
    ASSUME WInv, [Next]_vars, ~ Stranded, Stranded'
    PROVE  faults' > faults \/ \E t \in Tasks : WritesLate(t)
<1>1. ~ UNCHANGED <<run, job, approval, task>>
  BY DEF Stranded, HasEnd, Movers, At
<1>2. CASE UNCHANGED vars \/ Ingest \/ \E n \in Nodes : Answer(n)
  BY <1>1, <1>2 DEF vars, rows, Ingest, Answer
<1>3. ASSUME NEW t \in Tasks, Crash(t)
      PROVE  faults' > faults
  BY <1>3 DEF Crash, WInv, RowsOK, WorkflowTypeOK
<1>4. ASSUME NEW t \in Tasks, ~ WritesLate(t),
             \/ BeginDispatch(t) \/ TaskStep(t) \/ PickJob(t) \/ PickPoll(t)
             \/ ReadApproval(t) \/ Webhook(t)
      PROVE  FALSE
  <2>1. Lands(t)
    BY <1>4, EventLands, GraphLands, ApprovalLands, JobLands, BeginLands DEF TaskStep
  <2>2. ~ HasEnd(run)' /\ t \notin Movers'
    BY DEF Stranded
  <2>3. /\ t \notin Movers /\ UNCHANGED run
        /\ \A n \in Nodes : job[n] \in OpenJob => job'[n] \in OpenJob
        /\ \A n \in Nodes : approval[n] = "PENDING" => approval'[n] = "PENDING"
    BY <2>1, <2>2 DEF Lands
  <2>4. CASE HasEnd(run)
    BY <2>2, <2>3, <2>4 DEF HasEnd
  <2>5. ASSUME NEW u \in Movers
        PROVE  FALSE
    <3>1. u \in Tasks \ {t}
      BY <2>3, <2>5 DEF Movers
    <3>2. task'[u] = task[u]
      BY <1>4, <3>1, OthersStay
    <3>3. u \in Movers'
      BY <2>5, <3>1, <3>2 DEF Movers, At
    <3> QED
      BY <3>3 DEF Stranded
  <2> QED
    BY <2>4, <2>5 DEF Stranded
<1> QED
  BY <1>2, <1>3, <1>4 DEF Next, Tasks

-----------------------------------------------------------------------------
(* The refinement of Walk                                                  *)
(*                                                                         *)
(* Every step that says something about a node is a step of Walk.  What    *)
(* WInv does not say yet: a node that has come out was entered, a          *)
(* condition in execution has not come out, and an action about to be      *)
(* recorded was carried out.                                               *)

Entries == {n \in Nodes : step[n] # "none"}
Outs == [n \in Nodes |-> Outcomes(n)]

FreshOK(t) ==
    /\ task[t].pc = "record" => effects[task[t].at] = 1
    /\ task[t].pc = "node" /\ Kind[task[t].at] = "CONDITION" => decisions[task[t].at] = {}

WalkInv ==
    /\ \A n \in Nodes : persisted[n] \/ decisions[n] # {} => step[n] # "none"
    /\ \A t \in Tasks : FreshOK(t)

\* The steps that write what Walk sees.
WalkMove(t) ==
    \/ Visit(t) \/ PassNode(t) \/ Act(t) \/ RecordAction(t) \/ FailNode(t) \/ Pause(t)
    \/ Decide(t) \/ DecideStep(t) \/ Expire(t)
    \/ Persist(t) \/ CompleteStep(t) \/ FailStep(t)

\* What a task does in one step.
AnyMove(t) ==
    \/ BeginDispatch(t) \/ TaskStep(t) \/ PickJob(t) \/ PickPoll(t)
    \/ ReadApproval(t) \/ Webhook(t) \/ Crash(t)

LEMMA OtherMoves ==
    ASSUME NEW t \in Tasks, AnyMove(t), ~WalkMove(t)
    PROVE  UNCHANGED <<step, effects, persisted, decisions>>
<1>1. CASE BeginDispatch(t) \/ PickJob(t) \/ PickPoll(t) \/ ReadApproval(t) \/ Webhook(t)
           \/ Crash(t)
  BY <1>1 DEF BeginDispatch, ExpireFirst, SelectNow, ReadApproval, PickJob, PickPoll, Webhook,
              Crash, rows, world
<1>2. CASE EventStep(t) \/ ApprovalStep(t)
  BY <1>2 DEF WalkMove, EventStep, SelectEvent, FindRun, CreateRun, StartRun, AckEvent,
              NackEvent, ApprovalStep, Proceed, rows, world
<1>3. CASE GraphStep(t)
  BY <1>3 DEF WalkMove, GraphStep, Catch, QueueJob, AskApproval, PauseRun, WalkEnds,
              Finalize, rows, world
<1>4. CASE JobStep(t)
  BY <1>4 DEF WalkMove, JobStep, RequestJob, Submit, SubmitFails, RecordResponse, Retrieve,
              RetrieveFails, StillRunning, CompleteJob, Resume, Rejected, FailJob, rows, world
<1> QED
  BY <1>1, <1>2, <1>3, <1>4 DEF AnyMove, TaskStep

\* Only Visit and Act bring a task to a node or to the recording of an action.
LEMMA LeavesNode ==
    ASSUME WInv, NEW t \in Tasks, AnyMove(t), ~Visit(t), ~Act(t)
    PROVE  task'[t].pc \notin {"node", "record"}
<1>1. task[t] \in TaskRecord /\ TaskOK(t) /\ task \in [Tasks -> TaskRecord]
  BY DEF WInv
<1>2. CASE BeginDispatch(t) \/ PickJob(t) \/ PickPoll(t) \/ ReadApproval(t) \/ Webhook(t)
  <2>1. PICK pc, origin, n, result, count :
             pc \in {"expire", "decide", "request", "retrieve", "select"}
             /\ Begin(t, pc, origin, n, result, count)
    BY <1>2 DEF BeginDispatch, ExpireFirst, SelectNow, ReadApproval, PickJob, PickPoll, Webhook
  <2>2. task'[t] = [Idle EXCEPT !.pc = pc, !.origin = origin, !.home = n, !.at = n,
                                !.result = result, !.count = count]
    BY <1>1, <2>1 DEF Begin
  <2>3. task'[t].pc = pc
    BY <2>2 DEF Idle
  <2> QED
    BY <2>1, <2>3
<1>3. CASE Crash(t)
  BY <1>1, <1>3 DEF Crash, Idle
<1>4. CASE EventStep(t)
  <2>1. CASE SelectEvent(t)
    <3>1. task'[t] = IF event = "QUEUED"
                     THEN [Idle EXCEPT !.pc = "find", !.origin = "trigger", !.count = attempts]
                     ELSE Idle
      BY <1>1, <2>1 DEF SelectEvent
    <3> QED
      BY <3>1 DEF Idle
  <2>2. CASE FindRun(t) \/ CreateRun(t) \/ StartRun(t)
    <3>1. CASE task' = [task EXCEPT ![t].pc = "walk", ![t].queue = <<Trigger>>]
      BY <1>1, <3>1 DEF TaskRecord
    <3> QED
      BY <2>2, <3>1, GoPC, ThrowPC DEF FindRun, CreateRun, StartRun
  <2>3. CASE AckEvent(t) \/ NackEvent(t)
    BY <2>3, DonePC DEF AckEvent, NackEvent
  <2> QED
    BY <1>4, <2>1, <2>2, <2>3 DEF EventStep
<1>5. CASE ApprovalStep(t)
  <2>1. CASE Decide(t) \/ DecideStep(t) \/ Expire(t)
    BY <2>1, GoPC DEF Decide, DecideStep, Expire
  <2>2. CASE Proceed(t)
    <3>1. CASE task' = [task EXCEPT ![t].pc = "walk",
                                    ![t].queue = Follow(task[t].at, task[t].result)]
      BY <1>1, <3>1 DEF TaskRecord
    <3> QED
      BY <2>2, <3>1, DonePC DEF Proceed
  <2> QED
    BY <1>5, <2>1, <2>2 DEF ApprovalStep
<1>6. CASE GraphStep(t)
  <2>1. ASSUME NEW l, Succeed(t, l)
        PROVE  task'[t].pc = "walk"
    BY <1>1, <2>1 DEF Succeed, TaskRecord
  <2>2. CASE PassNode(t) \/ RecordAction(t)
    BY <2>1, <2>2 DEF PassNode, RecordAction
  <2>3. CASE FailNode(t) \/ QueueJob(t) \/ AskApproval(t) \/ WalkEnds(t)
    <3>1. \/ GoWith(t, "finalize", "FAILED") \/ GoWith(t, "finalize", "SUCCEEDED")
          \/ GoWith(t, "pause", "WAITING_EXTERNAL") \/ GoWith(t, "pause", "WAITING_APPROVAL")
      BY <2>3 DEF FailNode, QueueJob, AskApproval, WalkEnds, GoWith
    <3> QED
      BY <3>1, GoWithPC
  <2>4. CASE Catch(t) \/ Pause(t) \/ PauseRun(t) \/ Finalize(t)
    BY <2>4, GoPC, DonePC DEF Catch, Pause, PauseRun, Finalize
  <2> QED
    BY <1>6, <2>2, <2>3, <2>4 DEF GraphStep
<1>7. CASE JobStep(t)
  <2>1. CASE RequestJob(t) \/ RecordResponse(t) \/ CompleteJob(t) \/ CompleteStep(t)
             \/ Rejected(t) \/ FailJob(t) \/ Persist(t)
    BY <2>1, GoPC, ThrowPC
       DEF RequestJob, RecordResponse, CompleteJob, CompleteStep, Rejected, FailJob, Persist
  <2>2. CASE SubmitFails(t) \/ RetrieveFails(t) \/ StillRunning(t)
    BY <2>2, DonePC DEF SubmitFails, RetrieveFails, StillRunning
  <2>3. CASE Submit(t) \/ Retrieve(t)
    BY <1>1, <2>3 DEF Submit, Retrieve, TaskRecord
  <2>4. CASE Resume(t)
    <3>1. CASE task' = [task EXCEPT ![t].pc = "walk", ![t].queue = Follow(task[t].at, "plain")]
      BY <1>1, <3>1 DEF TaskRecord
    <3>2. CASE GoWith(t, "finalize", "SUCCEEDED")
      BY <3>2, GoWithPC
    <3> QED
      BY <2>4, <3>1, <3>2 DEF Resume, GoWith
  <2>5. CASE FailStep(t)
    BY <1>1, <2>5 DEF FailStep, TaskRecord
  <2> QED
    BY <1>7, <2>1, <2>2, <2>3, <2>4, <2>5 DEF JobStep
<1> QED
  BY <1>2, <1>3, <1>4, <1>5, <1>6, <1>7 DEF AnyMove, TaskStep

\* Every condition is met for the first time, every action is recorded when done.
LEMMA WalkStep == WInv /\ WalkInv /\ [Next]_vars => WalkInv'
<1> SUFFICES ASSUME WInv, WalkInv, [Next]_vars PROVE WalkInv'
  OBVIOUS
<1>1. ASSUME UNCHANGED <<step, effects, persisted, decisions, task>>
      PROVE  WalkInv'
  BY <1>1 DEF WalkInv, FreshOK
<1>2. CASE UNCHANGED vars \/ Ingest \/ \E n \in Nodes : Answer(n)
  BY <1>1, <1>2 DEF vars, rows, world, Ingest, Answer
<1>3. ASSUME NEW t \in Tasks, AnyMove(t)
      PROVE  WalkInv'
  <2>1. /\ task[t] \in TaskRecord /\ TaskOK(t) /\ FreshOK(t)
        /\ task \in [Tasks -> TaskRecord]
        /\ step \in [Nodes -> StepStatus] /\ effects \in [Nodes -> Nat]
        /\ persisted \in [Nodes -> BOOLEAN] /\ decisions \in [Nodes -> SUBSET Labels]
    BY DEF WInv, RowsOK, WorkflowTypeOK, WalkInv
  <2>2. PICK n \in Nodes : n = task[t].at
    BY <2>1 DEF TaskRecord
  <2>3. PICK h \in Nodes : h = task[t].home
    BY <2>1 DEF TaskRecord
  <2>4. \A m \in Nodes : persisted'[m] \/ decisions'[m] # {} => step'[m] # "none"
    <3>1. CASE Visit(t)
      BY <2>1, <3>1 DEF WalkInv, Visit, world
    <3>2. CASE PassNode(t) \/ RecordAction(t) \/ Act(t) \/ FailNode(t)
      <4>1. /\ UNCHANGED persisted
            /\ \A m \in Nodes : m # n => decisions'[m] = decisions[m]
            /\ \A m \in Nodes : m # n => step'[m] = step[m]
            /\ step[n] # "none" /\ step'[n] # "none"
        BY <2>1, <2>2, <3>2
           DEF PassNode, RecordAction, Act, FailNode, Succeed, At, TaskOK, OwnPC, rows, world
      <4> QED
        BY <4>1 DEF WalkInv
    <3>3. CASE Pause(t) \/ Decide(t) \/ DecideStep(t) \/ Expire(t)
      <4>1. /\ UNCHANGED persisted
            /\ \A m \in Nodes : m # n => decisions'[m] = decisions[m]
            /\ \A m \in Nodes : m # n => step'[m] = step[m]
            /\ step[n] # "none" /\ step'[n] # "none"
        BY <2>1, <2>2, <3>3
           DEF Pause, Decide, DecideStep, Expire, At, TaskOK, OwnPC, ApprovalPC, Waits, world
      <4> QED
        BY <4>1 DEF WalkInv
    <3>4. CASE Persist(t) \/ CompleteStep(t)
      <4>1. /\ UNCHANGED decisions
            /\ \A m \in Nodes : m # n => persisted'[m] = persisted[m] /\ step'[m] = step[m]
            /\ step[n] # "none" /\ step'[n] # "none"
        BY <2>1, <2>2, <3>4 DEF Persist, CompleteStep, At, TaskOK, JobPC, StoredPC, rows, world
      <4> QED
        BY <4>1 DEF WalkInv
    <3>5. CASE FailStep(t)
      BY <2>1, <2>3, <3>5 DEF WalkInv, FailStep, world
    <3>6. CASE ~WalkMove(t)
      BY <1>3, <3>6, OtherMoves DEF WalkInv
    <3> QED
      BY <3>1, <3>2, <3>3, <3>4, <3>5, <3>6 DEF WalkMove
  <2>5. FreshOK(t)'
    <3>1. CASE Visit(t)
      <4>1. CASE Throw(t)
        BY <4>1, ThrowPC DEF FreshOK
      <4>2. CASE task' = [task EXCEPT ![t].queue = Tail(task[t].queue)]
        BY <2>1, <3>1, <4>2 DEF Visit, At, FreshOK, TaskRecord
      <4>3. ASSUME NEW m \in Nodes, step[m] = "none", UNCHANGED decisions,
                   task'[t].pc = "node", task'[t].at = m
            PROVE  FreshOK(t)'
        BY <4>3 DEF WalkInv, FreshOK
      <4>4. ASSUME step[Head(task[t].queue)] = "none",
                   task' = [task EXCEPT ![t].pc = "node", ![t].at = Head(task[t].queue),
                                        ![t].queue = Tail(task[t].queue),
                                        ![t].seen = @ \cup {Head(task[t].queue)}]
            PROVE  FreshOK(t)'
        <5>1. Head(task[t].queue) \in Nodes
          BY <2>1, <3>1 DEF Visit, TaskRecord
        <5>2. task'[t].pc = "node" /\ task'[t].at = Head(task[t].queue)
          BY <2>1, <4>4 DEF TaskRecord
        <5>3. UNCHANGED decisions
          BY <3>1 DEF Visit, world
        <5> QED
          BY <4>3, <4>4, <5>1, <5>2, <5>3
      <4> QED
        BY <3>1, <4>1, <4>2, <4>4 DEF Visit
    <3>2. CASE Act(t)
      <4>1. PICK pc \in {"record", "failNode"} : Go(t, pc)
        BY <3>2 DEF Act
      <4>2. task'[t] = [task[t] EXCEPT !.pc = pc]
        BY <2>1, <4>1 DEF Go
      <4>3. task'[t].pc = pc /\ task'[t].at = n
        BY <2>1, <2>2, <4>2 DEF TaskRecord
      <4>4. effects'[n] = 1
        BY <2>1, <2>2, <3>2 DEF Act, At, TaskOK
      <4> QED
        BY <4>3, <4>4 DEF FreshOK
    <3> QED
      BY <1>3, <3>1, <3>2, LeavesNode DEF FreshOK
  <2>6. ASSUME NEW u \in Tasks \ {t}
        PROVE  FreshOK(u)'
    <3>1. task'[u] = task[u] /\ FreshOK(u) /\ TaskOK(u) /\ task[u] \in TaskRecord
      <4>1. CASE Crash(t)
        BY <4>1 DEF Crash, WInv, WalkInv
      <4> QED
        BY <1>3, <4>1, OthersStay DEF AnyMove, WInv, WalkInv
    <3>2. PICK k \in Nodes : k = task[u].at
      BY <3>1 DEF TaskRecord
    <3>3. SUFFICES ASSUME task[u].pc \in {"record", "node"}
                   PROVE  /\ task[u].pc = "record" => effects'[k] = effects[k]
                          /\ Kind[k] = "CONDITION" => decisions'[k] = decisions[k]
      BY <3>1, <3>2 DEF FreshOK
    <3>4. task[t].pc \in OwnPC => k # n
      BY <2>2, <3>2, <3>3 DEF WInv, OneOwner, OwnPC
    <3>5. CASE Act(t) \/ PassNode(t)
      BY <2>1, <2>2, <3>4, <3>5 DEF Act, PassNode, At, OwnPC
    <3>6. CASE Decide(t) \/ Expire(t)
      BY <2>1, <2>2, <3>6 DEF Decide, Expire, At, TaskOK, ApprovalPC
    <3>7. CASE ~(Act(t) \/ PassNode(t) \/ Decide(t) \/ Expire(t)) /\ WalkMove(t)
      BY <3>7 DEF WalkMove, Visit, RecordAction, FailNode, Pause, DecideStep, Persist,
                  CompleteStep, FailStep, world
    <3>8. CASE ~WalkMove(t)
      BY <1>3, <3>8, OtherMoves
    <3> QED
      BY <3>5, <3>6, <3>7, <3>8
  <2> QED
    BY <2>4, <2>5, <2>6 DEF WalkInv
<1> QED
  BY <1>2, <1>3 DEF Next, AnyMove, Tasks

\* What a node has come out as is told by one of its rows.
LEMMA SameOutcome ==
    ASSUME NEW m \in Nodes,
           Kind[m] \in {"APPROVAL", "CONDITION"} => decisions'[m] = decisions[m],
           Kind[m] = "AI" => persisted'[m] = persisted[m],
           Kind[m] \in {"TRIGGER", "ACTION"} =>
              (step'[m] = "SUCCEEDED" <=> step[m] = "SUCCEEDED")
    PROVE  Outcomes(m)' = Outcomes(m)
<1>1. CASE Kind[m] \in {"APPROVAL", "CONDITION"}
  BY <1>1 DEF Outcomes
<1>2. CASE Kind[m] = "AI"
  BY <1>2 DEF Outcomes
<1>3. CASE Kind[m] \in {"TRIGGER", "ACTION"}
  BY <1>3 DEF Outcomes
<1> QED
  BY <1>1, <1>2, <1>3, WorkflowAssumption

LEMMA SameEntries ==
    ASSUME \A m \in Nodes : step'[m] # "none" <=> step[m] # "none"
    PROVE  Entries' = Entries
  BY DEF Entries

LEMMA SameOuts ==
    ASSUME \A m \in Nodes : Outcomes(m)' = Outcomes(m)
    PROVE  Outs' = Outs
  BY DEF Outs

\* The three steps of Walk, and none.
LEMMA WalkStays ==
    ASSUME Entries' = Entries, Outs' = Outs, effects' = effects
    PROVE  UNCHANGED Journey!vars
  BY DEF Journey!vars, Entries, Outs

LEMMA WalkEnters ==
    ASSUME WInv, NEW m \in Nodes, step[m] = "none", Asked(m),
           Entries' = Entries \cup {m}, Outs' = Outs, effects' = effects, WalkInv
    PROVE  Journey!Enter(m)
<1>1. m \notin Entries
  BY DEF Entries
<1>2. ASSUME m # Trigger
      PROVE  \E n \in Entries : \E d \in Outs[n] :
                m \in [k \in Nodes |-> [l \in Labels |-> Range(Follow(k, l))]][n][d]
  <2>1. PICK n \in Nodes : LeadsTo(n, m)
    BY <1>2 DEF Asked
  <2>2. n \in Entries
    BY <2>1 DEF LeadsTo, Entries, WalkInv
  <2>3. PICK d \in Outcomes(n) : m \in Range(Follow(n, d)) /\ d \in Labels
    <3>1. CASE Kind[n] \in {"APPROVAL", "CONDITION"}
      <4>1. PICK d \in decisions[n] : m \in Range(Follow(n, d))
        BY <2>1, <3>1 DEF LeadsTo
      <4>2. d \in Labels
        BY DEF WInv, RowsOK, WorkflowTypeOK
      <4>3. Outcomes(n) = decisions[n]
        BY <3>1 DEF Outcomes
      <4> QED
        BY <4>1, <4>2, <4>3
    <3>2. CASE Kind[n] \notin {"APPROVAL", "CONDITION"}
      <4>1. "plain" \in Outcomes(n)
        BY <2>1, <3>2 DEF LeadsTo, Outcomes
      <4>2. m \in Range(Follow(n, "plain"))
        BY <2>1, <3>2 DEF LeadsTo
      <4> QED
        BY <4>1, <4>2 DEF Labels
    <3> QED
      BY <3>1, <3>2
  <2> QED
    BY <2>2, <2>3 DEF Outs
<1> QED
  BY <1>1, <1>2 DEF Journey!Enter, Entries, Outs

LEMMA WalkActs ==
    ASSUME WInv, NEW n \in Nodes, step[n] # "none", Kind[n] = "ACTION", effects[n] = 0,
           Outcomes(n) = {}, effects' = [effects EXCEPT ![n] = 1],
           Entries' = Entries, Outs' = Outs
    PROVE  Journey!Act(n)
  BY DEF Journey!Act, Entries, Outs

LEMMA WalkComesOut ==
    ASSUME WInv, NEW n \in Nodes, NEW d \in Journey!Possible(n), step[n] # "none",
           Kind[n] # "APPROVAL" => Outcomes(n) = {},
           Kind[n] = "ACTION" => effects[n] = 1,
           Outcomes(n)' = Outcomes(n) \cup {d},
           \A m \in Nodes \ {n} : Outcomes(m)' = Outcomes(m),
           Entries' = Entries, effects' = effects
    PROVE  Journey!ComeOut(n, d)
<1>1. Outs' = [Outs EXCEPT ![n] = @ \cup {d}]
  BY DEF Outs
<1> QED
  BY <1>1 DEF Journey!ComeOut, Entries, Outs

\* A run that nobody has started is a walk that has not begun.
LEMMA WalkInit == Init => WalkInv /\ Journey!Init
<1> SUFFICES ASSUME Init PROVE WalkInv /\ Journey!Init
  OBVIOUS
<1>1. \A t \in Tasks : task[t].pc = "idle"
  BY DEF Init, Idle
<1>2. \A n \in Nodes : step[n] = "none" /\ ~persisted[n] /\ decisions[n] = {}
  BY DEF Init
<1>3. \A n \in Nodes : Outcomes(n) = {}
  BY <1>2 DEF Outcomes
<1>4. Entries = {} /\ Outs = [n \in Nodes |-> {}] /\ effects = [n \in Nodes |-> 0]
  BY <1>2, <1>3 DEF Entries, Outs, Init
<1>5. Journey!Init
  BY <1>4 DEF Journey!Init, Entries, Outs
<1> QED
  BY <1>1, <1>2, <1>5 DEF WalkInv, FreshOK

\* What the runtime does on the graph, one step of Walk at a time.
LEMMA GraphWalks ==
    ASSUME WInv, WalkInv, NEW t \in Tasks,
           Visit(t) \/ PassNode(t) \/ Act(t) \/ RecordAction(t) \/ FailNode(t) \/ Pause(t)
    PROVE  [Journey!Next]_Journey!vars
<1>1. /\ task[t] \in TaskRecord /\ TaskOK(t) /\ FreshOK(t)
      /\ step \in [Nodes -> StepStatus] /\ effects \in [Nodes -> Nat]
      /\ persisted \in [Nodes -> BOOLEAN] /\ decisions \in [Nodes -> SUBSET Labels]
  BY DEF WInv, RowsOK, WorkflowTypeOK, WalkInv
<1>2. PICK n \in Nodes : n = task[t].at
  BY <1>1 DEF TaskRecord
<1>3. CASE Visit(t)
  <2>1. CASE UNCHANGED step
    <3>1. \A m \in Nodes : Outcomes(m)' = Outcomes(m)
      BY <1>3, <2>1, SameOutcome DEF Visit, world
    <3>2. Entries' = Entries /\ Outs' = Outs /\ effects' = effects
      BY <1>3, <2>1, <3>1, SameEntries, SameOuts DEF Visit, world
    <3> QED
      BY <3>2, WalkStays
  <2>2. ASSUME NEW h \in Nodes, Asked(h), step[h] = "none",
               step' = [step EXCEPT ![h] = "RUNNING"], UNCHANGED world
        PROVE  Journey!Next
    <3>1. \A m \in Nodes : Outcomes(m)' = Outcomes(m)
      BY <1>1, <2>2, SameOutcome DEF world
    <3>2. Entries' = Entries \cup {h}
      BY <1>1, <2>2 DEF Entries
    <3>3. Journey!Enter(h)
      BY <2>2, <3>1, <3>2, SameOuts, WalkEnters DEF world
    <3> QED
      BY <3>3 DEF Journey!Next
  <2>3. Head(task[t].queue) \in Nodes /\ Asked(Head(task[t].queue))
    <3>1. 1 \in 1 .. Len(task[t].queue) /\ Head(task[t].queue) = task[t].queue[1]
          /\ Head(task[t].queue) \in Nodes
      BY <1>1, <1>3 DEF Visit, TaskRecord
    <3> QED
      BY <1>1, <3>1 DEF TaskOK
  <2> QED
    BY <1>3, <2>1, <2>2, <2>3 DEF Visit
<1>4. CASE PassNode(t)
  <2>1. step[n] # "none" /\ (Kind[n] = "TRIGGER" => step[n] = "RUNNING")
        /\ (Kind[n] = "CONDITION" => decisions[n] = {})
    BY <1>1, <1>2, <1>4 DEF PassNode, At, TaskOK, OwnPC, FreshOK
  <2>2. step' = [step EXCEPT ![n] = "SUCCEEDED"] /\ UNCHANGED <<effects, persisted>>
    BY <1>2, <1>4 DEF PassNode, Succeed
  <2>3. Entries' = Entries
    BY <1>1, <2>1, <2>2, SameEntries
  <2>4. CASE Kind[n] = "TRIGGER" /\ UNCHANGED decisions
    <3>1. Outcomes(n) = {} /\ Outcomes(n)' = {"plain"} /\ "plain" \in Journey!Possible(n)
      BY <1>1, <2>1, <2>2, <2>4 DEF Outcomes, Journey!Possible
    <3>2. \A m \in Nodes \ {n} : Outcomes(m)' = Outcomes(m)
      BY <1>1, <2>2, <2>4, SameOutcome
    <3>3. Journey!ComeOut(n, "plain")
      BY <2>1, <2>2, <2>3, <2>4, <3>1, <3>2, WalkComesOut
    <3> QED
      BY <3>1, <3>3 DEF Journey!Next
  <2>5. ASSUME Kind[n] = "CONDITION", NEW l \in {"true", "false"},
               decisions' = [decisions EXCEPT ![n] = decisions[n] \cup {l}]
        PROVE  Journey!Next
    <3>1. Outcomes(n) = {} /\ Outcomes(n)' = {l} /\ l \in Journey!Possible(n)
      BY <1>1, <2>1, <2>5 DEF Outcomes, Journey!Possible
    <3>2. \A m \in Nodes \ {n} : Outcomes(m)' = Outcomes(m)
      BY <1>1, <2>2, <2>5, SameOutcome
    <3>3. Journey!ComeOut(n, l)
      BY <2>1, <2>2, <2>3, <2>5, <3>1, <3>2, WalkComesOut
    <3> QED
      BY <3>1, <3>3 DEF Journey!Next
  <2> QED
    BY <1>2, <1>4, <2>4, <2>5 DEF PassNode
<1>5. CASE Act(t)
  <2>1. step[n] = "RUNNING" /\ Kind[n] = "ACTION" /\ effects[n] = 0
    BY <1>1, <1>2, <1>5 DEF Act, At, TaskOK, OwnPC
  <2>2. effects' = [effects EXCEPT ![n] = 1] /\ UNCHANGED <<step, persisted, decisions>>
    BY <1>1, <1>2, <1>5, <2>1 DEF Act, rows
  <2>3. \A m \in Nodes : Outcomes(m)' = Outcomes(m)
    BY <2>2, SameOutcome
  <2>4. Outcomes(n) = {}
    BY <2>1 DEF Outcomes
  <2>5. Journey!Act(n)
    BY <2>1, <2>2, <2>3, <2>4, SameEntries, SameOuts, WalkActs
  <2> QED
    BY <2>5 DEF Journey!Next
<1>6. CASE RecordAction(t)
  <2>1. step[n] = "RUNNING" /\ Kind[n] = "ACTION" /\ effects[n] = 1
    BY <1>1, <1>2, <1>6 DEF RecordAction, At, TaskOK, OwnPC, FreshOK
  <2>2. step' = [step EXCEPT ![n] = "SUCCEEDED"] /\ UNCHANGED <<effects, persisted, decisions>>
    BY <1>2, <1>6 DEF RecordAction, Succeed, world
  <2>3. Outcomes(n) = {} /\ Outcomes(n)' = {"plain"} /\ "plain" \in Journey!Possible(n)
    BY <1>1, <2>1, <2>2 DEF Outcomes, Journey!Possible
  <2>4. \A m \in Nodes \ {n} : Outcomes(m)' = Outcomes(m)
    BY <1>1, <2>2, SameOutcome
  <2>5. Entries' = Entries
    BY <1>1, <2>1, <2>2, SameEntries
  <2>6. Journey!ComeOut(n, "plain")
    BY <2>1, <2>2, <2>3, <2>4, <2>5, WalkComesOut
  <2> QED
    BY <2>3, <2>6 DEF Journey!Next
<1>7. CASE FailNode(t) \/ Pause(t)
  <2>1. /\ step[n] # "none" /\ step'[n] \notin {"none", "SUCCEEDED"}
        /\ Kind[n] \in {"TRIGGER", "ACTION"} => step[n] = "RUNNING"
        /\ \A m \in Nodes : m # n => step'[m] = step[m]
        /\ UNCHANGED <<effects, persisted, decisions>>
    BY <1>1, <1>2, <1>7 DEF FailNode, Pause, At, TaskOK, OwnPC, Waits, world
  <2>2. \A m \in Nodes : Outcomes(m)' = Outcomes(m)
    BY <2>1, SameOutcome
  <2>3. Entries' = Entries
    BY <2>1, SameEntries
  <2> QED
    BY <2>1, <2>2, <2>3, SameOuts, WalkStays
<1> QED
  BY <1>3, <1>4, <1>5, <1>6, <1>7

\* What approvers, timeouts and answers do is a step of Walk or none of its business.
LEMMA ResumeWalks ==
    ASSUME WInv, WalkInv, NEW t \in Tasks,
           Decide(t) \/ DecideStep(t) \/ Expire(t) \/ Persist(t) \/ CompleteStep(t)
              \/ FailStep(t)
    PROVE  [Journey!Next]_Journey!vars
<1>1. /\ task[t] \in TaskRecord /\ TaskOK(t)
      /\ step \in [Nodes -> StepStatus] /\ effects \in [Nodes -> Nat]
      /\ persisted \in [Nodes -> BOOLEAN] /\ decisions \in [Nodes -> SUBSET Labels]
  BY DEF WInv, RowsOK, WorkflowTypeOK
<1>2. PICK n \in Nodes : n = task[t].at
  BY <1>1 DEF TaskRecord
<1>3. PICK h \in Nodes : h = task[t].home
  BY <1>1 DEF TaskRecord
<1>4. ASSUME NEW d \in {"approved", "rejected", "timeout"}, Kind[n] = "APPROVAL",
             step[n] # "none", decisions' = [decisions EXCEPT ![n] = decisions[n] \cup {d}],
             UNCHANGED <<step, effects, persisted>>
      PROVE  Journey!Next
  <2>1. Outcomes(n)' = Outcomes(n) \cup {d} /\ d \in Journey!Possible(n)
    BY <1>1, <1>4 DEF Outcomes, Journey!Possible
  <2>2. \A m \in Nodes \ {n} : Outcomes(m)' = Outcomes(m)
    BY <1>1, <1>4, SameOutcome
  <2>3. Journey!ComeOut(n, d)
    BY <1>4, <2>1, <2>2, SameEntries, WalkComesOut
  <2> QED
    BY <2>1, <2>3 DEF Journey!Next
<1>5. CASE Decide(t)
  <2>1. Kind[n] = "APPROVAL" /\ step[n] # "none"
        /\ task[t].result \in {"approved", "rejected", "timeout"}
    BY <1>1, <1>2, <1>5 DEF Decide, At, TaskOK, ApprovalPC
  <2>2. PICK d \in {"approved", "rejected", "timeout"} : d = task[t].result
    BY <2>1
  <2> QED
    BY <1>2, <1>4, <1>5, <2>1, <2>2 DEF Decide
<1>6. CASE Expire(t)
  <2>1. Kind[n] = "APPROVAL" /\ step[n] # "none"
    BY <1>1, <1>2, <1>6 DEF Expire, At, TaskOK, ApprovalPC
  <2> QED
    BY <1>2, <1>4, <1>6, <2>1 DEF Expire
<1>7. CASE Persist(t)
  <2>1. Kind[n] = "AI" /\ step[n] # "none"
    BY <1>1, <1>2, <1>7 DEF Persist, At, TaskOK, JobPC
  <2>2. UNCHANGED <<step, effects, decisions>>
    BY <1>7 DEF Persist, rows
  <2>3. CASE UNCHANGED persisted
    <3>1. \A m \in Nodes : Outcomes(m)' = Outcomes(m)
      BY <2>2, <2>3, SameOutcome
    <3> QED
      BY <2>2, <3>1, SameEntries, SameOuts, WalkStays
  <2>4. CASE persisted' = [persisted EXCEPT ![n] = TRUE]
    <3>1. \A m \in Nodes \ {n} : Outcomes(m)' = Outcomes(m)
      BY <1>1, <2>2, <2>4, SameOutcome
    <3>2. CASE persisted[n]
      <4>1. \A m \in Nodes : Outcomes(m)' = Outcomes(m)
        BY <1>1, <2>2, <2>4, <3>2, SameOutcome
      <4> QED
        BY <2>2, <4>1, SameEntries, SameOuts, WalkStays
    <3>3. CASE ~persisted[n]
      <4>1. Outcomes(n) = {} /\ Outcomes(n)' = {"plain"} /\ "plain" \in Journey!Possible(n)
        BY <1>1, <2>1, <2>4, <3>3 DEF Outcomes, Journey!Possible
      <4>2. Journey!ComeOut(n, "plain")
        BY <2>1, <2>2, <3>1, <4>1, SameEntries, WalkComesOut
      <4> QED
        BY <4>1, <4>2 DEF Journey!Next
    <3> QED
      BY <3>2, <3>3
  <2> QED
    BY <1>2, <1>7, <2>3, <2>4 DEF Persist
<1>8. ASSUME NEW k \in Nodes, Kind[k] \notin {"TRIGGER", "ACTION"}, step[k] # "none",
             NEW status \in StepStatus \ {"none"}, step' = [step EXCEPT ![k] = status],
             UNCHANGED <<effects, persisted, decisions>>
      PROVE  UNCHANGED Journey!vars
  <2>1. \A m \in Nodes : Outcomes(m)' = Outcomes(m)
    BY <1>1, <1>8, SameOutcome
  <2>2. Entries' = Entries
    BY <1>1, <1>8, SameEntries
  <2> QED
    BY <1>8, <2>1, <2>2, SameOuts, WalkStays
<1>9. CASE DecideStep(t) \/ CompleteStep(t)
  <2>1. Kind[n] \in {"APPROVAL", "AI"} /\ step[n] # "none"
    BY <1>1, <1>2, <1>9 DEF DecideStep, CompleteStep, At, TaskOK, ApprovalPC, JobPC, StoredPC
  <2>2. PICK status \in {"SUCCEEDED", "FAILED"} : step' = [step EXCEPT ![n] = status]
    BY <1>2, <1>9 DEF DecideStep, CompleteStep
  <2>3. UNCHANGED <<effects, persisted, decisions>>
    BY <1>9 DEF DecideStep, CompleteStep, world
  <2> QED
    BY <1>8, <2>1, <2>2, <2>3 DEF StepStatus
<1>10. CASE FailStep(t)
  <2>1. Kind[h] = "AI" /\ step[h] # "none"
    BY <1>1, <1>3, <1>10 DEF FailStep, At, TaskOK, FailPC
  <2>2. step' = [step EXCEPT ![h] = "FAILED"] /\ UNCHANGED <<effects, persisted, decisions>>
    BY <1>3, <1>10 DEF FailStep, world
  <2> QED
    BY <1>8, <2>1, <2>2 DEF StepStatus
<1> QED
  BY <1>5, <1>6, <1>7, <1>9, <1>10

LEMMA JourneyStep ==
    WInv /\ WalkInv /\ [Next]_vars => [Journey!Next]_Journey!vars
<1> SUFFICES ASSUME WInv, WalkInv, [Next]_vars PROVE [Journey!Next]_Journey!vars
  OBVIOUS
<1>1. ASSUME UNCHANGED <<step, effects, persisted, decisions>>
      PROVE  UNCHANGED Journey!vars
  <2>1. \A m \in Nodes : Outcomes(m)' = Outcomes(m)
    BY <1>1, SameOutcome
  <2> QED
    BY <1>1, <2>1, SameEntries, SameOuts, WalkStays
<1>2. CASE UNCHANGED vars \/ Ingest \/ \E n \in Nodes : Answer(n)
  BY <1>1, <1>2 DEF vars, rows, world, Ingest, Answer
<1>3. ASSUME NEW t \in Tasks, AnyMove(t)
      PROVE  [Journey!Next]_Journey!vars
  <2>1. CASE WalkMove(t)
    BY <2>1, GraphWalks, ResumeWalks DEF WalkMove
  <2>2. CASE ~WalkMove(t)
    BY <1>1, <1>3, <2>2, OtherMoves
  <2> QED
    BY <2>1, <2>2
<1> QED
  BY <1>2, <1>3 DEF Next, AnyMove, Tasks

-----------------------------------------------------------------------------
(* Theorems *)

LEMMA InitInv == Init => WInv
<1> SUFFICES ASSUME Init PROVE WInv
  OBVIOUS
<1>1. WorkflowTypeOK
  <2>1. <<>> \in Seq(Terminal \cup {"in_progress"}) /\ Len(<<>>) = 0
    OBVIOUS
  <2>2. answers \in [Nodes -> Seq(Terminal \cup {"in_progress"})]
        /\ \A n \in Nodes : Len(answers[n]) = 0
    BY <2>1 DEF Init
  <2>3. decisions \in [Nodes -> SUBSET Labels]
    BY DEF Init
  <2> QED
    BY <2>2, <2>3, WorkflowAssumption DEF Init, WorkflowTypeOK, RunStatus, StepStatus
<1>2. RowsOK
  BY <1>1 DEF Init, RowsOK
<1>3. task \in [Tasks -> TaskRecord]
  BY IdleOK DEF Init
<1>4. \A t \in Tasks : task[t].pc = "idle" /\ task[t].origin = "none" /\ task[t].queue = <<>>
  BY DEF Init, Idle
<1>5. OneOwner /\ \A t \in Tasks : TaskOK(t)
  BY <1>4 DEF OneOwner, TaskOK, OwnPC, ApprovalPC, StoredPC, JobPC, FailPC
<1> QED
  BY <1>2, <1>3, <1>5 DEF WInv

LEMMA NextInv == WInv /\ [Next]_vars => WInv'
<1> SUFFICES ASSUME WInv, [Next]_vars PROVE WInv'
  OBVIOUS
<1>1. ASSUME NEW t \in Tasks, GraphStep(t)
      PROVE  WInv'
  BY <1>1, NodeSteps, WaitSteps DEF GraphStep
<1>2. ASSUME NEW t \in Tasks, JobStep(t)
      PROVE  WInv'
  BY <1>2, AskingSteps, SettlingSteps DEF JobStep
<1>3. ASSUME NEW t \in Tasks, BeginDispatch(t) \/ TaskStep(t) \/ Crash(t)
      PROVE  WInv'
  BY <1>1, <1>2, <1>3, BeginSteps, EventSteps, ApprovalSteps, CrashStep
     DEF BeginDispatch, TaskStep
<1>4. ASSUME NEW t \in Workers, PickJob(t) \/ PickPoll(t)
      PROVE  WInv'
  BY <1>4, BeginSteps DEF Tasks
<1>5. ASSUME NEW t \in Requests, ReadApproval(t) \/ Webhook(t)
      PROVE  WInv'
  BY <1>5, BeginSteps DEF Tasks
<1>6. CASE UNCHANGED vars
  <2>1. UNCHANGED <<event, attempts, ingests, run, step, approval, job, responseId, answers,
                    effects, persisted, decisions, faults, task>>
    BY <1>6 DEF vars, rows, world
  <2>2. event \in {"none", "QUEUED", "DISPATCHED", "DEAD_LETTER"} /\ attempts \in Nat
        /\ ingests \in 0 .. MaxIngests /\ run \in RunStatus
        /\ answers \in [Nodes -> Seq(Terminal \cup {"in_progress"})]
    BY DEF WInv, RowsOK, WorkflowTypeOK
  <2> QED
    BY <2>1, <2>2, RowFrame
<1> QED
  BY <1>3, <1>4, <1>5, <1>6, SourceSteps DEF Next

\* The rows and the tasks that move them stay tied together, whoever overlaps,
\* retries or dies: the inductive invariant behind the theorems below.
THEOREM WorkflowInvariance == Spec => []WInv
<1> QED
  BY InitInv, NextInv, PTL DEF Spec

\* Types, for every graph.
THEOREM WorkflowTyped == Spec => []WorkflowTypeOK
<1>1. WInv => WorkflowTypeOK
  BY DEF WInv, RowsOK
<1> QED
  BY <1>1, WorkflowInvariance, PTL

\* executeRunGraph: the unique key of a step keeps every action of every graph from
\* being carried out twice, by any number of workers, approvers and webhooks.
THEOREM ActionsOnce == Spec => []EffectsOnce
<1>1. WInv => EffectsOnce
  BY DEF WInv, RowsOK, EffectsOnce
<1> QED
  BY <1>1, WorkflowInvariance, PTL

\* executeRunGraph, resolveWorkflowApproval, resumeWorkflowRunAfterNode: a node is
\* executed only where a decision, a stored answer or a finished step leads to it.
THEOREM NothingUnasked == Spec => []NothingRunsUnasked
<1>1. WInv => NothingRunsUnasked
  BY DEF WInv, RowsOK, NothingRunsUnasked, Asked
<1> QED
  BY <1>1, WorkflowInvariance, PTL

\* settleAutomationAiJobWithResponse: a job has SUCCEEDED only with its envelope stored.
THEOREM SettledStored == Spec => []SettledIsPersisted
<1>1. WInv => SettledIsPersisted
  BY DEF WInv, RowsOK, SettledIsPersisted
<1> QED
  BY <1>1, WorkflowInvariance, PTL

\* Whatever overlaps, and for every graph, a run that waits for what is over already
\* has been brought there by a crash, or by an executeRunGraph that wrote its wait
\* after its own job was settled or its own approval decided: approvers, timeouts,
\* polls and webhooks write the run and what it waits for in an order that ends well.
THEOREM OnlyLateStrands == Spec => OnlyLateWritesStrand
<1>1. /\ WInv /\ [Next]_vars
      => (~ Stranded /\ Stranded' => faults' > faults \/ \E t \in Tasks : WritesLate(t))
  BY StrandStep
<1>2. WInv /\ [Next]_vars
      => [~ Stranded /\ Stranded' => faults' > faults \/ \E t \in Tasks : WritesLate(t)]_vars
  BY <1>1
<1> QED
  BY <1>2, WorkflowInvariance, PTL DEF Spec, OnlyLateWritesStrand

\* A run is a Walk of its graph: whatever workers, approvers, polls, webhooks and
\* crashes do to it, executeRunGraph, resolveWorkflowApproval, processTimedOutApprovals
\* and resumeWorkflowRunAfterNode enter every node once and behind an outcome that
\* leads to it, and nothing but an approval comes out in two ways.
THEOREM RuntimeWalks == Spec => ImplementsWalk
<1>1. Spec => [](WInv /\ WalkInv)
  <2>1. WInv /\ WalkInv /\ [Next]_vars => WInv' /\ WalkInv'
    BY NextInv, WalkStep
  <2> QED
    BY <2>1, InitInv, WalkInit, PTL DEF Spec
<1>2. Init => Journey!Init
  BY WalkInit
<1>3. WInv /\ WalkInv /\ [Next]_vars => [Journey!Next]_Journey!vars
  BY JourneyStep
<1> QED
  BY <1>1, <1>2, <1>3, PTL DEF Spec, ImplementsWalk, Journey!Spec
=============================================================================
