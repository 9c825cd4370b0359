--------------------------- MODULE Recommendation ---------------------------
(***************************************************************************)
(* The recommendations an AI job leaves behind (lib/automations/store.ts,  *)
(* recommendations.ts): proposals of external actions, such as sending a   *)
(* mail, that people approve or reject and that the execute route or an    *)
(* ACTION node of the run carries out.                                     *)
(*                                                                         *)
(* Nobody takes a lock.  A reviewer checks the status it has read and then *)
(* writes by id; an executor reads the row once, calls the provider, which *)
(* takes seconds and retries, and then writes by id; and an envelope that  *)
(* is stored again overwrites the row under both.                          *)
(***************************************************************************)
EXTENDS Naturals, FiniteSets

CONSTANTS
    Recs,          \* recommendations of a run, by dedupeKey
    Manual,        \* those whose actionType the program cannot execute
    Reviewers,     \* approve and reject requests
    Executors,     \* execute requests and ACTION nodes
    MaxTries,      \* maxAttempts of an HTTP call (3)
    MaxVersions,   \* bound: how often an envelope with r is stored
    MaxOrders,     \* bound: executions asked for
    MaxFaults      \* bound: executors that die, answers that are lost

ASSUME RecommendationAssumption ==
    /\ "none" \notin Recs
    /\ IsFiniteSet(Recs) /\ IsFiniteSet(Executors)
    /\ MaxTries \in Nat \ {0}
    /\ {MaxVersions, MaxOrders, MaxFaults} \subseteq Nat

VARIABLES
    row,         \* the AutomationRecommendation; version counts its envelopes
    review,      \* review[d]: a decision whose status check has passed
    exec,        \* exec[x]: where an executor stands, and its copy of the row
    orders,
    faults,
    mandates,    \* <<r, v>>: version v of r was approved, or needed no approval
    deeds,       \* <<r, v>>: the provider did what version v of r asks for
    done,        \* done[r]: how often the provider did r's action
    excuses      \* excuses[r]: events that explain one repetition of r's action

vars == <<row, review, exec, orders, faults, mandates, deeds, done, excuses>>

Statuses == {"none", "PENDING_APPROVAL", "APPROVED", "REJECTED", "EXECUTED", "FAILED"}
Final == {"EXECUTED", "FAILED"}

NoRow == [status |-> "none", needs |-> FALSE, version |-> 0]
NoReview == [rec |-> "none", seen |-> "none", status |-> "none"]
Free == [pc |-> "idle", rec |-> "none", read |-> NoRow, todo |-> {}, tries |-> 0,
         attempted |-> 0, executed |-> 0, failed |-> 0]

Init ==
    /\ row = [r \in Recs |-> NoRow]
    /\ review = [d \in Reviewers |-> NoReview]
    /\ exec = [x \in Executors |-> Free]
    /\ orders = 0 /\ faults = 0
    /\ mandates = {} /\ deeds = {}
    /\ done = [r \in Recs |-> 0]
    /\ excuses = [r \in Recs |-> 0]

\* The executors that hold a copy of r and have not yet written their result.
InHand(r) == {x \in Executors : exec[x].rec = r}

Move(x, e) == exec' = [exec EXCEPT ![x] = e]

Excuse(r) == excuses' = [excuses EXCEPT ![r] = @ + 1]
ExcuseIf(condition, r) == IF condition THEN Excuse(r) ELSE UNCHANGED excuses

-----------------------------------------------------------------------------
(* persistAutomationEnvelope *)

\* Mutant of Store: an update leaves the status to the reviewers.
StoreKeepingStatus(r) ==
    /\ row[r].version < MaxVersions
    /\ \E needs \in BOOLEAN :
          /\ row' = [row EXCEPT ![r] =
                        [status |-> IF @.status # "none" THEN @.status
                                    ELSE IF needs THEN "PENDING_APPROVAL" ELSE "APPROVED",
                         needs |-> needs, version |-> @.version + 1]]
          /\ mandates' = IF needs THEN mandates
                         ELSE mandates \cup {<<r, row[r].version + 1>>}
    /\ ExcuseIf(row[r].status # "none", r)
    /\ UNCHANGED <<review, exec, orders, faults, deeds, done>>

\* The upsert of one recommendation of an envelope.  A job that is settled again,
\* after a failed settlement with another response, overwrites what it finds.
Store(r) ==
    /\ row[r].version < MaxVersions
    /\ \E needs \in BOOLEAN :
          /\ row' = [row EXCEPT ![r] =
                        [status |-> IF needs THEN "PENDING_APPROVAL" ELSE "APPROVED",
                         needs |-> needs, version |-> @.version + 1]]
          /\ mandates' = IF needs THEN mandates
                         ELSE mandates \cup {<<r, row[r].version + 1>>}
    /\ ExcuseIf(row[r].status # "none", r)
    /\ UNCHANGED <<review, exec, orders, faults, deeds, done>>

-----------------------------------------------------------------------------
(* resolveAutomationRecommendation *)

\* Mutant of Check: a resolved recommendation can be decided.
CheckNothing(d) ==
    /\ review[d] = NoReview
    /\ \E r \in Recs, status \in {"APPROVED", "REJECTED"} :
          /\ row[r].status # "none"
          /\ review' = [review EXCEPT ![d] =
                           [rec |-> r, seen |-> row[r].status, status |-> status]]
    /\ UNCHANGED <<row, exec, orders, faults, mandates, deeds, done, excuses>>

\* The row is read and its status checked; the reviewer's role is looked up next.
Check(d) ==
    /\ review[d] = NoReview
    /\ \E r \in Recs, status \in {"APPROVED", "REJECTED"} :
          /\ row[r].status \notin {"none"} \cup Final
          /\ review' = [review EXCEPT ![d] =
                           [rec |-> r, seen |-> row[r].status, status |-> status]]
    /\ UNCHANGED <<row, exec, orders, faults, mandates, deeds, done, excuses>>

\* The lookup forbids it, or the request dies.
Withdraw(d) ==
    /\ review[d] # NoReview
    /\ review' = [review EXCEPT ![d] = NoReview]
    /\ UNCHANGED <<row, exec, orders, faults, mandates, deeds, done, excuses>>

\* The update by id, whatever the row has become.
Resolve(d) ==
    /\ review[d] # NoReview
    /\ LET r == review[d].rec
       IN /\ row' = [row EXCEPT ![r].status = review[d].status]
          /\ mandates' = IF review[d].status = "APPROVED"
                         THEN mandates \cup {<<r, row[r].version>>} ELSE mandates
          /\ ExcuseIf(row[r].status \in Final, r)
    /\ review' = [review EXCEPT ![d] = NoReview]
    /\ UNCHANGED <<exec, orders, faults, deeds, done>>

-----------------------------------------------------------------------------
(* executeAutomationRecommendation, executeApprovedRecommendationsForRun *)

Order(x, recs) ==
    /\ exec[x].pc = "idle"
    /\ orders < MaxOrders
    /\ orders' = orders + 1
    /\ Move(x, [Free EXCEPT !.pc = "next", !.todo = recs,
                            !.attempted = Cardinality(recs)])
    /\ UNCHANGED <<row, review, faults, mandates, deeds, done, excuses>>

\* The execute route, for any recommendation there is.
OrderOne(x) == \E r \in Recs : row[r].status # "none" /\ Order(x, {r})

\* An ACTION node: the approved ones of the run, those its configuration selects.
OrderBatch(x) ==
    \E recs \in SUBSET {r \in Recs \ Manual : row[r].status = "APPROVED"} :
       recs # {} /\ Order(x, recs)

\* Mutant of Reuse: the row is returned in its new state without being counted.
ReuseUncounted(x) ==
    /\ exec[x].pc = "next"
    /\ \E r \in exec[x].todo :
          /\ row[r].status = "EXECUTED"
          /\ Move(x, [exec[x] EXCEPT !.todo = @ \ {r}])
    /\ UNCHANGED <<row, review, orders, faults, mandates, deeds, done, excuses>>

\* The row is read again: it has been executed, and is returned as it is.
Reuse(x) ==
    /\ exec[x].pc = "next"
    /\ \E r \in exec[x].todo :
          /\ row[r].status = "EXECUTED"
          /\ Move(x, [exec[x] EXCEPT !.todo = @ \ {r}, !.executed = @ + 1])
    /\ UNCHANGED <<row, review, orders, faults, mandates, deeds, done, excuses>>

Executable(r) ==
    /\ row[r].status \notin {"EXECUTED", "REJECTED"}
    /\ row[r].needs => row[r].status = "APPROVED"
    /\ r \notin Manual

\* An exception, which gives up the rest of a batch too.
Refuse(x) ==
    /\ exec[x].pc = "next"
    /\ \E r \in exec[x].todo : row[r].status # "EXECUTED" /\ ~Executable(r)
    /\ Move(x, Free)
    /\ UNCHANGED <<row, review, orders, faults, mandates, deeds, done, excuses>>

\* Mutant of Take: an executed recommendation is executed again.
TakeAgain(x) ==
    /\ exec[x].pc = "next"
    /\ \E r \in exec[x].todo :
          /\ Executable(r) \/ row[r].status = "EXECUTED"
          /\ Move(x, [exec[x] EXCEPT !.pc = "call", !.rec = r, !.read = row[r],
                                  !.tries = 0])
          /\ ExcuseIf(row[r].status = "FAILED" \/ InHand(r) # {}, r)
    /\ UNCHANGED <<row, review, orders, faults, mandates, deeds, done>>

Take(x) ==
    /\ exec[x].pc = "next"
    /\ \E r \in exec[x].todo :
          /\ Executable(r)
          /\ Move(x, [exec[x] EXCEPT !.pc = "call", !.rec = r, !.read = row[r],
                                  !.tries = 0])
          /\ ExcuseIf(row[r].status = "FAILED" \/ InHand(r) # {}, r)
    /\ UNCHANGED <<row, review, orders, faults, mandates, deeds, done>>

\* The provider does what it was asked.
Perform(x) ==
    /\ done' = [done EXCEPT ![exec[x].rec] = @ + 1]
    /\ deeds' = deeds \cup {<<exec[x].rec, exec[x].read.version>>}

\* An answer arrives; it may be unreadable, or a second call of the action fails.
Answer(x) ==
    /\ exec[x].pc = "call"
    /\ Perform(x)
    /\ \E pc \in {"executed", "failed"} : Move(x, [exec[x] EXCEPT !.pc = pc])
    /\ UNCHANGED <<row, review, orders, faults, mandates, excuses>>

\* Mutant of Again: the count starts over.
AgainFromZero(x) == Move(x, [exec[x] EXCEPT !.tries = (@ + 1) % MaxTries])

\* Mutant of Again: one attempt too many.
AgainOnceMore(x) ==
    Move(x, [exec[x] EXCEPT !.tries = @ + 1,
                            !.pc = IF exec[x].tries + 1 > MaxTries THEN "failed" ELSE @])

\* fetchWithResilience tries again after a timeout, a 429 or a 5xx.
Again(x) ==
    Move(x, [exec[x] EXCEPT !.tries = @ + 1,
                            !.pc = IF exec[x].tries + 1 = MaxTries THEN "failed" ELSE @])

\* The provider has done it, and its answer is lost.
LoseAnswer(x) ==
    /\ exec[x].pc = "call"
    /\ faults < MaxFaults
    /\ faults' = faults + 1
    /\ Perform(x)
    /\ Again(x)
    /\ Excuse(exec[x].rec)
    /\ UNCHANGED <<row, review, orders, mandates>>

NoAnswer(x) ==
    /\ exec[x].pc = "call"
    /\ Again(x)
    /\ UNCHANGED <<row, review, orders, faults, mandates, deeds, done, excuses>>

\* The action is skipped for want of data, or refused for good.
GiveUp(x) ==
    /\ exec[x].pc = "call"
    /\ Move(x, [exec[x] EXCEPT !.pc = "failed"])
    /\ UNCHANGED <<row, review, orders, faults, mandates, deeds, done, excuses>>

\* Mutant of Record: a skipped action counts as executed.
RecordSkipped(x) ==
    /\ exec[x].pc \in {"executed", "failed"}
    /\ row' = [row EXCEPT ![exec[x].rec].status = "EXECUTED"]
    /\ Move(x, [exec[x] EXCEPT !.pc = "next", !.rec = "none", !.read = NoRow,
                               !.todo = @ \ {exec[x].rec}, !.tries = 0,
                               !.executed = @ + 1])
    /\ UNCHANGED <<review, orders, faults, mandates, deeds, done, excuses>>

\* The update by id, whatever the row has become.
Record(x) ==
    /\ exec[x].pc \in {"executed", "failed"}
    /\ row' = [row EXCEPT ![exec[x].rec].status =
                  IF exec[x].pc = "executed" THEN "EXECUTED" ELSE "FAILED"]
    /\ Move(x, [exec[x] EXCEPT !.pc = "next", !.rec = "none", !.read = NoRow,
                               !.todo = @ \ {exec[x].rec}, !.tries = 0,
                               !.executed = IF exec[x].pc = "executed" THEN @ + 1 ELSE @,
                               !.failed = IF exec[x].pc = "failed" THEN @ + 1 ELSE @])
    /\ UNCHANGED <<review, orders, faults, mandates, deeds, done, excuses>>

\* The result goes to the caller.
Report(x) ==
    /\ exec[x].pc = "next"
    /\ exec[x].todo = {}
    /\ Move(x, Free)
    /\ UNCHANGED <<row, review, orders, faults, mandates, deeds, done, excuses>>

\* The process dies, or the update fails: nothing says that an action was begun.
Abandon(x) ==
    /\ exec[x].pc # "idle"
    /\ faults < MaxFaults
    /\ faults' = faults + 1
    /\ Move(x, Free)
    /\ IF exec[x].rec \in Recs THEN Excuse(exec[x].rec) ELSE UNCHANGED excuses
    /\ UNCHANGED <<row, review, orders, mandates, deeds, done>>

-----------------------------------------------------------------------------

ReviewStep(d) == Check(d) \/ Withdraw(d) \/ Resolve(d)

OrderStep(x) == OrderOne(x) \/ OrderBatch(x)

ExecStep(x) ==
    \/ Reuse(x) \/ Refuse(x) \/ Take(x) \/ Answer(x) \/ LoseAnswer(x)
    \/ NoAnswer(x) \/ GiveUp(x) \/ Record(x) \/ Report(x)

Next ==
    \/ \E r \in Recs : Store(r)
    \/ \E d \in Reviewers : ReviewStep(d)
    \/ \E x \in Executors : OrderStep(x) \/ ExecStep(x) \/ Abandon(x)

\* An executor at work goes on; nobody has to decide or to ask.
Spec == Init /\ [][Next]_vars /\ \A x \in Executors : WF_vars(ExecStep(x))

-----------------------------------------------------------------------------
(* Properties *)

RowType == [status : Statuses, needs : BOOLEAN, version : Nat]
ReviewType == [rec : Recs, seen : Statuses, status : {"APPROVED", "REJECTED"}]
ExecType ==
    [pc : {"idle", "next", "call", "executed", "failed"}, rec : Recs \cup {"none"},
     read : RowType, todo : SUBSET Recs, tries : 0 .. MaxTries,
     attempted : Nat, executed : Nat, failed : Nat]

\* The state is well formed; a call stays within its attempts.
RecommendationTypeOK ==
    /\ row \in [Recs -> RowType]
    /\ review \in [Reviewers -> {NoReview} \cup ReviewType]
    /\ exec \in [Executors -> ExecType]
    /\ \A x \in Executors : exec[x].pc = "call" => exec[x].tries < MaxTries
    /\ orders \in Nat /\ faults \in Nat
    /\ done \in [Recs -> Nat] /\ excuses \in [Recs -> Nat]

\* Who is about to call a provider for a recommendation holds a version of it that
\* was itself approved, or that needed no approval: an envelope that is stored again takes
\* the approval of the one before away from all who have yet to read the row.
CallsAreApproved ==
    \A x \in Executors :
       exec[x].pc = "call" => <<exec[x].rec, exec[x].read.version>> \in mandates

\* A row that reads EXECUTED stands for an action that was carried out at least
\* once, however executors, reviewers and envelopes have overwritten it.
ExecutedWasDone == \A r \in Recs : row[r].status = "EXECUTED" => done[r] > 0

\* An action is carried out once; each further time is explained by an event of
\* its own: another envelope, a lost answer, an executor that died, two executors
\* at once, a FAILED row that is tried again, or a decision on a resolved row.
RepeatsArePaidFor == \A r \in Recs : done[r] <= 1 + excuses[r]

\* To those who answer for what is done in their name, the recommendations are a
\* Mandate.
Ledger == INSTANCE Mandate WITH
    offers <- [r \in Recs |-> row[r].version],
    claimed <- {r \in Recs : row[r].status = "EXECUTED"}

\* With envelopes, reviewers, executors, retries and crashes in any order, an action
\* is carried out only in a version that was said yes to, a version takes the yes
\* and the EXECUTED of the one before it away, and what is repeated or overwritten
\* was excused before: a claim is taken back only by a new version, a decision, or
\* an executor who was one too many.
ImplementsMandate == Ledger!Spec

\* A batch that returns accounts for everything it selected, though each row is
\* read again and may have been decided or executed since the selection.
BatchAddsUp ==
    \A x \in Executors :
       exec[x].pc = "next" /\ exec[x].todo = {}
          => exec[x].executed + exec[x].failed = exec[x].attempted

\* An EXECUTED row is overwritten only by a newer envelope, or by somebody who had
\* read the row before it was executed.
OnlyStaleWritesReopen ==
    [][\A r \in Recs :
          row[r].status = "EXECUTED" /\ row'[r].status # "EXECUTED"
             => \/ row'[r].version > row[r].version
                \/ \E d \in Reviewers : /\ review[d].rec = r
                                        /\ review[d].seen \notin Final
                                        /\ review'[d] = NoReview
                \/ \E x \in Executors : /\ exec[x].rec = r
                                        /\ exec[x].read.status # "EXECUTED"
                                        /\ exec'[x].rec # r]_vars

\* An execution ends, however its provider behaves: in a result, an exception or
\* a crash.
ExecutionEnds == \A x \in Executors : exec[x].pc # "idle" ~> exec[x].pc = "idle"
=============================================================================
