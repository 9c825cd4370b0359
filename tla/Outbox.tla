------------------------------- MODULE Outbox -------------------------------
(***************************************************************************)
(* The transactional outbox: producers enqueue events, POST                *)
(* /api/events/dispatch delivers them under the (WIPG, OBOX) advisory      *)
(* lock, administrators replay and dead-letter them without any lock, and  *)
(* the sync cycle prunes old rows.  Source: outbox-worker.ts, event-bus.ts,*)
(* outbox-dispatcher.ts, outreach-delivery.ts, outbox-retention.ts.        *)
(*                                                                         *)
(* The callers of AdvisoryLock are the dispatch requests.  A request works *)
(* on a SNAPSHOT of the rows it fetched, one row at a time, and every      *)
(* write it makes is an update by id that does not look at the row's       *)
(* present status.                                                         *)
(***************************************************************************)
EXTENDS AdvisoryLock

CONSTANTS
    Outreach,          \* customer_success.outreach.send events
    Alerts,            \* Slack notification events, sent with no message row
    NoEvent,
    RetryLimits,       \* the values of maxRetries that requests pass
    DispatchedDays,    \* retention of DISPATCHED rows (14 in the code)
    DeadLetterDays,    \* retention of DEAD_LETTER rows (30 in the code)
    MaxFaults,         \* bound: lost sessions, crashes, failed updates, ...
    MaxOperations,     \* bound: replays and manual dead-letterings
    MaxDays            \* bound: days that pass

Events == Outreach \cup Alerts

ASSUME OutboxAssumption ==
    /\ NoEvent \notin Events
    /\ Outreach \cap Alerts = {}
    /\ RetryLimits \subseteq Nat \ {0}
    /\ RetryLimits # {}
    /\ {DispatchedDays, DeadLetterDays} \subseteq Nat \ {0}
    /\ {MaxFaults, MaxOperations, MaxDays} \subseteq Nat

VARIABLES
    (* The OutboxEvent rows *)
    status,            \* "NONE" before the row exists, "PRUNED" after it
    retryCount,
    due,               \* nextAttemptAt <= now
    age,               \* days since createdAt
    settledAge,        \* days since the row was last dispatched or dead-lettered
    (* The CustomerSuccessOutreachMessage rows, and the outside world *)
    message,           \* "NONE" | "QUEUED" | "SENT" | "FAILED"
    sends,             \* how often the provider accepted the event's message
    sendingEnabled,    \* CS_OUTREACH_SENDING_ENABLED
    (* The dispatch requests *)
    pc,                \* position in dispatchOutboxBatch
    batch,             \* the fetched events the loop has not begun
    snapshot,          \* the retryCount each fetched event was read with
    limit,             \* the request's maxRetries
    current,           \* the event in hand
    (* A record the code does not keep *)
    ruled,             \* events changed by an administrator meanwhile
    (* Pruning *)
    victims,           \* the ids the running DELETE has selected
    (* Bounds *)
    faults, operations, days

rowVars == <<status, retryCount, due, age, settledAge>>
msgVars == <<message, sends, sendingEnabled>>
runVars == <<pc, batch, snapshot, limit, current, ruled>>
boundVars == <<faults, operations, days>>
vars == <<lockVars, rowVars, msgVars, runVars, victims, boundVars>>

Live == {"PENDING", "FAILED"}
Stored == Live \cup {"DISPATCHED", "DEAD_LETTER"}
Sendable == {"QUEUED", "FAILED"}

Init ==
    /\ LockInit
    /\ status = [e \in Events |-> "NONE"]
    /\ retryCount = [e \in Events |-> 0]
    /\ due = [e \in Events |-> TRUE]
    /\ age = [e \in Events |-> 0]
    /\ settledAge = [e \in Events |-> 0]
    /\ message = [e \in Events |-> "NONE"]
    /\ sends = [e \in Events |-> 0]
    /\ sendingEnabled \in BOOLEAN
    /\ pc = [r \in Callers |-> "idle"]
    /\ batch = [r \in Callers |-> {}]
    /\ snapshot = [r \in Callers |-> [e \in Events |-> 0]]
    /\ limit = [r \in Callers |-> 0]
    /\ current = [r \in Callers |-> NoEvent]
    /\ ruled = [r \in Callers |-> {}]
    /\ victims = {}
    /\ faults = 0 /\ operations = 0 /\ days = 0

Fault == faults < MaxFaults /\ faults' = faults + 1
NoFault == UNCHANGED faults

-----------------------------------------------------------------------------
(* Producers *)

\* enqueueOutboxEvent: an upsert on idempotencyKey whose update is empty, so a
\* repeated call changes nothing.  An outreach message is created QUEUED in the
\* same transaction.
Enqueue(e) ==
    /\ status[e] = "NONE"
    /\ status' = [status EXCEPT ![e] = "PENDING"]
    /\ message' = [message EXCEPT ![e] = IF e \in Outreach THEN "QUEUED" ELSE @]
    /\ UNCHANGED <<lockVars, retryCount, due, age, settledAge, sends,
                   sendingEnabled, runVars, victims, boundVars>>

-----------------------------------------------------------------------------
(* A dispatch request: the lock, the fetch, the loop over the snapshot *)

AskForLock(r) ==
    /\ Connect(r) \/ Skip(r)
    /\ UNCHANGED <<rowVars, msgVars, runVars, victims, boundVars>>

StartBatch(r) ==
    /\ TryLock(r)
    /\ pc' = [pc EXCEPT ![r] = "fetch"]
    /\ UNCHANGED <<rowVars, msgVars, batch, snapshot, limit, current,
                   ruled, victims, boundVars>>

\* Mutant of Fetch: RETRYABLE_EVENT_STATUSES without FAILED.
FetchPendingOnly(r) ==
    /\ pc[r] = "fetch"
    /\ LET fetched == {e \in Events : status[e] = "PENDING" /\ due[e]}
       IN /\ batch' = [batch EXCEPT ![r] = fetched]
          /\ snapshot' = [snapshot EXCEPT ![r] =
                 [e \in Events |-> IF e \in fetched THEN retryCount[e] ELSE 0]]
    /\ \E m \in RetryLimits : limit' = [limit EXCEPT ![r] = m]
    /\ pc' = [pc EXCEPT ![r] = "loop"]
    /\ UNCHANGED <<lockVars, rowVars, msgVars, current, ruled, victims, boundVars>>

\* Mutant of Fetch: every unsettled row that is due, the dead letters included.
FetchDeadLettersToo(r) ==
    /\ pc[r] = "fetch"
    /\ LET fetched == {e \in Events : status[e] \in Live \cup {"DEAD_LETTER"} /\ due[e]}
       IN /\ batch' = [batch EXCEPT ![r] = fetched]
          /\ snapshot' = [snapshot EXCEPT ![r] =
                 [e \in Events |-> IF e \in fetched THEN retryCount[e] ELSE 0]]
    /\ \E m \in RetryLimits : limit' = [limit EXCEPT ![r] = m]
    /\ pc' = [pc EXCEPT ![r] = "loop"]
    /\ UNCHANGED <<lockVars, rowVars, msgVars, current, ruled, victims, boundVars>>

\* fetchRetryableOutboxEvents.  A batch (50 rows) holds every due row here.
Fetch(r) ==
    /\ pc[r] = "fetch"
    /\ LET fetched == {e \in Events : status[e] \in Live /\ due[e]}
       IN /\ batch' = [batch EXCEPT ![r] = fetched]
          /\ snapshot' = [snapshot EXCEPT ![r] =
                 [e \in Events |-> IF e \in fetched THEN retryCount[e] ELSE 0]]
    /\ \E m \in RetryLimits : limit' = [limit EXCEPT ![r] = m]
    /\ pc' = [pc EXCEPT ![r] = "loop"]
    /\ UNCHANGED <<lockVars, rowVars, msgVars, current, ruled, victims, boundVars>>

TakeNext(r, e) ==
    /\ pc[r] = "loop"
    /\ e \in batch[r]
    /\ batch' = [batch EXCEPT ![r] = @ \ {e}]
    /\ current' = [current EXCEPT ![r] = e]
    /\ pc' = [pc EXCEPT ![r] = "gate"]
    /\ UNCHANGED <<lockVars, rowVars, msgVars, snapshot, limit, ruled,
                   victims, boundVars>>

\* Mutant of Gate: disabled sending returns instead of throwing.
GateSilent(r) ==
    /\ pc[r] = "gate"
    /\ pc' = [pc EXCEPT ![r] =
           IF current[r] \in Outreach /\ (~sendingEnabled \/ message[current[r]] = "SENT")
           THEN "ack" ELSE "send"]
    /\ UNCHANGED <<lockVars, rowVars, msgVars, batch, snapshot, limit, current,
                   ruled, victims, boundVars>>

\* dispatchCustomerSuccessOutreach up to the send: disabled sending throws, a
\* SENT message is a silent success.  A Slack alert is sent at once.
Gate(r) ==
    /\ pc[r] = "gate"
    /\ pc' = [pc EXCEPT ![r] =
           CASE current[r] \in Alerts -> "send"
             [] current[r] \in Outreach /\ ~sendingEnabled -> "nack"
             [] current[r] \in Outreach /\ sendingEnabled
                  /\ message[current[r]] = "SENT" -> "ack"
             [] OTHER -> "send"]
    /\ UNCHANGED <<lockVars, rowVars, msgVars, batch, snapshot, limit, current,
                   ruled, victims, boundVars>>

\* The provider call.  It succeeds, is refused, or - a fault - is accepted
\* while the caller sees an error (a timeout after the provider took it).
Send(r) ==
    LET e == current[r]
        ok == IF e \in Outreach THEN "flip" ELSE "ack"
        failed == IF e \in Outreach THEN "flop" ELSE "nack"
    IN /\ pc[r] = "send"
       /\ \/ /\ sends' = [sends EXCEPT ![e] = @ + 1]
             /\ pc' = [pc EXCEPT ![r] = ok]
             /\ NoFault
          \/ /\ pc' = [pc EXCEPT ![r] = failed]
             /\ UNCHANGED sends
             /\ NoFault
          \/ /\ sends' = [sends EXCEPT ![e] = @ + 1]
             /\ pc' = [pc EXCEPT ![r] = failed]
             /\ Fault
       /\ UNCHANGED <<lockVars, rowVars, message, sendingEnabled, batch,
                      snapshot, limit, current, ruled, victims, operations, days>>

\* Mutant of Flip: FAILED is missing from ELIGIBLE_STATUSES.
FlipQueuedOnly(r) ==
    /\ pc[r] = "flip"
    /\ message' = [message EXCEPT ![current[r]] = IF @ = "QUEUED" THEN "SENT" ELSE @]
    /\ pc' = [pc EXCEPT ![r] = "ack"]
    /\ UNCHANGED <<lockVars, rowVars, sends, sendingEnabled, batch, snapshot,
                   limit, current, ruled, victims, boundVars>>

\* Mark the message SENT while it is still sendable; an error of this update is
\* caught by the same catch as an error of the send.
Flip(r) ==
    LET e == current[r]
    IN /\ pc[r] = "flip"
       /\ \/ /\ message' = [message EXCEPT ![e] =
                    IF @ \in Sendable THEN "SENT" ELSE @]
             /\ pc' = [pc EXCEPT ![r] = "ack"]
             /\ NoFault
          \/ /\ pc' = [pc EXCEPT ![r] = "flop"]
             /\ UNCHANGED message
             /\ Fault
       /\ UNCHANGED <<lockVars, rowVars, sends, sendingEnabled, batch, snapshot,
                      limit, current, ruled, victims, operations, days>>

\* The catch: mark the message FAILED while it is still sendable, and rethrow.
Flop(r) ==
    LET e == current[r]
    IN /\ pc[r] = "flop"
       /\ message' = [message EXCEPT ![e] =
              IF @ \in Sendable THEN "FAILED" ELSE @]
       /\ pc' = [pc EXCEPT ![r] = "nack"]
       /\ UNCHANGED <<lockVars, rowVars, sends, sendingEnabled, batch, snapshot,
                      limit, current, ruled, victims, boundVars>>

\* markOutboxEventDispatched: an update by id, whatever the row's status is by
\* now.  If it throws (the row is gone, or the database fails) the catch of the
\* loop takes it for a failed dispatch.
Ack(r) ==
    LET e == current[r]
    IN /\ pc[r] = "ack"
       /\ \/ /\ status[e] \in Stored
             /\ status' = [status EXCEPT ![e] = "DISPATCHED"]
             /\ settledAge' = [settledAge EXCEPT ![e] = 0]
             /\ pc' = [pc EXCEPT ![r] = "loop"]
             /\ current' = [current EXCEPT ![r] = NoEvent]
             /\ NoFault
          \/ /\ pc' = [pc EXCEPT ![r] = "nack"]
             /\ UNCHANGED <<status, settledAge, current>>
             /\ IF status[e] \in Stored THEN Fault ELSE NoFault
       /\ UNCHANGED <<lockVars, retryCount, due, age, msgVars, batch, snapshot,
                      limit, ruled, victims, operations, days>>

\* The request ends: its function has returned or thrown.
EndBatch(r) ==
    /\ Return(r)
    /\ pc' = [pc EXCEPT ![r] = "idle"]
    /\ batch' = [batch EXCEPT ![r] = {}]
    /\ current' = [current EXCEPT ![r] = NoEvent]
    /\ snapshot' = [snapshot EXCEPT ![r] = [e \in Events |-> 0]]
    /\ limit' = [limit EXCEPT ![r] = 0]
    /\ ruled' = [ruled EXCEPT ![r] = {}]

\* Mutant of Nack: retryCount counts the attempts left, from zero down.
NackDown(r) ==
    LET e == current[r]
    IN /\ pc[r] = "nack"
       /\ status' = [status EXCEPT ![e] = "FAILED"]
       /\ retryCount' = [retryCount EXCEPT ![e] = snapshot[r][e] - 1]
       /\ pc' = [pc EXCEPT ![r] = "loop"]
       /\ current' = [current EXCEPT ![r] = NoEvent]
       /\ UNCHANGED <<lockVars, due, age, settledAge, msgVars, batch, snapshot,
                      limit, ruled, victims, boundVars>>

\* markOutboxEventFailure: counts from the snapshot, not from the row.
Nack(r) ==
    LET e == current[r]
        nextRetryCount == snapshot[r][e] + 1
        exhausted == nextRetryCount >= limit[r]
    IN /\ pc[r] = "nack"
       /\ status[e] \in Stored
       /\ status' = [status EXCEPT ![e] =
              IF exhausted THEN "DEAD_LETTER" ELSE "FAILED"]
       /\ retryCount' = [retryCount EXCEPT ![e] = nextRetryCount]
       /\ due' = [due EXCEPT ![e] = exhausted]
       /\ settledAge' = [settledAge EXCEPT ![e] = 0]
       /\ pc' = [pc EXCEPT ![r] = "loop"]
       /\ current' = [current EXCEPT ![r] = NoEvent]
       /\ UNCHANGED <<lockVars, age, msgVars, batch, snapshot, limit, ruled,
                      victims, boundVars>>

\* markOutboxEventFailure throws: the rest of the batch is given up.
NackThrows(r) ==
    /\ pc[r] = "nack"
    /\ IF status[current[r]] \in Stored THEN Fault ELSE NoFault
    /\ EndBatch(r)
    /\ UNCHANGED <<rowVars, msgVars, victims, operations, days>>

FinishBatch(r) ==
    /\ pc[r] = "loop"
    /\ batch[r] = {}
    /\ EndBatch(r)
    /\ UNCHANGED <<rowVars, msgVars, victims, boundVars>>

ReleaseLock(r) ==
    /\ Unlock(r)
    /\ UNCHANGED <<rowVars, msgVars, runVars, victims, boundVars>>

-----------------------------------------------------------------------------
(* Faults of the request's process and session *)

LoseSession(r) ==
    /\ SessionLost(r)
    /\ Fault
    /\ UNCHANGED <<rowVars, msgVars, runVars, victims, operations, days>>

Crash(r) ==
    /\ CallerCrash(r)
    /\ Fault
    /\ pc' = [pc EXCEPT ![r] = "idle"]
    /\ batch' = [batch EXCEPT ![r] = {}]
    /\ current' = [current EXCEPT ![r] = NoEvent]
    /\ snapshot' = [snapshot EXCEPT ![r] = [e \in Events |-> 0]]
    /\ limit' = [limit EXCEPT ![r] = 0]
    /\ ruled' = [ruled EXCEPT ![r] = {}]
    /\ UNCHANGED <<rowVars, msgVars, victims, operations, days>>

-----------------------------------------------------------------------------
(* Administrators, who take no lock *)

Operation == operations < MaxOperations /\ operations' = operations + 1

\* An administrator changes the rows of S, whoever holds copies of them.
RuleOn(S) ==
    /\ ruled' = [r \in Callers |->
           ruled[r] \cup {e \in S : e \in batch[r] \/ e = current[r]}]
    /\ UNCHANGED <<pc, batch, snapshot, limit, current>>

\* replayOutboxEvents: whichever ids are given or found first, the updateMany
\* checks the status again.
Replay(S) ==
    LET revived == {e \in S : status[e] \in {"FAILED", "DEAD_LETTER"}}
    IN /\ revived # {}
       /\ Operation
       /\ status' = [e \in Events |-> IF e \in revived THEN "PENDING" ELSE status[e]]
       /\ retryCount' = [e \in Events |-> IF e \in revived THEN 0 ELSE retryCount[e]]
       /\ due' = [e \in Events |-> e \in revived \/ due[e]]
       /\ settledAge' = [e \in Events |-> IF e \in revived THEN 0 ELSE settledAge[e]]
       /\ RuleOn(revived)
       /\ UNCHANGED <<lockVars, age, msgVars, victims, faults, days>>

\* deadLetterOutboxEvents: retryCount is left as it is.
DeadLetter(S) ==
    LET dropped == {e \in S : status[e] \in Live}
    IN /\ dropped # {}
       /\ Operation
       /\ status' = [e \in Events |-> IF e \in dropped THEN "DEAD_LETTER" ELSE status[e]]
       /\ due' = [e \in Events |-> e \in dropped \/ due[e]]
       /\ settledAge' = [e \in Events |-> IF e \in dropped THEN 0 ELSE settledAge[e]]
       /\ RuleOn(dropped)
       /\ UNCHANGED <<lockVars, retryCount, age, msgVars, victims, faults, days>>

\* The flag is turned on by a deployment.
EnableSending ==
    /\ ~sendingEnabled
    /\ sendingEnabled' = TRUE
    /\ UNCHANGED <<lockVars, rowVars, message, sends, runVars, victims, boundVars>>

-----------------------------------------------------------------------------
(* Time and retention *)

\* nextAttemptAt of a failed row comes to pass.
BackoffOver(e) ==
    /\ status[e] = "FAILED"
    /\ ~due[e]
    /\ due' = [due EXCEPT ![e] = TRUE]
    /\ UNCHANGED <<lockVars, status, retryCount, age, settledAge, msgVars,
                   runVars, victims, boundVars>>

\* Days pass only while nothing is in flight: a request or a DELETE takes
\* seconds.
PassDay ==
    /\ days < MaxDays
    /\ \A r \in Callers : call[r] = "idle"
    /\ victims = {}
    /\ days' = days + 1
    /\ age' = [e \in Events |-> IF status[e] \in Stored THEN age[e] + 1 ELSE age[e]]
    /\ settledAge' = [e \in Events |->
           IF status[e] \in Stored \ Live THEN settledAge[e] + 1 ELSE settledAge[e]]
    /\ UNCHANGED <<lockVars, status, retryCount, due, msgVars, runVars, victims,
                   faults, operations>>

\* The subselect of the DELETE: DISPATCHED rows by dispatchedAt; once those are
\* drained, DEAD_LETTER rows by createdAt.
ExpiredDispatched ==
    {e \in Events : status[e] = "DISPATCHED" /\ settledAge[e] >= DispatchedDays}

\* Mutant of ExpiredDeadLetters: every unsettled row is old enough to go.
ExpiredUndelivered ==
    {e \in Events : status[e] \in Stored \ {"DISPATCHED"} /\ age[e] >= DeadLetterDays}

ExpiredDeadLetters ==
    {e \in Events : status[e] = "DEAD_LETTER" /\ age[e] >= DeadLetterDays}

SelectExpired ==
    /\ victims = {}
    /\ victims' = IF ExpiredDispatched # {} THEN ExpiredDispatched
                                            ELSE ExpiredDeadLetters
    /\ victims' # {}
    /\ UNCHANGED <<lockVars, rowVars, msgVars, runVars, boundVars>>

\* The DELETE itself.  READ COMMITTED re-checks only WHERE id IN (the ids
\* selected) on a row that changed meanwhile, so its new status is not seen.
DeleteSelected ==
    /\ victims # {}
    /\ status' = [e \in Events |-> IF e \in victims THEN "PRUNED" ELSE status[e]]
    /\ victims' = {}
    /\ UNCHANGED <<lockVars, retryCount, due, age, settledAge, msgVars, runVars,
                   boundVars>>

-----------------------------------------------------------------------------

RequestStep(r) ==
    \/ AskForLock(r)
    \/ StartBatch(r)
    \/ Fetch(r)
    \/ \E e \in Events : TakeNext(r, e)
    \/ Gate(r)
    \/ Send(r)
    \/ Flip(r)
    \/ Flop(r)
    \/ Ack(r)
    \/ Nack(r)
    \/ NackThrows(r)
    \/ FinishBatch(r)
    \/ ReleaseLock(r)

Next ==
    \/ \E e \in Events : Enqueue(e) \/ BackoffOver(e)
    \/ \E r \in Callers : RequestStep(r) \/ LoseSession(r) \/ Crash(r)
    \/ \E S \in SUBSET Events : Replay(S) \/ DeadLetter(S)
    \/ EnableSending
    \/ PassDay
    \/ SelectExpired
    \/ DeleteSelected

\* The cron keeps posting dispatch requests, started requests go on, and time
\* passes.
Fairness ==
    /\ \A r \in Callers : WF_vars(RequestStep(r))
    /\ \A e \in Events : WF_vars(BackoffOver(e))

Spec == Init /\ [][Next]_vars /\ Fairness

-----------------------------------------------------------------------------
(* Properties *)

PcStates ==
    {"idle", "fetch", "loop", "gate", "send", "flip", "flop", "ack", "nack"}
InHand == {"gate", "send", "flip", "flop", "ack", "nack"}

OutboxTypeOK ==
    /\ LockTypeOK
    /\ status \in [Events -> Stored \cup {"NONE", "PRUNED"}]
    /\ retryCount \in [Events -> Nat]
    /\ due \in [Events -> BOOLEAN]
    /\ age \in [Events -> Nat]
    /\ settledAge \in [Events -> Nat]
    /\ message \in [Events -> {"NONE"} \cup Sendable \cup {"SENT"}]
    /\ sends \in [Events -> Nat]
    /\ sendingEnabled \in BOOLEAN
    /\ pc \in [Callers -> PcStates]
    /\ batch \in [Callers -> SUBSET Events]
    /\ snapshot \in [Callers -> [Events -> Nat]]
    /\ limit \in [Callers -> {0} \cup RetryLimits]
    /\ current \in [Callers -> Events \cup {NoEvent}]
    /\ ruled \in [Callers -> SUBSET Events]
    /\ victims \in SUBSET Events
    /\ faults \in 0 .. MaxFaults
    /\ operations \in 0 .. MaxOperations
    /\ days \in 0 .. MaxDays

\* No event is recorded as delivered that no provider ever accepted: the row is
\* DISPATCHED only after a successful send, through every retry, replay, crash
\* and stale batch (the gate of outreach-delivery.ts:53-58 throws so that an
\* unsent message is not "silently marked DISPATCHED").
DispatchedWasSent ==
    \A e \in Events : status[e] = "DISPATCHED" => sends[e] > 0

\* The two records of an outreach agree: once its event is DISPATCHED its message
\* says SENT, although the two rows are updated separately and other requests
\* may be at work on both.
DispatchedMeansSent ==
    \A e \in Outreach : status[e] = "DISPATCHED" => message[e] = "SENT"

\* Every duplicate delivery is paid for by a fault: with replays and manual
\* dead-letterings racing the batch, an event is still delivered at most once
\* per fault more than once (the route's lock and the SENT check together).
DuplicatesArePaidFor ==
    \A e \in Events : sends[e] <= 1 + faults

\* As long as nothing fails, DISPATCHED is final: no stale request turns a
\* delivered event back into a retryable one.
DispatchedIsFinal ==
    [][\A e \in Events :
          status[e] = "DISPATCHED" /\ faults' = 0
              => status'[e] \in {"DISPATCHED", "PRUNED"}]_vars

\* A row still waiting for delivery is deleted only where an administrator has
\* meddled or a request has lost its lock: retention by itself never drops a PENDING
\* or FAILED event, not even one that is in somebody's batch.
LiveKeptUndisturbed ==
    [][\A e \in Events :
          status[e] \in Live /\ operations = 0 /\ faults = 0
              => status'[e] # "PRUNED"]_vars

\* A request's copies go stale in one way only while nothing fails: an administrator
\* replays or dead-letters the event in the request's hands.  Of every other
\* event it holds the row still says what was read - retryable, with the count the
\* next failure is counted from - or retention has deleted it.  So the
\* unconditional updates of markOutboxEventDispatched and markOutboxEventFailure
\* overrule nobody but that administrator.
OnlyRulingsAreOverruled ==
    faults = 0 =>
        \A r \in Callers, e \in Events :
            (e \in batch[r] \/ e = current[r]) /\ e \notin ruled[r] =>
                \/ status[e] \in Live /\ retryCount[e] = snapshot[r][e]
                \/ status[e] = "PRUNED"

\* The outbox is a Delivery: what its rows say of an event is where the event
\* stands in that promise.
Stage == [NONE |-> "absent", PENDING |-> "owed", FAILED |-> "owed",
          DISPATCHED |-> "delivered", DEAD_LETTER |-> "dropped", PRUNED |-> "gone"]

Debt == INSTANCE Delivery WITH
    stage <- [e \in Events |-> Stage[status[e]]],
    deliveries <- sends,
    failures <- faults,
    meddlings <- operations

\* At-least-once delivery with its price: an event is accepted by the provider only
\* while it is owed, recorded only if it was accepted, and settled for good; a
\* dead letter comes back, an owed event disappears and a delivery is repeated or
\* taken back only after the failure or the administrator that Delivery names.
ImplementsDelivery == Debt!Spec

\* Every enqueued event is settled: delivered, dead-lettered or pruned, and not
\* left retryable for ever, whatever fails on the way.
EventuallySettled ==
    \A e \in Events : (status[e] \in Live) ~> (status[e] \notin Live)
=============================================================================
