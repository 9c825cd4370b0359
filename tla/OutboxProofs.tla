---------------------------- MODULE OutboxProofs ----------------------------
(***************************************************************************)
(* Theorems about Outbox, for any events, requests, limits and bounds.     *)
(*                                                                         *)
(* The inductive invariant is the conjunction of OutboxTypeOK, LockInv and *)
(* the parts below.  Work ties a request's position to what it holds,      *)
(* Acceptance follows one event from the provider to DISPATCHED, Attempts  *)
(* bounds the retry counts, Undisturbed says what holds until the first    *)
(* fault and Kept what holds until the first administrator as well,        *)
(* OnlyRulingsAreOverruled whose copies are fresh, and Paid counts the     *)
(* sends that may still come.  Each part is preserved by a lemma of its    *)
(* own.                                                                    *)
(***************************************************************************)
EXTENDS Outbox, AdvisoryLockProofs, FiniteSetTheorems

Work ==
    /\ \A r \in Callers :
          /\ pc[r] # "idle" <=> call[r] = "running"
          /\ pc[r] \in InHand <=> current[r] # NoEvent
          /\ pc[r] \in {"idle", "fetch"} => batch[r] = {}
          /\ pc[r] \notin {"idle", "fetch"} => limit[r] \in RetryLimits
          /\ current[r] \notin batch[r]
          /\ \A e \in Events :
                e \in batch[r] \/ e = current[r] => status[e] # "NONE"
    /\ \A e \in victims : status[e] # "NONE"

Acceptance ==
    /\ \A e \in Outreach : status[e] # "NONE" => message[e] # "NONE"
    /\ \A e \in Events : message[e] = "SENT" => sends[e] > 0
    /\ \A r \in Callers :
          /\ pc[r] \in {"flip", "flop"} => current[r] \in Outreach
          /\ pc[r] \in {"flip", "ack"} => sends[current[r]] > 0
          /\ pc[r] = "ack" /\ current[r] \in Outreach => message[current[r]] = "SENT"
    /\ DispatchedWasSent
    /\ DispatchedMeansSent

\* A retryable row has attempts left under the most generous limit in use: the
\* count written from a stale copy cannot take it past the limit alive.
LiveHasAttemptsLeft ==
    \A e \in Events :
        status[e] \in Live => \E m \in RetryLimits : retryCount[e] < m

Attempts ==
    /\ \A e \in Events : status[e] = "NONE" => retryCount[e] = 0
    /\ LiveHasAttemptsLeft

Undisturbed ==
    faults = 0 =>
        \A r \in Callers :
            /\ call[r] # "idle" => alive[r]
            /\ \A e \in Events :
                  e \in batch[r] \/ e = current[r] => status[e] # "DISPATCHED"

\* Until the first fault and the first administrator, what a request holds is
\* retryable and what the DELETE holds is not.
Kept ==
    faults = 0 /\ operations = 0 =>
        /\ \A r \in Callers, e \in Events :
              e \in batch[r] \/ e = current[r] => status[e] \in Live
        /\ \A e \in victims : status[e] \notin Live

\* Request r may still send e, or leave e retryable behind it.  A request that lost
\* its lock before the fetch may still come to hold any event.
Holds(r, e) ==
    \/ e \in batch[r]
    \/ pc[r] = "fetch" /\ owner # r
    \/ current[r] = e /\ pc[r] \in {"gate", "send"}
    \/ current[r] = e /\ pc[r] \in {"flop", "nack"} /\ status[e] # "PRUNED"

Holders(e) == {r \in Callers : Holds(r, e)}

\* The event waits for the next owner of the lock.
Waits(e) ==
    /\ status[e] \in {"NONE", "DEAD_LETTER"} \cup Live
    /\ owner # NoCaller => e \notin batch[owner] /\ e # current[owner]

Open(e) == IF Waits(e) THEN 1 ELSE 0

\* DuplicatesArePaidFor, counting the sends that may still come.
PaidFor(e) ==
    /\ IsFiniteSet(Holders(e))
    /\ sends[e] + Cardinality(Holders(e)) + Open(e) <= 1 + faults

Paid == \A e \in Events : PaidFor(e)

OutboxInv ==
    /\ OutboxTypeOK /\ LockInv /\ Work /\ Acceptance /\ Attempts /\ Undisturbed
    /\ Kept /\ OnlyRulingsAreOverruled /\ Paid

-----------------------------------------------------------------------------
(* What a step does to the lock: one step of AdvisoryLock, or nothing. *)

LEMMA StepLock == [Next]_vars => [LockNext]_lockVars
<1> SUFFICES ASSUME [Next]_vars
             PROVE  [LockNext]_lockVars
  OBVIOUS
<1>1. CASE UNCHANGED vars
  BY <1>1 DEF vars, lockVars, rowVars, msgVars, runVars, boundVars
<1>2. ASSUME NEW e \in Events, Enqueue(e)
      PROVE  [LockNext]_lockVars
  BY <1>2 DEF Enqueue, LockNext
<1>3. ASSUME NEW e \in Events, BackoffOver(e)
      PROVE  [LockNext]_lockVars
  BY <1>3 DEF BackoffOver, LockNext
<1>4. ASSUME NEW r \in Callers, AskForLock(r)
      PROVE  [LockNext]_lockVars
  BY <1>4 DEF AskForLock, LockNext
<1>5. ASSUME NEW r \in Callers, StartBatch(r)
      PROVE  [LockNext]_lockVars
  BY <1>5 DEF StartBatch, LockNext
<1>6. ASSUME NEW r \in Callers, Fetch(r)
      PROVE  [LockNext]_lockVars
  BY <1>6 DEF Fetch, LockNext
<1>7. ASSUME NEW r \in Callers, NEW e \in Events, TakeNext(r, e)
      PROVE  [LockNext]_lockVars
  BY <1>7 DEF TakeNext, LockNext
<1>8. ASSUME NEW r \in Callers, Gate(r)
      PROVE  [LockNext]_lockVars
  BY <1>8 DEF Gate, LockNext
<1>9. ASSUME NEW r \in Callers, Send(r)
      PROVE  [LockNext]_lockVars
  BY <1>9 DEF Send, LockNext
<1>10. ASSUME NEW r \in Callers, Flip(r)
      PROVE  [LockNext]_lockVars
  BY <1>10 DEF Flip, LockNext
<1>11. ASSUME NEW r \in Callers, Flop(r)
      PROVE  [LockNext]_lockVars
  BY <1>11 DEF Flop, LockNext
<1>12. ASSUME NEW r \in Callers, Ack(r)
      PROVE  [LockNext]_lockVars
  BY <1>12 DEF Ack, LockNext
<1>13. ASSUME NEW r \in Callers, Nack(r)
      PROVE  [LockNext]_lockVars
  BY <1>13 DEF Nack, LockNext
<1>14. ASSUME NEW r \in Callers, NackThrows(r)
      PROVE  [LockNext]_lockVars
  BY <1>14 DEF NackThrows, LockNext, EndBatch
<1>15. ASSUME NEW r \in Callers, FinishBatch(r)
      PROVE  [LockNext]_lockVars
  BY <1>15 DEF FinishBatch, LockNext, EndBatch
<1>16. ASSUME NEW r \in Callers, ReleaseLock(r)
      PROVE  [LockNext]_lockVars
  BY <1>16 DEF ReleaseLock, LockNext
<1>17. ASSUME NEW r \in Callers, LoseSession(r)
      PROVE  [LockNext]_lockVars
  BY <1>17 DEF LoseSession, LockNext
<1>18. ASSUME NEW r \in Callers, Crash(r)
      PROVE  [LockNext]_lockVars
  BY <1>18 DEF Crash, LockNext
<1>19. ASSUME NEW S \in SUBSET Events, Replay(S)
      PROVE  [LockNext]_lockVars
  BY <1>19 DEF Replay, RuleOn, LockNext
<1>20. ASSUME NEW S \in SUBSET Events, DeadLetter(S)
      PROVE  [LockNext]_lockVars
  BY <1>20 DEF DeadLetter, LockNext
<1>21. CASE EnableSending
  BY <1>21 DEF EnableSending, LockNext
<1>22. CASE PassDay
  BY <1>22 DEF PassDay, LockNext
<1>23. CASE SelectExpired
  BY <1>23 DEF SelectExpired, LockNext
<1>24. CASE DeleteSelected
  BY <1>24 DEF DeleteSelected, LockNext
<1> QED
  BY <1>1, <1>2, <1>3, <1>4, <1>5, <1>6, <1>7, <1>8, <1>9, <1>10, <1>11, <1>12,
       <1>13, <1>14, <1>15, <1>16, <1>17, <1>18, <1>19, <1>20, <1>21, <1>22,
       <1>23, <1>24
     DEF Next, RequestStep

-----------------------------------------------------------------------------
(* Types *)

LEMMA LimitsAreNat == \A m \in RetryLimits : m \in Nat
  BY OutboxAssumption

LEMMA OutreachAreEvents == \A e \in Outreach : e \in Events
  BY DEF Events

LEMMA SomeLimit == \E m \in RetryLimits : 0 < m
<1>1. PICK m \in RetryLimits : TRUE
  BY OutboxAssumption
<1>2. m \in Nat /\ m # 0
  BY OutboxAssumption
<1> QED
  BY <1>2

LEMMA LimitIsNat ==
    ASSUME OutboxTypeOK, NEW r \in Callers
    PROVE  limit[r] \in Nat
<1>1. limit[r] = 0 \/ limit[r] \in RetryLimits
  BY DEF OutboxTypeOK
<1>2. CASE limit[r] = 0
  BY <1>2
<1>3. CASE limit[r] \in RetryLimits
  BY <1>3, LimitsAreNat, Zenon
<1> QED
  BY <1>1, <1>2, <1>3

LEMMA InHandIsEvent ==
    ASSUME OutboxTypeOK, Work, NEW r \in Callers, pc[r] \in InHand
    PROVE  current[r] \in Events
  BY DEF OutboxTypeOK, Work

LEMMA StepTypes ==
    OutboxTypeOK /\ Work /\ LockTypeOK' /\ [Next]_vars => OutboxTypeOK'
<1> SUFFICES ASSUME OutboxTypeOK, Work, LockTypeOK', [Next]_vars
             PROVE  OutboxTypeOK'
  OBVIOUS
<1> USE OutboxAssumption DEF OutboxTypeOK, PcStates, Live, Stored, Sendable,
        rowVars, msgVars, runVars, boundVars, Fault, NoFault, Operation
<1>1. CASE UNCHANGED vars
  BY <1>1 DEF vars, lockVars, rowVars, msgVars, runVars, boundVars
<1>2. ASSUME NEW e \in Events, Enqueue(e)
      PROVE  OutboxTypeOK'
  BY <1>2 DEF Enqueue
<1>3. ASSUME NEW e \in Events, BackoffOver(e)
      PROVE  OutboxTypeOK'
  BY <1>3 DEF BackoffOver
<1>4. ASSUME NEW r \in Callers, AskForLock(r)
      PROVE  OutboxTypeOK'
  BY <1>4 DEF AskForLock
<1>5. ASSUME NEW r \in Callers, StartBatch(r)
      PROVE  OutboxTypeOK'
  BY <1>5 DEF StartBatch
<1>6. ASSUME NEW r \in Callers, Fetch(r)
      PROVE  OutboxTypeOK'
  BY <1>6 DEF Fetch
<1>7. ASSUME NEW r \in Callers, NEW e \in Events, TakeNext(r, e)
      PROVE  OutboxTypeOK'
  BY <1>7 DEF TakeNext
<1>8. ASSUME NEW r \in Callers, Gate(r)
      PROVE  OutboxTypeOK'
  BY <1>8 DEF Gate
<1>9. ASSUME NEW r \in Callers, Send(r)
      PROVE  OutboxTypeOK'
  <2>1. pc' \in [Callers -> PcStates]
    BY <1>9 DEF Send
  <2>2. sends' \in [Events -> Nat]
    BY <1>9 DEF Send
  <2>3. faults' \in 0 .. MaxFaults
    BY <1>9 DEF Send
  <2> QED
    BY <1>9, <2>1, <2>2, <2>3 DEF Send
<1>10. ASSUME NEW r \in Callers, Flip(r)
      PROVE  OutboxTypeOK'
  <2>1. pc' \in [Callers -> PcStates]
    BY <1>10 DEF Flip
  <2>2. message' \in [Events -> {"NONE"} \cup Sendable \cup {"SENT"}]
    <3>1. \/ message' = message
          \/ message' = [message EXCEPT ![current[r]] = message[current[r]]]
          \/ message' = [message EXCEPT ![current[r]] = "SENT"]
      BY <1>10 DEF Flip
    <3> QED
      BY <3>1
  <2>3. faults' \in 0 .. MaxFaults
    BY <1>10 DEF Flip
  <2> QED
    BY <1>10, <2>1, <2>2, <2>3 DEF Flip
<1>11. ASSUME NEW r \in Callers, Flop(r)
      PROVE  OutboxTypeOK'
  BY <1>11 DEF Flop
<1>12. ASSUME NEW r \in Callers, Ack(r)
      PROVE  OutboxTypeOK'
  <2>1. pc' \in [Callers -> PcStates]
    BY <1>12 DEF Ack
  <2>2. status' \in [Events -> Stored \cup {"NONE", "PRUNED"}]
    BY <1>12 DEF Ack
  <2>3. settledAge' \in [Events -> Nat]
    <3>1. \/ settledAge' = [settledAge EXCEPT ![current[r]] = 0]
          \/ settledAge' = settledAge
      BY <1>12 DEF Ack
    <3> QED
      BY <3>1
  <2>4. current' \in [Callers -> Events \cup {NoEvent}]
    BY <1>12 DEF Ack
  <2>5. faults' \in 0 .. MaxFaults
    BY <1>12 DEF Ack
  <2> QED
    BY <1>12, <2>1, <2>2, <2>3, <2>4, <2>5 DEF Ack
<1>13. ASSUME NEW r \in Callers, Nack(r)
      PROVE  OutboxTypeOK'
  <2> DEFINE e == current[r]
  <2>1. e \in Events
    BY <1>13, InHandIsEvent DEF Nack, InHand
  <2>2. snapshot[r][e] + 1 \in Nat
    BY <2>1
  <2>3. limit[r] \in Nat
    BY LimitIsNat
  <2>4. pc' \in [Callers -> PcStates]
    BY <1>13 DEF Nack
  <2>5. status' \in [Events -> Stored \cup {"NONE", "PRUNED"}]
    BY <1>13 DEF Nack
  <2>6. retryCount' \in [Events -> Nat]
    BY <1>13, <2>2 DEF Nack
  <2>7. due' \in [Events -> BOOLEAN]
    <3>1. due' = [due EXCEPT ![e] = (snapshot[r][e] + 1 >= limit[r])]
      BY <1>13 DEF Nack
    <3>2. (snapshot[r][e] + 1 >= limit[r]) \in BOOLEAN
      OBVIOUS
    <3> QED
      BY <2>1, <3>1, <3>2, Zenon
  <2>8. settledAge' \in [Events -> Nat]
    BY <1>13 DEF Nack
  <2> QED
    BY <1>13, <2>4, <2>5, <2>6, <2>7, <2>8 DEF Nack
<1>14. ASSUME NEW r \in Callers, NackThrows(r)
      PROVE  OutboxTypeOK'
  BY <1>14 DEF NackThrows, EndBatch
<1>15. ASSUME NEW r \in Callers, FinishBatch(r)
      PROVE  OutboxTypeOK'
  BY <1>15 DEF FinishBatch, EndBatch
<1>16. ASSUME NEW r \in Callers, ReleaseLock(r)
      PROVE  OutboxTypeOK'
  BY <1>16 DEF ReleaseLock
<1>17. ASSUME NEW r \in Callers, LoseSession(r)
      PROVE  OutboxTypeOK'
  BY <1>17 DEF LoseSession
<1>18. ASSUME NEW r \in Callers, Crash(r)
      PROVE  OutboxTypeOK'
  BY <1>18 DEF Crash
<1>19. ASSUME NEW S \in SUBSET Events, Replay(S)
      PROVE  OutboxTypeOK'
  BY <1>19 DEF Replay, RuleOn
<1>20. ASSUME NEW S \in SUBSET Events, DeadLetter(S)
      PROVE  OutboxTypeOK'
  BY <1>20 DEF DeadLetter, RuleOn
<1>21. CASE EnableSending
  BY <1>21 DEF EnableSending
<1>22. CASE PassDay
  BY <1>22 DEF PassDay
<1>23. CASE SelectExpired
  BY <1>23 DEF SelectExpired, ExpiredDispatched, ExpiredDeadLetters
<1>24. CASE DeleteSelected
  BY <1>24 DEF DeleteSelected
<1> QED
  BY <1>1, <1>2, <1>3, <1>4, <1>5, <1>6, <1>7, <1>8, <1>9, <1>10, <1>11, <1>12,
       <1>13, <1>14, <1>15, <1>16, <1>17, <1>18, <1>19, <1>20, <1>21, <1>22,
       <1>23, <1>24
     DEF Next, RequestStep

-----------------------------------------------------------------------------
(* What a request holds *)

LEMMA StepWork ==
    OutboxTypeOK /\ Work /\ [Next]_vars => Work'
<1> SUFFICES ASSUME OutboxTypeOK, Work, [Next]_vars
             PROVE  Work'
  OBVIOUS
<1> USE OutboxAssumption DEF OutboxTypeOK, LockTypeOK, Work, PcStates, InHand,
        Live, Stored, lockVars, rowVars, msgVars, runVars, boundVars, CallStates
<1>1. CASE UNCHANGED vars
  BY <1>1 DEF vars, lockVars, rowVars, msgVars, runVars, boundVars
<1>2. ASSUME NEW e \in Events, Enqueue(e)
      PROVE  Work'
  BY <1>2 DEF Enqueue
<1>3. ASSUME NEW e \in Events, BackoffOver(e)
      PROVE  Work'
  BY <1>3 DEF BackoffOver
<1>4. ASSUME NEW r \in Callers, AskForLock(r)
      PROVE  Work'
  BY <1>4 DEF AskForLock, Connect, Skip
<1>5. ASSUME NEW r \in Callers, StartBatch(r)
      PROVE  Work'
  BY <1>5 DEF StartBatch, TryLock
<1>6. ASSUME NEW r \in Callers, Fetch(r)
      PROVE  Work'
  BY <1>6 DEF Fetch
<1>7. ASSUME NEW r \in Callers, NEW e \in Events, TakeNext(r, e)
      PROVE  Work'
  BY <1>7 DEF TakeNext
<1>8. ASSUME NEW r \in Callers, Gate(r)
      PROVE  Work'
  BY <1>8 DEF Gate
<1>9. ASSUME NEW r \in Callers, Send(r)
      PROVE  Work'
  BY <1>9 DEF Send
<1>10. ASSUME NEW r \in Callers, Flip(r)
      PROVE  Work'
  <2>1. \/ pc' = [pc EXCEPT ![r] = "ack"]
        \/ pc' = [pc EXCEPT ![r] = "flop"]
    BY <1>10 DEF Flip
  <2>2. UNCHANGED <<call, current, batch, limit, status,
       victims>> /\ pc[r] = "flip"
    BY <1>10 DEF Flip
  <2>3. CASE pc' = [pc EXCEPT ![r] = "ack"]
    BY <2>2, <2>3
  <2>4. CASE pc' = [pc EXCEPT ![r] = "flop"]
    BY <2>2, <2>4
  <2> QED
    BY <2>1, <2>3, <2>4
<1>11. ASSUME NEW r \in Callers, Flop(r)
      PROVE  Work'
  BY <1>11 DEF Flop
<1>12. ASSUME NEW r \in Callers, Ack(r)
      PROVE  Work'
  BY <1>12 DEF Ack
<1>13. ASSUME NEW r \in Callers, Nack(r)
      PROVE  Work'
  BY <1>13 DEF Nack
<1>14. ASSUME NEW r \in Callers, NackThrows(r)
      PROVE  Work'
  BY <1>14 DEF NackThrows, EndBatch, Return
<1>15. ASSUME NEW r \in Callers, FinishBatch(r)
      PROVE  Work'
  BY <1>15 DEF FinishBatch, EndBatch, Return
<1>16. ASSUME NEW r \in Callers, ReleaseLock(r)
      PROVE  Work'
  BY <1>16 DEF ReleaseLock, Unlock
<1>17. ASSUME NEW r \in Callers, LoseSession(r)
      PROVE  Work'
  BY <1>17 DEF LoseSession, SessionLost
<1>18. ASSUME NEW r \in Callers, Crash(r)
      PROVE  Work'
  BY <1>18 DEF Crash, CallerCrash
<1>19. ASSUME NEW S \in SUBSET Events, Replay(S)
      PROVE  Work'
  BY <1>19 DEF Replay, RuleOn
<1>20. ASSUME NEW S \in SUBSET Events, DeadLetter(S)
      PROVE  Work'
  BY <1>20 DEF DeadLetter, RuleOn
<1>21. CASE EnableSending
  BY <1>21 DEF EnableSending
<1>22. CASE PassDay
  BY <1>22 DEF PassDay
<1>23. CASE SelectExpired
  BY <1>23 DEF SelectExpired, ExpiredDispatched, ExpiredDeadLetters
<1>24. CASE DeleteSelected
  BY <1>24 DEF DeleteSelected
<1> QED
  BY <1>1, <1>2, <1>3, <1>4, <1>5, <1>6, <1>7, <1>8, <1>9, <1>10, <1>11, <1>12,
       <1>13, <1>14, <1>15, <1>16, <1>17, <1>18, <1>19, <1>20, <1>21, <1>22,
       <1>23, <1>24
     DEF Next, RequestStep

-----------------------------------------------------------------------------
(* From the provider to DISPATCHED *)

LEMMA StepAcceptance ==
    OutboxTypeOK /\ Work /\ Acceptance /\ [Next]_vars => Acceptance'
<1> SUFFICES ASSUME OutboxTypeOK, Work, Acceptance, [Next]_vars
             PROVE  Acceptance'
  OBVIOUS
<1> USE OutreachAreEvents DEF OutboxTypeOK, Work, Acceptance, DispatchedWasSent,
        DispatchedMeansSent, PcStates, InHand, Live, Stored, Sendable, rowVars,
        msgVars, runVars, boundVars
<1>1. CASE UNCHANGED vars
  BY <1>1 DEF vars, lockVars, rowVars, msgVars, runVars, boundVars
<1>2. ASSUME NEW e \in Events, Enqueue(e)
      PROVE  Acceptance'
  BY <1>2 DEF Enqueue
<1>3. ASSUME NEW e \in Events, BackoffOver(e)
      PROVE  Acceptance'
  BY <1>3 DEF BackoffOver
<1>4. ASSUME NEW r \in Callers, AskForLock(r)
      PROVE  Acceptance'
  BY <1>4 DEF AskForLock
<1>5. ASSUME NEW r \in Callers, StartBatch(r)
      PROVE  Acceptance'
  BY <1>5 DEF StartBatch
<1>6. ASSUME NEW r \in Callers, Fetch(r)
      PROVE  Acceptance'
  BY <1>6 DEF Fetch
<1>7. ASSUME NEW r \in Callers, NEW e \in Events, TakeNext(r, e)
      PROVE  Acceptance'
  BY <1>7 DEF TakeNext
<1>8. ASSUME NEW r \in Callers, Gate(r)
      PROVE  Acceptance'
  BY <1>8 DEF Gate
<1>9. ASSUME NEW r \in Callers, Send(r)
      PROVE  Acceptance'
  <2> DEFINE e == current[r]
  <2>1. e \in Events
    BY <1>9, InHandIsEvent DEF Send
  <2>2. \A d \in Events : sends[d] > 0 => sends'[d] > 0
    BY <1>9, <2>1 DEF Send
  <2>3. pc'[r] \in {"flip", "ack"} => sends'[e] > 0
    BY <1>9, <2>1 DEF Send
  <2>4. /\ pc'[r] \in {"flip", "flop"} => e \in Outreach
        /\ pc'[r] = "ack" => e \notin Outreach
    BY <1>9 DEF Send
  <2>5. \A s \in Callers \ {r} : pc'[s] = pc[s]
    BY <1>9 DEF Send
  <2>6. UNCHANGED <<status, message, current>>
    BY <1>9 DEF Send
  <2> QED
    BY <2>1, <2>2, <2>3, <2>4, <2>5, <2>6
<1>10. ASSUME NEW r \in Callers, Flip(r)
      PROVE  Acceptance'
  <2> DEFINE e == current[r]
  <2>1. e \in Outreach /\ e \in Events /\ sends[e] > 0 /\ message[e] # "NONE"
    BY <1>10, InHandIsEvent DEF Flip
  <2>2. \A d \in Events :
            /\ message[d] = "SENT" => message'[d] = "SENT"
            /\ message[d] # "NONE" => message'[d] # "NONE"
            /\ message'[d] = "SENT" => sends[d] > 0
    BY <1>10, <2>1 DEF Flip
  <2>3. /\ pc'[r] \in {"ack", "flop"}
        /\ pc'[r] = "ack" => message'[e] = "SENT"
    BY <1>10, <2>1 DEF Flip
  <2>4. \A s \in Callers \ {r} : pc'[s] = pc[s]
    BY <1>10 DEF Flip
  <2>5. UNCHANGED <<status, sends, current>>
    BY <1>10 DEF Flip
  <2> QED
    BY <2>1, <2>2, <2>3, <2>4, <2>5
<1>11. ASSUME NEW r \in Callers, Flop(r)
      PROVE  Acceptance'
  BY <1>11 DEF Flop
<1>12. ASSUME NEW r \in Callers, Ack(r)
      PROVE  Acceptance'
  <2> DEFINE e == current[r]
  <2>1. e \in Events /\ sends[e] > 0
    BY <1>12, InHandIsEvent DEF Ack
  <2>2. e \in Outreach => message[e] = "SENT"
    BY <1>12 DEF Ack
  <2>3. \A d \in Events : d # e => status'[d] = status[d]
    BY <1>12 DEF Ack
  <2>4. status'[e] # "NONE" => status[e] # "NONE"
    BY <1>12 DEF Ack
  <2>5. /\ pc'[r] \in {"loop", "nack"}
        /\ \A s \in Callers \ {r} : pc'[s] = pc[s] /\ current'[s] = current[s]
    BY <1>12 DEF Ack
  <2>6. UNCHANGED <<message, sends>>
    BY <1>12 DEF Ack
  <2> QED
    BY <2>1, <2>2, <2>3, <2>4, <2>5, <2>6
<1>13. ASSUME NEW r \in Callers, Nack(r)
      PROVE  Acceptance'
  BY <1>13 DEF Nack
<1>14. ASSUME NEW r \in Callers, NackThrows(r)
      PROVE  Acceptance'
  BY <1>14 DEF NackThrows, EndBatch
<1>15. ASSUME NEW r \in Callers, FinishBatch(r)
      PROVE  Acceptance'
  BY <1>15 DEF FinishBatch, EndBatch
<1>16. ASSUME NEW r \in Callers, ReleaseLock(r)
      PROVE  Acceptance'
  BY <1>16 DEF ReleaseLock
<1>17. ASSUME NEW r \in Callers, LoseSession(r)
      PROVE  Acceptance'
  BY <1>17 DEF LoseSession
<1>18. ASSUME NEW r \in Callers, Crash(r)
      PROVE  Acceptance'
  BY <1>18 DEF Crash
<1>19. ASSUME NEW S \in SUBSET Events, Replay(S)
      PROVE  Acceptance'
  <2>1. \A e \in Events :
            /\ status'[e] = "DISPATCHED" => status[e] = "DISPATCHED"
            /\ status'[e] # "NONE" => status[e] # "NONE"
    BY <1>19 DEF Replay, RuleOn
  <2>2. UNCHANGED <<message, sends, pc, current>>
    BY <1>19 DEF Replay, RuleOn
  <2> QED
    BY <2>1, <2>2
<1>20. ASSUME NEW S \in SUBSET Events, DeadLetter(S)
      PROVE  Acceptance'
  <2>1. \A e \in Events :
            /\ status'[e] = "DISPATCHED" => status[e] = "DISPATCHED"
            /\ status'[e] # "NONE" => status[e] # "NONE"
    BY <1>20 DEF DeadLetter, RuleOn
  <2>2. UNCHANGED <<message, sends, pc, current>>
    BY <1>20 DEF DeadLetter, RuleOn
  <2> QED
    BY <2>1, <2>2
<1>21. CASE EnableSending
  BY <1>21 DEF EnableSending
<1>22. CASE PassDay
  BY <1>22 DEF PassDay
<1>23. CASE SelectExpired
  BY <1>23 DEF SelectExpired
<1>24. CASE DeleteSelected
  <2>1. \A e \in Events :
            /\ status'[e] = "DISPATCHED" => status[e] = "DISPATCHED"
            /\ status'[e] # "NONE" => status[e] # "NONE"
    BY <1>24 DEF DeleteSelected
  <2>2. UNCHANGED <<message, sends, pc, current>>
    BY <1>24 DEF DeleteSelected
  <2> QED
    BY <2>1, <2>2
<1> QED
  BY <1>1, <1>2, <1>3, <1>4, <1>5, <1>6, <1>7, <1>8, <1>9, <1>10, <1>11, <1>12,
       <1>13, <1>14, <1>15, <1>16, <1>17, <1>18, <1>19, <1>20, <1>21, <1>22,
       <1>23, <1>24
     DEF Next, RequestStep

-----------------------------------------------------------------------------
(* Retry counts *)

LEMMA StepAttempts ==
    OutboxTypeOK /\ Work /\ Attempts /\ [Next]_vars => Attempts'
<1> SUFFICES ASSUME OutboxTypeOK, Work, Attempts, [Next]_vars
             PROVE  Attempts'
  OBVIOUS
<1> USE LimitsAreNat DEF OutboxTypeOK, Work, Attempts,
        LiveHasAttemptsLeft, PcStates, InHand, Live, Stored, rowVars, msgVars,
        runVars, boundVars
<1>1. CASE UNCHANGED vars
  BY <1>1 DEF vars, lockVars, rowVars, msgVars, runVars, boundVars
<1>2. ASSUME NEW e \in Events, Enqueue(e)
      PROVE  Attempts'
  BY <1>2, SomeLimit DEF Enqueue
<1>3. ASSUME NEW e \in Events, BackoffOver(e)
      PROVE  Attempts'
  BY <1>3 DEF BackoffOver
<1>4. ASSUME NEW r \in Callers, AskForLock(r)
      PROVE  Attempts'
  BY <1>4 DEF AskForLock
<1>5. ASSUME NEW r \in Callers, StartBatch(r)
      PROVE  Attempts'
  BY <1>5 DEF StartBatch
<1>6. ASSUME NEW r \in Callers, Fetch(r)
      PROVE  Attempts'
  BY <1>6 DEF Fetch
<1>7. ASSUME NEW r \in Callers, NEW e \in Events, TakeNext(r, e)
      PROVE  Attempts'
  BY <1>7 DEF TakeNext
<1>8. ASSUME NEW r \in Callers, Gate(r)
      PROVE  Attempts'
  BY <1>8 DEF Gate
<1>9. ASSUME NEW r \in Callers, Send(r)
      PROVE  Attempts'
  BY <1>9 DEF Send
<1>10. ASSUME NEW r \in Callers, Flip(r)
      PROVE  Attempts'
  BY <1>10 DEF Flip
<1>11. ASSUME NEW r \in Callers, Flop(r)
      PROVE  Attempts'
  BY <1>11 DEF Flop
<1>12. ASSUME NEW r \in Callers, Ack(r)
      PROVE  Attempts'
  BY <1>12 DEF Ack
<1>13. ASSUME NEW r \in Callers, Nack(r)
      PROVE  Attempts'
  BY <1>13 DEF Nack
<1>14. ASSUME NEW r \in Callers, NackThrows(r)
      PROVE  Attempts'
  BY <1>14 DEF NackThrows, EndBatch
<1>15. ASSUME NEW r \in Callers, FinishBatch(r)
      PROVE  Attempts'
  BY <1>15 DEF FinishBatch, EndBatch
<1>16. ASSUME NEW r \in Callers, ReleaseLock(r)
      PROVE  Attempts'
  BY <1>16 DEF ReleaseLock
<1>17. ASSUME NEW r \in Callers, LoseSession(r)
      PROVE  Attempts'
  BY <1>17 DEF LoseSession
<1>18. ASSUME NEW r \in Callers, Crash(r)
      PROVE  Attempts'
  BY <1>18 DEF Crash
<1>19. ASSUME NEW S \in SUBSET Events, Replay(S)
      PROVE  Attempts'
  <2> DEFINE revived == {e \in S : status[e] \in {"FAILED", "DEAD_LETTER"}}
  <2>1. \A e \in Events :
            /\ status'[e] = IF e \in revived THEN "PENDING" ELSE status[e]
            /\ retryCount'[e] = IF e \in revived THEN 0 ELSE retryCount[e]
    BY <1>19 DEF Replay, RuleOn
  <2>2. \A e \in Events : e \in revived => status'[e] # "NONE"
    BY <2>1
  <2> HIDE DEF revived
  <2> QED
    BY <2>1, <2>2, SomeLimit
<1>20. ASSUME NEW S \in SUBSET Events, DeadLetter(S)
      PROVE  Attempts'
  BY <1>20 DEF DeadLetter, RuleOn
<1>21. CASE EnableSending
  BY <1>21 DEF EnableSending
<1>22. CASE PassDay
  BY <1>22 DEF PassDay
<1>23. CASE SelectExpired
  BY <1>23 DEF SelectExpired
<1>24. CASE DeleteSelected
  BY <1>24 DEF DeleteSelected
<1> QED
  BY <1>1, <1>2, <1>3, <1>4, <1>5, <1>6, <1>7, <1>8, <1>9, <1>10, <1>11, <1>12,
       <1>13, <1>14, <1>15, <1>16, <1>17, <1>18, <1>19, <1>20, <1>21, <1>22,
       <1>23, <1>24
     DEF Next, RequestStep

-----------------------------------------------------------------------------
(* Until the first fault *)

LEMMA StepUndisturbed ==
    OutboxTypeOK /\ LockInv /\ Work /\ Undisturbed /\ [Next]_vars
        => Undisturbed'
<1> SUFFICES ASSUME OutboxTypeOK, LockInv, Work, Undisturbed, [Next]_vars
             PROVE  Undisturbed'
  OBVIOUS
<1> USE OutboxAssumption DEF OutboxTypeOK, LockTypeOK, LockInv, OwnerHolds,
        Work, Undisturbed, PcStates, InHand, Live, Stored, lockVars, rowVars,
        msgVars, runVars, boundVars, Fault, NoFault
<1>1. CASE UNCHANGED vars
  BY <1>1 DEF vars, lockVars, rowVars, msgVars, runVars, boundVars
<1>2. ASSUME NEW e \in Events, Enqueue(e)
      PROVE  Undisturbed'
  BY <1>2 DEF Enqueue
<1>3. ASSUME NEW e \in Events, BackoffOver(e)
      PROVE  Undisturbed'
  BY <1>3 DEF BackoffOver
<1>4. ASSUME NEW r \in Callers, AskForLock(r)
      PROVE  Undisturbed'
  <2>1. CASE Connect(r)
    BY <1>4, <2>1 DEF AskForLock, Connect
  <2>2. CASE Skip(r)
    BY <1>4, <2>2 DEF AskForLock, Skip
  <2> QED
    BY <1>4, <2>1, <2>2 DEF AskForLock
<1>5. ASSUME NEW r \in Callers, StartBatch(r)
      PROVE  Undisturbed'
  BY <1>5 DEF StartBatch, TryLock
<1>6. ASSUME NEW r \in Callers, Fetch(r)
      PROVE  Undisturbed'
  BY <1>6 DEF Fetch
<1>7. ASSUME NEW r \in Callers, NEW e \in Events, TakeNext(r, e)
      PROVE  Undisturbed'
  BY <1>7 DEF TakeNext
<1>8. ASSUME NEW r \in Callers, Gate(r)
      PROVE  Undisturbed'
  BY <1>8 DEF Gate
<1>9. ASSUME NEW r \in Callers, Send(r)
      PROVE  Undisturbed'
  BY <1>9 DEF Send
<1>10. ASSUME NEW r \in Callers, Flip(r)
      PROVE  Undisturbed'
  BY <1>10 DEF Flip
<1>11. ASSUME NEW r \in Callers, Flop(r)
      PROVE  Undisturbed'
  BY <1>11 DEF Flop
<1>12. ASSUME NEW r \in Callers, Ack(r)
      PROVE  Undisturbed'
  <2> SUFFICES ASSUME faults' = 0
               PROVE  Undisturbed'
    OBVIOUS
  <2>1. faults = 0 /\ UNCHANGED <<call, alive, batch>> /\ pc[r] = "ack"
    BY <1>12 DEF Ack
  <2>2. CASE current' = [current EXCEPT ![r] = NoEvent]
    <3>1. \A s \in Callers \ {r} : pc[s] = "idle"
      BY <2>1
    <3>2. \A s \in Callers \ {r} : batch[s] = {} /\ current[s] = NoEvent
      BY <3>1
    <3>3. \A e \in Events : e # current[r] => status'[e] = status[e]
      BY <1>12 DEF Ack
    <3> QED
      BY <2>1, <2>2, <3>2, <3>3, OutboxAssumption
  <2>3. CASE UNCHANGED <<status, current>>
    BY <2>1, <2>3
  <2> QED
    BY <1>12, <2>2, <2>3 DEF Ack
<1>13. ASSUME NEW r \in Callers, Nack(r)
      PROVE  Undisturbed'
  BY <1>13 DEF Nack
<1>14. ASSUME NEW r \in Callers, NackThrows(r)
      PROVE  Undisturbed'
  BY <1>14 DEF NackThrows, EndBatch, Return
<1>15. ASSUME NEW r \in Callers, FinishBatch(r)
      PROVE  Undisturbed'
  BY <1>15 DEF FinishBatch, EndBatch, Return
<1>16. ASSUME NEW r \in Callers, ReleaseLock(r)
      PROVE  Undisturbed'
  BY <1>16 DEF ReleaseLock, Unlock
<1>17. ASSUME NEW r \in Callers, LoseSession(r)
      PROVE  Undisturbed'
  BY <1>17 DEF LoseSession, SessionLost
<1>18. ASSUME NEW r \in Callers, Crash(r)
      PROVE  Undisturbed'
  BY <1>18 DEF Crash, CallerCrash
<1>19. ASSUME NEW S \in SUBSET Events, Replay(S)
      PROVE  Undisturbed'
  BY <1>19 DEF Replay, RuleOn
<1>20. ASSUME NEW S \in SUBSET Events, DeadLetter(S)
      PROVE  Undisturbed'
  BY <1>20 DEF DeadLetter, RuleOn
<1>21. CASE EnableSending
  BY <1>21 DEF EnableSending
<1>22. CASE PassDay
  BY <1>22 DEF PassDay
<1>23. CASE SelectExpired
  BY <1>23 DEF SelectExpired, ExpiredDispatched, ExpiredDeadLetters
<1>24. CASE DeleteSelected
  BY <1>24 DEF DeleteSelected
<1> QED
  BY <1>1, <1>2, <1>3, <1>4, <1>5, <1>6, <1>7, <1>8, <1>9, <1>10, <1>11, <1>12,
       <1>13, <1>14, <1>15, <1>16, <1>17, <1>18, <1>19, <1>20, <1>21, <1>22,
       <1>23, <1>24
     DEF Next, RequestStep

-----------------------------------------------------------------------------
(* Which steps touch a variable *)

LEMMA StepFaults ==
    OutboxTypeOK /\ [Next]_vars /\ faults' = 0 => faults = 0
<1>1. [Next]_vars => faults' = faults \/ faults' = faults + 1
  BY DEF Next, RequestStep, vars, boundVars, Fault, NoFault, Enqueue,
         BackoffOver, AskForLock, StartBatch, Fetch, TakeNext, Gate, Send, Flip,
         Flop, Ack, Nack, NackThrows, FinishBatch, ReleaseLock, LoseSession,
         Crash, Replay, DeadLetter, RuleOn, EnableSending, PassDay, SelectExpired,
         DeleteSelected
<1> QED
  BY <1>1 DEF OutboxTypeOK

LEMMA StepStatus ==
    [Next]_vars =>
        \/ UNCHANGED status
        \/ \E e \in Events : Enqueue(e)
        \/ \E r \in Callers : Ack(r) \/ Nack(r)
        \/ \E S \in SUBSET Events : Replay(S) \/ DeadLetter(S)
        \/ DeleteSelected
  BY DEF Next, RequestStep, vars, rowVars, BackoffOver, AskForLock, StartBatch,
         Fetch, TakeNext, Gate, Send, Flip, Flop, NackThrows, FinishBatch,
         ReleaseLock, LoseSession, Crash, EnableSending, PassDay, SelectExpired

-----------------------------------------------------------------------------
(* Kept *)

\* The steps that change what is held or the rows' status.
LEMMA StepHeld ==
    [Next]_vars =>
        \/ UNCHANGED <<status, batch, current, victims>>
        \/ \E e \in Events : Enqueue(e)
        \/ \E r \in Callers : \/ Fetch(r) \/ Ack(r) \/ Nack(r) \/ NackThrows(r)
                               \/ FinishBatch(r) \/ Crash(r)
                               \/ \E e \in Events : TakeNext(r, e)
        \/ \E S \in SUBSET Events : Replay(S) \/ DeadLetter(S)
        \/ SelectExpired
        \/ DeleteSelected
  BY DEF Next, RequestStep, vars, rowVars, runVars, BackoffOver, AskForLock,
         StartBatch, Gate, Send, Flip, Flop, ReleaseLock, LoseSession,
         EnableSending, PassDay

LEMMA StepOperations ==
    OutboxTypeOK /\ [Next]_vars /\ operations' = 0 => operations = 0
<1>1. [Next]_vars => operations' = operations \/ operations' = operations + 1
  BY DEF Next, RequestStep, vars, boundVars, Operation, Enqueue,
         BackoffOver, AskForLock, StartBatch, Fetch, TakeNext, Gate, Send, Flip,
         Flop, Ack, Nack, NackThrows, FinishBatch, ReleaseLock, LoseSession,
         Crash, Replay, DeadLetter, RuleOn, EnableSending, PassDay, SelectExpired,
         DeleteSelected
<1> QED
  BY <1>1 DEF OutboxTypeOK

LEMMA StepKept ==
    /\ OutboxTypeOK /\ OwnerHolds /\ Work /\ Undisturbed /\ Kept /\ [Next]_vars
    => Kept'
<1> SUFFICES ASSUME OutboxTypeOK, OwnerHolds, Work, Undisturbed, Kept, [Next]_vars,
                    faults' = 0, operations' = 0
             PROVE  /\ \A r \in Callers, e \in Events :
                          e \in batch'[r] \/ e = current'[r] => status'[e] \in Live
                    /\ \A e \in victims' : status'[e] \notin Live
  BY DEF Kept
<1>0. faults = 0 /\ operations = 0
  BY StepFaults, StepOperations
<1>1. /\ \A r \in Callers, e \in Events :
            e \in batch[r] \/ e = current[r] => status[e] \in Live
      /\ \A e \in victims : status[e] \notin Live
  BY <1>0 DEF Kept
\* Alone: no other request is at work.
<1>2. ASSUME NEW r \in Callers, NEW s \in Callers, s # r, pc[r] # "idle"
      PROVE  batch[s] = {} /\ current[s] = NoEvent
  BY <1>0, <1>2 DEF OwnerHolds, Work, Undisturbed, InHand
<1> USE OutboxAssumption DEF OutboxTypeOK, PcStates, Live, Stored
<1>3. CASE UNCHANGED <<status, batch, current, victims>>
  BY <1>1, <1>3
<1>4. ASSUME NEW e \in Events, Enqueue(e)
      PROVE  Kept'
  BY <1>1, <1>4 DEF Kept, Enqueue, runVars, Work
<1>5. ASSUME NEW r \in Callers, Fetch(r)
      PROVE  Kept'
  BY <1>1, <1>5 DEF Kept, Fetch, rowVars, Work, InHand
<1>6. ASSUME NEW r \in Callers, NEW e \in Events, TakeNext(r, e)
      PROVE  Kept'
  BY <1>1, <1>6 DEF Kept, TakeNext, rowVars
<1>7. ASSUME NEW r \in Callers, Ack(r)
      PROVE  Kept'
  <2>1. current[r] \in Events /\ pc[r] = "ack" /\ current[r] \notin batch[r]
    BY <1>7, InHandIsEvent DEF Ack, InHand, Work
  <2>2. status[current[r]] \in Live
    BY <1>1, <2>1
  <2>3. /\ status' = [status EXCEPT ![current[r]] = "DISPATCHED"]
        /\ current' = [current EXCEPT ![r] = NoEvent]
        /\ UNCHANGED <<batch, victims>>
    BY <1>0, <1>7, <2>2 DEF Ack, Fault
  <2> QED
    BY <1>1, <1>2, <2>1, <2>3 DEF Kept
<1>8. ASSUME NEW r \in Callers, Nack(r)
      PROVE  Kept'
  <2>1. current[r] \in Events /\ pc[r] = "nack" /\ current[r] \notin batch[r]
    BY <1>8, InHandIsEvent DEF Nack, InHand, Work
  <2>2. current[r] \notin victims
    BY <1>1, <2>1
  <2>3. /\ \A e \in Events : e # current[r] => status'[e] = status[e]
        /\ current' = [current EXCEPT ![r] = NoEvent]
        /\ UNCHANGED <<batch, victims>>
    BY <1>8 DEF Nack
  <2>4. ASSUME NEW s \in Callers, NEW e \in Events, e \in batch'[s] \/ e = current'[s]
        PROVE  /\ e # current[r]
               /\ e \in batch[s] \/ e = current[s]
    <3>1. e # NoEvent /\ current \in [Callers -> Events \cup {NoEvent}]
      OBVIOUS
    <3>2. CASE s = r
      <4>1. e \in batch[r]
        BY <2>3, <2>4, <3>1, <3>2
      <4> QED
        BY <2>1, <3>2, <4>1
    <3>3. CASE s # r
      <4>1. batch[s] = {} /\ current[s] = NoEvent
        BY <1>2, <2>1, <3>3
      <4>2. batch'[s] = {} /\ current'[s] = NoEvent
        BY <2>3, <3>1, <3>3, <4>1
      <4> QED
        BY <2>4, <3>1, <4>2
    <3> QED
      BY <3>2, <3>3
  <2> QED
    BY <1>1, <2>2, <2>3, <2>4 DEF Kept
<1>9. ASSUME NEW r \in Callers, NackThrows(r) \/ FinishBatch(r) \/ Crash(r)
      PROVE  Kept'
  <2>1. /\ batch' = [batch EXCEPT ![r] = {}]
        /\ current' = [current EXCEPT ![r] = NoEvent]
        /\ UNCHANGED <<status, victims>>
    BY <1>9 DEF NackThrows, FinishBatch, EndBatch, Crash, rowVars
  <2> QED
    BY <1>1, <2>1 DEF Kept
<1>10. ASSUME NEW S \in SUBSET Events, Replay(S) \/ DeadLetter(S)
       PROVE  FALSE
  BY <1>0, <1>10 DEF Replay, RuleOn, DeadLetter, Operation
<1>11. CASE SelectExpired
  BY <1>1, <1>11 DEF Kept, SelectExpired, ExpiredDispatched, ExpiredDeadLetters, rowVars, runVars
<1>12. CASE DeleteSelected
  BY <1>1, <1>12 DEF Kept, DeleteSelected, runVars
<1> QED
  BY <1>3, <1>4, <1>5, <1>6, <1>7, <1>8, <1>9, <1>10, <1>11, <1>12, StepHeld DEF Kept

-----------------------------------------------------------------------------
(* Only rulings are overruled *)

\* The steps that change what is held, what was read of it, or the rows.
LEMMA StepCopies ==
    [Next]_vars =>
        \/ UNCHANGED <<status, retryCount, snapshot, batch, current, ruled>>
        \/ \E e \in Events : Enqueue(e)
        \/ \E r \in Callers : \/ Fetch(r) \/ Ack(r) \/ Nack(r) \/ NackThrows(r)
                               \/ FinishBatch(r) \/ Crash(r)
                               \/ \E e \in Events : TakeNext(r, e)
        \/ \E S \in SUBSET Events : Replay(S) \/ DeadLetter(S)
        \/ DeleteSelected
  BY DEF Next, RequestStep, vars, rowVars, runVars, BackoffOver, AskForLock,
         StartBatch, Gate, Send, Flip, Flop, ReleaseLock, LoseSession,
         EnableSending, PassDay, SelectExpired

LEMMA StepOverruled ==
    /\ OutboxTypeOK /\ OwnerHolds /\ Work /\ Undisturbed
    /\ OnlyRulingsAreOverruled /\ [Next]_vars
    => OnlyRulingsAreOverruled'
<1> DEFINE
      Held(r, e) == (e \in batch[r] \/ e = current[r]) /\ e \notin ruled[r]
      Fresh(r, e) == \/ status[e] \in Live /\ retryCount[e] = snapshot[r][e]
                     \/ status[e] = "PRUNED"
<1> SUFFICES ASSUME OutboxTypeOK, OwnerHolds, Work, Undisturbed,
                    OnlyRulingsAreOverruled, [Next]_vars, faults' = 0,
                    NEW s \in Callers, NEW d \in Events, Held(s, d)'
             PROVE  Fresh(s, d)'
  BY DEF OnlyRulingsAreOverruled
<1>0. faults = 0
  BY StepFaults
<1>1. Held(s, d) => Fresh(s, d)
  BY <1>0 DEF OnlyRulingsAreOverruled
<1>2. ASSUME NEW r \in Callers, r # s, pc[r] # "idle"
      PROVE  batch[s] = {} /\ current[s] = NoEvent
  BY <1>0, <1>2 DEF OwnerHolds, Work, Undisturbed, InHand
<1> USE OutboxAssumption DEF OutboxTypeOK, PcStates, Live, Stored
<1>3. CASE UNCHANGED <<status, retryCount, snapshot, batch, current, ruled>>
  BY <1>1, <1>3
<1>4. ASSUME NEW e \in Events, Enqueue(e)
      PROVE  Fresh(s, d)'
  BY <1>1, <1>4 DEF Enqueue, runVars, Work
<1>5. ASSUME NEW r \in Callers, Fetch(r)
      PROVE  Fresh(s, d)'
  <2>1. CASE r = s
    BY <1>5, <2>1 DEF Fetch, rowVars, Work, InHand
  <2>2. CASE r # s
    BY <1>1, <1>5, <2>2 DEF Fetch, rowVars
  <2> QED
    BY <2>1, <2>2
<1>6. ASSUME NEW r \in Callers, NEW e \in Events, TakeNext(r, e)
      PROVE  Fresh(s, d)'
  BY <1>1, <1>6 DEF TakeNext, rowVars
<1>7. ASSUME NEW r \in Callers, Ack(r) \/ Nack(r)
      PROVE  Fresh(s, d)'
  <2>1. /\ current[r] \in Events /\ pc[r] # "idle" /\ current[r] \notin batch[r]
        /\ UNCHANGED <<batch, snapshot, ruled>>
    BY <1>7, InHandIsEvent DEF Ack, Nack, InHand, Work
  <2>2. \/ UNCHANGED <<status, retryCount, current>>
        \/ /\ current' = [current EXCEPT ![r] = NoEvent]
           /\ \A e \in Events : e # current[r] =>
                 status'[e] = status[e] /\ retryCount'[e] = retryCount[e]
    BY <1>7 DEF Ack, Nack
  <2>3. CASE UNCHANGED <<status, retryCount, current>>
    BY <1>1, <2>1, <2>3
  <2>4. CASE /\ current' = [current EXCEPT ![r] = NoEvent]
             /\ \A e \in Events : e # current[r] =>
                   status'[e] = status[e] /\ retryCount'[e] = retryCount[e]
    <3>1. s = r
      BY <1>2, <2>1, <2>4
    <3>2. d \in batch[r] /\ d # current[r]
      BY <2>1, <2>4, <3>1
    <3> QED
      BY <1>1, <2>1, <2>4, <3>1, <3>2
  <2> QED
    BY <2>2, <2>3, <2>4
<1>8. ASSUME NEW r \in Callers, NackThrows(r) \/ FinishBatch(r) \/ Crash(r)
      PROVE  Fresh(s, d)'
  <2>1. /\ batch' = [batch EXCEPT ![r] = {}]
        /\ current' = [current EXCEPT ![r] = NoEvent]
        /\ ruled' = [ruled EXCEPT ![r] = {}]
        /\ snapshot' = [snapshot EXCEPT ![r] = [e \in Events |-> 0]]
        /\ UNCHANGED <<status, retryCount>>
    BY <1>8 DEF NackThrows, FinishBatch, EndBatch, Crash, rowVars
  <2>2. s # r
    BY <2>1
  <2> QED
    BY <1>1, <2>1, <2>2
<1>9. ASSUME NEW S \in SUBSET Events, Replay(S) \/ DeadLetter(S)
      PROVE  Fresh(s, d)'
  <2>1. PICK T \in SUBSET Events :
          /\ RuleOn(T)
          /\ UNCHANGED snapshot
          /\ \A e \in Events \ T :
                status'[e] = status[e] /\ retryCount'[e] = retryCount[e]
    <3>1. CASE Replay(S)
      <4> WITNESS {e \in S : status[e] \in {"FAILED", "DEAD_LETTER"}} \in SUBSET Events
      <4> QED
        BY <3>1 DEF Replay, RuleOn
    <3>2. CASE DeadLetter(S)
      <4> WITNESS {e \in S : status[e] \in Live} \in SUBSET Events
      <4> QED
        BY <3>2 DEF DeadLetter, RuleOn
    <3> QED
      BY <1>9, <3>1, <3>2
  <2>2. Held(s, d) /\ d \notin T
    BY <2>1 DEF RuleOn
  <2> QED
    BY <1>1, <2>1, <2>2
<1>10. CASE DeleteSelected
  BY <1>1, <1>10 DEF DeleteSelected, runVars
<1> QED
  BY <1>3, <1>4, <1>5, <1>6, <1>7, <1>8, <1>9, <1>10, StepCopies

-----------------------------------------------------------------------------
(* Paid *)

LEMMA Smaller ==
    ASSUME NEW S, IsFiniteSet(S), NEW T, NEW x, T \subseteq S \cup {x}
    PROVE  /\ IsFiniteSet(T) /\ Cardinality(T) \in Nat
           /\ Cardinality(T) <= Cardinality(S) + 1
           /\ T \subseteq S => Cardinality(T) <= Cardinality(S)
           /\ x \in S /\ x \notin T => Cardinality(T) <= Cardinality(S) - 1
<1>1. Cardinality(S) \in Nat
  BY FS_CardinalityType
<1>2. /\ IsFiniteSet(S \cup {x})
      /\ Cardinality(S \cup {x}) \in Nat
      /\ Cardinality(S \cup {x}) = IF x \in S THEN Cardinality(S) ELSE Cardinality(S)+1
  BY FS_AddElement, FS_CardinalityType
<1>3. /\ IsFiniteSet(T) /\ Cardinality(T) \in Nat
      /\ Cardinality(T) <= Cardinality(S \cup {x})
  BY <1>2, FS_Subset, FS_CardinalityType
<1>4. T \subseteq S => Cardinality(T) <= Cardinality(S)
  BY FS_Subset
<1>5. ASSUME x \in S, x \notin T
      PROVE  Cardinality(T) <= Cardinality(S) - 1
  <2>1. T \subseteq S \ {x}
    BY <1>5
  <2>2. IsFiniteSet(S \ {x}) /\ Cardinality(S \ {x}) = Cardinality(S) - 1
    BY <1>5, FS_RemoveElement
  <2> QED
    BY <2>1, <2>2, FS_Subset
<1> QED
  BY <1>1, <1>2, <1>3, <1>4, <1>5

LEMMA StepPaid ==
    OutboxTypeOK /\ LockInv /\ Work /\ Paid /\ [Next]_vars => Paid'
<1> SUFFICES ASSUME OutboxTypeOK, LockInv, Work, Paid, [Next]_vars,
                    NEW e \in Events
             PROVE  PaidFor(e)'
  BY DEF Paid
<1>n. /\ IsFiniteSet(Holders(e)) /\ Cardinality(Holders(e)) \in Nat
      /\ sends[e] \in Nat /\ faults \in Nat
      /\ Open(e) \in {0, 1} /\ Open(e)' \in {0, 1}
      /\ sends[e] + Cardinality(Holders(e)) + Open(e) <= 1 + faults
  BY FS_CardinalityType DEF Paid, PaidFor, Open, OutboxTypeOK
\* How the number of holders changes when only request r comes to hold e.
<1>m. ASSUME NEW r \in Callers,
             \A s \in Callers : s # r /\ Holds(s, e)' => Holds(s, e)
      PROVE  /\ IsFiniteSet(Holders(e)') /\ Cardinality(Holders(e)') \in Nat
             /\ Cardinality(Holders(e)') <= Cardinality(Holders(e)) + 1
             /\ (Holds(r, e)' => Holds(r, e)) =>
                    Cardinality(Holders(e)') <= Cardinality(Holders(e))
             /\ Holds(r, e) /\ ~Holds(r, e)' =>
                    Cardinality(Holders(e)') <= Cardinality(Holders(e)) - 1
  <2>1. Holders(e)' \subseteq Holders(e) \cup {r}
    BY <1>m DEF Holders
  <2>2. (Holds(r, e)' => Holds(r, e)) => Holders(e)' \subseteq Holders(e)
    BY <1>m DEF Holders
  <2>3. Holds(r, e) /\ ~Holds(r, e)' => r \in Holders(e) /\ r \notin Holders(e)'
    BY DEF Holders
  <2> QED
    BY <1>n, <2>1, <2>2, <2>3, Smaller
\* A step after which no request holds what it did not hold.
<1>s. ASSUME \A s \in Callers : Holds(s, e)' => Holds(s, e),
             UNCHANGED sends,
             \/ faults' = faults /\ (Waits(e)' => Waits(e))
             \/ faults' = faults + 1
      PROVE  PaidFor(e)'
  <2>1. Holders(e)' \subseteq Holders(e)
    BY <1>s DEF Holders
  <2>2. /\ IsFiniteSet(Holders(e)') /\ Cardinality(Holders(e)') \in Nat
        /\ Cardinality(Holders(e)') <= Cardinality(Holders(e))
    BY <1>n, <2>1, Smaller
  <2>3. faults' = faults => Open(e)' <= Open(e)
    BY <1>n, <1>s DEF Open
  <2> QED
    BY <1>n, <1>s, <2>2, <2>3 DEF PaidFor
\* A step by which request r gives e back.
<1>b. ASSUME NEW r \in Callers,
             \A s \in Callers : s # r /\ Holds(s, e)' => Holds(s, e),
             Holds(r, e), ~Holds(r, e)', UNCHANGED <<sends, faults>>
      PROVE  PaidFor(e)'
  <2>1. /\ IsFiniteSet(Holders(e)') /\ Cardinality(Holders(e)') \in Nat
        /\ Cardinality(Holders(e)') <= Cardinality(Holders(e)) - 1
    BY <1>m, <1>b
  <2> QED
    BY <1>n, <1>b, <2>1 DEF PaidFor
<1>q. ASSUME UNCHANGED <<status, owner, pc, batch, current, sends, faults>>
      PROVE  PaidFor(e)'
  BY <1>q, <1>s DEF Holds, Waits
<1> USE OutboxAssumption, CallersAssumption
    DEF OutboxTypeOK, LockInv, LockTypeOK, CallStates, PcStates
<1>1. CASE UNCHANGED vars
  BY <1>1, <1>q DEF vars, lockVars, rowVars, msgVars, runVars, boundVars
<1>2. ASSUME NEW d \in Events, Enqueue(d)
      PROVE  PaidFor(e)'
  <2>1. \A s \in Callers : Holds(s, e)' => Holds(s, e)
    BY <1>2 DEF Enqueue, Holds, lockVars, runVars
  <2>2. Waits(e)' => Waits(e)
    BY <1>2 DEF Enqueue, Waits, Live, lockVars, runVars
  <2> QED
    BY <1>2, <1>s, <2>1, <2>2 DEF Enqueue, boundVars
<1>3. ASSUME NEW d \in Events, BackoffOver(d)
      PROVE  PaidFor(e)'
  BY <1>3, <1>q DEF BackoffOver, lockVars, runVars, msgVars, boundVars
<1>4. ASSUME NEW r \in Callers, AskForLock(r)
      PROVE  PaidFor(e)'
  BY <1>4, <1>q DEF AskForLock, Connect, Skip, rowVars, runVars, msgVars, boundVars
<1>5. ASSUME NEW r \in Callers, StartBatch(r)
      PROVE  PaidFor(e)'
  <2>1. /\ owner = NoCaller /\ owner' = r /\ pc' = [pc EXCEPT ![r] = "fetch"]
        /\ UNCHANGED <<status, batch, current, sends, faults>>
        /\ call[r] = "connected"
    BY <1>5 DEF StartBatch, TryLock, rowVars, msgVars, boundVars
  <2>2. pc[r] = "idle" /\ batch[r] = {} /\ current[r] = NoEvent
    BY <2>1 DEF Work, InHand
  <2>3. \A s \in Callers : Holds(s, e)' => Holds(s, e)
    BY <2>1, <2>2 DEF Holds
  <2>4. Waits(e)' => Waits(e)
    BY <2>1, <2>2 DEF Waits
  <2> QED
    BY <1>s, <2>1, <2>3, <2>4
<1>6. ASSUME NEW r \in Callers, Fetch(r)
      PROVE  PaidFor(e)'
  <2>1. /\ pc[r] = "fetch" /\ pc' = [pc EXCEPT ![r] = "loop"]
        /\ \A d \in batch'[r] : status[d] \in Live
        /\ \A s \in Callers : s # r => batch'[s] = batch[s]
        /\ UNCHANGED <<status, owner, current, sends, faults>>
    BY <1>6 DEF Fetch, lockVars, rowVars, msgVars, boundVars
  <2>2. batch[r] = {} /\ current[r] = NoEvent
    BY <2>1 DEF Work, InHand
  <2>3. \A s \in Callers : s # r /\ Holds(s, e)' => Holds(s, e)
    BY <2>1 DEF Holds
  <2>4. CASE owner # r
    <3>1. \A s \in Callers : Holds(s, e)' => Holds(s, e)
      BY <2>1, <2>3, <2>4 DEF Holds
    <3>2. Waits(e)' => Waits(e)
      BY <2>1, <2>4 DEF Waits
    <3> QED
      BY <1>s, <2>1, <3>1, <3>2
  <2>5. CASE owner = r /\ e \notin batch'[r]
    <3>1. \A s \in Callers : Holds(s, e)' => Holds(s, e)
      BY <2>1, <2>2, <2>3, <2>5 DEF Holds
    <3>2. Waits(e)' => Waits(e)
      BY <2>1, <2>2, <2>5 DEF Waits
    <3> QED
      BY <1>s, <2>1, <3>1, <3>2
  \* The owner takes the free place.
  <2>6. CASE owner = r /\ e \in batch'[r]
    <3>1. Open(e) = 1 /\ Open(e)' = 0
      BY <2>1, <2>2, <2>6 DEF Open, Waits
    <3>2. /\ IsFiniteSet(Holders(e)') /\ Cardinality(Holders(e)') \in Nat
          /\ Cardinality(Holders(e)') <= Cardinality(Holders(e)) + 1
      BY <1>m, <2>3
    <3> QED
      BY <1>n, <2>1, <3>1, <3>2 DEF PaidFor
  <2> QED
    BY <2>4, <2>5, <2>6
<1>7. ASSUME NEW r \in Callers, NEW d \in Events, TakeNext(r, d)
      PROVE  PaidFor(e)'
  <2>1. /\ pc[r] = "loop" /\ d \in batch[r] /\ pc' = [pc EXCEPT ![r] = "gate"]
        /\ batch' = [batch EXCEPT ![r] = @ \ {d}]
        /\ current' = [current EXCEPT ![r] = d]
        /\ UNCHANGED <<status, owner, sends, faults>>
    BY <1>7 DEF TakeNext, lockVars, rowVars, msgVars, boundVars
  <2>2. current[r] = NoEvent
    BY <2>1 DEF Work, InHand
  <2>3. \A s \in Callers : Holds(s, e)' => Holds(s, e)
    BY <2>1 DEF Holds
  <2>4. Waits(e)' => Waits(e)
    BY <2>1, <2>2 DEF Waits
  <2> QED
    BY <1>s, <2>1, <2>3, <2>4
<1>8. ASSUME NEW r \in Callers, Gate(r)
      PROVE  PaidFor(e)'
  <2>1. /\ pc[r] = "gate"
        /\ pc' = [pc EXCEPT ![r] = "send"] \/ pc' = [pc EXCEPT ![r] = "nack"]
           \/ pc' = [pc EXCEPT ![r] = "ack"]
        /\ UNCHANGED <<status, owner, batch, current, sends, faults>>
    BY <1>8 DEF Gate, lockVars, rowVars, msgVars, boundVars
  <2>2. \A s \in Callers : Holds(s, e)' => Holds(s, e)
    BY <2>1 DEF Holds
  <2> QED
    BY <1>s, <2>1, <2>2 DEF Waits
<1>9. ASSUME NEW r \in Callers, Send(r)
      PROVE  PaidFor(e)'
  <2>1. /\ pc[r] = "send" /\ current[r] \in Events
        /\ UNCHANGED <<status, owner, batch, current>>
        /\ \A s \in Callers : s # r => pc'[s] = pc[s]
    BY <1>9, InHandIsEvent DEF Send, lockVars, rowVars, InHand
  <2>2. /\ \A s \in Callers : s # r /\ Holds(s, e)' => Holds(s, e)
        /\ Open(e)' = Open(e)
    BY <2>1 DEF Holds, Open, Waits
  <2>3. pc'[r] \in {"flip", "flop", "ack", "nack"}
    BY <1>9 DEF Send
  <2>4. Holds(r, e)' => Holds(r, e)
    BY <2>1, <2>3 DEF Holds
  <2>5. CASE sends'[e] = sends[e]
    <3>1. faults' = faults \/ faults' = faults + 1
      BY <1>9 DEF Send, Fault, NoFault
    <3>2. sends'[e] + Cardinality(Holders(e)') + Open(e)' <= 1 + faults'
      BY <1>m, <1>n, <2>2, <2>4, <2>5, <3>1
    <3> QED
      BY <1>m, <2>2, <3>2 DEF PaidFor
  <2>6. CASE sends'[e] # sends[e]
    <3>1. e = current[r] /\ sends'[e] = sends[e] + 1
      BY <1>9, <2>1, <2>6 DEF Send
    <3>2. Holds(r, e) /\ e \notin batch[r]
      BY <2>1, <3>1 DEF Holds, Work
    <3>3. CASE faults' = faults + 1
      BY <1>m, <1>n, <2>2, <2>4, <3>1, <3>3 DEF PaidFor
    <3>4. CASE pc'[r] \in {"flip", "ack"} /\ faults' = faults
      <4>1. ~Holds(r, e)'
        BY <2>1, <3>2, <3>4 DEF Holds
      <4> QED
        BY <1>m, <1>n, <2>2, <3>1, <3>2, <3>4, <4>1 DEF PaidFor
    <3> QED
      BY <1>9, <2>1, <2>6, <3>3, <3>4 DEF Send, Fault, NoFault
  <2> QED
    BY <2>5, <2>6
<1>10. ASSUME NEW r \in Callers, Flip(r)
       PROVE  PaidFor(e)'
  <2>1. /\ pc[r] = "flip" /\ UNCHANGED <<status, owner, batch, current, sends>>
        /\ \/ pc' = [pc EXCEPT ![r] = "ack"] /\ faults' = faults
           \/ pc' = [pc EXCEPT ![r] = "flop"] /\ faults' = faults + 1
    BY <1>10 DEF Flip, lockVars, rowVars, Fault, NoFault
  <2>2. \A s \in Callers : s # r /\ Holds(s, e)' => Holds(s, e)
    BY <2>1 DEF Holds
  <2>3. Open(e)' = Open(e)
    BY <2>1 DEF Open, Waits
  <2>4. CASE faults' = faults
    <3>1. Holds(r, e)' => Holds(r, e)
      BY <1>n, <2>1, <2>4 DEF Holds
    <3> QED
      BY <1>m, <1>n, <2>1, <2>2, <2>3, <2>4, <3>1 DEF PaidFor
  <2>5. CASE faults' = faults + 1
    BY <1>m, <1>n, <2>1, <2>2, <2>3, <2>5 DEF PaidFor
  <2> QED
    BY <2>1, <2>4, <2>5
<1>11. ASSUME NEW r \in Callers, Flop(r)
       PROVE  PaidFor(e)'
  <2>1. /\ pc[r] = "flop" /\ pc' = [pc EXCEPT ![r] = "nack"]
        /\ UNCHANGED <<status, owner, batch, current, sends, faults>>
    BY <1>11 DEF Flop, lockVars, rowVars, boundVars
  <2>2. \A s \in Callers : Holds(s, e)' => Holds(s, e)
    BY <2>1 DEF Holds
  <2> QED
    BY <1>s, <2>1, <2>2 DEF Waits
<1>12. ASSUME NEW r \in Callers, Ack(r)
       PROVE  PaidFor(e)'
  <2>1. /\ pc[r] = "ack" /\ current[r] \in Events /\ status[current[r]] # "NONE"
        /\ UNCHANGED <<owner, batch, sends>>
    BY <1>12, InHandIsEvent DEF Ack, lockVars, msgVars, InHand, Work
  <2>2. CASE /\ status' = [status EXCEPT ![current[r]] = "DISPATCHED"]
             /\ status[current[r]] \in Stored
             /\ pc' = [pc EXCEPT ![r] = "loop"]
             /\ current' = [current EXCEPT ![r] = NoEvent]
             /\ faults' = faults
    <3>1. \A s \in Callers : Holds(s, e)' => Holds(s, e)
      BY <2>1, <2>2 DEF Holds, Stored, Live
    <3>2. Waits(e)' => Waits(e)
      BY <2>1, <2>2 DEF Waits, Live
    <3> QED
      BY <1>s, <2>1, <2>2, <3>1, <3>2
  <2>3. CASE /\ pc' = [pc EXCEPT ![r] = "nack"]
             /\ UNCHANGED <<status, current>>
             /\ IF status[current[r]] \in Stored THEN Fault ELSE NoFault
    <3>1. \A s \in Callers : s # r /\ Holds(s, e)' => Holds(s, e)
      BY <2>1, <2>3 DEF Holds
    <3>2. Open(e)' = Open(e)
      BY <2>1, <2>3 DEF Open, Waits
    <3>3. CASE faults' = faults + 1
      BY <1>m, <1>n, <2>1, <3>1, <3>2, <3>3 DEF PaidFor
    <3>4. CASE faults' = faults /\ status[current[r]] \notin Stored
      <4>1. status[current[r]] = "PRUNED"
        BY <2>1, <3>4
      <4>2. Holds(r, e)' => Holds(r, e)
        BY <2>1, <2>3, <4>1 DEF Holds
      <4> QED
        BY <1>m, <1>n, <2>1, <3>1, <3>2, <3>4, <4>2 DEF PaidFor
    <3> QED
      BY <2>3, <3>3, <3>4 DEF Fault, NoFault
  <2> QED
    BY <1>12, <2>2, <2>3 DEF Ack, NoFault
<1>13. ASSUME NEW r \in Callers, Nack(r)
       PROVE  PaidFor(e)'
  <2>1. /\ pc[r] = "nack" /\ current[r] \in Events /\ current[r] \notin batch[r]
        /\ status[current[r]] \in Stored
        /\ status'[current[r]] \in {"DEAD_LETTER", "FAILED"}
        /\ \A d \in Events : d # current[r] => status'[d] = status[d]
        /\ pc' = [pc EXCEPT ![r] = "loop"]
        /\ current' = [current EXCEPT ![r] = NoEvent]
        /\ UNCHANGED <<owner, batch, sends, faults>>
    BY <1>13, InHandIsEvent DEF Nack, lockVars, msgVars, boundVars, InHand, Work
  <2>2. \A s \in Callers : Holds(s, e)' => Holds(s, e)
    BY <2>1 DEF Holds, Stored, Live
  <2>3. CASE e = current[r]
    <3>1. Holds(r, e) /\ ~Holds(r, e)'
      BY <2>1, <2>3 DEF Holds, Stored, Live
    <3> QED
      BY <1>b, <2>1, <2>2, <3>1
  <2>4. CASE e # current[r]
    <3>1. Waits(e)' => Waits(e)
      BY <2>1, <2>4 DEF Waits
    <3> QED
      BY <1>s, <2>1, <2>2, <3>1
  <2> QED
    BY <2>3, <2>4
\* The end of a request: it gives everything back.
<1>e. ASSUME NEW r \in Callers, EndBatch(r), UNCHANGED <<status, sends, faults>>,
             pc[r] \in {"loop", "nack"},
             e = current[r] => status[e] = "PRUNED"
      PROVE  PaidFor(e)'
  <2>1. /\ pc' = [pc EXCEPT ![r] = "idle"] /\ batch' = [batch EXCEPT ![r] = {}]
        /\ current' = [current EXCEPT ![r] = NoEvent] /\ UNCHANGED owner
    BY <1>e DEF EndBatch, Return
  <2>2. (\A s \in Callers : Holds(s, e)' => Holds(s, e)) /\ ~Holds(r, e)'
    BY <1>e, <2>1 DEF Holds
  <2>3. CASE Holds(r, e)
    BY <1>b, <1>e, <2>2, <2>3
  <2>4. CASE ~Holds(r, e)
    <3>1. Waits(e)' => Waits(e)
      BY <1>e, <2>1, <2>4 DEF Waits, Holds, Live
    <3> QED
      BY <1>s, <1>e, <2>2, <3>1
  <2> QED
    BY <2>3, <2>4
<1>14. ASSUME NEW r \in Callers, NackThrows(r)
       PROVE  PaidFor(e)'
  <2>1. pc[r] = "nack" /\ EndBatch(r) /\ UNCHANGED <<status, sends>>
    BY <1>14 DEF NackThrows, rowVars, msgVars
  <2>2. CASE faults' = faults + 1
    <3>1. \A s \in Callers : Holds(s, e)' => Holds(s, e)
      BY <2>1 DEF EndBatch, Return, Holds
    <3> QED
      BY <1>s, <2>1, <2>2, <3>1
  <2>3. CASE faults' = faults /\ status[current[r]] \notin Stored
    <3>1. current[r] \in Events /\ status[current[r]] = "PRUNED"
      BY <2>1, <2>3, InHandIsEvent DEF InHand, Work
    <3> QED
      BY <1>e, <2>1, <2>3, <3>1
  <2> QED
    BY <1>14, <2>2, <2>3 DEF NackThrows, Fault, NoFault
<1>15. ASSUME NEW r \in Callers, FinishBatch(r)
       PROVE  PaidFor(e)'
  <2>1. /\ pc[r] = "loop" /\ EndBatch(r) /\ UNCHANGED <<status, sends, faults>>
    BY <1>15 DEF FinishBatch, rowVars, msgVars, boundVars
  <2>2. current[r] = NoEvent
    BY <2>1 DEF Work, InHand
  <2> QED
    BY <1>e, <2>1, <2>2
<1>16. ASSUME NEW r \in Callers, ReleaseLock(r)
       PROVE  PaidFor(e)'
  <2>1. /\ call[r] = "unlocking" /\ owner' = IF alive[r] THEN NoCaller ELSE owner
        /\ UNCHANGED <<status, pc, batch, current, sends, faults>>
    BY <1>16 DEF ReleaseLock, Unlock, rowVars, msgVars, runVars, boundVars
  <2>2. pc[r] = "idle" /\ batch[r] = {} /\ current[r] = NoEvent
    BY <2>1 DEF Work, InHand
  <2>3. owner' # owner => owner = r /\ owner' = NoCaller
    BY <2>1 DEF OwnerHolds
  <2>4. \A s \in Callers : Holds(s, e)' => Holds(s, e)
    BY <2>1, <2>2, <2>3 DEF Holds
  <2>5. Waits(e)' => Waits(e)
    BY <2>1, <2>2, <2>3 DEF Waits
  <2> QED
    BY <1>s, <2>1, <2>4, <2>5
<1>17. ASSUME NEW r \in Callers, LoseSession(r)
       PROVE  PaidFor(e)'
  <2>1. /\ owner' = IF owner = r THEN NoCaller ELSE owner
        /\ faults' = faults + 1
        /\ UNCHANGED <<status, pc, batch, current, sends>>
    BY <1>17 DEF LoseSession, SessionLost, Fault, rowVars, msgVars, runVars
  <2>2. \A s \in Callers : s # r /\ Holds(s, e)' => Holds(s, e)
    BY <2>1 DEF Holds
  <2>3. CASE owner = r /\ pc[r] = "fetch"
    <3>1. batch[r] = {} /\ current[r] = NoEvent
      BY <2>3 DEF Work, InHand
    <3>2. Open(e)' <= Open(e)
      BY <2>1, <2>3, <3>1 DEF Open, Waits
    <3> QED
      BY <1>m, <1>n, <2>1, <2>2, <3>2 DEF PaidFor
  <2>4. CASE ~(owner = r /\ pc[r] = "fetch")
    <3>1. \A s \in Callers : Holds(s, e)' => Holds(s, e)
      BY <2>1, <2>2, <2>4 DEF Holds
    <3> QED
      BY <1>s, <2>1, <3>1
  <2> QED
    BY <2>3, <2>4
<1>18. ASSUME NEW r \in Callers, Crash(r)
       PROVE  PaidFor(e)'
  <2>1. /\ owner' = IF owner = r THEN NoCaller ELSE owner
        /\ faults' = faults + 1
        /\ pc' = [pc EXCEPT ![r] = "idle"] /\ batch' = [batch EXCEPT ![r] = {}]
        /\ current' = [current EXCEPT ![r] = NoEvent]
        /\ UNCHANGED <<status, sends>>
    BY <1>18 DEF Crash, CallerCrash, Fault, rowVars, msgVars
  <2>2. \A s \in Callers : Holds(s, e)' => Holds(s, e)
    BY <2>1 DEF Holds
  <2> QED
    BY <1>s, <2>1, <2>2
<1>19. ASSUME NEW S \in SUBSET Events, Replay(S) \/ DeadLetter(S)
       PROVE  PaidFor(e)'
  <2>1. /\ UNCHANGED <<owner, pc, batch, current, sends, faults>>
        /\ \/ status'[e] = status[e]
           \/ /\ status[e] \in {"DEAD_LETTER"} \cup Live
              /\ status'[e] \in {"DEAD_LETTER"} \cup Live
    BY <1>19 DEF Replay, RuleOn, DeadLetter, Live, lockVars, msgVars, runVars
  <2>2. \A s \in Callers : Holds(s, e)' => Holds(s, e)
    BY <2>1 DEF Holds, Live
  <2>3. Waits(e)' => Waits(e)
    BY <2>1 DEF Waits
  <2> QED
    BY <1>s, <2>1, <2>2, <2>3
<1>21. CASE EnableSending
  BY <1>21, <1>q DEF EnableSending, lockVars, rowVars, runVars, boundVars
<1>22. CASE PassDay
  BY <1>22, <1>q DEF PassDay, lockVars, msgVars, runVars
<1>23. CASE SelectExpired
  BY <1>23, <1>q DEF SelectExpired, lockVars, rowVars, msgVars, runVars, boundVars
<1>24. CASE DeleteSelected
  <2>1. /\ UNCHANGED <<owner, pc, batch, current, sends, faults>>
        /\ status'[e] = status[e] \/ status'[e] = "PRUNED"
    BY <1>24 DEF DeleteSelected, lockVars, msgVars, runVars, boundVars
  <2>2. \A s \in Callers : Holds(s, e)' => Holds(s, e)
    BY <2>1 DEF Holds
  <2>3. Waits(e)' => Waits(e)
    BY <2>1 DEF Waits, Live
  <2> QED
    BY <1>s, <2>1, <2>2, <2>3
<1> QED
  BY <1>1, <1>2, <1>3, <1>4, <1>5, <1>6, <1>7, <1>8, <1>9, <1>10, <1>11, <1>12,
       <1>13, <1>14, <1>15, <1>16, <1>17, <1>18, <1>19, <1>21, <1>22, <1>23, <1>24
     DEF Next, RequestStep

-----------------------------------------------------------------------------
(* The refinement of Delivery *)

Stages == [e \in Events |-> Stage[status[e]]]

LEMMA StageOf ==
    /\ Stage["NONE"] = "absent"
    /\ Stage["PENDING"] = "owed"
    /\ Stage["FAILED"] = "owed"
    /\ Stage["DISPATCHED"] = "delivered"
    /\ Stage["DEAD_LETTER"] = "dropped"
    /\ Stage["PRUNED"] = "gone"
  BY DEF Stage

\* The same, read from the stage.
LEMMA StageTells ==
    ASSUME OutboxTypeOK, NEW e \in Events
    PROVE  /\ Stages[e] = Stage[status[e]]
           /\ Stages[e] = "absent" <=> status[e] = "NONE"
           /\ Stages[e] = "owed" <=> status[e] \in Live
           /\ Stages[e] = "delivered" <=> status[e] = "DISPATCHED"
           /\ Stages[e] = "dropped" <=> status[e] = "DEAD_LETTER"
           /\ Stages[e] = "gone" <=> status[e] = "PRUNED"
<1>1. Stages[e] = Stage[status[e]]
  BY DEF Stages
<1>2. status[e] \in {"NONE", "PENDING", "FAILED", "DISPATCHED", "DEAD_LETTER", "PRUNED"}
  BY DEF OutboxTypeOK, Stored, Live
<1> QED
  BY <1>1, <1>2, StageOf DEF Live

\* Which steps say anything about an event.
LEMMA StepKinds ==
    [Next]_vars =>
        \/ UNCHANGED <<status, sends, operations>> /\ faults' \in {faults, faults + 1}
        \/ \E e \in Events : Enqueue(e)
        \/ \E r \in Callers : Send(r) \/ Ack(r) \/ Nack(r)
        \/ \E S \in SUBSET Events : Replay(S) \/ DeadLetter(S)
        \/ DeleteSelected
  BY DEF Next, RequestStep, vars, rowVars, msgVars, boundVars, Fault, NoFault,
         BackoffOver, AskForLock, StartBatch, Fetch, TakeNext, Gate, Flip, Flop,
         NackThrows, FinishBatch, ReleaseLock, LoseSession, Crash, EnableSending,
         PassDay, SelectExpired

LEMMA InitDelivers == Init => Debt!Init
  BY StageOf DEF Init, Debt!Init

LEMMA StepDelivers ==
    OutboxInv /\ [Next]_vars => [Debt!Next]_Debt!vars
<1> SUFFICES ASSUME OutboxInv, [Next]_vars
             PROVE  [Debt!Next]_Debt!vars
  OBVIOUS
<1> USE DEF OutboxInv
<1>t. /\ status \in [Events -> Stored \cup {"NONE", "PRUNED"}]
      /\ sends \in [Events -> Nat] /\ faults \in Nat /\ operations \in Nat
  BY OutboxAssumption DEF OutboxTypeOK
<1>d. Debt!Disturbed <=> ~(faults = 0 /\ operations = 0)
  BY <1>t DEF Debt!Disturbed
\* A step that gives one event's row another status.
<1>o. ASSUME NEW e \in Events, NEW x \in Stored,
             status' = [status EXCEPT ![e] = x]
      PROVE  Stages' = [Stages EXCEPT ![e] = Stage[x]]
  BY <1>t, <1>o DEF Stages
<1>1. CASE UNCHANGED <<status, sends, operations>> /\ faults' \in {faults, faults + 1}
  BY <1>1 DEF Debt!Fail, Debt!Next, Debt!vars
<1>2. ASSUME NEW e \in Events, Enqueue(e)
      PROVE  Debt!Enqueue(e)
  <2>1. /\ status[e] = "NONE" /\ status' = [status EXCEPT ![e] = "PENDING"]
        /\ UNCHANGED <<sends, faults, operations>>
    BY <1>2 DEF Enqueue, boundVars
  <2>2. Stages' = [Stages EXCEPT ![e] = Stage["PENDING"]]
    BY <1>o, <2>1 DEF Stored, Live
  <2>3. Stages[e] = "absent" /\ Stage["PENDING"] = "owed"
    BY <2>1, StageOf, StageTells
  <2> QED
    BY <2>1, <2>2, <2>3 DEF Debt!Enqueue, Stages
<1>3. ASSUME NEW r \in Callers, Send(r), NEW e \in Events, e = current[r]
      PROVE  Debt!Accept(e) \/ UNCHANGED <<Stages, sends, faults, operations>>
  <2>1. pc[r] = "send"
    BY <1>3 DEF Send
  <2>2. /\ UNCHANGED <<Stages, operations>>
        /\ faults' \in {faults, faults + 1}
        /\ sends' = [sends EXCEPT ![e] = @ + 1] \/ UNCHANGED <<sends, faults>>
    BY <1>3 DEF Send, rowVars, Fault, NoFault, Stages
  <2>3. Stages[e] # "absent"
    BY <1>3, <2>1, StageTells DEF Work
  <2>4. Stages[e] = "owed" \/ Debt!Disturbed
    BY <1>d, <1>3, <2>1, StageTells DEF Kept
  \* The request itself is one of the holders that are paid for.
  <2>5. sends[e] <= faults
    <3>1. r \in Holders(e)
      BY <1>3, <2>1 DEF Holders, Holds
    <3>2. /\ IsFiniteSet(Holders(e)) /\ Cardinality(Holders(e)) \in Nat
          /\ Open(e) \in Nat
          /\ sends[e] + Cardinality(Holders(e)) + Open(e) <= 1 + faults
      BY <2>1, FS_CardinalityType DEF Paid, PaidFor, Open
    <3>3. Cardinality(Holders(e)) # 0
      BY <3>1, <3>2, FS_EmptySet
    <3> QED
      BY <1>t, <2>1, <3>2, <3>3
  <2> QED
    BY <2>1, <2>2, <2>3, <2>4, <2>5 DEF Debt!Accept, Stages
<1>4. ASSUME NEW r \in Callers, Ack(r), NEW e \in Events, e = current[r]
      PROVE  \/ Debt!Record(e)
             \/ Debt!Fail
             \/ UNCHANGED <<Stages, sends, faults, operations>>
  <2>1. pc[r] = "ack"
    BY <1>4 DEF Ack
  <2>2. UNCHANGED <<sends, operations>>
    BY <1>4 DEF Ack, msgVars
  <2>3. CASE UNCHANGED status
    <3>1. faults' \in {faults, faults + 1}
      BY <1>4 DEF Ack, Fault, NoFault
    <3> QED
      BY <2>2, <2>3, <3>1 DEF Debt!Fail, Stages
  <2>4. CASE /\ status[e] \in Stored
             /\ status' = [status EXCEPT ![e] = "DISPATCHED"]
             /\ UNCHANGED faults
    <3>1. Stages' = [Stages EXCEPT ![e] = Stage["DISPATCHED"]]
      BY <1>o, <2>1, <2>4 DEF Stored
    <3>2. sends[e] > 0
      BY <1>4, <2>1 DEF Acceptance
    <3>3. CASE status[e] = "DISPATCHED"
      BY <1>t, <2>1, <2>2, <2>4, <3>3 DEF Stages
    <3>4. CASE status[e] # "DISPATCHED"
      <4>1. Stages[e] = "owed" \/ (Stages[e] = "dropped" /\ Debt!Disturbed)
        BY <1>d, <1>4, <2>1, <2>4, <3>4, StageTells DEF Stored, Kept, Live
      <4> QED
        BY <2>2, <2>4, <3>1, <3>2, <4>1, StageOf DEF Debt!Record, Stages
    <3> QED
      BY <3>3, <3>4
  <2> QED
    BY <1>4, <2>3, <2>4 DEF Ack, NoFault
<1>5. ASSUME NEW r \in Callers, Nack(r), NEW e \in Events, e = current[r]
      PROVE  \/ Debt!GiveUp(e)
             \/ Debt!Relapse(e)
             \/ UNCHANGED <<Stages, sends, faults, operations>>
  <2>1. pc[r] = "nack" /\ status[e] \in Stored
    BY <1>5 DEF Nack
  <2>2. UNCHANGED <<sends, faults, operations>>
    BY <1>5 DEF Nack, msgVars, boundVars
  <2>3. PICK x \in {"DEAD_LETTER", "FAILED"} : status' = [status EXCEPT ![e] = x]
    BY <1>5 DEF Nack
  <2>4. Stages' = [Stages EXCEPT ![e] = Stage[x]] /\ Stage[x] \in {"owed", "dropped"}
    BY <1>o, <2>1, <2>3, StageOf DEF Stored, Live
  <2>5. CASE Stages[e] = Stage[x]
    BY <2>1, <2>2, <2>4, <2>5 DEF Stages
  <2>6. CASE status[e] \in Live /\ Stages[e] # Stage[x]
    <3>1. Stages[e] = "owed" /\ Stage[x] = "dropped"
      BY <2>1, <2>4, <2>6, StageTells
    <3> QED
      BY <2>2, <2>4, <3>1 DEF Debt!GiveUp, Stages
  <2>7. CASE status[e] = "DEAD_LETTER" /\ Stages[e] # Stage[x]
    <3>1. Stages[e] = "dropped" /\ Stage[x] = "owed"
      BY <2>1, <2>4, <2>7, StageTells
    <3>2. Debt!Disturbed
      BY <1>d, <1>5, <2>1, <2>7 DEF Kept, Live
    <3> QED
      BY <2>2, <2>4, <3>1, <3>2 DEF Debt!Relapse, Stages
  <2>8. CASE status[e] = "DISPATCHED"
    <3>1. Stages[e] = "delivered"
      BY <2>1, <2>8, StageTells
    <3>2. faults > 0
      BY <1>t, <1>5, <2>1, <2>8 DEF Undisturbed
    <3> QED
      BY <2>2, <2>4, <3>1, <3>2 DEF Debt!Relapse, Stages
  <2> QED
    BY <2>1, <2>5, <2>6, <2>7, <2>8 DEF Stored
<1>6. ASSUME NEW S \in SUBSET Events, Replay(S)
      PROVE  Debt!Revive(S)
  <2>1. /\ \A e \in Events : status'[e] =
               IF e \in S /\ status[e] \in {"FAILED", "DEAD_LETTER"} THEN "PENDING"
                                                                    ELSE status[e]
        /\ operations' = operations + 1 /\ UNCHANGED <<sends, faults>>
    BY <1>6 DEF Replay, RuleOn, Operation, msgVars
  <2>2. ASSUME NEW e \in Events
        PROVE  Stages'[e] = IF e \in S /\ Stages[e] = "dropped" THEN "owed" ELSE Stages[e]
    BY <2>1, StageOf, StageTells DEF Stages, Live
  <2>3. Stages' = [e \in Events |->
                       IF e \in S /\ Stages[e] = "dropped" THEN "owed" ELSE Stages[e]]
    BY <2>2 DEF Stages
  <2> QED
    BY <2>1, <2>3 DEF Debt!Revive, Stages
<1>7. ASSUME NEW S \in SUBSET Events, DeadLetter(S)
      PROVE  Debt!Drop(S)
  <2>1. /\ \A e \in Events : status'[e] =
               IF e \in S /\ status[e] \in Live THEN "DEAD_LETTER" ELSE status[e]
        /\ operations' = operations + 1 /\ UNCHANGED <<sends, faults>>
    BY <1>7 DEF DeadLetter, Operation, msgVars
  <2>2. ASSUME NEW e \in Events
        PROVE  Stages'[e] = IF e \in S /\ Stages[e] = "owed" THEN "dropped" ELSE Stages[e]
    BY <2>1, StageOf, StageTells DEF Stages
  <2>3. Stages' = [e \in Events |->
                       IF e \in S /\ Stages[e] = "owed" THEN "dropped" ELSE Stages[e]]
    BY <2>2 DEF Stages
  <2> QED
    BY <2>1, <2>3 DEF Debt!Drop, Stages
<1>8. CASE DeleteSelected
  <2>1. /\ \A e \in Events : status'[e] = IF e \in victims THEN "PRUNED" ELSE status[e]
        /\ UNCHANGED <<sends, faults, operations>>
    BY <1>8 DEF DeleteSelected, msgVars, boundVars
  <2>2. Stages' = [e \in Events |-> IF e \in victims THEN "gone" ELSE Stages[e]]
    BY <2>1, StageOf DEF Stages
  <2>3. victims \in SUBSET Events
    BY DEF OutboxTypeOK
  <2>4. \A e \in victims : Stages[e] # "absent" /\ (Stages[e] = "owed" => Debt!Disturbed)
    BY <1>d, <2>3, StageTells DEF Work, Kept
  <2>5. PICK S \in SUBSET Events : S = victims
    BY <2>3
  <2>6. Debt!Forget(S)
    BY <2>1, <2>2, <2>4, <2>5 DEF Debt!Forget, Stages
  <2> QED
    BY <2>6 DEF Debt!Next
<1>9. UNCHANGED <<Stages, sends, faults, operations>> => UNCHANGED Debt!vars
  BY DEF Debt!vars, Stages
<1>10. ASSUME NEW r \in Callers, Send(r) \/ Ack(r) \/ Nack(r)
       PROVE  [Debt!Next]_Debt!vars
  <2>1. PICK e \in Events : e = current[r]
    BY <1>10, InHandIsEvent DEF Send, Ack, Nack, InHand
  <2> QED
    BY <1>3, <1>4, <1>5, <1>9, <1>10, <2>1 DEF Debt!Next
<1> QED
  BY <1>1, <1>2, <1>6, <1>7, <1>8, <1>10, StepKinds DEF Debt!Next

-----------------------------------------------------------------------------
(* The theorems *)

LEMMA OutboxInitInv == Init => OutboxInv
<1> SUFFICES ASSUME Init
             PROVE  OutboxInv
  OBVIOUS
<1>1. /\ OutboxTypeOK /\ LockInv /\ Work /\ Acceptance /\ Attempts /\ Undisturbed
  BY OutboxAssumption, LockInitInv, SomeLimit
     DEF Init, OutboxTypeOK, LockInv, Work, Acceptance, Attempts,
         Undisturbed, DispatchedWasSent, DispatchedMeansSent,
         LiveHasAttemptsLeft, Live, Stored, Sendable, PcStates, InHand, LockInit, Events
<1>2. Kept /\ OnlyRulingsAreOverruled
  BY OutboxAssumption DEF Init, Kept, OnlyRulingsAreOverruled
<1>3. ASSUME NEW e \in Events
      PROVE  PaidFor(e)
  <2>1. Holders(e) = {}
    BY <1>3, OutboxAssumption DEF Init, Holders, Holds
  <2> QED
    BY <1>3, <2>1, FS_EmptySet DEF Init, PaidFor, Open
<1> QED
  BY <1>1, <1>2, <1>3 DEF OutboxInv, Paid

LEMMA OutboxStepInv == OutboxInv /\ [Next]_vars => OutboxInv'
<1> SUFFICES ASSUME OutboxInv, [Next]_vars
             PROVE  OutboxInv'
  OBVIOUS
<1>1. LockInv' /\ LockTypeOK'
  BY StepLock, LockStepInv DEF OutboxInv, LockInv
<1> QED
  BY <1>1, StepTypes, StepWork, StepAcceptance, StepAttempts, StepUndisturbed,
     StepKept, StepOverruled, StepPaid
     DEF OutboxInv, LockInv

THEOREM OutboxInvariance == Spec => []OutboxInv
  BY OutboxInitInv, OutboxStepInv, PTL DEF Spec

\* Rows, messages and requests keep their types: in particular no count or age
\* is ever written that is not a natural number.
THEOREM OutboxTypes == Spec => []OutboxTypeOK
<1>1. OutboxInv => OutboxTypeOK
  BY DEF OutboxInv
<1> QED
  BY <1>1, OutboxInvariance, PTL

\* A DISPATCHED event was accepted by its provider: dispatchOutboxBatch with its
\* handler never records a delivery that did not take place.
THEOREM DeliveryIsTrue == Spec => []DispatchedWasSent
<1>1. OutboxInv => DispatchedWasSent
  BY DEF OutboxInv, Acceptance
<1> QED
  BY <1>1, OutboxInvariance, PTL

\* The message of a DISPATCHED outreach says SENT, whatever requests overlap
\* between the update of the message and that of the event.
THEOREM RecordsAgree == Spec => []DispatchedMeansSent
<1>1. OutboxInv => DispatchedMeansSent
  BY DEF OutboxInv, Acceptance
<1> QED
  BY <1>1, OutboxInvariance, PTL

\* An event is delivered at most once more than there were faults, for any number
\* of requests, whatever administrators replay and in whatever order requests
\* take, lose and give back the lock.
THEOREM DuplicatesBounded == Spec => []DuplicatesArePaidFor
<1>1. OutboxInv => DuplicatesArePaidFor
  <2> SUFFICES ASSUME OutboxInv, NEW e \in Events
               PROVE  sends[e] <= 1 + faults
    BY DEF DuplicatesArePaidFor
  <2>1. PaidFor(e)
    BY DEF OutboxInv, Paid
  <2>2. /\ Cardinality(Holders(e)) \in Nat /\ Open(e) \in Nat
        /\ sends[e] \in Nat /\ faults \in Nat
    BY <2>1, FS_CardinalityType DEF PaidFor, Open, OutboxInv, OutboxTypeOK
  <2> QED
    BY <2>1, <2>2 DEF PaidFor
<1> QED
  BY <1>1, OutboxInvariance, PTL

\* A row that is still retryable has attempts left under some limit in use,
\* although failures are counted from a snapshot.
THEOREM AttemptsRemain == Spec => []LiveHasAttemptsLeft
<1>1. OutboxInv => LiveHasAttemptsLeft
  BY DEF OutboxInv, Attempts
<1> QED
  BY <1>1, OutboxInvariance, PTL

\* While nothing fails, a request that overrules a row overrules the administrator who
\* changed it in the request's hands: with any number of requests and of
\* administrators, whatever else it holds is as it was read or has been pruned.
THEOREM RulingsOverruled == Spec => []OnlyRulingsAreOverruled
<1>1. OutboxInv => OnlyRulingsAreOverruled
  BY DEF OutboxInv
<1> QED
  BY <1>1, OutboxInvariance, PTL

\* Until the first fault a DISPATCHED row stays DISPATCHED or is pruned: the lock
\* keeps a second request from working on a stale copy of it.
THEOREM DispatchedStays == Spec => DispatchedIsFinal
<1>1. OutboxInv /\ [Next]_vars =>
        [\A e \in Events : status[e] = "DISPATCHED" /\ faults' = 0
             => status'[e] \in {"DISPATCHED", "PRUNED"}]_vars
  <2> SUFFICES ASSUME OutboxInv, [Next]_vars, NEW d \in Events,
                      status[d] = "DISPATCHED", faults' = 0
               PROVE  status'[d] \in {"DISPATCHED", "PRUNED"}
    OBVIOUS
  <2>1. faults = 0
    BY StepFaults DEF OutboxInv
  <2>2. \A r \in Callers : d # current[r]
    BY <2>1 DEF OutboxInv, Undisturbed
  <2> USE DEF OutboxInv, OutboxTypeOK, Live
  <2>3. ASSUME NEW e \in Events, Enqueue(e)
        PROVE  status'[d] = "DISPATCHED"
    BY <2>3 DEF Enqueue
  <2>4. ASSUME NEW r \in Callers, Ack(r) \/ Nack(r)
        PROVE  status'[d] = "DISPATCHED"
    BY <2>2, <2>4 DEF Ack, Nack
  <2>5. ASSUME NEW S \in SUBSET Events, Replay(S) \/ DeadLetter(S)
        PROVE  status'[d] = "DISPATCHED"
    BY <2>5 DEF Replay, RuleOn, DeadLetter
  <2>6. CASE DeleteSelected
    BY <2>6 DEF DeleteSelected
  <2>7. CASE UNCHANGED status
    BY <2>7
  <2> QED
    BY <2>3, <2>4, <2>5, <2>6, <2>7, StepStatus
<1> QED
  BY <1>1, OutboxInvariance, PTL DEF Spec, DispatchedIsFinal

\* Until the first fault and the first administrator, the pruning DELETE takes no
\* row that is still waiting for delivery: nothing it has selected turns
\* retryable before it runs.
THEOREM LiveKept == Spec => LiveKeptUndisturbed
<1>1. OutboxInv /\ [Next]_vars =>
        [\A e \in Events : status[e] \in Live /\ operations = 0 /\ faults = 0
             => status'[e] # "PRUNED"]_vars
  <2> SUFFICES ASSUME OutboxInv, [Next]_vars, NEW d \in Events,
                      status[d] \in Live, operations = 0, faults = 0
               PROVE  status'[d] # "PRUNED"
    OBVIOUS
  <2>1. d \notin victims
    BY DEF OutboxInv, Kept
  <2> USE DEF OutboxInv, OutboxTypeOK, Live
  <2>2. ASSUME NEW e \in Events, Enqueue(e)
        PROVE  status'[d] # "PRUNED"
    BY <2>2 DEF Enqueue
  <2>3. ASSUME NEW r \in Callers, Ack(r) \/ Nack(r)
        PROVE  status'[d] # "PRUNED"
    BY <2>3 DEF Ack, Nack
  <2>4. ASSUME NEW S \in SUBSET Events, Replay(S) \/ DeadLetter(S)
        PROVE  status'[d] # "PRUNED"
    BY <2>4 DEF Replay, RuleOn, DeadLetter
  <2>5. CASE DeleteSelected
    BY <2>1, <2>5 DEF DeleteSelected
  <2>6. CASE UNCHANGED status
    BY <2>6
  <2> QED
    BY <2>2, <2>3, <2>4, <2>5, <2>6, StepStatus
<1> QED
  BY <1>1, OutboxInvariance, PTL DEF Spec, LiveKeptUndisturbed

\* The dispatch requests keep the promise of the lock: while a request works,
\* another starts only if the first has lost its session.
THEOREM BatchesAreExclusive == Spec => ImplementsExclusion
<1>1. Init => Promise!Init
  BY InitRefines DEF Init
<1>2. OutboxInv /\ [Next]_vars => [Promise!Next]_Promise!vars
  BY StepLock, StepRefines DEF OutboxInv
<1> QED
  BY <1>1, <1>2, OutboxInvariance, PTL DEF Spec, ImplementsExclusion, Promise!Spec

\* The outbox keeps its promise, for any events, requests, limits and bounds: what
\* the rows of an event say is where it stands in Delivery, so that an event is
\* accepted only while it is owed, recorded only if it was accepted and settled for
\* good, but for the failures and administrators Delivery names.
THEOREM OutboxImplementsDelivery == Spec => ImplementsDelivery
  BY InitDelivers, StepDelivers, OutboxInvariance, PTL
     DEF Spec, ImplementsDelivery, Debt!Spec
=============================================================================
