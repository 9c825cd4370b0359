------------------------------ MODULE SyncCycle ------------------------------
(***************************************************************************)
(* The heavy sync cycles: the worker's loop (worker/sync-runner.ts) and    *)
(* the web cron (app/api/cron/sync/route.ts), serialised by the (WIPG,     *)
(* SYNC) advisory lock.                                                    *)
(*                                                                         *)
(* The worker races its cycle against a timer (worker/timeout.ts).  When   *)
(* the timer wins, the promise of the cycle is abandoned, not cancelled:   *)
(* the lock is released while the modules go on running in the process.    *)
(***************************************************************************)
EXTENDS AdvisoryLock

CONSTANTS
    Workers,       \* worker processes in continuous mode
    Crons,         \* requests to POST /api/cron/sync
    Modules,       \* how many modules runSync goes through
    MaxTimeouts,   \* bound: cycles abandoned by their timer
    MaxFaults      \* bound: lost sessions and crashes

ASSUME SyncAssumption ==
    /\ Callers = Workers \cup Crons
    /\ Workers \cap Crons = {}
    /\ {Modules, MaxTimeouts, MaxFaults} \subseteq Nat

VARIABLES
    done,          \* done[c]: modules the cycle under the lock has been through
    failed,        \* failed[c]: one of them failed
    abandoned,     \* timed-out cycles still running, each <<its worker, the number
                   \* of its timeout>>
    lastSync,      \* lastSyncStatus of the health endpoint of each worker
    timeouts, faults

syncVars == <<done, failed, abandoned, lastSync, timeouts, faults>>
vars == <<lockVars, syncVars>>

Init ==
    /\ LockInit
    /\ done = [c \in Callers |-> 0]
    /\ failed = [c \in Callers |-> FALSE]
    /\ abandoned = {}
    /\ lastSync = [w \in Workers |-> "null"]
    /\ timeouts = 0
    /\ faults = 0

Report(c, result) ==
    lastSync' = [w \in Workers |-> IF w = c THEN result ELSE lastSync[w]]

-----------------------------------------------------------------------------

\* runSyncCycle begins: the health endpoint says "running" before the lock is
\* asked for.  The cron just asks.
Begin(c) ==
    /\ Connect(c)
    /\ Report(c, "running")
    /\ UNCHANGED <<done, failed, abandoned, timeouts, faults>>

\* loadOrchestrator throws before the lock is asked for.
LoadFails(w) ==
    /\ call[w] = "idle"
    /\ Report(w, "error")
    /\ UNCHANGED <<lockVars, done, failed, abandoned, timeouts, faults>>

\* Mutant of SkipCycle: the early return forgets updateSyncStatus.
SkipSilently(c) ==
    /\ Skip(c)
    /\ UNCHANGED syncVars

\* A busy lock counts as a successful no-op; a query that throws is an error.
SkipCycle(c) ==
    /\ Skip(c)
    /\ Report(c, IF alive[c] THEN "success" ELSE "error")
    /\ UNCHANGED <<done, failed, abandoned, timeouts, faults>>

StartCycle(c) ==
    /\ TryLock(c)
    /\ done' = [done EXCEPT ![c] = 0]
    /\ failed' = [failed EXCEPT ![c] = FALSE]
    /\ UNCHANGED <<abandoned, lastSync, timeouts, faults>>

\* runSync: one module after the other, a failing one does not stop the rest.
RunModule(c) ==
    /\ call[c] = "running"
    /\ done[c] < Modules
    /\ done' = [done EXCEPT ![c] = @ + 1]
    /\ \E bad \in BOOLEAN : failed' = [failed EXCEPT ![c] = @ \/ bad]
    /\ UNCHANGED <<lockVars, abandoned, lastSync, timeouts, faults>>

FinishCycle(c) ==
    /\ done[c] = Modules
    /\ Return(c)
    /\ UNCHANGED syncVars

\* withTimeout rejects: fn throws, the lock will be released, runSync goes on.
TimeOut(w) ==
    /\ timeouts < MaxTimeouts
    /\ timeouts' = timeouts + 1
    /\ Return(w)
    /\ failed' = [failed EXCEPT ![w] = TRUE]
    /\ abandoned' = abandoned \cup {<<w, timeouts'>>}
    /\ UNCHANGED <<done, lastSync, faults>>

AbandonedEnds(w) ==
    /\ \E cycle \in abandoned :
          /\ cycle[1] = w
          /\ abandoned' = abandoned \ {cycle}
    /\ UNCHANGED <<lockVars, done, failed, lastSync, timeouts, faults>>

\* The lock is released; then assertSyncResultsHealthy or the catch decides what
\* is reported.
EndCycle(c) ==
    /\ Unlock(c)
    /\ Report(c, IF failed[c] THEN "error" ELSE "success")
    /\ UNCHANGED <<done, failed, abandoned, timeouts, faults>>

Fault == faults < MaxFaults /\ faults' = faults + 1

LoseSession(c) ==
    /\ SessionLost(c)
    /\ Fault
    /\ UNCHANGED <<done, failed, abandoned, lastSync, timeouts>>

\* The process dies and is started again: its abandoned cycles end with it.
Restart(c) ==
    /\ CallerCrash(c)
    /\ Fault
    /\ abandoned' = {cycle \in abandoned : cycle[1] # c}
    /\ Report(c, "null")
    /\ UNCHANGED <<done, failed, timeouts>>

CycleStep(c) ==
    \/ Begin(c)
    \/ SkipCycle(c)
    \/ StartCycle(c)
    \/ RunModule(c)
    \/ FinishCycle(c)
    \/ EndCycle(c)

Next ==
    \/ \E c \in Callers : CycleStep(c) \/ LoseSession(c) \/ Restart(c)
    \/ \E w \in Workers : TimeOut(w) \/ LoadFails(w) \/ AbandonedEnds(w)

\* The worker's loop and the Railway cron start cycle after cycle, and a module
\* that has started ends (providers and queries have timeouts of their own).
Fairness == \A c \in Callers : WF_vars(CycleStep(c))

Spec == Init /\ [][Next]_vars /\ Fairness

-----------------------------------------------------------------------------
(* Properties *)

SyncTypeOK ==
    /\ LockTypeOK
    /\ done \in [Callers -> 0 .. Modules]
    /\ failed \in [Callers -> BOOLEAN]
    /\ abandoned \subseteq Workers \X (1 .. timeouts)
    /\ lastSync \in [Workers -> {"null", "running", "success", "error"}]
    /\ timeouts \in 0 .. MaxTimeouts
    /\ faults \in 0 .. MaxFaults

Cycling == {c \in Callers : call[c] = "running"}

\* The cycles at work in all processes, with or without the lock.
HeavyCycles == Cardinality(Cycling) + Cardinality(abandoned)

\* Each cycle beyond the first is owed to one timeout or one fault: the lock lets
\* none through by itself, whoever starts, skips, ends or dies in whatever order.
StackingIsPaidFor == HeavyCycles <= 1 + timeouts + faults

\* Up to the first timeout or fault, cycles do not overlap at all.
ExclusiveUntilTimeout ==
    timeouts = 0 /\ faults = 0 =>
        /\ \A c, d \in Cycling : c = d
        /\ abandoned = {}

\* Sync goes on for ever: busy answers, timeouts, lost sessions and restarts
\* never end in a state in which every cycle is skipped.
SyncGoesOn == []<>(Cycling # {})

\* A worker that reports "running" reports something else later: no path through
\* runSyncCycle forgets the final updateSyncStatus.
RunningEnds ==
    \A w \in Workers : (lastSync[w] = "running") ~> (lastSync[w] # "running")
=============================================================================
