-------------------------- MODULE SyncCycleProofs --------------------------
(***************************************************************************)
(* Theorems about SyncCycle, for any workers, crons and bounds.            *)
(***************************************************************************)
EXTENDS SyncCycle, AdvisoryLockProofs, FiniteSetTheorems

\* Until something goes wrong every session lives as long as its call, so that
\* OwnerHolds makes the cycle under the lock the only one.
Healthy ==
    timeouts = 0 /\ faults = 0 =>
        /\ \A c \in Callers : call[c] # "idle" => alive[c]
        /\ abandoned = {}

\* The next cycle that starts needs no excuse: none that owns the lock is at work.
Free == IF owner # NoCaller /\ call[owner] = "running" THEN 0 ELSE 1

\* StackingIsPaidFor, counting the cycle that the lock would let start now.
Paid ==
    /\ IsFiniteSet(Cycling) /\ IsFiniteSet(abandoned)
    /\ Cardinality(Cycling) + Cardinality(abandoned) + Free <= 1 + timeouts + faults

SyncInv == SyncTypeOK /\ LockInv /\ Healthy /\ Paid

LEMMA SyncStepLock == [Next]_vars => [LockNext]_lockVars
<1>1. ASSUME NEW c \in Callers, CycleStep(c) \/ LoseSession(c) \/ Restart(c)
      PROVE  [LockNext]_lockVars
  BY <1>1 DEF CycleStep, Begin, SkipCycle, StartCycle, RunModule, FinishCycle,
              EndCycle, LoseSession, Restart, LockNext
<1>2. ASSUME NEW w \in Workers, TimeOut(w) \/ LoadFails(w) \/ AbandonedEnds(w)
      PROVE  [LockNext]_lockVars
  BY <1>2, SyncAssumption DEF TimeOut, LoadFails, AbandonedEnds, LockNext
<1> QED
  BY <1>1, <1>2 DEF Next, vars

LEMMA SyncStepTypes == SyncTypeOK /\ LockTypeOK' /\ [Next]_vars => SyncTypeOK'
<1> SUFFICES ASSUME SyncTypeOK, LockTypeOK', [Next]_vars
             PROVE  SyncTypeOK'
  OBVIOUS
<1> USE SyncAssumption DEF SyncTypeOK, syncVars, Report, Fault
<1>1. CASE UNCHANGED vars
  BY <1>1 DEF vars
<1>2. ASSUME NEW c \in Callers,
             Begin(c) \/ SkipCycle(c) \/ FinishCycle(c) \/ EndCycle(c)
      PROVE  SyncTypeOK'
  BY <1>2 DEF Begin, SkipCycle, FinishCycle, EndCycle
<1>3. ASSUME NEW c \in Callers, StartCycle(c)
      PROVE  SyncTypeOK'
  BY <1>3 DEF StartCycle
<1>4. ASSUME NEW c \in Callers, RunModule(c)
      PROVE  SyncTypeOK'
  <2>1. done' \in [Callers -> 0 .. Modules]
    BY <1>4 DEF RunModule
  <2>2. failed' \in [Callers -> BOOLEAN]
    BY <1>4, Zenon DEF RunModule
  <2> QED
    BY <1>4, <2>1, <2>2 DEF RunModule
<1>5. ASSUME NEW c \in Callers, LoseSession(c) \/ Restart(c)
      PROVE  SyncTypeOK'
  BY <1>5 DEF LoseSession, Restart
<1>6. ASSUME NEW w \in Workers, TimeOut(w)
      PROVE  SyncTypeOK'
  BY <1>6 DEF TimeOut
<1>7. ASSUME NEW w \in Workers, LoadFails(w)
      PROVE  SyncTypeOK'
  BY <1>7 DEF LoadFails
<1>8. ASSUME NEW w \in Workers, AbandonedEnds(w)
      PROVE  SyncTypeOK'
  BY <1>8 DEF AbandonedEnds
<1> QED
  BY <1>1, <1>2, <1>3, <1>4, <1>5, <1>6, <1>7, <1>8 DEF Next, CycleStep

LEMMA SyncStepHealthy ==
    SyncTypeOK /\ Healthy /\ [Next]_vars => Healthy'
<1> SUFFICES ASSUME SyncTypeOK, Healthy, [Next]_vars,
                    timeouts' = 0, faults' = 0
             PROVE  Healthy'
  BY DEF Healthy
<1> USE SyncAssumption DEF SyncTypeOK, LockTypeOK, syncVars, Healthy, Fault
<1>1. CASE UNCHANGED vars
  BY <1>1 DEF vars, lockVars
<1>2. ASSUME NEW c \in Callers, Begin(c) \/ SkipCycle(c) \/ StartCycle(c)
      PROVE  Healthy'
  BY <1>2 DEF Begin, Connect, SkipCycle, Skip, StartCycle, TryLock
<1>3. ASSUME NEW c \in Callers, RunModule(c) \/ FinishCycle(c) \/ EndCycle(c)
      PROVE  Healthy'
  BY <1>3 DEF RunModule, FinishCycle, Return, EndCycle, Unlock, lockVars
<1>4. ASSUME NEW c \in Callers, LoseSession(c) \/ Restart(c)
      PROVE  FALSE
  BY <1>4 DEF LoseSession, Restart
<1>5. ASSUME NEW w \in Workers, TimeOut(w)
      PROVE  FALSE
  BY <1>5 DEF TimeOut
<1>6. ASSUME NEW w \in Workers, LoadFails(w) \/ AbandonedEnds(w)
      PROVE  Healthy'
  BY <1>6 DEF LoadFails, AbandonedEnds, lockVars
<1> QED
  BY <1>1, <1>2, <1>3, <1>4, <1>5, <1>6 DEF Next, CycleStep

-----------------------------------------------------------------------------
(* Paid: a cycle that starts takes the free place; a place is given back by *)
(* the owner's end, or bought with a timeout or a fault.                    *)

LEMMA OneMore ==
    ASSUME NEW S, IsFiniteSet(S), NEW x
    PROVE  /\ IsFiniteSet(S \cup {x}) /\ Cardinality(S \cup {x}) \in Nat
           /\ Cardinality(S \cup {x}) <= Cardinality(S) + 1
<1>1. Cardinality(S) \in Nat
  BY FS_CardinalityType
<1>2. /\ IsFiniteSet(S \cup {x})
      /\ Cardinality(S \cup {x}) = IF x \in S THEN Cardinality(S) ELSE Cardinality(S)+1
  BY FS_AddElement
<1> QED
  BY <1>1, <1>2

LEMMA OneLess ==
    ASSUME NEW S, IsFiniteSet(S), NEW x
    PROVE  /\ IsFiniteSet(S \ {x}) /\ Cardinality(S \ {x}) \in Nat
           /\ Cardinality(S \ {x}) <= Cardinality(S)
           /\ x \in S => Cardinality(S \ {x}) = Cardinality(S) - 1
<1>1. Cardinality(S) \in Nat /\ Cardinality(S \ {x}) \in Nat
  BY FS_RemoveElement, FS_CardinalityType
<1>2. /\ IsFiniteSet(S \ {x})
      /\ Cardinality(S \ {x}) = IF x \in S THEN Cardinality(S)-1 ELSE Cardinality(S)
  BY FS_RemoveElement
<1> QED
  BY <1>1, <1>2

LEMMA SyncStepPaid ==
    SyncTypeOK /\ OwnerHolds /\ Paid /\ [Next]_vars => Paid'
<1> SUFFICES ASSUME SyncTypeOK, OwnerHolds, Paid, [Next]_vars
             PROVE  Paid'
  OBVIOUS
<1> USE SyncAssumption, CallersAssumption
    DEF SyncTypeOK, LockTypeOK, CallStates, syncVars, Fault
<1>n. /\ IsFiniteSet(Cycling) /\ Cardinality(Cycling) \in Nat
      /\ IsFiniteSet(abandoned) /\ Cardinality(abandoned) \in Nat
      /\ timeouts \in Nat /\ faults \in Nat
      /\ Free \in {0, 1} /\ Free' \in {0, 1}
      /\ Cardinality(Cycling) + Cardinality(abandoned) + Free <= 1 + timeouts + faults
  BY FS_CardinalityType DEF Paid, Free
<1>s. ASSUME Cycling' = Cycling, Free' = Free, UNCHANGED <<abandoned, timeouts, faults>>
      PROVE  Paid'
  BY <1>s DEF Paid
<1>1. CASE UNCHANGED vars
  BY <1>1, <1>s DEF vars, lockVars, Cycling, Free
<1>2. ASSUME NEW c \in Callers, Begin(c) \/ SkipCycle(c)
      PROVE  Paid'
  <2>1. Cycling' = Cycling
    BY <1>2 DEF Begin, Connect, SkipCycle, Skip, Cycling
  <2>2. Free' = Free
    BY <1>2 DEF Begin, Connect, SkipCycle, Skip, Free
  <2> QED
    BY <1>2, <2>1, <2>2, <1>s DEF Begin, SkipCycle
<1>3. ASSUME NEW c \in Callers, StartCycle(c)
      PROVE  Paid'
  <2>1. Cycling' = Cycling \cup {c}
    BY <1>3 DEF StartCycle, TryLock, Cycling
  <2>2. Free = 1 /\ Free' = 0
    BY <1>3 DEF StartCycle, TryLock, Free
  <2>3. UNCHANGED <<abandoned, timeouts, faults>>
    BY <1>3 DEF StartCycle
  <2>4. /\ IsFiniteSet(Cycling') /\ Cardinality(Cycling') \in Nat
        /\ Cardinality(Cycling') <= Cardinality(Cycling) + 1
    BY <2>1, <1>n, OneMore
  <2> QED
    BY <2>2, <2>3, <2>4, <1>n DEF Paid
<1>4. ASSUME NEW c \in Callers, RunModule(c)
      PROVE  Paid'
  BY <1>4, <1>s DEF RunModule, lockVars, Cycling, Free
<1>5. ASSUME NEW c \in Callers, Return(c)
      PROVE  /\ c \in Cycling /\ Cycling' = Cycling \ {c}
  BY <1>5 DEF Return, Cycling
<1>6. ASSUME NEW c \in Callers, FinishCycle(c)
      PROVE  Paid'
  <2>1. c \in Cycling /\ Cycling' = Cycling \ {c}
    BY <1>5, <1>6 DEF FinishCycle
  <2>2. UNCHANGED <<abandoned, timeouts, faults>>
    BY <1>6 DEF FinishCycle
  <2>3. /\ IsFiniteSet(Cycling') /\ Cardinality(Cycling') \in Nat
        /\ Cardinality(Cycling') = Cardinality(Cycling) - 1
    BY <2>1, <1>n, OneLess
  <2> QED
    BY <2>2, <2>3, <1>n DEF Paid
<1>7. ASSUME NEW c \in Callers, EndCycle(c)
      PROVE  Paid'
  <2>1. Cycling' = Cycling
    BY <1>7 DEF EndCycle, Unlock, Cycling
  <2>2. Free' = Free
    BY <1>7 DEF EndCycle, Unlock, Free, OwnerHolds
  <2> QED
    BY <1>7, <2>1, <2>2, <1>s DEF EndCycle
<1>8. ASSUME NEW c \in Callers, LoseSession(c)
      PROVE  Paid'
  <2>1. Cycling' = Cycling /\ UNCHANGED <<abandoned, timeouts>> /\ faults' = faults + 1
    BY <1>8 DEF LoseSession, SessionLost, Cycling
  <2> QED
    BY <2>1, <1>n DEF Paid
<1>9. ASSUME NEW c \in Callers, Restart(c)
      PROVE  Paid'
  <2>1. Cycling' = Cycling \ {c}
    BY <1>9 DEF Restart, CallerCrash, Cycling
  <2>2. abandoned' \in SUBSET abandoned
    BY <1>9 DEF Restart
  <2>3. /\ IsFiniteSet(abandoned') /\ Cardinality(abandoned') \in Nat
        /\ Cardinality(abandoned') <= Cardinality(abandoned)
    BY <2>2, <1>n, FS_Subset, FS_CardinalityType
  <2>4. UNCHANGED timeouts /\ faults' = faults + 1
    BY <1>9 DEF Restart
  <2>5. /\ IsFiniteSet(Cycling') /\ Cardinality(Cycling') \in Nat
        /\ Cardinality(Cycling') <= Cardinality(Cycling)
    BY <2>1, <1>n, OneLess
  <2> QED
    BY <2>3, <2>4, <2>5, <1>n DEF Paid
<1>10. ASSUME NEW w \in Workers, TimeOut(w)
       PROVE  Paid'
  <2>1. w \in Cycling /\ Cycling' = Cycling \ {w}
    BY <1>5, <1>10 DEF TimeOut
  <2>2. /\ abandoned' = abandoned \cup {<<w, timeouts'>>}
        /\ timeouts' = timeouts + 1 /\ UNCHANGED faults
    BY <1>10 DEF TimeOut
  <2>3. /\ IsFiniteSet(Cycling') /\ Cardinality(Cycling') \in Nat
        /\ Cardinality(Cycling') = Cardinality(Cycling) - 1
    BY <2>1, <1>n, OneLess
  <2>4. /\ IsFiniteSet(abandoned') /\ Cardinality(abandoned') \in Nat
        /\ Cardinality(abandoned') <= Cardinality(abandoned) + 1
    BY <2>2, <1>n, OneMore
  <2> QED
    BY <2>2, <2>3, <2>4, <1>n DEF Paid
<1>11. ASSUME NEW w \in Workers, LoadFails(w)
       PROVE  Paid'
  BY <1>11, <1>s DEF LoadFails, lockVars, Cycling, Free
<1>12. ASSUME NEW w \in Workers, AbandonedEnds(w)
       PROVE  Paid'
  <2>1. PICK cycle \in abandoned : abandoned' = abandoned \ {cycle}
    BY <1>12 DEF AbandonedEnds
  <2>2. Cycling' = Cycling /\ Free' = Free /\ UNCHANGED <<timeouts, faults>>
    BY <1>12 DEF AbandonedEnds, lockVars, Cycling, Free
  <2>3. /\ IsFiniteSet(abandoned') /\ Cardinality(abandoned') \in Nat
        /\ Cardinality(abandoned') <= Cardinality(abandoned)
    BY <2>1, <1>n, OneLess
  <2> QED
    BY <2>2, <2>3, <1>n DEF Paid
<1> QED
  BY <1>1, <1>2, <1>3, <1>4, <1>6, <1>7, <1>8, <1>9, <1>10, <1>11, <1>12
     DEF Next, CycleStep

-----------------------------------------------------------------------------
(* Theorems *)

LEMMA SyncInitInv == Init => SyncInv
<1> SUFFICES ASSUME Init
             PROVE  SyncInv
  OBVIOUS
<1>1. SyncTypeOK /\ Healthy
  BY SyncAssumption, LockInitInv
     DEF Init, LockInit, SyncTypeOK, LockInv, Healthy
<1>2. Cycling = {} /\ abandoned = {} /\ Free = 1
  BY DEF Init, LockInit, Cycling, Free
<1>3. Paid
  BY <1>2, FS_EmptySet DEF Init, Paid
<1> QED
  BY <1>1, <1>3, LockInitInv DEF Init, SyncInv

\* The types, the lock's invariant, Healthy and Paid are inductive together.
THEOREM SyncInvariance == Spec => []SyncInv
<1>1. Init => SyncInv
  BY SyncInitInv
<1>2. SyncInv /\ [Next]_vars => SyncInv'
  BY SyncStepLock, LockStepInv, SyncStepTypes, SyncStepHealthy, SyncStepPaid
     DEF SyncInv, LockInv
<1> QED
  BY <1>1, <1>2, PTL DEF Spec

\* Before the first timeout, lost session or crash no two cycles overlap, in
\* any mixture of workers and cron requests.
THEOREM CyclesExclusive == Spec => []ExclusiveUntilTimeout
<1>1. SyncInv => ExclusiveUntilTimeout
  BY DEF SyncInv, Healthy, LockInv, OwnerHolds, ExclusiveUntilTimeout, Cycling
<1> QED
  BY <1>1, SyncInvariance, PTL

\* However timeouts, lost sessions and restarts of any number of workers and crons
\* fall together, each heavy cycle beyond the first is owed to one of them.
THEOREM StackingBounded == Spec => []StackingIsPaidFor
<1>1. SyncInv => StackingIsPaidFor
  <2> SUFFICES ASSUME SyncInv
               PROVE  StackingIsPaidFor
    OBVIOUS
  <2>1. Cardinality(Cycling) \in Nat /\ Cardinality(abandoned) \in Nat
    BY FS_CardinalityType DEF SyncInv, Paid
  <2> QED
    BY <2>1, SyncAssumption
       DEF SyncInv, SyncTypeOK, Paid, Free, StackingIsPaidFor, HeavyCycles
<1> QED
  BY <1>1, SyncInvariance, PTL

\* Whatever happens, the functions under the lock keep the lock's promise; what
\* escapes it is only the work a timeout has abandoned.
THEOREM CyclesKeepPromise == Spec => ImplementsExclusion
<1>1. Init => Promise!Init
  BY InitRefines DEF Init
<1>2. SyncInv /\ [Next]_vars => [Promise!Next]_Promise!vars
  BY SyncStepLock, StepRefines DEF SyncInv
<1> QED
  BY <1>1, <1>2, SyncInvariance, PTL DEF Spec, ImplementsExclusion, Promise!Spec
=============================================================================
