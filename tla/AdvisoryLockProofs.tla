------------------------- MODULE AdvisoryLockProofs -------------------------
(***************************************************************************)
(* Theorems about AdvisoryLock for any set of callers.  OwnerHolds is      *)
(* inductive together with the types, and it is all that the refinement of *)
(* Exclusion needs.                                                        *)
(***************************************************************************)
EXTENDS AdvisoryLock, TLAPS

LockInv == LockTypeOK /\ OwnerHolds

LEMMA LockInitInv == LockInit => LockInv
  BY CallersAssumption DEF LockInit, LockInv, LockTypeOK, OwnerHolds, CallStates

LEMMA LockStepInv == LockInv /\ [LockNext]_lockVars => LockInv'
<1> SUFFICES ASSUME LockInv, [LockNext]_lockVars
             PROVE  LockInv'
  OBVIOUS
<1> USE CallersAssumption DEF LockInv, LockTypeOK, OwnerHolds, CallStates
<1>1. CASE UNCHANGED lockVars
  BY <1>1 DEF lockVars
<1>2. ASSUME NEW c \in Callers, Connect(c)
      PROVE  LockInv'
  BY <1>2 DEF Connect
<1>3. ASSUME NEW c \in Callers, TryLock(c)
      PROVE  LockInv'
  BY <1>3 DEF TryLock
<1>4. ASSUME NEW c \in Callers, Skip(c)
      PROVE  LockInv'
  BY <1>4 DEF Skip
<1>5. ASSUME NEW c \in Callers, Return(c)
      PROVE  LockInv'
  BY <1>5 DEF Return
<1>6. ASSUME NEW c \in Callers, Unlock(c)
      PROVE  LockInv'
  BY <1>6 DEF Unlock
<1>7. ASSUME NEW c \in Callers, SessionLost(c)
      PROVE  LockInv'
  BY <1>7 DEF SessionLost
<1>8. ASSUME NEW c \in Callers, CallerCrash(c)
      PROVE  LockInv'
  BY <1>8 DEF CallerCrash
<1> QED
  BY <1>1, <1>2, <1>3, <1>4, <1>5, <1>6, <1>7, <1>8 DEF LockNext

\* Every reachable state is well typed, and a caller inside with a live session
\* owns the lock (withAdvisoryLock never unlocks what it no longer owns).
THEOREM LockSafe == LockSpec => [](LockTypeOK /\ OwnerHolds)
  BY LockInitInv, LockStepInv, PTL DEF LockSpec, LockInv

-----------------------------------------------------------------------------
(* The refinement: each step of the lock is a step of Exclusion or a stutter. *)

LEMMA InitRefines == LockInit => Promise!Init
  BY DEF LockInit, Promise!Init, Section

LEMMA StepRefines ==
    LockInv /\ [LockNext]_lockVars => [Promise!Next]_Promise!vars
<1> SUFFICES ASSUME LockInv, [LockNext]_lockVars
             PROVE  [Promise!Next]_Promise!vars
  OBVIOUS
<1> DEFINE Disowned == {c \in Section : ~alive[c]}
<1> USE CallersAssumption DEF LockInv, LockTypeOK, OwnerHolds, CallStates
<1>1. CASE UNCHANGED lockVars
  BY <1>1 DEF lockVars, Section, Promise!vars
<1>2. ASSUME NEW c \in Callers, Connect(c)
      PROVE  UNCHANGED <<Section, Disowned>>
  BY <1>2 DEF Connect, Section
<1>3. ASSUME NEW c \in Callers, TryLock(c)
      PROVE  Promise!Enter(c)
  <2>1. c \notin Section /\ Section' = Section \cup {c}
    BY <1>3 DEF TryLock, Section
  <2>2. Section \subseteq Disowned
    BY <1>3 DEF TryLock, Section
  <2>3. Disowned' = Disowned
    BY <1>3 DEF TryLock, Section
  <2> QED
    BY <2>1, <2>2, <2>3 DEF Promise!Enter
<1>4. ASSUME NEW c \in Callers, Skip(c)
      PROVE  UNCHANGED <<Section, Disowned>>
  BY <1>4 DEF Skip, Section
<1>5. ASSUME NEW c \in Callers, Return(c)
      PROVE  Promise!Leave(c)
  BY <1>5 DEF Return, Section, Promise!Leave
<1>6. ASSUME NEW c \in Callers, Unlock(c)
      PROVE  UNCHANGED <<Section, Disowned>>
  BY <1>6 DEF Unlock, Section
<1>7. ASSUME NEW c \in Callers, SessionLost(c)
      PROVE  Promise!Disown(c) \/ UNCHANGED <<Section, Disowned>>
  <2>1. Section' = Section
    BY <1>7 DEF SessionLost, Section
  <2>2. CASE call[c] = "running"
    <3>1. c \in Section \ Disowned
      BY <1>7, <2>2 DEF SessionLost, Section
    <3>2. Disowned' = Disowned \cup {c}
      BY <1>7, <2>2 DEF SessionLost, Section
    <3> QED
      BY <2>1, <3>1, <3>2 DEF Promise!Disown
  <2>3. CASE call[c] # "running"
    BY <1>7, <2>3 DEF SessionLost, Section
  <2> QED
    BY <2>2, <2>3
<1>8. ASSUME NEW c \in Callers, CallerCrash(c)
      PROVE  Promise!Leave(c) \/ UNCHANGED <<Section, Disowned>>
  <2>1. CASE call[c] = "running"
    BY <1>8, <2>1 DEF CallerCrash, Section, Promise!Leave
  <2>2. CASE call[c] # "running"
    BY <1>8, <2>2 DEF CallerCrash, Section
  <2> QED
    BY <2>1, <2>2
<1> QED
  BY <1>1, <1>2, <1>3, <1>4, <1>5, <1>6, <1>7, <1>8
     DEF LockNext, Promise!Next, Promise!vars

\* The lock keeps the promise its callers rely on: at most one function runs
\* whose session has not been lost.
THEOREM LockImplementsExclusion == LockSpec => ImplementsExclusion
<1>1. LockSpec => []LockInv
  BY LockInitInv, LockStepInv, PTL DEF LockSpec
<1>2. LockInit => Promise!Init
  BY InitRefines
<1>3. LockInv /\ [LockNext]_lockVars => [Promise!Next]_Promise!vars
  BY StepRefines
<1> QED
  BY <1>1, <1>2, <1>3, PTL DEF LockSpec, ImplementsExclusion, Promise!Spec
=============================================================================
