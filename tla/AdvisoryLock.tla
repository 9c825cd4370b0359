---------------------------- MODULE AdvisoryLock ----------------------------
(***************************************************************************)
(* The Postgres session-level advisory lock that serialises the heavy work *)
(* of the web app, the worker and their replicas: withAdvisoryLock of      *)
(* src/src/lib/advisory-lock.ts, for one (key1, key2) pair.                *)
(*                                                                         *)
(* A caller pins one pool connection, tries the lock without waiting, runs *)
(* its function only if it got it, unlocks in a finally and releases the   *)
(* connection.  The lock belongs to the SESSION: when the session ends the *)
(* server frees the lock, while the caller's function, which uses other    *)
(* connections, goes on running and is not told.                           *)
(***************************************************************************)
EXTENDS Naturals, FiniteSets

CONSTANTS
    Callers,      \* concurrent invocations of withAdvisoryLock, in any process
    NoCaller      \* the owner of a free lock

ASSUME CallersAssumption == NoCaller \notin Callers

VARIABLES
    call,         \* call[c]: where c stands in withAdvisoryLock
    owner,        \* the caller whose session holds the lock at the server
    alive         \* alive[c]: the session c has pinned is still connected

lockVars == <<call, owner, alive>>

CallStates == {"idle", "connected", "running", "unlocking"}

LockTypeOK ==
    /\ call \in [Callers -> CallStates]
    /\ owner \in Callers \cup {NoCaller}
    /\ alive \in [Callers -> BOOLEAN]

LockInit ==
    /\ call = [c \in Callers |-> "idle"]
    /\ owner = NoCaller
    /\ alive = [c \in Callers |-> FALSE]

\* pool.connect(): a connection is pinned for the whole call.
Connect(c) ==
    /\ call[c] = "idle"
    /\ call' = [call EXCEPT ![c] = "connected"]
    /\ alive' = [alive EXCEPT ![c] = TRUE]
    /\ UNCHANGED owner

\* Mutant of TryLock: the answer of pg_try_advisory_lock is not looked at.
TryLockUnchecked(c) ==
    /\ call[c] = "connected"
    /\ alive[c]
    /\ owner' = c
    /\ call' = [call EXCEPT ![c] = "running"]
    /\ UNCHANGED alive

\* pg_try_advisory_lock answers true: fn starts.
TryLock(c) ==
    /\ call[c] = "connected"
    /\ alive[c]
    /\ owner = NoCaller
    /\ owner' = c
    /\ call' = [call EXCEPT ![c] = "running"]
    /\ UNCHANGED alive

\* Mutant of Skip: only the answer "busy" releases the connection, a throwing
\* query does not.
SkipOnlyBusy(c) ==
    /\ call[c] = "connected"
    /\ owner # NoCaller
    /\ call' = [call EXCEPT ![c] = "idle"]
    /\ alive' = [alive EXCEPT ![c] = FALSE]
    /\ UNCHANGED owner

\* pg_try_advisory_lock answers false, or the query throws on a dead session:
\* fn is not run and the connection is released.
Skip(c) ==
    /\ call[c] = "connected"
    /\ alive[c] => owner # NoCaller
    /\ call' = [call EXCEPT ![c] = "idle"]
    /\ alive' = [alive EXCEPT ![c] = FALSE]
    /\ UNCHANGED owner

\* fn returns or throws: the inner finally is reached either way.
Return(c) ==
    /\ call[c] = "running"
    /\ call' = [call EXCEPT ![c] = "unlocking"]
    /\ UNCHANGED <<owner, alive>>

\* Mutant of Unlock: it frees the lock whoever owns it (a lock kept as a row and
\* cleared by key).
UnlockForeign(c) ==
    /\ call[c] = "unlocking"
    /\ owner' = NoCaller
    /\ call' = [call EXCEPT ![c] = "idle"]
    /\ alive' = [alive EXCEPT ![c] = FALSE]

\* Mutant of Unlock: the connection goes back to the pool still holding the lock.
UnlockForgotten(c) ==
    /\ call[c] = "unlocking"
    /\ call' = [call EXCEPT ![c] = "idle"]
    /\ UNCHANGED <<owner, alive>>

\* pg_advisory_unlock on the pinned session, then client.release().  On a dead
\* session the unlock throws, which is logged and swallowed: whoever owns the
\* lock by then keeps it.  On a live session the query is taken to succeed: were it to
\* fail there, the lock would stay until the pool ends the session.
Unlock(c) ==
    /\ call[c] = "unlocking"
    /\ owner' = IF alive[c] THEN NoCaller ELSE owner
    /\ call' = [call EXCEPT ![c] = "idle"]
    /\ alive' = [alive EXCEPT ![c] = FALSE]

\* The pinned connection drops: the server frees what the session held, and
\* the caller does not notice.
SessionLost(c) ==
    /\ call[c] # "idle"
    /\ alive[c]
    /\ alive' = [alive EXCEPT ![c] = FALSE]
    /\ owner' = IF owner = c THEN NoCaller ELSE owner
    /\ UNCHANGED call

\* The process of c dies: its session ends with it, and so does fn.
CallerCrash(c) ==
    /\ call[c] # "idle"
    /\ call' = [call EXCEPT ![c] = "idle"]
    /\ alive' = [alive EXCEPT ![c] = FALSE]
    /\ owner' = IF owner = c THEN NoCaller ELSE owner

LockNext ==
    \E c \in Callers :
        \/ Connect(c)
        \/ TryLock(c)
        \/ Skip(c)
        \/ Return(c)
        \/ Unlock(c)
        \/ SessionLost(c)
        \/ CallerCrash(c)

\* A call that has started goes on to its end: queries answer, and fn returns or
\* throws (an assumption on fn, which the lock itself does not bound in time).
\* Nothing says that a caller calls again, or that a session is lost.
LockFairness ==
    \A c \in Callers :
        /\ WF_lockVars(TryLock(c) \/ Skip(c))
        /\ WF_lockVars(Return(c))
        /\ WF_lockVars(Unlock(c))

LockSpec == LockInit /\ [][LockNext]_lockVars /\ LockFairness

-----------------------------------------------------------------------------
(* Properties *)

\* A caller inside its critical section whose session is still connected owns
\* the lock, and only such a caller does: neither a late unlock of a caller
\* that lost its session nor a crash frees or takes another caller's lock.
OwnerHolds ==
    /\ \A c \in Callers :
          call[c] \in {"running", "unlocking"} /\ alive[c] => owner = c
    /\ owner # NoCaller =>
          call[owner] \in {"running", "unlocking"} /\ alive[owner]

\* The lock implements the exclusion it is used for: a caller enters its function
\* only when every other one inside has lost its session.
Section == {c \in Callers : call[c] = "running"}
Promise ==
    INSTANCE Exclusion WITH
        inside <- Section,
        disowned <- {c \in Section : ~alive[c]}
ImplementsExclusion == Promise!Spec

\* "so it is never leaked permanently" (advisory-lock.ts:30-33): whatever
\* sessions are lost and callers die, a held lock is freed again.
NeverLeaked == (owner # NoCaller) ~> (owner = NoCaller)

\* A call that got its answer leaves the pool connection it pinned.
ConnectionReleased ==
    \A c \in Callers : (call[c] = "connected") ~> (call[c] = "idle")
=============================================================================
