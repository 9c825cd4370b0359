----------------------------- MODULE Connection -----------------------------
(***************************************************************************)
(* The OAuth tokens of one provider (IntegrationConnection rows) and those *)
(* who replace them: getValidIntegrationAccessToken (token-refresh.ts),    *)
(* the refresh inside getCredentials (analytics/credentials.ts), the OAuth *)
(* callback, the disconnect route, the migration to the owner's row and    *)
(* the writers of health and sync results.                                 *)
(*                                                                         *)
(* Each process merges concurrent refreshes of a row in a map of promises, *)
(* one map per file; processes share nothing but the rows.  Every write is *)
(* by key and unconditional, after a call to the provider that may have    *)
(* rotated the refresh token: what a writer does not store is lost.        *)
(***************************************************************************)
EXTENDS Naturals, FiniteSets

CONSTANTS
    Users,        \* users that may hold a connection
    Owner,        \* INTEGRATION_OWNER_USER_ID
    Procs,        \* processes
    Calls,        \* slots for the calls in execution
    Rotating,     \* does the provider replace a refresh token when it is used?
    MaxGrants,    \* bound: successful OAuth callbacks
    MaxTurns,     \* bound: the last token of a grant is no longer replaced
    MaxRequests,  \* bound: disconnects, failed callbacks, results of checks
    MaxFaults     \* bound: crashes, outages, lost answers, revocations

ASSUME ConnectionAssumption ==
    /\ Owner \in Users
    /\ "none" \notin Users /\ "none" \notin Procs /\ "none" \notin Calls
    /\ Rotating \in BOOLEAN
    /\ {MaxGrants, MaxTurns, MaxRequests, MaxFaults} \subseteq Nat

VARIABLES
    row,       \* the IntegrationConnection of each user
    call,      \* call[c]: where a call stands and what it read
    current,   \* at the provider: the turn of each grant it accepts, 0 if none
    grants,    \* grants given so far
    requests,
    faults,
    epoch,     \* epoch[u]: how often u's tokens were removed on purpose
    gone,      \* the users who have not connected since
    excused,   \* grants whose latest token may be lost, and why: see each action
    undone     \* users whose disconnect was undone by a call that may do so

vars == <<row, call, current, grants, requests, faults, epoch, gone, excused, undone>>

Statuses == {"none", "CONNECTED", "ERROR", "DISCONNECTED"}

\* The refresh token of turn n of a grant.  An access token comes and goes with it,
\* and may be about to expire, or have expired, at any time.
Secrets == [grant : 0..MaxGrants, turn : 0..MaxTurns]
NoSecret == [grant |-> 0, turn |-> 0]

Row == [status : Statuses, secret : Secrets]
NoRow == [status |-> "none", secret |-> NoSecret]

CallType ==
    [pc : {"idle", "peeked", "joined", "calling", "writing", "failing", "copying"},
     kind : {"none", "get", "credentials", "copy"},
     proc : Procs \cup {"none"}, user : Users \cup {"none"}, from : Users \cup {"none"},
     secret : Secrets, got : Secrets, must : BOOLEAN, leader : Calls \cup {"none"},
     since : Nat]

Idle == [pc |-> "idle", kind |-> "none", proc |-> "none", user |-> "none",
         from |-> "none", secret |-> NoSecret, got |-> NoSecret,
         must |-> FALSE, leader |-> "none", since |-> 0]

Init ==
    /\ row = [u \in Users |-> NoRow]
    /\ call = [c \in Calls |-> Idle]
    /\ current = [g \in 1..MaxGrants |-> 0]
    /\ grants = 0 /\ requests = 0 /\ faults = 0
    /\ epoch = [u \in Users |-> 0]
    /\ gone = {} /\ excused = {} /\ undone = {}

Live(secret) == secret.grant # 0 /\ secret.turn # 0 /\ current[secret.grant] = secret.turn

Fault == faults < MaxFaults /\ faults' = faults + 1

\* The grants whose latest token is in the hands of a call in cs only.
InHand(cs) == {call[c].got.grant : c \in {d \in cs : call[d].pc = "writing"}} \ {0}

Move(c, next) == call' = [call EXCEPT ![c] = next]

\* A call for u in process p that has read v's row.
Begun(pc, kind, p, u, v, must) ==
    [Idle EXCEPT !.pc = pc, !.kind = kind, !.proc = p, !.user = u, !.from = v,
                 !.secret = row[v].secret, !.must = must, !.since = epoch[u]]

history == <<current, grants, requests, epoch, gone>>

-----------------------------------------------------------------------------
(* getValidIntegrationAccessToken and getCredentials *)

\* The key is in the process's map: a get is there until it has recorded its
\* failure, a refresh of getCredentials until its promise is settled.
InFlight(p, kind, u) ==
    {c \in Calls : /\ call[c].proc = p /\ call[c].kind = kind /\ call[c].user = u
                   /\ \/ call[c].pc \in {"calling", "writing"}
                      \/ call[c].pc = "failing" /\ kind = "get"}

Others(u) == {v \in Users \ {u} : row[v].status = "CONNECTED"}

\* Whose row a lookup for u uses: the owner may fall back to another user's.
GetSources(u) ==
    IF row[u].status = "none" /\ u = Owner THEN Others(u) ELSE {u}
CredentialSources(u) ==
    IF row[u].status # "CONNECTED" /\ u = Owner /\ Others(u) # {} THEN Others(u) ELSE {u}

\* Mutant of Get: a row in ERROR is refused like one that is disconnected.
GetConnected(c, p, u) ==
    /\ call[c].pc = "idle" /\ InFlight(p, "get", u) = {}
    /\ \E v \in GetSources(u) :
          /\ row[v].status = "CONNECTED"
          /\ row[v].secret # NoSecret
          /\ Move(c, Begun("calling", "get", p, u, v, TRUE))
    /\ UNCHANGED <<row, faults, excused, undone, history>>

\* A get finds nothing in flight, reads the row, and refreshes a token that is
\* about to expire or that is in ERROR.
Get(c, p, u) ==
    /\ call[c].pc = "idle" /\ InFlight(p, "get", u) = {}
    /\ \E v \in GetSources(u) :
          /\ row[v].status \notin {"none", "DISCONNECTED"}
          /\ row[v].secret # NoSecret
          /\ Move(c, Begun("calling", "get", p, u, v, TRUE))
    /\ UNCHANGED <<row, faults, excused, undone, history>>

\* getCredentials reads all rows; a token about to expire will be refreshed, and a
\* failure recorded only if it has expired.  Where it finds no row of the owner's and
\* goes on to heal the scopes of another user's, see Copy and Create.
Peek(c, p, u) ==
    /\ call[c].pc = "idle"
    /\ \E v \in CredentialSources(u), expired \in BOOLEAN :
          /\ row[v].status \in {"CONNECTED", "ERROR"}
          /\ row[v].secret # NoSecret
          /\ Move(c, Begun("peeked", "credentials", p, u, v, expired))
    /\ UNCHANGED <<row, faults, excused, undone, history>>

\* It joins the refresh in flight or starts its own, with what it has read.
Launch(c) ==
    /\ call[c].pc = "peeked"
    /\ LET ahead == InFlight(call[c].proc, "credentials", call[c].user)
       IN \/ /\ ahead = {}
             /\ Move(c, [call[c] EXCEPT !.pc = "calling"])
          \/ \E d \in ahead :
                Move(c, [call[c] EXCEPT !.pc = "joined", !.leader = d])
    /\ UNCHANGED <<row, faults, excused, undone, history>>

\* c's promise is settled: those who joined it go the way it goes.
Settle(c, next) ==
    call' = [d \in Calls |->
               IF d = c THEN next
               ELSE IF call[d].leader # c THEN call[d]
               ELSE IF next.pc = "failing"
                    THEN [call[d] EXCEPT !.pc = "failing", !.leader = "none"]
                    ELSE Idle]

Failing(c) == [call[c] EXCEPT !.pc = "failing"]

\* Mutant of Renewed: one renewal uses up two tokens.
RenewedTwice(s) == IF Rotating THEN [s EXCEPT !.turn = @ + 2] ELSE s

\* The token that the provider gives for the one it accepts.
Renewed(s) == IF Rotating /\ s.turn < MaxTurns THEN [s EXCEPT !.turn = @ + 1] ELSE s

\* The answer: a new access token, or the refresh token is not accepted.
Accept(c) ==
    /\ call[c].pc = "calling" /\ Live(call[c].secret)
    /\ LET new == Renewed(call[c].secret)
       IN /\ current' = [current EXCEPT ![new.grant] = new.turn]
          /\ Move(c, [call[c] EXCEPT !.pc = "writing", !.got = new])
    /\ UNCHANGED <<row, faults, excused, undone, grants, requests, epoch, gone>>

Reject(c) ==
    /\ call[c].pc = "calling" /\ ~Live(call[c].secret)
    /\ Settle(c, Failing(c))
    /\ UNCHANGED <<row, faults, excused, undone, history>>

\* Every attempt fails on the way.
Outage(c) ==
    /\ call[c].pc = "calling" /\ Fault
    /\ Settle(c, Failing(c))
    /\ UNCHANGED <<row, excused, undone, history>>

\* The provider answers and nobody hears it: the client sends the same token again.
LoseAnswer(c) ==
    /\ call[c].pc = "calling" /\ Live(call[c].secret) /\ Fault
    /\ LET new == Renewed(call[c].secret)
       IN current' = [current EXCEPT ![new.grant] = new.turn]
    /\ excused' = excused \cup {call[c].secret.grant}
    /\ UNCHANGED <<row, call, undone, grants, requests, epoch, gone>>

\* Mutant of Write: the token that was sent is kept, not the one that came back.
WriteOld(c) ==
    /\ call[c].pc = "writing"
    /\ LET u == call[c].user
           old == row[u].secret
       IN /\ row' = [row EXCEPT ![u] = [status |-> "CONNECTED", secret |-> call[c].secret]]
          /\ excused' = IF old.grant # call[c].got.grant
                        THEN excused \cup ({old.grant} \ {0}) ELSE excused
          /\ undone' = IF call[c].since # epoch[u] \/ call[c].from # u
                       THEN undone \cup {u} ELSE undone
    /\ Settle(c, Idle)
    /\ UNCHANGED <<faults, history>>

\* The upsert of the new tokens, whatever the row has become.
Write(c) ==
    /\ call[c].pc = "writing"
    /\ LET u == call[c].user
           old == row[u].secret
       IN /\ row' = [row EXCEPT ![u] = [status |-> "CONNECTED", secret |-> call[c].got]]
          /\ excused' = IF old.grant # call[c].got.grant
                        THEN excused \cup ({old.grant} \ {0}) ELSE excused
          /\ undone' = IF call[c].since # epoch[u] \/ call[c].from # u
                       THEN undone \cup {u} ELSE undone
    /\ Settle(c, Idle)
    /\ UNCHANGED <<faults, history>>

\* The upsert fails.  A get throws; a refresh of getCredentials has failed.
WriteFails(c) ==
    /\ call[c].pc = "writing" /\ Fault
    /\ excused' = excused \cup {call[c].got.grant}
    /\ Settle(c, IF call[c].kind = "get" THEN Idle ELSE Failing(c))
    /\ UNCHANGED <<row, undone, history>>

MarkError(u) == row' = [row EXCEPT ![u].status = "ERROR"]

\* The failure is written to the row, whatever the row has become.
Fail(c) ==
    /\ call[c].pc = "failing"
    /\ IF call[c].must THEN MarkError(call[c].user) ELSE UNCHANGED row
    /\ Move(c, Idle)
    /\ UNCHANGED <<faults, excused, undone, history>>

\* The write of the failure fails, too; that is logged.
FailUnrecorded(c) ==
    /\ call[c].pc = "failing" /\ Fault
    /\ Move(c, Idle)
    /\ UNCHANGED <<row, excused, undone, history>>

-----------------------------------------------------------------------------
(* Another user's row becomes the owner's: bestEffortMigrateConnectionsToOwner,
   and bestEffortHealScopeMetadata within getCredentials *)

\* The owner has no row: another user's is read,
Copy(c, p) ==
    /\ call[c].pc = "idle" /\ row[Owner].status = "none"
    /\ \E v \in Others(Owner) :
          Move(c, Begun("copying", "copy", p, Owner, v, FALSE))
    /\ UNCHANGED <<row, faults, excused, undone, history>>

\* and a row created, unless one has appeared: then the migration's create throws on
\* the unique key, and the healing's upsert only touches metadata and lastError.
Create(c) ==
    /\ call[c].pc = "copying"
    /\ row' = IF row[Owner].status = "none"
              THEN [row EXCEPT ![Owner] = [status |-> "CONNECTED", secret |-> call[c].secret]]
              ELSE row
    /\ Move(c, Idle)
    /\ UNCHANGED <<faults, excused, undone, history>>

-----------------------------------------------------------------------------
(* Routes, sync results, the provider and the clock *)

\* The OAuth callback.  A provider that gives no refresh token leaves the old one.
Connect(u) ==
    /\ \/ /\ grants < MaxGrants /\ MaxTurns > 0
          /\ grants' = grants + 1
          /\ current' = [current EXCEPT ![grants + 1] = 1]
          /\ row' = [row EXCEPT ![u] = [status |-> "CONNECTED",
                                        secret |-> [grant |-> grants + 1, turn |-> 1]]]
          /\ excused' = excused \cup ({row[u].secret.grant} \ {0})
       \/ /\ row[u].secret # NoSecret
          /\ row' = [row EXCEPT ![u].status = "CONNECTED"]
          /\ UNCHANGED <<grants, current, excused>>
    /\ gone' = gone \ {u}
    /\ undone' = undone \ {u}
    /\ UNCHANGED <<call, requests, faults, epoch>>

\* Mutant of Remove: the refresh token stays in the row.
RemoveAccessOnly(u, status) ==
    /\ requests < MaxRequests /\ requests' = requests + 1
    /\ status = "DISCONNECTED" => row[u].status # "none"
    /\ row' = [row EXCEPT ![u] = [@ EXCEPT !.status = status]]
    /\ epoch' = [epoch EXCEPT ![u] = @ + 1]
    /\ gone' = gone \cup {u}
    /\ undone' = undone \ {u}
    /\ excused' = excused \cup ({row[u].secret.grant} \ {0})
    /\ UNCHANGED <<call, current, grants, faults>>

\* The disconnect route (an existing row only) and a callback that failed (which
\* creates a row) forget the tokens.
Remove(u, status) ==
    /\ requests < MaxRequests /\ requests' = requests + 1
    /\ status = "DISCONNECTED" => row[u].status # "none"
    /\ row' = [row EXCEPT ![u] = [status |-> status, secret |-> NoSecret]]
    /\ epoch' = [epoch EXCEPT ![u] = @ + 1]
    /\ gone' = gone \cup {u}
    /\ undone' = undone \ {u}
    /\ excused' = excused \cup ({row[u].secret.grant} \ {0})
    /\ UNCHANGED <<call, current, grants, faults>>

\* A health check or a sync ends and writes its result, creating a row if need be.
Report(u, status) ==
    /\ requests < MaxRequests /\ requests' = requests + 1
    /\ row' = [row EXCEPT ![u].status = status]
    /\ UNCHANGED <<call, current, grants, faults, epoch, gone, excused, undone>>

\* Somebody withdraws a grant at the provider.
Revoke(g) ==
    /\ current[g] # 0 /\ Fault
    /\ current' = [current EXCEPT ![g] = 0]
    /\ UNCHANGED <<row, call, excused, undone, grants, requests, epoch, gone>>

\* A process dies with its calls and its maps.
Crash(p) ==
    /\ Fault
    /\ LET dead == {c \in Calls : call[c].proc = p}
       IN /\ dead # {}
          /\ call' = [c \in Calls |-> IF c \in dead THEN Idle ELSE call[c]]
          /\ excused' = excused \cup InHand(dead)
    /\ UNCHANGED <<row, undone, history>>

-----------------------------------------------------------------------------
\* A call at work goes on.
CallStep(c) ==
    \/ Launch(c) \/ Accept(c) \/ Reject(c) \/ Write(c) \/ Fail(c) \/ Create(c)

FaultStep ==
    \/ \E c \in Calls : \/ Outage(c) \/ LoseAnswer(c) \/ WriteFails(c) \/ FailUnrecorded(c)
    \/ \E g \in 1..MaxGrants : Revoke(g)
    \/ \E p \in Procs : Crash(p)

Next ==
    \/ \E c \in Calls : CallStep(c)
    \/ \E c \in Calls, p \in Procs, u \in Users : Get(c, p, u) \/ Peek(c, p, u)
    \/ \E c \in Calls, p \in Procs : Copy(c, p)
    \/ \E u \in Users :
          \/ Connect(u)
          \/ \E status \in {"DISCONNECTED", "ERROR"} : Remove(u, status)
          \/ \E status \in {"CONNECTED", "ERROR"} : Report(u, status)
    \/ FaultStep

\* A sync cycle asks for the token of the row that it uses for the owner.
Lookup ==
    \E c \in Calls, p \in Procs :
       \E v \in CredentialSources(Owner) : Get(c, p, v)

Fairness ==
    /\ \A c \in Calls : WF_vars(CallStep(c))
    /\ SF_vars(Lookup)

Spec == Init /\ [][Next]_vars /\ Fairness

-----------------------------------------------------------------------------
(* Properties *)

\* The types of the rows, the calls and the history variables.
ConnectionTypeOK ==
    /\ row \in [Users -> Row]
    /\ call \in [Calls -> CallType]
    /\ current \in [1..MaxGrants -> 0..MaxTurns]
    /\ grants \in 0..MaxGrants /\ requests \in Nat /\ faults \in Nat
    /\ epoch \in [Users -> Nat]
    /\ gone \subseteq Users /\ undone \subseteq Users
    /\ excused \subseteq 1..MaxGrants

\* The one refresh token of grant g that the provider accepts is where the program
\* will find it.
Kept(g) ==
    LET secret == [grant |-> g, turn |-> current[g]]
    IN \/ \E u \in Users : row[u].secret = secret
       \/ \E c \in Calls : call[c].pc = "writing" /\ call[c].got = secret

\* Two maps of promises, several processes, stale copies and unconditional writes:
\* still, a grant is lost only to a lost answer, a failed write, a crash, a removal,
\* or the tokens of another grant.  A refresh never overwrites a newer token of its
\* own grant (token-refresh.ts:300-334, credentials.ts:466-493).
TokensKept ==
    \A g \in 1..MaxGrants : current[g] # 0 => g \in excused \/ Kept(g)

\* A user who has disconnected stays without tokens until connecting again, unless a
\* refresh was under way, or another user's connection stands in for the owner's.
DisconnectHolds ==
    \A u \in gone : row[u].secret = NoSecret \/ u \in undone

\* A row that reads ERROR while its token is good, because a call that lost a race
\* or met an outage said so, does not stay that way while sync cycles go on
\* (token-refresh.ts:243-248).
GoodTokenHeals ==
    /\ row[Owner].status = "ERROR" /\ Live(row[Owner].secret)
    /\ Others(Owner) = {}
    ~> \/ row[Owner].status # "ERROR" \/ ~Live(row[Owner].secret)
       \/ Others(Owner) # {}

=============================================================================
