-------------------------- MODULE ConnectionProofs --------------------------
(***************************************************************************)
(* Theorems about Connection, for any number of users, processes and calls *)
(* and for providers that rotate refresh tokens or do not.                 *)
(*                                                                         *)
(* The heart is Sole: of a grant that nothing excuses, the token that a    *)
(* call is about to write is the provider's latest, and while it can be    *)
(* used up nobody else has it.  So no write can bring back an older one.   *)
(***************************************************************************)
EXTENDS Connection, TLAPS

\* What belongs together in a call.
Active == {"peeked", "calling", "writing", "copying"}

WorkOf(c) ==
    /\ call[c].pc \in Active => call[c].user \in Users /\ call[c].from \in Users
    /\ call[c].pc = "failing" => call[c].user \in Users
    /\ call[c].pc = "joined" => call[c].user \in Users
    /\ call[c].pc = "writing" => call[c].got.grant # 0
    /\ call[c].leader # "none" => call[c].pc = "joined"

Work == \A c \in Calls : WorkOf(c)

\* A call that began after the last removal has read tokens only where the
\* disconnect had been undone.
Removed ==
    /\ \A u \in Users : row[u].status = "none" => row[u].secret = NoSecret
    /\ \A u \in gone : row[u].status # "none"
    /\ \A c \in Calls : call[c].pc \in Active => call[c].since <= epoch[call[c].user]
    /\ \A c \in Calls, u \in gone :
          call[c].pc \in Active /\ call[c].user = u /\ call[c].from = u
          /\ call[c].since = epoch[u] => u \in undone
    /\ DisconnectHolds

\* Grants that the provider honours and nothing excuses.
Open(g) == current[g] # 0 /\ g \notin excused

Writing(c, g) == call[c].pc = "writing" /\ call[c].got.grant = g
Latest(g) == [grant |-> g, turn |-> current[g]]

Bounded(s) ==
    /\ s.grant <= grants
    /\ s.grant # 0 /\ Open(s.grant) => s.turn <= current[s.grant]

Sole(g) ==
    \A c \in Calls : Writing(c, g) =>
       /\ call[c].got = Latest(g)
       /\ Rotating /\ current[g] < MaxTurns =>
             /\ \A u \in Users : row[u].secret # Latest(g)
             /\ \A d \in Calls : call[d].secret # Latest(g)
             /\ \A d \in Calls \ {c} : ~Writing(d, g)

Tokens ==
    /\ \A u \in Users : Bounded(row[u].secret)
    /\ \A c \in Calls : Bounded(call[c].secret) /\ call[c].got.grant <= grants
    /\ \A g \in 1..MaxGrants : Open(g) => Sole(g) /\ Kept(g)

ConnectionInv == ConnectionTypeOK /\ Work /\ Removed /\ Tokens

-----------------------------------------------------------------------------
(* Types *)

LEMMA Constants == MaxGrants \in Nat /\ MaxTurns \in Nat /\ Owner \in Users
BY ConnectionAssumption

LEMMA SecretsTyped == NoSecret \in Secrets /\ NoSecret.grant = 0 /\ NoSecret.turn = 0
BY Constants DEF NoSecret, Secrets

LEMMA IdleTyped == Idle \in CallType
BY SecretsTyped DEF Idle, CallType

LEMMA BegunTyped ==
    ASSUME ConnectionTypeOK, NEW p \in Procs, NEW u \in Users, NEW v \in Users,
           NEW pc \in {"calling", "peeked", "copying"},
           NEW kind \in {"get", "credentials", "copy"}, NEW must \in BOOLEAN
    PROVE  Begun(pc, kind, p, u, v, must) \in CallType
<1>1. row[v].secret \in Secrets /\ epoch[u] \in Nat
  BY DEF ConnectionTypeOK, Row
<1> QED
  BY <1>1, IdleTyped DEF Begun, CallType, Idle

LEMMA MoveTyped ==
    ASSUME ConnectionTypeOK, NEW c \in Calls, NEW next \in CallType, Move(c, next)
    PROVE  call' \in [Calls -> CallType]
BY DEF Move, ConnectionTypeOK

LEMMA SettleTyped ==
    ASSUME ConnectionTypeOK, NEW c \in Calls, NEW next \in CallType, Settle(c, next)
    PROVE  call' \in [Calls -> CallType]
<1>1. ASSUME NEW d \in Calls
      PROVE  [call[d] EXCEPT !.pc = "failing", !.leader = "none"] \in CallType
  BY DEF ConnectionTypeOK, CallType
<1> QED
  BY <1>1, IdleTyped DEF Settle, ConnectionTypeOK

LEMMA FailingTyped ==
    ASSUME ConnectionTypeOK, NEW c \in Calls
    PROVE  Failing(c) \in CallType
BY DEF ConnectionTypeOK, CallType, Failing

\* The token that comes back belongs to the same grant and is the next one, or the same.
LEMMA RenewedTyped ==
    ASSUME NEW s \in Secrets
    PROVE  /\ Renewed(s) \in Secrets
           /\ Renewed(s).grant = s.grant
           /\ Rotating /\ s.turn < MaxTurns => Renewed(s).turn = s.turn + 1
           /\ ~(Rotating /\ s.turn < MaxTurns) => Renewed(s) = s
BY Constants DEF Renewed, Secrets

LEMMA SourcesTyped ==
    ASSUME NEW u \in Users
    PROVE  GetSources(u) \subseteq Users /\ CredentialSources(u) \subseteq Users
BY DEF GetSources, CredentialSources, Others

LEMMA InitTypes == Init => ConnectionTypeOK
<1> USE Constants, SecretsTyped, IdleTyped
<1>1. NoRow \in Row
  BY DEF NoRow, Row, Statuses
<1> QED
  BY <1>1 DEF Init, ConnectionTypeOK

\* A call whose secret is accepted belongs to a grant.
LEMMA LiveTyped ==
    ASSUME ConnectionTypeOK, NEW c \in Calls, Live(call[c].secret)
    PROVE  /\ call[c].secret \in Secrets
           /\ call[c].secret.grant \in 1..MaxGrants
           /\ current[call[c].secret.grant] = call[c].secret.turn
           /\ call[c].secret.turn # 0
<1>1. call[c].secret \in Secrets
  BY DEF ConnectionTypeOK, CallType
<1> QED
  BY <1>1, Constants DEF Live, Secrets

LEMMA StepTypes == ConnectionTypeOK /\ Work /\ [Next]_vars => ConnectionTypeOK'
<1> SUFFICES ASSUME ConnectionTypeOK, Work, [Next]_vars
             PROVE  ConnectionTypeOK'
  OBVIOUS
<1> USE Constants
<1>r. /\ row \in [Users -> Row] /\ call \in [Calls -> CallType]
      /\ current \in [1..MaxGrants -> 0..MaxTurns] /\ epoch \in [Users -> Nat]
      /\ excused \subseteq 1..MaxGrants
  BY DEF ConnectionTypeOK
<1>s. \A c \in Calls : call[c].secret \in Secrets /\ call[c].got \in Secrets
  BY <1>r DEF CallType
<1>u. \A u \in Users : row[u] \in Row /\ row[u].secret \in Secrets
  BY <1>r DEF Row
<1>g. \A s \in Secrets : {s.grant} \ {0} \subseteq 1..MaxGrants
  BY DEF Secrets
<1>f. faults \in Nat /\ requests \in Nat /\ \A n \in Nat : n + 1 \in Nat
  BY DEF ConnectionTypeOK
<1>1. CASE UNCHANGED vars
  BY <1>1 DEF vars, ConnectionTypeOK
<1>2. ASSUME NEW c \in Calls, NEW p \in Procs, NEW u \in Users, Get(c, p, u)
      PROVE  ConnectionTypeOK'
  <2>1. PICK v \in GetSources(u) : Move(c, Begun("calling", "get", p, u, v, TRUE))
    BY <1>2 DEF Get
  <2>2. Begun("calling", "get", p, u, v, TRUE) \in CallType
    BY <2>1, SourcesTyped, BegunTyped
  <2>3. call' \in [Calls -> CallType]
    BY <2>1, <2>2, MoveTyped
  <2> QED
    BY <1>2, <2>3 DEF Get, history, ConnectionTypeOK
<1>3. ASSUME NEW c \in Calls, NEW p \in Procs, NEW u \in Users, Peek(c, p, u)
      PROVE  ConnectionTypeOK'
  <2>1. PICK v \in CredentialSources(u), expired \in BOOLEAN :
           Move(c, Begun("peeked", "credentials", p, u, v, expired))
    BY <1>3 DEF Peek
  <2>2. Begun("peeked", "credentials", p, u, v, expired) \in CallType
    BY <2>1, SourcesTyped, BegunTyped
  <2>3. call' \in [Calls -> CallType]
    BY <2>1, <2>2, MoveTyped
  <2> QED
    BY <1>3, <2>3 DEF Peek, history, ConnectionTypeOK
<1>4. ASSUME NEW c \in Calls, Launch(c)
      PROVE  ConnectionTypeOK'
  <2>1. [call[c] EXCEPT !.pc = "calling"] \in CallType
    BY <1>r DEF CallType
  <2>2. ASSUME NEW d \in Calls
        PROVE  [call[c] EXCEPT !.pc = "joined", !.leader = d] \in CallType
    BY <1>r DEF CallType
  <2>3. call' \in [Calls -> CallType]
    <3>1. CASE Move(c, [call[c] EXCEPT !.pc = "calling"])
      BY <3>1, <2>1, MoveTyped
    <3>2. ASSUME NEW d \in Calls, Move(c, [call[c] EXCEPT !.pc = "joined", !.leader = d])
          PROVE  call' \in [Calls -> CallType]
      BY <3>2, <2>2, MoveTyped
    <3> QED
      BY <1>4, <3>1, <3>2 DEF Launch, InFlight
  <2> QED
    BY <1>4, <2>3 DEF Launch, history, ConnectionTypeOK
<1>5. ASSUME NEW c \in Calls, Accept(c)
      PROVE  ConnectionTypeOK'
  <2> DEFINE new == Renewed(call[c].secret)
  <2>1. new \in Secrets /\ call[c].secret \in Secrets
    BY <1>s, RenewedTyped
  <2>2. [call[c] EXCEPT !.pc = "writing", !.got = new] \in CallType
    BY <1>r, <2>1 DEF CallType
  <2>3. call' \in [Calls -> CallType]
    BY <1>5, <2>2, MoveTyped DEF Accept
  <2>4. current' \in [1..MaxGrants -> 0..MaxTurns]
    BY <1>5, <1>r, <2>1 DEF Accept, Secrets
  <2> QED
    BY <1>5, <2>3, <2>4 DEF Accept, ConnectionTypeOK
<1>6. ASSUME NEW c \in Calls, Reject(c) \/ Outage(c)
      PROVE  ConnectionTypeOK'
  <2>1. Failing(c) \in CallType
    BY FailingTyped
  <2>2. call' \in [Calls -> CallType]
    BY <1>6, <2>1, SettleTyped DEF Reject, Outage
  <2> QED
    BY <1>6, <2>2, <1>f DEF Reject, Outage, Fault, history, ConnectionTypeOK
<1>7. ASSUME NEW c \in Calls, LoseAnswer(c)
      PROVE  ConnectionTypeOK'
  <2>1. Renewed(call[c].secret) \in Secrets /\ call[c].secret \in Secrets
    BY <1>s, RenewedTyped
  <2>2. current' \in [1..MaxGrants -> 0..MaxTurns]
    BY <1>7, <1>r, <2>1 DEF LoseAnswer, Secrets
  <2>3. excused' \subseteq 1..MaxGrants
    BY <1>7, <1>r, LiveTyped DEF LoseAnswer
  <2> QED
    BY <1>7, <2>2, <2>3, <1>f DEF LoseAnswer, Fault, ConnectionTypeOK
<1>8. ASSUME NEW c \in Calls, Write(c)
      PROVE  ConnectionTypeOK'
  <2>1. call' \in [Calls -> CallType]
    BY <1>8, IdleTyped, SettleTyped DEF Write
  <2>2. call[c].user \in Users
    BY <1>8 DEF Write, Work, WorkOf, Active
  <2>3. [status |-> "CONNECTED", secret |-> call[c].got] \in Row
    BY <1>s DEF Row, Statuses
  <2>4. row' \in [Users -> Row]
    BY <1>8, <1>r, <2>3 DEF Write
  <2>5. excused' \subseteq 1..MaxGrants
    BY <1>8, <1>r, <1>u, <1>g, <2>2 DEF Write
  <2>6. undone' \subseteq Users
    BY <1>8, <2>2 DEF Write, ConnectionTypeOK
  <2> QED
    BY <1>8, <2>1, <2>4, <2>5, <2>6 DEF Write, history, ConnectionTypeOK
<1>9. ASSUME NEW c \in Calls, WriteFails(c)
      PROVE  ConnectionTypeOK'
  <2>1. (IF call[c].kind = "get" THEN Idle ELSE Failing(c)) \in CallType
    BY FailingTyped, IdleTyped
  <2>2. call' \in [Calls -> CallType]
    BY <1>9, <2>1, SettleTyped DEF WriteFails
  <2>3. call[c].got.grant \in 1..MaxGrants
    BY <1>9, <1>s DEF WriteFails, Work, WorkOf, Secrets
  <2>4. excused' \subseteq 1..MaxGrants
    BY <1>9, <1>r, <2>3 DEF WriteFails
  <2> QED
    BY <1>9, <2>2, <2>4, <1>f DEF WriteFails, Fault, history, ConnectionTypeOK
<1>10. ASSUME NEW c \in Calls, Fail(c) \/ FailUnrecorded(c)
       PROVE  ConnectionTypeOK'
  <2>1. call' \in [Calls -> CallType]
    BY <1>10, IdleTyped, MoveTyped DEF Fail, FailUnrecorded
  <2>2. row' \in [Users -> Row]
    <3>1. ASSUME NEW u \in Users
          PROVE  [row EXCEPT ![u].status = "ERROR"] \in [Users -> Row]
      BY <1>r DEF Row, Statuses
    <3>2. call[c].user \in Users
      BY <1>10 DEF Fail, FailUnrecorded, Work, WorkOf
    <3> QED
      BY <1>10, <1>r, <3>1, <3>2 DEF Fail, FailUnrecorded, MarkError
  <2> QED
    BY <1>10, <2>1, <2>2, <1>f DEF Fail, FailUnrecorded, Fault, history, ConnectionTypeOK
<1>11. ASSUME NEW c \in Calls, NEW p \in Procs, Copy(c, p)
       PROVE  ConnectionTypeOK'
  <2>1. PICK v \in Others(Owner) : Move(c, Begun("copying", "copy", p, Owner, v, FALSE))
    BY <1>11 DEF Copy
  <2>2. Begun("copying", "copy", p, Owner, v, FALSE) \in CallType
    BY <2>1, BegunTyped DEF Others
  <2>3. call' \in [Calls -> CallType]
    BY <2>1, <2>2, MoveTyped
  <2> QED
    BY <1>11, <2>3 DEF Copy, history, ConnectionTypeOK
<1>12. ASSUME NEW c \in Calls, Create(c)
       PROVE  ConnectionTypeOK'
  <2>1. call' \in [Calls -> CallType]
    BY <1>12, IdleTyped, MoveTyped DEF Create
  <2>2. [status |-> "CONNECTED", secret |-> call[c].secret] \in Row
    BY <1>s DEF Row, Statuses
  <2>3. row' \in [Users -> Row]
    BY <1>12, <1>r, <2>2 DEF Create
  <2> QED
    BY <1>12, <2>1, <2>3 DEF Create, history, ConnectionTypeOK
<1>13. ASSUME NEW u \in Users, Connect(u)
       PROVE  ConnectionTypeOK'
  <2>1. gone' \subseteq Users /\ undone' \subseteq Users
    BY <1>13 DEF Connect, ConnectionTypeOK
  <2>2. CASE UNCHANGED <<grants, current, excused>> /\ row' = [row EXCEPT ![u].status = "CONNECTED"]
    <3>1. row' \in [Users -> Row]
      BY <2>2, <1>r DEF Row, Statuses
    <3> QED
      BY <1>13, <2>1, <2>2, <3>1 DEF Connect, ConnectionTypeOK
  <2>3. CASE /\ grants < MaxGrants /\ MaxTurns > 0 /\ grants' = grants + 1
             /\ current' = [current EXCEPT ![grants + 1] = 1]
             /\ row' = [row EXCEPT ![u] = [status |-> "CONNECTED",
                                           secret |-> [grant |-> grants + 1, turn |-> 1]]]
             /\ excused' = excused \cup ({row[u].secret.grant} \ {0})
    <3>1. grants' \in 0..MaxGrants /\ current' \in [1..MaxGrants -> 0..MaxTurns]
      BY <2>3, <1>r DEF ConnectionTypeOK
    <3>2. [grant |-> grants + 1, turn |-> 1] \in Secrets
      BY <2>3 DEF Secrets, ConnectionTypeOK
    <3>3. row' \in [Users -> Row]
      BY <2>3, <3>2, <1>r DEF Row, Statuses
    <3>4. excused' \subseteq 1..MaxGrants
      BY <2>3, <1>r, <1>u, <1>g
    <3> QED
      BY <1>13, <2>1, <3>1, <3>3, <3>4 DEF Connect, ConnectionTypeOK
  <2> QED
    BY <1>13, <2>2, <2>3 DEF Connect
<1>14. ASSUME NEW u \in Users, NEW status \in {"DISCONNECTED", "ERROR"}, Remove(u, status)
       PROVE  ConnectionTypeOK'
  <2>1. [status |-> status, secret |-> NoSecret] \in Row
    BY SecretsTyped DEF Row, Statuses
  <2>2. row' \in [Users -> Row]
    BY <1>14, <2>1, <1>r DEF Remove
  <2>3. epoch' \in [Users -> Nat]
    BY <1>14, <1>r DEF Remove
  <2>4. excused' \subseteq 1..MaxGrants
    BY <1>14, <1>r, <1>u, <1>g DEF Remove
  <2>5. gone' \subseteq Users /\ undone' \subseteq Users
    BY <1>14 DEF Remove, ConnectionTypeOK
  <2> QED
    BY <1>14, <2>2, <2>3, <2>4, <2>5, <1>f DEF Remove, ConnectionTypeOK
<1>15. ASSUME NEW u \in Users, NEW status \in {"CONNECTED", "ERROR"}, Report(u, status)
       PROVE  ConnectionTypeOK'
  <2>1. row' \in [Users -> Row]
    BY <1>15, <1>r DEF Report, Row, Statuses
  <2> QED
    BY <1>15, <2>1, <1>f DEF Report, ConnectionTypeOK
<1>16. ASSUME NEW g \in 1..MaxGrants, Revoke(g)
       PROVE  ConnectionTypeOK'
  BY <1>16, <1>f DEF Revoke, Fault, ConnectionTypeOK
<1>17. ASSUME NEW p \in Procs, Crash(p)
       PROVE  ConnectionTypeOK'
  <2>1. call' \in [Calls -> CallType]
    BY <1>17, <1>r, IdleTyped DEF Crash
  <2>2. \A c \in Calls : call[c].got.grant \in 0..MaxGrants
    BY <1>s DEF Secrets
  <2>3. InHand({c \in Calls : call[c].proc = p}) \subseteq 1..MaxGrants
    BY <2>2 DEF InHand
  <2>4. excused' \subseteq 1..MaxGrants
    BY <1>17, <1>r, <2>3 DEF Crash
  <2> QED
    BY <1>17, <2>1, <2>4, <1>f DEF Crash, Fault, history, ConnectionTypeOK
<1> QED
  BY <1>1, <1>2, <1>3, <1>4, <1>5, <1>6, <1>7, <1>8, <1>9, <1>10, <1>11, <1>12, <1>13,
     <1>14, <1>15, <1>16, <1>17 DEF Next, CallStep, FaultStep

-----------------------------------------------------------------------------
(* What a step does to the calls *)

\* A call that is not written to, or that is freed, keeps what Work says of it.
LEMMA IdleWorks == Idle.pc = "idle" /\ Idle.leader = "none" /\ Idle.secret = NoSecret
                   /\ Idle.got = NoSecret
BY DEF Idle

LEMMA BegunIs ==
    ASSUME NEW p, NEW u, NEW v, NEW pc, NEW kind, NEW must
    PROVE  LET b == Begun(pc, kind, p, u, v, must)
           IN b.pc = pc /\ b.user = u /\ b.from = v /\ b.secret = row[v].secret
              /\ b.got = NoSecret /\ b.leader = "none" /\ b.since = epoch[u]
BY DEF Begun, Idle

\* When c's promise is settled the others keep what they hold, are failed, or freed.
LEMMA SettleIs ==
    ASSUME ConnectionTypeOK, Work, NEW c \in Calls, call[c].pc \in {"calling", "writing"},
           NEW next \in {Idle, Failing(c)}, Settle(c, next)
    PROVE  /\ call'[c] = next
           /\ \A d \in Calls \ {c} :
                 \/ call'[d] = call[d]
                 \/ call'[d] = Idle /\ call[d].pc = "joined"
                 \/ /\ call[d].pc = "joined" /\ call'[d].pc = "failing"
                    /\ call'[d].leader = "none" /\ call'[d].user = call[d].user
                    /\ call'[d].secret = call[d].secret /\ call'[d].got = call[d].got
<1>1. c # "none"
  BY ConnectionAssumption
<1>2. call'[c] = next
  BY DEF Settle
<1>3. ASSUME NEW d \in Calls \ {c}
      PROVE  \/ call'[d] = call[d]
             \/ call'[d] = Idle /\ call[d].pc = "joined"
             \/ /\ call[d].pc = "joined" /\ call'[d].pc = "failing"
                /\ call'[d].leader = "none" /\ call'[d].user = call[d].user
                /\ call'[d].secret = call[d].secret /\ call'[d].got = call[d].got
  <2>1. call[d].leader = c => call[d].pc = "joined"
    BY <1>1 DEF Work, WorkOf
  <2>2. call[d] \in CallType
    BY DEF ConnectionTypeOK
  <2>3. LET f == [call[d] EXCEPT !.pc = "failing", !.leader = "none"]
        IN f.pc = "failing" /\ f.leader = "none" /\ f.user = call[d].user
           /\ f.secret = call[d].secret /\ f.got = call[d].got
    BY <2>2 DEF CallType
  <2> QED
    BY <2>1, <2>3 DEF Settle
<1> QED
  BY <1>2, <1>3

LEMMA FailingIs ==
    ASSUME ConnectionTypeOK, NEW c \in Calls
    PROVE  /\ Failing(c).pc = "failing" /\ Failing(c).leader = call[c].leader
           /\ Failing(c).user = call[c].user /\ Failing(c).secret = call[c].secret
           /\ Failing(c).got = call[c].got
BY DEF Failing, ConnectionTypeOK, CallType

\* How the calls can change in a step: c moves, those that joined it settle.
Settled(c) ==
    \A d \in Calls \ {c} :
       \/ call'[d] = call[d]
       \/ call'[d] = Idle /\ call[d].pc = "joined"
       \/ /\ call[d].pc = "joined" /\ call'[d].pc = "failing"
          /\ call'[d].leader = "none" /\ call'[d].user = call[d].user
          /\ call'[d].secret = call[d].secret /\ call'[d].got = call[d].got

LEMMA MoveIs ==
    ASSUME ConnectionTypeOK, NEW c \in Calls, NEW next, Move(c, next)
    PROVE  call'[c] = next /\ \A d \in Calls \ {c} : call'[d] = call[d]
BY DEF Move, ConnectionTypeOK

LEMMA WorkMoves ==
    ASSUME Work, NEW c \in Calls, Settled(c), WorkOf(c)'
    PROVE  Work'
<1> SUFFICES ASSUME NEW d \in Calls \ {c} PROVE WorkOf(d)'
  BY DEF Work
<1>1. CASE call'[d] = call[d]
  BY <1>1 DEF Work, WorkOf
<1>2. CASE call'[d] = Idle
  BY <1>2, IdleWorks DEF WorkOf, Active
<1>3. CASE /\ call[d].pc = "joined" /\ call'[d].pc = "failing"
           /\ call'[d].leader = "none" /\ call'[d].user = call[d].user
  BY <1>3 DEF Work, WorkOf, Active
<1> QED
  BY <1>1, <1>2, <1>3 DEF Settled

LEMMA InitWork == Init => Work
BY IdleWorks DEF Init, Work, WorkOf, Active

\* The three ways in which calls change, summed up for the invariants.
LEMMA StepWork == ConnectionTypeOK /\ Work /\ [Next]_vars => Work'
<1> SUFFICES ASSUME ConnectionTypeOK, Work, [Next]_vars
             PROVE  Work'
  OBVIOUS
<1>c. ASSUME NEW c \in Calls
      PROVE  call[c] \in CallType /\ WorkOf(c)
  BY DEF ConnectionTypeOK, Work
<1>s. ASSUME NEW c \in Calls, NEW next, Move(c, next)
      PROVE  Settled(c) /\ call'[c] = next
  BY <1>s, MoveIs DEF Settled
<1>i. ASSUME NEW c \in Calls, call'[c] = Idle
      PROVE  WorkOf(c)'
  BY <1>i, IdleWorks DEF WorkOf, Active
<1>f. ASSUME NEW c \in Calls, call'[c] = Failing(c), call[c].pc \in {"calling", "writing"}
      PROVE  WorkOf(c)'
  BY <1>f, <1>c, FailingIs DEF WorkOf, Active
<1>b. ASSUME NEW c \in Calls, NEW p, NEW u \in Users, NEW v \in Users,
             NEW pc \in {"calling", "peeked", "copying"}, NEW kind, NEW must,
             call'[c] = Begun(pc, kind, p, u, v, must)
      PROVE  WorkOf(c)'
  <2> DEFINE b == Begun(pc, kind, p, u, v, must)
  <2>1. b.pc = pc /\ b.user = u /\ b.from = v /\ b.leader = "none"
    BY BegunIs
  <2> HIDE DEF b
  <2> QED
    BY <1>b, <2>1 DEF WorkOf, b
<1>1. CASE UNCHANGED call
  BY <1>1 DEF Work, WorkOf
<1>2. ASSUME NEW c \in Calls, NEW p \in Procs, NEW u \in Users, Get(c, p, u)
      PROVE  Work'
  <2>1. PICK v \in GetSources(u) : Move(c, Begun("calling", "get", p, u, v, TRUE))
    BY <1>2 DEF Get
  <2>2. v \in Users
    BY SourcesTyped
  <2> QED
    BY <2>1, <2>2, <1>s, <1>b, WorkMoves
<1>3. ASSUME NEW c \in Calls, NEW p \in Procs, NEW u \in Users, Peek(c, p, u)
      PROVE  Work'
  <2>1. PICK v \in CredentialSources(u), expired \in BOOLEAN :
           Move(c, Begun("peeked", "credentials", p, u, v, expired))
    BY <1>3 DEF Peek
  <2>2. v \in Users
    BY SourcesTyped
  <2> QED
    BY <2>1, <2>2, <1>s, <1>b, WorkMoves
<1>4. ASSUME NEW c \in Calls, Launch(c)
      PROVE  Work'
  <2>0. call[c].pc = "peeked" /\ call[c] \in CallType /\ WorkOf(c)
    BY <1>4, <1>c DEF Launch
  <2>1. CASE Move(c, [call[c] EXCEPT !.pc = "calling"])
    <3>1. call'[c] = [call[c] EXCEPT !.pc = "calling"] /\ Settled(c)
      BY <2>1, <1>s
    <3>2. WorkOf(c)'
      BY <2>0, <3>1 DEF WorkOf, Active, CallType
    <3> QED
      BY <3>1, <3>2, WorkMoves
  <2>2. ASSUME NEW d \in Calls, Move(c, [call[c] EXCEPT !.pc = "joined", !.leader = d])
        PROVE  Work'
    <3>1. call'[c] = [call[c] EXCEPT !.pc = "joined", !.leader = d] /\ Settled(c)
      BY <2>2, <1>s
    <3>2. WorkOf(c)'
      BY <2>0, <3>1 DEF WorkOf, Active, CallType
    <3> QED
      BY <3>1, <3>2, WorkMoves
  <2> QED
    BY <1>4, <2>1, <2>2 DEF Launch, InFlight
<1>5. ASSUME NEW c \in Calls, Accept(c)
      PROVE  Work'
  <2> DEFINE new == Renewed(call[c].secret)
  <2>0. call[c].pc = "calling" /\ call[c] \in CallType /\ WorkOf(c)
    BY <1>5, <1>c DEF Accept
  <2>1. new.grant # 0
    BY <1>5, LiveTyped, RenewedTyped DEF Accept
  <2>2. call'[c] = [call[c] EXCEPT !.pc = "writing", !.got = new] /\ Settled(c)
    BY <1>5, <1>s DEF Accept
  <2> HIDE DEF new
  <2>3. WorkOf(c)'
    BY <2>0, <2>1, <2>2 DEF WorkOf, Active, CallType
  <2> QED
    BY <2>2, <2>3, WorkMoves
<1>6. ASSUME NEW c \in Calls, Reject(c) \/ Outage(c)
      PROVE  Work'
  <2>1. call[c].pc = "calling" /\ Settle(c, Failing(c))
    BY <1>6 DEF Reject, Outage
  <2>2. call'[c] = Failing(c) /\ Settled(c)
    BY <2>1, SettleIs DEF Settled
  <2> QED
    BY <2>1, <2>2, <1>f, WorkMoves
<1>7. ASSUME NEW c \in Calls, Write(c)
      PROVE  Work'
  <2>1. call[c].pc = "writing" /\ Settle(c, Idle)
    BY <1>7 DEF Write
  <2>2. call'[c] = Idle /\ Settled(c)
    BY <2>1, SettleIs DEF Settled
  <2> QED
    BY <2>2, <1>i, WorkMoves
<1>8. ASSUME NEW c \in Calls, WriteFails(c)
      PROVE  Work'
  <2>1. call[c].pc = "writing" /\ (Settle(c, Idle) \/ Settle(c, Failing(c)))
    BY <1>8 DEF WriteFails
  <2>2. (call'[c] = Idle \/ call'[c] = Failing(c)) /\ Settled(c)
    BY <2>1, SettleIs DEF Settled
  <2> QED
    BY <2>1, <2>2, <1>i, <1>f, WorkMoves
<1>9. ASSUME NEW c \in Calls, Fail(c) \/ FailUnrecorded(c) \/ Create(c)
      PROVE  Work'
  <2>1. Move(c, Idle)
    BY <1>9 DEF Fail, FailUnrecorded, Create
  <2> QED
    BY <2>1, <1>s, <1>i, WorkMoves
<1>10. ASSUME NEW c \in Calls, NEW p \in Procs, Copy(c, p)
       PROVE  Work'
  <2>1. PICK v \in Others(Owner) : Move(c, Begun("copying", "copy", p, Owner, v, FALSE))
    BY <1>10 DEF Copy
  <2>2. v \in Users /\ Owner \in Users
    BY Constants DEF Others
  <2> QED
    BY <2>1, <2>2, <1>s, <1>b, WorkMoves
<1>11. ASSUME NEW p \in Procs, Crash(p)
       PROVE  Work'
  <2> SUFFICES ASSUME NEW c \in Calls PROVE WorkOf(c)'
    BY DEF Work
  <2>1. call'[c] = Idle \/ call'[c] = call[c]
    BY <1>11 DEF Crash
  <2> QED
    BY <2>1, <1>i, <1>c DEF WorkOf
<1>12. ASSUME \/ \E c \in Calls : LoseAnswer(c)
              \/ \E u \in Users : \/ Connect(u)
                                  \/ \E status \in {"DISCONNECTED", "ERROR"} : Remove(u, status)
                                  \/ \E status \in {"CONNECTED", "ERROR"} : Report(u, status)
              \/ \E g \in 1..MaxGrants : Revoke(g)
              \/ UNCHANGED vars
       PROVE  UNCHANGED call
  BY <1>12 DEF LoseAnswer, Connect, Remove, Report, Revoke, vars
<1> QED
  BY <1>1, <1>2, <1>3, <1>4, <1>5, <1>6, <1>7, <1>8, <1>9, <1>10, <1>11, <1>12
     DEF Next, CallStep, FaultStep

-----------------------------------------------------------------------------
(* Removed *)

LEMMA InitRemoved == Init => Removed
<1> SUFFICES ASSUME Init PROVE Removed
  OBVIOUS
<1>1. \A u \in Users : row[u] = NoRow /\ NoRow.secret = NoSecret
  BY DEF Init, NoRow
<1>2. \A c \in Calls : call[c].pc \notin Active
  BY IdleWorks DEF Init, Active
<1> QED
  BY <1>1, <1>2 DEF Init, Removed, DisconnectHolds

\* Of a call at work: it was at work for the same user, or it is one that has just begun.
Known(c) ==
    call'[c].pc \in Active =>
       \/ /\ call[c].pc \in Active /\ call'[c].user = call[c].user
          /\ call'[c].from = call[c].from /\ call'[c].since = call[c].since
       \/ /\ call'[c].user \in Users /\ call'[c].since = epoch[call'[c].user]
          /\ call'[c].user \in gone /\ call'[c].from = call'[c].user
                => call'[c].user \in undone

\* A step of calls only.
LEMMA CallsRemoved ==
    ASSUME ConnectionTypeOK, Removed, UNCHANGED <<row, gone, epoch, undone>>,
           \A c \in Calls : Known(c)
    PROVE  Removed'
<1>1. \A u \in Users : epoch[u] \in Nat
  BY DEF ConnectionTypeOK
<1>2. ASSUME NEW c \in Calls, call'[c].pc \in Active
      PROVE  call'[c].since <= epoch[call'[c].user]
  BY <1>1, <1>2 DEF Known, Removed
<1>3. ASSUME NEW c \in Calls, NEW u \in gone, call'[c].pc \in Active, call'[c].user = u,
             call'[c].from = u, call'[c].since = epoch[u]
      PROVE  u \in undone
  BY <1>3 DEF Known, Removed
<1> QED
  BY <1>2, <1>3 DEF Removed, DisconnectHolds

LEMMA KnownSettled ==
    ASSUME NEW c \in Calls, Settled(c), call'[c].pc \notin Active
    PROVE  \A d \in Calls : Known(d)
<1> SUFFICES ASSUME NEW d \in Calls \ {c} PROVE Known(d)
  BY DEF Known
<1>1. CASE call'[d] = call[d]
  BY <1>1 DEF Known
<1>2. CASE call'[d] = Idle \/ call'[d].pc = "failing"
  BY <1>2, IdleWorks DEF Known, Active
<1> QED
  BY <1>1, <1>2 DEF Settled

LEMMA StepRemoved == ConnectionTypeOK /\ Work /\ Removed /\ [Next]_vars => Removed'
<1> SUFFICES ASSUME ConnectionTypeOK, Work, Removed, [Next]_vars
             PROVE  Removed'
  OBVIOUS
<1>c. ASSUME NEW c \in Calls
      PROVE  call[c] \in CallType /\ WorkOf(c)
  BY DEF ConnectionTypeOK, Work
<1>r. row \in [Users -> Row] /\ epoch \in [Users -> Nat] /\ \A u \in Users : row[u] \in Row
  BY DEF ConnectionTypeOK
<1>t. gone \subseteq Users
  BY DEF ConnectionTypeOK
<1>i. Idle.pc \notin Active /\ \A c \in Calls : Failing(c).pc \notin Active
  BY IdleWorks, FailingIs DEF Active
<1>s. ASSUME NEW c \in Calls, NEW next, Move(c, next)
      PROVE  Settled(c) /\ call'[c] = next
  BY <1>s, MoveIs DEF Settled
<1>m. ASSUME NEW c \in Calls, Settled(c), Known(c), UNCHANGED <<row, gone, epoch, undone>>
      PROVE  Removed'
  <2>1. ASSUME NEW d \in Calls \ {c}
        PROVE  Known(d)
    <3>1. CASE call'[d] = call[d]
      BY <3>1 DEF Known
    <3>2. CASE call'[d] = Idle \/ call'[d].pc = "failing"
      BY <3>2, <1>i DEF Known, Active
    <3> QED
      BY <1>m, <3>1, <3>2 DEF Settled
  <2> QED
    BY <1>m, <2>1, CallsRemoved
<1>b. ASSUME NEW c \in Calls, NEW p, NEW u \in Users, NEW v \in Users, NEW pc, NEW kind, NEW must,
             call'[c] = Begun(pc, kind, p, u, v, must),
             v = u => row[v].secret # NoSecret
      PROVE  Known(c)
  <2> DEFINE b == Begun(pc, kind, p, u, v, must)
  <2>1. b.user = u /\ b.from = v /\ b.since = epoch[u]
    BY BegunIs
  <2> HIDE DEF b
  <2> QED
    BY <1>b, <2>1 DEF Known, Removed, DisconnectHolds, b
<1>1. CASE UNCHANGED vars
  BY <1>1 DEF vars, Removed, DisconnectHolds
<1>2. ASSUME NEW c \in Calls, NEW p \in Procs, NEW u \in Users, Get(c, p, u)
      PROVE  Removed'
  <2>1. PICK v \in GetSources(u), must \in BOOLEAN :
           /\ row[v].secret # NoSecret
           /\ Move(c, Begun("calling", "get", p, u, v, must))
    BY <1>2 DEF Get
  <2>2. v \in Users
    BY SourcesTyped
  <2>3. Settled(c) /\ call'[c] = Begun("calling", "get", p, u, v, must)
    BY <2>1, <1>s
  <2>4. Known(c)
    BY <2>1, <2>2, <2>3, <1>b
  <2> QED
    BY <1>2, <2>3, <2>4, <1>m DEF Get, history
<1>3. ASSUME NEW c \in Calls, NEW p \in Procs, NEW u \in Users, Peek(c, p, u)
      PROVE  Removed'
  <2>1. PICK v \in CredentialSources(u), expired \in BOOLEAN :
           /\ row[v].secret # NoSecret
           /\ Move(c, Begun("peeked", "credentials", p, u, v, expired))
    BY <1>3 DEF Peek
  <2>2. v \in Users
    BY SourcesTyped
  <2> QED
    BY <1>3, <2>1, <2>2, <1>s, <1>b, <1>m DEF Peek, history
<1>4. ASSUME NEW c \in Calls, NEW p \in Procs, Copy(c, p)
      PROVE  Removed'
  <2>1. PICK v \in Others(Owner) : Move(c, Begun("copying", "copy", p, Owner, v, FALSE))
    BY <1>4 DEF Copy
  <2>2. v \in Users /\ v # Owner /\ Owner \in Users
    BY Constants DEF Others
  <2>3. Settled(c) /\ call'[c] = Begun("copying", "copy", p, Owner, v, FALSE)
    BY <2>1, <1>s
  <2>4. Known(c)
    BY <2>1, <2>2, <2>3, <1>b
  <2> QED
    BY <1>4, <2>3, <2>4, <1>m DEF Copy, history
<1>5. ASSUME NEW c \in Calls, Launch(c)
      PROVE  Removed'
  <2>0. call[c].pc = "peeked" /\ call[c] \in CallType
    BY <1>5, <1>c DEF Launch
  <2>1. CASE Move(c, [call[c] EXCEPT !.pc = "calling"])
    <3>1. call'[c] = [call[c] EXCEPT !.pc = "calling"] /\ Settled(c)
      BY <2>1, <1>s
    <3>2. Known(c)
      BY <2>0, <3>1 DEF Known, Active, CallType
    <3> QED
      BY <1>5, <3>1, <3>2, <1>m DEF Launch, history
  <2>2. ASSUME NEW d \in Calls, Move(c, [call[c] EXCEPT !.pc = "joined", !.leader = d])
        PROVE  Removed'
    <3>1. call'[c] = [call[c] EXCEPT !.pc = "joined", !.leader = d] /\ Settled(c)
      BY <2>2, <1>s
    <3>2. Known(c)
      BY <2>0, <3>1 DEF Known, Active, CallType
    <3> QED
      BY <1>5, <3>1, <3>2, <1>m DEF Launch, history
  <2> QED
    BY <1>5, <2>1, <2>2 DEF Launch, InFlight
<1>6. ASSUME NEW c \in Calls, Accept(c)
      PROVE  Removed'
  <2> DEFINE new == Renewed(call[c].secret)
  <2>0. call[c].pc = "calling" /\ call[c] \in CallType
    BY <1>6, <1>c DEF Accept
  <2>2. call'[c] = [call[c] EXCEPT !.pc = "writing", !.got = new] /\ Settled(c)
    BY <1>6, <1>s DEF Accept
  <2> HIDE DEF new
  <2>3. Known(c)
    BY <2>0, <2>2 DEF Known, Active, CallType
  <2> QED
    BY <1>6, <2>2, <2>3, <1>m DEF Accept
<1>7. ASSUME NEW c \in Calls, Reject(c) \/ Outage(c) \/ WriteFails(c)
      PROVE  Removed'
  <2>1. call[c].pc \in {"calling", "writing"} /\ (Settle(c, Idle) \/ Settle(c, Failing(c)))
    BY <1>7 DEF Reject, Outage, WriteFails
  <2>2. (call'[c] = Idle \/ call'[c] = Failing(c)) /\ Settled(c)
    BY <2>1, SettleIs DEF Settled
  <2>3. UNCHANGED <<row, gone, epoch, undone>>
    BY <1>7 DEF Reject, Outage, WriteFails, history
  <2> QED
    BY <2>2, <2>3, <1>i, KnownSettled, CallsRemoved
<1>8. ASSUME NEW c \in Calls, FailUnrecorded(c)
      PROVE  Removed'
  BY <1>8, <1>s, <1>i, KnownSettled, CallsRemoved DEF FailUnrecorded, history
<1>9. ASSUME NEW p \in Procs, Crash(p)
      PROVE  Removed'
  <2>1. ASSUME NEW c \in Calls
        PROVE  Known(c)
    BY <1>9, <1>i DEF Crash, Known
  <2> QED
    BY <1>9, <2>1, CallsRemoved DEF Crash, history
<1>10. ASSUME (\E c \in Calls : LoseAnswer(c)) \/ \E g \in 1..MaxGrants : Revoke(g)
       PROVE  Removed'
  BY <1>10 DEF LoseAnswer, Revoke, Removed, DisconnectHolds
<1>11. ASSUME NEW c \in Calls, Write(c)
       PROVE  Removed'
  <2> DEFINE u == call[c].user
  <2>1. call[c].pc = "writing" /\ u \in Users /\ Settle(c, Idle)
    BY <1>11, <1>c DEF Write, WorkOf, Active
  <2>2. \A d \in Calls : Known(d)
    BY <2>1, SettleIs, <1>i, KnownSettled DEF Settled
  <2>3. ASSUME NEW d \in Calls, call'[d].pc \in Active
        PROVE  call[d].pc \in Active /\ call'[d] = call[d]
    <3>1. call'[c] = Idle /\ Settled(c)
      BY <2>1, SettleIs DEF Settled
    <3> QED
      BY <2>3, <3>1, <1>i DEF Settled, Active
  <2>4. UNCHANGED <<gone, epoch>> /\ undone \subseteq undone'
    BY <1>11 DEF Write, history
  <2>5. u \in gone => u \in undone'
    BY <1>11, <2>1 DEF Write, Removed, Active
  <2>6. row'[u].status = "CONNECTED" /\ \A v \in Users \ {u} : row'[v] = row[v]
    BY <1>11, <1>r, <2>1 DEF Write
  <2> HIDE DEF u
  <2> QED
    BY <1>t, <2>3, <2>4, <2>5, <2>6 DEF Removed, DisconnectHolds
<1>12. ASSUME NEW c \in Calls, Fail(c)
       PROVE  Removed'
  <2>1. UNCHANGED <<gone, epoch, undone>> /\ Move(c, Idle) /\ call[c].user \in Users
    BY <1>12, <1>c DEF Fail, history, WorkOf
  <2>2. ASSUME NEW v \in Users
        PROVE  row'[v].secret = row[v].secret /\ row'[v].status \in {row[v].status, "ERROR"}
    BY <1>12, <1>r, <2>1 DEF Fail, MarkError, Row
  <2>3. ASSUME NEW d \in Calls, call'[d].pc \in Active
        PROVE  call'[d] = call[d]
    BY <2>1, <2>3, <1>s, <1>i, MoveIs
  <2> QED
    BY <1>t, <2>1, <2>2, <2>3 DEF Removed, DisconnectHolds
<1>13. ASSUME NEW c \in Calls, Create(c)
       PROVE  Removed'
  <2>1. UNCHANGED <<gone, epoch, undone>> /\ Move(c, Idle)
    BY <1>13 DEF Create, history
  <2>2. ASSUME NEW v \in Users
        PROVE  row'[v] = row[v] \/ (v \notin gone /\ row'[v].status = "CONNECTED")
    BY <1>13, <1>r DEF Create, Removed
  <2>3. ASSUME NEW d \in Calls, call'[d].pc \in Active
        PROVE  call'[d] = call[d]
    BY <2>1, <2>3, <1>s, <1>i, MoveIs
  <2> QED
    BY <1>t, <2>1, <2>2, <2>3 DEF Removed, DisconnectHolds
<1>14. ASSUME NEW u \in Users, Connect(u)
       PROVE  Removed'
  <2>1. UNCHANGED <<call, epoch>> /\ gone' = gone \ {u} /\ undone' = undone \ {u}
    BY <1>14 DEF Connect
  <2>2. row'[u].status = "CONNECTED" /\ \A v \in Users \ {u} : row'[v] = row[v]
    BY <1>14, <1>r DEF Connect, Row
  <2> QED
    BY <1>t, <2>1, <2>2 DEF Removed, DisconnectHolds
<1>15. ASSUME NEW u \in Users, NEW status \in {"DISCONNECTED", "ERROR"}, Remove(u, status)
       PROVE  Removed'
  <2>1. UNCHANGED call /\ gone' = gone \cup {u} /\ undone' = undone \ {u}
    BY <1>15 DEF Remove
  <2>2. /\ row'[u].status # "none" /\ row'[u].secret = NoSecret
        /\ \A v \in Users \ {u} : row'[v] = row[v]
    BY <1>15, <1>r DEF Remove
  <2>3. epoch'[u] = epoch[u] + 1 /\ \A v \in Users \ {u} : epoch'[v] = epoch[v]
    BY <1>15, <1>r DEF Remove
  <2>4. ASSUME NEW c \in Calls, call[c].pc \in Active
        PROVE  /\ call[c].user \in Users /\ call[c].since \in Nat
               /\ call[c].since <= epoch[call[c].user] /\ epoch[call[c].user] \in Nat
    BY <2>4, <1>c, <1>r DEF WorkOf, Removed, CallType
  <2>5. ASSUME NEW c \in Calls, call[c].pc \in Active
        PROVE  /\ call[c].since <= epoch'[call[c].user]
               /\ call[c].user = u => call[c].since # epoch'[u]
    BY <2>3, <2>4, <2>5
  <2> QED
    BY <1>t, <2>1, <2>2, <2>3, <2>5 DEF Removed, DisconnectHolds
<1>16. ASSUME NEW u \in Users, NEW status \in {"CONNECTED", "ERROR"}, Report(u, status)
       PROVE  Removed'
  <2>1. UNCHANGED <<call, epoch, gone, undone>>
    BY <1>16 DEF Report
  <2>2. /\ row'[u].status # "none" /\ row'[u].secret = row[u].secret
        /\ \A v \in Users \ {u} : row'[v] = row[v]
    BY <1>16, <1>r DEF Report, Row
  <2> QED
    BY <1>t, <2>1, <2>2 DEF Removed, DisconnectHolds
<1> QED
  BY <1>1, <1>2, <1>3, <1>4, <1>5, <1>6, <1>7, <1>8, <1>9, <1>10, <1>11, <1>12, <1>13,
     <1>14, <1>15, <1>16 DEF Next, CallStep, FaultStep

-----------------------------------------------------------------------------
(* Tokens *)

LEMMA InitTokens == Init => Tokens
<1> SUFFICES ASSUME Init PROVE Tokens
  OBVIOUS
<1>1. \A u \in Users : row[u].secret = NoSecret
  BY DEF Init, NoRow
<1>2. \A c \in Calls : call[c].secret = NoSecret /\ call[c].got = NoSecret
  BY IdleWorks DEF Init
<1>3. Bounded(NoSecret) /\ grants = 0
  BY SecretsTyped DEF Bounded, Init
<1>4. \A g \in 1..MaxGrants : ~Open(g)
  BY DEF Init, Open
<1> QED
  BY <1>1, <1>2, <1>3, <1>4, SecretsTyped DEF Tokens

\* A call that neither begins nor ends writing; its secret stays, goes, or is a row's.
Quiet(d) ==
    /\ call'[d].pc = "writing" <=> call[d].pc = "writing"
    /\ call[d].pc = "writing" => call'[d].got = call[d].got
    /\ call'[d].got = call[d].got \/ call'[d].got = NoSecret
    /\ \/ call'[d].secret = call[d].secret
       \/ call'[d].secret = NoSecret
       \/ \E u \in Users : call'[d].secret = row[u].secret

\* What was Open stays no newer than it was; a grant is not opened again.
Ageing ==
    /\ grants \in Nat /\ grants' \in Nat /\ grants <= grants'
    /\ \A g \in 1..grants :
          /\ current[g] \in Nat /\ current'[g] \in Nat
          /\ Open(g)' => Open(g) /\ current[g] <= current'[g]

LEMMA AgeingTyped ==
    ASSUME ConnectionTypeOK, ConnectionTypeOK', grants <= grants',
           \A g \in 1..grants : Open(g)' => Open(g) /\ current[g] <= current'[g]
    PROVE  Ageing
<1>1. grants \in 0..MaxGrants /\ grants' \in 0..MaxGrants
  BY DEF ConnectionTypeOK
<1>2. current \in [1..MaxGrants -> 0..MaxTurns] /\ current' \in [1..MaxGrants -> 0..MaxTurns]
  BY DEF ConnectionTypeOK
<1>3. \A g \in 1..grants : current[g] \in Nat /\ current'[g] \in Nat
  BY <1>1, <1>2, Constants
<1> QED
  BY <1>1, <1>3 DEF Ageing

LEMMA BoundedStays ==
    ASSUME Ageing, NEW s \in Secrets, Bounded(s)
    PROVE  Bounded(s)'
<1>1. s.grant \in Nat /\ s.turn \in Nat
  BY DEF Secrets
<1>2. s.grant <= grants'
  BY <1>1 DEF Ageing, Bounded
<1>3. ASSUME s.grant # 0, Open(s.grant)'
      PROVE  s.turn <= current'[s.grant]
  <2>1. s.grant \in 1..grants
    BY <1>1, <1>3 DEF Bounded, Ageing
  <2> QED
    BY <1>1, <1>3, <2>1 DEF Bounded, Ageing
<1> QED
  BY <1>2, <1>3 DEF Bounded

\* A grant that a step does not concern.
LEMMA SameGrant ==
    ASSUME NEW g \in 1..MaxGrants, Sole(g), Kept(g), current'[g] = current[g],
           current[g] # 0,
           \A c \in Calls : Writing(c, g)' <=> Writing(c, g),
           \A c \in Calls : Writing(c, g) => call'[c].got = call[c].got,
           \A c \in Calls : call'[c].secret = Latest(g) =>
              call[c].secret = Latest(g) \/ \E u \in Users : row[u].secret = Latest(g),
           \A u \in Users : row'[u].secret = Latest(g) =>
              row[u].secret = Latest(g) \/ \E c \in Calls : call[c].secret = Latest(g),
           \A u \in Users : row[u].secret = Latest(g) => row'[u].secret = Latest(g)
    PROVE  Sole(g)' /\ Kept(g)'
<1>l. Latest(g)' = Latest(g)
  BY DEF Latest
<1>1. Sole(g)'
  <2> SUFFICES ASSUME NEW c \in Calls, Writing(c, g)
               PROVE  /\ call'[c].got = Latest(g)
                      /\ Rotating /\ current[g] < MaxTurns =>
                            /\ \A u \in Users : row'[u].secret # Latest(g)
                            /\ \A d \in Calls : call'[d].secret # Latest(g)
                            /\ \A d \in Calls \ {c} : ~Writing(d, g)'
    BY <1>l DEF Sole
  <2>1. call'[c].got = Latest(g)
    BY DEF Sole
  <2>2. ASSUME Rotating, current[g] < MaxTurns
        PROVE  /\ \A u \in Users : row[u].secret # Latest(g)
               /\ \A d \in Calls : call[d].secret # Latest(g)
               /\ \A d \in Calls \ {c} : ~Writing(d, g)
    BY <2>2 DEF Sole
  <2> QED
    BY <2>1, <2>2
<1>2. Kept(g)'
  <2>1. CASE \E u \in Users : row[u].secret = Latest(g)
    BY <2>1, <1>l DEF Kept, Latest
  <2>2. ASSUME NEW c \in Calls, call[c].pc = "writing", call[c].got = Latest(g)
        PROVE  Kept(g)'
    <3>1. Writing(c, g)
      BY <2>2 DEF Writing, Latest
    <3>2. Writing(c, g)' /\ call'[c].got = Latest(g)
      BY <2>2, <3>1
    <3> QED
      BY <3>2, <1>l DEF Writing, Kept, Latest
  <2> QED
    BY <2>1, <2>2 DEF Kept, Latest
<1> QED
  BY <1>1, <1>2

\* What comes from what was bounded is bounded.
LEMMA BoundedCopies ==
    ASSUME ConnectionTypeOK, Tokens, Ageing
    PROVE  /\ \A v \in Users : \A s : s = row[v].secret => Bounded(s)'
           /\ \A c \in Calls : \A s : s = call[c].secret => Bounded(s)'
           /\ Bounded(NoSecret)'
<1>1. \A v \in Users : row[v].secret \in Secrets /\ Bounded(row[v].secret)
  BY DEF ConnectionTypeOK, Row, Tokens
<1>2. \A c \in Calls : call[c].secret \in Secrets /\ Bounded(call[c].secret)
  BY DEF ConnectionTypeOK, CallType, Tokens
<1>3. Bounded(NoSecret)'
  BY SecretsTyped DEF Bounded, Ageing
<1>4. ASSUME NEW v \in Users, NEW s, s = row[v].secret
      PROVE  Bounded(s)'
  BY <1>1, <1>4, BoundedStays
<1>5. ASSUME NEW c \in Calls, NEW s, s = call[c].secret
      PROVE  Bounded(s)'
  BY <1>2, <1>5, BoundedStays
<1> QED
  BY <1>3, <1>4, <1>5

\* Rows that keep their secrets, lose them, or take those of calls.
LEMMA BoundedRows ==
    ASSUME ConnectionTypeOK, Tokens, Ageing,
           \A u \in Users : \/ row'[u].secret = row[u].secret
                            \/ \E c \in Calls : row'[u].secret = call[c].secret
                            \/ row'[u].secret = NoSecret
    PROVE  \A u \in Users : Bounded(row[u].secret)'
<1> SUFFICES ASSUME NEW u \in Users PROVE Bounded(row[u].secret)'
  OBVIOUS
<1> PICK s : s = row'[u].secret
  OBVIOUS
<1>1. Bounded(s)'
  <2>1. CASE s = row[u].secret
    BY <2>1, BoundedCopies
  <2>2. CASE \E c \in Calls : s = call[c].secret
    BY <2>2, BoundedCopies
  <2>3. CASE s = NoSecret
    BY <2>3, BoundedCopies
  <2> QED
    BY <2>1, <2>2, <2>3
<1> QED
  BY <1>1 DEF Bounded

\* Calls that keep their secrets, lose them, or take those of rows.
LEMMA BoundedCalls ==
    ASSUME ConnectionTypeOK, Tokens, Ageing, NEW d \in Calls,
           \/ call'[d].secret = call[d].secret
           \/ call'[d].secret = NoSecret
           \/ \E u \in Users : call'[d].secret = row[u].secret,
           call'[d].got = call[d].got \/ call'[d].got = NoSecret
    PROVE  Bounded(call[d].secret)' /\ (call[d].got.grant <= grants)'
<1> PICK s : s = call'[d].secret
  OBVIOUS
<1>1. Bounded(s)'
  <2>1. CASE s = call[d].secret
    BY <2>1, BoundedCopies
  <2>2. CASE \E u \in Users : s = row[u].secret
    BY <2>2, BoundedCopies
  <2>3. CASE s = NoSecret
    BY <2>3, BoundedCopies
  <2> QED
    BY <2>1, <2>2, <2>3
<1>2. call[d].got.grant \in Nat /\ call[d].got.grant <= grants
  BY DEF ConnectionTypeOK, CallType, Secrets, Tokens
<1>3. call'[d].got.grant <= grants'
  BY <1>2, SecretsTyped DEF Ageing
<1> QED
  BY <1>1, <1>3 DEF Bounded

LEMMA SettledQuiet ==
    ASSUME ConnectionTypeOK, NEW c \in Calls, Settled(c)
    PROVE  \A d \in Calls \ {c} : Quiet(d)
BY IdleWorks DEF Settled, Quiet

\* A step that leaves rows and the provider alone and in which no call begins or ends
\* to write.
LEMMA QuietTokens ==
    ASSUME ConnectionTypeOK, ConnectionTypeOK', Work, Tokens,
           UNCHANGED <<row, current, grants, excused>>,
           \A d \in Calls : Quiet(d)
    PROVE  Tokens'
<1>1. Ageing
  <2>1. grants <= grants' /\ \A g \in 1..grants : current[g] <= current'[g]
    BY Constants DEF ConnectionTypeOK
  <2> QED
    BY <2>1, AgeingTyped DEF Open
<1>2. \A u \in Users : Bounded(row[u].secret)'
  BY <1>1, BoundedRows
<1>3. \A d \in Calls : Bounded(call[d].secret)' /\ (call[d].got.grant <= grants)'
  BY <1>1, BoundedCalls DEF Quiet
<1>4. ASSUME NEW g \in 1..MaxGrants, Open(g)'
      PROVE  Sole(g)' /\ Kept(g)'
  <2>1. current[g] # 0 /\ Sole(g) /\ Kept(g)
    BY <1>4 DEF Open, Tokens
  <2>2. Latest(g) # NoSecret
    BY <2>1, SecretsTyped DEF Latest
  <2>3. \A c \in Calls : /\ Writing(c, g)' <=> Writing(c, g)
                         /\ Writing(c, g) => call'[c].got = call[c].got
    BY DEF Writing, Quiet
  <2>4. \A c \in Calls : call'[c].secret = Latest(g) =>
           call[c].secret = Latest(g) \/ \E u \in Users : row[u].secret = Latest(g)
    BY <2>2 DEF Quiet
  <2> QED
    BY <2>1, <2>3, <2>4, SameGrant
<1> QED
  BY <1>2, <1>3, <1>4 DEF Tokens

\* A step after which fewer calls write: what they held is excused.
LEMMA FewerTokens ==
    ASSUME ConnectionTypeOK, ConnectionTypeOK', Work, Tokens,
           grants' = grants,
           \A g \in 1..MaxGrants : Open(g)' =>
              /\ Open(g) /\ current'[g] = current[g]
              /\ \A c \in Calls : Writing(c, g)' <=> Writing(c, g)
              /\ \A u \in Users : row[u].secret = Latest(g) => row'[u].secret = Latest(g),
           \A d \in Calls :
              /\ call'[d].got = call[d].got \/ call'[d].got = NoSecret
              /\ call[d].pc = "writing" /\ call'[d].pc = "writing" => call'[d].got = call[d].got
              /\ call'[d].secret = call[d].secret \/ call'[d].secret = NoSecret,
           \A u \in Users : \/ row'[u].secret = row[u].secret
                            \/ \E c \in Calls : row'[u].secret = call[c].secret
                            \/ row'[u].secret = NoSecret
    PROVE  Tokens'
<1>1. Ageing
  <2>1. grants <= grants' /\ grants \in 0..MaxGrants /\ \A g \in 1..MaxGrants : current[g] <= current[g]
    BY Constants DEF ConnectionTypeOK
  <2>2. \A g \in 1..grants : g \in 1..MaxGrants
    BY <2>1, Constants
  <2> QED
    BY <2>1, <2>2, AgeingTyped
<1>2. \A u \in Users : Bounded(row[u].secret)'
  BY <1>1, BoundedRows
<1>3. \A d \in Calls : Bounded(call[d].secret)' /\ (call[d].got.grant <= grants)'
  BY <1>1, BoundedCalls
<1>4. ASSUME NEW g \in 1..MaxGrants, Open(g)'
      PROVE  Sole(g)' /\ Kept(g)'
  <2>1. /\ Open(g) /\ current[g] # 0 /\ current'[g] = current[g] /\ Sole(g) /\ Kept(g)
        /\ \A c \in Calls : Writing(c, g)' <=> Writing(c, g)
        /\ \A u \in Users : row[u].secret = Latest(g) => row'[u].secret = Latest(g)
    BY <1>4 DEF Open, Tokens
  <2>2. Latest(g) # NoSecret
    BY <2>1, SecretsTyped DEF Latest
  <2>3. \A c \in Calls : Writing(c, g) => call'[c].got = call[c].got
    BY <2>1 DEF Writing
  <2>4. \A c \in Calls : call'[c].secret = Latest(g) => call[c].secret = Latest(g)
    BY <2>2
  <2>5. \A u \in Users : row'[u].secret = Latest(g) =>
           row[u].secret = Latest(g) \/ \E c \in Calls : call[c].secret = Latest(g)
    BY <2>2
  <2> QED
    BY <2>1, <2>3, <2>4, <2>5, SameGrant
<1> QED
  BY <1>2, <1>3, <1>4 DEF Tokens

\* The provider accepts c's secret: c alone now holds the latest token.
LEMMA AcceptTokens ==
    ASSUME ConnectionTypeOK, ConnectionTypeOK', Work, Tokens, NEW c \in Calls, Accept(c)
    PROVE  Tokens'
<1> PICK old, g, new : old = call[c].secret /\ g = old.grant /\ new = Renewed(old)
  OBVIOUS
<1> USE Constants
<1>1. /\ old \in Secrets /\ g \in 1..MaxGrants /\ current[g] = old.turn /\ old.turn # 0
      /\ g \in Nat /\ old.turn \in 0..MaxTurns
  BY LiveTyped DEF Accept, Secrets
<1>2. /\ new \in Secrets /\ new.grant = g
      /\ Rotating /\ old.turn < MaxTurns => new.turn = old.turn + 1
      /\ ~(Rotating /\ old.turn < MaxTurns) => new = old
  BY <1>1, RenewedTyped
<1>3. /\ call[c].pc = "calling" /\ UNCHANGED <<row, grants, excused>>
      /\ current' = [current EXCEPT ![g] = new.turn]
      /\ call'[c] = [call[c] EXCEPT !.pc = "writing", !.got = new]
      /\ \A d \in Calls \ {c} : call'[d] = call[d]
  BY <1>2, MoveIs DEF Accept
<1>4. call'[c].pc = "writing" /\ call'[c].got = new /\ call'[c].secret = old
  <2>1. call[c] \in CallType
    BY DEF ConnectionTypeOK
  <2> QED
    BY <1>3, <2>1 DEF CallType
<1>5. /\ current'[g] = new.turn /\ new.turn \in Nat /\ current[g] <= new.turn /\ new.turn # 0
      /\ \A h \in 1..MaxGrants \ {g} : current'[h] = current[h]
  BY <1>1, <1>2, <1>3 DEF ConnectionTypeOK, Secrets
<1>6. grants \in 0..MaxGrants /\ g <= grants /\ \A h \in 1..MaxGrants : current[h] \in Nat
  BY <1>1 DEF ConnectionTypeOK, Tokens, Bounded
<1>7. Ageing
  <2>1. ASSUME NEW h \in 1..grants, Open(h)'
        PROVE  Open(h) /\ current[h] <= current'[h]
    <3>1. h \in 1..MaxGrants
      BY <1>6
    <3>2. CASE h = g
      BY <1>1, <1>3, <1>5, <2>1, <3>2 DEF Open
    <3>3. CASE h # g
      BY <1>3, <1>5, <1>6, <2>1, <3>1, <3>3 DEF Open
    <3> QED
      BY <3>2, <3>3
  <2> QED
    BY <1>3, <1>6, <2>1, AgeingTyped
<1>8. \A u \in Users : Bounded(row[u].secret)'
  BY <1>3, <1>7, BoundedRows
<1>9. \A d \in Calls : Bounded(call[d].secret)' /\ (call[d].got.grant <= grants)'
  <2>1. ASSUME NEW d \in Calls \ {c}
        PROVE  Bounded(call[d].secret)' /\ (call[d].got.grant <= grants)'
    BY <1>3, <1>7, BoundedCalls
  <2>2. Bounded(call[c].secret)'
    <3> PICK x : x = call'[c].secret
      OBVIOUS
    <3>1. Bounded(x)'
      BY <1>4, <1>7, BoundedCopies
    <3> QED
      BY <3>1 DEF Bounded
  <2>3. (call[c].got.grant <= grants)'
    BY <1>2, <1>3, <1>4, <1>6
  <2> QED
    BY <2>1, <2>2, <2>3
<1>10. ASSUME Open(g)'
       PROVE  Sole(g)' /\ Kept(g)'
  <2>1. Open(g) /\ Sole(g)
    BY <1>1, <1>3, <1>10 DEF Open, Tokens
  <2>2. new = [grant |-> g, turn |-> current'[g]] /\ Latest(g)' = new
    BY <1>2, <1>5 DEF Latest, Secrets
  <2>3. Kept(g)'
    BY <1>4, <2>2 DEF Kept
  <2>4. Writing(c, g)'
    BY <1>2, <1>4 DEF Writing
  <2>5. CASE Rotating /\ old.turn < MaxTurns
    <3>1. old = Latest(g)
      BY <1>1 DEF Latest, Secrets
    <3>2. \A d \in Calls : ~Writing(d, g)
      BY <1>1, <2>1, <2>5, <3>1 DEF Sole
    <3>3. \A d \in Calls \ {c} : ~Writing(d, g)'
      BY <1>3, <3>2 DEF Writing
    <3>4. new.turn > current[g]
      BY <1>1, <1>2, <2>5
    <3>5. \A u \in Users : row'[u].secret # new
      <4> SUFFICES ASSUME NEW u \in Users, row[u].secret = new PROVE FALSE
        BY <1>3
      <4>1. Bounded(row[u].secret)
        BY DEF Tokens
      <4> QED
        BY <4>1, <2>1, <1>1, <1>2, <1>5, <1>6, <3>4 DEF Bounded
    <3>6. \A d \in Calls : call'[d].secret # new
      <4> SUFFICES ASSUME NEW d \in Calls, call[d].secret = new PROVE FALSE
        BY <1>3, <1>4
      <4>1. Bounded(call[d].secret)
        BY DEF Tokens
      <4> QED
        BY <4>1, <2>1, <1>1, <1>2, <1>5, <1>6, <3>4 DEF Bounded
    <3>7. Sole(g)'
      BY <1>4, <2>2, <3>3, <3>5, <3>6 DEF Sole
    <3> QED
      BY <2>3, <3>7
  <2>6. CASE ~(Rotating /\ old.turn < MaxTurns)
    <3>1. new = old /\ current'[g] = current[g]
      BY <1>1, <1>2, <1>5, <2>6
    <3>2. new = Latest(g) /\ ~(Rotating /\ current'[g] < MaxTurns)
      BY <1>1, <2>2, <2>6, <3>1 DEF Latest
    <3>3. ASSUME NEW d \in Calls, Writing(d, g)'
          PROVE  call'[d].got = new
      <4>1. CASE d = c
        BY <4>1, <1>4
      <4>2. CASE d # c
        BY <1>3, <3>3, <4>2, <2>1, <3>2 DEF Writing, Sole
      <4> QED
        BY <4>1, <4>2
    <3>4. Sole(g)'
      BY <2>2, <3>2, <3>3 DEF Sole
    <3> QED
      BY <2>3, <3>4
  <2> QED
    BY <2>5, <2>6
<1>11. ASSUME NEW h \in 1..MaxGrants, h # g, Open(h)'
       PROVE  Sole(h)' /\ Kept(h)'
  <2>1. current'[h] = current[h] /\ current[h] # 0 /\ Sole(h) /\ Kept(h)
    BY <1>3, <1>5, <1>11 DEF Open, Tokens
  <2>2. \A d \in Calls : Writing(d, h)' <=> Writing(d, h)
    <3>1. ~Writing(c, h) /\ ~Writing(c, h)'
      BY <1>2, <1>3, <1>4, <1>11 DEF Writing
    <3>2. \A d \in Calls \ {c} : Writing(d, h)' <=> Writing(d, h)
      BY <1>3 DEF Writing
    <3> QED
      BY <3>1, <3>2
  <2>3. \A d \in Calls : Writing(d, h) => call'[d].got = call[d].got
    BY <1>3 DEF Writing
  <2>4. \A d \in Calls : call'[d].secret = call[d].secret
    BY <1>3, <1>4
  <2> QED
    BY <1>3, <2>1, <2>2, <2>3, <2>4, SameGrant
<1> QED
  BY <1>1, <1>8, <1>9, <1>10, <1>11 DEF Tokens

\* c's write puts the latest token of its grant into the row.
LEMMA WriteTokens ==
    ASSUME ConnectionTypeOK, ConnectionTypeOK', Work, Tokens, NEW c \in Calls, Write(c)
    PROVE  Tokens'
<1> PICK u, old, new, g : /\ u = call[c].user /\ old = row[u].secret
                          /\ new = call[c].got /\ g = new.grant
  OBVIOUS
<1> USE Constants
<1>1. /\ call[c].pc = "writing" /\ u \in Users /\ new \in Secrets /\ old \in Secrets
      /\ g \in 1..MaxGrants /\ g <= grants
  <2>1. WorkOf(c) /\ call[c] \in CallType /\ call[c].got.grant <= grants
    BY DEF Work, ConnectionTypeOK, Tokens
  <2>2. call[c].pc = "writing" /\ u \in Users /\ new \in Secrets /\ new.grant # 0
    BY <2>1 DEF Write, WorkOf, CallType, Active
  <2>3. old \in Secrets
    BY <2>2 DEF ConnectionTypeOK, Row
  <2> QED
    BY <2>1, <2>2, <2>3 DEF Secrets
<1>2. /\ UNCHANGED <<current, grants>>
      /\ row'[u].secret = new /\ \A v \in Users \ {u} : row'[v] = row[v]
      /\ old.grant # g /\ old.grant # 0 => old.grant \in excused'
      /\ excused \subseteq excused'
      /\ g \in excused' => g \in excused
  BY <1>1 DEF Write, history, ConnectionTypeOK
<1>3. call'[c] = Idle /\ Settled(c)
  BY <1>1, SettleIs DEF Write, Settled
<1>4. \A d \in Calls \ {c} : Quiet(d)
  BY <1>3, SettledQuiet
<1>5. Ageing
  <2>1. grants <= grants' /\ grants \in 0..MaxGrants
        /\ \A h \in 1..grants : current[h] <= current'[h]
    BY <1>2 DEF ConnectionTypeOK
  <2> QED
    BY <1>2, <2>1, AgeingTyped DEF Open
<1>6. \A v \in Users : Bounded(row[v].secret)'
  <2>1. ASSUME NEW v \in Users \ {u}
        PROVE  Bounded(row[v].secret)'
    <3> PICK x : x = row[v].secret
      OBVIOUS
    <3>1. Bounded(x)'
      BY <1>5, BoundedCopies
    <3> QED
      BY <3>1, <1>2 DEF Bounded
  <2>2. ASSUME Open(g)'
        PROVE  new.turn <= current'[g]
    <3>1. new = Latest(g) /\ current[g] \in Nat
      BY <1>1, <1>2, <2>2 DEF Open, Tokens, Sole, Writing, ConnectionTypeOK
    <3> QED
      BY <3>1, <1>2 DEF Latest
  <2>3. Bounded(row[u].secret)'
    BY <1>1, <1>2, <2>2 DEF Bounded
  <2> QED
    BY <2>1, <2>3
<1>7. \A d \in Calls : Bounded(call[d].secret)' /\ (call[d].got.grant <= grants)'
  BY <1>3, <1>4, <1>5, IdleWorks, BoundedCalls DEF Quiet
<1>8. ASSUME Open(g)'
      PROVE  Sole(g)' /\ Kept(g)'
  <2>1. Open(g) /\ Sole(g) /\ Writing(c, g) /\ Latest(g)' = Latest(g)
    BY <1>1, <1>2, <1>8 DEF Open, Tokens, Writing, Latest
  <2>2. new = Latest(g) /\ row'[u].secret = Latest(g)
    BY <1>2, <2>1 DEF Sole
  <2>3. Kept(g)'
    BY <1>1, <2>1, <2>2 DEF Kept, Latest
  <2>4. ASSUME NEW d \in Calls, Writing(d, g)'
        PROVE  call'[d].got = Latest(g) /\ ~(Rotating /\ current'[g] < MaxTurns)
    <3>1. d # c
      BY <1>3, <2>4, IdleWorks DEF Writing
    <3>2. Writing(d, g) /\ call'[d].got = call[d].got
      BY <1>4, <2>4, <3>1 DEF Quiet, Writing
    <3> QED
      BY <1>2, <2>1, <3>1, <3>2 DEF Sole
  <2>5. Sole(g)'
    BY <2>1, <2>4 DEF Sole
  <2> QED
    BY <2>3, <2>5
<1>9. ASSUME NEW h \in 1..MaxGrants, h # g, Open(h)'
      PROVE  Sole(h)' /\ Kept(h)'
  <2>1. /\ current'[h] = current[h] /\ current[h] # 0 /\ Sole(h) /\ Kept(h) /\ h \notin excused'
        /\ Latest(h).grant = h
    BY <1>2, <1>9 DEF Open, Tokens, Latest
  <2>2. \A d \in Calls : Writing(d, h)' <=> Writing(d, h)
    <3>1. ~Writing(c, h) /\ ~Writing(c, h)'
      BY <1>3, <1>9, IdleWorks DEF Writing
    <3>2. \A d \in Calls \ {c} : Writing(d, h)' <=> Writing(d, h)
      BY <1>4 DEF Writing, Quiet
    <3> QED
      BY <3>1, <3>2
  <2>3. \A d \in Calls : Writing(d, h) => call'[d].got = call[d].got
    <3>1. ~Writing(c, h)
      BY <1>9 DEF Writing
    <3> QED
      BY <1>4, <3>1 DEF Writing, Quiet
  <2>4. Latest(h) # NoSecret
    BY <2>1, SecretsTyped
  <2>5. \A d \in Calls : call'[d].secret = Latest(h) =>
           call[d].secret = Latest(h) \/ \E v \in Users : row[v].secret = Latest(h)
    BY <1>3, <1>4, <2>4, IdleWorks DEF Quiet
  <2>6. \A v \in Users : row'[v].secret = Latest(h) => row[v].secret = Latest(h)
    BY <1>2, <1>9, <2>1
  <2>7. \A v \in Users : row[v].secret = Latest(h) => row'[v].secret = Latest(h)
    BY <1>2, <1>9, <2>1
  <2> QED
    BY <2>1, <2>2, <2>3, <2>5, <2>6, <2>7, SameGrant
<1> QED
  BY <1>6, <1>7, <1>8, <1>9 DEF Tokens

\* A new grant: nobody has its token but the row.
LEMMA ConnectTokens ==
    ASSUME ConnectionTypeOK, ConnectionTypeOK', Work, Tokens, NEW u \in Users, Connect(u)
    PROVE  Tokens'
<1> USE Constants
<1>r. row \in [Users -> Row] /\ \A v \in Users : row[v] \in Row
  BY DEF ConnectionTypeOK
<1>q. UNCHANGED call
  BY DEF Connect
<1>1. CASE UNCHANGED <<grants, current, excused>> /\ row' = [row EXCEPT ![u].status = "CONNECTED"]
  <2>1. \A v \in Users : row'[v].secret = row[v].secret
    BY <1>1, <1>r DEF Row
  <2>2. \A g \in 1..MaxGrants, c \in Calls : Writing(c, g)' <=> Writing(c, g)
    BY <1>q DEF Writing
  <2> QED
    BY <1>1, <1>q, <2>1, <2>2, FewerTokens DEF Open
<1>2. CASE /\ grants < MaxGrants /\ MaxTurns > 0 /\ grants' = grants + 1
           /\ current' = [current EXCEPT ![grants + 1] = 1]
           /\ row' = [row EXCEPT ![u] = [status |-> "CONNECTED",
                                         secret |-> [grant |-> grants + 1, turn |-> 1]]]
           /\ excused' = excused \cup ({row[u].secret.grant} \ {0})
  <2> PICK g, new, old : /\ g = grants + 1 /\ new = [grant |-> g, turn |-> 1]
                         /\ old = row[u].secret
    OBVIOUS
  <2>1. /\ g \in 1..MaxGrants /\ g \in Nat /\ grants \in Nat /\ grants < g /\ grants' = g
        /\ current'[g] = 1
        /\ \A h \in 1..MaxGrants \ {g} : current'[h] = current[h]
        /\ \A h \in 1..MaxGrants : current[h] \in Nat
    BY <1>2 DEF ConnectionTypeOK
  <2>2. row'[u].secret = new /\ \A v \in Users \ {u} : row'[v] = row[v]
    BY <1>2, <1>r
  <2>3. excused \subseteq excused' /\ (old.grant # 0 => old.grant \in excused')
    BY <1>2
  <2>4. Ageing
    <3>1. ASSUME NEW h \in 1..grants, Open(h)'
          PROVE  Open(h) /\ current[h] <= current'[h]
      <4>1. h \in 1..MaxGrants \ {g}
        BY <2>1
      <4> QED
        BY <2>1, <2>3, <3>1, <4>1 DEF Open
    <3> QED
      BY <2>1, <3>1, AgeingTyped
  <2>5. \A v \in Users : Bounded(row[v].secret)'
    <3>1. ASSUME NEW v \in Users \ {u}
          PROVE  Bounded(row[v].secret)'
      <4> PICK x : x = row[v].secret
        OBVIOUS
      <4>1. Bounded(x)'
        BY <2>4, BoundedCopies
      <4> QED
        BY <4>1, <2>2 DEF Bounded
    <3>2. Bounded(row[u].secret)'
      BY <2>1, <2>2 DEF Bounded
    <3> QED
      BY <3>1, <3>2
  <2>6. \A d \in Calls : Bounded(call[d].secret)' /\ (call[d].got.grant <= grants)'
    BY <1>q, <2>4, BoundedCalls
  <2>7. Sole(g)' /\ Kept(g)'
    <3>1. \A c \in Calls : ~Writing(c, g)'
      BY <1>q, <2>1 DEF Writing, Tokens, ConnectionTypeOK, CallType, Secrets
    <3>2. Kept(g)'
      BY <2>1, <2>2 DEF Kept
    <3> QED
      BY <3>1, <3>2 DEF Sole
  <2>8. ASSUME NEW h \in 1..MaxGrants, h # g, Open(h)'
        PROVE  Sole(h)' /\ Kept(h)'
    <3>1. /\ current'[h] = current[h] /\ current[h] # 0 /\ Sole(h) /\ Kept(h) /\ h \notin excused'
          /\ Latest(h).grant = h
      BY <2>1, <2>3, <2>8 DEF Open, Tokens, Latest
    <3>2. \A d \in Calls : (Writing(d, h)' <=> Writing(d, h)) /\ call'[d] = call[d]
      BY <1>q DEF Writing
    <3>3. \A v \in Users : row'[v].secret = Latest(h) => row[v].secret = Latest(h)
      BY <2>2, <2>8, <3>1
    <3>4. \A v \in Users : row[v].secret = Latest(h) => row'[v].secret = Latest(h)
      BY <2>2, <2>3, <2>8, <3>1
    <3> QED
      BY <3>1, <3>2, <3>3, <3>4, SameGrant
  <2> QED
    BY <2>5, <2>6, <2>7, <2>8 DEF Tokens
<1> QED
  BY <1>1, <1>2 DEF Connect

LEMMA StepTokens ==
    ConnectionTypeOK /\ ConnectionTypeOK' /\ Work /\ Removed /\ Tokens /\ [Next]_vars => Tokens'
<1> SUFFICES ASSUME ConnectionTypeOK, ConnectionTypeOK', Work, Removed, Tokens, [Next]_vars
             PROVE  Tokens'
  OBVIOUS
<1>c. ASSUME NEW c \in Calls
      PROVE  call[c] \in CallType /\ WorkOf(c)
  BY DEF ConnectionTypeOK, Work
<1>r. row \in [Users -> Row] /\ \A u \in Users : row[u] \in Row /\ row[u].secret \in Secrets
  BY DEF ConnectionTypeOK, Row
<1>s. ASSUME NEW c \in Calls, NEW next, Move(c, next)
      PROVE  call'[c] = next /\ Settled(c) /\ \A d \in Calls \ {c} : Quiet(d)
  <2>1. call'[c] = next /\ Settled(c)
    BY <1>s, MoveIs DEF Settled
  <2> QED
    BY <2>1, SettledQuiet
<1>b. ASSUME NEW c \in Calls, NEW p, NEW u \in Users, NEW v \in Users,
             NEW pc \in {"calling", "peeked", "copying"}, NEW kind, NEW must,
             call[c].pc = "idle", call'[c] = Begun(pc, kind, p, u, v, must)
      PROVE  Quiet(c)
  <2> DEFINE b == Begun(pc, kind, p, u, v, must)
  <2>1. b.pc = pc /\ b.secret = row[v].secret /\ b.got = NoSecret
    BY BegunIs
  <2> HIDE DEF b
  <2> QED
    BY <1>b, <2>1 DEF Quiet, b
<1>f. ASSUME NEW c \in Calls, call'[c] = Idle \/ call'[c] = Failing(c)
      PROVE  /\ call'[c].pc # "writing"
             /\ call'[c].got = call[c].got \/ call'[c].got = NoSecret
             /\ call'[c].secret = call[c].secret \/ call'[c].secret = NoSecret
  BY <1>f, IdleWorks, FailingIs
\* Calls that end: who was writing has had its grant excused.
<1>e. ASSUME NEW c \in Calls, Settled(c), call'[c] = Idle \/ call'[c] = Failing(c),
             UNCHANGED <<current, grants>>, excused \subseteq excused',
             call[c].pc = "writing" => call[c].got.grant \in excused',
             \A u \in Users : \/ row'[u].secret = row[u].secret
                              \/ /\ row[u].secret = NoSecret
                                 /\ \E d \in Calls : row'[u].secret = call[d].secret
      PROVE  Tokens'
  <2>1. \A d \in Calls \ {c} : Quiet(d)
    BY <1>e, SettledQuiet
  <2>2. ASSUME NEW g \in 1..MaxGrants, Open(g)'
        PROVE  /\ Open(g) /\ current'[g] = current[g]
               /\ \A d \in Calls : Writing(d, g)' <=> Writing(d, g)
               /\ \A u \in Users : row[u].secret = Latest(g) => row'[u].secret = Latest(g)
    <3>1. Open(g) /\ current'[g] = current[g]
      BY <1>e, <2>2 DEF Open
    <3>2. ~Writing(c, g) /\ ~Writing(c, g)'
      BY <1>e, <1>f, <2>2 DEF Open, Writing
    <3>3. \A d \in Calls \ {c} : Writing(d, g)' <=> Writing(d, g)
      BY <2>1 DEF Quiet, Writing
    <3>4. Latest(g) # NoSecret
      BY <3>1, SecretsTyped DEF Latest
    <3> QED
      BY <1>e, <3>1, <3>2, <3>3, <3>4
  <2>3. ASSUME NEW d \in Calls
        PROVE  /\ call'[d].got = call[d].got \/ call'[d].got = NoSecret
               /\ call[d].pc = "writing" /\ call'[d].pc = "writing" => call'[d].got = call[d].got
               /\ call'[d].secret = call[d].secret \/ call'[d].secret = NoSecret
    <3>1. CASE d = c
      BY <1>e, <1>f, <3>1
    <3>2. CASE d # c
      <4>1. Quiet(d)
        BY <2>1, <3>2
      <4>2. call'[d].secret = call[d].secret \/ call'[d].secret = NoSecret
        BY <1>e, <3>2, IdleWorks DEF Settled
      <4> QED
        BY <4>1, <4>2 DEF Quiet
    <3> QED
      BY <3>1, <3>2
  <2>4. \A u \in Users : \/ row'[u].secret = row[u].secret
                         \/ \E d \in Calls : row'[u].secret = call[d].secret
                         \/ row'[u].secret = NoSecret
    BY <1>e
  <2> QED
    BY <1>e, <2>2, <2>3, <2>4, FewerTokens
\* Calls untouched: a grant is excused, or no longer honoured.
<1>u. ASSUME UNCHANGED <<call, grants>>, excused \subseteq excused',
             \A g \in 1..MaxGrants : Open(g)' => current'[g] = current[g] /\ current[g] # 0,
             \A u \in Users : \/ row'[u].secret = row[u].secret
                              \/ /\ row'[u].secret = NoSecret
                                 /\ row[u].secret.grant # 0 => row[u].secret.grant \in excused'
      PROVE  Tokens'
  <2>1. ASSUME NEW g \in 1..MaxGrants, Open(g)'
        PROVE  /\ Open(g) /\ current'[g] = current[g]
               /\ \A d \in Calls : Writing(d, g)' <=> Writing(d, g)
               /\ \A u \in Users : row[u].secret = Latest(g) => row'[u].secret = Latest(g)
    <3>1. Open(g) /\ current'[g] = current[g] /\ g \notin excused'
      BY <1>u, <2>1 DEF Open
    <3>2. \A d \in Calls : Writing(d, g)' <=> Writing(d, g)
      BY <1>u DEF Writing
    <3>3. Latest(g).grant = g /\ g # 0
      BY DEF Latest
    <3>4. ASSUME NEW u \in Users, row[u].secret = Latest(g)
          PROVE  row'[u].secret = Latest(g)
      BY <1>u, <3>1, <3>3, <3>4
    <3> QED
      BY <3>1, <3>2, <3>4
  <2> QED
    BY <1>u, <2>1, FewerTokens
<1>1. CASE UNCHANGED vars
  <2>1. \A d \in Calls : Quiet(d)
    BY <1>1 DEF vars, Quiet
  <2> QED
    BY <1>1, <2>1, QuietTokens DEF vars
<1>2. ASSUME NEW c \in Calls, NEW p \in Procs, NEW u \in Users, Get(c, p, u)
      PROVE  Tokens'
  <2>1. PICK v \in GetSources(u), must \in BOOLEAN :
           Move(c, Begun("calling", "get", p, u, v, must))
    BY <1>2 DEF Get
  <2>2. v \in Users /\ call[c].pc = "idle" /\ UNCHANGED <<row, current, grants, excused>>
    BY <1>2, SourcesTyped DEF Get, history
  <2>3. call'[c] = Begun("calling", "get", p, u, v, must) /\ \A d \in Calls \ {c} : Quiet(d)
    BY <2>1, <1>s
  <2>4. Quiet(c)
    BY <2>2, <2>3, <1>b
  <2> QED
    BY <2>2, <2>3, <2>4, QuietTokens
<1>3. ASSUME NEW c \in Calls, NEW p \in Procs, NEW u \in Users, Peek(c, p, u)
      PROVE  Tokens'
  <2>1. PICK v \in CredentialSources(u), expired \in BOOLEAN :
           Move(c, Begun("peeked", "credentials", p, u, v, expired))
    BY <1>3 DEF Peek
  <2>2. v \in Users /\ call[c].pc = "idle" /\ UNCHANGED <<row, current, grants, excused>>
    BY <1>3, SourcesTyped DEF Peek, history
  <2>3. call'[c] = Begun("peeked", "credentials", p, u, v, expired)
        /\ \A d \in Calls \ {c} : Quiet(d)
    BY <2>1, <1>s
  <2>4. Quiet(c)
    BY <2>2, <2>3, <1>b
  <2> QED
    BY <2>2, <2>3, <2>4, QuietTokens
<1>4. ASSUME NEW c \in Calls, NEW p \in Procs, Copy(c, p)
      PROVE  Tokens'
  <2>1. PICK v \in Others(Owner), must \in BOOLEAN :
           Move(c, Begun("copying", "copy", p, Owner, v, must))
    BY <1>4 DEF Copy
  <2>2. /\ v \in Users /\ Owner \in Users /\ call[c].pc = "idle"
        /\ UNCHANGED <<row, current, grants, excused>>
    BY <1>4, Constants DEF Copy, history, Others
  <2>3. call'[c] = Begun("copying", "copy", p, Owner, v, must)
        /\ \A d \in Calls \ {c} : Quiet(d)
    BY <2>1, <1>s
  <2>4. Quiet(c)
    BY <2>2, <2>3, <1>b
  <2> QED
    BY <2>2, <2>3, <2>4, QuietTokens
<1>5. ASSUME NEW c \in Calls, Launch(c)
      PROVE  Tokens'
  <2>0. /\ call[c].pc = "peeked" /\ call[c] \in CallType
        /\ UNCHANGED <<row, current, grants, excused>>
    BY <1>5, <1>c DEF Launch, history
  <2>1. CASE Move(c, [call[c] EXCEPT !.pc = "calling"])
    <3>1. call'[c] = [call[c] EXCEPT !.pc = "calling"] /\ \A d \in Calls \ {c} : Quiet(d)
      BY <2>1, <1>s
    <3>2. Quiet(c)
      BY <2>0, <3>1 DEF Quiet, CallType
    <3> QED
      BY <2>0, <3>1, <3>2, QuietTokens
  <2>2. ASSUME NEW e \in Calls, Move(c, [call[c] EXCEPT !.pc = "joined", !.leader = e])
        PROVE  Tokens'
    <3>1. /\ call'[c] = [call[c] EXCEPT !.pc = "joined", !.leader = e]
          /\ \A d \in Calls \ {c} : Quiet(d)
      BY <2>2, <1>s
    <3>2. Quiet(c)
      BY <2>0, <3>1 DEF Quiet, CallType
    <3> QED
      BY <2>0, <3>1, <3>2, QuietTokens
  <2> QED
    BY <1>5, <2>1, <2>2 DEF Launch, InFlight
<1>6. ASSUME NEW c \in Calls, Reject(c) \/ Outage(c)
      PROVE  Tokens'
  <2>1. /\ call[c].pc = "calling" /\ Settle(c, Failing(c))
        /\ UNCHANGED <<row, current, grants, excused>>
    BY <1>6 DEF Reject, Outage, history
  <2>2. call'[c] = Failing(c) /\ Settled(c)
    BY <2>1, SettleIs DEF Settled
  <2> QED
    BY <2>1, <2>2, <1>e
<1>7. ASSUME NEW c \in Calls, WriteFails(c)
      PROVE  Tokens'
  <2>1. /\ call[c].pc = "writing" /\ (Settle(c, Idle) \/ Settle(c, Failing(c)))
        /\ UNCHANGED <<row, current, grants>> /\ excused' = excused \cup {call[c].got.grant}
    BY <1>7 DEF WriteFails, history
  <2>2. (call'[c] = Idle \/ call'[c] = Failing(c)) /\ Settled(c)
    BY <2>1, SettleIs DEF Settled
  <2> QED
    BY <2>1, <2>2, <1>e
<1>8. ASSUME NEW c \in Calls, Fail(c) \/ FailUnrecorded(c)
      PROVE  Tokens'
  <2>1. /\ call[c].pc = "failing" /\ call[c].user \in Users /\ Move(c, Idle)
        /\ UNCHANGED <<current, grants, excused>>
    BY <1>8, <1>c DEF Fail, FailUnrecorded, history, WorkOf
  <2>2. \A u \in Users : row'[u].secret = row[u].secret
    BY <1>8, <1>r, <2>1 DEF Fail, FailUnrecorded, MarkError, Row
  <2>3. call'[c] = Idle /\ Settled(c)
    BY <2>1, <1>s
  <2> QED
    BY <2>1, <2>2, <2>3, <1>e
<1>9. ASSUME NEW c \in Calls, Create(c)
      PROVE  Tokens'
  <2>1. /\ call[c].pc = "copying" /\ Move(c, Idle)
        /\ UNCHANGED <<current, grants, excused>>
    BY <1>9 DEF Create, history
  <2>2. \A u \in Users : \/ row'[u].secret = row[u].secret
                         \/ /\ row[u].secret = NoSecret
                            /\ \E d \in Calls : row'[u].secret = call[d].secret
    BY <1>9, <1>r DEF Create, Removed
  <2>3. call'[c] = Idle /\ Settled(c)
    BY <2>1, <1>s
  <2> QED
    BY <2>1, <2>2, <2>3, <1>e
<1>10. ASSUME NEW c \in Calls, LoseAnswer(c)
       PROVE  Tokens'
  <2> PICK g : g = call[c].secret.grant
    OBVIOUS
  <2>1. /\ UNCHANGED <<row, call, grants>> /\ excused' = excused \cup {g}
        /\ \A h \in 1..MaxGrants \ {g} : current'[h] = current[h]
    <3>1. Renewed(call[c].secret).grant = g
      BY <1>c, RenewedTyped DEF CallType
    <3> QED
      BY <1>10, <3>1 DEF LoseAnswer, ConnectionTypeOK
  <2>2. \A h \in 1..MaxGrants : Open(h)' => current'[h] = current[h] /\ current[h] # 0
    BY <2>1 DEF Open
  <2> QED
    BY <2>1, <2>2, <1>u
<1>11. ASSUME NEW g \in 1..MaxGrants, Revoke(g)
       PROVE  Tokens'
  <2>1. /\ UNCHANGED <<row, call, grants, excused>>
        /\ current'[g] = 0 /\ \A h \in 1..MaxGrants \ {g} : current'[h] = current[h]
    BY <1>11 DEF Revoke, ConnectionTypeOK
  <2>2. \A h \in 1..MaxGrants : Open(h)' => current'[h] = current[h] /\ current[h] # 0
    BY <2>1 DEF Open
  <2> QED
    BY <2>1, <2>2, <1>u
<1>12. ASSUME NEW u \in Users, NEW status \in {"DISCONNECTED", "ERROR"}, Remove(u, status)
       PROVE  Tokens'
  <2>1. /\ UNCHANGED <<call, current, grants>>
        /\ excused' = excused \cup ({row[u].secret.grant} \ {0})
        /\ row'[u].secret = NoSecret /\ \A v \in Users \ {u} : row'[v] = row[v]
    BY <1>12, <1>r DEF Remove
  <2>2. \A h \in 1..MaxGrants : Open(h)' => current'[h] = current[h] /\ current[h] # 0
    BY <2>1 DEF Open
  <2> QED
    BY <2>1, <2>2, <1>u
<1>13. ASSUME NEW u \in Users, NEW status \in {"CONNECTED", "ERROR"}, Report(u, status)
       PROVE  Tokens'
  <2>1. /\ UNCHANGED <<call, current, grants, excused>>
        /\ \A v \in Users : row'[v].secret = row[v].secret
    BY <1>13, <1>r DEF Report, Row
  <2>2. \A h \in 1..MaxGrants : Open(h)' => current'[h] = current[h] /\ current[h] # 0
    BY <2>1 DEF Open
  <2> QED
    BY <2>1, <2>2, <1>u
<1>14. ASSUME NEW p \in Procs, Crash(p)
       PROVE  Tokens'
  <2> PICK dead : dead = {c \in Calls : call[c].proc = p}
    OBVIOUS
  <2>1. /\ UNCHANGED <<row, current, grants>> /\ excused' = excused \cup InHand(dead)
        /\ \A c \in Calls : call'[c] = IF c \in dead THEN Idle ELSE call[c]
    BY <1>14 DEF Crash, history
  <2>2. ASSUME NEW g \in 1..MaxGrants, Open(g)'
        PROVE  /\ Open(g) /\ current'[g] = current[g]
               /\ \A d \in Calls : Writing(d, g)' <=> Writing(d, g)
    <3>1. Open(g) /\ current'[g] = current[g] /\ g \notin InHand(dead)
      BY <2>1, <2>2 DEF Open
    <3>2. \A d \in dead : ~Writing(d, g) /\ ~Writing(d, g)'
      BY <2>1, <3>1, IdleWorks DEF InHand, Writing
    <3>3. \A d \in Calls \ dead : Writing(d, g)' <=> Writing(d, g)
      BY <2>1 DEF Writing
    <3> QED
      BY <3>1, <3>2, <3>3
  <2>3. ASSUME NEW d \in Calls
        PROVE  /\ call'[d].got = call[d].got \/ call'[d].got = NoSecret
               /\ call[d].pc = "writing" /\ call'[d].pc = "writing" => call'[d].got = call[d].got
               /\ call'[d].secret = call[d].secret \/ call'[d].secret = NoSecret
    <3>1. call'[d] = Idle \/ call'[d] = call[d]
      BY <2>1
    <3> QED
      BY <3>1, IdleWorks
  <2> QED
    BY <2>1, <2>2, <2>3, FewerTokens
<1> QED
  BY <1>1, <1>2, <1>3, <1>4, <1>5, <1>6, <1>7, <1>8, <1>9, <1>10, <1>11, <1>12, <1>13,
     <1>14, AcceptTokens, WriteTokens, ConnectTokens DEF Next, CallStep, FaultStep

-----------------------------------------------------------------------------
(* Theorems *)

\* Rows, calls and history have their types in every state.
THEOREM ConnectionTyped == Spec => []ConnectionTypeOK
<1>1. Init => ConnectionTypeOK /\ Work
  BY InitTypes, InitWork
<1>2. ConnectionTypeOK /\ Work /\ [Next]_vars => (ConnectionTypeOK /\ Work)'
  BY StepTypes, StepWork
<1> QED
  BY <1>1, <1>2, PTL DEF Spec

\* What holds in every state: types, calls, removals and tokens together.
THEOREM ConnectionInvariant == Spec => []ConnectionInv
<1>1. Init => ConnectionInv
  BY InitTypes, InitWork, InitRemoved, InitTokens DEF ConnectionInv
<1>2. ConnectionInv /\ [Next]_vars => ConnectionInv'
  BY StepTypes, StepWork, StepRemoved, StepTokens DEF ConnectionInv
<1> QED
  BY <1>1, <1>2, PTL DEF Spec

\* Whatever the calls, processes and writers do, the token the provider accepts is not
\* lost but for the reasons that excuse it.
THEOREM TokensStay == Spec => []TokensKept
<1>1. ConnectionInv => TokensKept
  BY DEF ConnectionInv, Tokens, TokensKept, Open
<1> QED
  BY <1>1, ConnectionInvariant, PTL

\* A disconnect holds, unless a call under way or the owner's fallback undoes it.
THEOREM DisconnectStays == Spec => []DisconnectHolds
<1>1. ConnectionInv => DisconnectHolds
  BY DEF ConnectionInv, Removed
<1> QED
  BY <1>1, ConnectionInvariant, PTL

=============================================================================
