---------------------------- MODULE ProviderSync ----------------------------
(***************************************************************************)
(* One provider's metrics rule and the raw records it brings in:           *)
(* runProviderMetricsRule (provider-metrics-sync.ts), the ingestion it     *)
(* calls (ingestion.ts), and who starts it: the sync cycles through        *)
(* runRules (orchestrator.ts) and the provider's own sync routes, which    *)
(* take no lock.                                                           *)
(*                                                                         *)
(* Time is counted in days.  A run asks for a range of days; the records   *)
(* of a day are complete in an answer given after that day is over.  The   *)
(* rule's checkpoint says through which day the provider is covered, and   *)
(* the next incremental range starts from it.                              *)
(***************************************************************************)
EXTENDS Integers, FiniteSets

CONSTANTS
    Cycles,      \* processes that run sync cycles
    Requests,    \* requests to the sync routes
    Window,      \* days of the historical window (13 months)
    Overflow,    \* days by which its start comes late, by the day it is computed
    Rolling,     \* days of the rule's range preset
    FirstDay,    \* the day on which the provider is connected
    LastDay,     \* bound: the last day of the clock
    MaxFaults,   \* bound: failed fetches and writes, crashes
    MaxOrders    \* bound: dry runs, backfills and patches

ASSUME ProviderAssumption ==
    /\ {Window, Rolling, FirstDay, LastDay, MaxFaults, MaxOrders} \subseteq Nat
    /\ FirstDay > Window /\ LastDay >= FirstDay
    /\ Rolling > 0
    /\ Overflow \in [FirstDay..LastDay -> Nat]

VARIABLES
    today,
    rule,      \* the IntegrationRule: absent, or enabled or not
    covered,   \* the `to` of its checkpoint, NoDay if there is none
    stored,    \* stored[d]: how much of day d the raw records hold
    run,       \* run[p]: where p's run of the rule stands
    lost,      \* days that are not stored in full, and why: see each action
    faults,
    orders

vars == <<today, rule, covered, stored, run, lost, faults, orders>>

NoDay == 0
Days == 1..LastDay
Procs == Cycles \cup Requests
Parts == {"none", "part", "whole"}

RunType ==
    [pc : {"idle", "fetching", "fetched", "ingesting", "recording"}, dry : BOOLEAN,
     from : Nat, to : Nat, covered : Nat, asOf : Nat,
     same : SUBSET Days, todo : SUBSET Days, accepted : BOOLEAN, failed : BOOLEAN]

Idle == [pc |-> "idle", dry |-> FALSE, from |-> 0, to |-> 0, covered |-> NoDay,
         asOf |-> 0, same |-> {}, todo |-> {}, accepted |-> FALSE, failed |-> FALSE]

Init ==
    /\ today = FirstDay
    /\ rule = "absent" /\ covered = NoDay
    /\ stored = [d \in Days |-> "none"]
    /\ run = [p \in Procs |-> Idle]
    /\ lost = {} /\ faults = 0 /\ orders = 0

Fault == faults < MaxFaults /\ faults' = faults + 1
Order == orders < MaxOrders /\ orders' = orders + 1

Move(p, next) == run' = [run EXCEPT ![p] = next]

-----------------------------------------------------------------------------
(* The rule *)

\* A sync cycle creates the missing rule of a connected provider, enabled; a request
\* creates it disabled.
Bootstrap ==
    /\ rule = "absent"
    /\ rule' = "enabled"
    /\ UNCHANGED <<today, covered, stored, run, lost, faults, orders>>

GetOrCreate ==
    /\ rule = "absent" /\ Requests # {}
    /\ rule' = "disabled"
    /\ UNCHANGED <<today, covered, stored, run, lost, faults, orders>>

Patch ==
    /\ rule # "absent"
    /\ \E enabled \in {"enabled", "disabled"} \ {rule} : rule' = enabled
    /\ Order
    /\ UNCHANGED <<today, covered, stored, run, lost, faults>>

-----------------------------------------------------------------------------
(* The range of days *)

\* Mutant of HistoricalStart: the window is subtracted twice.
HistoricalStartTwice(now) == now - 2 * Window + Overflow[now]

\* setUTCMonth(month - 13) keeps the day of the month, and one that the month does not
\* have runs over into the next: March 31 gives March 3, April 1 gives March 1.
\* So the start may move back from one day to the next.
HistoricalStart(now) == now - Window + Overflow[now]

\* The day has been in the window on every day since the provider was connected.
InWindow(d) == \A t \in FirstDay..today : HistoricalStart(t) <= d

RollingFrom(now) == now - (Rolling - 1)

\* Mutant of IncrementalFrom: the covered day itself is taken to be complete.
IncrementalFromNext(now, through) ==
    LET catchUp == IF through < RollingFrom(now) THEN through + 1 ELSE RollingFrom(now)
    IN IF catchUp < HistoricalStart(now) THEN HistoricalStart(now) ELSE catchUp

\* The rolling range, from the covered day if that is earlier, but never from
\* before the historical window.
IncrementalFrom(now, through) ==
    LET catchUp == IF through < RollingFrom(now) THEN through ELSE RollingFrom(now)
    IN IF catchUp < HistoricalStart(now) THEN HistoricalStart(now) ELSE catchUp

\* Mutant of RangeFrom: only a run that asks for it is a backfill.
RangeFromAsked(now, through, backfill) ==
    IF backfill THEN HistoricalStart(now)
    ELSE IncrementalFrom(now, IF through = NoDay THEN now ELSE through)

\* Without coverage every run is a backfill.
RangeFrom(now, through, backfill) ==
    IF backfill \/ through = NoDay THEN HistoricalStart(now)
    ELSE IncrementalFrom(now, through)

\* A run of an enabled rule reads it and asks for its range.
Begin(p, dry, backfill) ==
    /\ run[p].pc = "idle" /\ rule = "enabled"
    /\ Move(p, [Idle EXCEPT !.pc = "fetching", !.dry = dry,
                            !.from = RangeFrom(today, covered, backfill),
                            !.to = today, !.covered = covered])

\* The cycles ask for an incremental run, a request for what its body says.
Cycle(p) ==
    /\ Begin(p, FALSE, FALSE)
    /\ UNCHANGED <<today, rule, covered, stored, lost, faults, orders>>

Request(p) ==
    /\ \E dry, backfill \in BOOLEAN : Begin(p, dry, backfill)
    /\ Order
    /\ UNCHANGED <<today, rule, covered, stored, lost, faults>>

-----------------------------------------------------------------------------
(* Fetch and ingestion *)

\* What an answer given on day asOf holds of day d.
Seen(d, asOf) == IF d < asOf THEN "whole" ELSE "part"

\* The answer is complete for the range; a dry run keeps nothing of it.
Fetch(p) ==
    /\ run[p].pc = "fetching"
    /\ Move(p, [run[p] EXCEPT !.pc = IF run[p].dry THEN "recording" ELSE "fetched",
                              !.asOf = today])
    /\ UNCHANGED <<today, rule, covered, stored, lost, faults, orders>>

\* The last of three attempts fails, the payload has a gap, or the sync run cannot be
\* created: the error is recorded, the checkpoint is not touched.
RunFails(p) ==
    /\ run[p].pc \in {"fetching", "fetched"}
    /\ Fault
    /\ Move(p, Idle)
    /\ UNCHANGED <<today, rule, covered, stored, lost, orders>>

\* The stored hashes are read once, before the first write; if that read fails,
\* nothing is taken to be unchanged.
Prefetch(p) ==
    /\ run[p].pc = "fetched"
    /\ LET range == {d \in Days : run[p].from <= d /\ d <= run[p].to}
           unchanged == {d \in range : stored[d] = Seen(d, run[p].asOf)}
       IN \E same \in {unchanged, {}} :
             Move(p, [run[p] EXCEPT !.pc = "ingesting", !.todo = range, !.same = same])
    /\ UNCHANGED <<today, rule, covered, stored, lost, faults, orders>>

\* The records are taken one by one, oldest first.
Upcoming(p, d) ==
    /\ run[p].pc = "ingesting"
    /\ d \in run[p].todo /\ \A e \in run[p].todo : d <= e

\* A record whose hash was the stored one is accepted without a write.
Skip(p, d) ==
    /\ Upcoming(p, d) /\ d \in run[p].same
    /\ Move(p, [run[p] EXCEPT !.todo = run[p].todo \ {d}, !.accepted = TRUE])
    /\ UNCHANGED <<today, rule, covered, stored, lost, faults, orders>>

\* The others are written over whatever is stored.  An older answer may come last:
\* then the day is lost again.
Upsert(p, d) ==
    /\ Upcoming(p, d) /\ d \notin run[p].same
    /\ stored' = [stored EXCEPT ![d] = Seen(d, run[p].asOf)]
    /\ lost' = IF Seen(d, run[p].asOf) = "whole" THEN lost \ {d}
               ELSE IF stored[d] = "whole" THEN lost \cup {d}
               ELSE lost
    /\ Move(p, [run[p] EXCEPT !.todo = run[p].todo \ {d}, !.accepted = TRUE])
    /\ UNCHANGED <<today, rule, covered, faults, orders>>

\* A record that cannot be written is counted and left.
UpsertFails(p, d) ==
    /\ Upcoming(p, d) /\ d \notin run[p].same
    /\ Fault
    /\ Move(p, [run[p] EXCEPT !.todo = run[p].todo \ {d}, !.failed = TRUE])
    /\ UNCHANGED <<today, rule, covered, stored, lost, orders>>

\* SUCCESS and PARTIAL go on to record the run, ERROR ends it.
Conclude(p) ==
    /\ run[p].pc = "ingesting" /\ run[p].todo = {}
    /\ Move(p, IF run[p].failed /\ ~run[p].accepted THEN Idle
               ELSE [run[p] EXCEPT !.pc = "recording"])
    /\ UNCHANGED <<today, rule, covered, stored, lost, faults, orders>>

-----------------------------------------------------------------------------
(* The checkpoint *)

\* The days of the window that are still to be asked for.
Missing(through) ==
    {d \in Days : InWindow(d) /\ d < through /\ stored[d] # "whole"}

\* A PARTIAL run writes back the checkpoint it read, the others its own end.  A dry
\* run moves it, too, though it has stored nothing.
Record(p) ==
    /\ run[p].pc = "recording"
    /\ covered' = IF run[p].failed THEN run[p].covered ELSE run[p].to
    /\ lost' = IF run[p].dry THEN lost \cup Missing(run[p].to) ELSE lost
    /\ Move(p, Idle)
    /\ UNCHANGED <<today, rule, stored, faults, orders>>

\* The snapshot or the rule cannot be written, or the process dies: the checkpoint
\* stays behind what was stored.
Unrecorded(p) ==
    /\ run[p].pc # "idle"
    /\ Fault
    /\ Move(p, Idle)
    /\ UNCHANGED <<today, rule, covered, stored, lost, orders>>

Midnight ==
    /\ today < LastDay
    /\ today' = today + 1
    /\ UNCHANGED <<rule, covered, stored, run, lost, faults, orders>>

RunStep(p) ==
    \/ Fetch(p) \/ Prefetch(p) \/ Conclude(p) \/ Record(p)
    \/ \E d \in run[p].todo : Skip(p, d) \/ Upsert(p, d)

FaultStep(p) ==
    \/ RunFails(p) \/ Unrecorded(p)
    \/ \E d \in run[p].todo : UpsertFails(p, d)

Next ==
    \/ Bootstrap \/ GetOrCreate \/ Patch \/ Midnight
    \/ \E p \in Cycles : Cycle(p)
    \/ \E p \in Requests : Request(p)
    \/ \E p \in Procs : RunStep(p) \/ FaultStep(p)

\* Sync cycles go on, and a run that has begun goes on until it ends or its process
\* dies.
Fairness ==
    /\ WF_vars(Bootstrap)
    /\ \A p \in Cycles : WF_vars(Cycle(p))
    /\ \A p \in Procs : WF_vars(RunStep(p))

Spec == Init /\ [][Next]_vars /\ Fairness

-----------------------------------------------------------------------------
(* Properties *)

\* The types of the rule, the records and the runs.
ProviderTypeOK ==
    /\ today \in Days
    /\ rule \in {"absent", "disabled", "enabled"}
    /\ covered \in Nat
    /\ stored \in [Days -> Parts]
    /\ run \in [Procs -> RunType]
    /\ lost \subseteq Days
    /\ faults \in Nat /\ orders \in Nat

\* The checkpoint is true: the days before it that have never been outside the window
\* are stored in full, but for those that a dry run claimed or an older answer has
\* overwritten.  Failed and partial runs, lags, runs side by side and stale copies
\* of the checkpoint leave no hole behind it
\* (provider-metrics-sync.ts:894-897, 1373-1383).
CheckpointIsTrue ==
    \A d \in Days :
       InWindow(d) /\ d < covered => stored[d] = "whole" \/ d \in lost

\* A day that is over is stored in full in the end, whatever lag there was, unless
\* it has been outside the window, has been lost, or the rule is switched off.
LagIsRepaired ==
    \A d \in Days :
       d < today ~> \/ stored[d] = "whole" \/ d \in lost
                    \/ ~InWindow(d) \/ rule = "disabled"
=============================================================================
