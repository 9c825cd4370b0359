----------------------------- MODULE Retention -----------------------------
(***************************************************************************)
(* Everything that deletes Imladris rows, beside everything that writes    *)
(* them: ingestion of raw records (ingestion.ts), materialization of one   *)
(* metric with its lineage (materialization.ts), the two pruners at the    *)
(* end of an analytics sync (lineage-retention.ts,                         *)
(* metric-value-retention.ts) and the daily pruning of the database        *)
(* (db-pruning/prune.ts).  None of them takes a lock of another.           *)
(*                                                                         *)
(* Every delete is one statement, DELETE ... WHERE id IN (SELECT ...): it  *)
(* selects in a snapshot and does not look at the condition again when it  *)
(* deletes, so each is two steps here.  A pass counts ages from the time   *)
(* it began, which selects no more than counting from now would; batches   *)
(* are any part of what now allows, in any order of the tables.            *)
(***************************************************************************)
EXTENDS Integers, FiniteSets

CONSTANTS
    Records,        \* raw source records, by their external ids
    Standing,       \* those of a standing finance type, which are read at any age
    Ingestors,      \* processes that ingest
    Jobs,           \* analytics syncs and materialization workers
    Passes,         \* analytics syncs in their pruning part
    PerDay,         \* ticks in a day
    Window,         \* ticks that a materialization looks back
    Span,           \* ticks that an ingestion or a materialization lasts at most
    RawFloor,       \* the least age of a deleted record, in ticks
    RawConfigured,  \* the age asked for in the environment
    RunFloor,       \* the same for sync runs
    RunConfigured,
    LineageKept,    \* age of a superseded value whose lineage is deleted, in ticks
    ValueKept,      \* age of a value that is thinned out, in ticks
    Ages,           \* bound: how old a record is at its source when it comes in
    LastTick,       \* bound: end of the clock
    MaxValues,      \* bound: values materialized
    MaxRuns         \* bound: sync runs

ASSUME RetentionAssumption ==
    /\ Standing \subseteq Records /\ "null" \notin Records
    /\ {PerDay, Window, Span, RawFloor, RawConfigured, RunFloor, RunConfigured,
        LineageKept, ValueKept, LastTick, MaxValues, MaxRuns} \subseteq Nat
    /\ Ages \subseteq Nat
    /\ RawFloor >= Window + Span     \* 410 days, 13 months and a week
    /\ RunFloor >= Span              \* 30 days
    /\ ValueKept >= Span             \* 14 days, configurable
    /\ PerDay > 0

VARIABLES
    now,
    row,         \* row[r]: the raw record r
    runs,        \* sync runs, each named by who began it and when
    values,      \* the metric's values, each named by its time
    lineage,     \* lineage[v]: the records its lineage rows name
    ing,         \* ing[p]: the ingestion under way in p
    job,         \* job[j]: the materialization under way in j
    pass,        \* pass[q]: the values that the delete under way in q has selected
    prune,       \* the records and sync runs that a delete of db-prune has selected
    raced        \* of these records, those written since

vars == <<now, row, runs, values, lineage, ing, job, pass, prune, raced>>

Ticks == 0..LastTick
Runs == Ingestors \X Ticks

NoRow == [stamp |-> 0, touched |-> 0, run |-> <<>>]
Row == [stamp : Ticks, touched : Ticks, run : Runs]
Null == "null"              \* what SET NULL leaves of a record in a lineage row
Stored == {r \in Records : row[r] # NoRow}

JobStates == {"idle", "read", "valued", "cleared"}

NoIngestion == [now |-> 0, todo |-> {}]
NoJob == [pc |-> "idle", now |-> 0, read |-> {}]
NoPass == [drain |-> {}, thin |-> {}]
NoPrune == [records |-> {}, runs |-> {}]

Init ==
    /\ now = 0
    /\ row = [r \in Records |-> NoRow]
    /\ runs = {} /\ values = {}
    /\ lineage = [v \in Ticks |-> {}]
    /\ ing = [p \in Ingestors |-> NoIngestion]
    /\ job = [j \in Jobs |-> NoJob]
    /\ pass = [q \in Passes |-> NoPass]
    /\ prune = NoPrune /\ raced = {}

Day(t) == t \div PerDay

ingVars == <<runs, ing>>
valueVars == <<values, lineage>>
pruneVars == <<prune, raced>>

-----------------------------------------------------------------------------
(* Ingestion *)

\* The sync run is created, and the stored hashes of the records that came in are
\* read.  Records that are stored as they came in are skipped: nothing of them is
\* written, however long ago they were.  The rest is left to do.
BeginIngestion(p) ==
    /\ ing[p].todo = {} /\ <<p, now>> \notin runs
    /\ Cardinality(runs) < MaxRuns
    /\ runs' = runs \cup {<<p, now>>}
    /\ \E todo \in SUBSET Records : ing' = [ing EXCEPT ![p] = [now |-> now, todo |-> todo]]
    /\ UNCHANGED <<now, row, valueVars, job, pass, pruneVars>>

\* A record is created or overwritten and moves to this run, if the run is there.
UpsertRecord(p, r) ==
    /\ r \in ing[p].todo /\ <<p, ing[p].now>> \in runs
    /\ \E age \in Ages :
          /\ age <= ing[p].now
          /\ row' = [row EXCEPT ![r] = [stamp |-> ing[p].now - age, touched |-> now,
                                        run |-> <<p, ing[p].now>>]]
    /\ raced' = raced \cup (prune.records \cap {r})
    /\ ing' = [ing EXCEPT ![p].todo = @ \ {r}]
    /\ UNCHANGED <<now, runs, valueVars, job, pass, prune>>

\* The others fail one by one, are capped, or the process dies.
EndIngestion(p) ==
    /\ ing[p].todo # {}
    /\ ing' = [ing EXCEPT ![p].todo = {}]
    /\ UNCHANGED <<now, row, runs, valueVars, job, pass, pruneVars>>

-----------------------------------------------------------------------------
(* Materialization *)

MoveJob(j, next) == job' = [job EXCEPT ![j] = next]

\* Records of the window and standing ones of any age.  Which of them count is up to
\* the calculator and its limits.
Readable(t) == {r \in Stored : r \in Standing \/ row[r].stamp >= t - Window}

\* t is the time of the job: an analytics sync takes it before it refreshes the
\* providers.
ReadRecords(j, t) ==
    /\ job[j].pc = "idle"
    /\ t <= now /\ now <= t + Span
    /\ \E read \in SUBSET Readable(t) :
          MoveJob(j, [pc |-> "read", now |-> t, read |-> read])
    /\ UNCHANGED <<now, row, ingVars, valueVars, pass, pruneVars>>

\* The value is created, or written over if it is there.
UpsertValue(j) ==
    /\ job[j].pc = "read"
    /\ job[j].now \in values \/ Cardinality(values) < MaxValues
    /\ values' = values \cup {job[j].now}
    /\ MoveJob(j, [job[j] EXCEPT !.pc = "valued"])
    /\ UNCHANGED <<now, row, ingVars, lineage, pass, pruneVars>>

\* The lineage it had is deleted.
ClearLineage(j) ==
    /\ job[j].pc = "valued"
    /\ lineage' = [lineage EXCEPT ![job[j].now] = {}]
    /\ MoveJob(j, [job[j] EXCEPT !.pc = "cleared"])
    /\ UNCHANGED <<now, row, ingVars, values, pass, pruneVars>>

\* One statement with two foreign keys: all rows or, when a record or the value is
\* gone, none and the job fails.
WriteLineage(j) ==
    /\ job[j].pc = "cleared"
    /\ job[j].now \in values /\ job[j].read \subseteq Stored
    /\ lineage' = [lineage EXCEPT ![job[j].now] = @ \cup job[j].read]
    /\ MoveJob(j, NoJob)
    /\ UNCHANGED <<now, row, ingVars, values, pass, pruneVars>>

\* A failure is caught wherever it happens; or the process dies.
EndJob(j) ==
    /\ job[j].pc # "idle"
    /\ MoveJob(j, NoJob)
    /\ UNCHANGED <<now, row, ingVars, valueVars, pass, pruneVars>>

-----------------------------------------------------------------------------
(* The pruners of an analytics sync *)

\* Mutant of Superseded: a value is superseded by its age alone.
SupersededByAge == {v \in values : v < now - LineageKept /\ lineage[v] # {}}

\* Values past their time, but for the latest that readers see.
Superseded ==
    {v \in values : /\ v < now - LineageKept /\ lineage[v] # {}
                    /\ \E w \in values : v < w}

SelectLineage(q) ==
    /\ pass[q] = NoPass
    /\ \E chosen \in SUBSET Superseded \ {{}} :
          pass' = [pass EXCEPT ![q] = [drain |-> chosen, thin |-> {}]]
    /\ UNCHANGED <<now, row, ingVars, valueVars, job, pruneVars>>

\* A batch is so many lineage rows, not those of whole values.
DeleteLineage(q) ==
    /\ pass[q].drain # {}
    /\ \E left \in SUBSET (Records \cup {Null}) :
          lineage' = [v \in Ticks |-> IF v \in pass[q].drain THEN lineage[v] \cap left
                                      ELSE lineage[v]]
    /\ pass' = [pass EXCEPT ![q] = NoPass]
    /\ UNCHANGED <<now, row, ingVars, values, job, pruneVars>>

\* Mutant of Surplus: only the latest value of all is a keeper.
SurplusButLatest ==
    {v \in values : /\ v < now - ValueKept /\ lineage[v] = {}
                    /\ \E w \in values : v < w}

\* Values past their time, without lineage, that are not the last of their day.
Surplus ==
    {v \in values : /\ v < now - ValueKept /\ lineage[v] = {}
                    /\ \E w \in values : v < w /\ Day(w) = Day(v)}

SelectValues(q) ==
    /\ pass[q] = NoPass
    /\ \E chosen \in SUBSET Surplus \ {{}} :
          pass' = [pass EXCEPT ![q] = [drain |-> {}, thin |-> chosen]]
    /\ UNCHANGED <<now, row, ingVars, valueVars, job, pruneVars>>

\* Lineage written since goes with its value (ON DELETE CASCADE).
DeleteValues(q) ==
    /\ pass[q].thin # {}
    /\ values' = values \ pass[q].thin
    /\ lineage' = [v \in Ticks |-> IF v \in pass[q].thin THEN {} ELSE lineage[v]]
    /\ pass' = [pass EXCEPT ![q] = NoPass]
    /\ UNCHANGED <<now, row, ingVars, job, pruneVars>>

\* The delete fails, which is caught and ends the pass, or the process dies.
PassFails(q) ==
    /\ pass[q] # NoPass
    /\ pass' = [pass EXCEPT ![q] = NoPass]
    /\ UNCHANGED <<now, row, ingVars, valueVars, job, pruneVars>>

-----------------------------------------------------------------------------
(* The daily pruning of the database *)

\* Mutant of Clamped: the environment is taken at its word.
ClampedNot(floor, configured) == configured

Clamped(floor, configured) == IF configured < floor THEN floor ELSE configured

Named == UNION {lineage[v] : v \in Ticks}

\* Every time on the row is at most that of its last write.
PrunableRecords ==
    {r \in Stored \ Standing :
        row[r].touched < now - Clamped(RawFloor, RawConfigured) /\ r \notin Named}

PrunableRuns ==
    {i \in runs : /\ i[2] < now - Clamped(RunFloor, RunConfigured)
                  /\ \A r \in Stored : row[r].run # i}

\* The batches of all tables follow one another.
SelectRecords ==
    /\ prune = NoPrune
    /\ \E chosen \in SUBSET PrunableRecords \ {{}} :
          prune' = [records |-> chosen, runs |-> {}]
    /\ UNCHANGED <<now, row, ingVars, valueVars, job, pass, raced>>

SelectRuns ==
    /\ prune = NoPrune
    /\ \E chosen \in SUBSET PrunableRuns \ {{}} :
          prune' = [records |-> {}, runs |-> chosen]
    /\ UNCHANGED <<now, row, ingVars, valueVars, job, pass, raced>>

\* Mutant of Nulled: the foreign key has no rule for deletion.
NulledNot(named, gone) == named

\* Lineage rows lose the name of a deleted record (ON DELETE SET NULL).
Nulled(named, gone) == IF named \cap gone = {} THEN named ELSE (named \ gone) \cup {Null}

\* Records go by themselves or with their sync run (ON DELETE CASCADE).
DeleteSelected ==
    /\ prune # NoPrune
    /\ LET gone == prune.records \cup {r \in Stored : row[r].run \in prune.runs}
       IN /\ row' = [r \in Records |-> IF r \in gone THEN NoRow ELSE row[r]]
          /\ lineage' = [v \in Ticks |-> Nulled(lineage[v], gone)]
    /\ runs' = runs \ prune.runs
    /\ prune' = NoPrune /\ raced' = {}
    /\ UNCHANGED <<now, ing, values, job, pass>>

\* The delete fails, which is caught and leads to the next table, or the process dies.
DeleteFails ==
    /\ prune # NoPrune
    /\ prune' = NoPrune /\ raced' = {}
    /\ UNCHANGED <<now, row, ingVars, valueVars, job, pass>>

-----------------------------------------------------------------------------
\* No ingestion and no materialization lasts longer than Span.
Tick ==
    /\ now < LastTick
    /\ \A p \in Ingestors : ing[p].todo # {} => now < ing[p].now + Span
    /\ \A j \in Jobs : job[j].pc # "idle" => now < job[j].now + Span
    /\ now' = now + 1
    /\ UNCHANGED <<row, ingVars, valueVars, job, pass, pruneVars>>

IngestionStep(p) ==
    \/ BeginIngestion(p) \/ EndIngestion(p)
    \/ \E r \in Records : UpsertRecord(p, r)

JobStep(j) ==
    \/ \E t \in Ticks : ReadRecords(j, t)
    \/ UpsertValue(j) \/ ClearLineage(j) \/ WriteLineage(j) \/ EndJob(j)

PassStep(q) ==
    \/ SelectLineage(q) \/ DeleteLineage(q) \/ SelectValues(q) \/ DeleteValues(q)
    \/ PassFails(q)

PruneStep == SelectRecords \/ SelectRuns \/ DeleteSelected \/ DeleteFails

Next ==
    \/ \E p \in Ingestors : IngestionStep(p)
    \/ \E j \in Jobs : JobStep(j)
    \/ \E q \in Passes : PassStep(q)
    \/ PruneStep
    \/ Tick

Spec == Init /\ [][Next]_vars

-----------------------------------------------------------------------------
(* Properties *)

\* The types of the rows and of what is under way, and the references between them:
\* a record's run is there, lineage belongs to a value that is there and names records
\* that are there, whatever is deleted beside its writers (schema.prisma:2440-2507).
RetentionTypeOK ==
    /\ now \in Ticks
    /\ row \in [Records -> Row \cup {NoRow}]
    /\ runs \subseteq Runs
    /\ values \subseteq Ticks
    /\ lineage \in [Ticks -> SUBSET (Records \cup {Null})]
    /\ \A r \in Stored : row[r].run \in runs
    /\ \A v \in Ticks \ values : lineage[v] = {}
    /\ Named \subseteq Stored \cup {Null}
    /\ ing \in [Ingestors -> [now : Ticks, todo : SUBSET Records]]
    /\ job \in [Jobs -> [pc : JobStates, now : Ticks, read : SUBSET Records]]
    /\ pass \in [Passes -> [drain : SUBSET Ticks, thin : SUBSET Ticks]]
    /\ prune \in [records : SUBSET Records, runs : SUBSET Runs]
    /\ raced \subseteq prune.records

\* A record goes, by itself or with its sync run, only when nothing can use it any
\* more: it is not a standing one, it is older than what any job may read, no lineage
\* names it and no job is about to.  The margins keep that true though nothing is
\* checked again between selection and deletion; the exception is a record that is
\* written just then (prune.ts:10-22, policy.ts:6-10).
NothingUsedIsDeleted ==
    [][\A r \in Stored :
          row'[r] = NoRow =>
             \/ r \in raced
             \/ /\ r \notin Standing
                /\ row[r].stamp < now - Window
                /\ r \notin Named
                /\ \A j \in Jobs : r \notin job[j].read]_vars

Latest == {v \in values : \A w \in values : w <= v}

\* The value that readers are shown keeps the lineage it was written with, for
\* whatever time nothing newer is materialized, but for a record that was deleted
\* while it was written (lineage-retention.ts:21-25).
LatestIsExplained ==
    [][\A v \in Latest :
          \/ lineage[v] \subseteq lineage'[v] \cup raced
          \/ \E j \in Jobs : job[j].pc = "valued" /\ job[j].now = v]_vars

\* A value goes only when a later one of its day stays, whatever passes run side by
\* side: each day keeps the last value it had.  It takes no lineage with it, though
\* materialization writes in three steps (metric-value-retention.ts:14-16,
\* 28-31).
EndOfDayKept ==
    [][\A v \in values \ values' :
          /\ lineage[v] = {}
          /\ \E w \in values' : v < w /\ Day(w) = Day(v)]_vars
=============================================================================
