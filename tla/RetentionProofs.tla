--------------------------- MODULE RetentionProofs ---------------------------
(***************************************************************************)
(* What Retention promises, for any records, processes, ages and length of *)
(* time.  Three groups of facts about what is under way carry the proofs:  *)
(* how old a selected record is and how young a job (Margins), what a      *)
(* pruner has selected (Selected, Bare), and that something later stays    *)
(* for every selected value (Chained).                                     *)
(***************************************************************************)
EXTENDS Retention, TLAPS

\* Who is at work is young, and what it read was written after its window began.
Margins ==
    /\ \A p \in Ingestors : /\ ing[p].now <= now
                            /\ ing[p].todo # {} => now <= ing[p].now + Span
    /\ \A j \in Jobs : /\ job[j].pc = "idle" => job[j].read = {}
                       /\ job[j].now <= now
                       /\ job[j].pc # "idle" => now <= job[j].now + Span
    /\ \A r \in Stored : row[r].stamp <= row[r].touched /\ row[r].touched <= now
    /\ \A j \in Jobs : \A r \in job[j].read \cap Stored :
          r \in Standing \/ row[r].touched >= job[j].now - Window

\* A selected record that nobody wrote since is old and unnamed; a selected run is
\* old and empty.
Selected ==
    /\ \A r \in (prune.records \cap Stored) \ raced :
          r \notin Standing /\ row[r].touched < now - RawFloor /\ r \notin Named
    /\ \A i \in prune.runs :
          i[2] < now - RunFloor /\ \A r \in Stored : row[r].run # i

\* Every day has a last value, there is a last one of all, and each value that a
\* pruner has selected is followed by another.
Chained ==
    /\ \A v \in values : \E m \in values :
          /\ Day(m) = Day(v) /\ v <= m
          /\ \A w \in values : Day(w) = Day(v) => w <= m
    /\ values # {} => \E m \in values : \A w \in values : w <= m
    /\ \A q \in Passes : \A v \in pass[q].thin :
          \E w \in values : v < w /\ Day(w) = Day(v)
    /\ \A q \in Passes : \A v \in pass[q].drain : \E w \in values : v < w

\* A value selected for deletion has no lineage and no job writes it any more.
Bare ==
    \A q \in Passes : \A v \in pass[q].thin :
       v < now - ValueKept /\ lineage[v] = {}

Inv == RetentionTypeOK /\ Margins /\ Selected /\ Chained /\ Bare

-----------------------------------------------------------------------------
(* Operators *)

\* A stored record is never mistaken for a missing one.
LEMMA RowIsNotNoRow == ASSUME NEW x \in Row PROVE x # NoRow
  <1>1. x.run \in Ingestors \X Ticks
    BY DEF Row, Runs
  <1>2. x.run # <<>>
    BY <1>1
  <1> QED
    BY <1>2 DEF NoRow

\* A configured age is never less than its floor.
LEMMA ClampedFacts ==
    ASSUME NEW floor \in Nat, NEW configured \in Nat
    PROVE  Clamped(floor, configured) \in Nat /\ Clamped(floor, configured) >= floor
  BY DEF Clamped

LEMMA Constants ==
    /\ Standing \subseteq Records /\ Null \notin Records
    /\ Window \in Nat /\ Span \in Nat /\ RawFloor \in Nat /\ RunFloor \in Nat
    /\ RawConfigured \in Nat /\ RunConfigured \in Nat
    /\ LineageKept \in Nat /\ ValueKept \in Nat /\ LastTick \in Nat
    /\ RawFloor >= Window + Span /\ RunFloor >= Span /\ ValueKept >= Span
    /\ Ticks \subseteq Nat
  BY RetentionAssumption DEF Null, Ticks

-----------------------------------------------------------------------------
(* Types and references *)

LEMMA TypeInit == Init => RetentionTypeOK
  BY Constants DEF Init, RetentionTypeOK, Ticks, NoIngestion, NoJob, NoPass, NoPrune,
     JobStates, Stored, Named

LEMMA TypeBeginIngestion ==
    ASSUME RetentionTypeOK, NEW p \in Ingestors, BeginIngestion(p)
    PROVE  RetentionTypeOK'
  BY DEF RetentionTypeOK, BeginIngestion, valueVars, pruneVars, Runs, Stored, Named

LEMMA TypeEndIngestion ==
    ASSUME RetentionTypeOK, NEW p \in Ingestors, EndIngestion(p)
    PROVE  RetentionTypeOK'
  BY DEF RetentionTypeOK, EndIngestion, valueVars, pruneVars, Stored, Named

LEMMA TypeUpsertRecord ==
    ASSUME RetentionTypeOK, NEW p \in Ingestors, NEW r \in Records, UpsertRecord(p, r)
    PROVE  RetentionTypeOK'
  <1>0. PICK age \in Ages :
           /\ age <= ing[p].now
           /\ row' = [row EXCEPT ![r] = [stamp |-> ing[p].now - age, touched |-> now,
                                         run |-> <<p, ing[p].now>>]]
    BY DEF UpsertRecord
  <1> DEFINE y == [stamp |-> ing[p].now - age, touched |-> now, run |-> <<p, ing[p].now>>]
  <1>a. age \in Nat /\ ing[p].now \in Ticks /\ now \in Ticks
    BY RetentionAssumption DEF RetentionTypeOK
  <1>b. ing[p].now - age \in Ticks
    BY <1>0, <1>a, Constants DEF Ticks
  <1>c. y \in Row /\ y.run = <<p, ing[p].now>>
    BY <1>a, <1>b DEF Row, Runs
  <1>1. PICK x \in Row : row' = [row EXCEPT ![r] = x] /\ x.run = <<p, ing[p].now>>
    BY <1>0, <1>c
  <1>2. row' \in [Records -> Row \cup {NoRow}]
    BY <1>1 DEF RetentionTypeOK
  <1>3. Stored' = Stored \cup {r}
    BY <1>1, RowIsNotNoRow DEF RetentionTypeOK, Stored
  <1>4. \A s \in Stored' : row'[s].run \in runs'
    BY <1>1, <1>3 DEF RetentionTypeOK, UpsertRecord, Stored
  <1>5. raced' \subseteq prune'.records
    BY DEF RetentionTypeOK, UpsertRecord
  <1>6. ing' \in [Ingestors -> [now : Ticks, todo : SUBSET Records]]
    BY DEF RetentionTypeOK, UpsertRecord
  <1> QED
    BY <1>2, <1>3, <1>4, <1>5, <1>6 DEF RetentionTypeOK, UpsertRecord, valueVars, Named

LEMMA TypeReadRecords ==
    ASSUME RetentionTypeOK, NEW j \in Jobs, NEW t \in Ticks, ReadRecords(j, t)
    PROVE  RetentionTypeOK'
  <1>1. Readable(t) \subseteq Records
    BY DEF Readable, Stored
  <1>2. job' \in [Jobs -> [pc : JobStates, now : Ticks, read : SUBSET Records]]
    BY <1>1 DEF RetentionTypeOK, ReadRecords, MoveJob, JobStates
  <1> QED
    BY <1>2 DEF RetentionTypeOK, ReadRecords, ingVars, valueVars, pruneVars, Stored, Named

LEMMA TypeUpsertValue ==
    ASSUME RetentionTypeOK, NEW j \in Jobs, UpsertValue(j)
    PROVE  RetentionTypeOK'
  <1>1. job' \in [Jobs -> [pc : JobStates, now : Ticks, read : SUBSET Records]]
    BY DEF RetentionTypeOK, UpsertValue, MoveJob, JobStates
  <1>2. values' \subseteq Ticks /\ values \subseteq values'
    BY DEF RetentionTypeOK, UpsertValue
  <1> QED
    BY <1>1, <1>2 DEF RetentionTypeOK, UpsertValue, ingVars, pruneVars, Stored, Named

LEMMA TypeClearLineage ==
    ASSUME RetentionTypeOK, NEW j \in Jobs, ClearLineage(j)
    PROVE  RetentionTypeOK'
  <1>1. job' \in [Jobs -> [pc : JobStates, now : Ticks, read : SUBSET Records]]
    BY DEF RetentionTypeOK, ClearLineage, MoveJob, JobStates
  <1>2. lineage' \in [Ticks -> SUBSET (Records \cup {Null})]
    BY DEF RetentionTypeOK, ClearLineage
  <1>3. \A v \in Ticks \ values' : lineage'[v] = {}
    BY DEF RetentionTypeOK, ClearLineage
  <1>4. Named' \subseteq Named
    BY DEF RetentionTypeOK, ClearLineage, Named
  <1> QED
    BY <1>1, <1>2, <1>3, <1>4 DEF RetentionTypeOK, ClearLineage, ingVars, pruneVars, Stored

LEMMA TypeWriteLineage ==
    ASSUME RetentionTypeOK, NEW j \in Jobs, WriteLineage(j)
    PROVE  RetentionTypeOK'
  <1>1. job' \in [Jobs -> [pc : JobStates, now : Ticks, read : SUBSET Records]]
    BY Constants DEF RetentionTypeOK, WriteLineage, MoveJob, JobStates, NoJob, Ticks
  <1>2. lineage' \in [Ticks -> SUBSET (Records \cup {Null})]
    BY DEF RetentionTypeOK, WriteLineage
  <1>3. \A v \in Ticks \ values' : lineage'[v] = {}
    BY DEF RetentionTypeOK, WriteLineage
  <1>4. Named' \subseteq Named \cup Stored
    BY DEF RetentionTypeOK, WriteLineage, Named
  <1> QED
    BY <1>1, <1>2, <1>3, <1>4 DEF RetentionTypeOK, WriteLineage, ingVars, pruneVars, Stored

LEMMA TypeEndJob ==
    ASSUME RetentionTypeOK, NEW j \in Jobs, EndJob(j)
    PROVE  RetentionTypeOK'
  <1>1. job' \in [Jobs -> [pc : JobStates, now : Ticks, read : SUBSET Records]]
    BY Constants DEF RetentionTypeOK, EndJob, MoveJob, JobStates, NoJob, Ticks
  <1> QED
    BY <1>1 DEF RetentionTypeOK, EndJob, ingVars, valueVars, pruneVars, Stored, Named

LEMMA TypePassStep ==
    ASSUME RetentionTypeOK, NEW q \in Passes, PassStep(q)
    PROVE  RetentionTypeOK'
  <1> USE DEF RetentionTypeOK, ingVars, valueVars, pruneVars
  <1>1. CASE SelectLineage(q)
    <2>1. Superseded \subseteq Ticks
      BY DEF Superseded
    <2>2. pass' \in [Passes -> [drain : SUBSET Ticks, thin : SUBSET Ticks]]
      BY <1>1, <2>1 DEF SelectLineage
    <2> QED
      BY <1>1, <2>2 DEF SelectLineage, Stored, Named
  <1>2. CASE SelectValues(q)
    <2>1. Surplus \subseteq Ticks
      BY DEF Surplus
    <2>2. pass' \in [Passes -> [drain : SUBSET Ticks, thin : SUBSET Ticks]]
      BY <1>2, <2>1 DEF SelectValues
    <2> QED
      BY <1>2, <2>2 DEF SelectValues, Stored, Named
  <1>3. CASE DeleteLineage(q)
    <2>1. /\ lineage' \in [Ticks -> SUBSET (Records \cup {Null})]
          /\ \A v \in Ticks : lineage'[v] \subseteq lineage[v]
      BY <1>3 DEF DeleteLineage
    <2>2. Named' \subseteq Named
      BY <2>1 DEF Named
    <2> QED
      BY <1>3, <2>1, <2>2 DEF DeleteLineage, NoPass, Stored
  <1>4. CASE DeleteValues(q)
    <2>1. /\ lineage' \in [Ticks -> SUBSET (Records \cup {Null})]
          /\ \A v \in Ticks : lineage'[v] \subseteq lineage[v]
          /\ \A v \in Ticks \ values' : lineage'[v] = {}
      BY <1>4 DEF DeleteValues
    <2>2. Named' \subseteq Named
      BY <2>1 DEF Named
    <2> QED
      BY <1>4, <2>1, <2>2 DEF DeleteValues, NoPass, Stored
  <1>5. CASE PassFails(q)
    BY <1>5 DEF PassFails, NoPass, Stored, Named
  <1> QED
    BY <1>1, <1>2, <1>3, <1>4, <1>5 DEF PassStep

LEMMA TypeSelect ==
    ASSUME RetentionTypeOK, SelectRecords \/ SelectRuns \/ DeleteFails
    PROVE  RetentionTypeOK'
  <1>1. PrunableRecords \subseteq Records /\ PrunableRuns \subseteq Runs
    BY DEF RetentionTypeOK, PrunableRecords, PrunableRuns, Stored
  <1>2. CASE SelectRecords
    BY <1>1, <1>2 DEF SelectRecords, RetentionTypeOK, ingVars, valueVars, NoPrune, Stored,
       Named
  <1>3. CASE SelectRuns
    BY <1>1, <1>3 DEF SelectRuns, RetentionTypeOK, ingVars, valueVars, NoPrune, Stored,
       Named
  <1>4. CASE DeleteFails
    BY <1>4 DEF DeleteFails, RetentionTypeOK, ingVars, valueVars, NoPrune, Stored, Named
  <1> QED
    BY <1>2, <1>3, <1>4

LEMMA TypeDeleteSelected ==
    ASSUME RetentionTypeOK, DeleteSelected
    PROVE  RetentionTypeOK'
  <1>1. PICK gone : /\ gone = prune.records \cup {r \in Stored : row[r].run \in prune.runs}
                    /\ row' = [r \in Records |-> IF r \in gone THEN NoRow ELSE row[r]]
                    /\ lineage' = [v \in Ticks |-> Nulled(lineage[v], gone)]
    BY DEF DeleteSelected
  <1>2. gone \subseteq Records
    BY <1>1 DEF RetentionTypeOK, Stored
  <1>3. Stored' = Stored \ gone
    BY <1>1, <1>2 DEF Stored
  <1>4. \A r \in Stored' : row'[r].run \in runs'
    <2> SUFFICES ASSUME NEW r \in Stored'
                 PROVE  row'[r].run \in runs'
      OBVIOUS
    <2>1. r \in Stored /\ r \notin gone /\ row'[r] = row[r]
      BY <1>1, <1>3 DEF Stored
    <2>2. row[r].run \in runs /\ row[r].run \notin prune.runs
      BY <1>1, <2>1 DEF RetentionTypeOK
    <2> QED
      BY <2>1, <2>2 DEF DeleteSelected
  <1>5. \A v \in Ticks : lineage'[v] \subseteq (lineage[v] \ gone) \cup {Null}
    BY <1>1 DEF Nulled
  <1>6. lineage' \in [Ticks -> SUBSET (Records \cup {Null})]
    BY <1>1, <1>5 DEF RetentionTypeOK
  <1>7. \A v \in Ticks \ values' : lineage'[v] = {}
    BY <1>1 DEF RetentionTypeOK, Nulled, DeleteSelected
  <1>8. Named' \subseteq Stored' \cup {Null}
    BY <1>3, <1>5 DEF RetentionTypeOK, Named
  <1>9. row' \in [Records -> Row \cup {NoRow}]
    BY <1>1 DEF RetentionTypeOK
  <1>10. prune' \in [records : SUBSET Records, runs : SUBSET Runs] /\ raced' = {}
    BY DEF DeleteSelected, NoPrune
  <1> QED
    BY <1>4, <1>6, <1>7, <1>8, <1>9, <1>10 DEF RetentionTypeOK, DeleteSelected

LEMMA TypeTick == ASSUME RetentionTypeOK, Tick PROVE RetentionTypeOK'
  BY Constants DEF RetentionTypeOK, Tick, ingVars, valueVars, pruneVars, Stored, Named,
     Ticks

LEMMA TypeStep == ASSUME RetentionTypeOK, [Next]_vars PROVE RetentionTypeOK'
  <1>1. CASE UNCHANGED vars
    BY <1>1 DEF RetentionTypeOK, vars, Stored, Named
  <1>2. CASE Next
    BY <1>2, TypeBeginIngestion, TypeEndIngestion, TypeUpsertRecord, TypeReadRecords,
       TypeUpsertValue, TypeClearLineage, TypeWriteLineage, TypeEndJob, TypePassStep, TypeSelect,
       TypeDeleteSelected, TypeTick
    DEF Next, IngestionStep, JobStep, PruneStep
  <1> QED
    BY <1>1, <1>2

\* Rows, jobs and deletes keep their types, and every reference between rows leads to
\* a row that is there, whatever is deleted beside its writers.
THEOREM RetentionTyped == Spec => []RetentionTypeOK
  <1> QED
    BY TypeInit, TypeStep, PTL DEF Spec

-----------------------------------------------------------------------------
(* Margins *)

LEMMA StoredTyped ==
    ASSUME RetentionTypeOK, NEW r \in Stored
    PROVE  row[r] \in Row /\ row[r].stamp \in Nat /\ row[r].touched \in Nat
  <1>1. row[r] \in Row
    BY DEF RetentionTypeOK, Stored
  <1> QED
    BY <1>1, Constants DEF Row

LEMMA RunTyped == ASSUME NEW i \in Runs PROVE i[2] \in Nat
  BY Constants DEF Runs

\* Later is further from what lies behind.
LEMMA LaterStill ==
    /\ \A a, b, c \in Nat : a < b - c => a < b + 1 - c
    /\ \A a, b \in Nat : a <= b => a <= b + 1
    /\ \A a, b, c \in Nat : b < a + c => b + 1 <= a + c
    /\ \A a, b, c, d \in Nat : a < b - c /\ c >= d => a < b - d
  OBVIOUS

\* What an upsert leaves behind.
LEMMA UpsertWrites ==
    ASSUME RetentionTypeOK, Margins, NEW p \in Ingestors, NEW r \in Records,
           UpsertRecord(p, r)
    PROVE  /\ \E x \in Row : /\ row' = [row EXCEPT ![r] = x]
                             /\ x.stamp <= x.touched /\ x.touched = now
                             /\ x.run = <<p, ing[p].now>>
           /\ Stored' = Stored \cup {r}
           /\ now <= ing[p].now + Span
  <1>1. PICK age \in Ages :
           /\ age <= ing[p].now
           /\ row' = [row EXCEPT ![r] = [stamp |-> ing[p].now - age, touched |-> now,
                                         run |-> <<p, ing[p].now>>]]
    BY DEF UpsertRecord
  <1> DEFINE y == [stamp |-> ing[p].now - age, touched |-> now, run |-> <<p, ing[p].now>>]
  <1>2. /\ age \in Nat /\ ing[p].now \in Ticks /\ now \in Ticks
        /\ ing[p].now <= now /\ now <= ing[p].now + Span
    BY RetentionAssumption DEF RetentionTypeOK, Margins, UpsertRecord
  <1>3. ing[p].now - age \in Ticks /\ ing[p].now - age <= now
    BY <1>1, <1>2, Constants DEF Ticks
  <1>4. y \in Row /\ y.stamp <= y.touched /\ y.touched = now /\ y.run = <<p, ing[p].now>>
    BY <1>2, <1>3 DEF Row, Runs
  <1>5. row' = [row EXCEPT ![r] = y]
    BY <1>1
  <1> HIDE DEF y
  <1>6. y # NoRow
    BY <1>4, RowIsNotNoRow
  <1>7. Stored' = Stored \cup {r}
    BY <1>5, <1>6 DEF Stored, RetentionTypeOK
  <1> QED
    BY <1>2, <1>4, <1>5, <1>7

\* A delete takes rows away and leaves the others as they are.
LEMMA DeleteTakes ==
    ASSUME DeleteSelected
    PROVE  /\ Stored' \subseteq Stored
           /\ \A r \in Stored' : row'[r] = row[r]
           /\ \A r \in Stored \ Stored' :
                 r \in prune.records \/ row[r].run \in prune.runs
  BY DEF DeleteSelected, Stored

LEMMA MarginsInit == Init => Margins
  BY Constants DEF Init, Margins, NoIngestion, NoJob, Stored

LEMMA MarginsIngestion ==
    ASSUME RetentionTypeOK, Margins, NEW p \in Ingestors, IngestionStep(p)
    PROVE  Margins'
  <1>1. CASE BeginIngestion(p)
    <2>1. \A o \in Ingestors : /\ ing'[o].now <= now'
                               /\ ing'[o].todo # {} => now' <= ing'[o].now + Span
      BY <1>1, Constants DEF BeginIngestion, RetentionTypeOK, Margins
    <2> QED
      BY <1>1, <2>1 DEF BeginIngestion, Margins, Stored
  <1>2. CASE EndIngestion(p)
    <2>1. \A o \in Ingestors : /\ ing'[o].now <= now'
                               /\ ing'[o].todo # {} => now' <= ing'[o].now + Span
      BY <1>2 DEF EndIngestion, RetentionTypeOK, Margins
    <2> QED
      BY <1>2, <2>1 DEF EndIngestion, Margins, Stored
  <1>3. ASSUME NEW r \in Records, UpsertRecord(p, r)
        PROVE  Margins'
    <2>1. PICK x \in Row : /\ row' = [row EXCEPT ![r] = x]
                           /\ x.stamp <= x.touched /\ x.touched = now
      BY <1>3, UpsertWrites
    <2>2. Stored' = Stored \cup {r}
      BY <1>3, UpsertWrites
    <2>3. \A o \in Ingestors : /\ ing'[o].now <= now'
                               /\ ing'[o].todo # {} => now' <= ing'[o].now + Span
      BY <1>3 DEF UpsertRecord, RetentionTypeOK, Margins
    <2>4. \A s \in Stored' : row'[s].stamp <= row'[s].touched /\ row'[s].touched <= now'
      <3> SUFFICES ASSUME NEW s \in Stored'
                   PROVE  row'[s].stamp <= row'[s].touched /\ row'[s].touched <= now'
        OBVIOUS
      <3>1. now' = now /\ now \in Nat
        BY <1>3, Constants DEF UpsertRecord, RetentionTypeOK
      <3>2. CASE s = r
        BY <2>1, <3>1, <3>2 DEF RetentionTypeOK
      <3>3. CASE s # r
        BY <2>1, <2>2, <3>1, <3>3 DEF RetentionTypeOK, Margins, Stored
      <3> QED
        BY <3>2, <3>3
    <2>5. \A j \in Jobs : \A s \in job'[j].read \cap Stored' :
             s \in Standing \/ row'[s].touched >= job'[j].now - Window
      <3> SUFFICES ASSUME NEW j \in Jobs, NEW s \in job[j].read \cap Stored'
                   PROVE  s \in Standing \/ row'[s].touched >= job[j].now - Window
        BY <1>3 DEF UpsertRecord
      <3>1. CASE s = r
        <4>1. job[j].pc # "idle"
          BY DEF Margins
        <4>2. row'[s].touched = now /\ now \in Nat /\ job[j].now \in Nat
          BY <2>1, <3>1, Constants DEF RetentionTypeOK
        <4>3. job[j].now <= now
          BY <4>1 DEF Margins
        <4> QED
          BY <4>2, <4>3, Constants
      <3>2. CASE s # r
        BY <2>1, <2>2, <3>2 DEF RetentionTypeOK, Margins, Stored
      <3> QED
        BY <3>1, <3>2
    <2> QED
      BY <1>3, <2>3, <2>4, <2>5 DEF UpsertRecord, Margins
  <1> QED
    BY <1>1, <1>2, <1>3 DEF IngestionStep

\* What jobs read is young enough, and a job that ends leaves nothing behind.
LEMMA MarginsJob ==
    ASSUME RetentionTypeOK, Margins, NEW j \in Jobs, JobStep(j)
    PROVE  Margins'
  <1>0. /\ now' = now /\ row' = row /\ ing' = ing /\ now \in Nat
        /\ \A k \in Jobs : k # j => job'[k] = job[k]
    BY Constants DEF JobStep, ReadRecords, UpsertValue, ClearLineage, WriteLineage, EndJob, MoveJob,
       ingVars, RetentionTypeOK
  <1>1. Stored' = Stored
    BY <1>0 DEF Stored
  <1>2. SUFFICES /\ job'[j].pc = "idle" => job'[j].read = {}
                 /\ job'[j].now <= now
                 /\ job'[j].pc # "idle" => now <= job'[j].now + Span
                 /\ \A r \in job'[j].read \cap Stored :
                       r \in Standing \/ row[r].touched >= job'[j].now - Window
    BY <1>0, <1>1 DEF Margins
  <1>3. ASSUME NEW t \in Ticks, ReadRecords(j, t)
        PROVE  /\ job'[j].pc = "idle" => job'[j].read = {}
               /\ job'[j].now <= now
               /\ job'[j].pc # "idle" => now <= job'[j].now + Span
               /\ \A r \in job'[j].read \cap Stored :
                     r \in Standing \/ row[r].touched >= job'[j].now - Window
    <2>1. PICK read \in SUBSET Readable(t) :
             job'[j] = [pc |-> "read", now |-> t, read |-> read]
      BY <1>3 DEF ReadRecords, MoveJob, RetentionTypeOK
    <2>2. \A r \in read \cap Stored : r \in Standing \/ row[r].touched >= t - Window
      <3> SUFFICES ASSUME NEW r \in read \cap Stored, r \notin Standing
                   PROVE  row[r].touched >= t - Window
        OBVIOUS
      <3>1. row[r].stamp >= t - Window /\ row[r].stamp <= row[r].touched
        BY DEF Readable, Margins
      <3>2. row[r].stamp \in Nat /\ row[r].touched \in Nat /\ t \in Nat
        BY StoredTyped, Constants
      <3>3. \A a, b, c, d \in Nat : a >= b - c /\ a <= d => d >= b - c
        OBVIOUS
      <3> QED
        BY <3>1, <3>2, <3>3, Constants
    <2> QED
      BY <1>3, <2>1, <2>2 DEF ReadRecords
  <1>4. CASE UpsertValue(j) \/ ClearLineage(j)
    <2>1. /\ job[j].pc # "idle" /\ job'[j].pc # "idle"
          /\ job'[j].now = job[j].now /\ job'[j].read = job[j].read
      BY <1>4 DEF UpsertValue, ClearLineage, MoveJob, RetentionTypeOK
    <2> QED
      BY <2>1 DEF Margins
  <1>5. CASE WriteLineage(j) \/ EndJob(j)
    <2>1. job'[j] = NoJob
      BY <1>5 DEF WriteLineage, EndJob, MoveJob, RetentionTypeOK
    <2> QED
      BY <1>0, <2>1 DEF NoJob
  <1> QED
    BY <1>3, <1>4, <1>5 DEF JobStep

LEMMA MarginsDelete == ASSUME Margins, DeleteSelected PROVE Margins'
  <1>1. now' = now /\ ing' = ing /\ job' = job
    BY DEF DeleteSelected
  <1> QED
    BY <1>1, DeleteTakes DEF Margins

LEMMA MarginsTick == ASSUME RetentionTypeOK, Margins, Tick PROVE Margins'
  <1>1. /\ now' = now + 1 /\ now \in Nat /\ row' = row /\ ing' = ing /\ job' = job
        /\ Stored' = Stored
    BY Constants DEF Tick, RetentionTypeOK, ingVars, Stored
  <1>2. \A p \in Ingestors : /\ ing[p].now <= now + 1
                             /\ ing[p].todo # {} => now + 1 <= ing[p].now + Span
    <2> SUFFICES ASSUME NEW p \in Ingestors
                 PROVE  /\ ing[p].now <= now + 1
                        /\ ing[p].todo # {} => now + 1 <= ing[p].now + Span
      OBVIOUS
    <2>1. ing[p].now \in Nat
      BY Constants DEF RetentionTypeOK
    <2>2. ing[p].now <= now /\ (ing[p].todo # {} => now < ing[p].now + Span)
      BY DEF Margins, Tick
    <2> QED
      BY <1>1, <2>1, <2>2, Constants, LaterStill
  <1>3. \A j \in Jobs : /\ job[j].pc = "idle" => job[j].read = {}
                        /\ job[j].now <= now + 1
                        /\ job[j].pc # "idle" => now + 1 <= job[j].now + Span
    <2> SUFFICES ASSUME NEW j \in Jobs
                 PROVE  /\ job[j].now <= now + 1
                        /\ job[j].pc # "idle" => now + 1 <= job[j].now + Span
      BY DEF Margins
    <2>1. job[j].now \in Nat
      BY Constants DEF RetentionTypeOK
    <2>2. job[j].now <= now /\ (job[j].pc # "idle" => now < job[j].now + Span)
      BY DEF Margins, Tick
    <2> QED
      BY <1>1, <2>1, <2>2, Constants, LaterStill
  <1>4. \A r \in Stored : row[r].touched <= now + 1
    <2> SUFFICES ASSUME NEW r \in Stored PROVE row[r].touched <= now + 1
      OBVIOUS
    <2>1. row[r].touched \in Nat /\ row[r].touched <= now
      BY StoredTyped DEF Margins
    <2> QED
      BY <1>1, <2>1, LaterStill
  <1> QED
    BY <1>1, <1>2, <1>3, <1>4 DEF Margins

LEMMA MarginsStep == ASSUME RetentionTypeOK, Margins, [Next]_vars PROVE Margins'
  <1>1. CASE /\ now' = now /\ row' = row /\ ing' = ing /\ job' = job
    BY <1>1 DEF Margins, Stored
  <1>2. CASE UNCHANGED vars
    BY <1>1, <1>2 DEF vars
  <1>3. ASSUME NEW q \in Passes, PassStep(q) PROVE Margins'
    BY <1>1, <1>3 DEF PassStep, SelectLineage, DeleteLineage, SelectValues, DeleteValues,
       PassFails, ingVars
  <1>4. CASE SelectRecords \/ SelectRuns \/ DeleteFails
    BY <1>1, <1>4 DEF SelectRecords, SelectRuns, DeleteFails, ingVars
  <1> QED
    BY <1>2, <1>3, <1>4, MarginsIngestion, MarginsJob, MarginsDelete, MarginsTick
    DEF Next, PruneStep

-----------------------------------------------------------------------------
(* What db-prune has selected *)

LEMMA SelectedInit == Init => Selected
  BY DEF Init, Selected, NoPrune

\* A record that is written while it is selected counts as raced; its new run is too
\* young to be selected.
LEMMA SelectedUpsert ==
    ASSUME RetentionTypeOK, Margins, Selected, NEW p \in Ingestors, NEW r \in Records,
           UpsertRecord(p, r)
    PROVE  Selected'
  <1>1. PICK x \in Row : /\ row' = [row EXCEPT ![r] = x]
                         /\ x.run = <<p, ing[p].now>>
    BY UpsertWrites
  <1>2. Stored' = Stored \cup {r} /\ now <= ing[p].now + Span
    BY UpsertWrites
  <1>3. /\ prune' = prune /\ now' = now /\ raced' = raced \cup (prune.records \cap {r})
        /\ Named' = Named
    BY DEF UpsertRecord, valueVars, Named
  <1>4. \A s \in (prune.records \cap Stored') \ raced' :
           s \notin Standing /\ row'[s].touched < now - RawFloor /\ s \notin Named
    <2> SUFFICES ASSUME NEW s \in (prune.records \cap Stored') \ raced'
                 PROVE  s \notin Standing /\ row'[s].touched < now - RawFloor /\ s \notin Named
      OBVIOUS
    <2>1. s # r /\ s \in (prune.records \cap Stored) \ raced
      BY <1>2, <1>3
    <2>2. row'[s] = row[s]
      BY <1>1, <2>1 DEF RetentionTypeOK
    <2> QED
      BY <2>1, <2>2 DEF Selected
  <1>5. \A i \in prune.runs :
           i[2] < now - RunFloor /\ \A s \in Stored' : row'[s].run # i
    <2> SUFFICES ASSUME NEW i \in prune.runs
                 PROVE  i[2] < now - RunFloor /\ \A s \in Stored' : row'[s].run # i
      OBVIOUS
    <2>1. i[2] < now - RunFloor /\ \A s \in Stored : row[s].run # i
      BY DEF Selected
    <2>2. now \in Nat /\ ing[p].now \in Nat
      BY Constants DEF RetentionTypeOK
    <2>3. i[2] \in Nat
      BY RunTyped DEF RetentionTypeOK
    <2>a. \A a, b, c, d, e \in Nat : a < b - c /\ b <= d + e /\ c >= e => a < d
      OBVIOUS
    <2>4. i[2] < ing[p].now
      BY <1>2, <2>1, <2>2, <2>3, <2>a, Constants
    <2>5. <<p, ing[p].now>> # i
      BY <2>2, <2>3, <2>4
    <2>6. row'[r].run # i
      BY <1>1, <2>5 DEF RetentionTypeOK
    <2>7. \A s \in Stored : s # r => row'[s].run # i
      BY <1>1, <2>1 DEF RetentionTypeOK, Stored
    <2> QED
      BY <1>2, <2>1, <2>6, <2>7
  <1> QED
    BY <1>3, <1>4, <1>5 DEF Selected

\* Only what was read is named, and a job reads nothing that old.
LEMMA SelectedWriteLineage ==
    ASSUME RetentionTypeOK, Margins, Selected, NEW j \in Jobs, WriteLineage(j)
    PROVE  Selected'
  <1>1. now' = now /\ row' = row /\ prune' = prune /\ raced' = raced /\ Stored' = Stored
    BY DEF WriteLineage, ingVars, pruneVars, Stored
  <1>2. Named' \subseteq Named \cup job[j].read
    BY DEF WriteLineage, Named, RetentionTypeOK
  <1>3. \A r \in (prune.records \cap Stored) \ raced : r \notin job[j].read
    <2> SUFFICES ASSUME NEW r \in (prune.records \cap Stored) \ raced, r \in job[j].read
                 PROVE  FALSE
      OBVIOUS
    <2>1. r \notin Standing /\ row[r].touched < now - RawFloor
      BY DEF Selected
    <2>2. row[r].touched >= job[j].now - Window
      BY <2>1 DEF Margins
    <2>3. now <= job[j].now + Span
      BY DEF WriteLineage, Margins
    <2>4. now \in Nat /\ job[j].now \in Nat /\ row[r].touched \in Nat
      BY Constants DEF RetentionTypeOK, Stored, Row
    <2> QED
      BY <2>1, <2>2, <2>3, <2>4, Constants
  <1> QED
    BY <1>1, <1>2, <1>3 DEF Selected

LEMMA SelectedSelect ==
    ASSUME RetentionTypeOK, Selected, SelectRecords \/ SelectRuns
    PROVE  Selected'
  <1>1. /\ now' = now /\ row' = row /\ lineage' = lineage /\ now \in Nat
        /\ Stored' = Stored /\ Named' = Named
    BY Constants DEF SelectRecords, SelectRuns, valueVars, Stored, Named, RetentionTypeOK
  <1>2. CASE SelectRecords
    <2>1. prune'.records \subseteq PrunableRecords /\ prune'.runs = {}
      BY <1>2 DEF SelectRecords
    <2>2. \A r \in PrunableRecords :
             r \notin Standing /\ row[r].touched < now - RawFloor /\ r \notin Named
      <3> SUFFICES ASSUME NEW r \in PrunableRecords
                   PROVE  row[r].touched < now - RawFloor
        BY DEF PrunableRecords
      <3>1. /\ row[r].touched < now - Clamped(RawFloor, RawConfigured)
            /\ row[r].touched \in Nat
        BY StoredTyped DEF PrunableRecords
      <3>2. /\ Clamped(RawFloor, RawConfigured) \in Nat
            /\ Clamped(RawFloor, RawConfigured) >= RawFloor
        BY ClampedFacts, Constants
      <3> QED
        BY <1>1, <3>1, <3>2, Constants, LaterStill
    <2> QED
      BY <1>1, <2>1, <2>2 DEF Selected
  <1>3. CASE SelectRuns
    <2>1. prune'.runs \subseteq PrunableRuns /\ prune'.records = {}
      BY <1>3 DEF SelectRuns
    <2>2. \A i \in PrunableRuns :
             i[2] < now - RunFloor /\ \A r \in Stored : row[r].run # i
      <3> SUFFICES ASSUME NEW i \in PrunableRuns
                   PROVE  i[2] < now - RunFloor
        BY DEF PrunableRuns
      <3>1. i[2] < now - Clamped(RunFloor, RunConfigured) /\ i[2] \in Nat
        BY RunTyped DEF PrunableRuns, RetentionTypeOK
      <3>2. /\ Clamped(RunFloor, RunConfigured) \in Nat
            /\ Clamped(RunFloor, RunConfigured) >= RunFloor
        BY ClampedFacts, Constants
      <3> QED
        BY <1>1, <3>1, <3>2, Constants, LaterStill
    <2> QED
      BY <1>1, <2>1, <2>2 DEF Selected
  <1> QED
    BY <1>2, <1>3

LEMMA SelectedStep ==
    ASSUME RetentionTypeOK, Margins, Selected, [Next]_vars
    PROVE  Selected'
  <1>1. CASE /\ now' = now /\ row' = row /\ prune' = prune /\ raced' = raced
             /\ \A v \in Ticks : lineage'[v] \subseteq lineage[v]
    <2>1. Named' \subseteq Named /\ Stored' = Stored
      BY <1>1 DEF Named, Stored
    <2> QED
      BY <1>1, <2>1 DEF Selected
  <1>2. CASE UNCHANGED vars
    BY <1>1, <1>2 DEF vars
  <1>3. ASSUME NEW p \in Ingestors, BeginIngestion(p) \/ EndIngestion(p) PROVE Selected'
    BY <1>1, <1>3 DEF BeginIngestion, EndIngestion, valueVars, pruneVars
  <1>4. ASSUME NEW j \in Jobs, NEW t \in Ticks, ReadRecords(j, t) PROVE Selected'
    BY <1>1, <1>4 DEF ReadRecords, valueVars, pruneVars
  <1>5. ASSUME NEW j \in Jobs, UpsertValue(j) \/ ClearLineage(j) \/ EndJob(j) PROVE Selected'
    BY <1>1, <1>5 DEF UpsertValue, ClearLineage, EndJob, valueVars, pruneVars, RetentionTypeOK
  <1>6. ASSUME NEW q \in Passes, PassStep(q) PROVE Selected'
    BY <1>1, <1>6 DEF PassStep, SelectLineage, DeleteLineage, SelectValues, DeleteValues,
       PassFails, valueVars, pruneVars
  <1>7. CASE DeleteSelected \/ DeleteFails
    BY <1>7 DEF DeleteSelected, DeleteFails, NoPrune, Selected
  <1>8. CASE Tick
    <2>1. /\ now' = now + 1 /\ row' = row /\ prune' = prune /\ raced' = raced
          /\ Stored' = Stored /\ Named' = Named /\ now \in Nat
      BY <1>8, Constants DEF Tick, valueVars, pruneVars, Stored, Named, RetentionTypeOK
    <2>a. PICK t \in Nat : t = now + 1 /\ now' = t
      BY <2>1
    <2>2. \A r \in (prune.records \cap Stored) \ raced : row[r].touched < t - RawFloor
      <3> SUFFICES ASSUME NEW r \in (prune.records \cap Stored) \ raced
                   PROVE  row[r].touched < t - RawFloor
        OBVIOUS
      <3>1. row[r].touched < now - RawFloor /\ row[r].touched \in Nat
        BY StoredTyped DEF Selected
      <3> QED
        BY <2>1, <2>a, <3>1, Constants, LaterStill
    <2>3. \A i \in prune.runs : i[2] < t - RunFloor
      <3> SUFFICES ASSUME NEW i \in prune.runs PROVE i[2] < t - RunFloor
        OBVIOUS
      <3>1. i[2] < now - RunFloor /\ i[2] \in Nat
        BY RunTyped DEF Selected, RetentionTypeOK
      <3> QED
        BY <2>1, <2>a, <3>1, Constants, LaterStill
    <2>4. \A r \in (prune.records \cap Stored) \ raced : r \notin Standing /\ r \notin Named
      BY DEF Selected
    <2>5. \A i \in prune.runs : \A r \in Stored : row[r].run # i
      BY DEF Selected
    <2>6. /\ \A r \in (prune'.records \cap Stored') \ raced' :
                row'[r].touched < now' - RawFloor
          /\ \A i \in prune'.runs : i[2] < now' - RunFloor
      BY <2>1, <2>a, <2>2, <2>3
    <2>7. /\ \A r \in (prune'.records \cap Stored') \ raced' :
                r \notin Standing /\ r \notin Named'
          /\ \A i \in prune'.runs : \A r \in Stored' : row'[r].run # i
      BY <2>1, <2>4, <2>5
    <2> QED
      BY <2>6, <2>7 DEF Selected
  <1> QED
    BY <1>2, <1>3, <1>4, <1>5, <1>6, <1>7, <1>8, SelectedUpsert, SelectedWriteLineage,
       SelectedSelect
    DEF Next, IngestionStep, JobStep, PruneStep

-----------------------------------------------------------------------------
(* Something later stays *)

LEMMA ChainedInit == Init => Chained
  BY DEF Init, Chained, NoPass

\* A new value may be the last of its day and the last of all.
LEMMA ChainedUpsertValue ==
    ASSUME RetentionTypeOK, Chained, NEW j \in Jobs, UpsertValue(j)
    PROVE  Chained'
  <1>1. PICK u \in Ticks : values' = values \cup {u}
    BY DEF UpsertValue, RetentionTypeOK
  <1>2. pass' = pass
    BY DEF UpsertValue
  <1>3. values' \subseteq Nat /\ values \subseteq Nat /\ u \in Nat
    BY <1>1, Constants DEF RetentionTypeOK
  <1>4. \A v \in values' : \E m \in values' :
           /\ Day(m) = Day(v) /\ v <= m
           /\ \A w \in values' : Day(w) = Day(v) => w <= m
    <2> SUFFICES ASSUME NEW v \in values'
                 PROVE  \E m \in values' :
                           /\ Day(m) = Day(v) /\ v <= m
                           /\ \A w \in values' : Day(w) = Day(v) => w <= m
      OBVIOUS
    <2>1. CASE \E x \in values : Day(x) = Day(v)
      <3>1. PICK x \in values : Day(x) = Day(v)
        BY <2>1
      <3>2. PICK m \in values : /\ Day(m) = Day(v)
                                /\ \A w \in values : Day(w) = Day(v) => w <= m
        BY <3>1 DEF Chained
      <3>3. CASE Day(u) = Day(v) /\ m < u
        <4>1. \A w \in values' : Day(w) = Day(v) => w <= u
          BY <1>1, <1>3, <3>2, <3>3
        <4> QED
          BY <1>1, <3>3, <4>1
      <3>4. CASE ~ (Day(u) = Day(v) /\ m < u)
        <4>1. \A w \in values' : Day(w) = Day(v) => w <= m
          BY <1>1, <1>3, <3>2, <3>4
        <4> QED
          BY <1>1, <3>2, <4>1
      <3> QED
        BY <3>3, <3>4
    <2>2. CASE \A x \in values : Day(x) # Day(v)
      <3>1. v = u /\ \A w \in values' : Day(w) = Day(v) => w = u
        BY <1>1, <2>2
      <3> QED
        BY <1>3, <3>1
    <2> QED
      BY <2>1, <2>2
  <1>5. \E m \in values' : \A w \in values' : w <= m
    <2>1. CASE values = {}
      BY <1>1, <1>3, <2>1
    <2>2. CASE values # {}
      <3>1. PICK m \in values : \A w \in values : w <= m
        BY <2>2 DEF Chained
      <3> QED
        BY <1>1, <1>3, <3>1
    <2> QED
      BY <2>1, <2>2
  <1>6. /\ \A q \in Passes : \A v \in pass'[q].thin :
              \E w \in values' : v < w /\ Day(w) = Day(v)
        /\ \A q \in Passes : \A v \in pass'[q].drain : \E w \in values' : v < w
    BY <1>1, <1>2 DEF Chained
  <1> QED
    BY <1>4, <1>5, <1>6 DEF Chained

\* No pruner has selected the last value of a day.
LEMMA LastIsSafe ==
    ASSUME RetentionTypeOK, Chained, NEW q \in Passes, NEW m \in values,
           \A w \in values : Day(w) = Day(m) => w <= m
    PROVE  m \notin pass[q].thin
  <1> SUFFICES ASSUME m \in pass[q].thin
               PROVE  FALSE
    OBVIOUS
  <1>1. PICK w \in values : m < w /\ Day(w) = Day(m)
    BY DEF Chained
  <1>2. w <= m /\ w \in Nat /\ m \in Nat
    BY <1>1, Constants DEF RetentionTypeOK
  <1> QED
    BY <1>1, <1>2

\* Behind each value that was, a last value of its day is left by a delete.
LEMMA LastStays ==
    ASSUME RetentionTypeOK, Chained, NEW q \in Passes, DeleteValues(q), NEW v \in values
    PROVE  \E m \in values' :
              /\ Day(m) = Day(v) /\ v <= m
              /\ \A w \in values : Day(w) = Day(v) => w <= m
  <1>1. PICK m \in values : /\ Day(m) = Day(v) /\ v <= m
                            /\ \A w \in values : Day(w) = Day(v) => w <= m
    BY DEF Chained
  <1>2. m \notin pass[q].thin
    BY <1>1, LastIsSafe
  <1> QED
    BY <1>1, <1>2 DEF DeleteValues

LEMMA ChainedDeleteValues ==
    ASSUME RetentionTypeOK, Chained, NEW q \in Passes, DeleteValues(q)
    PROVE  Chained'
  <1>1. values' \subseteq values /\ values \subseteq Nat
    BY Constants DEF DeleteValues, RetentionTypeOK
  <1>2. \A o \in Passes : /\ pass'[o].thin \subseteq pass[o].thin
                          /\ pass'[o].drain \subseteq pass[o].drain
    BY DEF DeleteValues, RetentionTypeOK, NoPass
  <1>3. \A o \in Passes : pass[o].thin \subseteq Nat /\ pass[o].drain \subseteq Nat
    BY Constants DEF RetentionTypeOK
  <1>4. \A v \in values' : \E m \in values' :
           /\ Day(m) = Day(v) /\ v <= m
           /\ \A w \in values' : Day(w) = Day(v) => w <= m
    BY <1>1, LastStays
  <1>5. values' # {} => \E m \in values' : \A w \in values' : w <= m
    <2> SUFFICES ASSUME values' # {}
                 PROVE  \E m \in values' : \A w \in values' : w <= m
      OBVIOUS
    <2>1. PICK x \in values : \A w \in values : w <= x
      BY <1>1 DEF Chained
    <2>2. x \notin pass[q].thin
      BY <2>1, LastIsSafe
    <2> QED
      BY <1>1, <2>1, <2>2 DEF DeleteValues
  <1>6. \A o \in Passes : \A v \in pass'[o].thin :
           \E w \in values' : v < w /\ Day(w) = Day(v)
    <2> SUFFICES ASSUME NEW o \in Passes, NEW v \in pass[o].thin
                 PROVE  \E w \in values' : v < w /\ Day(w) = Day(v)
      BY <1>2
    <2>1. PICK w \in values : v < w /\ Day(w) = Day(v)
      BY DEF Chained
    <2>2. PICK m \in values' : Day(m) = Day(w) /\ w <= m
      BY LastStays
    <2>3. v \in Nat /\ w \in Nat /\ m \in Nat
      BY <1>1, <1>3
    <2> QED
      BY <2>1, <2>2, <2>3
  <1>7. \A o \in Passes : \A v \in pass'[o].drain : \E w \in values' : v < w
    <2> SUFFICES ASSUME NEW o \in Passes, NEW v \in pass[o].drain
                 PROVE  \E w \in values' : v < w
      BY <1>2
    <2>1. PICK w \in values : v < w
      BY DEF Chained
    <2>2. PICK m \in values' : w <= m
      BY LastStays
    <2>3. v \in Nat /\ w \in Nat /\ m \in Nat
      BY <1>1, <1>3
    <2> QED
      BY <2>1, <2>2, <2>3
  <1> QED
    BY <1>4, <1>5, <1>6, <1>7 DEF Chained

LEMMA ChainedSelect ==
    ASSUME RetentionTypeOK, Chained, NEW q \in Passes, SelectLineage(q) \/ SelectValues(q)
    PROVE  Chained'
  <1>1. values' = values /\ \A o \in Passes : o # q => pass'[o] = pass[o]
    BY DEF SelectLineage, SelectValues, valueVars, RetentionTypeOK
  <1>2. /\ pass'[q].drain \subseteq Superseded
        /\ pass'[q].thin \subseteq Surplus
    BY DEF SelectLineage, SelectValues, RetentionTypeOK
  <1>3. /\ \A v \in Superseded : \E w \in values : v < w
        /\ \A v \in Surplus : \E w \in values : v < w /\ Day(w) = Day(v)
    BY DEF Superseded, Surplus
  <1>4. \A o \in Passes : \A v \in pass'[o].thin :
           \E w \in values : v < w /\ Day(w) = Day(v)
    BY <1>1, <1>2, <1>3 DEF Chained
  <1>5. \A o \in Passes : \A v \in pass'[o].drain : \E w \in values : v < w
    BY <1>1, <1>2, <1>3 DEF Chained
  <1> QED
    BY <1>1, <1>4, <1>5 DEF Chained

LEMMA ChainedStep == ASSUME RetentionTypeOK, Chained, [Next]_vars PROVE Chained'
  <1>1. CASE values' = values /\ pass' = pass
    BY <1>1 DEF Chained
  <1>2. CASE UNCHANGED vars
    BY <1>1, <1>2 DEF vars
  <1>3. ASSUME NEW p \in Ingestors, IngestionStep(p) PROVE Chained'
    BY <1>1, <1>3 DEF IngestionStep, BeginIngestion, UpsertRecord, EndIngestion, valueVars
  <1>4. ASSUME NEW j \in Jobs, JobStep(j) PROVE Chained'
    <2>1. ASSUME NEW t \in Ticks, ReadRecords(j, t) PROVE Chained'
      BY <1>1, <2>1 DEF ReadRecords, valueVars
    <2>2. CASE ClearLineage(j) \/ WriteLineage(j) \/ EndJob(j)
      BY <1>1, <2>2 DEF ClearLineage, WriteLineage, EndJob, valueVars
    <2> QED
      BY <1>4, <2>1, <2>2, ChainedUpsertValue DEF JobStep
  <1>5. ASSUME NEW q \in Passes, DeleteLineage(q) \/ PassFails(q) PROVE Chained'
    <2>1. values' = values /\ \A o \in Passes : /\ pass'[o].thin \subseteq pass[o].thin
                                               /\ pass'[o].drain \subseteq pass[o].drain
      BY <1>5 DEF DeleteLineage, PassFails, valueVars, NoPass, RetentionTypeOK
    <2> QED
      BY <2>1 DEF Chained
  <1>6. CASE PruneStep \/ Tick
    BY <1>1, <1>6 DEF PruneStep, SelectRecords, SelectRuns, DeleteSelected, DeleteFails, Tick,
       valueVars
  <1> QED
    BY <1>2, <1>3, <1>4, <1>5, <1>6, ChainedDeleteValues, ChainedSelect DEF Next, PassStep

-----------------------------------------------------------------------------
(* Values selected for deletion *)

LEMMA BareInit == Init => Bare
  BY DEF Init, Bare, NoPass

\* Steps that write no lineage of a selected value.
LEMMA BareFrame ==
    ASSUME RetentionTypeOK, Bare, now' = now,
           \A q \in Passes : pass'[q].thin \subseteq pass[q].thin,
           \A v \in Ticks : lineage[v] = {} => lineage'[v] = {}
    PROVE  Bare'
  BY DEF Bare, RetentionTypeOK

\* A job whose value is selected would have begun too long ago.
LEMMA BareWriteLineage ==
    ASSUME RetentionTypeOK, Margins, Bare, NEW j \in Jobs, WriteLineage(j)
    PROVE  Bare'
  <1>1. now' = now /\ pass' = pass
    BY DEF WriteLineage
  <1>2. SUFFICES ASSUME NEW q \in Passes, NEW v \in pass[q].thin
                 PROVE  v < now - ValueKept /\ lineage'[v] = {}
    BY <1>1 DEF Bare
  <1>3. v < now - ValueKept /\ lineage[v] = {} /\ v \in Ticks
    BY DEF Bare, RetentionTypeOK
  <1>4. now <= job[j].now + Span
    BY DEF Margins, WriteLineage
  <1>5. v \in Nat /\ now \in Nat /\ job[j].now \in Nat
    BY <1>3, Constants DEF RetentionTypeOK
  <1>6. job[j].now # v
    BY <1>3, <1>4, <1>5, Constants
  <1> QED
    BY <1>3, <1>6 DEF WriteLineage, RetentionTypeOK

LEMMA BareSelectValues ==
    ASSUME RetentionTypeOK, Bare, NEW q \in Passes, SelectValues(q)
    PROVE  Bare'
  <1>1. /\ now' = now /\ lineage' = lineage /\ pass'[q].thin \subseteq Surplus
        /\ \A o \in Passes : o # q => pass'[o] = pass[o]
    BY DEF SelectValues, valueVars, RetentionTypeOK
  <1>2. \A v \in Surplus : v < now - ValueKept /\ lineage[v] = {}
    BY DEF Surplus
  <1> QED
    BY <1>1, <1>2 DEF Bare

LEMMA BareTick == ASSUME RetentionTypeOK, Bare, Tick PROVE Bare'
  <1>1. now \in Nat /\ pass' = pass /\ lineage' = lineage
    BY Constants DEF Tick, valueVars, RetentionTypeOK
  <1>2. PICK t \in Nat : t = now + 1 /\ now' = t
    BY <1>1 DEF Tick
  <1>3. \A q \in Passes : \A v \in pass[q].thin : v < t - ValueKept /\ lineage[v] = {}
    <2> SUFFICES ASSUME NEW q \in Passes, NEW v \in pass[q].thin
                 PROVE  v < t - ValueKept /\ lineage[v] = {}
      OBVIOUS
    <2>1. v < now - ValueKept /\ lineage[v] = {} /\ v \in Nat
      BY Constants DEF Bare, RetentionTypeOK
    <2> QED
      BY <1>1, <1>2, <2>1, Constants, LaterStill
  <1> QED
    BY <1>1, <1>2, <1>3 DEF Bare

LEMMA BareStep == ASSUME RetentionTypeOK, Margins, Bare, [Next]_vars PROVE Bare'
  <1>1. CASE UNCHANGED vars
    BY <1>1 DEF vars, Bare
  <1>2. ASSUME NEW p \in Ingestors, IngestionStep(p) PROVE Bare'
    BY <1>2 DEF IngestionStep, BeginIngestion, UpsertRecord, EndIngestion, valueVars, Bare
  <1>3. ASSUME NEW j \in Jobs, JobStep(j) PROVE Bare'
    <2>1. ASSUME NEW t \in Ticks, ReadRecords(j, t) PROVE Bare'
      BY <2>1 DEF ReadRecords, valueVars, Bare
    <2>2. CASE EndJob(j)
      BY <2>2 DEF EndJob, valueVars, Bare
    <2>3. CASE UpsertValue(j) \/ ClearLineage(j)
      <3>1. now' = now /\ pass' = pass /\ \A v \in Ticks : lineage[v] = {} => lineage'[v] = {}
        BY <2>3 DEF UpsertValue, ClearLineage, RetentionTypeOK
      <3> QED
        BY <3>1, BareFrame
    <2> QED
      BY <1>3, <2>1, <2>2, <2>3, BareWriteLineage DEF JobStep
  <1>4. ASSUME NEW q \in Passes, PassStep(q) PROVE Bare'
    <2>1. CASE SelectLineage(q) \/ DeleteLineage(q) \/ DeleteValues(q) \/ PassFails(q)
      <3>1. now' = now
        BY <2>1 DEF SelectLineage, DeleteLineage, DeleteValues, PassFails
      <3>2. \A o \in Passes : pass'[o].thin \subseteq pass[o].thin
        BY <2>1 DEF SelectLineage, DeleteLineage, DeleteValues, PassFails, NoPass,
           RetentionTypeOK
      <3>3. \A v \in Ticks : lineage[v] = {} => lineage'[v] = {}
        BY <2>1 DEF SelectLineage, DeleteLineage, DeleteValues, PassFails, valueVars
      <3> QED
        BY <3>1, <3>2, <3>3, BareFrame
    <2> QED
      BY <1>4, <2>1, BareSelectValues DEF PassStep
  <1>5. CASE PruneStep
    <2>1. now' = now /\ pass' = pass
      BY <1>5 DEF PruneStep, SelectRecords, SelectRuns, DeleteSelected, DeleteFails
    <2>2. \A v \in Ticks : lineage[v] = {} => lineage'[v] = {}
      BY <1>5 DEF PruneStep, SelectRecords, SelectRuns, DeleteSelected, DeleteFails,
         valueVars, Nulled
    <2> QED
      BY <2>1, <2>2, BareFrame
  <1> QED
    BY <1>1, <1>2, <1>3, <1>4, <1>5, BareTick DEF Next

-----------------------------------------------------------------------------
(* Theorems *)

LEMMA InvInit == Init => Inv
  BY TypeInit, MarginsInit, SelectedInit, ChainedInit, BareInit DEF Inv

LEMMA InvStep == Inv /\ [Next]_vars => Inv'
  BY TypeStep, MarginsStep, SelectedStep, ChainedStep, BareStep DEF Inv

THEOREM RetentionInvariant == Spec => []Inv
  <1> QED
    BY InvInit, InvStep, PTL DEF Spec

\* What a delete takes although nobody wrote it meanwhile is selected by name, old
\* and unnamed.
LEMMA TakenWasSelected ==
    ASSUME Inv, DeleteSelected, NEW r \in Stored, row'[r] = NoRow, r \notin raced
    PROVE  r \notin Standing /\ row[r].touched < now - RawFloor /\ r \notin Named
  <1>1. r \in Stored \ Stored'
    BY DEF Stored
  <1>2. r \in prune.records
    BY <1>1, DeleteTakes DEF Inv, Selected
  <1> QED
    BY <1>2 DEF Inv, Selected

\* Only a delete makes a row disappear.
LEMMA OnlyDeletes ==
    ASSUME RetentionTypeOK, Margins, [Next]_vars, ~ DeleteSelected, NEW r \in Stored
    PROVE  row'[r] # NoRow
  <1>1. CASE row' = row
    BY <1>1 DEF Stored
  <1>2. ASSUME NEW p \in Ingestors, NEW s \in Records, UpsertRecord(p, s)
        PROVE  row'[r] # NoRow
    BY <1>2, UpsertWrites DEF Stored
  <1>3. CASE UNCHANGED vars
    BY <1>1, <1>3 DEF vars
  <1>4. ASSUME NEW p \in Ingestors, BeginIngestion(p) \/ EndIngestion(p)
        PROVE  row' = row
    BY <1>4 DEF BeginIngestion, EndIngestion
  <1>5. ASSUME NEW j \in Jobs, JobStep(j) PROVE row' = row
    BY <1>5 DEF JobStep, ReadRecords, UpsertValue, ClearLineage, WriteLineage, EndJob
  <1>6. ASSUME NEW q \in Passes, PassStep(q) PROVE row' = row
    BY <1>6 DEF PassStep, SelectLineage, DeleteLineage, SelectValues, DeleteValues, PassFails
  <1>7. CASE SelectRecords \/ SelectRuns \/ DeleteFails \/ Tick
    BY <1>1, <1>7 DEF SelectRecords, SelectRuns, DeleteFails, Tick
  <1> QED
    BY <1>1, <1>2, <1>3, <1>4, <1>5, <1>6, <1>7 DEF Next, IngestionStep, PruneStep

\* A record goes only when nothing can use it any more: the margins between the floors
\* of db-prune, the window of materialization and the length of a job stand in for a
\* check that nobody makes (prune.ts:10-22, policy.ts:6-10).
THEOREM NothingUsed == Spec => NothingUsedIsDeleted
  <1>1. ASSUME Inv, [Next]_vars, NEW r \in Stored, row'[r] = NoRow, r \notin raced
        PROVE  /\ r \notin Standing /\ row[r].stamp < now - Window /\ r \notin Named
               /\ \A j \in Jobs : r \notin job[j].read
    <2>1. DeleteSelected
      BY <1>1, OnlyDeletes DEF Inv
    <2>2. r \notin Standing /\ row[r].touched < now - RawFloor /\ r \notin Named
      BY <1>1, <2>1, TakenWasSelected
    <2>3. /\ row[r].stamp \in Nat /\ row[r].touched \in Nat /\ now \in Nat
          /\ row[r].stamp <= row[r].touched
      BY <1>1, StoredTyped, Constants DEF Inv, Margins, RetentionTypeOK
    <2>4. row[r].stamp < now - Window
      BY <2>2, <2>3, Constants
    <2>5. \A j \in Jobs : r \notin job[j].read
      <3> SUFFICES ASSUME NEW j \in Jobs, r \in job[j].read
                   PROVE  FALSE
        OBVIOUS
      <3>1. row[r].touched >= job[j].now - Window /\ now <= job[j].now + Span
        BY <1>1, <2>2 DEF Inv, Margins
      <3>2. job[j].now \in Nat
        BY <1>1, Constants DEF Inv, RetentionTypeOK
      <3> QED
        BY <2>2, <2>3, <3>1, <3>2, Constants
    <2> QED
      BY <2>2, <2>4, <2>5
  <1>2. Inv /\ [Next]_vars =>
           [\A r \in Stored :
               row'[r] = NoRow =>
                  \/ r \in raced
                  \/ /\ r \notin Standing
                     /\ row[r].stamp < now - Window
                     /\ r \notin Named
                     /\ \A j \in Jobs : r \notin job[j].read]_vars
    BY <1>1
  <1> QED
    BY <1>2, RetentionInvariant, PTL DEF Spec, NothingUsedIsDeleted

\* The value that readers are shown keeps its lineage, whatever pruners, ingestions
\* and deletes of records run beside each other (lineage-retention.ts:21-25).
THEOREM LatestStaysExplained == Spec => LatestIsExplained
  <1>1. ASSUME Inv, [Next]_vars, NEW v \in Latest,
               \A j \in Jobs : ~ (job[j].pc = "valued" /\ job[j].now = v)
        PROVE  lineage[v] \subseteq lineage'[v] \cup raced
    <2>0. v \in values /\ v \in Ticks /\ v \in Nat /\ values \subseteq Nat
          /\ \A w \in values : w <= v
      BY <1>1, Constants DEF Inv, RetentionTypeOK, Latest
    <2>1. CASE lineage' = lineage
      BY <2>1
    <2>2. ASSUME NEW j \in Jobs, ClearLineage(j) PROVE lineage[v] \subseteq lineage'[v]
      <3>1. job[j].now # v
        BY <1>1, <2>2 DEF ClearLineage
      <3> QED
        BY <1>1, <2>0, <2>2, <3>1 DEF ClearLineage, Inv, RetentionTypeOK
    <2>3. ASSUME NEW j \in Jobs, WriteLineage(j) PROVE lineage[v] \subseteq lineage'[v]
      BY <1>1, <2>0, <2>3 DEF WriteLineage, Inv, RetentionTypeOK
    <2>4. ASSUME NEW q \in Passes
          PROVE  v \notin pass[q].drain /\ v \notin pass[q].thin
      <3>1. \A w \in values : ~ (v < w)
        BY <2>0
      <3> QED
        BY <1>1, <3>1 DEF Inv, Chained
    <2>5. ASSUME NEW q \in Passes, PassStep(q) PROVE lineage[v] \subseteq lineage'[v]
      <3>1. CASE DeleteLineage(q) \/ DeleteValues(q)
        BY <2>0, <2>4, <3>1 DEF DeleteLineage, DeleteValues
      <3>2. CASE ~ (DeleteLineage(q) \/ DeleteValues(q))
        BY <2>5, <3>2 DEF PassStep, SelectLineage, SelectValues, PassFails, valueVars
      <3> QED
        BY <3>1, <3>2
    <2>6. CASE DeleteSelected
      <3>1. PICK gone : /\ gone = prune.records \cup {r \in Stored : row[r].run \in prune.runs}
                        /\ row' = [r \in Records |-> IF r \in gone THEN NoRow ELSE row[r]]
                        /\ lineage' = [w \in Ticks |-> Nulled(lineage[w], gone)]
        BY <2>6 DEF DeleteSelected
      <3>2. \A r \in gone \cap lineage[v] : r \in raced
        <4> SUFFICES ASSUME NEW r \in gone, r \in lineage[v], r \notin raced
                     PROVE  FALSE
          OBVIOUS
        <4>1. r \in Named
          BY <2>0 DEF Named
        <4>2. r \in Records
          BY <1>1, <3>1 DEF Inv, RetentionTypeOK, Stored
        <4>3. r \in Stored
          BY <1>1, <4>1, <4>2, Constants DEF Inv, RetentionTypeOK
        <4>4. row'[r] = NoRow
          BY <3>1, <4>2
        <4> QED
          BY <1>1, <2>6, <4>1, <4>3, <4>4, TakenWasSelected
      <3>3. lineage[v] \ gone \subseteq lineage'[v]
        BY <2>0, <3>1 DEF Nulled
      <3> QED
        BY <3>2, <3>3
    <2>7. CASE UNCHANGED vars
      BY <2>1, <2>7 DEF vars
    <2>8. ASSUME NEW p \in Ingestors, IngestionStep(p) PROVE lineage' = lineage
      BY <2>8 DEF IngestionStep, BeginIngestion, UpsertRecord, EndIngestion, valueVars
    <2>9. ASSUME NEW j \in Jobs, NEW t \in Ticks, ReadRecords(j, t)
          PROVE  lineage' = lineage
      BY <2>9 DEF ReadRecords, valueVars
    <2>12. ASSUME NEW j \in Jobs, UpsertValue(j) \/ EndJob(j)
           PROVE  lineage' = lineage
      BY <2>12 DEF UpsertValue, EndJob, valueVars
    <2>10. CASE SelectRecords \/ SelectRuns \/ DeleteFails \/ Tick
      BY <2>1, <2>10 DEF SelectRecords, SelectRuns, DeleteFails, Tick, valueVars
    <2>11. ASSUME NEW j \in Jobs, JobStep(j) PROVE lineage[v] \subseteq lineage'[v]
      BY <2>0, <2>2, <2>3, <2>9, <2>11, <2>12 DEF JobStep
    <2> QED
      BY <1>1, <2>1, <2>5, <2>6, <2>7, <2>8, <2>10, <2>11 DEF Next, PruneStep
  <1>2. Inv /\ [Next]_vars =>
           [\A v \in Latest :
               \/ lineage[v] \subseteq lineage'[v] \cup raced
               \/ \E j \in Jobs : job[j].pc = "valued" /\ job[j].now = v]_vars
    BY <1>1
  <1> QED
    BY <1>2, RetentionInvariant, PTL DEF Spec, LatestIsExplained

\* Each day keeps the last value it had, and no value takes lineage with it, whatever
\* passes run side by side and whatever is materialized meanwhile
\* (metric-value-retention.ts:14-16, 28-31).
THEOREM EndOfDayStays == Spec => EndOfDayKept
  <1>1. ASSUME Inv, [Next]_vars, NEW v \in values, v \notin values'
        PROVE  lineage[v] = {} /\ \E w \in values' : v < w /\ Day(w) = Day(v)
    <2>1. PICK q \in Passes : DeleteValues(q)
      <3>1. CASE values \subseteq values'
        BY <1>1, <3>1
      <3>2. ASSUME NEW p \in Ingestors, IngestionStep(p) PROVE values' = values
        BY <3>2 DEF IngestionStep, BeginIngestion, UpsertRecord, EndIngestion, valueVars
      <3>3. ASSUME NEW j \in Jobs, JobStep(j) PROVE values \subseteq values'
        BY <3>3 DEF JobStep, ReadRecords, UpsertValue, ClearLineage, WriteLineage, EndJob,
           valueVars
      <3>4. ASSUME NEW q \in Passes, PassStep(q), ~ DeleteValues(q) PROVE values' = values
        BY <3>4 DEF PassStep, SelectLineage, DeleteLineage, SelectValues, PassFails, valueVars
      <3>5. CASE PruneStep \/ Tick \/ UNCHANGED vars
        BY <3>1, <3>5 DEF PruneStep, SelectRecords, SelectRuns, DeleteSelected, DeleteFails,
           Tick, valueVars, vars
      <3> QED
        BY <1>1, <3>1, <3>2, <3>3, <3>4, <3>5 DEF Next
    <2>2. v \in pass[q].thin
      BY <1>1, <2>1 DEF DeleteValues
    <2>3. PICK w \in values : v < w /\ Day(w) = Day(v)
      BY <1>1, <2>2 DEF Inv, Chained
    <2>4. PICK m \in values' : Day(m) = Day(w) /\ w <= m
      BY <1>1, <2>1, LastStays DEF Inv
    <2>5. v \in Nat /\ w \in Nat /\ m \in Nat
      BY <1>1, <2>1, Constants DEF Inv, RetentionTypeOK, DeleteValues
    <2>6. lineage[v] = {}
      BY <1>1, <2>2 DEF Inv, Bare
    <2> QED
      BY <2>3, <2>4, <2>5, <2>6
  <1>2. Inv /\ [Next]_vars =>
           [\A v \in values \ values' :
               /\ lineage[v] = {}
               /\ \E w \in values' : v < w /\ Day(w) = Day(v)]_vars
    BY <1>1
  <1> QED
    BY <1>2, RetentionInvariant, PTL DEF Spec, EndOfDayKept
=============================================================================
