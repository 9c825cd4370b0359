------------------------- MODULE ProviderSyncProofs -------------------------
(***************************************************************************)
(* Theorems about ProviderSync, for any number of processes, any window,   *)
(* range preset and length of the clock.                                   *)
(*                                                                         *)
(* The argument: a range never begins behind the checkpoint that its run   *)
(* has read, except at the window's start, and what lies before a          *)
(* checkpoint once read stays good.  So a run that stores its range in     *)
(* full makes its own end a true checkpoint, whatever the others did.      *)
(***************************************************************************)
EXTENDS ProviderSync, TLAPS

\* Stored in full, or excused.
Good(d) == stored[d] = "whole" \/ d \in lost

\* A range that begins on day from leaves no day of the window between itself and
\* the day through.
Reaches(from, through) ==
    from <= through \/ \A d \in Days : InWindow(d) => from <= d

Running == {"fetching", "fetched", "ingesting", "recording"}
Answered == {"fetched", "ingesting", "recording"}

RunOK(p) ==
    LET r == run[p]
    IN  /\ r.to <= today
        /\ r.pc \in Running => Reaches(r.from, r.covered)
        /\ \A d \in Days : InWindow(d) /\ d < r.covered => Good(d)
        /\ r.pc \in Answered => r.to <= r.asOf /\ r.asOf <= today
        /\ r.pc \in {"fetched", "ingesting"} => ~r.dry
        /\ r.pc = "ingesting" =>
              /\ \A d \in r.same : d < r.asOf => Good(d)
              /\ \A d \in Days \ r.todo :
                    r.from <= d /\ d <= r.to /\ d < r.asOf => Good(d) \/ r.failed
        /\ r.pc = "recording" /\ ~r.dry =>
              \A d \in Days : r.from <= d /\ d < r.to => Good(d) \/ r.failed

ProviderInv ==
    /\ ProviderTypeOK
    /\ FirstDay <= today
    /\ CheckpointIsTrue
    /\ \A p \in Procs : RunOK(p)

-----------------------------------------------------------------------------
(* Types *)

LEMMA Bounds ==
    /\ Window \in Nat /\ Rolling \in Nat /\ FirstDay \in Nat /\ LastDay \in Nat
    /\ FirstDay > Window /\ LastDay >= FirstDay
    /\ MaxFaults \in Nat /\ MaxOrders \in Nat
BY ProviderAssumption

LEMMA DaysAreNumbers == \A d \in Days : d \in Nat /\ d > 0
BY Bounds DEF Days

LEMMA IdleTyped == Idle \in RunType
BY DEF Idle, RunType, NoDay

LEMMA InitCorrect == Init => ProviderInv
<1> SUFFICES ASSUME Init PROVE ProviderInv
  OBVIOUS
<1>1. ProviderTypeOK
  BY Bounds, IdleTyped DEF Init, ProviderTypeOK, Days, Parts, NoDay
<1>2. FirstDay <= today
  BY Bounds DEF Init
<1>3. CheckpointIsTrue
  BY DaysAreNumbers DEF Init, CheckpointIsTrue, NoDay
<1>4. ASSUME NEW p \in Procs PROVE RunOK(p)
  <2>1. run[p] = Idle
    BY <1>4 DEF Init
  <2> QED
    BY <2>1, <1>2, Bounds, DaysAreNumbers DEF Init, RunOK, Idle, Running, Answered, NoDay
<1> QED
  BY <1>1, <1>2, <1>3, <1>4 DEF ProviderInv

\* A range begins within the clock, and behind the window's start only as far as the
\* checkpoint reaches.
LEMMA RangeFollows ==
    ASSUME NEW through \in Nat, NEW backfill \in BOOLEAN, today \in Days, FirstDay <= today
    PROVE  /\ RangeFrom(today, through, backfill) \in Nat
           /\ Reaches(RangeFrom(today, through, backfill), through)
<1>1. today \in FirstDay..LastDay /\ Rolling \in Nat
  BY Bounds, DaysAreNumbers DEF Days
<1>2. HistoricalStart(today) \in Nat
  <2>1. Overflow[today] \in Nat /\ today - Window \in Nat
    BY <1>1, Bounds, ProviderAssumption
  <2> QED
    BY <2>1 DEF HistoricalStart
<1>4. \A d \in Days : InWindow(d) => HistoricalStart(today) <= d
  BY <1>1, Bounds DEF InWindow
<1>5. CASE backfill \/ through = NoDay
  BY <1>2, <1>4, <1>5 DEF RangeFrom, Reaches
<1>3. CASE ~(backfill \/ through = NoDay)
  <2>1. RangeFrom(today, through, backfill) = IncrementalFrom(today, through)
    BY <1>3 DEF RangeFrom
  <2> DEFINE catchUp == IF through < RollingFrom(today) THEN through ELSE RollingFrom(today)
  <2>2. RollingFrom(today) \in Int
    BY <1>1, Bounds DEF RollingFrom
  <2>3. catchUp \in Int /\ catchUp <= through
    BY <2>2
  <2>4. IncrementalFrom(today, through)
           = IF catchUp < HistoricalStart(today) THEN HistoricalStart(today) ELSE catchUp
    BY DEF IncrementalFrom
  <2>5. CASE catchUp < HistoricalStart(today)
    BY <1>2, <1>4, <2>1, <2>4, <2>5 DEF Reaches
  <2>6. CASE ~(catchUp < HistoricalStart(today))
    BY <1>2, <2>1, <2>3, <2>4, <2>6 DEF Reaches
  <2> QED
    BY <2>5, <2>6
<1> QED
  BY <1>3, <1>5

LEMMA MoveTyped ==
    ASSUME ProviderTypeOK, NEW p \in Procs, NEW next \in RunType, Move(p, next)
    PROVE  run' \in [Procs -> RunType]
BY DEF ProviderTypeOK, Move

LEMMA Moved ==
    ASSUME ProviderTypeOK, NEW p \in Procs, NEW next, Move(p, next)
    PROVE  run'[p] = next /\ \A q \in Procs \ {p} : run'[q] = run[q]
BY DEF ProviderTypeOK, Move

\* The successors that the actions give a run are runs.
LEMMA RunTyped ==
    ASSUME ProviderTypeOK, NEW p \in Procs
    PROVE  run[p] \in RunType /\ run[p].todo \subseteq Days /\ run[p].same \subseteq Days
           /\ run[p].from \in Nat /\ run[p].to \in Nat /\ run[p].covered \in Nat
           /\ run[p].asOf \in Nat /\ run[p].dry \in BOOLEAN
           /\ run[p].accepted \in BOOLEAN /\ run[p].failed \in BOOLEAN
BY DEF ProviderTypeOK, RunType

LEMMA SeenTyped == \A d, asOf \in Nat : Seen(d, asOf) \in Parts
BY DEF Seen, Parts

-----------------------------------------------------------------------------
(* What a step leaves as it is *)

\* A good day stays good: an older answer that overwrites it makes it a lost one.
Steady == \A d \in Days : Good(d) => Good(d)'

LEMMA StaySteady ==
    ASSUME stored' = stored, lost \subseteq lost'
    PROVE  Steady
BY DEF Steady, Good

\* A day that has been outside the window has been so for good.
LEMMA WindowShrinks ==
    ASSUME today \in Days, today' \in {today, today + 1}
    PROVE  /\ \A d \in Days : InWindow(d)' => InWindow(d)
           /\ \A from, through : Reaches(from, through) => Reaches(from, through)'
<1>1. FirstDay..today \subseteq FirstDay..today'
  BY Bounds, DaysAreNumbers
<1>2. \A d \in Days : InWindow(d)' => InWindow(d)
  BY <1>1 DEF InWindow, HistoricalStart
<1> QED
  BY <1>2 DEF Reaches

\* The checkpoint that is not written, and a run that does not move.
LEMMA CheckpointStays ==
    ASSUME ProviderInv, Steady, covered' = covered, today' \in {today, today + 1}
    PROVE  CheckpointIsTrue'
<1>1. \A d \in Days : InWindow(d)' => InWindow(d)
  BY WindowShrinks DEF ProviderInv, ProviderTypeOK
<1> QED
  BY <1>1 DEF ProviderInv, CheckpointIsTrue, Steady, Good

LEMMA RunStays ==
    ASSUME ProviderInv, Steady, NEW p \in Procs, run'[p] = run[p],
           today' \in {today, today + 1}
    PROVE  RunOK(p)'
<1>1. today \in Nat /\ today' \in Nat /\ today <= today'
  BY DaysAreNumbers DEF ProviderInv, ProviderTypeOK
<1>2. \A d \in Days : InWindow(d)' => InWindow(d)
  BY WindowShrinks DEF ProviderInv, ProviderTypeOK
<1>3. \A from, through : Reaches(from, through) => Reaches(from, through)'
  BY WindowShrinks DEF ProviderInv, ProviderTypeOK
<1>4. RunOK(p)
  BY DEF ProviderInv
<1>5. PICK r : r = run[p]
  OBVIOUS
<1>6. r.from \in Nat /\ r.to \in Nat /\ r.covered \in Nat /\ r.asOf \in Nat
      /\ r.same \subseteq Days
  BY <1>5, RunTyped DEF ProviderInv
<1>7. r.to <= today' /\ (r.pc \in Running => Reaches(r.from, r.covered)')
      /\ (r.pc \in Answered => r.to <= r.asOf /\ r.asOf <= today')
      /\ (r.pc \in {"fetched", "ingesting"} => ~r.dry)
  BY <1>1, <1>3, <1>4, <1>5, <1>6 DEF RunOK
<1>8. \A d \in Days : InWindow(d)' /\ d < r.covered => Good(d)'
  BY <1>2, <1>4, <1>5 DEF RunOK, Steady
<1>9. r.pc = "ingesting" =>
          /\ \A d \in r.same : d < r.asOf => Good(d)'
          /\ \A d \in Days \ r.todo :
                r.from <= d /\ d <= r.to /\ d < r.asOf => Good(d)' \/ r.failed
  BY <1>4, <1>5, <1>6 DEF RunOK, Steady
<1>10. r.pc = "recording" /\ ~r.dry =>
          \A d \in Days : r.from <= d /\ d < r.to => Good(d)' \/ r.failed
  BY <1>4, <1>5 DEF RunOK, Steady
<1> QED
  BY <1>5, <1>7, <1>8, <1>9, <1>10 DEF RunOK, Reaches

\* A step that only moves one run keeps all but that run.
Quiet == UNCHANGED <<today, covered, stored, lost>>

LEMMA OnlyRunMoves ==
    ASSUME ProviderInv, NEW p \in Procs, NEW next \in RunType, Move(p, next), Quiet,
           rule' = rule, faults' \in Nat, orders' \in Nat, RunOK(p)'
    PROVE  ProviderInv'
<1>1. Steady /\ today' \in {today, today + 1} /\ covered' = covered
  BY StaySteady DEF Quiet
<1>2. ProviderTypeOK'
  BY MoveTyped DEF ProviderInv, ProviderTypeOK, Quiet
<1>3. CheckpointIsTrue'
  BY <1>1, CheckpointStays
<1>4. ASSUME NEW q \in Procs PROVE RunOK(q)'
  <2>1. CASE q = p
    BY <2>1
  <2>2. CASE q # p
    BY <1>1, <2>2, RunStays, Moved DEF ProviderInv
  <2> QED
    BY <2>1, <2>2
<1>5. (FirstDay <= today)'
  BY DEF ProviderInv, Quiet
<1> QED
  BY <1>2, <1>3, <1>4, <1>5 DEF ProviderInv

LEMMA IdleIsFine ==
    ASSUME NEW p \in Procs, run'[p] = Idle, today' \in Nat
    PROVE  RunOK(p)'
BY DaysAreNumbers DEF RunOK, Idle, Running, Answered, NoDay

LEMMA RunEnds ==
    ASSUME ProviderInv, NEW p \in Procs, Move(p, Idle), Quiet, rule' = rule,
           faults' \in Nat, orders' \in Nat
    PROVE  ProviderInv'
<1>1. run'[p] = Idle
  BY Moved DEF ProviderInv
<1>2. today' \in Nat
  BY DaysAreNumbers DEF Quiet, ProviderInv, ProviderTypeOK
<1> QED
  BY <1>1, <1>2, IdleIsFine, IdleTyped, OnlyRunMoves

LEMMA Counted ==
    ASSUME ProviderTypeOK
    PROVE  /\ Fault => faults' \in Nat
           /\ Order => orders' \in Nat
           /\ faults \in Nat /\ orders \in Nat
BY DEF ProviderTypeOK, Fault, Order

-----------------------------------------------------------------------------
(* The actions *)

LEMMA RuleStep ==
    ASSUME ProviderInv, Bootstrap \/ GetOrCreate \/ Patch
    PROVE  ProviderInv'
<1>1. UNCHANGED <<today, covered, stored, run, lost>>
  BY DEF Bootstrap, GetOrCreate, Patch
<1>2. Steady
  BY <1>1, StaySteady
<1>3. ProviderTypeOK'
  BY <1>1, Counted DEF ProviderInv, ProviderTypeOK, Bootstrap, GetOrCreate, Patch
<1>4. CheckpointIsTrue'
  BY <1>1, <1>2, CheckpointStays
<1>5. \A p \in Procs : RunOK(p)'
  BY <1>1, <1>2, RunStays
<1> QED
  BY <1>1, <1>3, <1>4, <1>5 DEF ProviderInv

LEMMA MidnightStep ==
    ASSUME ProviderInv, Midnight
    PROVE  ProviderInv'
<1>1. UNCHANGED <<rule, covered, stored, run, lost, faults, orders>> /\ today' = today + 1
  BY DEF Midnight
<1>2. Steady
  BY <1>1, StaySteady
<1>3. today' \in Days /\ (FirstDay <= today)'
  BY <1>1, Bounds DEF Midnight, ProviderInv, ProviderTypeOK, Days
<1>4. ProviderTypeOK'
  BY <1>1, <1>3 DEF ProviderInv, ProviderTypeOK
<1>5. CheckpointIsTrue'
  BY <1>1, <1>2, CheckpointStays
<1>6. \A p \in Procs : RunOK(p)'
  BY <1>1, <1>2, RunStays
<1> QED
  BY <1>3, <1>4, <1>5, <1>6 DEF ProviderInv

LEMMA BeginStep ==
    ASSUME ProviderInv, NEW p \in Procs, NEW dry \in BOOLEAN, NEW backfill \in BOOLEAN,
           Begin(p, dry, backfill), Quiet, rule' = rule, faults' \in Nat, orders' \in Nat
    PROVE  ProviderInv'
<1> DEFINE from == RangeFrom(today, covered, backfill)
           next == [Idle EXCEPT !.pc = "fetching", !.dry = dry, !.from = from,
                                !.to = today, !.covered = covered]
<1>1. Move(p, next)
  BY DEF Begin
<1>2. today \in Nat /\ today \in Days /\ covered \in Nat /\ FirstDay <= today
  BY DaysAreNumbers DEF ProviderInv, ProviderTypeOK
<1>3. from \in Nat /\ Reaches(from, covered)
  BY <1>2, RangeFollows
<1>4. PICK f : f = from
  OBVIOUS
<1>5. next = [Idle EXCEPT !.pc = "fetching", !.dry = dry, !.from = f,
                          !.to = today, !.covered = covered]
  BY <1>4
<1>6. next \in RunType
  BY <1>2, <1>3, <1>4, <1>5, IdleTyped DEF RunType, Idle
<1>7. /\ next.pc = "fetching" /\ next.to = today /\ next.from = f /\ next.covered = covered
  BY <1>5 DEF Idle
<1> HIDE DEF next, from
<1>8. run'[p] = next
  BY <1>1, Moved DEF ProviderInv
<1>9. RunOK(p)'
  <2>1. \A d \in Days : InWindow(d) /\ d < covered => Good(d)
    BY DEF ProviderInv, CheckpointIsTrue, InWindow, Good
  <2>2. \A d \in Days : InWindow(d)' /\ d < covered => Good(d)'
    BY <2>1 DEF Quiet, InWindow, Good
  <2>3. today' = today
    BY DEF Quiet
  <2> QED
    BY <1>2, <1>3, <1>4, <1>7, <1>8, <2>2, <2>3
       DEF RunOK, Running, Answered, Reaches, InWindow
<1> QED
  BY <1>1, <1>6, <1>9, OnlyRunMoves

LEMMA FetchStep ==
    ASSUME ProviderInv, NEW p \in Procs, Fetch(p)
    PROVE  ProviderInv'
<1>1. PICK r : r = run[p]
  OBVIOUS
<1>2. r \in RunType /\ RunOK(p) /\ ProviderTypeOK
  BY <1>1, RunTyped DEF ProviderInv
<1>3. PICK next : next = [r EXCEPT !.pc = IF r.dry THEN "recording" ELSE "fetched",
                                   !.asOf = today]
  OBVIOUS
<1>4. Move(p, next) /\ Quiet /\ rule' = rule /\ r.pc = "fetching"
      /\ faults' = faults /\ orders' = orders
  BY <1>1, <1>3 DEF Fetch, Quiet
<1>5. today \in Nat
  BY <1>2, DaysAreNumbers DEF ProviderTypeOK
<1>6. /\ next \in RunType
      /\ next.pc \in {"recording", "fetched"} /\ (next.pc = "recording" => next.dry)
      /\ (next.pc = "fetched" => ~next.dry)
      /\ next.to = r.to /\ next.from = r.from /\ next.covered = r.covered
      /\ next.asOf = today
  BY <1>2, <1>3, <1>5 DEF RunType
<1>7. run'[p] = next
  BY <1>2, <1>4, Moved
<1>8. RunOK(p)'
  <2>1. \A d \in Days : InWindow(d)' /\ d < next.covered => Good(d)'
    BY <1>1, <1>2, <1>4, <1>6 DEF RunOK, Quiet, InWindow, Good
  <2>2. today' = today
    BY <1>4 DEF Quiet
  <2>3. next.to <= today /\ Reaches(next.from, next.covered)
    BY <1>1, <1>2, <1>4, <1>6 DEF RunOK, Running
  <2> QED
    BY <1>5, <1>6, <1>7, <2>1, <2>2, <2>3 DEF RunOK, Reaches, InWindow
<1> QED
  BY <1>2, <1>4, <1>6, <1>8, OnlyRunMoves, Counted

LEMMA PrefetchStep ==
    ASSUME ProviderInv, NEW p \in Procs, Prefetch(p)
    PROVE  ProviderInv'
<1>1. PICK r : r = run[p]
  OBVIOUS
<1>2. r \in RunType /\ RunOK(p) /\ ProviderTypeOK
  BY <1>1, RunTyped DEF ProviderInv
<1>3. PICK range : range = {d \in Days : r.from <= d /\ d <= r.to}
  OBVIOUS
<1>4. PICK same : /\ same \in {{d \in range : stored[d] = Seen(d, r.asOf)}, {}}
                  /\ Move(p, [r EXCEPT !.pc = "ingesting", !.todo = range, !.same = same])
  BY <1>1, <1>3 DEF Prefetch
<1>5. PICK next : next = [r EXCEPT !.pc = "ingesting", !.todo = range, !.same = same]
  OBVIOUS
<1>6. Move(p, next) /\ Quiet /\ rule' = rule /\ r.pc = "fetched"
      /\ faults' = faults /\ orders' = orders
  BY <1>1, <1>4, <1>5 DEF Prefetch, Quiet
<1>7. range \subseteq Days /\ same \subseteq Days
      /\ \A d \in same : stored[d] = Seen(d, r.asOf)
  BY <1>3, <1>4
<1>8. /\ next \in RunType
      /\ next.pc = "ingesting" /\ next.todo = range /\ next.same = same
      /\ next.to = r.to /\ next.from = r.from /\ next.covered = r.covered
      /\ next.asOf = r.asOf /\ next.dry = r.dry
  BY <1>2, <1>5, <1>7 DEF RunType
<1>9. run'[p] = next
  BY <1>2, <1>6, Moved
<1>10. RunOK(p)'
  <2>1. \A d \in Days : InWindow(d)' /\ d < next.covered => Good(d)'
    BY <1>1, <1>2, <1>6, <1>8 DEF RunOK, Quiet, InWindow, Good
  <2>2. today' = today
    BY <1>6 DEF Quiet
  <2>3. /\ next.to <= today
        /\ Reaches(next.from, next.covered)
        /\ next.to <= next.asOf /\ next.asOf <= today /\ ~next.dry
    BY <1>1, <1>2, <1>6, <1>8 DEF RunOK, Running, Answered
  <2>4. \A d \in next.same : d < next.asOf => Good(d)'
    BY <1>6, <1>7, <1>8 DEF Seen, Good, Quiet
  <2>5. \A d \in Days \ next.todo : ~(next.from <= d /\ d <= next.to)
    BY <1>3, <1>8
  <2> QED
    BY <1>8, <1>9, <2>1, <2>2, <2>3, <2>4, <2>5 DEF RunOK, Reaches, InWindow
<1> QED
  BY <1>2, <1>6, <1>8, <1>10, OnlyRunMoves, Counted

\* A record that was not written, or needed no write: the day is done with.
LEMMA DayIsDone ==
    ASSUME ProviderInv, NEW p \in Procs, NEW d \in Days, run[p].pc = "ingesting", Steady,
           today' = today, NEW next \in RunType, run'[p] = next,
           next.pc = "ingesting", next.todo = run[p].todo \ {d}, next.same = run[p].same,
           next.to = run[p].to, next.from = run[p].from, next.covered = run[p].covered,
           next.asOf = run[p].asOf, next.dry = run[p].dry, run[p].failed => next.failed,
           d < run[p].asOf => Good(d)' \/ next.failed
    PROVE  RunOK(p)'
<1>1. RunOK(p)
  BY DEF ProviderInv
<1>2. \A e \in Days : Good(e) => Good(e)'
  BY DEF Steady
<1>3. \A e \in Days : InWindow(e)' /\ e < next.covered => Good(e)'
  BY <1>1, <1>2 DEF RunOK, InWindow
<1>4. /\ next.to <= today
      /\ Reaches(next.from, next.covered)
      /\ next.to <= next.asOf /\ next.asOf <= today /\ ~next.dry
  BY <1>1 DEF RunOK, Running, Answered
<1>5. \A e \in next.same : e < next.asOf => Good(e)'
  BY <1>1, <1>2 DEF RunOK, RunType
<1>6. ASSUME NEW e \in Days \ next.todo, next.from <= e, e <= next.to, e < next.asOf
      PROVE  Good(e)' \/ next.failed
  <2>1. CASE e = d
    BY <1>6, <2>1
  <2>2. CASE e # d
    BY <1>1, <1>2, <1>6, <2>2 DEF RunOK
  <2> QED
    BY <2>1, <2>2
<1> QED
  BY <1>3, <1>4, <1>5, <1>6 DEF RunOK, Reaches, InWindow

LEMMA SkipStep ==
    ASSUME ProviderInv, NEW p \in Procs, NEW d \in run[p].todo, Skip(p, d)
    PROVE  ProviderInv'
<1>1. PICK r : r = run[p]
  OBVIOUS
<1>2. r \in RunType /\ RunOK(p) /\ ProviderTypeOK /\ d \in Days
  BY <1>1, RunTyped DEF ProviderInv
<1>3. PICK next : next = [r EXCEPT !.todo = r.todo \ {d}, !.accepted = TRUE]
  OBVIOUS
<1>4. Move(p, next) /\ Quiet /\ rule' = rule /\ r.pc = "ingesting" /\ d \in r.same
      /\ faults' = faults /\ orders' = orders
  BY <1>1, <1>3 DEF Skip, Upcoming, Quiet
<1>5. /\ next \in RunType
      /\ next.pc = r.pc /\ next.todo = r.todo \ {d} /\ next.same = r.same
      /\ next.to = r.to /\ next.from = r.from /\ next.covered = r.covered
      /\ next.asOf = r.asOf /\ next.dry = r.dry /\ next.failed = r.failed
  BY <1>2, <1>3 DEF RunType
<1>6. run'[p] = next
  BY <1>2, <1>4, Moved
<1>7. Steady /\ today' = today
  BY <1>4, StaySteady DEF Quiet
<1>8. d < r.asOf => Good(d)'
  BY <1>1, <1>2, <1>4, <1>7 DEF RunOK, Steady
<1>9. RunOK(p)'
  BY <1>1, <1>2, <1>4, <1>5, <1>6, <1>7, <1>8, DayIsDone
<1> QED
  BY <1>2, <1>4, <1>5, <1>9, OnlyRunMoves, Counted

LEMMA UpsertFailsStep ==
    ASSUME ProviderInv, NEW p \in Procs, NEW d \in run[p].todo, UpsertFails(p, d)
    PROVE  ProviderInv'
<1>1. PICK r : r = run[p]
  OBVIOUS
<1>2. r \in RunType /\ RunOK(p) /\ ProviderTypeOK /\ d \in Days
  BY <1>1, RunTyped DEF ProviderInv
<1>3. PICK next : next = [r EXCEPT !.todo = r.todo \ {d}, !.failed = TRUE]
  OBVIOUS
<1>4. Move(p, next) /\ Quiet /\ rule' = rule /\ r.pc = "ingesting"
      /\ faults' \in Nat /\ orders' = orders
  BY <1>1, <1>2, <1>3, Counted DEF UpsertFails, Upcoming, Quiet
<1>5. /\ next \in RunType
      /\ next.pc = r.pc /\ next.todo = r.todo \ {d} /\ next.same = r.same
      /\ next.to = r.to /\ next.from = r.from /\ next.covered = r.covered
      /\ next.asOf = r.asOf /\ next.dry = r.dry /\ next.failed
  BY <1>2, <1>3 DEF RunType
<1>6. run'[p] = next
  BY <1>2, <1>4, Moved
<1>7. Steady /\ today' = today
  BY <1>4, StaySteady DEF Quiet
<1>8. RunOK(p)'
  BY <1>1, <1>2, <1>4, <1>5, <1>6, <1>7, DayIsDone
<1> QED
  BY <1>2, <1>4, <1>5, <1>8, OnlyRunMoves, Counted

LEMMA UpsertStep ==
    ASSUME ProviderInv, NEW p \in Procs, NEW d \in run[p].todo, Upsert(p, d)
    PROVE  ProviderInv'
<1>1. PICK r : r = run[p]
  OBVIOUS
<1>2. r \in RunType /\ RunOK(p) /\ ProviderTypeOK /\ d \in Days /\ d \in Nat /\ r.asOf \in Nat
  BY <1>1, RunTyped, DaysAreNumbers DEF ProviderInv
<1>3. PICK next : next = [r EXCEPT !.todo = r.todo \ {d}, !.accepted = TRUE]
  OBVIOUS
<1>4. PICK seen : seen = Seen(d, r.asOf)
  OBVIOUS
<1>5. /\ Move(p, next) /\ r.pc = "ingesting"
      /\ UNCHANGED <<today, rule, covered, faults, orders>>
      /\ stored' = [stored EXCEPT ![d] = seen]
      /\ lost' = IF seen = "whole" THEN lost \ {d}
                 ELSE IF stored[d] = "whole" THEN lost \cup {d}
                 ELSE lost
  BY <1>1, <1>3, <1>4 DEF Upsert, Upcoming
<1>6. /\ next \in RunType
      /\ next.pc = r.pc /\ next.todo = r.todo \ {d} /\ next.same = r.same
      /\ next.to = r.to /\ next.from = r.from /\ next.covered = r.covered
      /\ next.asOf = r.asOf /\ next.dry = r.dry /\ next.failed = r.failed
  BY <1>2, <1>3 DEF RunType
<1>7. run'[p] = next /\ \A q \in Procs \ {p} : run'[q] = run[q]
  BY <1>2, <1>5, Moved
<1>8. seen \in Parts /\ (d < r.asOf => seen = "whole")
  BY <1>2, <1>4, SeenTyped DEF Seen
<1>9. stored' \in [Days -> Parts] /\ stored'[d] = seen
      /\ \A e \in Days \ {d} : stored'[e] = stored[e]
  BY <1>2, <1>5, <1>8 DEF ProviderTypeOK
<1>10. lost' \subseteq Days /\ \A e \in Days \ {d} : e \in lost => e \in lost'
  BY <1>2, <1>5 DEF ProviderTypeOK
<1>11. Steady
  <2> SUFFICES ASSUME NEW e \in Days, Good(e) PROVE Good(e)'
    BY DEF Steady
  <2>1. CASE e # d
    BY <1>9, <1>10, <2>1 DEF Good
  <2>2. CASE e = d /\ seen = "whole"
    BY <1>9, <2>2 DEF Good
  <2>3. CASE e = d /\ seen # "whole"
    BY <1>5, <2>3 DEF Good
  <2> QED
    BY <2>1, <2>2, <2>3
<1>12. d < r.asOf => Good(d)'
  BY <1>8, <1>9 DEF Good
<1>13. ASSUME NEW q \in Procs PROVE RunOK(q)'
  <2>1. CASE q = p
    BY <1>1, <1>2, <1>5, <1>6, <1>7, <1>11, <1>12, <2>1, DayIsDone
  <2>2. CASE q # p
    BY <1>5, <1>7, <1>11, <2>2, RunStays
  <2> QED
    BY <2>1, <2>2
<1>14. CheckpointIsTrue'
  BY <1>5, <1>11, CheckpointStays
<1>15. run' \in [Procs -> RunType]
  BY <1>2, <1>5, <1>6, MoveTyped
<1>16. ProviderTypeOK'
  BY <1>2, <1>5, <1>9, <1>10, <1>15 DEF ProviderTypeOK
<1>17. (FirstDay <= today)'
  BY <1>5 DEF ProviderInv
<1> QED
  BY <1>13, <1>14, <1>16, <1>17 DEF ProviderInv

LEMMA ConcludeStep ==
    ASSUME ProviderInv, NEW p \in Procs, Conclude(p)
    PROVE  ProviderInv'
<1>1. PICK r : r = run[p]
  OBVIOUS
<1>2. r \in RunType /\ RunOK(p) /\ ProviderTypeOK /\ r.from \in Nat /\ r.to \in Nat
      /\ r.asOf \in Nat
  BY <1>1, RunTyped DEF ProviderInv
<1>3. Quiet /\ rule' = rule /\ faults' \in Nat /\ orders' \in Nat
      /\ r.pc = "ingesting" /\ r.todo = {}
  BY <1>1, <1>2, Counted DEF Conclude, Quiet
<1>4. CASE r.failed /\ ~r.accepted
  <2>1. Move(p, Idle)
    BY <1>1, <1>4 DEF Conclude
  <2> QED
    BY <1>3, <2>1, RunEnds
<1>5. CASE ~(r.failed /\ ~r.accepted)
  <2>1. PICK next : next = [r EXCEPT !.pc = "recording"]
    OBVIOUS
  <2>2. Move(p, next)
    BY <1>1, <1>5, <2>1 DEF Conclude
  <2>3. /\ next \in RunType
        /\ next.pc = "recording" /\ next.to = r.to /\ next.from = r.from
        /\ next.covered = r.covered
        /\ next.asOf = r.asOf /\ next.dry = r.dry /\ next.failed = r.failed
    BY <1>2, <2>1 DEF RunType
  <2>4. run'[p] = next
    BY <1>2, <2>2, Moved
  <2>5. RunOK(p)'
    <3>1. today' = today /\ \A d \in Days : (Good(d)' <=> Good(d)) /\ (InWindow(d)' <=> InWindow(d))
      BY <1>3 DEF Quiet, Good, InWindow
    <3>2. \A d \in Days : r.from <= d /\ d < r.to => Good(d) \/ r.failed
      BY <1>1, <1>2, <1>3, DaysAreNumbers DEF RunOK, Answered
    <3>3. /\ r.to <= today /\ r.to <= r.asOf /\ r.asOf <= today
          /\ Reaches(r.from, r.covered)
          /\ \A d \in Days : InWindow(d) /\ d < r.covered => Good(d)
      BY <1>1, <1>2, <1>3 DEF RunOK, Answered, Running
    <3> QED
      BY <2>3, <2>4, <3>1, <3>2, <3>3 DEF RunOK, Reaches
  <2> QED
    BY <1>3, <2>2, <2>3, <2>5, OnlyRunMoves
<1> QED
  BY <1>4, <1>5

LEMMA RecordStep ==
    ASSUME ProviderInv, NEW p \in Procs, Record(p)
    PROVE  ProviderInv'
<1>1. PICK r : r = run[p]
  OBVIOUS
<1>2. r \in RunType /\ RunOK(p) /\ ProviderTypeOK /\ r.from \in Nat /\ r.to \in Nat
      /\ r.covered \in Nat /\ today \in Nat /\ Window \in Nat
  BY <1>1, RunTyped, Bounds, DaysAreNumbers DEF ProviderInv, ProviderTypeOK
<1>3. /\ r.pc = "recording" /\ Move(p, Idle)
      /\ covered' = IF r.failed THEN r.covered ELSE r.to
      /\ lost' = IF r.dry THEN lost \cup Missing(r.to) ELSE lost
      /\ UNCHANGED <<today, rule, stored, faults, orders>>
  BY <1>1 DEF Record
<1>4. Missing(r.to) \subseteq Days
  BY DEF Missing
<1>5. lost \subseteq lost' /\ lost' \subseteq Days
  BY <1>2, <1>3, <1>4 DEF ProviderTypeOK
<1>6. Steady
  BY <1>3, <1>5, StaySteady
<1>7. run'[p] = Idle /\ \A q \in Procs \ {p} : run'[q] = run[q]
  BY <1>2, <1>3, Moved
<1>8. ASSUME NEW q \in Procs PROVE RunOK(q)'
  <2>1. CASE q = p
    BY <1>2, <1>3, <1>7, <2>1, IdleIsFine
  <2>2. CASE q # p
    BY <1>3, <1>6, <1>7, <2>2, RunStays
  <2> QED
    BY <2>1, <2>2
<1>9. CheckpointIsTrue'
  <2> SUFFICES ASSUME NEW d \in Days, InWindow(d), d < covered'
               PROVE  stored[d] = "whole" \/ d \in lost'
    BY <1>3 DEF CheckpointIsTrue, InWindow
  <2>1. CASE r.failed
    BY <1>1, <1>2, <1>3, <1>5, <2>1 DEF RunOK, InWindow, Good
  <2>2. CASE ~r.failed /\ r.dry
    BY <1>3, <2>2 DEF Missing
  <2>3. CASE ~r.failed /\ ~r.dry
    <3>1. d < r.to /\ d \in Nat
      BY <1>2, <1>3, <2>3, DaysAreNumbers
    <3>2. CASE r.from <= d
      BY <1>1, <1>2, <1>3, <1>5, <2>3, <3>1, <3>2 DEF RunOK, Good
    <3>3. CASE ~(r.from <= d)
      <4>1. Reaches(r.from, r.covered)
        BY <1>1, <1>2, <1>3 DEF RunOK, Running
      <4>2. r.from <= r.covered
        BY <3>3, <4>1 DEF Reaches
      <4>3. d < r.covered
        BY <1>2, <3>1, <3>3, <4>2
      <4> QED
        BY <1>1, <1>2, <1>5, <4>3 DEF RunOK, InWindow, Good
    <3> QED
      BY <3>2, <3>3
  <2> QED
    BY <2>1, <2>2, <2>3
<1>10. run' \in [Procs -> RunType]
  BY <1>2, <1>3, MoveTyped, IdleTyped
<1>11. ProviderTypeOK'
  BY <1>2, <1>3, <1>5, <1>10 DEF ProviderTypeOK
<1>12. (FirstDay <= today)'
  BY <1>3 DEF ProviderInv
<1> QED
  BY <1>8, <1>9, <1>11, <1>12 DEF ProviderInv

LEMMA RunStopsStep ==
    ASSUME ProviderInv, NEW p \in Procs, RunFails(p) \/ Unrecorded(p)
    PROVE  ProviderInv'
<1>1. Move(p, Idle) /\ Quiet /\ rule' = rule /\ Fault /\ orders' = orders
  BY DEF RunFails, Unrecorded, Quiet
<1>2. faults' \in Nat /\ orders' \in Nat
  BY <1>1, Counted DEF ProviderInv
<1> QED
  BY <1>1, <1>2, RunEnds

-----------------------------------------------------------------------------
(* The theorems *)

LEMMA NextKeepsInv == ProviderInv /\ [Next]_vars => ProviderInv'
<1> SUFFICES ASSUME ProviderInv, [Next]_vars PROVE ProviderInv'
  OBVIOUS
<1>1. CASE Bootstrap \/ GetOrCreate \/ Patch
  BY <1>1, RuleStep
<1>2. CASE Midnight
  BY <1>2, MidnightStep
<1>3. ASSUME NEW p \in Cycles, Cycle(p) PROVE ProviderInv'
  <2>1. p \in Procs /\ Begin(p, FALSE, FALSE) /\ Quiet /\ rule' = rule
        /\ faults' = faults /\ orders' = orders
    BY <1>3 DEF Cycle, Quiet, Procs
  <2> QED
    BY <2>1, BeginStep, Counted DEF ProviderInv
<1>4. ASSUME NEW p \in Requests, Request(p) PROVE ProviderInv'
  <2>1. p \in Procs /\ Quiet /\ rule' = rule /\ faults' = faults /\ Order
    BY <1>4 DEF Request, Quiet, Procs
  <2>2. PICK dry \in BOOLEAN, backfill \in BOOLEAN : Begin(p, dry, backfill)
    BY <1>4 DEF Request
  <2>3. faults' \in Nat /\ orders' \in Nat
    BY <2>1, Counted DEF ProviderInv
  <2> QED
    BY <2>1, <2>2, <2>3, BeginStep
<1>5. ASSUME NEW p \in Procs, RunStep(p) PROVE ProviderInv'
  BY <1>5, FetchStep, PrefetchStep, ConcludeStep, RecordStep, SkipStep, UpsertStep
     DEF RunStep
<1>6. ASSUME NEW p \in Procs, FaultStep(p) PROVE ProviderInv'
  BY <1>6, RunStopsStep, UpsertFailsStep DEF FaultStep
<1>7. CASE UNCHANGED vars
  <2>1. UNCHANGED <<today, rule, covered, stored, run, lost, faults, orders>>
    BY <1>7 DEF vars
  <2>2. Steady
    BY <2>1, StaySteady
  <2>3. ProviderTypeOK' /\ (FirstDay <= today)'
    BY <2>1 DEF ProviderInv, ProviderTypeOK
  <2> QED
    BY <2>1, <2>2, <2>3, CheckpointStays, RunStays DEF ProviderInv
<1> QED
  BY <1>1, <1>2, <1>3, <1>4, <1>5, <1>6, <1>7 DEF Next

\* The invariant holds in every state.
THEOREM ProviderInvariant == Spec => []ProviderInv
<1>1. Init => ProviderInv
  BY InitCorrect
<1>2. ProviderInv /\ [Next]_vars => ProviderInv'
  BY NextKeepsInv
<1> QED
  BY <1>1, <1>2, PTL DEF Spec

\* The variables keep their types, whatever the constants.
THEOREM ProviderTyped == Spec => []ProviderTypeOK
<1>1. ProviderInv => ProviderTypeOK
  BY DEF ProviderInv
<1> QED
  BY <1>1, ProviderInvariant, PTL

\* Failed and partial runs, lags, overlapping runs and stale copies of the checkpoint
\* never leave a hole behind it that neither a dry run nor an older answer has made.
THEOREM CheckpointStaysTrue == Spec => []CheckpointIsTrue
<1>1. ProviderInv => CheckpointIsTrue
  BY DEF ProviderInv
<1> QED
  BY <1>1, ProviderInvariant, PTL
=============================================================================
