------------------------ MODULE RecommendationProofs ------------------------
(***************************************************************************)
(* Theorems about Recommendation, for any number of recommendations,       *)
(* reviewers, executors and attempts.                                      *)
(*                                                                         *)
(* Work says how the place of an executor and what it holds belong         *)
(* together, Offered that all that are worked on have been proposed,       *)
(* Approved and Done what a row stands for.  Paid counts: the action that  *)
(* has been done, the executors about to do it, and the one that may still *)
(* take it up share one allowance, plus the excuses.  Spare finds an       *)
(* excuse wherever a result may be written over another.                   *)
(***************************************************************************)
EXTENDS Recommendation, FiniteSetTheorems, TLAPS

Holding == {"call", "executed", "failed"}

WorkOf(e) ==
    /\ e.pc \in Holding => e.rec \in e.todo
    /\ e.pc \notin Holding => e.rec = "none"
    /\ e.rec # "none" => e.read.status # "EXECUTED"
    /\ e.attempted = e.executed + e.failed + Cardinality(e.todo)

Work ==
    /\ \A x \in Executors : WorkOf(exec[x])
    /\ \A d \in Reviewers : review[d].seen \notin Final

Known(r) == row[r].status # "none"

Offered ==
    /\ \A r \in Recs : Known(r) <=> row[r].version > 0
    /\ \A x \in Executors : \A r \in exec[x].todo : Known(r)
    /\ \A d \in Reviewers : review[d] # NoReview => Known(review[d].rec)

Approved ==
    /\ \A r \in Recs : Known(r) /\ (row[r].needs => row[r].status = "APPROVED")
                       => <<r, row[r].version>> \in mandates
    /\ CallsAreApproved

Done ==
    /\ ExecutedWasDone
    /\ \A x \in Executors : exec[x].pc = "executed" => done[exec[x].rec] > 0

Calling(r) == {x \in Executors : exec[x].pc = "call" /\ exec[x].rec = r}
Open(r) == IF row[r].status \notin Final /\ InHand(r) = {} THEN 1 ELSE 0

Paid == \A r \in Recs : done[r] + Cardinality(Calling(r)) + Open(r) <= 1 + excuses[r]

Spare ==
    \A r \in Recs :
       /\ \A x, y \in InHand(r) : x # y => excuses[r] > 0
       /\ row[r].status = "EXECUTED" /\ InHand(r) # {} => excuses[r] > 0

RecommendationInv == RecommendationTypeOK /\ Work /\ Offered /\ Approved /\ Done /\ Spare

-----------------------------------------------------------------------------
(* Types *)

LEMMA InitTypes == Init => RecommendationTypeOK
<1> USE RecommendationAssumption DEF NoRow, RowType, Statuses
<1>1. NoRow \in RowType
  OBVIOUS
<1>2. Free \in ExecType
  BY <1>1 DEF Free, ExecType
<1> QED
  BY <1>1, <1>2 DEF Init, RecommendationTypeOK, Free

LEMMA Increment ==
    ASSUME NEW S, NEW f \in [S -> Nat], NEW s
    PROVE  [f EXCEPT ![s] = @ + 1] \in [S -> Nat]
<1>1. CASE s \in S
  <2>1. f[s] + 1 \in Nat
    BY <1>1
  <2> QED
    BY <1>1, <2>1
<1>2. CASE s \notin S
  BY <1>2
<1> QED
  BY <1>1, <1>2

\* An executor that moves to a well-formed place leaves all of them well formed.
LEMMA MoveTypes ==
    ASSUME RecommendationTypeOK, NEW x \in Executors, NEW e \in ExecType, Move(x, e),
           e.pc = "call" => e.tries < MaxTries
    PROVE  /\ exec' \in [Executors -> ExecType]
           /\ \A y \in Executors : exec'[y].pc = "call" => exec'[y].tries < MaxTries
BY DEF Move, RecommendationTypeOK

LEMMA StepTypes == RecommendationTypeOK /\ [Next]_vars => RecommendationTypeOK'
<1> SUFFICES ASSUME RecommendationTypeOK, [Next]_vars
             PROVE  RecommendationTypeOK'
  OBVIOUS
<1> USE DEF Excuse, ExcuseIf
<1>0. MaxTries \in Nat /\ MaxTries > 0 /\ 0 \in 0 .. MaxTries
  BY RecommendationAssumption
<1>a. NoRow \in RowType
  BY DEF NoRow, RowType, Statuses
<1>f. Free \in ExecType /\ Free.pc = "idle"
  BY <1>0, <1>a DEF Free, ExecType
<1>x. \A x \in Executors :
         /\ exec[x] \in ExecType
         /\ exec[x].pc = "call" => exec[x].tries < MaxTries
  BY DEF RecommendationTypeOK
<1>p. ASSUME NEW x \in Executors, Perform(x)
      PROVE  done' \in [Recs -> Nat]
  <2>1. done \in [Recs -> Nat]
    BY DEF RecommendationTypeOK
  <2> QED
    BY <1>p, <2>1, Increment DEF Perform
<1>1. CASE UNCHANGED vars
  BY <1>1 DEF vars, RecommendationTypeOK
<1>2. ASSUME NEW r \in Recs, Store(r)
      PROVE  RecommendationTypeOK'
  BY <1>2 DEF Store, RecommendationTypeOK, RowType, Statuses
<1>3. ASSUME NEW d \in Reviewers, Check(d)
      PROVE  RecommendationTypeOK'
  BY <1>3 DEF Check, Final, RecommendationTypeOK, RowType, ReviewType
<1>4. ASSUME NEW d \in Reviewers, Withdraw(d)
      PROVE  RecommendationTypeOK'
  BY <1>4 DEF Withdraw, RecommendationTypeOK
<1>5. ASSUME NEW d \in Reviewers, Resolve(d)
      PROVE  RecommendationTypeOK'
  <2>1. review[d] \in ReviewType
    BY <1>5 DEF Resolve, RecommendationTypeOK
  <2>2. /\ review[d].rec \in Recs
        /\ review[d].status \in Statuses
    BY <2>1 DEF ReviewType, Statuses
  <2>3. row' \in [Recs -> RowType]
    BY <1>5, <2>2 DEF Resolve, RecommendationTypeOK, RowType
  <2>4. review' \in [Reviewers -> {NoReview} \cup ReviewType]
    BY <1>5 DEF Resolve, RecommendationTypeOK
  <2> QED
    BY <1>5, <2>2, <2>3, <2>4 DEF Resolve, RecommendationTypeOK
<1>6. ASSUME NEW x \in Executors, OrderStep(x)
      PROVE  RecommendationTypeOK'
  <2>1. PICK recs \in SUBSET Recs : Order(x, recs)
    BY <1>6 DEF OrderStep, OrderOne, OrderBatch
  <2>2. Cardinality(recs) \in Nat
    BY RecommendationAssumption, FS_Subset, FS_CardinalityType
  <2> DEFINE e == [Free EXCEPT !.pc = "next", !.todo = recs, !.attempted = Cardinality(recs)]
  <2>3. e \in ExecType /\ e.pc = "next"
    BY <1>f, <2>2 DEF ExecType
  <2> HIDE DEF e
  <2>4. Move(x, e)
    BY <2>1 DEF Order, e
  <2> QED
    BY <2>1, <2>3, <2>4, MoveTypes DEF Order, RecommendationTypeOK
<1>7. ASSUME NEW x \in Executors, Reuse(x)
      PROVE  RecommendationTypeOK'
  <2>1. PICK r \in exec[x].todo :
               Move(x, [exec[x] EXCEPT !.todo = @ \ {r}, !.executed = @ + 1])
    BY <1>7 DEF Reuse
  <2> DEFINE e == [exec[x] EXCEPT !.todo = @ \ {r}, !.executed = @ + 1]
  <2>2. exec[x].todo \ {r} \in SUBSET Recs /\ exec[x].executed + 1 \in Nat
    BY <1>x DEF ExecType
  <2>3. e \in ExecType /\ e.pc = "next"
    BY <1>7, <1>x, <2>2 DEF Reuse, ExecType
  <2> QED
    BY <1>7, <2>1, <2>3, MoveTypes DEF Reuse, RecommendationTypeOK
<1>8. ASSUME NEW x \in Executors, Refuse(x) \/ Report(x)
      PROVE  RecommendationTypeOK'
  BY <1>8, <1>f, MoveTypes DEF Refuse, Report, RecommendationTypeOK
<1>9. ASSUME NEW x \in Executors, Take(x)
      PROVE  RecommendationTypeOK'
  <2>1. PICK r \in exec[x].todo :
               /\ Move(x, [exec[x] EXCEPT !.pc = "call", !.rec = r, !.read = row[r],
                                          !.tries = 0])
               /\ ExcuseIf(row[r].status = "FAILED" \/ InHand(r) # {}, r)
    BY <1>9 DEF Take
  <2> DEFINE e == [exec[x] EXCEPT !.pc = "call", !.rec = r, !.read = row[r], !.tries = 0]
  <2>2. r \in Recs /\ row[r] \in RowType
    BY <1>x DEF ExecType, RecommendationTypeOK
  <2>3. e \in ExecType /\ e.tries < MaxTries
    BY <1>0, <2>2, <1>x DEF ExecType
  <2>4. excuses' \in [Recs -> Nat]
    BY <2>1, <2>2 DEF RecommendationTypeOK
  <2> HIDE DEF e
  <2>5. Move(x, e)
    BY <2>1 DEF e
  <2> QED
    BY <1>9, <2>3, <2>4, <2>5, MoveTypes DEF Take, RecommendationTypeOK
<1>10. ASSUME NEW x \in Executors, Answer(x)
       PROVE  RecommendationTypeOK'
  <2>1. PICK pc \in {"executed", "failed"} : Move(x, [exec[x] EXCEPT !.pc = pc])
    BY <1>10 DEF Answer
  <2> DEFINE e == [exec[x] EXCEPT !.pc = pc]
  <2>2. e \in ExecType /\ e.pc # "call"
    BY <1>x DEF ExecType
  <2>3. done' \in [Recs -> Nat]
    BY <1>10, <1>p DEF Answer
  <2> QED
    BY <1>10, <2>1, <2>2, <2>3, MoveTypes DEF Answer, RecommendationTypeOK
<1>11. ASSUME NEW x \in Executors, exec[x].pc = "call", Again(x)
       PROVE  /\ exec' \in [Executors -> ExecType]
              /\ \A y \in Executors : exec'[y].pc = "call" => exec'[y].tries < MaxTries
  <2> DEFINE e == [exec[x] EXCEPT !.tries = @ + 1,
                      !.pc = IF exec[x].tries + 1 = MaxTries THEN "failed" ELSE @]
  <2>1. /\ exec[x].tries \in Nat /\ exec[x].tries < MaxTries
        /\ exec[x].tries + 1 \in 0 .. MaxTries
        /\ exec[x].tries + 1 # MaxTries => exec[x].tries + 1 < MaxTries
    BY <1>0, <1>11, <1>x DEF ExecType
  <2>2. e \in ExecType
    BY <1>0, <1>11, <1>x, <2>1 DEF ExecType
  <2>3. e.pc = "call" => e.tries < MaxTries
    BY <1>0, <1>11, <1>x, <2>1 DEF ExecType
  <2> QED
    BY <1>11, <2>2, <2>3, MoveTypes DEF Again
<1>12. ASSUME NEW x \in Executors, LoseAnswer(x) \/ NoAnswer(x)
       PROVE  RecommendationTypeOK'
  BY <1>12, <1>11, <1>p DEF LoseAnswer, NoAnswer, RecommendationTypeOK
<1>13. ASSUME NEW x \in Executors, GiveUp(x)
       PROVE  RecommendationTypeOK'
  <2> DEFINE e == [exec[x] EXCEPT !.pc = "failed"]
  <2>1. e \in ExecType /\ e.pc = "failed"
    BY <1>x DEF ExecType
  <2> QED
    BY <1>13, <2>1, MoveTypes DEF GiveUp, RecommendationTypeOK
<1>14. ASSUME NEW x \in Executors, Record(x)
       PROVE  RecommendationTypeOK'
  <2> DEFINE e == [exec[x] EXCEPT !.pc = "next", !.rec = "none", !.read = NoRow,
                      !.todo = @ \ {exec[x].rec}, !.tries = 0,
                      !.executed = IF exec[x].pc = "executed" THEN @ + 1 ELSE @,
                      !.failed = IF exec[x].pc = "failed" THEN @ + 1 ELSE @]
  <2>0. /\ (IF exec[x].pc = "executed" THEN exec[x].executed + 1
                                       ELSE exec[x].executed) \in Nat
        /\ (IF exec[x].pc = "failed" THEN exec[x].failed + 1
                                     ELSE exec[x].failed) \in Nat
    BY <1>x DEF ExecType
  <2>1. e \in ExecType /\ e.pc = "next"
    <3>1. exec[x].todo \ {exec[x].rec} \in SUBSET Recs
      BY <1>x DEF ExecType
    <3> QED
      BY <1>0, <1>a, <1>x, <2>0, <3>1 DEF ExecType
  <2>2. row' \in [Recs -> RowType]
    BY <1>14 DEF Record, RecommendationTypeOK, RowType, Statuses
  <2> QED
    BY <1>14, <2>1, <2>2, MoveTypes DEF Record, RecommendationTypeOK
<1>15. ASSUME NEW x \in Executors, Abandon(x)
       PROVE  RecommendationTypeOK'
  BY <1>15, <1>f, MoveTypes DEF Abandon, RecommendationTypeOK
<1> QED
  BY <1>1, <1>2, <1>3, <1>4, <1>5, <1>6, <1>7, <1>8, <1>9, <1>10, <1>12, <1>13,
     <1>14, <1>15 DEF Next, ReviewStep, ExecStep

-----------------------------------------------------------------------------
(* Work *)

LEMMA Moved ==
    ASSUME RecommendationTypeOK, NEW x \in Executors, NEW e, Move(x, e)
    PROVE  exec'[x] = e /\ \A y \in Executors : y # x => exec'[y] = exec[y]
BY DEF Move, RecommendationTypeOK

LEMMA FreeWorks == WorkOf(Free)
BY FS_EmptySet DEF WorkOf, Free, Holding

\* A recommendation leaves the list, and one of the two counts goes up.
LEMMA Settled ==
    ASSUME RecommendationTypeOK, NEW x \in Executors, WorkOf(exec[x]),
           NEW r \in exec[x].todo
    PROVE  exec[x].attempted
             = exec[x].executed + exec[x].failed + 1 + Cardinality(exec[x].todo \ {r})
<1>1. /\ exec[x].todo \in SUBSET Recs
      /\ exec[x].attempted \in Nat /\ exec[x].executed \in Nat /\ exec[x].failed \in Nat
  BY DEF RecommendationTypeOK, ExecType
<1>2. IsFiniteSet(exec[x].todo)
  BY <1>1, RecommendationAssumption, FS_Subset
<1>3. /\ Cardinality(exec[x].todo \ {r}) = Cardinality(exec[x].todo) - 1
      /\ Cardinality(exec[x].todo) \in Nat
  BY <1>2, FS_RemoveElement, FS_CardinalityType
<1> QED
  BY <1>1, <1>3 DEF WorkOf

LEMMA StepWork ==
    RecommendationTypeOK /\ Work /\ [Next]_vars => Work'
<1> SUFFICES ASSUME RecommendationTypeOK, Work, [Next]_vars
             PROVE  Work'
  OBVIOUS
<1>w. \A x \in Executors : WorkOf(exec[x]) /\ exec[x] \in ExecType
  BY DEF Work, RecommendationTypeOK
<1>m. ASSUME NEW x \in Executors, NEW e, Move(x, e), WorkOf(e), UNCHANGED review
      PROVE  Work'
  BY <1>m, Moved DEF Work
<1>1. CASE UNCHANGED vars
  BY <1>1 DEF vars, Work
<1>2. ASSUME NEW r \in Recs, Store(r)
      PROVE  Work'
  BY <1>2 DEF Store, Work
<1>3. ASSUME NEW d \in Reviewers, ReviewStep(d)
      PROVE  Work'
  <2>1. exec' = exec
    BY <1>3 DEF ReviewStep, Check, Withdraw, Resolve
  <2>2. \A c \in Reviewers : review'[c].seen \notin Final
    BY <1>3 DEF ReviewStep, Check, Withdraw, Resolve, Work, NoReview, Final,
                RecommendationTypeOK
  <2> QED
    BY <2>1, <2>2 DEF Work
<1>4. ASSUME NEW x \in Executors, OrderStep(x)
      PROVE  Work'
  <2>1. PICK recs \in SUBSET Recs : Order(x, recs)
    BY <1>4 DEF OrderStep, OrderOne, OrderBatch
  <2> DEFINE e == [Free EXCEPT !.pc = "next", !.todo = recs, !.attempted = Cardinality(recs)]
  <2>2. Cardinality(recs) \in Nat
    BY RecommendationAssumption, FS_Subset, FS_CardinalityType
  <2>3. WorkOf(e)
    BY <2>2 DEF WorkOf, Free, Holding
  <2>4. Move(x, e) /\ UNCHANGED review
    BY <2>1 DEF Order
  <2> QED
    BY <2>3, <2>4, <1>m
<1>5. ASSUME NEW x \in Executors, Reuse(x)
      PROVE  Work'
  <2>1. PICK r \in exec[x].todo :
               Move(x, [exec[x] EXCEPT !.todo = @ \ {r}, !.executed = @ + 1])
    BY <1>5 DEF Reuse
  <2> DEFINE e == [exec[x] EXCEPT !.todo = @ \ {r}, !.executed = @ + 1]
  <2>2. /\ e.pc = "next" /\ e.rec = exec[x].rec /\ exec[x].pc = "next"
        /\ e.attempted = exec[x].attempted /\ e.failed = exec[x].failed
        /\ e.executed = exec[x].executed + 1 /\ e.todo = exec[x].todo \ {r}
    BY <1>5, <1>w DEF Reuse, ExecType
  <2>3. e.attempted = e.executed + e.failed + Cardinality(e.todo)
    <3>1. /\ exec[x].executed \in Nat /\ exec[x].failed \in Nat
          /\ exec[x].todo \in SUBSET Recs
      BY <1>w DEF ExecType
    <3>2. Cardinality(e.todo) \in Nat
      BY <2>2, <3>1, RecommendationAssumption, FS_Subset, FS_CardinalityType
    <3>3. exec[x].attempted
            = exec[x].executed + exec[x].failed + 1 + Cardinality(exec[x].todo \ {r})
      BY <1>w, Settled
    <3> HIDE DEF e
    <3> QED
      BY <2>2, <3>1, <3>2, <3>3
  <2>4. WorkOf(e)
    BY <1>w, <2>2, <2>3 DEF WorkOf, Holding
  <2> QED
    BY <1>5, <2>1, <2>4, <1>m DEF Reuse
<1>6. ASSUME NEW x \in Executors, Refuse(x) \/ Report(x) \/ Abandon(x)
      PROVE  Work'
  BY <1>6, <1>m, FreeWorks DEF Refuse, Report, Abandon
<1>7. ASSUME NEW x \in Executors, Take(x)
      PROVE  Work'
  <2>1. PICK r \in exec[x].todo :
               /\ Executable(r)
               /\ Move(x, [exec[x] EXCEPT !.pc = "call", !.rec = r, !.read = row[r],
                                          !.tries = 0])
    BY <1>7 DEF Take
  <2> DEFINE e == [exec[x] EXCEPT !.pc = "call", !.rec = r, !.read = row[r], !.tries = 0]
  <2>2. WorkOf(e)
    BY <1>w, <2>1 DEF WorkOf, Holding, Executable, ExecType
  <2> QED
    BY <1>7, <2>1, <2>2, <1>m DEF Take
<1>8. ASSUME NEW x \in Executors, NEW pc \in Holding, NEW n,
             exec[x].pc = "call",
             Move(x, [exec[x] EXCEPT !.tries = n, !.pc = pc]), UNCHANGED review
      PROVE  Work'
  <2> DEFINE e == [exec[x] EXCEPT !.tries = n, !.pc = pc]
  <2>1. WorkOf(e)
    BY <1>8, <1>w DEF WorkOf, Holding, ExecType
  <2> QED
    BY <1>8, <2>1, <1>m
<1>9. ASSUME NEW x \in Executors, NEW pc \in Holding,
             exec[x].pc = "call",
             Move(x, [exec[x] EXCEPT !.pc = pc]), UNCHANGED review
      PROVE  Work'
  <2> DEFINE e == [exec[x] EXCEPT !.pc = pc]
  <2>1. WorkOf(e)
    BY <1>9, <1>w DEF WorkOf, Holding, ExecType
  <2> QED
    BY <1>9, <2>1, <1>m
<1>10. ASSUME NEW x \in Executors, Answer(x) \/ GiveUp(x)
       PROVE  Work'
  BY <1>10, <1>9 DEF Answer, GiveUp, Holding
<1>11. ASSUME NEW x \in Executors, LoseAnswer(x) \/ NoAnswer(x)
       PROVE  Work'
  <2> DEFINE pc == IF exec[x].tries + 1 = MaxTries THEN "failed" ELSE exec[x].pc
  <2>1. exec[x].pc = "call" /\ Again(x) /\ UNCHANGED review
    BY <1>11 DEF LoseAnswer, NoAnswer
  <2>2. pc \in Holding
    BY <2>1 DEF Holding
  <2>3. Move(x, [exec[x] EXCEPT !.tries = exec[x].tries + 1, !.pc = pc])
    BY <2>1 DEF Again
  <2> QED
    BY <2>1, <2>2, <2>3, <1>8
<1>12. ASSUME NEW x \in Executors, Record(x)
       PROVE  Work'
  <2> DEFINE e == [exec[x] EXCEPT !.pc = "next", !.rec = "none", !.read = NoRow,
                      !.todo = @ \ {exec[x].rec}, !.tries = 0,
                      !.executed = IF exec[x].pc = "executed" THEN @ + 1 ELSE @,
                      !.failed = IF exec[x].pc = "failed" THEN @ + 1 ELSE @]
             left == exec[x].todo \ {exec[x].rec}
  <2>1. /\ exec[x].executed \in Nat /\ exec[x].failed \in Nat
        /\ exec[x].todo \in SUBSET Recs
        /\ exec[x].rec \in exec[x].todo
    BY <1>12, <1>w DEF Record, ExecType, WorkOf, Holding
  <2>2. /\ e.pc = "next" /\ e.rec = "none" /\ e.todo = left
        /\ e.attempted = exec[x].attempted
    BY <1>w DEF ExecType
  <2>3. e.executed + e.failed = exec[x].executed + exec[x].failed + 1
    <3>1. CASE exec[x].pc = "executed"
      BY <3>1, <2>1, <1>w DEF ExecType
    <3>2. CASE exec[x].pc = "failed"
      BY <3>2, <2>1, <1>w DEF ExecType
    <3> QED
      BY <3>1, <3>2, <1>12 DEF Record
  <2>4. Cardinality(left) \in Nat
    BY <2>1, RecommendationAssumption, FS_Subset, FS_CardinalityType
  <2>5. e.attempted = exec[x].executed + exec[x].failed + 1 + Cardinality(e.todo)
    BY <1>w, <2>1, <2>2, Settled
  <2>6. WorkOf(e)
    BY <2>2, <2>3, <2>5 DEF WorkOf, Holding
  <2>7. Move(x, e) /\ UNCHANGED review
    BY <1>12 DEF Record
  <2> QED
    BY <2>6, <2>7, <1>m
<1> QED
  BY <1>1, <1>2, <1>3, <1>4, <1>5, <1>6, <1>7, <1>10, <1>11, <1>12 DEF Next, ExecStep

-----------------------------------------------------------------------------
(* Offered *)

\* What a step may do to the work of an executor: its list shrinks, or is filled
\* with known recommendations.
LEMMA ListsAreKnown ==
    ASSUME RecommendationTypeOK, Offered, Next, NEW x \in Executors, NEW r \in exec'[x].todo
    PROVE  Known(r)
<1>1. CASE r \in exec[x].todo
  BY <1>1 DEF Offered
<1>2. CASE r \notin exec[x].todo
  <2>x. exec[x] \in ExecType
    BY DEF RecommendationTypeOK
  <2>1. ASSUME NEW y \in Executors, OrderStep(y)
        PROVE  Known(r)
    <3>1. PICK recs \in SUBSET Recs : Order(y, recs) /\ \A s \in recs : Known(s)
      <4>1. CASE OrderOne(y)
        <5>1. PICK s \in Recs : Known(s) /\ Order(y, {s})
          BY <4>1 DEF OrderOne, Known
        <5> QED
          BY <5>1
      <4>2. CASE OrderBatch(y)
        <5>1. PICK recs \in SUBSET {s \in Recs \ Manual : row[s].status = "APPROVED"} :
                     Order(y, recs)
          BY <4>2 DEF OrderBatch
        <5> QED
          BY <5>1 DEF Known
      <4> QED
        BY <2>1, <4>1, <4>2 DEF OrderStep
    <3> DEFINE e == [Free EXCEPT !.pc = "next", !.todo = recs, !.attempted = Cardinality(recs)]
    <3>3. Move(y, e) /\ e.todo = recs
      BY <3>1 DEF Order, Free
    <3> HIDE DEF e
    <3>2. r \in recs
      BY <1>2, <3>3, Moved
    <3> QED
      BY <3>1, <3>2
  <2>2. ASSUME NEW y \in Executors, NEW e, Move(y, e), y = x => e.todo \subseteq exec[x].todo
        PROVE  FALSE
    BY <1>2, <2>2, Moved
  <2>3. ASSUME NEW y \in Executors, ExecStep(y) \/ Abandon(y)
        PROVE  FALSE
    <3>f. Free.todo = {}
      BY DEF Free
    <3>1. CASE Reuse(y)
      <4>1. PICK s : Move(y, [exec[y] EXCEPT !.todo = @ \ {s}, !.executed = @ + 1])
        BY <3>1 DEF Reuse
      <4> QED
        BY <4>1, <2>2, <2>x DEF ExecType
    <3>2. CASE Refuse(y) \/ Report(y) \/ Abandon(y)
      BY <3>2, <3>f, <2>2 DEF Refuse, Report, Abandon
    <3>3. CASE Take(y)
      <4>1. PICK s : Move(y, [exec[y] EXCEPT !.pc = "call", !.rec = s, !.read = row[s],
                                             !.tries = 0])
        BY <3>3 DEF Take
      <4> QED
        BY <4>1, <2>2, <2>x DEF ExecType
    <3>4. CASE Answer(y) \/ GiveUp(y)
      <4>1. PICK pc : Move(y, [exec[y] EXCEPT !.pc = pc])
        BY <3>4 DEF Answer, GiveUp
      <4> QED
        BY <4>1, <2>2, <2>x DEF ExecType
    <3>5. CASE LoseAnswer(y) \/ NoAnswer(y)
      <4>1. PICK pc, n : Move(y, [exec[y] EXCEPT !.tries = n, !.pc = pc])
        BY <3>5 DEF LoseAnswer, NoAnswer, Again
      <4> QED
        BY <4>1, <2>2, <2>x DEF ExecType
    <3>6. CASE Record(y)
      <4>1. PICK n, k : Move(y, [exec[y] EXCEPT !.pc = "next", !.rec = "none",
                                   !.read = NoRow, !.todo = @ \ {exec[y].rec},
                                   !.tries = 0, !.executed = n, !.failed = k])
        BY <3>6 DEF Record
      <4> QED
        BY <4>1, <2>2, <2>x DEF ExecType
    <3> QED
      BY <2>3, <3>1, <3>2, <3>3, <3>4, <3>5, <3>6 DEF ExecStep
  <2>4. CASE exec' = exec
    BY <1>2, <2>4
  <2> QED
    BY <2>1, <2>3, <2>4 DEF Next, Store, ReviewStep, Check, Withdraw, Resolve
<1> QED
  BY <1>1, <1>2

\* Rows come and stay.
LEMMA StepOffered ==
    RecommendationTypeOK /\ Work /\ Offered /\ [Next]_vars => Offered'
<1> SUFFICES ASSUME RecommendationTypeOK, Work, Offered, [Next]_vars
             PROVE  Offered'
  OBVIOUS
<1>r. \A r \in Recs : row[r] \in RowType
  BY DEF RecommendationTypeOK
<1>1. CASE UNCHANGED vars
  BY <1>1 DEF vars, Offered, Known
<1>2. CASE Next
  <2>1. \A r \in Recs : /\ Known(r)' <=> row'[r].version > 0
                        /\ Known(r) => Known(r)'
    <3>1. ASSUME NEW s \in Recs, Store(s), NEW r \in Recs
          PROVE  (Known(r)' <=> row'[r].version > 0) /\ (Known(r) => Known(r)')
      <4>1. CASE r # s
        BY <3>1, <4>1 DEF Store, RecommendationTypeOK, Offered, Known
      <4>2. CASE r = s
        <5>1. row'[r].status # "none" /\ row'[r].version = row[r].version + 1
          BY <3>1, <4>2 DEF Store, RecommendationTypeOK
        <5> QED
          BY <5>1, <1>r DEF RowType, Known
      <4> QED
        BY <4>1, <4>2
    <3>2. ASSUME NEW d \in Reviewers, Resolve(d), NEW r \in Recs
          PROVE  (Known(r)' <=> row'[r].version > 0) /\ (Known(r) => Known(r)')
      <4>1. /\ row'[r].version = row[r].version
            /\ r # review[d].rec => row'[r] = row[r]
            /\ r = review[d].rec => row'[r].status = review[d].status
        BY <3>2, <1>r, Zenon DEF Resolve, RecommendationTypeOK, RowType
      <4>2. /\ review[d].status # "none"
            /\ Known(review[d].rec)
        BY <3>2 DEF Resolve, RecommendationTypeOK, ReviewType, Offered
      <4> QED
        BY <4>1, <4>2 DEF Offered, Known
    <3>3. ASSUME NEW x \in Executors, Record(x), NEW r \in Recs
          PROVE  (Known(r)' <=> row'[r].version > 0) /\ (Known(r) => Known(r)')
      <4>1. /\ row'[r].version = row[r].version
            /\ r # exec[x].rec => row'[r] = row[r]
            /\ r = exec[x].rec => row'[r].status # "none"
        BY <3>3, <1>r DEF Record, RecommendationTypeOK, RowType
      <4>2. Known(exec[x].rec)
        BY <3>3 DEF Record, Work, WorkOf, Holding, Offered
      <4> QED
        BY <4>1, <4>2 DEF Offered, Known
    <3>4. CASE UNCHANGED row
      BY <3>4 DEF Offered, Known
    <3> QED
      BY <1>2, <3>1, <3>2, <3>3, <3>4
         DEF Next, ReviewStep, OrderStep, ExecStep, Check, Withdraw, OrderOne,
             OrderBatch, Order, Reuse, Refuse, Take, Answer, LoseAnswer, NoAnswer,
             GiveUp, Report, Abandon
  <2>2. RecommendationTypeOK'
    BY StepTypes
  <2>3. \A x \in Executors : \A r \in exec'[x].todo : Known(r)'
    BY <1>2, <2>1, <2>2, ListsAreKnown DEF RecommendationTypeOK, ExecType
  <2>4. ASSUME NEW d \in Reviewers, review'[d] # NoReview
        PROVE  row'[review'[d].rec].status # "none"
    <3>1. review'[d] = review[d] \/ Check(d)
      BY <1>2, <2>4 DEF Next, ReviewStep, OrderStep, ExecStep, Store, Check, Withdraw,
             Resolve, OrderOne, OrderBatch, Order, Reuse, Refuse, Take, Answer,
             LoseAnswer, NoAnswer, GiveUp, Record, Report, Abandon, RecommendationTypeOK
    <3>2. CASE review'[d] = review[d]
      <4>1. Known(review[d].rec) /\ review[d].rec \in Recs
        BY <2>4, <3>2 DEF Offered, RecommendationTypeOK, ReviewType
      <4> QED
        BY <2>1, <3>2, <4>1 DEF Known
    <3>3. CASE Check(d)
      <4>1. PICK r \in Recs : Known(r) /\ review'[d].rec = r
        BY <3>3 DEF Check, Known, RecommendationTypeOK
      <4> QED
        BY <2>1, <4>1 DEF Known
    <3> QED
      BY <3>1, <3>2, <3>3
  <2> QED
    BY <2>1, <2>3, <2>4 DEF Offered, Known
<1> QED
  BY <1>1, <1>2

-----------------------------------------------------------------------------
(* Approved and Done *)

LEMMA StepApproved ==
    RecommendationTypeOK /\ Work /\ Offered /\ Approved /\ [Next]_vars => Approved'
<1> SUFFICES ASSUME RecommendationTypeOK, Work, Offered, Approved, [Next]_vars
             PROVE  Approved'
  OBVIOUS
<1> DEFINE CallOf(e) ==
      e.pc = "call" => <<e.rec, e.read.version>> \in mandates
<1>x. \A x \in Executors : exec[x] \in ExecType /\ CallOf(exec[x])
  BY DEF RecommendationTypeOK, Approved, CallsAreApproved
<1>m. ASSUME NEW x \in Executors, NEW e, Move(x, e), CallOf(e), mandates \subseteq mandates'
      PROVE  CallsAreApproved'
  BY <1>m, Moved DEF Approved, CallsAreApproved
<1>u. ASSUME UNCHANGED row, mandates \subseteq mandates', CallsAreApproved'
      PROVE  Approved'
  BY <1>u DEF Approved, Known
<1>1. CASE UNCHANGED vars
  BY <1>1, <1>u DEF vars, Approved, CallsAreApproved
<1>2. ASSUME NEW s \in Recs, Store(s)
      PROVE  Approved'
  <2>1. mandates \subseteq mandates' /\ exec' = exec
    BY <1>2 DEF Store
  <2>2. CallsAreApproved'
    BY <2>1 DEF Approved, CallsAreApproved
  <2>3. PICK needs \in BOOLEAN :
          /\ row' = [row EXCEPT ![s] =
                        [status |-> IF needs THEN "PENDING_APPROVAL" ELSE "APPROVED",
                         needs |-> needs, version |-> @.version + 1]]
          /\ mandates' = IF needs THEN mandates
                         ELSE mandates \cup {<<s, row[s].version + 1>>}
    BY <1>2 DEF Store
  <2>4. ASSUME NEW r \in Recs, Known(r)', row'[r].needs => row'[r].status = "APPROVED"
        PROVE  <<r, row'[r].version>> \in mandates'
    <3>1. CASE r = s
      <4>1. row'[r] = [status |-> IF needs THEN "PENDING_APPROVAL" ELSE "APPROVED",
                       needs |-> needs, version |-> row[s].version + 1]
        BY <2>3, <3>1 DEF RecommendationTypeOK
      <4> QED
        BY <2>3, <2>4, <3>1, <4>1
    <3>2. CASE r # s
      <4>1. row'[r] = row[r]
        BY <2>3, <3>2 DEF RecommendationTypeOK
      <4> QED
        BY <2>1, <2>4, <4>1 DEF Approved, Known
    <3> QED
      BY <3>1, <3>2
  <2> QED
    BY <2>2, <2>4 DEF Approved
<1>3. ASSUME NEW d \in Reviewers, Check(d) \/ Withdraw(d)
      PROVE  Approved'
  BY <1>3, <1>u DEF Check, Withdraw, Approved, CallsAreApproved
<1>4. ASSUME NEW d \in Reviewers, Resolve(d)
      PROVE  Approved'
  <2>1. mandates \subseteq mandates' /\ exec' = exec
    BY <1>4 DEF Resolve
  <2>2. CallsAreApproved'
    BY <2>1 DEF Approved, CallsAreApproved
  <2>3. ASSUME NEW r \in Recs, Known(r)', row'[r].needs => row'[r].status = "APPROVED"
        PROVE  <<r, row'[r].version>> \in mandates'
    <3>1. /\ row'[r].needs = row[r].needs /\ row'[r].version = row[r].version
          /\ r # review[d].rec => row'[r] = row[r]
          /\ r = review[d].rec => row'[r].status = review[d].status
      BY <1>4, Zenon DEF Resolve, RecommendationTypeOK, RowType
    <3>2. CASE review[d].status = "APPROVED" /\ r = review[d].rec
      BY <1>4, <3>1, <3>2 DEF Resolve
    <3>3. CASE review[d].status # "APPROVED" /\ r = review[d].rec
      <4>1. Known(r)
        BY <1>4, <3>3 DEF Resolve, Offered
      <4> QED
        BY <2>1, <2>3, <3>1, <3>3, <4>1 DEF Approved
    <3>4. CASE r # review[d].rec
      BY <2>1, <2>3, <3>1, <3>4 DEF Approved, Known
    <3> QED
      BY <3>2, <3>3, <3>4
  <2> QED
    BY <2>2, <2>3 DEF Approved
<1>5. ASSUME NEW x \in Executors, OrderStep(x)
      PROVE  Approved'
  <2>1. PICK recs \in SUBSET Recs : Order(x, recs)
    BY <1>5 DEF OrderStep, OrderOne, OrderBatch
  <2>2. CallOf([Free EXCEPT !.pc = "next", !.todo = recs, !.attempted = Cardinality(recs)])
    BY DEF Free
  <2>3. CallsAreApproved'
    BY <2>1, <2>2, <1>m DEF Order
  <2> QED
    BY <2>1, <2>3, <1>u DEF Order
<1>6. ASSUME NEW x \in Executors, Reuse(x)
      PROVE  Approved'
  <2>1. PICK r \in exec[x].todo :
               Move(x, [exec[x] EXCEPT !.todo = @ \ {r}, !.executed = @ + 1])
    BY <1>6 DEF Reuse
  <2>2. CallOf([exec[x] EXCEPT !.todo = @ \ {r}, !.executed = @ + 1])
    BY <1>6, <1>x DEF Reuse, ExecType
  <2>3. CallsAreApproved'
    BY <1>6, <2>1, <2>2, <1>m DEF Reuse
  <2> QED
    BY <1>6, <2>3, <1>u DEF Reuse
<1>7. ASSUME NEW x \in Executors, Refuse(x) \/ Report(x) \/ Abandon(x)
      PROVE  Approved'
  <2>1. CallOf(Free)
    BY DEF Free
  <2>2. CallsAreApproved'
    BY <1>7, <2>1, <1>m DEF Refuse, Report, Abandon
  <2> QED
    BY <1>7, <2>2, <1>u DEF Refuse, Report, Abandon
<1>8. ASSUME NEW x \in Executors, Take(x)
      PROVE  Approved'
  <2>1. PICK r \in exec[x].todo :
               /\ Executable(r)
               /\ Move(x, [exec[x] EXCEPT !.pc = "call", !.rec = r, !.read = row[r],
                                          !.tries = 0])
    BY <1>8 DEF Take
  <2> DEFINE e == [exec[x] EXCEPT !.pc = "call", !.rec = r, !.read = row[r], !.tries = 0]
  <2>2. r \in Recs
    BY <1>x DEF ExecType
  <2>3. e.rec = r /\ e.read = row[r]
    BY <1>x DEF ExecType
  <2>4. CallOf(e)
    BY <1>x, <2>1, <2>2, <2>3 DEF Offered, Approved, Executable
  <2>5. CallsAreApproved'
    BY <1>8, <2>1, <2>4, <1>m DEF Take
  <2> QED
    BY <1>8, <2>5, <1>u DEF Take
<1>9. ASSUME NEW x \in Executors,
             Answer(x) \/ GiveUp(x) \/ LoseAnswer(x) \/ NoAnswer(x)
      PROVE  Approved'
  <2>1. /\ exec[x].pc = "call"
        /\ UNCHANGED <<row, mandates>>
        /\ \/ \E pc \in {"executed", "failed"} : Move(x, [exec[x] EXCEPT !.pc = pc])
           \/ Again(x)
    BY <1>9 DEF Answer, GiveUp, LoseAnswer, NoAnswer
  <2>2. CASE \E pc \in {"executed", "failed"} : Move(x, [exec[x] EXCEPT !.pc = pc])
    <3>1. PICK pc \in {"executed", "failed"} : Move(x, [exec[x] EXCEPT !.pc = pc])
      BY <2>2
    <3>2. CallOf([exec[x] EXCEPT !.pc = pc])
      BY <1>x DEF ExecType
    <3>3. CallsAreApproved'
      BY <2>1, <3>1, <3>2, <1>m
    <3> QED
      BY <2>1, <3>3, <1>u
  <2>3. CASE Again(x)
    <3> DEFINE e == [exec[x] EXCEPT !.tries = @ + 1,
                        !.pc = IF exec[x].tries + 1 = MaxTries THEN "failed" ELSE @]
    <3>1. e.rec = exec[x].rec /\ e.read = exec[x].read
      BY <1>x DEF ExecType
    <3>2. CallOf(e)
      BY <1>x, <2>1, <3>1
    <3>3. CallsAreApproved'
      BY <2>1, <2>3, <3>2, <1>m DEF Again
    <3> QED
      BY <2>1, <3>3, <1>u
  <2> QED
    BY <2>1, <2>2, <2>3
<1>10. ASSUME NEW x \in Executors, Record(x)
       PROVE  Approved'
  <2> DEFINE e == [exec[x] EXCEPT !.pc = "next", !.rec = "none", !.read = NoRow,
                      !.todo = @ \ {exec[x].rec}, !.tries = 0,
                      !.executed = IF exec[x].pc = "executed" THEN @ + 1 ELSE @,
                      !.failed = IF exec[x].pc = "failed" THEN @ + 1 ELSE @]
  <2>1. CallOf(e)
    BY <1>x DEF ExecType
  <2>m. Move(x, e) /\ UNCHANGED mandates
    BY <1>10 DEF Record
  <2> HIDE DEF e
  <2>2. CallsAreApproved'
    BY <2>1, <2>m, <1>m
  <2>3. ASSUME NEW r \in Recs, Known(r)', row'[r].needs => row'[r].status = "APPROVED"
        PROVE  <<r, row[r].version>> \in mandates /\ row'[r].version = row[r].version
    <3>1. /\ row'[r].needs = row[r].needs /\ row'[r].version = row[r].version
          /\ r # exec[x].rec => row'[r] = row[r]
          /\ r = exec[x].rec => row'[r].status # "APPROVED"
      BY <1>10 DEF Record, RecommendationTypeOK, RowType
    <3>2. CASE r = exec[x].rec
      <4>1. Known(r)
        BY <1>10, <3>2 DEF Record, Work, WorkOf, Holding, Offered
      <4> QED
        BY <2>3, <3>1, <3>2, <4>1 DEF Approved
    <3>3. CASE r # exec[x].rec
      BY <2>3, <3>1, <3>3 DEF Approved, Known
    <3> QED
      BY <3>2, <3>3
  <2> QED
    BY <2>2, <2>3, <2>m DEF Approved
<1> QED
  BY <1>1, <1>2, <1>3, <1>4, <1>5, <1>6, <1>7, <1>8, <1>9, <1>10
     DEF Next, ReviewStep, ExecStep

LEMMA StepDone ==
    RecommendationTypeOK /\ Work /\ Done /\ [Next]_vars => Done'
<1> SUFFICES ASSUME RecommendationTypeOK, Work, Done, [Next]_vars
             PROVE  Done'
  OBVIOUS
<1>x. \A x \in Executors :
         /\ exec[x] \in ExecType
         /\ exec[x].pc \in Holding => exec[x].rec \in Recs
  BY DEF RecommendationTypeOK, Work, WorkOf, ExecType
<1>m. ASSUME NEW x \in Executors, NEW e, Move(x, e), UNCHANGED done,
             e.pc = "executed" => done[e.rec] > 0,
             \A r \in Recs : row'[r].status = "EXECUTED" => done[r] > 0
      PROVE  Done'
  BY <1>m, Moved DEF Done, ExecutedWasDone
<1>r. \A r \in Recs : row[r].status = "EXECUTED" => done[r] > 0
  BY DEF Done, ExecutedWasDone
<1>1. CASE UNCHANGED vars
  BY <1>1 DEF vars, Done, ExecutedWasDone
<1>2. ASSUME NEW r \in Recs, Store(r)
      PROVE  Done'
  BY <1>2 DEF Store, Done, ExecutedWasDone, RecommendationTypeOK
<1>3. ASSUME NEW d \in Reviewers, Check(d) \/ Withdraw(d)
      PROVE  Done'
  BY <1>3 DEF Check, Withdraw, Done, ExecutedWasDone
<1>4. ASSUME NEW d \in Reviewers, Resolve(d)
      PROVE  Done'
  <2>1. review[d].status # "EXECUTED"
    BY <1>4 DEF Resolve, RecommendationTypeOK, ReviewType
  <2>2. \A r \in Recs : row'[r].status = "EXECUTED" => row[r].status = "EXECUTED"
    BY <1>4, <2>1 DEF Resolve, RecommendationTypeOK, RowType
  <2> QED
    BY <1>4, <2>2 DEF Resolve, Done, ExecutedWasDone
<1>5. ASSUME NEW x \in Executors, OrderStep(x)
      PROVE  Done'
  <2>1. PICK recs \in SUBSET Recs : Order(x, recs)
    BY <1>5 DEF OrderStep, OrderOne, OrderBatch
  <2> DEFINE e == [Free EXCEPT !.pc = "next", !.todo = recs, !.attempted = Cardinality(recs)]
  <2>2. e.pc # "executed"
    BY DEF Free
  <2> QED
    BY <2>1, <2>2, <1>m, <1>r DEF Order
<1>6. ASSUME NEW x \in Executors, Reuse(x)
      PROVE  Done'
  <2>1. PICK r \in exec[x].todo :
               Move(x, [exec[x] EXCEPT !.todo = @ \ {r}, !.executed = @ + 1])
    BY <1>6 DEF Reuse
  <2> DEFINE e == [exec[x] EXCEPT !.todo = @ \ {r}, !.executed = @ + 1]
  <2>2. e.pc # "executed"
    BY <1>6, <1>x DEF Reuse, ExecType
  <2> QED
    BY <1>6, <2>1, <2>2, <1>m, <1>r DEF Reuse
<1>7. ASSUME NEW x \in Executors, Refuse(x) \/ Report(x) \/ Abandon(x)
      PROVE  Done'
  <2>1. Free.pc # "executed"
    BY DEF Free
  <2> QED
    BY <1>7, <2>1, <1>m, <1>r DEF Refuse, Report, Abandon
<1>8. ASSUME NEW x \in Executors, Take(x)
      PROVE  Done'
  <2>1. PICK r \in exec[x].todo :
               Move(x, [exec[x] EXCEPT !.pc = "call", !.rec = r, !.read = row[r],
                                       !.tries = 0])
    BY <1>8 DEF Take
  <2> DEFINE e == [exec[x] EXCEPT !.pc = "call", !.rec = r, !.read = row[r], !.tries = 0]
  <2>2. e.pc # "executed"
    BY <1>x DEF ExecType
  <2> QED
    BY <1>8, <2>1, <2>2, <1>m, <1>r DEF Take
<1>9. ASSUME NEW x \in Executors, GiveUp(x) \/ NoAnswer(x)
      PROVE  Done'
  <2>1. CASE GiveUp(x)
    <3> DEFINE e == [exec[x] EXCEPT !.pc = "failed"]
    <3>1. e.pc # "executed"
      BY <1>x DEF ExecType
    <3> QED
      BY <2>1, <3>1, <1>m, <1>r DEF GiveUp
  <2>2. CASE NoAnswer(x)
    <3> DEFINE e == [exec[x] EXCEPT !.tries = @ + 1,
                        !.pc = IF exec[x].tries + 1 = MaxTries THEN "failed" ELSE @]
    <3>1. e.pc # "executed"
      BY <2>2, <1>x DEF NoAnswer, ExecType
    <3> QED
      BY <2>2, <3>1, <1>m, <1>r DEF NoAnswer, Again
  <2> QED
    BY <1>9, <2>1, <2>2
<1>10. ASSUME NEW x \in Executors, Perform(x), exec[x].pc = "call",
              NEW e, Move(x, e), e.rec = exec[x].rec, UNCHANGED row
       PROVE  Done'
  <2>1. exec[x].rec \in Recs
    BY <1>10, <1>x DEF Holding
  <2>2. \A r \in Recs : done'[r] >= done[r] /\ done'[r] \in Nat /\ done[r] \in Nat
    BY <1>10, <2>1 DEF Perform, RecommendationTypeOK
  <2>3. done'[exec[x].rec] > 0
    BY <1>10, <2>1 DEF Perform, RecommendationTypeOK
  <2>4. \A r \in Recs : row'[r].status = "EXECUTED" => done'[r] > 0
    BY <1>10, <1>r, <2>2
  <2>5. ASSUME NEW y \in Executors, exec'[y].pc = "executed"
        PROVE  done'[exec'[y].rec] > 0
    <3>1. CASE y = x
      BY <1>10, <2>3, <3>1, Moved
    <3>2. CASE y # x
      <4>1. exec'[y] = exec[y]
        BY <1>10, <3>2, Moved
      <4>2. exec[y].rec \in Recs /\ done[exec[y].rec] > 0
        BY <2>5, <4>1, <1>x DEF Done, Holding
      <4> QED
        BY <2>2, <4>1, <4>2
    <3> QED
      BY <3>1, <3>2
  <2> QED
    BY <2>4, <2>5 DEF Done, ExecutedWasDone
<1>11. ASSUME NEW x \in Executors, Answer(x) \/ LoseAnswer(x)
       PROVE  Done'
  <2>1. CASE Answer(x)
    <3>1. PICK pc \in {"executed", "failed"} : Move(x, [exec[x] EXCEPT !.pc = pc])
      BY <2>1 DEF Answer
    <3> DEFINE e == [exec[x] EXCEPT !.pc = pc]
    <3>2. e.rec = exec[x].rec
      BY <1>x DEF ExecType
    <3> QED
      BY <2>1, <3>1, <3>2, <1>10 DEF Answer
  <2>2. CASE LoseAnswer(x)
    <3> DEFINE e == [exec[x] EXCEPT !.tries = @ + 1,
                        !.pc = IF exec[x].tries + 1 = MaxTries THEN "failed" ELSE @]
    <3>1. e.rec = exec[x].rec
      BY <1>x DEF ExecType
    <3> QED
      BY <2>2, <3>1, <1>10 DEF LoseAnswer, Again
  <2> QED
    BY <1>11, <2>1, <2>2
<1>12. ASSUME NEW x \in Executors, Record(x)
       PROVE  Done'
  <2> DEFINE e == [exec[x] EXCEPT !.pc = "next", !.rec = "none", !.read = NoRow,
                      !.todo = @ \ {exec[x].rec}, !.tries = 0,
                      !.executed = IF exec[x].pc = "executed" THEN @ + 1 ELSE @,
                      !.failed = IF exec[x].pc = "failed" THEN @ + 1 ELSE @]
  <2>1. e.pc # "executed"
    BY <1>x DEF ExecType
  <2>2. exec[x].pc = "executed" => done[exec[x].rec] > 0
    BY DEF Done
  <2>3. ASSUME NEW r \in Recs, row'[r].status = "EXECUTED"
        PROVE  done[r] > 0
    BY <1>12, <2>2, <2>3, <1>r DEF Record, RecommendationTypeOK, RowType
  <2>4. Move(x, e) /\ UNCHANGED done
    BY <1>12 DEF Record
  <2> HIDE DEF e
  <2> QED
    BY <2>1, <2>3, <2>4, <1>m
<1> QED
  BY <1>1, <1>2, <1>3, <1>4, <1>5, <1>6, <1>7, <1>8, <1>9, <1>11, <1>12
     DEF Next, ReviewStep, ExecStep

-----------------------------------------------------------------------------
(* Paid *)

\* Calling and InHand when one executor moves.
LEMMA MovedSets ==
    ASSUME RecommendationTypeOK, NEW x \in Executors, NEW e, Move(x, e), NEW r
    PROVE  /\ InHand(r)' = IF e.rec = r THEN InHand(r) \cup {x} ELSE InHand(r) \ {x}
           /\ Calling(r)' = IF e.pc = "call" /\ e.rec = r
                            THEN Calling(r) \cup {x} ELSE Calling(r) \ {x}
<1>1. exec'[x] = e /\ \A y \in Executors : y # x => exec'[y] = exec[y]
  BY Moved
<1> QED
  BY <1>1 DEF InHand, Calling

LEMMA CallingCount ==
    ASSUME NEW r
    PROVE  /\ IsFiniteSet(Calling(r)) /\ Cardinality(Calling(r)) \in Nat
           /\ \A x \in Calling(r) :
                 Cardinality(Calling(r) \ {x}) = Cardinality(Calling(r)) - 1
           /\ \A x : x \notin Calling(r) =>
                 /\ Calling(r) \ {x} = Calling(r)
                 /\ Cardinality(Calling(r) \cup {x}) = Cardinality(Calling(r)) + 1
<1>1. IsFiniteSet(Calling(r))
  BY RecommendationAssumption, FS_Subset DEF Calling
<1> QED
  BY <1>1, FS_CardinalityType, FS_AddElement, FS_RemoveElement

\* An executor without a recommendation in hand counts for none.
LEMMA MovedEmpty ==
    ASSUME RecommendationTypeOK, NEW x \in Executors, NEW e, Move(x, e),
           exec[x].rec = "none", e.rec = "none", NEW r \in Recs
    PROVE  InHand(r)' = InHand(r) /\ Calling(r)' = Calling(r)
<1>1. r # "none"
  BY RecommendationAssumption
<1>2. x \notin InHand(r) /\ x \notin Calling(r)
  BY <1>1 DEF InHand, Calling
<1> QED
  BY <1>1, <1>2, MovedSets

PaidFor(r) == done[r] + Cardinality(Calling(r)) + Open(r) <= 1 + excuses[r]

LEMMA StepPaid ==
    RecommendationTypeOK /\ Work /\ Paid /\ [Next]_vars => Paid'
<1> SUFFICES ASSUME RecommendationTypeOK, Work, Paid, [Next]_vars,
                    NEW r \in Recs
             PROVE  PaidFor(r)'
  BY DEF Paid, PaidFor
<1>p. /\ done[r] + Cardinality(Calling(r)) + Open(r) <= 1 + excuses[r]
      /\ done[r] \in Nat /\ excuses[r] \in Nat /\ Cardinality(Calling(r)) \in Nat
      /\ Open(r) \in {0, 1} /\ Open(r)' \in {0, 1}
  BY CallingCount DEF Paid, RecommendationTypeOK, Open
<1>x. \A x \in Executors :
         /\ exec[x] \in ExecType
         /\ exec[x].pc \in Holding => exec[x].rec \in exec[x].todo /\ exec[x].rec \in Recs
         /\ exec[x].pc \notin Holding => exec[x].rec = "none"
  BY DEF RecommendationTypeOK, Work, WorkOf, ExecType
<1>e. ASSUME NEW s \in Recs, Excuse(s)
      PROVE  /\ excuses'[r] = (IF r = s THEN excuses[r] + 1 ELSE excuses[r])
             /\ excuses'[r] \in Nat
  BY <1>e DEF Excuse, RecommendationTypeOK
<1>s. ASSUME InHand(r)' = InHand(r), Calling(r)' = Calling(r), UNCHANGED done,
             \/ excuses'[r] = excuses[r] + 1
             \/ /\ excuses'[r] = excuses[r]
                /\ row[r].status \in Final => row'[r].status \in Final
      PROVE  PaidFor(r)'
  BY <1>s, <1>p DEF PaidFor, Open
<1>1. CASE UNCHANGED vars
  <2>1. InHand(r)' = InHand(r) /\ Calling(r)' = Calling(r)
    BY <1>1 DEF vars, InHand, Calling
  <2> QED
    BY <1>1, <2>1, <1>s DEF vars
<1>2. ASSUME NEW s \in Recs, Store(s)
      PROVE  PaidFor(r)'
  <2>1. /\ InHand(r)' = InHand(r) /\ Calling(r)' = Calling(r)
        /\ ExcuseIf(row[s].status # "none", s) /\ UNCHANGED done
    BY <1>2 DEF Store, InHand, Calling
  <2>2. r # s => row'[r] = row[r]
    BY <1>2 DEF Store, RecommendationTypeOK
  <2>3. CASE row[s].status # "none"
    <3>1. Excuse(s)
      BY <2>1, <2>3 DEF ExcuseIf
    <3> QED
      BY <2>1, <2>2, <3>1, <1>e, <1>s
  <2>4. CASE row[s].status = "none"
    BY <2>1, <2>2, <2>4, <1>s DEF ExcuseIf, Final
  <2> QED
    BY <2>3, <2>4
<1>3. ASSUME NEW d \in Reviewers, Check(d) \/ Withdraw(d)
      PROVE  PaidFor(r)'
  <2>1. /\ InHand(r)' = InHand(r) /\ Calling(r)' = Calling(r)
        /\ UNCHANGED <<row, done, excuses>>
    BY <1>3 DEF Check, Withdraw, InHand, Calling
  <2> QED
    BY <2>1, <1>s
<1>4. ASSUME NEW d \in Reviewers, Resolve(d)
      PROVE  PaidFor(r)'
  <2> DEFINE s == review[d].rec
  <2>1. /\ InHand(r)' = InHand(r) /\ Calling(r)' = Calling(r) /\ UNCHANGED done
        /\ ExcuseIf(row[s].status \in Final, s)
        /\ row' = [row EXCEPT ![s].status = review[d].status]
    BY <1>4 DEF Resolve, InHand, Calling
  <2>2. s \in Recs
    BY <1>4 DEF Resolve, RecommendationTypeOK, ReviewType
  <2>3. r # s => row'[r] = row[r]
    BY <2>1 DEF RecommendationTypeOK
  <2> HIDE DEF s
  <2>4. CASE row[s].status \in Final
    <3>1. Excuse(s)
      BY <2>1, <2>4 DEF ExcuseIf
    <3> QED
      BY <2>1, <2>2, <2>3, <3>1, <1>e, <1>s
  <2>5. CASE row[s].status \notin Final
    BY <2>1, <2>3, <2>5, <1>s DEF ExcuseIf
  <2> QED
    BY <2>4, <2>5
<1>5. ASSUME NEW x \in Executors, OrderStep(x)
      PROVE  PaidFor(r)'
  <2>1. PICK recs \in SUBSET Recs : Order(x, recs)
    BY <1>5 DEF OrderStep, OrderOne, OrderBatch
  <2> DEFINE e == [Free EXCEPT !.pc = "next", !.todo = recs, !.attempted = Cardinality(recs)]
  <2>2. e.rec = "none"
    BY DEF Free
  <2>3. exec[x].rec = "none"
    BY <2>1, <1>x DEF Order, Holding
  <2>4. InHand(r)' = InHand(r) /\ Calling(r)' = Calling(r)
    BY <2>1, <2>2, <2>3, MovedEmpty DEF Order
  <2> QED
    BY <2>1, <2>4, <1>s DEF Order
<1>6. ASSUME NEW x \in Executors, Reuse(x)
      PROVE  PaidFor(r)'
  <2>1. PICK s \in exec[x].todo :
               Move(x, [exec[x] EXCEPT !.todo = @ \ {s}, !.executed = @ + 1])
    BY <1>6 DEF Reuse
  <2> DEFINE e == [exec[x] EXCEPT !.todo = @ \ {s}, !.executed = @ + 1]
  <2>2. exec[x].rec = "none"
    BY <1>6, <1>x DEF Reuse, Holding
  <2>3. e.rec = "none"
    BY <2>2, <1>x DEF ExecType
  <2>4. InHand(r)' = InHand(r) /\ Calling(r)' = Calling(r)
    BY <2>1, <2>2, <2>3, MovedEmpty
  <2> QED
    BY <1>6, <2>4, <1>s DEF Reuse
<1>7. ASSUME NEW x \in Executors, Refuse(x) \/ Report(x)
      PROVE  PaidFor(r)'
  <2>1. exec[x].rec = "none" /\ Free.rec = "none"
    BY <1>7, <1>x DEF Refuse, Report, Holding, Free
  <2>2. InHand(r)' = InHand(r) /\ Calling(r)' = Calling(r)
    BY <1>7, <2>1, MovedEmpty DEF Refuse, Report
  <2> QED
    BY <1>7, <2>2, <1>s DEF Refuse, Report
<1>8. ASSUME NEW x \in Executors, Take(x)
      PROVE  PaidFor(r)'
  <2>1. PICK s \in exec[x].todo :
               /\ Executable(s)
               /\ Move(x, [exec[x] EXCEPT !.pc = "call", !.rec = s, !.read = row[s],
                                          !.tries = 0])
               /\ ExcuseIf(row[s].status = "FAILED" \/ InHand(s) # {}, s)
    BY <1>8 DEF Take
  <2> DEFINE e == [exec[x] EXCEPT !.pc = "call", !.rec = s, !.read = row[s], !.tries = 0]
  <2>2. s \in Recs /\ e.pc = "call" /\ e.rec = s
    BY <1>x DEF ExecType
  <2>3. exec[x].rec = "none" /\ r # "none"
    BY <1>8, <1>x, RecommendationAssumption DEF Take, Holding
  <2>4. x \notin InHand(r) /\ x \notin Calling(r)
    BY <2>3 DEF InHand, Calling
  <2>m. Move(x, e) /\ UNCHANGED <<row, done>>
    BY <1>8, <2>1 DEF Take
  <2> HIDE DEF e
  <2>5. CASE r # s
    <3>1. InHand(r)' = InHand(r) /\ Calling(r)' = Calling(r)
      BY <2>2, <2>4, <2>5, <2>m, MovedSets
    <3>2. excuses'[r] = excuses[r]
      BY <2>1, <2>2, <2>5, <1>e DEF ExcuseIf
    <3> QED
      BY <2>m, <3>1, <3>2, <1>s
  <2>6. CASE r = s
    <3>1. InHand(r)' = InHand(r) \cup {x} /\ Calling(r)' = Calling(r) \cup {x}
      BY <2>2, <2>6, <2>m, MovedSets
    <3>2. Open(r)' = 0
      BY <3>1 DEF Open
    <3>3. Cardinality(Calling(r)') = Cardinality(Calling(r)) + 1
      BY <3>1, <2>4, CallingCount
    <3>4. CASE row[s].status = "FAILED" \/ InHand(s) # {}
      <4>1. excuses'[r] = excuses[r] + 1
        BY <2>1, <2>2, <2>6, <3>4, <1>e DEF ExcuseIf
      <4> QED
        BY <4>1, <3>2, <3>3, <2>m, <1>p DEF PaidFor
    <3>5. CASE ~(row[s].status = "FAILED" \/ InHand(s) # {})
      <4>1. Open(r) = 1
        BY <2>1, <2>6, <3>5 DEF Open, Executable, Final
      <4>2. excuses' = excuses
        BY <2>1, <3>5 DEF ExcuseIf
      <4> QED
        BY <4>1, <4>2, <3>2, <3>3, <2>m, <1>p DEF PaidFor
    <3> QED
      BY <3>4, <3>5
  <2> QED
    BY <2>5, <2>6
<1>h. ASSUME NEW x \in Executors, exec[x].pc \in Holding, NEW e, Move(x, e),
             e.rec = exec[x].rec
      PROVE  /\ InHand(r)' = InHand(r)
             /\ r # e.rec => Calling(r)' = Calling(r)
             /\ Cardinality(Calling(r)') \in Nat
             /\ e.pc # "call" => Cardinality(Calling(r)') <= Cardinality(Calling(r))
             /\ exec[x].pc = "call" => Cardinality(Calling(r)') <= Cardinality(Calling(r))
             /\ exec[x].pc = "call" /\ e.pc # "call" /\ r = e.rec
                  => Cardinality(Calling(r)') = Cardinality(Calling(r)) - 1
  <2>a. /\ InHand(r)' = IF e.rec = r THEN InHand(r) \cup {x} ELSE InHand(r) \ {x}
        /\ Calling(r)' = IF e.pc = "call" /\ e.rec = r
                         THEN Calling(r) \cup {x} ELSE Calling(r) \ {x}
    BY <1>h, MovedSets
  <2>b. /\ x \in InHand(r) <=> e.rec = r
        /\ x \in Calling(r) => e.rec = r
    BY <1>h DEF InHand, Calling
  <2>1. InHand(r)' = InHand(r)
    BY <2>a, <2>b
  <2>2. r # e.rec => Calling(r)' = Calling(r)
    BY <2>a, <2>b
  <2>3. CASE x \in Calling(r)
    <3>1. Calling(r)' = Calling(r) \/ Calling(r)' = Calling(r) \ {x}
      BY <2>3, <1>h, MovedSets
    <3>2. e.pc # "call" => Calling(r)' = Calling(r) \ {x}
      BY <1>h, MovedSets
    <3>3. Cardinality(Calling(r) \ {x}) = Cardinality(Calling(r)) - 1
      BY <2>3, CallingCount
    <3>4. Cardinality(Calling(r)') \in Nat
      BY <3>1, CallingCount, FS_RemoveElement, FS_CardinalityType
    <3> QED
      BY <2>1, <2>2, <3>1, <3>2, <3>3, <3>4, <1>p
  <2>4. CASE x \notin Calling(r)
    <3>1. e.pc # "call" => Calling(r)' = Calling(r)
      BY <2>4, <2>a
    <3>2. exec[x].pc = "call" => r # exec[x].rec
      BY <2>4, <1>h DEF Calling
    <3>3. Cardinality(Calling(r)') \in Nat
      <4>1. Calling(r)' = Calling(r) \/ Calling(r)' = Calling(r) \cup {x}
        BY <2>4, <2>a
      <4> QED
        BY <4>1, <2>4, CallingCount, <1>p
    <3> QED
      BY <1>h, <2>1, <2>2, <3>1, <3>2, <3>3, <1>p
  <2> QED
    BY <2>3, <2>4
<1>9. ASSUME NEW x \in Executors, Answer(x)
      PROVE  PaidFor(r)'
  <2>1. PICK pc \in {"executed", "failed"} : Move(x, [exec[x] EXCEPT !.pc = pc])
    BY <1>9 DEF Answer
  <2> DEFINE e == [exec[x] EXCEPT !.pc = pc]
  <2>2. e.rec = exec[x].rec /\ e.pc # "call"
    BY <1>x DEF ExecType
  <2>m. /\ Move(x, e) /\ exec[x].pc = "call" /\ exec[x].pc \in Holding
        /\ exec[x].rec \in Recs /\ UNCHANGED <<row, excuses>>
        /\ Perform(x)
    BY <1>9, <2>1, <1>x DEF Answer, Holding
  <2> HIDE DEF e
  <2>3. Open(r)' = Open(r)
    BY <2>2, <2>m, <1>h DEF Open
  <2>4. CASE r = exec[x].rec
    <3>1. done'[r] = done[r] + 1
      BY <2>4, <2>m DEF Perform, RecommendationTypeOK
    <3> QED
      BY <3>1, <2>2, <2>3, <2>4, <2>m, <1>h, <1>p DEF PaidFor
  <2>5. CASE r # exec[x].rec
    <3>1. done'[r] = done[r]
      BY <2>5, <2>m DEF Perform, RecommendationTypeOK
    <3> QED
      BY <3>1, <2>2, <2>3, <2>5, <2>m, <1>h, <1>p DEF PaidFor
  <2> QED
    BY <2>4, <2>5
<1>10. ASSUME NEW x \in Executors, LoseAnswer(x)
       PROVE  PaidFor(r)'
  <2> DEFINE e == [exec[x] EXCEPT !.tries = @ + 1,
                      !.pc = IF exec[x].tries + 1 = MaxTries THEN "failed" ELSE @]
  <2>1. e.rec = exec[x].rec
    BY <1>x DEF ExecType
  <2>m. /\ Move(x, e) /\ exec[x].pc = "call" /\ exec[x].pc \in Holding
        /\ exec[x].rec \in Recs /\ UNCHANGED row /\ Excuse(exec[x].rec)
        /\ Perform(x)
    BY <1>10, <1>x DEF LoseAnswer, Again, Holding
  <2> HIDE DEF e
  <2>2. Open(r)' = Open(r) /\ Cardinality(Calling(r)') <= Cardinality(Calling(r))
    BY <2>1, <2>m, <1>h DEF Open
  <2>3. Cardinality(Calling(r)') \in Nat
    BY <2>1, <2>m, <1>h
  <2>4. CASE r = exec[x].rec
    <3>1. done'[r] = done[r] + 1 /\ excuses'[r] = excuses[r] + 1
      BY <2>4, <2>m, <1>e DEF Perform, RecommendationTypeOK
    <3> QED
      BY <3>1, <2>2, <2>3, <1>p DEF PaidFor
  <2>5. CASE r # exec[x].rec
    <3>1. done'[r] = done[r] /\ excuses'[r] = excuses[r]
      BY <2>5, <2>m, <1>e DEF Perform, RecommendationTypeOK
    <3> QED
      BY <3>1, <2>2, <2>3, <1>p DEF PaidFor
  <2> QED
    BY <2>4, <2>5
<1>11. ASSUME NEW x \in Executors, NoAnswer(x) \/ GiveUp(x)
       PROVE  PaidFor(r)'
  <2>1. PICK e : Move(x, e) /\ e.rec = exec[x].rec
    <3>1. CASE NoAnswer(x)
      <4> DEFINE e == [exec[x] EXCEPT !.tries = @ + 1,
                          !.pc = IF exec[x].tries + 1 = MaxTries THEN "failed" ELSE @]
      <4>1. e.rec = exec[x].rec
        BY <1>x DEF ExecType
      <4> QED
        BY <3>1, <4>1 DEF NoAnswer, Again
    <3>2. CASE GiveUp(x)
      <4> DEFINE e == [exec[x] EXCEPT !.pc = "failed"]
      <4>1. e.rec = exec[x].rec
        BY <1>x DEF ExecType
      <4> QED
        BY <3>2, <4>1 DEF GiveUp
    <3> QED
      BY <1>11, <3>1, <3>2
  <2>2. exec[x].pc = "call" /\ exec[x].pc \in Holding /\ UNCHANGED <<row, done, excuses>>
    BY <1>11 DEF NoAnswer, GiveUp, Holding
  <2>3. /\ Open(r)' = Open(r) /\ Cardinality(Calling(r)') <= Cardinality(Calling(r))
        /\ Cardinality(Calling(r)') \in Nat
    BY <2>1, <2>2, <1>h DEF Open
  <2> QED
    BY <2>2, <2>3, <1>p DEF PaidFor
<1>k. ASSUME NEW x \in Executors, NEW e, Move(x, e), e.rec = "none"
      PROVE  /\ r # exec[x].rec => Calling(r)' = Calling(r) /\ InHand(r)' = InHand(r)
             /\ Cardinality(Calling(r)') <= Cardinality(Calling(r))
             /\ Cardinality(Calling(r)') \in Nat
  <2>0. r # "none"
    BY RecommendationAssumption
  <2>1. InHand(r)' = InHand(r) \ {x} /\ Calling(r)' = Calling(r) \ {x}
    BY <2>0, <1>k, MovedSets
  <2>2. r # exec[x].rec => Calling(r)' = Calling(r) /\ InHand(r)' = InHand(r)
    BY <2>1 DEF InHand, Calling
  <2>3. CASE x \in Calling(r)
    <3>1. Cardinality(Calling(r)') = Cardinality(Calling(r)) - 1
      BY <2>1, <2>3, CallingCount
    <3>2. Cardinality(Calling(r)') \in Nat
      BY <2>1, CallingCount, FS_RemoveElement, FS_CardinalityType
    <3> QED
      BY <2>2, <3>1, <3>2, <1>p
  <2>4. CASE x \notin Calling(r)
    <3>1. Calling(r)' = Calling(r)
      BY <2>1, <2>4
    <3> QED
      BY <2>2, <3>1, <1>p
  <2> QED
    BY <2>3, <2>4
<1>12. ASSUME NEW x \in Executors, Record(x)
       PROVE  PaidFor(r)'
  <2> DEFINE e == [exec[x] EXCEPT !.pc = "next", !.rec = "none", !.read = NoRow,
                      !.todo = @ \ {exec[x].rec}, !.tries = 0,
                      !.executed = IF exec[x].pc = "executed" THEN @ + 1 ELSE @,
                      !.failed = IF exec[x].pc = "failed" THEN @ + 1 ELSE @]
  <2>1. e.rec = "none"
    BY <1>x DEF ExecType
  <2>m. Move(x, e) /\ UNCHANGED <<done, excuses>>
    BY <1>12 DEF Record
  <2> HIDE DEF e
  <2>2. CASE r = exec[x].rec
    <3>1. row'[r].status \in Final
      BY <1>12, <2>2 DEF Record, RecommendationTypeOK, RowType, Final
    <3>2. Open(r)' = 0
      BY <3>1 DEF Open
    <3>3. Cardinality(Calling(r)') <= Cardinality(Calling(r)) /\ Cardinality(Calling(r)') \in Nat
      BY <2>1, <2>m, <1>k
    <3> QED
      BY <2>m, <3>2, <3>3, <1>p DEF PaidFor
  <2>3. CASE r # exec[x].rec
    <3>1. row'[r] = row[r]
      BY <1>12, <2>3 DEF Record, RecommendationTypeOK
    <3>2. InHand(r)' = InHand(r) /\ Calling(r)' = Calling(r)
      BY <2>1, <2>m, <2>3, <1>k
    <3> QED
      BY <2>m, <3>1, <3>2, <1>s
  <2> QED
    BY <2>2, <2>3
<1>13. ASSUME NEW x \in Executors, Abandon(x)
       PROVE  PaidFor(r)'
  <2>1. Move(x, Free) /\ UNCHANGED <<row, done>> /\ Free.rec = "none"
    BY <1>13 DEF Abandon, Free
  <2>2. CASE r = exec[x].rec
    <3>1. excuses'[r] = excuses[r] + 1
      BY <1>13, <2>2, <1>e DEF Abandon
    <3>2. Cardinality(Calling(r)') <= Cardinality(Calling(r)) /\ Cardinality(Calling(r)') \in Nat
      BY <2>1, <1>k
    <3> QED
      BY <2>1, <3>1, <3>2, <1>p DEF PaidFor, Open
  <2>3. CASE r # exec[x].rec
    <3>1. excuses'[r] = excuses[r]
      BY <1>13, <2>3, <1>e DEF Abandon
    <3>2. InHand(r)' = InHand(r) /\ Calling(r)' = Calling(r)
      BY <2>1, <2>3, <1>k
    <3> QED
      BY <2>1, <3>1, <3>2, <1>s
  <2> QED
    BY <2>2, <2>3
<1> QED
  BY <1>1, <1>2, <1>3, <1>4, <1>5, <1>6, <1>7, <1>8, <1>9, <1>10, <1>11, <1>12, <1>13
     DEF Next, ReviewStep, ExecStep

-----------------------------------------------------------------------------
(* Spare *)

\* Whoever comes to hold a recommendation has taken it.
LEMMA HoldersTook ==
    ASSUME RecommendationTypeOK, Work, Next, NEW r \in Recs, NEW x \in InHand(r)',
           x \notin InHand(r)
    PROVE  /\ Executable(r) /\ UNCHANGED row
           /\ InHand(r) # {} => excuses'[r] > 0
           /\ InHand(r)' = InHand(r) \cup {x}
<1>x. /\ x \in Executors /\ exec'[x].rec = r /\ exec[x].rec # r
      /\ r # "none"
  BY RecommendationAssumption DEF InHand
<1>2. ASSUME NEW y \in Executors, NEW e, Move(y, e), e.rec \in {"none", exec[y].rec}
      PROVE  FALSE
  BY <1>x, <1>2, Moved
<1>t. \A y \in Executors : exec[y] \in ExecType
  BY DEF RecommendationTypeOK
<1>3. ASSUME NEW y \in Executors, Take(y)
      PROVE  /\ Executable(r) /\ UNCHANGED row
             /\ InHand(r) # {} => excuses'[r] > 0
             /\ InHand(r)' = InHand(r) \cup {x}
  <2>1. PICK s \in exec[y].todo :
               /\ Executable(s)
               /\ Move(y, [exec[y] EXCEPT !.pc = "call", !.rec = s, !.read = row[s],
                                          !.tries = 0])
               /\ ExcuseIf(row[s].status = "FAILED" \/ InHand(s) # {}, s)
    BY <1>3 DEF Take
  <2> DEFINE e == [exec[y] EXCEPT !.pc = "call", !.rec = s, !.read = row[s], !.tries = 0]
  <2>2. e.rec = s
    BY <1>t DEF ExecType
  <2>3. y = x /\ s = r
    BY <1>x, <2>1, <2>2, Moved
  <2>4. InHand(r)' = InHand(r) \cup {x}
    BY <2>1, <2>2, <2>3, MovedSets
  <2>5. ASSUME InHand(r) # {}
        PROVE  excuses'[r] > 0
    <3>1. excuses[r] \in Nat
      BY DEF RecommendationTypeOK
    <3>2. excuses'[r] = excuses[r] + 1
      BY <2>1, <2>3, <2>5 DEF ExcuseIf, Excuse, RecommendationTypeOK
    <3> QED
      BY <3>1, <3>2
  <2> QED
    BY <1>3, <2>1, <2>3, <2>4, <2>5 DEF Take
<1>4. ASSUME NEW y \in Executors, OrderStep(y) \/ ExecStep(y) \/ Abandon(y), ~Take(y)
      PROVE  FALSE
  <2>f. Free.rec = "none"
    BY DEF Free
  <2>0. CASE OrderStep(y)
    <3>1. PICK recs : Order(y, recs)
      BY <2>0 DEF OrderStep, OrderOne, OrderBatch
    <3> DEFINE e == [Free EXCEPT !.pc = "next", !.todo = recs, !.attempted = Cardinality(recs)]
    <3>2. e.rec = "none"
      BY DEF Free
    <3> QED
      BY <3>1, <3>2, <1>2 DEF Order
  <2>1. CASE Reuse(y)
    <3>1. PICK s : Move(y, [exec[y] EXCEPT !.todo = @ \ {s}, !.executed = @ + 1])
      BY <2>1 DEF Reuse
    <3> QED
      BY <3>1, <1>2, <1>t DEF ExecType
  <2>2. CASE Refuse(y) \/ Report(y) \/ Abandon(y)
    BY <2>2, <2>f, <1>2 DEF Refuse, Report, Abandon
  <2>4. CASE Answer(y) \/ GiveUp(y)
    <3>1. PICK pc : Move(y, [exec[y] EXCEPT !.pc = pc])
      BY <2>4 DEF Answer, GiveUp
    <3> QED
      BY <3>1, <1>2, <1>t DEF ExecType
  <2>5. CASE LoseAnswer(y) \/ NoAnswer(y)
    <3>1. PICK pc, n : Move(y, [exec[y] EXCEPT !.tries = n, !.pc = pc])
      BY <2>5 DEF LoseAnswer, NoAnswer, Again
    <3> QED
      BY <3>1, <1>2, <1>t DEF ExecType
  <2>6. CASE Record(y)
    <3>1. PICK n, k : Move(y, [exec[y] EXCEPT !.pc = "next", !.rec = "none",
                                 !.read = NoRow, !.todo = @ \ {exec[y].rec},
                                 !.tries = 0, !.executed = n, !.failed = k])
      BY <2>6 DEF Record
    <3> QED
      BY <3>1, <1>2, <1>t DEF ExecType
  <2> QED
    BY <1>4, <2>0, <2>1, <2>2, <2>4, <2>5, <2>6 DEF ExecStep
<1>5. exec' # exec
  BY <1>x
<1> QED
  BY <1>3, <1>4, <1>5 DEF Next, Store, ReviewStep, Check, Withdraw, Resolve

LEMMA ExcusesStay ==
    ASSUME RecommendationTypeOK, [Next]_vars, NEW r \in Recs
    PROVE  excuses'[r] >= excuses[r] /\ excuses[r] \in Nat /\ excuses'[r] \in Nat
<1>1. excuses \in [Recs -> Nat]
  BY DEF RecommendationTypeOK
<1>2. excuses' = excuses \/ \E s : Excuse(s)
  BY DEF Next, vars, ReviewStep, OrderStep, ExecStep, Store, Check, Withdraw,
         Resolve, OrderOne, OrderBatch, Order, Reuse, Refuse, Take, Answer,
         LoseAnswer, NoAnswer, GiveUp, Record, Report, Abandon, ExcuseIf
<1> QED
  BY <1>1, <1>2 DEF Excuse

\* A row comes to read EXECUTED when an executor lays it down.
LEMMA OneWasExecuted ==
    ASSUME RecommendationTypeOK, Work, Next, NEW r \in Recs,
           row'[r].status = "EXECUTED", row[r].status # "EXECUTED"
    PROVE  \E x \in InHand(r) : InHand(r)' = InHand(r) \ {x}
<1>1. ASSUME NEW s \in Recs, Store(s)
      PROVE  FALSE
  BY <1>1 DEF Store, RecommendationTypeOK
<1>2. ASSUME NEW d \in Reviewers, Resolve(d)
      PROVE  FALSE
  BY <1>2 DEF Resolve, RecommendationTypeOK, RowType, ReviewType
<1>3. ASSUME NEW x \in Executors, Record(x)
      PROVE  x \in InHand(r) /\ InHand(r)' = InHand(r) \ {x}
  <2> DEFINE e == [exec[x] EXCEPT !.pc = "next", !.rec = "none", !.read = NoRow,
                      !.todo = @ \ {exec[x].rec}, !.tries = 0,
                      !.executed = IF exec[x].pc = "executed" THEN @ + 1 ELSE @,
                      !.failed = IF exec[x].pc = "failed" THEN @ + 1 ELSE @]
  <2>1. e.rec = "none" /\ r # "none"
    BY RecommendationAssumption DEF RecommendationTypeOK, ExecType
  <2>2. Move(x, e)
    BY <1>3 DEF Record
  <2> HIDE DEF e
  <2>3. exec[x].rec = r
    BY <1>3 DEF Record, RecommendationTypeOK
  <2>4. InHand(r)' = InHand(r) \ {x}
    BY <2>1, <2>2, MovedSets
  <2> QED
    BY <2>3, <2>4 DEF InHand
<1>4. row' # row
  OBVIOUS
<1> QED
  BY <1>1, <1>2, <1>3, <1>4
     DEF Next, ReviewStep, OrderStep, ExecStep, Check, Withdraw, OrderOne,
         OrderBatch, Order, Reuse, Refuse, Take, Answer, LoseAnswer, NoAnswer,
         GiveUp, Report, Abandon

\* Two executors at once, or one that works on what reads EXECUTED, were excused.
LEMMA StepSpare ==
    RecommendationTypeOK /\ Work /\ Spare /\ [Next]_vars => Spare'
<1> SUFFICES ASSUME RecommendationTypeOK, Work, Spare, [Next]_vars, NEW r \in Recs
             PROVE  /\ \A x, y \in InHand(r)' : x # y => excuses'[r] > 0
                    /\ row'[r].status = "EXECUTED" /\ InHand(r)' # {} => excuses'[r] > 0
  BY DEF Spare
<1>e. excuses[r] > 0 => excuses'[r] > 0
  BY ExcusesStay
<1>s. /\ \A x, y \in InHand(r) : x # y => excuses[r] > 0
      /\ row[r].status = "EXECUTED" /\ InHand(r) # {} => excuses[r] > 0
  BY DEF Spare
<1>1. CASE UNCHANGED vars
  BY <1>1, <1>s DEF vars, InHand
<1>2. CASE Next
  <2>1. ASSUME NEW x \in InHand(r)', x \notin InHand(r)
        PROVE  /\ Executable(r) /\ UNCHANGED row
               /\ InHand(r) # {} => excuses'[r] > 0
               /\ InHand(r)' = InHand(r) \cup {x}
    BY <1>2, <2>1, HoldersTook
  <2>2. CASE InHand(r)' \subseteq InHand(r)
    <3>1. ASSUME row'[r].status = "EXECUTED", row[r].status # "EXECUTED",
                 InHand(r)' # {}
          PROVE  excuses'[r] > 0
      <4>1. PICK x \in InHand(r) : InHand(r)' = InHand(r) \ {x}
        BY <1>2, <3>1, OneWasExecuted
      <4>2. PICK y \in InHand(r)' : TRUE
        BY <3>1
      <4> QED
        BY <1>e, <1>s, <4>1, <4>2
    <3> QED
      BY <1>e, <1>s, <2>2, <3>1
  <2>3. ASSUME NEW x \in InHand(r)', x \notin InHand(r)
        PROVE  /\ \A y, z \in InHand(r)' : y # z => excuses'[r] > 0
               /\ row'[r].status # "EXECUTED"
    BY <2>1, <2>3 DEF Executable
  <2> QED
    BY <2>2, <2>3
<1> QED
  BY <1>1, <1>2

-----------------------------------------------------------------------------

LEMMA InitInv == Init => RecommendationInv /\ Paid
<1> SUFFICES ASSUME Init
             PROVE  RecommendationInv /\ Paid
  OBVIOUS
<1>1. Work
  BY FreeWorks DEF Init, Work, NoReview, Final
<1>2. Offered /\ Approved /\ Done
  BY DEF Init, Offered, Known, Approved, CallsAreApproved, Done, ExecutedWasDone, NoRow, Free
<1>4. Spare
  BY RecommendationAssumption DEF Init, Spare, InHand, Free
<1>3. Paid
  <2>1. \A r \in Recs : Calling(r) = {}
    BY DEF Init, Calling, Free
  <2> QED
    BY <2>1, FS_EmptySet DEF Init, Paid, Open
<1> QED
  BY InitTypes, <1>1, <1>2, <1>3, <1>4 DEF RecommendationInv

LEMMA StepInv == RecommendationInv /\ [Next]_vars => RecommendationInv'
BY StepTypes, StepWork, StepOffered, StepApproved, StepDone, StepSpare DEF RecommendationInv

LEMMA InvHolds == Spec => []RecommendationInv
BY InitInv, StepInv, PTL DEF Spec

\* Rows, requests and executors keep their form, and no call outlasts its attempts.
THEOREM RecommendationTyped == Spec => []RecommendationTypeOK
BY InvHolds, PTL DEF RecommendationInv

\* No provider is called for a version of a recommendation that was neither approved
\* nor free of approval, however envelopes, reviewers and executors interleave.
THEOREM OnlyApprovedCalls == Spec => []CallsAreApproved
<1>1. RecommendationInv => CallsAreApproved
  BY DEF RecommendationInv, Approved
<1> QED
  BY <1>1, InvHolds, PTL

\* A row that says EXECUTED has been carried out.
THEOREM ExecutedIsTrue == Spec => []ExecutedWasDone
<1>1. RecommendationInv => ExecutedWasDone
  BY DEF RecommendationInv, Done
<1> QED
  BY <1>1, InvHolds, PTL

\* The counts that executeApprovedRecommendationsForRun returns add up.
THEOREM BatchesAddUp == Spec => []BatchAddsUp
<1>1. RecommendationInv => BatchAddsUp
  <2> SUFFICES ASSUME RecommendationInv, NEW x \in Executors,
                      exec[x].pc = "next", exec[x].todo = {}
               PROVE  exec[x].executed + exec[x].failed = exec[x].attempted
    BY DEF BatchAddsUp
  <2>1. exec[x].executed \in Nat /\ exec[x].failed \in Nat
    BY DEF RecommendationInv, RecommendationTypeOK, ExecType
  <2>2. exec[x].attempted = exec[x].executed + exec[x].failed + Cardinality(exec[x].todo)
    BY DEF RecommendationInv, Work, WorkOf
  <2> QED
    BY <2>1, <2>2, FS_EmptySet
<1> QED
  BY <1>1, InvHolds, PTL

\* An action is carried out once, plus once at most for each excuse.
THEOREM RepeatsPaid == Spec => []RepeatsArePaidFor
<1>1. RecommendationInv /\ Paid /\ [Next]_vars => Paid'
  BY StepPaid DEF RecommendationInv
<1>2. RecommendationInv /\ Paid => RepeatsArePaidFor
  <2> SUFFICES ASSUME RecommendationInv, Paid, NEW r \in Recs
               PROVE  done[r] <= 1 + excuses[r]
    BY DEF RepeatsArePaidFor
  <2>1. /\ done[r] \in Nat /\ excuses[r] \in Nat
        /\ Cardinality(Calling(r)) \in Nat /\ Open(r) \in {0, 1}
    BY CallingCount DEF RecommendationInv, RecommendationTypeOK, Open
  <2>2. done[r] + Cardinality(Calling(r)) + Open(r) <= 1 + excuses[r]
    BY DEF Paid
  <2> QED
    BY <2>1, <2>2
<1> QED
  BY <1>1, <1>2, InitInv, InvHolds, PTL DEF Spec

\* Only a newer envelope, or somebody who had read the row before it was executed,
\* takes EXECUTED back.
THEOREM StaleWritesOnly == Spec => OnlyStaleWritesReopen
<1> DEFINE Reopened(r) ==
      row[r].status = "EXECUTED" /\ row'[r].status # "EXECUTED"
        => \/ row'[r].version > row[r].version
           \/ \E d \in Reviewers : /\ review[d].rec = r
                                   /\ review[d].seen \notin Final
                                   /\ review'[d] = NoReview
           \/ \E x \in Executors : /\ exec[x].rec = r
                                   /\ exec[x].read.status # "EXECUTED"
                                   /\ exec'[x].rec # r
<1>1. RecommendationInv /\ [Next]_vars => \A r \in Recs : Reopened(r)
  <2> SUFFICES ASSUME RecommendationInv, [Next]_vars, NEW r \in Recs
               PROVE  Reopened(r)
    OBVIOUS
  <2>t. RecommendationTypeOK /\ Work
    BY DEF RecommendationInv
  <2>1. ASSUME NEW s \in Recs, Store(s)
        PROVE  Reopened(r)
    <3>1. row[r].version \in Nat
      BY <2>t DEF RecommendationTypeOK, RowType
    <3>2. row'[r] = row[r] \/ row'[r].version = row[r].version + 1
      BY <2>1, <2>t DEF Store, RecommendationTypeOK
    <3> QED
      BY <3>1, <3>2
  <2>2. ASSUME NEW d \in Reviewers, Resolve(d)
        PROVE  Reopened(r)
    <3>1. review[d].rec # r => row'[r] = row[r]
      BY <2>2, <2>t DEF Resolve, RecommendationTypeOK
    <3>2. review[d].seen \notin Final /\ review'[d] = NoReview
      BY <2>2, <2>t DEF Resolve, RecommendationTypeOK, Work
    <3> QED
      BY <3>1, <3>2
  <2>3. ASSUME NEW x \in Executors, Record(x)
        PROVE  Reopened(r)
    <3> DEFINE e == [exec[x] EXCEPT !.pc = "next", !.rec = "none", !.read = NoRow,
                        !.todo = @ \ {exec[x].rec}, !.tries = 0,
                        !.executed = IF exec[x].pc = "executed" THEN @ + 1 ELSE @,
                        !.failed = IF exec[x].pc = "failed" THEN @ + 1 ELSE @]
    <3>0. exec[x] \in ExecType /\ WorkOf(exec[x])
      BY <2>t DEF RecommendationTypeOK, Work
    <3>1. e.rec = "none" /\ r # "none"
      BY <3>0, RecommendationAssumption DEF ExecType
    <3>2. Move(x, e)
      BY <2>3 DEF Record
    <3> HIDE DEF e
    <3>3. exec'[x].rec # r
      BY <2>t, <3>1, <3>2, Moved
    <3>4. exec[x].rec # r => row'[r] = row[r]
      BY <2>3, <2>t DEF Record, RecommendationTypeOK
    <3>5. exec[x].rec = r => exec[x].read.status # "EXECUTED"
      BY <3>0, <3>1 DEF WorkOf
    <3> QED
      BY <3>3, <3>4, <3>5
  <2>4. CASE UNCHANGED row
    BY <2>4
  <2> QED
    BY <2>1, <2>2, <2>3, <2>4
       DEF Next, vars, ReviewStep, OrderStep, ExecStep, Check, Withdraw, OrderOne,
           OrderBatch, Order, Reuse, Refuse, Take, Answer, LoseAnswer, NoAnswer,
           GiveUp, Report, Abandon
<1> QED
  BY <1>1, InvHolds, PTL DEF Spec, OnlyStaleWritesReopen

-----------------------------------------------------------------------------
(* The recommendations are a Mandate *)

Versions == [r \in Recs |-> row[r].version]
Claimed == {r \in Recs : row[r].status = "EXECUTED"}

\* A row that keeps its version leaves the offers alone.
LEMMA SameOffers ==
    ASSUME RecommendationTypeOK, NEW s, NEW status, row' = [row EXCEPT ![s].status = status]
    PROVE  /\ Versions' = Versions
           /\ status # "EXECUTED" => Claimed' = Claimed \ {s}
           /\ status = "EXECUTED" /\ s \in Recs => Claimed' = Claimed \cup {s}
<1>1. \A r \in Recs : /\ row'[r].version = row[r].version
                      /\ row'[r].status = IF r = s THEN status ELSE row[r].status
  BY DEF RecommendationTypeOK, RowType
<1>2. Versions' = Versions
  BY <1>1 DEF Versions
<1>3. status # "EXECUTED" => Claimed' = Claimed \ {s}
  BY <1>1 DEF Claimed
<1>4. status = "EXECUTED" /\ s \in Recs => Claimed' = Claimed \cup {s}
  BY <1>1 DEF Claimed
<1> QED
  BY <1>2, <1>3, <1>4

LEMMA OnlyExcuses ==
    ASSUME UNCHANGED <<row, mandates, deeds, done>>,
           excuses' = excuses \/ \E s \in Recs : Excuse(s)
    PROVE  Ledger!Next \/ UNCHANGED Ledger!vars
<1>1. Versions' = Versions /\ Claimed' = Claimed
  BY DEF Versions, Claimed
<1>2. CASE excuses' = excuses
  BY <1>1, <1>2 DEF Ledger!vars, Versions, Claimed
<1>3. ASSUME NEW s \in Recs, Excuse(s)
      PROVE  Ledger!Next
  <2>1. Ledger!Excuse(s)
    BY <1>1, <1>3 DEF Excuse, Ledger!Excuse, Ledger!Excused, Versions, Claimed
  <2> QED
    BY <2>1 DEF Ledger!Next
<1> QED
  BY <1>2, <1>3

LEMMA NoExcuse ==
    ASSUME RecommendationTypeOK, NEW r, NEW condition \in BOOLEAN, ExcuseIf(condition, r)
    PROVE  Ledger!Excused(r, IF condition THEN 1 ELSE 0)
<1>1. excuses \in [Recs -> Nat]
  BY DEF RecommendationTypeOK
<1>2. CASE condition
  BY <1>2 DEF ExcuseIf, Excuse, Ledger!Excused
<1>3. CASE ~condition
  <2>1. excuses' = excuses
    BY <1>3 DEF ExcuseIf
  <2>2. excuses = [excuses EXCEPT ![r] = @ + 0]
    BY <1>1
  <2> QED
    BY <1>3, <2>1, <2>2 DEF Ledger!Excused
<1> QED
  BY <1>2, <1>3

LEMMA StoreOffers ==
    ASSUME RecommendationTypeOK, Offered, NEW s \in Recs, Store(s)
    PROVE  Ledger!Offer(s)
<1>1. PICK needs \in BOOLEAN :
        /\ row' = [row EXCEPT ![s] =
                      [status |-> IF needs THEN "PENDING_APPROVAL" ELSE "APPROVED",
                       needs |-> needs, version |-> @.version + 1]]
        /\ mandates' = IF needs THEN mandates
                       ELSE mandates \cup {<<s, row[s].version + 1>>}
  BY DEF Store
<1>2. /\ \A r \in Recs : r # s => row'[r] = row[r]
      /\ row'[s].version = row[s].version + 1
      /\ row'[s].status # "EXECUTED"
  BY <1>1 DEF RecommendationTypeOK
<1>3. Versions' = [Versions EXCEPT ![s] = @ + 1] /\ Versions[s] = row[s].version
  BY <1>2 DEF Versions
<1>4. Claimed' = Claimed \ {s}
  BY <1>2 DEF Claimed
<1>5. Ledger!Excused(s, IF Versions[s] = 0 THEN 0 ELSE 1)
  <2>1. ExcuseIf(row[s].status # "none", s)
    BY DEF Store
  <2>2. Ledger!Excused(s, IF row[s].status # "none" THEN 1 ELSE 0)
    BY <2>1, NoExcuse
  <2>3. (row[s].status # "none") = (row[s].version > 0)
    BY DEF Offered, Known
  <2>4. row[s].version \in Nat
    BY DEF RecommendationTypeOK, RowType
  <2>5. (IF Versions[s] = 0 THEN 0 ELSE 1) = (IF row[s].status # "none" THEN 1 ELSE 0)
    BY <1>3, <2>3, <2>4
  <2> QED
    BY <2>2, <2>5
<1>6. UNCHANGED <<deeds, done>>
  BY DEF Store
<1>7. mandates' \in {mandates, mandates \cup {<<s, Versions[s] + 1>>}}
  BY <1>1, <1>3
<1> QED
  BY <1>3, <1>4, <1>5, <1>6, <1>7 DEF Ledger!Offer, Versions, Claimed

LEMMA ResolveDecides ==
    ASSUME RecommendationTypeOK, Offered, NEW d \in Reviewers, Resolve(d)
    PROVE  \E r \in Recs : \E k \in {0, 1} : Ledger!Decide(r, k)
<1>1. PICK r \in Recs : r = review[d].rec
  BY DEF Resolve, RecommendationTypeOK, ReviewType
<1>2. /\ row' = [row EXCEPT ![r].status = review[d].status]
      /\ mandates' = IF review[d].status = "APPROVED"
                     THEN mandates \cup {<<r, row[r].version>>} ELSE mandates
      /\ ExcuseIf(row[r].status \in Final, r)
      /\ UNCHANGED <<deeds, done>>
  BY <1>1 DEF Resolve
<1>3. review[d].status # "EXECUTED"
  BY DEF Resolve, RecommendationTypeOK, ReviewType
<1>4. Versions' = Versions /\ Claimed' = Claimed \ {r}
  BY <1>2, <1>3, SameOffers
<1>5. Versions[r] = row[r].version /\ row[r].version > 0
  BY <1>1 DEF Resolve, Offered, Versions
<1>b. PICK resolved \in BOOLEAN : resolved <=> row[r].status \in Final
  OBVIOUS
<1> DEFINE k == IF resolved THEN 1 ELSE 0
<1>6. Ledger!Excused(r, k)
  <2>1. ExcuseIf(resolved, r)
    BY <1>2, <1>b DEF ExcuseIf
  <2> QED
    BY <2>1, NoExcuse
<1>7. k \in {0, 1} /\ (r \in Claimed => k = 1)
  BY <1>b DEF Claimed, Final
<1> HIDE DEF k
<1>8. Ledger!Decide(r, k)
  BY <1>2, <1>4, <1>5, <1>6, <1>7 DEF Ledger!Decide, Versions, Claimed
<1> QED
  BY <1>7, <1>8

\* Whoever calls acts on a mandate, and the count still has room for the deed.
LEMMA PerformCarriesOut ==
    ASSUME RecommendationTypeOK, Work, CallsAreApproved, Paid,
           NEW x \in Executors, exec[x].pc = "call", Perform(x),
           NEW k, Ledger!Excused(exec[x].rec, k), UNCHANGED <<row, mandates>>
    PROVE  \E m \in mandates : Ledger!CarryOut(m, k)
<1> DEFINE r == exec[x].rec
           m == <<r, exec[x].read.version>>
<1>1. r \in Recs
  BY DEF RecommendationTypeOK, ExecType, Work, WorkOf, Holding
<1>2. m \in mandates /\ m[1] = r
  BY DEF CallsAreApproved
<1>3. done[r] <= excuses[r]
  <2>1. x \in Calling(r)
    BY DEF Calling
  <2>2. Cardinality(Calling(r)) = Cardinality(Calling(r) \ {x}) + 1
        /\ Cardinality(Calling(r) \ {x}) \in Nat
    <3>1. IsFiniteSet(Calling(r)) /\ Cardinality(Calling(r)) \in Nat
      BY CallingCount
    <3>2. Cardinality(Calling(r) \ {x}) \in Nat
      BY <3>1, FS_RemoveElement, FS_CardinalityType
    <3>3. Cardinality(Calling(r) \ {x}) = Cardinality(Calling(r)) - 1
      BY <2>1, CallingCount
    <3> QED
      BY <3>1, <3>2, <3>3
  <2>3. done[r] \in Nat /\ excuses[r] \in Nat /\ Open(r) \in {0, 1}
    BY <1>1 DEF RecommendationTypeOK, Open
  <2>4. done[r] + Cardinality(Calling(r)) + Open(r) <= 1 + excuses[r]
    BY <1>1 DEF Paid
  <2> HIDE DEF r
  <2> QED
    BY <2>2, <2>3, <2>4
<1>4. done' = [done EXCEPT ![r] = @ + 1] /\ deeds' = deeds \cup {m}
  BY DEF Perform
<1>5. Versions' = Versions /\ Claimed' = Claimed
  BY DEF Versions, Claimed
<1>6. Ledger!Excused(r, k)
  OBVIOUS
<1> HIDE DEF r, m
<1>7. Ledger!CarryOut(m, k)
  BY <1>2, <1>3, <1>4, <1>5, <1>6 DEF Ledger!CarryOut, Versions, Claimed
<1> QED
  BY <1>2, <1>7

\* A result is written down: as a claim, over a claim, or over nothing.
LEMMA RecordClaims ==
    ASSUME RecommendationTypeOK, Work, Done, Spare, NEW x \in Executors, Record(x)
    PROVE  Ledger!Next \/ UNCHANGED Ledger!vars
<1>1. PICK r \in Recs : r = exec[x].rec
  BY DEF Record, RecommendationTypeOK, ExecType, Work, WorkOf, Holding
<1>2. /\ exec[x].pc \in {"executed", "failed"}
      /\ row' = [row EXCEPT ![r].status =
                    IF exec[x].pc = "executed" THEN "EXECUTED" ELSE "FAILED"]
      /\ UNCHANGED <<mandates, deeds, done, excuses>>
  BY <1>1 DEF Record
<1>3. CASE exec[x].pc = "executed"
  <2>1. Versions' = Versions /\ Claimed' = Claimed \cup {r}
    BY <1>2, <1>3, SameOffers
  <2>2. done[r] > 0
    BY <1>1, <1>3 DEF Done
  <2>3. Ledger!Claim(r)
    BY <1>2, <2>1, <2>2 DEF Ledger!Claim, Versions, Claimed
  <2> QED
    BY <2>3 DEF Ledger!Next
<1>4. CASE exec[x].pc = "failed"
  <2>0. PICK status : status # "EXECUTED" /\ row' = [row EXCEPT ![r].status = status]
    BY <1>2, <1>4
  <2>1. Versions' = Versions /\ Claimed' = Claimed \ {r}
    BY <2>0, SameOffers
  <2>2. CASE r \in Claimed
    <3>1. excuses[r] > 0
      BY <1>1, <2>2 DEF Spare, InHand, Claimed
    <3>2. Ledger!Disclaim(r)
      BY <1>2, <2>1, <2>2, <3>1 DEF Ledger!Disclaim, Versions, Claimed
    <3> QED
      BY <3>2 DEF Ledger!Next
  <2>3. CASE r \notin Claimed
    <3>1. Claimed' = Claimed
      BY <2>1, <2>3
    <3> QED
      BY <1>2, <2>1, <3>1 DEF Ledger!vars, Versions, Claimed
  <2> QED
    BY <2>2, <2>3
<1> QED
  BY <1>2, <1>3, <1>4

LEMMA LedgerStep ==
    RecommendationInv /\ Paid /\ [Next]_vars => [Ledger!Next]_(Ledger!vars)
<1> SUFFICES ASSUME RecommendationInv, Paid, [Next]_vars
             PROVE  Ledger!Next \/ UNCHANGED Ledger!vars
  OBVIOUS
<1>i. RecommendationTypeOK /\ Work /\ Offered /\ CallsAreApproved /\ Done /\ Spare
  BY DEF RecommendationInv, Approved
<1>x. \A x \in Executors : exec[x].rec \in Recs \cup {"none"} /\ exec[x].todo \in SUBSET Recs
  BY <1>i DEF RecommendationTypeOK, ExecType
<1>1. CASE UNCHANGED vars
  BY <1>1, OnlyExcuses DEF vars
<1>2. ASSUME NEW r \in Recs, Store(r)
      PROVE  Ledger!Next
  BY <1>2, <1>i, StoreOffers DEF Ledger!Next
<1>3. ASSUME NEW d \in Reviewers, Check(d) \/ Withdraw(d)
      PROVE  Ledger!Next \/ UNCHANGED Ledger!vars
  BY <1>3, OnlyExcuses DEF Check, Withdraw
<1>4. ASSUME NEW d \in Reviewers, Resolve(d)
      PROVE  Ledger!Next
  <2>1. \E r \in Recs : \E k \in {0, 1} : Ledger!Decide(r, k)
    BY <1>4, <1>i, ResolveDecides
  <2> QED
    BY <2>1 DEF Ledger!Next
<1>5. ASSUME NEW x \in Executors,
             OrderStep(x) \/ Reuse(x) \/ Refuse(x) \/ NoAnswer(x) \/ GiveUp(x) \/ Report(x)
      PROVE  Ledger!Next \/ UNCHANGED Ledger!vars
  BY <1>5, OnlyExcuses DEF OrderStep, OrderOne, OrderBatch, Order, Reuse, Refuse, NoAnswer,
                           GiveUp, Report
<1>6. ASSUME NEW x \in Executors, Take(x)
      PROVE  Ledger!Next \/ UNCHANGED Ledger!vars
  <2>1. PICK r \in exec[x].todo : ExcuseIf(row[r].status = "FAILED" \/ InHand(r) # {}, r)
    BY <1>6 DEF Take
  <2>2. excuses' = excuses \/ \E s \in Recs : Excuse(s)
    BY <1>x, <2>1 DEF ExcuseIf
  <2> QED
    BY <1>6, <2>2, OnlyExcuses DEF Take
<1>7. ASSUME NEW x \in Executors, Abandon(x)
      PROVE  Ledger!Next \/ UNCHANGED Ledger!vars
  <2>1. excuses' = excuses \/ \E s \in Recs : Excuse(s)
    BY <1>7 DEF Abandon
  <2> QED
    BY <1>7, <2>1, OnlyExcuses DEF Abandon
<1>8. ASSUME NEW x \in Executors, Answer(x)
      PROVE  Ledger!Next
  <2>1. ExcuseIf(FALSE, exec[x].rec)
    BY <1>8 DEF Answer, ExcuseIf
  <2>2. Ledger!Excused(exec[x].rec, 0)
    BY <2>1, <1>i, NoExcuse
  <2>3. \E m \in mandates : Ledger!CarryOut(m, 0)
    BY <1>8, <1>i, <2>2, PerformCarriesOut DEF Answer
  <2> QED
    BY <2>3 DEF Ledger!Next
<1>9. ASSUME NEW x \in Executors, LoseAnswer(x)
      PROVE  Ledger!Next
  <2>2. Ledger!Excused(exec[x].rec, 1)
    BY <1>9 DEF LoseAnswer, Excuse, Ledger!Excused
  <2>3. \E m \in mandates : Ledger!CarryOut(m, 1)
    BY <1>9, <1>i, <2>2, PerformCarriesOut DEF LoseAnswer
  <2> QED
    BY <2>3 DEF Ledger!Next
<1>10. ASSUME NEW x \in Executors, Record(x)
       PROVE  Ledger!Next \/ UNCHANGED Ledger!vars
  BY <1>10, <1>i, RecordClaims
<1> QED
  BY <1>1, <1>2, <1>3, <1>4, <1>5, <1>6, <1>7, <1>8, <1>9, <1>10
     DEF Next, ReviewStep, ExecStep

\* To those who answer for them, the recommendations are a Mandate: with envelopes,
\* reviewers, executors, retries and crashes in any order, what is carried out was
\* said yes to in the version it was carried out in, once and once more for each
\* excuse, and what is claimed was done.
THEOREM RecommendationsImplementMandate == Spec => ImplementsMandate
<1>1. Init => Ledger!Init
  BY DEF Init, NoRow, Ledger!Init
<1>2. RecommendationInv /\ Paid /\ [Next]_vars => Paid'
  BY StepPaid DEF RecommendationInv
<1> QED
  BY <1>1, <1>2, LedgerStep, InitInv, InvHolds, PTL DEF Spec, ImplementsMandate, Ledger!Spec
=============================================================================
