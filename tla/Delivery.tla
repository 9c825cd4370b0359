------------------------------ MODULE Delivery ------------------------------
(***************************************************************************)
(* What the outbox promises to whoever has enqueued an event, with no row, *)
(* batch or lock in sight.  An event is owed until its provider accepts it *)
(* and the acceptance is recorded, or until it is given up; what is        *)
(* settled stays settled and is forgotten one day.  Failures and           *)
(* administrators loosen the promise, and only in the ways named here:     *)
(* after either, an event that was dropped may come back and one that is   *)
(* owed may be forgotten; after a failure, a delivered one may be owed     *)
(* again, and be accepted once more.                                       *)
(***************************************************************************)
EXTENDS Naturals

CONSTANT Events

VARIABLES
    stage,         \* "absent" | "owed" | "delivered" | "dropped" | "gone"
    deliveries,    \* how often the provider has accepted the event
    failures,      \* how often something has failed
    meddlings      \* how often an administrator has stepped in

vars == <<stage, deliveries, failures, meddlings>>

Disturbed == failures > 0 \/ meddlings > 0

Init ==
    /\ stage = [e \in Events |-> "absent"]
    /\ deliveries = [e \in Events |-> 0]
    /\ failures = 0
    /\ meddlings = 0

Enqueue(e) ==
    /\ stage[e] = "absent"
    /\ stage' = [stage EXCEPT ![e] = "owed"]
    /\ UNCHANGED <<deliveries, failures, meddlings>>

\* The provider takes the event, a second time only after a first failure; its
\* answer may be what fails.
Accept(e) ==
    /\ stage[e] # "absent"
    /\ stage[e] = "owed" \/ Disturbed
    /\ deliveries[e] <= failures
    /\ failures' \in {failures, failures + 1}
    /\ deliveries' = [deliveries EXCEPT ![e] = @ + 1]
    /\ UNCHANGED <<stage, meddlings>>

Record(e) ==
    /\ stage[e] = "owed" \/ (stage[e] = "dropped" /\ Disturbed)
    /\ deliveries[e] > 0
    /\ stage' = [stage EXCEPT ![e] = "delivered"]
    /\ UNCHANGED <<deliveries, failures, meddlings>>

GiveUp(e) ==
    /\ stage[e] = "owed"
    /\ stage' = [stage EXCEPT ![e] = "dropped"]
    /\ UNCHANGED <<deliveries, failures, meddlings>>

\* Somebody who knows only an older state of the event has the last word.
Relapse(e) ==
    /\ \/ stage[e] = "dropped" /\ Disturbed /\ stage' = [stage EXCEPT ![e] = "owed"]
       \/ /\ stage[e] = "delivered" /\ failures > 0
          /\ \E s \in {"owed", "dropped"} : stage' = [stage EXCEPT ![e] = s]
    /\ UNCHANGED <<deliveries, failures, meddlings>>

Revive(S) ==
    /\ stage' = [e \in Events |->
           IF e \in S /\ stage[e] = "dropped" THEN "owed" ELSE stage[e]]
    /\ meddlings' = meddlings + 1
    /\ UNCHANGED <<deliveries, failures>>

Drop(S) ==
    /\ stage' = [e \in Events |->
           IF e \in S /\ stage[e] = "owed" THEN "dropped" ELSE stage[e]]
    /\ meddlings' = meddlings + 1
    /\ UNCHANGED <<deliveries, failures>>

Forget(S) ==
    /\ \A e \in S : stage[e] # "absent" /\ (stage[e] = "owed" => Disturbed)
    /\ stage' = [e \in Events |-> IF e \in S THEN "gone" ELSE stage[e]]
    /\ UNCHANGED <<deliveries, failures, meddlings>>

Fail ==
    /\ failures' = failures + 1
    /\ UNCHANGED <<stage, deliveries, meddlings>>

Next ==
    \/ \E e \in Events :
          Enqueue(e) \/ Accept(e) \/ Record(e) \/ GiveUp(e) \/ Relapse(e)
    \/ \E S \in SUBSET Events : Revive(S) \/ Drop(S) \/ Forget(S)
    \/ Fail

Spec == Init /\ [][Next]_vars
=============================================================================
