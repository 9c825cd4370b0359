------------------------------- MODULE Mandate -------------------------------
(***************************************************************************)
(* What the recommendations promise to whoever answers for them, with no   *)
(* rows, reviewers, executors or providers in sight.  A recommendation is  *)
(* offered, version after version.  Its action is carried out only in a    *)
(* version that somebody, or the policy that asks nobody, has said yes to; *)
(* once, and once more for each excuse; and what is claimed to have been   *)
(* carried out was.                                                        *)
(***************************************************************************)
EXTENDS Naturals

CONSTANT Recs

VARIABLES
    offers,      \* offers[r]: how many versions of r were proposed
    mandates,    \* <<r, v>>: version v of r may be carried out
    deeds,       \* <<r, v>>: version v of r was carried out
    done,        \* done[r]: how often r's action was carried out
    excuses,     \* excuses[r]: events that explain one repetition
    claimed      \* the recommendations that read as carried out

vars == <<offers, mandates, deeds, done, excuses, claimed>>

Init ==
    /\ offers = [r \in Recs |-> 0]
    /\ mandates = {} /\ deeds = {} /\ claimed = {}
    /\ done = [r \in Recs |-> 0]
    /\ excuses = [r \in Recs |-> 0]

Excused(r, k) == excuses' = [excuses EXCEPT ![r] = @ + k]

\* A new version takes the claim of the one before it away, and excuses.
Offer(r) ==
    /\ offers' = [offers EXCEPT ![r] = @ + 1]
    /\ mandates' \in {mandates, mandates \cup {<<r, offers[r] + 1>>}}
    /\ claimed' = claimed \ {r}
    /\ Excused(r, IF offers[r] = 0 THEN 0 ELSE 1)
    /\ UNCHANGED <<deeds, done>>

\* A yes is given to the latest version only.  A decision on what was carried out
\* excuses, one on what failed may.
Decide(r, k) ==
    /\ offers[r] > 0
    /\ mandates' \in {mandates, mandates \cup {<<r, offers[r]>>}}
    /\ claimed' = claimed \ {r}
    /\ r \in claimed => k = 1
    /\ Excused(r, k)
    /\ UNCHANGED <<offers, deeds, done>>

\* Somebody acts on mandate m, whatever has been offered or decided since.
CarryOut(m, k) ==
    /\ m \in mandates
    /\ done[m[1]] <= excuses[m[1]]
    /\ done' = [done EXCEPT ![m[1]] = @ + 1]
    /\ deeds' = deeds \cup {m}
    /\ Excused(m[1], k)
    /\ UNCHANGED <<offers, mandates, claimed>>

Claim(r) ==
    /\ done[r] > 0
    /\ claimed' = claimed \cup {r}
    /\ UNCHANGED <<offers, mandates, deeds, done, excuses>>

\* A failure is recorded over the claim, by somebody who acted with an excuse.
Disclaim(r) ==
    /\ r \in claimed
    /\ excuses[r] > 0
    /\ claimed' = claimed \ {r}
    /\ UNCHANGED <<offers, mandates, deeds, done, excuses>>

Excuse(r) == Excused(r, 1) /\ UNCHANGED <<offers, mandates, deeds, done, claimed>>

Next ==
    \/ \E r \in Recs :
          \/ Offer(r) \/ Claim(r) \/ Disclaim(r) \/ Excuse(r)
          \/ \E k \in {0, 1} : Decide(r, k)
    \/ \E m \in mandates, k \in {0, 1} : CarryOut(m, k)

Spec == Init /\ [][Next]_vars
=============================================================================
