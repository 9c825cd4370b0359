-------------------------------- MODULE Walk --------------------------------
(***************************************************************************)
(* What a run promises to whoever has drawn its graph, with no rows, jobs, *)
(* handlers or crashes in sight.  The run walks the graph: it enters a     *)
(* node once, along an edge that an outcome of an earlier node selects; it *)
(* carries out an action once, in the node it has entered; and a node      *)
(* comes out in one way, for an action only after it was carried out.      *)
(* Approvals are the exception: two people and a timeout may each have     *)
(* their say.                                                              *)
(***************************************************************************)
EXTENDS Naturals

CONSTANTS Nodes, Trigger, Kind,
          Targets        \* Targets[n][d]: the nodes outcome d of n leads to

VARIABLES
    entered,             \* the nodes the run has come to
    outcomes,            \* outcomes[n]: how node n has come out
    acts                 \* acts[n]: how often n's action was carried out

vars == <<entered, outcomes, acts>>

Init ==
    /\ entered = {}
    /\ outcomes = [n \in Nodes |-> {}]
    /\ acts = [n \in Nodes |-> 0]

Possible(n) ==
    CASE Kind[n] = "APPROVAL"  -> {"approved", "rejected", "timeout"}
      [] Kind[n] = "CONDITION" -> {"true", "false"}
      [] OTHER                 -> {"plain"}

Enter(m) ==
    /\ m \notin entered
    /\ m = Trigger \/ \E n \in entered : \E d \in outcomes[n] : m \in Targets[n][d]
    /\ entered' = entered \cup {m}
    /\ UNCHANGED <<outcomes, acts>>

Act(n) ==
    /\ n \in entered
    /\ Kind[n] = "ACTION" /\ acts[n] = 0 /\ outcomes[n] = {}
    /\ acts' = [acts EXCEPT ![n] = 1]
    /\ UNCHANGED <<entered, outcomes>>

ComeOut(n, d) ==
    /\ n \in entered
    /\ d \in Possible(n)
    /\ Kind[n] # "APPROVAL" => outcomes[n] = {}
    /\ Kind[n] = "ACTION" => acts[n] = 1
    /\ outcomes' = [outcomes EXCEPT ![n] = @ \cup {d}]
    /\ UNCHANGED <<entered, acts>>

Next ==
    \E n \in Nodes : Enter(n) \/ Act(n) \/ \E d \in Possible(n) : ComeOut(n, d)

Spec == Init /\ [][Next]_vars
=============================================================================
