------------------------------ MODULE Exclusion ------------------------------
(***************************************************************************)
(* What a lock that can be lost promises, with no lock in sight: callers   *)
(* enter and leave a critical section, and a caller may be disowned while  *)
(* it is inside (it goes on, knowing nothing).  Nobody enters while a      *)
(* caller that was not disowned is inside.                                 *)
(***************************************************************************)
EXTENDS Naturals

CONSTANT Callers

VARIABLES
    inside,       \* the callers executing the protected code
    disowned      \* those among them that are no longer protected

vars == <<inside, disowned>>

Init == inside = {} /\ disowned = {}

Enter(c) ==
    /\ c \notin inside
    /\ inside \subseteq disowned
    /\ inside' = inside \cup {c}
    /\ UNCHANGED disowned

Leave(c) ==
    /\ c \in inside
    /\ inside' = inside \ {c}
    /\ disowned' = disowned \ {c}

Disown(c) ==
    /\ c \in inside \ disowned
    /\ disowned' = disowned \cup {c}
    /\ UNCHANGED inside

Next == \E c \in Callers : Enter(c) \/ Leave(c) \/ Disown(c)

Spec == Init /\ [][Next]_vars
=============================================================================
