--------------------------- MODULE EventContract ---------------------------
(***************************************************************************)
(* What the system-events pipeline promises of each event, with no relay,  *)
(* queue or worker in it: a published event stays open until it is closed, *)
(* which needs its effects applied, or given up; an event given up can be  *)
(* reopened; and its effects are applied once at most.                     *)
(***************************************************************************)
CONSTANT Event

VARIABLES state, applied

vars == <<state, applied>>

Init == /\ state \in [Event -> {"none", "open"}]
        /\ applied = [e \in Event |-> FALSE]

Publish(e) == /\ state[e] = "none"
              /\ state' = [state EXCEPT ![e] = "open"]
              /\ UNCHANGED applied

\* The effects of an event may land after it was given up: its worker was only slow.
Apply(e) == /\ state[e] \in {"open", "failed"}
            /\ ~applied[e]
            /\ applied' = [applied EXCEPT ![e] = TRUE]
            /\ UNCHANGED state

Close(e) == /\ state[e] = "open"
            /\ applied[e]
            /\ state' = [state EXCEPT ![e] = "done"]
            /\ UNCHANGED applied

\* A sweep may give up several events at once.
GiveUp(E) == /\ \A e \in E : state[e] = "open"
             /\ state' = [e \in Event |-> IF e \in E THEN "failed" ELSE state[e]]
             /\ UNCHANGED applied

Reopen(e) == /\ state[e] = "failed"
             /\ state' = [state EXCEPT ![e] = "open"]
             /\ UNCHANGED applied

Next == \/ \E e \in Event : Publish(e) \/ Apply(e) \/ Close(e) \/ Reopen(e)
        \/ \E E \in SUBSET Event : GiveUp(E)

Spec == Init /\ [][Next]_vars
=============================================================================
