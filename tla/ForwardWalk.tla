----------------------------- MODULE ForwardWalk -----------------------------
(***************************************************************************)
(* What Proposition 1 promises of a Run, with definitions, nodes and       *)
(* routing left out: a walk over the positions 1..limit that only moves    *)
(* forward and stops at limit or, early, with an error.  The bound limit   *)
(* does not change during a walk, so limit - 1 steps are enough.           *)
(***************************************************************************)
EXTENDS Naturals

VARIABLES pc, pos, limit

wvars == <<pc, pos, limit>>

Init == pc = "ready" /\ pos = 1 /\ limit \in Nat \ {0}

(* Between walks another definition or stage may set another limit. *)
Rest == /\ pc = "ready" /\ pc' = "ready"
        /\ pos' = pos /\ limit' \in Nat \ {0}

Start == /\ pc = "ready" /\ pc' = "running"
         /\ pos' = 1 /\ limit' \in Nat \ {0}

Advance == /\ pc = "running" /\ pc' = "running"
           /\ pos' \in (pos + 1)..limit
           /\ limit' = limit

Stop == pc = "running" /\ pc' = "ready" /\ UNCHANGED <<pos, limit>>

Next == Rest \/ Start \/ Advance \/ Stop

Safety == Init /\ [][Next]_wvars

Spec == Safety /\ WF_wvars(Advance \/ Stop)
=============================================================================
