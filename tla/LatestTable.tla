---------------------------- MODULE LatestTable ----------------------------
(***************************************************************************)
(* What the track database promises to one caller at a time: a table that  *)
(* keeps, for every track, the time of the newest message received, and    *)
(* from which a track goes only once its message is too old.               *)
(***************************************************************************)
EXTENDS Integers

CONSTANTS Ids,
          None,         \* no message
          DefaultLimit  \* age a new track may reach

VARIABLES clock,  \* the current time
          latest, \* the time of each track's message, or None
          limit   \* the age it may reach
vars == <<clock, latest, limit>>

Init == /\ clock = 0
        /\ latest = [id \in Ids |-> None]
        /\ limit = [id \in Ids |-> DefaultLimit]

Pass == clock' = clock + 1 /\ UNCHANGED <<latest, limit>>

SetLimit(id) == /\ latest[id] # None
                /\ limit'[id] \in Nat
                /\ limit' = [limit EXCEPT ![id] = limit'[id]]
                /\ UNCHANGED <<clock, latest>>

Appear(id) == /\ latest[id] = None
              /\ \E t \in 0..clock : latest' = [latest EXCEPT ![id] = t]
              /\ UNCHANGED <<clock, limit>>

Refresh(id) == /\ latest[id] # None
               /\ \E t \in (latest[id] + 1)..clock : latest' = [latest EXCEPT ![id] = t]
               /\ UNCHANGED <<clock, limit>>

(* One track, or every expired one at once. *)
Vanish(gone) ==
  /\ \A id \in gone : latest[id] # None /\ clock - latest[id] > limit[id]
  /\ latest' = [id \in Ids |-> IF id \in gone THEN None ELSE latest[id]]
  /\ limit' = [id \in Ids |-> IF id \in gone THEN DefaultLimit ELSE limit[id]]
  /\ UNCHANGED clock

Next == \/ Pass
        \/ \E id \in Ids : SetLimit(id) \/ Appear(id) \/ Refresh(id)
        \/ \E gone \in SUBSET Ids : Vanish(gone)

Spec == Init /\ [][Next]_vars
=============================================================================
