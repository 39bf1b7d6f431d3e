--------------------------- MODULE MCTrackStages ---------------------------
(***************************************************************************)
(* Small instances of TrackStages.                                         *)
(***************************************************************************)
EXTENDS TrackStages, TLC

MCFields   == {"correlation", "expired"}
MCLiterals == {"new", "update", "duplicate", "true", "false"}
MCValues   == {} \* no run enumerates Outputs: each node has its own
MCScanned  == [l \in {} |-> 0]

Symmetry == Permutations(Workers)

Message(id, time) == [id |-> id, time |-> time, decodes |-> TRUE, hint |-> "auto"]

(* One track: messages of three times, one that does not decode, hints. *)
OneTrack  == {Message("A", t) : t \in 1..3}
             \union {[Message("A", 1) EXCEPT !.decodes = FALSE]}
             \union {[Message("A", 2) EXCEPT !.hint = h] :
                        h \in {"new", "update", "duplicate"}}
PlainTrack == {Message("A", t) : t \in 1..3}

(* The behaviours in which no comparison reads half of a time: it comes out *)
(* as the time that the entry holds at that moment says.                    *)
ReadsWhole ==
  \A w \in Workers :
     At(w, "correlate", "compare") /\ step'[w] # step[w] =>
       (At(w, "update", "call")' <=> Newer(job[w].time, entries[held[w]].time))
WholeSpec == Init /\ [][Next /\ ReadsWhole]_vars
=============================================================================
