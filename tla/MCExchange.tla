----------------------------- MODULE MCExchange -----------------------------
(***************************************************************************)
(* A small instance of Exchange: three tracks, two with IDs that agree in  *)
(* the bytes the codec keeps, one of these reported out of position.       *)
(***************************************************************************)
EXTENDS Exchange

MCFields   == {"correlation", "expired"}
MCLiterals == {"new", "update", "duplicate", "true", "false"}
MCValues   == {} \* each node has its own outputs
MCScanned  == [l \in {} |-> 0]

Report(head, tail, lat) ==
  [id |-> [head |-> head, tail |-> tail], lat |-> lat, lon |-> 3, alt |-> 5001,
   course |-> 181, speed |-> 3]

MCReports == {Report("NEW_TRK1", "00", 3), Report("NEW_TRK1", "01", 8307692 + 3),
              Report("TRK001", "", 3)}

(* One track, always in position: only age can make a baseline refuse it. *)
InPosition == {Report("TRK001", "", 3)}
=============================================================================
