-------------------------- MODULE MCMessageStages --------------------------
(***************************************************************************)
(* A small instance of MessageStages: reports at, below and above every    *)
(* limit the code compares with, a course a hair below zero among them.    *)
(***************************************************************************)
EXTENDS MessageStages

MCFields   == {"can_send"}
MCLiterals == {"true", "false"}
MCValues   == {} \* each node has its own outputs
MCScanned  == [l \in {} |-> 0]

Usual == [id |-> [head |-> "TRK001", tail |-> ""], lat |-> 3, lon |-> -3,
          alt |-> 5000, course |-> 181, speed |-> 3]

MCReports ==
  {Usual, [Usual EXCEPT !.id = [head |-> "NEW_TRK1", tail |-> "00"]]}
  \union {[Usual EXCEPT !.lat = lat, !.lon = lon] :
             lat \in {-MaxLat - 1, -MaxLat, -1, 0, MaxLat, MaxLat + 1},
             lon \in {-MaxLon - 1, -MaxLon, -2, MaxLon, MaxLon + 1}}
  \union {[Usual EXCEPT !.alt = alt] :
             alt \in {-1, 0, 12, 13, 100, 101, 500, 501, 4999, 5001,
                      50000, 50001, 100000, 100001, 300000}}
  \union {[Usual EXCEPT !.course = course, !.speed = speed] :
             course \in {-720, -1, 0, 718, 719, 720, 721, Hair},
             speed \in {0, 4092, 4093, 5000}}
  \union {[Usual EXCEPT !.alt = 100001, !.course = -1, !.lat = -MaxLat - 1]}
=============================================================================
