-------------------------- MODULE MCPriorityQueue --------------------------
(***************************************************************************)
(* Small instances of PriorityQueue. A message is a tuple <<name, NPG,     *)
(* terminal, priority, staleness limit>>.                                  *)
(***************************************************************************)
EXTENDS PriorityQueue, TLC

MCNpg(m)       == m[2]
MCTerminal(m)  == m[3]
MCPriority(m)  == m[4]
MCStaleness(m) == m[5]

Symmetry == Permutations(Workers)

(* Two host messages of one priority, one above them and one terminal. *)
OneNpg == {<<"a", 6, FALSE, 1, 1>>, <<"b", 6, FALSE, 1, 0>>, <<"c", 6, FALSE, 4, 1>>,
           <<"t", 6, TRUE, 0, 0>>}

(* Messages that come again and again: two terminal and one host message of *)
(* one NPG, one host message of another.                                    *)
Stream == {<<"c", 6, FALSE, 4, 1>>, <<"t", 6, TRUE, 0, 0>>, <<"u", 6, TRUE, 0, 0>>,
           <<"d", 7, FALSE, 1, 1>>}
=============================================================================
