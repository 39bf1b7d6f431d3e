------------------------ MODULE MCPriorityScenarios ------------------------
(***************************************************************************)
(* A small instance of PriorityScenarios: the programs, and beside them    *)
(* the free clients of MCPriorityQueue's one NPG.  Limits of 9 do not run  *)
(* out.                                                                    *)
(***************************************************************************)
EXTENDS PriorityScenarios, MCPriorityQueue

MCLow   == <<<<"l1", 6, FALSE, 1, 9>>, <<"l2", 6, FALSE, 1, 9>>,
             <<"l3", 6, FALSE, 1, 9>>, <<"l4", 6, FALSE, 1, 9>>>>
MCHigh  == <<<<"h1", 6, FALSE, 4, 9>>, <<"h2", 6, FALSE, 4, 9>>>>
MCFlat  == <<<<"f1", 6, FALSE, 1, 9>>, <<"f2", 6, FALSE, 1, 9>>>>
MCRTT   == <<<<"r1", 6, TRUE, 0, 0>>, <<"r2", 6, TRUE, 0, 0>>>>
MCBrief == <<<<"b1", 6, FALSE, 1, 1>>, <<"b2", 6, FALSE, 1, 1>>>>
MCMixed == {MCLow[1], MCLow[2], <<"j3", 6, FALSE, 2, 9>>, MCHigh[1]}

MCMessages == OneNpg \union MCMixed \union Range(MCLow \o MCHigh \o MCFlat \o MCRTT \o MCBrief)
=============================================================================
