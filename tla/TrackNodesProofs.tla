------------------------- MODULE TrackNodesProofs ---------------------------
(***************************************************************************)
(* The stages of StageTables read off: where a node of each role stands,   *)
(* what the actions of TrackStages do there, and where a run goes on.      *)
(***************************************************************************)
EXTENDS TrackStages, FiniteSetTheorems, SequenceTheorems, TLAPS

(***************************************************************************)
(* The stages.  Where a node of each role stands, and how a run goes on    *)
(* after it.                                                               *)
(***************************************************************************)
(* The least of one number.                                                 *)
LEMMA MinOfOne ==
  ASSUME NEW n \in Nat
  PROVE  Min({n}) = n
BY DEF Min

(* A step without branches goes to its default target. *)
LEMMA RouteDefault ==
  ASSUME NEW s, NEW output, s.branches = <<>>
  PROVE  Route(output, s) = s.defaultGoto
<1>1. DOMAIN s.branches = {}
  OBVIOUS
<1> QED
  BY <1>1 DEF Route, Matching

(* The only branch that holds is the one that is taken. *)
LEMMA RouteBranch ==
  ASSUME NEW s, NEW output, NEW k \in DOMAIN s.branches, k \in Nat,
         \A j \in DOMAIN s.branches : Holds(s.branches[j].condition, output) <=> j = k
  PROVE  Route(output, s) = s.branches[k].goto
<1>1. Matching(output, s) = {k}
  BY DEF Matching
<1> QED
  BY <1>1, MinOfOne DEF Route

(* The only step with an ID is the one the ID leads to. *)
LEMMA StepIndexOf ==
  ASSUME NEW steps, NEW i \in DOMAIN steps, i \in Nat, NEW id,
         \A j \in DOMAIN steps : steps[j].id = id <=> j = i
  PROVE  StepIndex(steps, id) = i
<1>1. {j \in DOMAIN steps : steps[j].id = id} = {i}
  OBVIOUS
<1> QED
  BY <1>1, MinOfOne DEF StepIndex

(* What a step says of routing. *)
StepIs(s, id, branches, defaultGoto, onReject) ==
  /\ s.id = id /\ s.branches = branches
  /\ s.defaultGoto = defaultGoto /\ s.onReject = onReject

(* The receive stage of either type. *)
LEMMA ReceiveTable ==
  ASSUME NEW k \in {"J2.2", "J3.2"}
  PROVE  LET S == ReceiveSteps(k)
         IN /\ Len(S) = 7 /\ DOMAIN S = 1..7
            /\ StepIs(S[1], "r1", <<>>, "", "abort")
            /\ StepIs(S[2], "r2", <<>>, "", "skip")
            /\ StepIs(S[3], "r3", OnCorrelation, "", "abort")
            /\ StepIs(S[4], "r4", <<>>, "r7", "abort")
            /\ StepIs(S[5], "r5", <<>>, "r7", "abort")
            /\ \/ StepIs(S[6], "r6", <<>>, "", "")
               \/ StepIs(S[6], "r6", <<>>, "r7", "")
            /\ StepIs(S[7], "r7", <<>>, "", "skip")
<1>1. CASE k = "J2.2"
  <2> DEFINE S == PpliReceive
  <2>8. Len(S) = 7 /\ DOMAIN S = 1..7
    BY DEF PpliReceive
  <2>1. StepIs(S[1], "r1", <<>>, "", "abort")
    BY DEF PpliReceive, StepOf, StepIs
  <2>2. StepIs(S[2], "r2", <<>>, "", "skip")
    BY DEF PpliReceive, StepOf, StepIs
  <2>3. StepIs(S[3], "r3", OnCorrelation, "", "abort")
    BY DEF PpliReceive, StepOf, StepIs
  <2>4. StepIs(S[4], "r4", <<>>, "r7", "abort")
    BY DEF PpliReceive, StepOf, StepIs
  <2>5. StepIs(S[5], "r5", <<>>, "r7", "abort")
    BY DEF PpliReceive, StepOf, StepIs
  <2>6. StepIs(S[6], "r6", <<>>, "r7", "")
    BY DEF PpliReceive, StepOf, StepIs
  <2>7. StepIs(S[7], "r7", <<>>, "", "skip")
    BY DEF PpliReceive, StepOf, StepIs
  <2> QED
    BY <1>1, <2>1, <2>2, <2>3, <2>4, <2>5, <2>6, <2>7, <2>8 DEF ReceiveSteps
<1>2. CASE k = "J3.2"
  <2> DEFINE S == J32Receive
  <2>8. Len(S) = 7 /\ DOMAIN S = 1..7
    BY DEF J32Receive
  <2>1. StepIs(S[1], "r1", <<>>, "", "abort")
    BY DEF J32Receive, StepOf, StepIs
  <2>2. StepIs(S[2], "r2", <<>>, "", "skip")
    BY DEF J32Receive, StepOf, StepIs
  <2>3. StepIs(S[3], "r3", OnCorrelation, "", "abort")
    BY DEF J32Receive, StepOf, StepIs
  <2>4. StepIs(S[4], "r4", <<>>, "r7", "abort")
    BY DEF J32Receive, StepOf, StepIs
  <2>5. StepIs(S[5], "r5", <<>>, "r7", "abort")
    BY DEF J32Receive, StepOf, StepIs
  <2>6. StepIs(S[6], "r6", <<>>, "", "")
    BY DEF J32Receive, StepOf, StepIs
  <2>7. StepIs(S[7], "r7", <<>>, "", "skip")
    BY DEF J32Receive, StepOf, StepIs
  <2> QED
    BY <1>2, <2>1, <2>2, <2>3, <2>4, <2>5, <2>6, <2>7, <2>8 DEF ReceiveSteps
<1> QED
  BY <1>1, <1>2

(* The clear stage of either type. *)
LEMMA ClearTable ==
  ASSUME NEW k \in {"J2.2", "J3.2"}
  PROVE  LET S == ClearSteps(k)
         IN /\ Len(S) = 4 /\ DOMAIN S = 1..4
            /\ S[1].id = "c1" /\ S[2].id = "c2" /\ S[3].id = "c3" /\ S[4].id = "c4"
            /\ S[2].branches = <<>> /\ S[3].branches = <<>> /\ S[4].branches = <<>>
            /\ S[1].branches = OnExpiry /\ S[1].defaultGoto = ""
            /\ S[2].defaultGoto = "c4"
            /\ S[3].defaultGoto = "end" /\ S[4].defaultGoto = "end"
<1>1. CASE k = "J2.2"
  <2> DEFINE S == PpliClear
  <2>1. Len(S) = 4 /\ DOMAIN S = 1..4
    BY DEF PpliClear
  <2>2. S[1].id = "c1" /\ S[1].branches = OnExpiry /\ S[1].defaultGoto = ""
    BY DEF PpliClear, StepOf
  <2>3. S[2].id = "c2" /\ S[2].branches = <<>> /\ S[2].defaultGoto = "c4"
    BY DEF PpliClear, StepOf
  <2>4. S[3].id = "c3" /\ S[3].branches = <<>> /\ S[3].defaultGoto = "end"
    BY DEF PpliClear, StepOf
  <2>5. S[4].id = "c4" /\ S[4].branches = <<>> /\ S[4].defaultGoto = "end"
    BY DEF PpliClear, StepOf
  <2> QED
    BY <1>1, <2>1, <2>2, <2>3, <2>4, <2>5 DEF ClearSteps
<1>2. CASE k = "J3.2"
  <2> DEFINE S == J32Clear
  <2>1. Len(S) = 4 /\ DOMAIN S = 1..4
    BY DEF J32Clear
  <2>2. S[1].id = "c1" /\ S[1].branches = OnExpiry /\ S[1].defaultGoto = ""
    BY DEF J32Clear, StepOf
  <2>3. S[2].id = "c2" /\ S[2].branches = <<>> /\ S[2].defaultGoto = "c4"
    BY DEF J32Clear, StepOf
  <2>4. S[3].id = "c3" /\ S[3].branches = <<>> /\ S[3].defaultGoto = "end"
    BY DEF J32Clear, StepOf
  <2>5. S[4].id = "c4" /\ S[4].branches = <<>> /\ S[4].defaultGoto = "end"
    BY DEF J32Clear, StepOf
  <2> QED
    BY <1>2, <2>1, <2>2, <2>3, <2>4, <2>5 DEF ClearSteps
<1> QED
  BY <1>1, <1>2

(* The names each role goes by. *)
LEMMA NamesOfRoles ==
  /\ NodeNames("decode") = {"decode_message", "decode_j32_message"}
  /\ NodeNames("correlate") = {"ppli_correlate", "j32_correlate"}
  /\ NodeNames("create") = {"create_entry", "create_j32_entry"}
  /\ NodeNames("update") = {"update_entry", "update_j32_entry"}
  /\ NodeNames("store") = {"store_ppli", "store_j32"}
  /\ NodeNames("check_ttl") = {"check_ttl", "check_ttl_j32"}
  /\ NodeNames("delete") = {"delete_entry", "delete_j32_entry"}
  /\ NodeNames("passive") = {"receive_filter", "j32_receive_filter",
                             "duplicate_resolve", "duplicate_j32_resolve",
                             "check_source_ju", "retain_entry", "retain_j32_entry"}
BY DEF NodeNames

(* The names of the steps' nodes. *)
LEMMA NodesOfSteps ==
  ASSUME NEW k \in {"J2.2", "J3.2"}
  PROVE  LET S == ReceiveSteps(k)
             C == ClearSteps(k)
         IN /\ S[1].node \in {"decode_message", "decode_j32_message"}
            /\ S[2].node \in {"receive_filter", "j32_receive_filter"}
            /\ S[3].node \in {"ppli_correlate", "j32_correlate"}
            /\ S[4].node \in {"create_entry", "create_j32_entry"}
            /\ S[5].node \in {"update_entry", "update_j32_entry"}
            /\ S[6].node \in {"duplicate_resolve", "duplicate_j32_resolve"}
            /\ S[7].node \in {"store_ppli", "store_j32"}
            /\ C[1].node \in {"check_ttl", "check_ttl_j32"}
            /\ C[2].node = "check_source_ju"
            /\ C[3].node \in {"retain_entry", "retain_j32_entry"}
            /\ C[4].node \in {"delete_entry", "delete_j32_entry"}
<1>1. CASE k = "J2.2"
  BY <1>1 DEF ReceiveSteps, ClearSteps, PpliReceive, PpliClear, StepOf
<1>2. CASE k = "J3.2"
  BY <1>2 DEF ReceiveSteps, ClearSteps, J32Receive, J32Clear, StepOf
<1> QED
  BY <1>1, <1>2

(* The roles of the steps of the receive stage. *)
LEMMA ReceiveRoles ==
  ASSUME NEW k \in {"J2.2", "J3.2"}, NEW i \in 1..7
  PROVE  LET n == ReceiveSteps(k)[i].node
         IN /\ n \in NodeNames("decode") <=> i = 1
            /\ n \in NodeNames("passive") <=> i \in {2, 6}
            /\ n \in NodeNames("correlate") <=> i = 3
            /\ n \in NodeNames("create") <=> i = 4
            /\ n \in NodeNames("update") <=> i = 5
            /\ n \in NodeNames("store") <=> i = 7
            /\ n \notin NodeNames("check_ttl") /\ n \notin NodeNames("delete")
<1>1. i \in {1, 2, 3, 4, 5, 6, 7}
  OBVIOUS
<1> DEFINE n == ReceiveSteps(k)[i].node
<1>2. CASE i = 1
  <2>1. n \in {"decode_message", "decode_j32_message"}
    BY <1>2, NodesOfSteps
  <2> QED
    BY <1>2, <2>1, NamesOfRoles
<1>3. CASE i = 2
  <2>1. n \in {"receive_filter", "j32_receive_filter"}
    BY <1>3, NodesOfSteps
  <2> QED
    BY <1>3, <2>1, NamesOfRoles
<1>4. CASE i = 3
  <2>1. n \in {"ppli_correlate", "j32_correlate"}
    BY <1>4, NodesOfSteps
  <2> QED
    BY <1>4, <2>1, NamesOfRoles
<1>5. CASE i = 4
  <2>1. n \in {"create_entry", "create_j32_entry"}
    BY <1>5, NodesOfSteps
  <2> QED
    BY <1>5, <2>1, NamesOfRoles
<1>6. CASE i = 5
  <2>1. n \in {"update_entry", "update_j32_entry"}
    BY <1>6, NodesOfSteps
  <2> QED
    BY <1>6, <2>1, NamesOfRoles
<1>7. CASE i = 6
  <2>1. n \in {"duplicate_resolve", "duplicate_j32_resolve"}
    BY <1>7, NodesOfSteps
  <2> QED
    BY <1>7, <2>1, NamesOfRoles
<1>8. CASE i = 7
  <2>1. n \in {"store_ppli", "store_j32"}
    BY <1>8, NodesOfSteps
  <2> QED
    BY <1>8, <2>1, NamesOfRoles
<1> QED
  BY <1>1, <1>2, <1>3, <1>4, <1>5, <1>6, <1>7, <1>8, Zenon

(* The roles of the steps of the clear stage. *)
LEMMA ClearRoles ==
  ASSUME NEW k \in {"J2.2", "J3.2"}, NEW i \in 1..4
  PROVE  LET n == ClearSteps(k)[i].node
         IN /\ n \in NodeNames("check_ttl") <=> i = 1
            /\ n \in NodeNames("passive") <=> i \in {2, 3}
            /\ n \in NodeNames("delete") <=> i = 4
            /\ n \notin NodeNames("decode") /\ n \notin NodeNames("correlate")
            /\ n \notin NodeNames("create") /\ n \notin NodeNames("update")
            /\ n \notin NodeNames("store")
<1>1. i \in {1, 2, 3, 4}
  OBVIOUS
<1> DEFINE n == ClearSteps(k)[i].node
<1>2. CASE i = 1
  <2>1. n \in {"check_ttl", "check_ttl_j32"}
    BY <1>2, NodesOfSteps
  <2> QED
    BY <1>2, <2>1, NamesOfRoles
<1>3. CASE i = 2
  <2>1. n \in {"check_source_ju"}
    BY <1>3, NodesOfSteps
  <2> QED
    BY <1>3, <2>1, NamesOfRoles
<1>4. CASE i = 3
  <2>1. n \in {"retain_entry", "retain_j32_entry"}
    BY <1>4, NodesOfSteps
  <2> QED
    BY <1>4, <2>1, NamesOfRoles
<1>5. CASE i = 4
  <2>1. n \in {"delete_entry", "delete_j32_entry"}
    BY <1>5, NodesOfSteps
  <2> QED
    BY <1>5, <2>1, NamesOfRoles
<1> QED
  BY <1>1, <1>2, <1>3, <1>4, <1>5, Zenon

(* A node runs where the table has it. *)
LEMMA Places ==
  ASSUME TypeOK, NEW w \in Workers, NEW p
  PROVE  /\ At(w, "decode", p)    <=> stage[w] = "receive" /\ step[w] = 1 /\ phase[w] = p
         /\ At(w, "correlate", p) <=> stage[w] = "receive" /\ step[w] = 3 /\ phase[w] = p
         /\ At(w, "create", p)    <=> stage[w] = "receive" /\ step[w] = 4 /\ phase[w] = p
         /\ At(w, "update", p)    <=> stage[w] = "receive" /\ step[w] = 5 /\ phase[w] = p
         /\ At(w, "store", p)     <=> stage[w] = "receive" /\ step[w] = 7 /\ phase[w] = p
         /\ At(w, "check_ttl", p) <=> stage[w] = "clear" /\ step[w] = 1 /\ phase[w] = p
         /\ At(w, "delete", p)    <=> stage[w] = "clear" /\ step[w] = 4 /\ phase[w] = p
         /\ At(w, "passive", p)   <=> /\ phase[w] = p
                                     /\ \/ stage[w] = "receive" /\ step[w] \in {2, 6}
                                        \/ stage[w] = "clear" /\ step[w] \in {2, 3}
<1>1. kind \in {"J2.2", "J3.2"} /\ stage[w] \in {"idle", "receive", "clear"}
  BY StagesAssumption DEF TypeOK
<1>2. CASE stage[w] = "idle"
  BY <1>2 DEF At
<1>3. CASE stage[w] = "receive"
  <2>1. step[w] \in 1..7 /\ Current(w) = ReceiveSteps(kind)[step[w]]
    BY <1>1, <1>3, ReceiveTable DEF TypeOK, StepsOf, Current
  <2> QED
    BY <1>1, <1>3, <2>1, ReceiveRoles DEF At
<1>4. CASE stage[w] = "clear"
  <2>1. step[w] \in 1..4 /\ Current(w) = ClearSteps(kind)[step[w]]
    BY <1>1, <1>4, ClearTable DEF TypeOK, StepsOf, Current
  <2> QED
    BY <1>1, <1>4, <2>1, ClearRoles DEF At
<1> QED
  BY <1>1, <1>2, <1>3, <1>4

(* A node is done, and its run goes on with step i or ends. *)
Proceeds(w) == /\ phase' = [phase EXCEPT ![w] = "call"]
               /\ held' = [held EXCEPT ![w] = 0]

(* The worker goes on to step i of its stage.                               *)
MovesTo(w, i) == /\ Proceeds(w)
                 /\ step' = [step EXCEPT ![w] = i]
                 /\ UNCHANGED <<stage, job, outcome>>

(* The worker ends its stage with this result.                              *)
Ends(w, result) == Proceeds(w) /\ Return(w, result)

(* The branches of correlate. *)
LEMMA CorrelationBranches ==
  /\ OnCorrelation # <<>>
  /\ DOMAIN OnCorrelation = {1, 2, 3}
  /\ OnCorrelation[1] = Branch("correlation", "new", "r4")
  /\ OnCorrelation[2] = Branch("correlation", "update", "r5")
  /\ OnCorrelation[3] = Branch("correlation", "duplicate", "r6")
<1>1. /\ DOMAIN OnCorrelation = {1, 2, 3}
      /\ OnCorrelation[1] = Branch("correlation", "new", "r4")
      /\ OnCorrelation[2] = Branch("correlation", "update", "r5")
      /\ OnCorrelation[3] = Branch("correlation", "duplicate", "r6")
  BY DEF OnCorrelation
<1>2. OnCorrelation # <<>>
  BY <1>1
<1> QED
  BY <1>1, <1>2

(* What correlate's outcome leads to. *)
LEMMA AfterCorrelation ==
  /\ \A s : s.branches = OnCorrelation =>
       /\ Route([correlation |-> Text("new")], s) = "r4"
       /\ Route([correlation |-> Text("update")], s) = "r5"
       /\ Route([correlation |-> Text("duplicate")], s) = "r6"
<1> SUFFICES ASSUME NEW s, s.branches = OnCorrelation
             PROVE  /\ Route([correlation |-> Text("new")], s) = "r4"
                    /\ Route([correlation |-> Text("update")], s) = "r5"
                    /\ Route([correlation |-> Text("duplicate")], s) = "r6"
  OBVIOUS
<1>1. /\ DOMAIN s.branches = {1, 2, 3}
      /\ s.branches[1] = Branch("correlation", "new", "r4")
      /\ s.branches[2] = Branch("correlation", "update", "r5")
      /\ s.branches[3] = Branch("correlation", "duplicate", "r6")
  BY CorrelationBranches
<1>2. ASSUME NEW text, NEW literal, NEW goto
      PROVE  Holds(Branch("correlation", literal, goto).condition,
                   [correlation |-> Text(text)]) <=> text = literal
  BY DEF Holds, Branch, Text
<1>3. /\ Branch("correlation", "new", "r4").goto = "r4"
      /\ Branch("correlation", "update", "r5").goto = "r5"
      /\ Branch("correlation", "duplicate", "r6").goto = "r6"
  BY DEF Branch
<1>4. Route([correlation |-> Text("new")], s) = s.branches[1].goto
  <2>1. \A j \in DOMAIN s.branches :
          Holds(s.branches[j].condition, [correlation |-> Text("new")]) <=> j = 1
    BY <1>1, <1>2
  <2> QED
    BY <1>1, <2>1, RouteBranch
<1>5. Route([correlation |-> Text("update")], s) = s.branches[2].goto
  <2>1. \A j \in DOMAIN s.branches :
          Holds(s.branches[j].condition, [correlation |-> Text("update")]) <=> j = 2
    BY <1>1, <1>2
  <2> QED
    BY <1>1, <2>1, RouteBranch
<1>6. Route([correlation |-> Text("duplicate")], s) = s.branches[3].goto
  <2>1. \A j \in DOMAIN s.branches :
          Holds(s.branches[j].condition, [correlation |-> Text("duplicate")]) <=> j = 3
    BY <1>1, <1>2
  <2> QED
    BY <1>1, <2>1, RouteBranch
<1> QED
  BY <1>1, <1>3, <1>4, <1>5, <1>6

(* The branches of check_ttl. *)
LEMMA ExpiryBranches ==
  /\ OnExpiry # <<>>
  /\ DOMAIN OnExpiry = {1, 2}
  /\ OnExpiry[1] = Branch("expired", "true", "c2")
  /\ OnExpiry[2] = Branch("expired", "false", "c3")
<1>1. DOMAIN OnExpiry = 1..2
  BY DEF OnExpiry
<1>2. OnExpiry[1] = Branch("expired", "true", "c2")
  BY DEF OnExpiry
<1>3. OnExpiry[2] = Branch("expired", "false", "c3")
  BY DEF OnExpiry
<1>4. OnExpiry # <<>>
  BY <1>1
<1> QED
  BY <1>1, <1>2, <1>3, <1>4

(* check_ttl_j32 sets no field in a sweep. *)
LEMMA NothingSaid == DOMAIN J32Bulk = {}
BY DEF J32Bulk

(* What check_ttl's outcome leads to. *)
LEMMA AfterExpiry ==
  ASSUME NEW s, s.branches = OnExpiry, s.defaultGoto = ""
  PROVE  /\ Route([expired |-> Flag(TRUE)], s) = "c2"
         /\ Route([expired |-> Flag(FALSE)], s) = "c3"
         /\ Route(J32Bulk, s) = ""
<1>1. /\ DOMAIN s.branches = {1, 2}
      /\ s.branches[1] = Branch("expired", "true", "c2")
      /\ s.branches[2] = Branch("expired", "false", "c3")
  BY ExpiryBranches
<1>2. ASSUME NEW b \in BOOLEAN, NEW literal, NEW goto
      PROVE  Holds(Branch("expired", literal, goto).condition, [expired |-> Flag(b)])
               <=> (b <=> literal = "true")
  BY DEF Holds, Branch, Flag, BoolEquals
<1>3. /\ Branch("expired", "true", "c2").goto = "c2"
      /\ Branch("expired", "false", "c3").goto = "c3"
  BY DEF Branch
<1>4. Route([expired |-> Flag(TRUE)], s) = s.branches[1].goto
  <2>1. \A j \in DOMAIN s.branches :
          Holds(s.branches[j].condition, [expired |-> Flag(TRUE)]) <=> j = 1
    BY <1>1, <1>2
  <2> QED
    BY <1>1, <2>1, RouteBranch
<1>5. Route([expired |-> Flag(FALSE)], s) = s.branches[2].goto
  <2>1. \A j \in DOMAIN s.branches :
          Holds(s.branches[j].condition, [expired |-> Flag(FALSE)]) <=> j = 2
    BY <1>1, <1>2
  <2> QED
    BY <1>1, <2>1, RouteBranch
<1>6. Route(J32Bulk, s) = ""
  <2>2. Matching(J32Bulk, s) = {}
    BY NothingSaid DEF Matching, Holds
  <2> QED
    BY <2>2 DEF Route
<1> QED
  BY <1>1, <1>3, <1>4, <1>5, <1>6

(* Where the targets the receive stage names lead. *)
LEMMA ReceiveTargets ==
  ASSUME NEW k \in {"J2.2", "J3.2"}
  PROVE  /\ StepIndex(ReceiveSteps(k), "r4") = 4
         /\ StepIndex(ReceiveSteps(k), "r5") = 5
         /\ StepIndex(ReceiveSteps(k), "r6") = 6
         /\ StepIndex(ReceiveSteps(k), "r7") = 7
<1> DEFINE S == ReceiveSteps(k)
<1>1. DOMAIN S = {1, 2, 3, 4, 5, 6, 7}
  <2>1. DOMAIN S = 1..7
    BY ReceiveTable
  <2>2. 1..7 = {1, 2, 3, 4, 5, 6, 7}
    OBVIOUS
  <2> QED
    BY <2>1, <2>2
<1>2. /\ S[1].id = "r1" /\ S[2].id = "r2" /\ S[3].id = "r3" /\ S[4].id = "r4"
      /\ S[5].id = "r5" /\ S[6].id = "r6" /\ S[7].id = "r7"
  <2>1. S[1].id = "r1"
    BY ReceiveTable DEF StepIs
  <2>2. S[2].id = "r2"
    BY ReceiveTable DEF StepIs
  <2>3. S[3].id = "r3"
    BY ReceiveTable DEF StepIs
  <2>4. S[4].id = "r4"
    BY ReceiveTable DEF StepIs
  <2>5. S[5].id = "r5"
    BY ReceiveTable DEF StepIs
  <2>6. S[6].id = "r6"
    BY ReceiveTable DEF StepIs
  <2>7. S[7].id = "r7"
    BY ReceiveTable DEF StepIs
  <2> QED
    BY <2>1, <2>2, <2>3, <2>4, <2>5, <2>6, <2>7, Zenon
<1> HIDE DEF S
<1>3. StepIndex(S, "r4") = 4
  <2>1. \A j \in DOMAIN S : S[j].id = "r4" <=> j = 4
    BY <1>1, <1>2
  <2>2. 4 \in DOMAIN S
    BY <1>1
  <2> QED
    BY <2>1, <2>2, StepIndexOf
<1>4. StepIndex(S, "r5") = 5
  <2>1. \A j \in DOMAIN S : S[j].id = "r5" <=> j = 5
    BY <1>1, <1>2
  <2>2. 5 \in DOMAIN S
    BY <1>1
  <2> QED
    BY <2>1, <2>2, StepIndexOf
<1>5. StepIndex(S, "r6") = 6
  <2>1. \A j \in DOMAIN S : S[j].id = "r6" <=> j = 6
    BY <1>1, <1>2
  <2>2. 6 \in DOMAIN S
    BY <1>1
  <2> QED
    BY <2>1, <2>2, StepIndexOf
<1>6. StepIndex(S, "r7") = 7
  <2>1. \A j \in DOMAIN S : S[j].id = "r7" <=> j = 7
    BY <1>1, <1>2
  <2>2. 7 \in DOMAIN S
    BY <1>1
  <2> QED
    BY <2>1, <2>2, StepIndexOf
<1> QED
  BY <1>3, <1>4, <1>5, <1>6 DEF S

(* Where the targets the clear stage names lead. *)
LEMMA ClearTargets ==
  ASSUME NEW k \in {"J2.2", "J3.2"}
  PROVE  /\ StepIndex(ClearSteps(k), "c2") = 2
         /\ StepIndex(ClearSteps(k), "c3") = 3
         /\ StepIndex(ClearSteps(k), "c4") = 4
<1> DEFINE S == ClearSteps(k)
<1>1. DOMAIN S = {1, 2, 3, 4}
  <2>1. DOMAIN S = 1..4
    BY ClearTable
  <2>2. 1..4 = {1, 2, 3, 4}
    OBVIOUS
  <2> QED
    BY <2>1, <2>2
<1>2. S[1].id = "c1" /\ S[2].id = "c2" /\ S[3].id = "c3" /\ S[4].id = "c4"
  BY ClearTable
<1> HIDE DEF S
<1>3. StepIndex(S, "c2") = 2
  <2>1. \A j \in DOMAIN S : S[j].id = "c2" <=> j = 2
    BY <1>1, <1>2
  <2>2. 2 \in DOMAIN S
    BY <1>1
  <2> QED
    BY <2>1, <2>2, StepIndexOf
<1>4. StepIndex(S, "c3") = 3
  <2>1. \A j \in DOMAIN S : S[j].id = "c3" <=> j = 3
    BY <1>1, <1>2
  <2>2. 3 \in DOMAIN S
    BY <1>1
  <2> QED
    BY <2>1, <2>2, StepIndexOf
<1>5. StepIndex(S, "c4") = 4
  <2>1. \A j \in DOMAIN S : S[j].id = "c4" <=> j = 4
    BY <1>1, <1>2
  <2>2. 4 \in DOMAIN S
    BY <1>1
  <2> QED
    BY <2>1, <2>2, StepIndexOf
<1> QED
  BY <1>3, <1>4, <1>5 DEF S

(* A step without branches. *)
LEMMA Unbranched ==
  ASSUME NEW w, Continue(w, <<>>), Current(w).branches = <<>>
  PROVE  /\ Proceeds(w)
         /\ Current(w).defaultGoto = "" => Goto(w, step[w] + 1)
         /\ Current(w).defaultGoto = "end" => Ends(w, "completed")
         /\ Current(w).defaultGoto \notin {"", "end"} =>
              Goto(w, StepIndex(StepsOf(w), Current(w).defaultGoto))
<1>1. Route(<<>>, Current(w)) = Current(w).defaultGoto
  BY RouteDefault
<1> QED
  BY <1>1 DEF Continue, Proceeds, Ends

(* A step with branches. *)
LEMMA Branched ==
  ASSUME NEW w, NEW output, Continue(w, output), Current(w).branches # <<>>
  PROVE  LET r == Route(output, Current(w))
         IN /\ Proceeds(w)
            /\ r \notin {"", "end"} => Goto(w, StepIndex(StepsOf(w), r))
            /\ r = "" => Ends(w, "undefined_routing")
BY DEF Continue, Proceeds, Ends

(* How a receive run goes on. *)
LEMMA ReceiveGoesOn ==
  ASSUME TypeOK, NEW w \in Workers, stage[w] = "receive"
  PROVE  /\ Continue(w, <<>>) => /\ step[w] = 1 => MovesTo(w, 2)
                                 /\ step[w] = 2 => MovesTo(w, 3)
                                 /\ step[w] \in {4, 5, 6} => MovesTo(w, 7)
                                 /\ step[w] = 7 => Ends(w, "completed")
         /\ step[w] = 3 => /\ Correlation(w, "new") => MovesTo(w, 4)
                           /\ Correlation(w, "update") => MovesTo(w, 5)
                           /\ Correlation(w, "duplicate") => MovesTo(w, 6)
         /\ Fail(w) => /\ step[w] \in {1, 4, 5} => Ends(w, "aborted")
                       /\ step[w] = 7 => Ends(w, "completed")
<1>1. kind \in {"J2.2", "J3.2"}
  BY StagesAssumption DEF TypeOK
<1>2. StepsOf(w) = ReceiveSteps(kind) /\ Current(w) = ReceiveSteps(kind)[step[w]]
  BY DEF StepsOf, Current
<1>3. Len(StepsOf(w)) = 7
  BY <1>1, <1>2, ReceiveTable
<1>4. step[w] = 1 => StepIs(Current(w), "r1", <<>>, "", "abort")
  BY <1>1, <1>2, ReceiveTable
<1>5. step[w] = 2 => StepIs(Current(w), "r2", <<>>, "", "skip")
  BY <1>1, <1>2, ReceiveTable
<1>6. step[w] = 3 => StepIs(Current(w), "r3", OnCorrelation, "", "abort")
  BY <1>1, <1>2, ReceiveTable
<1>7. step[w] = 4 => StepIs(Current(w), "r4", <<>>, "r7", "abort")
  BY <1>1, <1>2, ReceiveTable
<1>8. step[w] = 5 => StepIs(Current(w), "r5", <<>>, "r7", "abort")
  BY <1>1, <1>2, ReceiveTable
<1>9. step[w] = 6 => \/ StepIs(Current(w), "r6", <<>>, "", "")
                    \/ StepIs(Current(w), "r6", <<>>, "r7", "")
  BY <1>1, <1>2, ReceiveTable
<1>10. step[w] = 7 => StepIs(Current(w), "r7", <<>>, "", "skip")
  BY <1>1, <1>2, ReceiveTable
<1>11. /\ StepIndex(StepsOf(w), "r4") = 4 /\ StepIndex(StepsOf(w), "r5") = 5
       /\ StepIndex(StepsOf(w), "r6") = 6 /\ StepIndex(StepsOf(w), "r7") = 7
  BY <1>1, <1>2, ReceiveTargets
<1>12. ASSUME Continue(w, <<>>)
       PROVE  /\ step[w] = 1 => MovesTo(w, 2)
              /\ step[w] = 2 => MovesTo(w, 3)
              /\ step[w] \in {4, 5, 6} => MovesTo(w, 7)
              /\ step[w] = 7 => Ends(w, "completed")
  <2>1. step[w] = 1 => MovesTo(w, 2)
    <3>1. step[w] = 1 => Proceeds(w) /\ Goto(w, step[w] + 1)
      BY <1>4, <1>11, <1>12, Unbranched DEF StepIs
    <3> QED
      BY <1>3, <3>1 DEF Goto, MovesTo, Ends
  <2>2. step[w] = 2 => MovesTo(w, 3)
    <3>1. step[w] = 2 => Proceeds(w) /\ Goto(w, step[w] + 1)
      BY <1>5, <1>11, <1>12, Unbranched DEF StepIs
    <3> QED
      BY <1>3, <3>1 DEF Goto, MovesTo, Ends
  <2>3. step[w] = 4 => MovesTo(w, 7)
    <3>1. step[w] = 4 => Proceeds(w) /\ Goto(w, 7)
      BY <1>7, <1>11, <1>12, Unbranched DEF StepIs
    <3> QED
      BY <1>3, <3>1 DEF Goto, MovesTo, Ends
  <2>4. step[w] = 5 => MovesTo(w, 7)
    <3>1. step[w] = 5 => Proceeds(w) /\ Goto(w, 7)
      BY <1>8, <1>11, <1>12, Unbranched DEF StepIs
    <3> QED
      BY <1>3, <3>1 DEF Goto, MovesTo, Ends
  <2>5. step[w] = 6 => MovesTo(w, 7)
    <3>1. step[w] = 6 => Proceeds(w) /\ (Goto(w, 7) \/ Goto(w, step[w] + 1))
      BY <1>9, <1>11, <1>12, Unbranched DEF StepIs
    <3> QED
      BY <1>3, <3>1 DEF Goto, MovesTo, Ends
  <2>6. step[w] = 7 => Ends(w, "completed")
    <3>1. step[w] = 7 => Proceeds(w) /\ Goto(w, step[w] + 1)
      BY <1>10, <1>11, <1>12, Unbranched DEF StepIs
    <3> QED
      BY <1>3, <3>1 DEF Goto, MovesTo, Ends
  <2> QED
    BY <2>1, <2>2, <2>3, <2>4, <2>5, <2>6
<1>13. ASSUME step[w] = 3
       PROVE  /\ Correlation(w, "new") => MovesTo(w, 4)
              /\ Correlation(w, "update") => MovesTo(w, 5)
              /\ Correlation(w, "duplicate") => MovesTo(w, 6)
  <2>1. /\ Route([correlation |-> Text("new")], Current(w)) = "r4"
        /\ Route([correlation |-> Text("update")], Current(w)) = "r5"
        /\ Route([correlation |-> Text("duplicate")], Current(w)) = "r6"
    BY <1>6, <1>13, AfterCorrelation DEF StepIs
  <2>2. Current(w).branches # <<>>
    BY <1>6, <1>13, CorrelationBranches DEF StepIs
  <2>3. Correlation(w, "new") => MovesTo(w, 4)
    <3>1. Correlation(w, "new") => Proceeds(w) /\ Goto(w, 4)
      BY <1>11, <2>1, <2>2, Branched DEF Correlation
    <3> QED
      BY <1>3, <3>1 DEF Goto, MovesTo
  <2>4. Correlation(w, "update") => MovesTo(w, 5)
    <3>1. Correlation(w, "update") => Proceeds(w) /\ Goto(w, 5)
      BY <1>11, <2>1, <2>2, Branched DEF Correlation
    <3> QED
      BY <1>3, <3>1 DEF Goto, MovesTo
  <2>5. Correlation(w, "duplicate") => MovesTo(w, 6)
    <3>1. Correlation(w, "duplicate") => Proceeds(w) /\ Goto(w, 6)
      BY <1>11, <2>1, <2>2, Branched DEF Correlation
    <3> QED
      BY <1>3, <3>1 DEF Goto, MovesTo
  <2> QED
    BY <2>3, <2>4, <2>5
<1>14. ASSUME Fail(w)
       PROVE  /\ step[w] \in {1, 4, 5} => Ends(w, "aborted")
              /\ step[w] = 7 => Ends(w, "completed")
  <2>1. Proceeds(w)
    BY <1>14 DEF Fail, Proceeds
  <2>2. step[w] \in {1, 4, 5} => Ends(w, "aborted")
    BY <1>4, <1>7, <1>8, <1>14, <2>1 DEF Fail, Ends, StepIs
  <2>3. step[w] = 7 => Goto(w, step[w] + 1)
    BY <1>10, <1>14 DEF Fail, StepIs
  <2>4. step[w] = 7 => Ends(w, "completed")
    BY <1>3, <2>1, <2>3 DEF Goto, Ends
  <2> QED
    BY <2>2, <2>4
<1> QED
  BY <1>12, <1>13, <1>14

(* How a clear run goes on. *)
LEMMA ClearGoesOn ==
  ASSUME TypeOK, NEW w \in Workers, stage[w] = "clear"
  PROVE  /\ Continue(w, <<>>) => /\ step[w] = 2 => MovesTo(w, 4)
                                 /\ step[w] \in {3, 4} => Ends(w, "completed")
         /\ step[w] = 1 =>
              /\ Continue(w, [expired |-> Flag(TRUE)]) => MovesTo(w, 2)
              /\ Continue(w, [expired |-> Flag(FALSE)]) => MovesTo(w, 3)
              /\ Continue(w, BulkOutput(kind)) =>
                   \/ kind = "J2.2" /\ MovesTo(w, 3)
                   \/ kind = "J3.2" /\ Ends(w, "undefined_routing")
<1>1. kind \in {"J2.2", "J3.2"}
  BY StagesAssumption DEF TypeOK
<1>2. StepsOf(w) = ClearSteps(kind) /\ Current(w) = ClearSteps(kind)[step[w]]
  BY DEF StepsOf, Current
<1>3. Len(StepsOf(w)) = 4
  BY <1>1, <1>2, ClearTable
<1>4. step[w] \in {2, 3, 4} => Current(w).branches = <<>>
  <2>1. /\ ClearSteps(kind)[2].branches = <<>> /\ ClearSteps(kind)[3].branches = <<>>
        /\ ClearSteps(kind)[4].branches = <<>>
    BY <1>1, ClearTable, Zenon
  <2> QED
    BY <1>2, <2>1, Zenon
<1>5. step[w] = 1 => Current(w).branches = OnExpiry /\ Current(w).defaultGoto = ""
  BY <1>1, <1>2, ClearTable
<1>6. step[w] = 2 => Current(w).defaultGoto = "c4"
  BY <1>1, <1>2, ClearTable
<1>7. step[w] \in {3, 4} => Current(w).defaultGoto = "end"
  <2>1. ClearSteps(kind)[3].defaultGoto = "end" /\ ClearSteps(kind)[4].defaultGoto = "end"
    BY <1>1, ClearTable, Zenon
  <2> QED
    BY <1>2, <2>1, Zenon
<1>8. /\ StepIndex(StepsOf(w), "c2") = 2 /\ StepIndex(StepsOf(w), "c3") = 3
      /\ StepIndex(StepsOf(w), "c4") = 4
  BY <1>1, <1>2, ClearTargets
<1>9. ASSUME Continue(w, <<>>)
      PROVE  /\ step[w] = 2 => MovesTo(w, 4)
             /\ step[w] \in {3, 4} => Ends(w, "completed")
  <2>1. step[w] = 2 => Proceeds(w) /\ Goto(w, 4)
    BY <1>4, <1>6, <1>8, <1>9, Unbranched
  <2>2. step[w] = 2 => MovesTo(w, 4)
    BY <1>3, <2>1 DEF Goto, MovesTo
  <2>3. step[w] \in {3, 4} => Ends(w, "completed")
    BY <1>4, <1>7, <1>9, Unbranched
  <2> QED
    BY <2>2, <2>3
<1>10. ASSUME step[w] = 1, NEW output, Continue(w, output)
       PROVE  /\ Route(output, Current(w)) = "c2" => MovesTo(w, 2)
              /\ Route(output, Current(w)) = "c3" => MovesTo(w, 3)
              /\ Route(output, Current(w)) = "" => Ends(w, "undefined_routing")
  <2>1. Current(w).branches # <<>>
    BY <1>5, <1>10, ExpiryBranches
  <2>2. Route(output, Current(w)) = "c2" => Proceeds(w) /\ Goto(w, 2)
    BY <1>8, <1>10, <2>1, Branched
  <2>3. Route(output, Current(w)) = "c3" => Proceeds(w) /\ Goto(w, 3)
    BY <1>8, <1>10, <2>1, Branched
  <2>4. Route(output, Current(w)) = "" => Ends(w, "undefined_routing")
    BY <1>10, <2>1, Branched
  <2>5. Proceeds(w) /\ Goto(w, 2) => MovesTo(w, 2)
    BY <1>3 DEF Goto, MovesTo
  <2>6. Proceeds(w) /\ Goto(w, 3) => MovesTo(w, 3)
    BY <1>3 DEF Goto, MovesTo
  <2> QED
    BY <2>2, <2>3, <2>4, <2>5, <2>6
<1>11. ASSUME step[w] = 1
       PROVE  /\ Route([expired |-> Flag(TRUE)], Current(w)) = "c2"
              /\ Route([expired |-> Flag(FALSE)], Current(w)) = "c3"
              /\ Route(PpliBulk, Current(w)) = "c3"
              /\ Route(J32Bulk, Current(w)) = ""
  <2>1. PpliBulk = [expired |-> Flag(FALSE)]
    BY DEF PpliBulk
  <2> QED
    BY <1>5, <1>11, <2>1, AfterExpiry
<1>12. ASSUME step[w] = 1, Continue(w, BulkOutput(kind))
       PROVE  \/ kind = "J2.2" /\ MovesTo(w, 3)
              \/ kind = "J3.2" /\ Ends(w, "undefined_routing")
  BY <1>1, <1>10, <1>11, <1>12 DEF BulkOutput
<1> QED
  BY <1>9, <1>10, <1>11, <1>12
-----------------------------------------------------------------------------
(***************************************************************************)
(* What each action does, with the tables read off: where it starts, what  *)
(* it finds in the database, and where its run goes on.                    *)
(***************************************************************************)
(* A passive node only passes its run on.                                   *)
LEMMA PassiveDoes ==
  ASSUME TypeOK, NEW w \in Workers, Passive(w)
  PROVE  /\ phase[w] = "call" /\ UNCHANGED <<dbVars, history>>
         /\ \/ stage[w] = "receive" /\ step[w] = 2 /\ MovesTo(w, 3)
            \/ stage[w] = "receive" /\ step[w] = 6 /\ MovesTo(w, 7)
            \/ stage[w] = "clear" /\ step[w] = 2 /\ MovesTo(w, 4)
            \/ stage[w] = "clear" /\ step[w] = 3 /\ Ends(w, "completed")
<1>1. At(w, "passive", "call") /\ Continue(w, <<>>) /\ UNCHANGED <<dbVars, history>>
  BY DEF Passive
<1>2. \/ stage[w] = "receive" /\ step[w] \in {2, 6}
      \/ stage[w] = "clear" /\ step[w] \in {2, 3}
  BY <1>1, Places
<1>3. phase[w] = "call"
  BY <1>1, Places
<1> QED
  BY <1>1, <1>2, <1>3, ReceiveGoesOn, ClearGoesOn

(* decode_message aborts the run of a message that does not decode.         *)
LEMMA DecodeDoes ==
  ASSUME TypeOK, NEW w \in Workers, Decode(w)
  PROVE  /\ stage[w] = "receive" /\ step[w] = 1 /\ phase[w] = "call"
         /\ UNCHANGED <<dbVars, history>>
         /\ \/ job[w].decodes /\ MovesTo(w, 2)
            \/ ~job[w].decodes /\ Ends(w, "aborted")
<1>1. stage[w] = "receive" /\ step[w] = 1 /\ phase[w] = "call"
  BY Places DEF Decode
<1>2. \/ job[w].decodes /\ Continue(w, <<>>)
      \/ ~job[w].decodes /\ Fail(w)
  BY DEF Decode
<1>3. UNCHANGED <<dbVars, history>>
  BY DEF Decode
<1> QED
  BY <1>1, <1>2, <1>3, ReceiveGoesOn

(* A manual hint decides the branch whatever the database holds.            *)
LEMMA CorrelateManualDoes ==
  ASSUME TypeOK, NEW w \in Workers, CorrelateManual(w)
  PROVE  /\ stage[w] = "receive" /\ step[w] = 3 /\ phase[w] = "call"
         /\ job[w].hint # "auto" /\ UNCHANGED <<dbVars, history>>
         /\ MovesTo(w, 4) \/ MovesTo(w, 5) \/ MovesTo(w, 6)
<1>1. stage[w] = "receive" /\ step[w] = 3 /\ phase[w] = "call"
  BY Places DEF CorrelateManual
<1>2. job[w].hint # "auto" /\ Correlation(w, job[w].hint) /\ UNCHANGED <<dbVars, history>>
  BY DEF CorrelateManual
<1>3. job[w].hint \in {"new", "update", "duplicate"}
  BY <1>1, <1>2, MessagesAssumption DEF TypeOK
<1> QED
  BY <1>1, <1>2, <1>3, ReceiveGoesOn

(* correlate finds no track, and the message is new, or takes its entry.    *)
LEMMA CorrelateGetDoes ==
  ASSUME TypeOK, NEW w \in Workers, CorrelateGet(w)
  PROVE  /\ stage[w] = "receive" /\ step[w] = 3 /\ phase[w] = "call"
         /\ job[w].hint = "auto" /\ UNCHANGED <<dbVars, history>>
         /\ \/ tracks[job[w].id] = 0 /\ MovesTo(w, 4)
            \/ tracks[job[w].id] # 0 /\ Hold(w, "compare", tracks[job[w].id])
<1>1. stage[w] = "receive" /\ step[w] = 3 /\ phase[w] = "call"
  BY Places DEF CorrelateGet
<1>2. /\ job[w].hint = "auto" /\ UNCHANGED <<dbVars, history>>
      /\ \/ tracks[job[w].id] = 0 /\ Correlation(w, "new")
         \/ tracks[job[w].id] # 0 /\ Hold(w, "compare", tracks[job[w].id])
  BY DEF CorrelateGet
<1> QED
  BY <1>1, <1>2, ReceiveGoesOn

(* correlate compares the times: an update, or a duplicate that it notes.   *)
LEMMA CorrelateCompareDoes ==
  ASSUME TypeOK, NEW w \in Workers, CorrelateCompare(w)
  PROVE  /\ stage[w] = "receive" /\ step[w] = 3 /\ phase[w] = "compare"
         /\ UNCHANGED <<now, tracks, history>>
         /\ \/ /\ job[w].time > entries[held[w]].time \/ TornRead(w)
               /\ MovesTo(w, 5) /\ UNCHANGED entries
            \/ /\ ~(job[w].time > entries[held[w]].time) \/ TornRead(w)
               /\ MovesTo(w, 6)
               /\ entries' = [entries EXCEPT ![held[w]].seen = @ \union {job[w].time}]
<1>1. stage[w] = "receive" /\ step[w] = 3 /\ phase[w] = "compare"
  BY Places DEF CorrelateCompare
<1>2. /\ UNCHANGED <<now, tracks, history>>
      /\ \/ /\ job[w].time > entries[held[w]].time \/ TornRead(w)
            /\ Correlation(w, "update") /\ UNCHANGED entries
         \/ /\ ~(job[w].time > entries[held[w]].time) \/ TornRead(w)
            /\ Correlation(w, "duplicate")
            /\ entries' = [entries EXCEPT ![held[w]].seen = @ \union {job[w].time}]
  BY DEF CorrelateCompare, Newer
<1>3. /\ Correlation(w, "update") => MovesTo(w, 5)
      /\ Correlation(w, "duplicate") => MovesTo(w, 6)
  BY <1>1, ReceiveGoesOn
<1> QED
  BY <1>1, <1>2, <1>3

(* create_entry adds the track or aborts because it is there.               *)
LEMMA CreateEntryDoes ==
  ASSUME TypeOK, NEW w \in Workers, CreateEntry(w)
  PROVE  /\ stage[w] = "receive" /\ step[w] = 4 /\ phase[w] = "call"
         /\ UNCHANGED history
         /\ \/ tracks[job[w].id] = 0 /\ Create(job[w]) /\ MovesTo(w, 7)
            \/ tracks[job[w].id] # 0 /\ Ends(w, "aborted") /\ UNCHANGED dbVars
<1>1. stage[w] = "receive" /\ step[w] = 4 /\ phase[w] = "call"
  BY Places DEF CreateEntry
<1>2. /\ UNCHANGED history
      /\ \/ tracks[job[w].id] = 0 /\ Create(job[w]) /\ Continue(w, <<>>)
         \/ tracks[job[w].id] # 0 /\ Fail(w) /\ UNCHANGED dbVars
  BY DEF CreateEntry
<1>3. /\ Continue(w, <<>>) => MovesTo(w, 7)
      /\ Fail(w) => Ends(w, "aborted")
  BY <1>1, ReceiveGoesOn
<1> QED
  BY <1>1, <1>2, <1>3

(* update_entry overwrites the track or aborts because it is gone.          *)
LEMMA UpdateEntryDoes ==
  ASSUME TypeOK, NEW w \in Workers, UpdateEntry(w)
  PROVE  /\ stage[w] = "receive" /\ step[w] = 5 /\ phase[w] = "call"
         /\ UNCHANGED history
         /\ \/ tracks[job[w].id] # 0 /\ Update(job[w]) /\ MovesTo(w, 7)
            \/ tracks[job[w].id] = 0 /\ Ends(w, "aborted") /\ UNCHANGED dbVars
<1>1. stage[w] = "receive" /\ step[w] = 5 /\ phase[w] = "call"
  BY Places DEF UpdateEntry
<1>2. /\ UNCHANGED history
      /\ \/ tracks[job[w].id] # 0 /\ Update(job[w]) /\ Continue(w, <<>>)
         \/ tracks[job[w].id] = 0 /\ Fail(w) /\ UNCHANGED dbVars
  BY DEF UpdateEntry
<1>3. /\ Continue(w, <<>>) => MovesTo(w, 7)
      /\ Fail(w) => Ends(w, "aborted")
  BY <1>1, ReceiveGoesOn
<1> QED
  BY <1>1, <1>2, <1>3

(* store_ppli ends the run when the track is there.                         *)
LEMMA StoreGetDoes ==
  ASSUME TypeOK, NEW w \in Workers, StoreGet(w)
  PROVE  /\ stage[w] = "receive" /\ step[w] = 7 /\ phase[w] = "call"
         /\ UNCHANGED <<dbVars, history>>
         /\ \/ tracks[job[w].id] # 0 /\ Ends(w, "completed")
            \/ tracks[job[w].id] = 0 /\ Hold(w, "create", 0)
<1>1. stage[w] = "receive" /\ step[w] = 7 /\ phase[w] = "call"
  BY Places DEF StoreGet
<1>2. /\ UNCHANGED <<dbVars, history>>
      /\ \/ tracks[job[w].id] # 0 /\ Continue(w, <<>>)
         \/ tracks[job[w].id] = 0 /\ Hold(w, "create", 0)
  BY DEF StoreGet
<1>3. Continue(w, <<>>) => Ends(w, "completed")
  BY <1>1, ReceiveGoesOn
<1> QED
  BY <1>1, <1>2, <1>3

(* store_ppli ends the run, with a new track or without.                    *)
LEMMA StoreCreateDoes ==
  ASSUME TypeOK, NEW w \in Workers, StoreCreate(w)
  PROVE  /\ stage[w] = "receive" /\ step[w] = 7 /\ phase[w] = "create"
         /\ UNCHANGED history /\ Ends(w, "completed")
         /\ \/ tracks[job[w].id] = 0 /\ Create(job[w])
            \/ tracks[job[w].id] # 0 /\ UNCHANGED dbVars
<1>1. stage[w] = "receive" /\ step[w] = 7 /\ phase[w] = "create"
  BY Places DEF StoreCreate
<1>2. /\ UNCHANGED history
      /\ \/ tracks[job[w].id] = 0 /\ Create(job[w]) /\ Continue(w, <<>>)
         \/ tracks[job[w].id] # 0 /\ Fail(w) /\ UNCHANGED dbVars
  BY DEF StoreCreate
<1>3. /\ Continue(w, <<>>) => Ends(w, "completed")
      /\ Fail(w) => Ends(w, "completed")
  BY <1>1, ReceiveGoesOn
<1> QED
  BY <1>1, <1>2, <1>3

(* check_ttl on a track: on to check_source_ju only if it has expired.      *)
LEMMA CheckTTLDoes ==
  ASSUME TypeOK, NEW w \in Workers, CheckTTL(w)
  PROVE  /\ stage[w] = "clear" /\ step[w] = 1 /\ phase[w] = "call"
         /\ job[w].id # AllTracks /\ UNCHANGED <<dbVars, history>>
         /\ \/ /\ tracks[job[w].id] # 0 /\ Expired(Entry(job[w].id))
               /\ MovesTo(w, 2)
            \/ MovesTo(w, 3)
<1>1. stage[w] = "clear" /\ step[w] = 1 /\ phase[w] = "call"
  BY Places DEF CheckTTL
<1>2. job[w].id # AllTracks /\ UNCHANGED <<dbVars, history>>
  BY DEF CheckTTL
<1> DEFINE out == tracks[job[w].id] # 0 /\ Expired(Entry(job[w].id))
<1>3. Continue(w, [expired |-> Flag(out)])
  BY DEF CheckTTL
<1>4. CASE out
  <2>1. out = TRUE
    BY <1>4
  <2>2. Continue(w, [expired |-> Flag(TRUE)])
    BY <1>3, <2>1
  <2> QED
    BY <1>1, <1>2, <1>4, <2>2, ClearGoesOn
<1>5. CASE ~out
  <2>1. out = FALSE
    BY <1>5
  <2>2. Continue(w, [expired |-> Flag(FALSE)])
    BY <1>3, <2>1
  <2> QED
    BY <1>1, <1>2, <2>2, ClearGoesOn
<1> QED
  BY <1>4, <1>5

(* check_ttl without a track ID removes every expired track.                *)
LEMMA SweepDoes ==
  ASSUME TypeOK, NEW w \in Workers, Sweep(w)
  PROVE  /\ stage[w] = "clear" /\ step[w] = 1 /\ phase[w] = "call"
         /\ job[w].id = AllTracks
         /\ tracks' = CleanExpired
         /\ disturbed' = disturbed \union
              {id \in Ids : tracks'[id] # tracks[id] /\ Running(id, "receive") # {}}
         /\ UNCHANGED <<now, entries, receives, overlapped, hinted>>
         /\ \/ kind = "J2.2" /\ MovesTo(w, 3)
            \/ kind = "J3.2" /\ Ends(w, "undefined_routing")
<1>1. stage[w] = "clear" /\ step[w] = 1 /\ phase[w] = "call"
  BY Places DEF Sweep
<1>2. \/ kind = "J2.2" /\ MovesTo(w, 3)
      \/ kind = "J3.2" /\ Ends(w, "undefined_routing")
  BY <1>1, ClearGoesOn DEF Sweep
<1> QED
  BY <1>1, <1>2 DEF Sweep

(* delete_entry removes its track, whatever has become of it.               *)
LEMMA DeleteEntryDoes ==
  ASSUME TypeOK, NEW w \in Workers, DeleteEntry(w)
  PROVE  /\ stage[w] = "clear" /\ step[w] = 4 /\ phase[w] = "call"
         /\ tracks' = [tracks EXCEPT ![job[w].id] = 0]
         /\ UNCHANGED <<now, entries, history>>
         /\ Ends(w, "completed")
<1>1. stage[w] = "clear" /\ step[w] = 4 /\ phase[w] = "call"
  BY Places DEF DeleteEntry
<1>2. Ends(w, "completed")
  BY <1>1, ClearGoesOn DEF DeleteEntry
<1> QED
  BY <1>1, <1>2 DEF DeleteEntry
=============================================================================
