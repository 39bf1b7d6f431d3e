------------------------ MODULE MessageStagesProofs ------------------------
(***************************************************************************)
(* Proofs about J22Codec and MessageStages.                                *)
(***************************************************************************)
EXTENDS MessageStages, FoldLemmas, SequenceTheorems

(* The parity of a count changes when the count changes by one. *)
LEMMA OddOrEven ==
  \A n \in Nat : (n + 1) % 2 = 1 <=> n % 2 # 1
OBVIOUS

(* A group is part of the seventy data bits. *)
LEMMA GroupFinite ==
  ASSUME NEW w, NEW i
  PROVE  IsFiniteSet(Group(w, i)) /\ Cardinality(Group(w, i)) \in Nat
<1>1. IsFiniteSet(0..69)
  BY FS_Interval, 0 \in Int, 69 \in Int, Zenon
<1>2. Group(w, i) \subseteq 0..69
  BY DEF Group
<1>3. IsFiniteSet(Group(w, i))
  BY <1>1, <1>2, FS_Subset, Zenon
<1> QED
  BY <1>3, FS_CardinalityType, Zenon

(* Changing a data bit changes the parity of the number of bits of its      *)
(* group.                                                                   *)
LEMMA FlipChangesGroup ==
  ASSUME NEW w, NEW b \in 0..69
  PROVE  (Cardinality(Group(Flip(w, b), b % 5)) % 2 = 1)
           <=> ~(Cardinality(Group(w, b % 5)) % 2 = 1)
<1> DEFINE G == Group(w, b % 5)
           F == Group(Flip(w, b), b % 5)
<1>1. /\ IsFiniteSet(G) /\ Cardinality(G) \in Nat
      /\ IsFiniteSet(F) /\ Cardinality(F) \in Nat
  BY GroupFinite, Zenon
<1>2. CASE b \in w
  <2>1. b \in G /\ b \notin F /\ G = F \union {b}
    BY <1>2 DEF Group, Flip
  <2>2. Cardinality(G) = Cardinality(F) + 1
    BY <1>1, <2>1, FS_AddElement, Zenon
  <2> QED
    BY <1>1, <2>2, OddOrEven
<1>3. CASE b \notin w
  <2>1. b \in F /\ b \notin G /\ F = G \union {b}
    BY <1>3 DEF Group, Flip
  <2>2. Cardinality(F) = Cardinality(G) + 1
    BY <1>1, <2>1, FS_AddElement, Zenon
  <2> QED
    BY <1>1, <2>2, OddOrEven
<1> QED
  BY <1>2, <1>3

(* Data bits and parity bits are apart. *)
LEMMA ParityBitsApart ==
  ASSUME NEW w
  PROVE  /\ WordParity(w) \subseteq 70..74
         /\ \A i \in 0..4 : 70 + i \in WordParity(w) <=> Cardinality(Group(w, i)) % 2 = 1
<1>1. \A i, j \in 0..4 : 70 + i = 70 + j => i = j
  OBVIOUS
<1> QED
  BY <1>1 DEF WordParity

(* The word setParity leaves passes verifyWordParity. *)
LEMMA SetThenVerify ==
  ASSUME NEW w
  PROVE  VerifyWordParity(SetParity(w))
<1>1. WordParity(w) \subseteq 70..74
  BY ParityBitsApart, Zenon
<1>2. \A i : Group(SetParity(w), i) = Group(w, i)
  BY <1>1 DEF Group, SetParity
<1>3. WordParity(SetParity(w)) = WordParity(w)
  <2>1. \A i : Cardinality(Group(SetParity(w), i)) = Cardinality(Group(w, i))
    BY <1>2, Zenon
  <2> QED
    BY <2>1 DEF WordParity
<1>4. SetParity(w) \intersect (70..74) = WordParity(w)
  BY <1>1 DEF SetParity
<1> QED
  BY <1>3, <1>4, Zenon DEF VerifyWordParity

(* A word that passes verifyWordParity fails it after one of its 75 bits    *)
(* has changed.                                                             *)
LEMMA FlipRejected ==
  ASSUME NEW w, NEW b \in 0..74, VerifyWordParity(w)
  PROVE  ~VerifyWordParity(Flip(w, b))
<1>1. CASE b \in 0..69
  <2>1. b % 5 \in 0..4 /\ 70 + (b % 5) \in 70..74
    BY <1>1
  <2>2. Flip(w, b) \intersect (70..74) = w \intersect (70..74)
    BY <1>1 DEF Flip
  <2>3. 70 + (b % 5) \in WordParity(Flip(w, b)) <=> ~(70 + (b % 5) \in WordParity(w))
    BY <1>1, <2>1, FlipChangesGroup, ParityBitsApart
  <2> QED
    BY <2>2, <2>3, Zenon DEF VerifyWordParity
<1>2. CASE b \in 70..74
  <2>1. \A i : Group(Flip(w, b), i) = Group(w, i)
    BY <1>2 DEF Group, Flip
  <2>2. WordParity(Flip(w, b)) = WordParity(w)
    <3>1. \A i : Cardinality(Group(Flip(w, b), i)) = Cardinality(Group(w, i))
      BY <2>1, Zenon
    <3> QED
      BY <3>1 DEF WordParity
  <2>3. Flip(w, b) \intersect (70..74) # w \intersect (70..74)
    BY <1>2, SMTT(30) DEF Flip
  <2> QED
    BY <2>2, <2>3, Zenon DEF VerifyWordParity
<1> QED
  BY <1>1, <1>2

(* Whatever the message, DecodeJ22 takes the payload EncodeJ22 makes of it  *)
(* and rejects it once a bit of one of its words has changed                *)
(* (j22_codec.go:85-90).                                                  *)
THEOREM PayloadBitErrors ==
  ASSUME NEW m
  PROVE  LET p == EncodeJ22(m)
         IN /\ VerifyWordParity(p.iw) /\ VerifyWordParity(p.e0)
            /\ \A b \in 0..74 : /\ Rejects([p EXCEPT !.iw = Flip(@, b)])
                                /\ Rejects([p EXCEPT !.e0 = Flip(@, b)])
<1> DEFINE p == EncodeJ22(m)
<1>1. VerifyWordParity(p.iw) /\ VerifyWordParity(p.e0)
  BY SetThenVerify DEF EncodeJ22, EncodeInitialWord, EncodeExtensionWord
<1>2. ASSUME NEW b \in 0..74
      PROVE  /\ Rejects([p EXCEPT !.iw = Flip(@, b)])
             /\ Rejects([p EXCEPT !.e0 = Flip(@, b)])
  <2>1. ~VerifyWordParity(Flip(p.iw, b)) /\ ~VerifyWordParity(Flip(p.e0, b))
    BY <1>1, <1>2, FlipRejected
  <2>2. /\ [p EXCEPT !.iw = Flip(@, b)].iw = Flip(p.iw, b)
        /\ [p EXCEPT !.e0 = Flip(@, b)].e0 = Flip(p.e0, b)
    BY DEF EncodeJ22
  <2> QED
    BY <2>1, <2>2 DEF Rejects
<1> QED
  BY <1>1, <1>2
-----------------------------------------------------------------------------
(* The invariants below say what a stage knows of the message and of the    *)
(* token's data at each of its steps; step 0 is its end.  First what        *)
(* classify_platform and classify_j32 make of a message.                    *)
Classified(k, m) == [m EXCEPT !.platform = PlatformOf(k, m.alt)]

(* The context holds the field f, with the value v.                         *)
Holding(f, v) == f \in DOMAIN data /\ data[f] = v

(* T1 before step 1, 2, 3 or 4: the message is the one being classified; at its *)
(* end the encoding and the errors are those of the classified message.     *)
PrepareInv ==
  /\ step \in 0..4
  /\ step = 1 => /\ message = NoMessage
                 /\ \E r \in Reports \union {NoMessage} : Holding("report", r)
  /\ step # 1 => message # NoMessage
  /\ step = 2 => message = original
  /\ step \in {0, 3, 4} => message = Classified(kind, original)
  /\ step \in {0, 4} /\ kind = "J2.2" => Holding("j22", EncodeJ22(message))
  /\ step = 0 => Holding("errors", Errors(kind, message))

(* T2: a message that reached s2 was not denied, and the end shows whether it *)
(* was sent.                                                                *)
SendInv ==
  /\ step \in 0..3
  /\ message = NoMessage
  /\ \E b \in BOOLEAN : Holding("force_deny", b)
  /\ step # 0 => "transmitted" \notin DOMAIN data
  /\ step \in {2, 3} => ~data.force_deny
  /\ step = 3 => "assigned" \in DOMAIN data /\ Holding("npg_number", 6)
  /\ step = 0 /\ data.force_deny => "transmitted" \notin DOMAIN data
  /\ step = 0 /\ ~data.force_deny => "assigned" \in DOMAIN data /\ Holding("transmitted", 6)

(* T5: detection and resolution agree on the original message, and only the *)
(* clamping step changes it.                                                *)
SpecialInv ==
  /\ step \in 0..4
  /\ step \in {1, 2, 3} => message = original /\ "clamped" \notin DOMAIN data
  /\ step \in {0, 2, 3, 4} => Holding("anomaly_type", Anomaly(kind, original))
  /\ step \in {0, 3, 4} => Holding("conflict_type", Anomaly(kind, original))
  /\ step \in {0, 4} => /\ "clamped" \in DOMAIN data <=> message # NoMessage
                        /\ message # NoMessage => message = Clamped(kind, original)
  /\ step = 0 => "logged" \in DOMAIN data

(* What holds of the message in every stage.                                *)
MessagesOK ==
  /\ kind \in Kinds
  /\ stage \in {"none", "prepare_send", "send", "special_process"}
  /\ message \in MessageTypes \union {NoMessage}
  /\ original \in MessageTypes \union {NoMessage}
  /\ message = NoMessage <=> original = NoMessage

(* The inductive invariant of the stages.                                   *)
StagesInv ==
  /\ MessagesOK
  /\ stage = "none" => step = 0
  /\ stage = "prepare_send" => PrepareInv
  /\ stage = "send" => SendInv
  /\ stage = "special_process" => SpecialInv
-----------------------------------------------------------------------------
(* The node names of the roles these stages use. *)
LEMMA RoleNames ==
  /\ NodeNames("init") = {"init_ppli_data", "init_j32_data"}
  /\ NodeNames("classify") = {"classify_platform", "classify_j32"}
  /\ NodeNames("encode") = {"encode_ppli_message", "encode_j32_message"}
  /\ NodeNames("validate") = {"validate_message", "validate_j32_message"}
  /\ NodeNames("check_send") = {"check_send_condition"}
  /\ NodeNames("assign") = {"assign_npg_slot"}
  /\ NodeNames("transmit") = {"transmit"}
  /\ NodeNames("detect") = {"detect_anomaly", "j32_detect_anomaly"}
  /\ NodeNames("resolve") = {"resolve_conflict"}
  /\ NodeNames("clamp") = {"clamp_field", "j32_clamp_field"}
  /\ NodeNames("log") = {"log_result"}
BY DEF NodeNames

(* The empty sequence has no positions.                                     *)
LEMMA EmptyDomain == DOMAIN <<>> = {}
OBVIOUS

(* A step without branches leads to its default target.                     *)
LEMMA RouteStraight ==
  ASSUME NEW output, NEW s, s.branches = <<>>
  PROVE  Route(output, s) = s.defaultGoto
<1>1. DOMAIN s.branches = {}
  BY EmptyDomain, Zenon
<1>2. Matching(output, s) = {}
  BY <1>1, Zenon DEF Matching
<1> QED
  BY <1>2, Zenon DEF Route

(* A step that neither branches nor jumps.                                  *)
Straight(s) == s.branches = <<>> /\ s.defaultGoto = ""

(* T1 of J2.2, step by step. *)
LEMMA PpliPrepareSteps ==
  /\ Len(PpliPrepare) = 4 /\ DOMAIN PpliPrepare = 1..4
  /\ Straight(PpliPrepare[1]) /\ PpliPrepare[1].node = "init_ppli_data"
  /\ Straight(PpliPrepare[2]) /\ PpliPrepare[2].node = "classify_platform"
  /\ Straight(PpliPrepare[3]) /\ PpliPrepare[3].node = "encode_ppli_message"
  /\ Straight(PpliPrepare[4]) /\ PpliPrepare[4].node = "validate_message"
<1>1. Len(PpliPrepare) = 4 /\ DOMAIN PpliPrepare = 1..4 BY DEF PpliPrepare
<1>2. Straight(PpliPrepare[1]) /\ PpliPrepare[1].node = "init_ppli_data"
  BY DEF PpliPrepare, StepOf, Straight
<1>3. Straight(PpliPrepare[2]) /\ PpliPrepare[2].node = "classify_platform"
  BY DEF PpliPrepare, StepOf, Straight
<1>4. Straight(PpliPrepare[3]) /\ PpliPrepare[3].node = "encode_ppli_message"
  BY DEF PpliPrepare, StepOf, Straight
<1>5. Straight(PpliPrepare[4]) /\ PpliPrepare[4].node = "validate_message"
  BY DEF PpliPrepare, StepOf, Straight
<1> QED BY <1>1, <1>2, <1>3, <1>4, <1>5, Zenon

(* T1 of J3.2, step by step. *)
LEMMA J32PrepareSteps ==
  /\ Len(J32Prepare) = 4 /\ DOMAIN J32Prepare = 1..4
  /\ Straight(J32Prepare[1]) /\ J32Prepare[1].node = "init_j32_data"
  /\ Straight(J32Prepare[2]) /\ J32Prepare[2].node = "classify_j32"
  /\ Straight(J32Prepare[3]) /\ J32Prepare[3].node = "encode_j32_message"
  /\ Straight(J32Prepare[4]) /\ J32Prepare[4].node = "validate_j32_message"
<1>1. Len(J32Prepare) = 4 /\ DOMAIN J32Prepare = 1..4 BY DEF J32Prepare
<1>2. Straight(J32Prepare[1]) /\ J32Prepare[1].node = "init_j32_data"
  BY DEF J32Prepare, StepOf, Straight
<1>3. Straight(J32Prepare[2]) /\ J32Prepare[2].node = "classify_j32"
  BY DEF J32Prepare, StepOf, Straight
<1>4. Straight(J32Prepare[3]) /\ J32Prepare[3].node = "encode_j32_message"
  BY DEF J32Prepare, StepOf, Straight
<1>5. Straight(J32Prepare[4]) /\ J32Prepare[4].node = "validate_j32_message"
  BY DEF J32Prepare, StepOf, Straight
<1> QED BY <1>1, <1>2, <1>3, <1>4, <1>5, Zenon

(* T5 of J2.2, step by step. *)
LEMMA PpliSpecialSteps ==
  /\ Len(PpliSpecial) = 4 /\ DOMAIN PpliSpecial = 1..4
  /\ Straight(PpliSpecial[1]) /\ PpliSpecial[1].node = "detect_anomaly"
  /\ Straight(PpliSpecial[2]) /\ PpliSpecial[2].node = "resolve_conflict"
  /\ Straight(PpliSpecial[3]) /\ PpliSpecial[3].node = "clamp_field"
  /\ Straight(PpliSpecial[4]) /\ PpliSpecial[4].node = "log_result"
<1>1. Len(PpliSpecial) = 4 /\ DOMAIN PpliSpecial = 1..4 BY DEF PpliSpecial
<1>2. Straight(PpliSpecial[1]) /\ PpliSpecial[1].node = "detect_anomaly"
  BY DEF PpliSpecial, StepOf, Straight
<1>3. Straight(PpliSpecial[2]) /\ PpliSpecial[2].node = "resolve_conflict"
  BY DEF PpliSpecial, StepOf, Straight
<1>4. Straight(PpliSpecial[3]) /\ PpliSpecial[3].node = "clamp_field"
  BY DEF PpliSpecial, StepOf, Straight
<1>5. Straight(PpliSpecial[4]) /\ PpliSpecial[4].node = "log_result"
  BY DEF PpliSpecial, StepOf, Straight
<1> QED BY <1>1, <1>2, <1>3, <1>4, <1>5, Zenon

(* T5 of J3.2, step by step. *)
LEMMA J32SpecialSteps ==
  /\ Len(J32Special) = 4 /\ DOMAIN J32Special = 1..4
  /\ Straight(J32Special[1]) /\ J32Special[1].node = "j32_detect_anomaly"
  /\ Straight(J32Special[2]) /\ J32Special[2].node = "resolve_conflict"
  /\ Straight(J32Special[3]) /\ J32Special[3].node = "j32_clamp_field"
  /\ Straight(J32Special[4]) /\ J32Special[4].node = "log_result"
<1>1. Len(J32Special) = 4 /\ DOMAIN J32Special = 1..4 BY DEF J32Special
<1>2. Straight(J32Special[1]) /\ J32Special[1].node = "j32_detect_anomaly"
  BY DEF J32Special, StepOf, Straight
<1>3. Straight(J32Special[2]) /\ J32Special[2].node = "resolve_conflict"
  BY DEF J32Special, StepOf, Straight
<1>4. Straight(J32Special[3]) /\ J32Special[3].node = "j32_clamp_field"
  BY DEF J32Special, StepOf, Straight
<1>5. Straight(J32Special[4]) /\ J32Special[4].node = "log_result"
  BY DEF J32Special, StepOf, Straight
<1> QED BY <1>1, <1>2, <1>3, <1>4, <1>5, Zenon

(* The steps of T1 and their roles. *)
LEMMA PrepareSteps ==
  ASSUME kind \in Kinds, stage = "prepare_send"
  PROVE  /\ Len(Steps) = 4 /\ DOMAIN Steps = 1..4
         /\ Straight(Steps[1]) /\ Steps[1].node \in NodeNames("init")
         /\ Straight(Steps[2]) /\ Steps[2].node \in NodeNames("classify")
         /\ Straight(Steps[3]) /\ Steps[3].node \in NodeNames("encode")
         /\ Straight(Steps[4]) /\ Steps[4].node \in NodeNames("validate")
<1>1. Steps = PpliPrepare \/ Steps = J32Prepare
  BY DEF Steps, Kinds
<1>2. CASE Steps = PpliPrepare BY <1>2, PpliPrepareSteps, RoleNames
<1>3. CASE Steps = J32Prepare BY <1>3, J32PrepareSteps, RoleNames
<1> QED BY <1>1, <1>2, <1>3

(* The steps of T5 and their roles. *)
LEMMA SpecialSteps ==
  ASSUME kind \in Kinds, stage = "special_process"
  PROVE  /\ Len(Steps) = 4 /\ DOMAIN Steps = 1..4
         /\ Straight(Steps[1]) /\ Steps[1].node \in NodeNames("detect")
         /\ Straight(Steps[2]) /\ Steps[2].node \in NodeNames("resolve")
         /\ Straight(Steps[3]) /\ Steps[3].node \in NodeNames("clamp")
         /\ Straight(Steps[4]) /\ Steps[4].node \in NodeNames("log")
<1>1. Steps = PpliSpecial \/ Steps = J32Special
  BY DEF Steps, Kinds
<1>2. CASE Steps = PpliSpecial BY <1>2, PpliSpecialSteps, RoleNames
<1>3. CASE Steps = J32Special BY <1>3, J32SpecialSteps, RoleNames
<1> QED BY <1>1, <1>2, <1>3

(* The steps of T2 and their roles. *)
LEMMA SendSteps ==
  ASSUME stage = "send"
  PROVE  /\ Len(Steps) = 3 /\ DOMAIN Steps = 1..3
         /\ Steps[1].node \in NodeNames("check_send")
         /\ Steps[1].branches = <<Branch("can_send", "true", "s2"),
                                  Branch("can_send", "false", "end")>>
         /\ Straight(Steps[2]) /\ Steps[2].node \in NodeNames("assign")
         /\ Straight(Steps[3]) /\ Steps[3].node \in NodeNames("transmit")
         /\ Steps[1].id = "s1" /\ Steps[2].id = "s2" /\ Steps[3].id = "s3"
<1>1. Steps = Send BY DEF Steps
<1>2. Len(Send) = 3 /\ DOMAIN Send = 1..3 BY DEF Send
<1>3. /\ Send[1].node = "check_send_condition" /\ Send[1].id = "s1"
      /\ Send[1].branches = <<Branch("can_send", "true", "s2"),
                              Branch("can_send", "false", "end")>>
  BY DEF Send, StepOf
<1>4. Straight(Send[2]) /\ Send[2].node = "assign_npg_slot" /\ Send[2].id = "s2"
  BY DEF Send, StepOf, Straight
<1>5. Straight(Send[3]) /\ Send[3].node = "transmit" /\ Send[3].id = "s3"
  BY DEF Send, StepOf, Straight
<1> QED BY <1>1, <1>2, <1>3, <1>4, <1>5, RoleNames

(* After a step without branches and default target comes the next one, or  *)
(* the end.                                                                 *)
LEMMA StraightOn ==
  ASSUME NEW output, Continue(output), Straight(Steps[step])
  PROVE  Goto(step + 1)
<1>1. Route(output, Steps[step]) = "" BY RouteStraight, Zenon DEF Straight
<1> QED BY <1>1, Zenon DEF Continue

(* The context after a node: its output over what was there before. *)
LEMMA Merged ==
  ASSUME NEW output, Continue(output)
  PROVE  /\ DOMAIN data' = DOMAIN data \union DOMAIN output
         /\ \A f \in DOMAIN output : data'[f] = output[f]
         /\ \A f \in DOMAIN data \ DOMAIN output : data'[f] = data[f]
         /\ kind' = kind /\ stage' = stage
BY DEF Continue

(* The roles that the steps of T1, T2 and T5 name.                          *)
Roles == {"init", "classify", "encode", "validate", "check_send", "assign", "transmit",
          "detect", "resolve", "clamp", "log"}

(* A node name plays one of these roles. *)
LEMMA RolesApart ==
  ASSUME NEW r \in Roles, NEW s \in Roles, NEW n \in NodeNames(r), n \in NodeNames(s)
  PROVE  r = s
BY RoleNames DEF Roles

(* The role of the node that has just acted. *)
LEMMA NodeRole ==
  ASSUME Node
  PROVE  \/ At("init") /\ \E now \in Clock : InitData(now)
         \/ At("classify") /\ Classify
         \/ At("encode") /\ Encode
         \/ At("validate") /\ ValidateMessage
         \/ At("check_send") /\ CheckSendCondition
         \/ At("assign") /\ AssignNPGSlot
         \/ At("transmit") /\ Transmit
         \/ At("detect") /\ DetectAnomaly
         \/ At("resolve") /\ ResolveConflict
         \/ At("clamp") /\ ClampField
         \/ At("log") /\ LogResult
<1>1. \A now : InitData(now) => At("init") BY Zenon DEF InitData
<1>2. Classify => At("classify") BY Zenon DEF Classify
<1>3. Encode => At("encode") BY Zenon DEF Encode
<1>4. ValidateMessage => At("validate") BY Zenon DEF ValidateMessage
<1>5. CheckSendCondition => At("check_send") BY Zenon DEF CheckSendCondition
<1>6. AssignNPGSlot => At("assign") BY Zenon DEF AssignNPGSlot
<1>7. Transmit => At("transmit") BY Zenon DEF Transmit
<1>8. DetectAnomaly => At("detect") BY Zenon DEF DetectAnomaly
<1>9. ResolveConflict => At("resolve") BY Zenon DEF ResolveConflict
<1>10. ClampField => At("clamp") BY Zenon DEF ClampField
<1>11. LogResult => At("log") BY Zenon DEF LogResult
<1> QED BY <1>1, <1>2, <1>3, <1>4, <1>5, <1>6, <1>7, <1>8, <1>9, <1>10, <1>11,
           Zenon DEF Node

(* The node that acts is the one whose role the step has. *)
LEMMA RoleAtStep ==
  ASSUME NEW r \in Roles, Steps[step].node \in NodeNames(r), NEW s \in Roles, At(s)
  PROVE  r = s
BY RolesApart DEF At

(* Which node acts at which step of T1. *)
LEMMA PrepareNode ==
  ASSUME kind \in Kinds, stage = "prepare_send", step \in 0..4, Node
  PROVE  \/ step = 1 /\ \E now \in Clock : InitData(now)
         \/ step = 2 /\ Classify
         \/ step = 3 /\ Encode
         \/ step = 4 /\ ValidateMessage
<1>0. step \in {1, 2, 3, 4} BY NodeRole DEF At
<1>1. CASE step = 1
  <2>1. \A s \in Roles : At(s) => s = "init" BY <1>1, PrepareSteps, RoleAtStep DEF Roles
  <2> QED BY <1>1, <2>1, NodeRole DEF Roles
<1>2. CASE step = 2
  <2>1. \A s \in Roles : At(s) => s = "classify" BY <1>2, PrepareSteps, RoleAtStep DEF Roles
  <2> QED BY <1>2, <2>1, NodeRole DEF Roles
<1>3. CASE step = 3
  <2>1. \A s \in Roles : At(s) => s = "encode" BY <1>3, PrepareSteps, RoleAtStep DEF Roles
  <2> QED BY <1>3, <2>1, NodeRole DEF Roles
<1>4. CASE step = 4
  <2>1. \A s \in Roles : At(s) => s = "validate" BY <1>4, PrepareSteps, RoleAtStep DEF Roles
  <2> QED BY <1>4, <2>1, NodeRole DEF Roles
<1> QED BY <1>0, <1>1, <1>2, <1>3, <1>4

(* Which node acts at which step of T2. *)
LEMMA SendNode ==
  ASSUME stage = "send", step \in 0..3, Node
  PROVE  \/ step = 1 /\ CheckSendCondition
         \/ step = 2 /\ AssignNPGSlot
         \/ step = 3 /\ Transmit
<1>0. step \in {1, 2, 3} BY NodeRole DEF At
<1>1. CASE step = 1
  <2>1. \A s \in Roles : At(s) => s = "check_send" BY <1>1, SendSteps, RoleAtStep DEF Roles
  <2> QED BY <1>1, <2>1, NodeRole DEF Roles
<1>2. CASE step = 2
  <2>1. \A s \in Roles : At(s) => s = "assign" BY <1>2, SendSteps, RoleAtStep DEF Roles
  <2> QED BY <1>2, <2>1, NodeRole DEF Roles
<1>3. CASE step = 3
  <2>1. \A s \in Roles : At(s) => s = "transmit" BY <1>3, SendSteps, RoleAtStep DEF Roles
  <2> QED BY <1>3, <2>1, NodeRole DEF Roles
<1> QED BY <1>0, <1>1, <1>2, <1>3

(* Which node acts at which step of T5. *)
LEMMA SpecialNode ==
  ASSUME kind \in Kinds, stage = "special_process", step \in 0..4, Node
  PROVE  \/ step = 1 /\ DetectAnomaly
         \/ step = 2 /\ ResolveConflict
         \/ step = 3 /\ ClampField
         \/ step = 4 /\ LogResult
<1>0. step \in {1, 2, 3, 4} BY NodeRole DEF At
<1>1. CASE step = 1
  <2>1. \A s \in Roles : At(s) => s = "detect" BY <1>1, SpecialSteps, RoleAtStep DEF Roles
  <2> QED BY <1>1, <2>1, NodeRole DEF Roles
<1>2. CASE step = 2
  <2>1. \A s \in Roles : At(s) => s = "resolve" BY <1>2, SpecialSteps, RoleAtStep DEF Roles
  <2> QED BY <1>2, <2>1, NodeRole DEF Roles
<1>3. CASE step = 3
  <2>1. \A s \in Roles : At(s) => s = "clamp" BY <1>3, SpecialSteps, RoleAtStep DEF Roles
  <2> QED BY <1>3, <2>1, NodeRole DEF Roles
<1>4. CASE step = 4
  <2>1. \A s \in Roles : At(s) => s = "log" BY <1>4, SpecialSteps, RoleAtStep DEF Roles
  <2> QED BY <1>4, <2>1, NodeRole DEF Roles
<1> QED BY <1>0, <1>1, <1>2, <1>3, <1>4

(* Four straight steps are taken one after the other. *)
LEMMA StraightStep ==
  ASSUME NEW output, Continue(output), NEW n \in Nat, NEW i \in 1..n, Len(Steps) = n,
         step = i, Straight(Steps[i])
  PROVE  step' = IF i = n THEN 0 ELSE i + 1
<1>1. Goto(i + 1) BY StraightOn, Zenon
<1> QED BY <1>1 DEF Goto

(* The minimum of a singleton.                                              *)
LEMMA MinOfOne ==
  ASSUME NEW x \in Nat PROVE Min({x}) = x
BY DEF Min

(* check_send_condition routes to s2 or to the end. *)
LEMMA SendRoutes ==
  ASSUME stage = "send", step = 1, NEW b \in BOOLEAN, Continue([can_send |-> Flag(b)])
  PROVE  step' = IF b THEN 2 ELSE 0
<1> DEFINE output == [can_send |-> Flag(b)]
           s == Steps[1]
           B1 == Branch("can_send", "true", "s2")
           B2 == Branch("can_send", "false", "end")
<1>1. s.branches = <<B1, B2>> BY SendSteps
<1>2. DOMAIN s.branches = {1, 2} /\ s.branches[1] = B1 /\ s.branches[2] = B2
  <2> HIDE DEF B1, B2, s
  <2>1. DOMAIN <<B1, B2>> = {1, 2} /\ <<B1, B2>>[1] = B1 /\ <<B1, B2>>[2] = B2 OBVIOUS
  <2> QED BY <1>1, <2>1
<1>3. Holds(B1.condition, output) <=> b
  BY DEF Holds, Branch, Flag, BoolEquals
<1>4. Holds(B2.condition, output) <=> ~b
  BY DEF Holds, Branch, Flag, BoolEquals
<1>5. B1.goto = "s2" /\ B2.goto = "end" BY DEF Branch
<1>6. Matching(output, s) = IF b THEN {1} ELSE {2}
  <2> HIDE DEF B1, B2, s, output
  <2> QED BY <1>2, <1>3, <1>4 DEF Matching
<1>7. Route(output, Steps[step]) = IF b THEN "s2" ELSE "end"
  <2>1. Min({1}) = 1 /\ Min({2}) = 2 BY MinOfOne
  <2>2. Steps[step] = s OBVIOUS
  <2> HIDE DEF B1, B2, s, output
  <2>3. CASE b
    <3>1. PICK M : M = {1} OBVIOUS
    <3>2. Matching(output, s) = M BY <1>6, <2>3, <3>1
    <3>3. M # {} /\ Min(M) = 1 BY <2>1, <3>1
    <3>4. Route(output, s) = s.branches[1].goto BY <3>2, <3>3 DEF Route
    <3> QED BY <1>2, <1>5, <2>2, <2>3, <3>4
  <2>4. CASE ~b
    <3>1. PICK M : M = {2} OBVIOUS
    <3>2. Matching(output, s) = M BY <1>6, <2>4, <3>1
    <3>3. M # {} /\ Min(M) = 2 BY <2>1, <3>1
    <3>4. Route(output, s) = s.branches[2].goto BY <3>2, <3>3 DEF Route
    <3> QED BY <1>2, <1>5, <2>2, <2>4, <3>4
  <2> QED BY <2>3, <2>4
<1>8. CASE b
  <2>1. StepIndex(Steps, "s2") = 2
    <3>1. PICK M : M = {2} OBVIOUS
    <3>2. {i \in DOMAIN Steps : Steps[i].id = "s2"} = M BY <3>1, SendSteps
    <3>3. M # {} /\ Min(M) = 2 BY <3>1, MinOfOne
    <3> QED BY <3>2, <3>3, Zenon DEF StepIndex
  <2>2. Goto(2) BY <1>7, <1>8, <2>1 DEF Continue
  <2>3. Len(Steps) = 3 BY SendSteps
  <2>4. step' = 2 BY <2>2, <2>3 DEF Goto
  <2> QED BY <1>8, <2>4
<1>9. CASE ~b BY <1>7, <1>9 DEF Continue
<1> QED BY <1>8, <1>9

(* What classification can write into a message.                            *)
PlatformNames == {"", "air", "surface", "subsurface", "land"}

(* The made-up message is made of numbers. *)
LEMMA DefaultTyped ==
  ASSUME NEW k
  PROVE  LET d == DefaultReport(k)
         IN /\ d.lat \in Int /\ d.lon \in Int /\ d.alt \in Int
            /\ d.course \in Int /\ d.speed \in Int
<1> DEFINE d == DefaultReport(k)
<1>1. d.lat = 3293649 BY SMT DEF DefaultReport
<1>2. d.lon = 12901578 BY SMT DEF DefaultReport
<1>3. d.course = 180 BY SMT DEF DefaultReport
<1>4. d.alt \in {10000, 8000} BY SMT DEF DefaultReport
<1>5. d.speed \in {600, 840} BY SMT DEF DefaultReport
<1> HIDE DEF d
<1>6. /\ d.lat \in Int /\ d.lon \in Int /\ d.alt \in Int
      /\ d.course \in Int /\ d.speed \in Int
  BY <1>1, <1>2, <1>3, <1>4, <1>5, SMT
<1> QED BY <1>6 DEF d

(* What a report says, beside its ID, is numbers and a course. *)
LEMMA ReportTyped ==
  ASSUME NEW k \in Kinds, NEW r \in Reports \union {DefaultReport(k)}
  PROVE  /\ r.id \in {q.id : q \in Reports} \union {DefaultReport(j).id : j \in Kinds}
         /\ r.lat \in Int /\ r.lon \in Int /\ r.alt \in Int
         /\ r.course \in Courses /\ r.speed \in Int
<1>1. CASE r \in Reports BY <1>1, ReportsAssumption
<1>2. CASE r = DefaultReport(k)
  <2>1. r.id \in {DefaultReport(j).id : j \in Kinds} BY <1>2
  <2>2. /\ r.lat \in Int /\ r.lon \in Int /\ r.alt \in Int
        /\ r.course \in Courses /\ r.speed \in Int
    BY <1>2, DefaultTyped DEF Courses
  <2> QED BY <2>1, <2>2
<1> QED BY <1>1, <1>2

(* A message made of a report is a message. *)
LEMMA MessageTyped ==
  ASSUME NEW k \in Kinds, NEW r \in Reports \union {DefaultReport(k)},
         NEW platform \in PlatformNames, NEW now \in Clock
  PROVE  Message(r, platform, now) \in MessageTypes
BY ReportTyped DEF Message, MessageTypes, PlatformNames

(* An altitude has a platform. *)
LEMMA PlatformTyped ==
  ASSUME NEW k \in Kinds, NEW alt \in Int
  PROVE  PlatformOf(k, alt) \in {"air", "surface", "subsurface", "land"}
<1>1. CASE k = "J2.2"
  <2>1. alt > 5000 \/ (alt > 100 /\ alt <= 5000) \/ alt <= 100 BY SMT
  <2> QED BY <1>1, <2>1, SMT DEF PlatformOf
<1>2. CASE k = "J3.2"
  <2>1. alt > 500 \/ (alt >= 0 /\ alt <= 500) \/ alt < 0 BY SMT
  <2> QED BY <1>2, <2>1, SMT DEF PlatformOf
<1> QED BY <1>1, <1>2 DEF Kinds

(* Classifying a message gives a message. *)
LEMMA ClassifiedTyped ==
  ASSUME NEW k \in Kinds, NEW m \in MessageTypes
  PROVE  /\ Classified(k, m) \in MessageTypes
         /\ Classified(k, m).alt = m.alt
<1>1. PlatformOf(k, m.alt) \in PlatformNames
  BY PlatformTyped DEF MessageTypes, PlatformNames
<1> QED BY <1>1 DEF MessageTypes, Classified, PlatformNames

(* Clamping gives a number between the limits, the same if it was there. *)
LEMMA ClampBetween ==
  ASSUME NEW v \in Int, NEW lo \in Int, NEW hi \in Int, lo <= hi
  PROVE  /\ ClampInt64(v, lo, hi) \in lo..hi
         /\ v \in lo..hi => ClampInt64(v, lo, hi) = v
BY DEF ClampInt64

(* A course modulo a full circle; a hair below zero gives the full circle. *)
LEMMA WrapBetween ==
  ASSUME NEW c \in Courses
  PROVE  /\ c # Hair => Wrap(c) \in 0..(FullCircle - 1)
         /\ c = Hair => Wrap(c) = FullCircle
         /\ c \in 0..(FullCircle - 1) => Wrap(c) = c
<1>1. CASE c = Hair
  <2>1. c \notin 0..(FullCircle - 1) BY <1>1, HairAssumption DEF FullCircle
  <2> QED BY <1>1, <2>1 DEF Wrap
<1>2. CASE c # Hair
  <2>1. c \in Int BY <1>2 DEF Courses
  <2>2. Wrap(c) = c % 720 BY <1>2 DEF Wrap, FullCircle
  <2>3. c % 720 \in 0..719 /\ (c \in 0..719 => c % 720 = c) BY <2>1, SMT
  <2>4. FullCircle - 1 = 719 BY DEF FullCircle
  <2> QED BY <1>2, <2>2, <2>3, <2>4
<1> QED BY <1>1, <1>2

(* Clamping a message gives a message all of whose fields are in range, but *)
(* for a course that was a hair below zero; it is the same message if they  *)
(* were.                                                                    *)
LEMMA ClampedTyped ==
  ASSUME NEW k \in Kinds, NEW m \in MessageTypes
  PROVE  /\ Clamped(k, m) \in MessageTypes
         /\ Clamped(k, m).lat \in -MaxLat..MaxLat
         /\ Clamped(k, m).lon \in -MaxLon..MaxLon
         /\ Clamped(k, m).alt \in 0..MaxAlt(k)
         /\ m.course # Hair => Clamped(k, m).course \in 0..(FullCircle - 1)
         /\ m.course = Hair => Clamped(k, m).course = FullCircle
         /\ (/\ m.lat \in -MaxLat..MaxLat /\ m.lon \in -MaxLon..MaxLon
             /\ m.alt \in 0..MaxAlt(k) /\ m.course \in 0..(FullCircle - 1))
               => Clamped(k, m) = m
<1> DEFINE lat == ClampInt64(m.lat, -MaxLat, MaxLat)
           lon == ClampInt64(m.lon, -MaxLon, MaxLon)
           alt == ClampInt64(m.alt, 0, MaxAlt(k))
           course == Wrap(m.course)
<1>1. m.lat \in Int /\ m.lon \in Int /\ m.alt \in Int /\ m.course \in Courses
  BY DEF MessageTypes
<1>2. lat \in -MaxLat..MaxLat /\ (m.lat \in -MaxLat..MaxLat => lat = m.lat)
  <2>1. -MaxLat \in Int /\ MaxLat \in Int /\ -MaxLat <= MaxLat BY SMT DEF MaxLat
  <2> QED BY <1>1, <2>1, ClampBetween
<1>3. lon \in -MaxLon..MaxLon /\ (m.lon \in -MaxLon..MaxLon => lon = m.lon)
  <2>1. -MaxLon \in Int /\ MaxLon \in Int /\ -MaxLon <= MaxLon BY SMT DEF MaxLon
  <2> QED BY <1>1, <2>1, ClampBetween
<1>4. alt \in 0..MaxAlt(k) /\ (m.alt \in 0..MaxAlt(k) => alt = m.alt)
  <2> DEFINE hi == MaxAlt(k)
  <2>1. hi \in Int /\ 0 <= hi BY SMT DEF MaxAlt
  <2> HIDE DEF hi
  <2>2. PICK lo \in Int : lo = 0 OBVIOUS
  <2>3. ClampInt64(m.alt, lo, hi) \in lo..hi
        /\ (m.alt \in lo..hi => ClampInt64(m.alt, lo, hi) = m.alt)
    BY <1>1, <2>1, <2>2, ClampBetween
  <2> QED BY <2>2, <2>3 DEF hi
<1>5. /\ m.course # Hair => course \in 0..(FullCircle - 1)
      /\ m.course = Hair => course = FullCircle
      /\ m.course \in 0..(FullCircle - 1) => course = m.course
  BY <1>1, WrapBetween
<1>6. Clamped(k, m) = [m EXCEPT !.lat = lat, !.lon = lon, !.alt = alt, !.course = course]
  BY DEF Clamped
<1>7. lat \in Int /\ lon \in Int /\ alt \in Int /\ course \in Int
  <2>1. MaxLat \in Int /\ MaxLon \in Int /\ MaxAlt(k) \in Int /\ FullCircle \in Int
    BY SMT DEF MaxLat, MaxLon, MaxAlt, FullCircle
  <2> HIDE DEF lat, lon, alt, course
  <2> QED BY <1>2, <1>3, <1>4, <1>5, <2>1
<1> HIDE DEF lat, lon, alt, course
<1>8. /\ Clamped(k, m) \in MessageTypes /\ Clamped(k, m).lat = lat /\ Clamped(k, m).lon = lon
      /\ Clamped(k, m).alt = alt /\ Clamped(k, m).course = course
  BY <1>6, <1>7 DEF MessageTypes, Courses
<1>9. lat = m.lat /\ lon = m.lon /\ alt = m.alt /\ course = m.course => Clamped(k, m) = m
  <2>1. ASSUME lat = m.lat, lon = m.lon, alt = m.alt, course = m.course
        PROVE  Clamped(k, m) = m
    <3>1. Clamped(k, m) = [m EXCEPT !.lat = m.lat, !.lon = m.lon, !.alt = m.alt,
                                    !.course = m.course]
      BY <1>6, <2>1, Zenon
    <3>2. [m EXCEPT !.lat = m.lat, !.lon = m.lon, !.alt = m.alt, !.course = m.course] = m
      <4> DEFINE Ids == {r.id : r \in Reports} \union {DefaultReport(j).id : j \in Kinds}
      <4>1. m \in [id : Ids, lat : Int, lon : Int, alt : Int, course : Courses, speed : Int,
                   time : Clock, platform : {"", "air", "surface", "subsurface", "land"},
                   valid : {TRUE}]
        BY Zenon DEF MessageTypes
      <4> HIDE DEF Ids
      <4> QED BY <4>1
    <3> QED BY <3>1, <3>2, Zenon
  <2> QED BY <2>1
<1> QED BY <1>2, <1>3, <1>4, <1>5, <1>8, <1>9

(* A node that adds nothing leaves the context as it is. *)
LEMMA MergedNothing ==
  ASSUME Continue(<<>>)
  PROVE  \A f, v : Holding(f, v) => f \in DOMAIN data' /\ data'[f] = v
<1>1. DOMAIN data' = DOMAIN data \union DOMAIN <<>>
  BY Merged, Zenon
<1>2. \A f \in DOMAIN data \ DOMAIN <<>> : data'[f] = data[f]
  BY Merged, Zenon
<1> QED BY <1>1, <1>2, EmptyDomain, Zenon DEF Holding

(* Init Data starts T1 with a message, unchanged so far. *)
LEMMA InitDataKeeps ==
  ASSUME StagesInv, stage = "prepare_send", step = 1, NEW now \in Clock, InitData(now)
  PROVE  StagesInv'
<1>1. kind \in Kinds /\ kind' = kind /\ stage' = "prepare_send" /\ Continue(<<>>)
  BY Merged DEF StagesInv, MessagesOK, InitData
<1>2. step' = 2
  <2>1. Straight(Steps[1]) /\ Len(Steps) = 4 BY <1>1, PrepareSteps
  <2>2. step' = IF 1 = 4 THEN 0 ELSE 1 + 1 BY <1>1, <2>1, StraightStep
  <2> QED BY <2>2
<1>3. message' \in MessageTypes /\ original' = message'
  <2>1. PICK r \in Reports \union {NoMessage} : data.report = r
    BY DEF StagesInv, PrepareInv, Holding
  <2>2. CASE r = NoMessage
    <3>1. message' = Message(DefaultReport(kind), "air", now) BY <2>1, <2>2 DEF InitData
    <3> QED BY <1>1, <3>1, MessageTyped DEF InitData, PlatformNames
  <2>3. CASE r # NoMessage
    <3>1. PICK p \in PlatformNames : p = IF kind = "J2.2" THEN "" ELSE "air"
      BY DEF PlatformNames
    <3>2. message' = Message(r, p, now) BY <2>1, <2>3, <3>1 DEF InitData
    <3>3. Message(r, p, now) \in MessageTypes BY <1>1, <2>3, MessageTyped
    <3> QED BY <3>2, <3>3 DEF InitData
  <2> QED BY <2>2, <2>3
<1>4. message' # NoMessage BY <1>3, NoMessageAssumption
<1>5. MessagesOK' BY <1>1, <1>3, <1>4 DEF MessagesOK
<1>6. PrepareInv' BY <1>2, <1>3, <1>4 DEF PrepareInv
<1> QED BY <1>1, <1>5, <1>6 DEF StagesInv

(* Classify gives the message its platform. *)
LEMMA ClassifyKeeps ==
  ASSUME StagesInv, stage = "prepare_send", step = 2, Classify
  PROVE  StagesInv'
<1>1. kind \in Kinds /\ kind' = kind /\ stage' = "prepare_send" /\ Continue(<<>>)
  BY Merged DEF StagesInv, MessagesOK, Classify
<1>2. step' = 3
  <2>1. Straight(Steps[2]) /\ Len(Steps) = 4 BY <1>1, PrepareSteps
  <2>2. step' = IF 2 = 4 THEN 0 ELSE 2 + 1 BY <1>1, <2>1, StraightStep
  <2> QED BY <2>2
<1>3. message = original /\ message \in MessageTypes
  BY DEF StagesInv, PrepareInv, MessagesOK
<1>4. message' = Classified(kind, original) /\ original' = original
  BY <1>3 DEF Classify, Classified
<1>5. message' \in MessageTypes BY <1>1, <1>3, <1>4, ClassifiedTyped
<1>6. message' # NoMessage /\ original' # NoMessage
  BY <1>3, <1>4, <1>5, NoMessageAssumption
<1>7. MessagesOK' BY <1>1, <1>3, <1>4, <1>5, <1>6 DEF MessagesOK
<1>8. PrepareInv'
  <2>1. Classified(kind, original)' = Classified(kind, original)
    BY <1>1, <1>4 DEF Classified
  <2> QED BY <1>2, <1>4, <1>6, <2>1 DEF PrepareInv
<1> QED BY <1>1, <1>7, <1>8 DEF StagesInv

(* Encode leaves the payload in the context. *)
LEMMA EncodeKeeps ==
  ASSUME StagesInv, stage = "prepare_send", step = 3, Encode
  PROVE  StagesInv'
<1> DEFINE output == [j22 |-> EncodeJ22(message)]
<1>1. kind \in Kinds /\ UNCHANGED <<message, original>>
      /\ \/ kind = "J2.2" /\ Continue(output)
         \/ kind = "J3.2" /\ Continue(<<>>)
  BY DEF StagesInv, MessagesOK, Encode
<1>2. PICK out : Continue(out) /\ (kind = "J2.2" => out = output)
  BY <1>1
<1>3. kind' = kind /\ stage' = "prepare_send" BY <1>2, Merged
<1>4. step' = 4
  <2>1. Straight(Steps[3]) /\ Len(Steps) = 4 BY <1>1, PrepareSteps
  <2>2. step' = IF 3 = 4 THEN 0 ELSE 3 + 1 BY <1>2, <2>1, StraightStep
  <2> QED BY <2>2
<1>5. message # NoMessage /\ message = Classified(kind, original)
  BY DEF StagesInv, PrepareInv
<1>6. kind = "J2.2" => "j22" \in DOMAIN data' /\ data'["j22"] = EncodeJ22(message)
  <2>1. DOMAIN output = {"j22"} /\ output["j22"] = EncodeJ22(message) OBVIOUS
  <2> HIDE DEF output
  <2> QED BY <1>2, <2>1, Merged
<1>7. MessagesOK' BY <1>1, <1>3 DEF StagesInv, MessagesOK
<1>8. PrepareInv'
  <2>1. Classified(kind, original)' = Classified(kind, original)
        /\ EncodeJ22(message)' = EncodeJ22(message)
    BY <1>1, <1>3 DEF Classified
  <2> QED BY <1>1, <1>3, <1>4, <1>5, <1>6, <2>1 DEF PrepareInv, Holding
<1> QED BY <1>3, <1>7, <1>8 DEF StagesInv

(* Validate ends T1 with what is wrong with the message. *)
LEMMA ValidateKeeps ==
  ASSUME StagesInv, stage = "prepare_send", step = 4, ValidateMessage
  PROVE  StagesInv'
<1> DEFINE output == [errors |-> Errors(kind, message)]
<1>1. kind \in Kinds /\ UNCHANGED <<message, original>> /\ Continue(output)
  BY DEF StagesInv, MessagesOK, ValidateMessage
<1>3. kind' = kind /\ stage' = "prepare_send" BY <1>1, Merged
<1>4. step' = 0
  <2>1. Straight(Steps[4]) /\ Len(Steps) = 4 BY <1>1, PrepareSteps
  <2>2. step' = IF 4 = 4 THEN 0 ELSE 4 + 1 BY <1>1, <2>1, StraightStep
  <2> QED BY <2>2
<1>5. /\ message # NoMessage /\ message = Classified(kind, original)
      /\ kind = "J2.2" => Holding("j22", EncodeJ22(message))
  BY DEF StagesInv, PrepareInv
<1>6. /\ "errors" \in DOMAIN data' /\ data'["errors"] = Errors(kind, message)
      /\ \A v : Holding("j22", v) => "j22" \in DOMAIN data' /\ data'["j22"] = v
  <2>1. DOMAIN output = {"errors"} /\ output["errors"] = Errors(kind, message) OBVIOUS
  <2> HIDE DEF output
  <2> QED BY <1>1, <2>1, Merged DEF Holding
<1>7. MessagesOK' BY <1>1, <1>3 DEF StagesInv, MessagesOK
<1>8. PrepareInv'
  <2>1. Classified(kind, original)' = Classified(kind, original)
        /\ EncodeJ22(message)' = EncodeJ22(message)
        /\ Errors(kind, message)' = Errors(kind, message)
    BY <1>1, <1>3 DEF Classified
  <2>2. kind' = "J2.2" => Holding("j22", EncodeJ22(message))'
    BY <1>3, <1>5, <1>6, <2>1 DEF Holding
  <2>3. Holding("errors", Errors(kind, message))' BY <1>6, <2>1 DEF Holding
  <2>4. message' # NoMessage /\ message' = Classified(kind, original)' BY <1>1, <1>5, <2>1
  <2> QED BY <1>4, <2>2, <2>3, <2>4 DEF PrepareInv
<1> QED BY <1>3, <1>7, <1>8 DEF StagesInv

(* The fields a node does not set keep their values. *)
LEMMA FieldsKept ==
  ASSUME NEW output, Continue(output), NEW f, f \notin DOMAIN output
  PROVE  /\ f \in DOMAIN data' <=> f \in DOMAIN data
         /\ \A v : Holding(f, v) => Holding(f, v)'
<1>1. f \in DOMAIN data' <=> f \in DOMAIN data BY Merged
<1>2. f \in DOMAIN data => data'[f] = data[f] BY Merged
<1> QED BY <1>1, <1>2 DEF Holding

(* check_send_condition lets a message pass unless it is denied. *)
LEMMA CheckSendKeeps ==
  ASSUME StagesInv, stage = "send", step = 1, CheckSendCondition
  PROVE  StagesInv'
<1>0. PICK b \in BOOLEAN : Holding("force_deny", b) BY DEF StagesInv, SendInv
<1> DEFINE output == [can_send |-> Flag(~b)]
<1>1. UNCHANGED <<message, original>> /\ Continue(output)
  BY <1>0 DEF CheckSendCondition, Holding
<1>2. kind' = kind /\ stage' = "send" BY <1>1, Merged
<1>3. step' = IF ~b THEN 2 ELSE 0 BY <1>1, SendRoutes
<1>4. message = NoMessage /\ "transmitted" \notin DOMAIN data BY DEF StagesInv, SendInv
<1>5. DOMAIN output = {"can_send"} OBVIOUS
<1>6. Holding("force_deny", b)' /\ "transmitted" \notin DOMAIN data'
  <2> HIDE DEF output
  <2> QED BY <1>0, <1>1, <1>4, <1>5, FieldsKept
<1>7. MessagesOK' BY <1>1, <1>2 DEF StagesInv, MessagesOK
<1>8. data'["force_deny"] = b BY <1>6 DEF Holding
<1>9. step' \in {0, 2} /\ (step' = 0 <=> b) BY <1>3
<1>10. \E c \in BOOLEAN : Holding("force_deny", c)' BY <1>6
<1>11. SendInv' BY <1>1, <1>4, <1>6, <1>8, <1>9, <1>10 DEF SendInv
<1> QED BY <1>2, <1>7, <1>11 DEF StagesInv

(* assign_npg_slot assigns NPG 6. *)
LEMMA AssignKeeps ==
  ASSUME StagesInv, stage = "send", step = 2, AssignNPGSlot
  PROVE  StagesInv'
<1>0. PICK b \in BOOLEAN : Holding("force_deny", b) BY DEF StagesInv, SendInv
<1> DEFINE output == [npg_number |-> 6, assigned |-> TRUE]
<1>1. UNCHANGED <<message, original>> /\ Continue(output) BY DEF AssignNPGSlot
<1>2. kind' = kind /\ stage' = "send" BY <1>1, Merged
<1>3. step' = 3
  <2>1. Straight(Steps[2]) /\ Len(Steps) = 3 BY SendSteps
  <2>2. step' = IF 2 = 3 THEN 0 ELSE 2 + 1 BY <1>1, <2>1, StraightStep
  <2> QED BY <2>2
<1>4. message = NoMessage /\ "transmitted" \notin DOMAIN data /\ ~b
  BY <1>0 DEF StagesInv, SendInv, Holding
<1>5. DOMAIN output = {"npg_number", "assigned"} /\ output["npg_number"] = 6 OBVIOUS
<1>6. /\ Holding("force_deny", b)' /\ "transmitted" \notin DOMAIN data'
      /\ Holding("npg_number", 6)' /\ "assigned" \in DOMAIN data'
  <2> HIDE DEF output
  <2>1. Holding("force_deny", b)' /\ "transmitted" \notin DOMAIN data'
    BY <1>0, <1>1, <1>4, <1>5, FieldsKept
  <2>2. "npg_number" \in DOMAIN data' /\ data'["npg_number"] = 6 /\ "assigned" \in DOMAIN data'
    BY <1>1, <1>5, Merged
  <2> QED BY <2>1, <2>2 DEF Holding
<1>7. MessagesOK' BY <1>1, <1>2 DEF StagesInv, MessagesOK
<1>8. ~data'["force_deny"] BY <1>4, <1>6 DEF Holding
<1>9. \E c \in BOOLEAN : Holding("force_deny", c)' BY <1>6
<1>10. SendInv' BY <1>1, <1>3, <1>4, <1>6, <1>8, <1>9 DEF SendInv
<1> QED BY <1>2, <1>7, <1>10 DEF StagesInv

(* transmit sends on the NPG that was assigned. *)
LEMMA TransmitKeeps ==
  ASSUME StagesInv, stage = "send", step = 3, Transmit
  PROVE  StagesInv'
<1>0. PICK b \in BOOLEAN : Holding("force_deny", b) BY DEF StagesInv, SendInv
<1> DEFINE output == [transmitted |-> 6]
<1>1. UNCHANGED <<message, original>> /\ Continue(output)
  BY DEF Transmit, StagesInv, SendInv, Holding
<1>2. kind' = kind /\ stage' = "send" BY <1>1, Merged
<1>3. step' = 0
  <2>1. Straight(Steps[3]) /\ Len(Steps) = 3 BY SendSteps
  <2>2. step' = IF 3 = 3 THEN 0 ELSE 3 + 1 BY <1>1, <2>1, StraightStep
  <2> QED BY <2>2
<1>4. message = NoMessage /\ "assigned" \in DOMAIN data /\ ~b
  BY <1>0 DEF StagesInv, SendInv, Holding
<1>5. DOMAIN output = {"transmitted"} /\ output["transmitted"] = 6 OBVIOUS
<1>6. /\ Holding("force_deny", b)' /\ Holding("transmitted", 6)'
      /\ "assigned" \in DOMAIN data'
  <2> HIDE DEF output
  <2>1. Holding("force_deny", b)' /\ "assigned" \in DOMAIN data'
    BY <1>0, <1>1, <1>4, <1>5, FieldsKept
  <2>2. "transmitted" \in DOMAIN data' /\ data'["transmitted"] = 6
    BY <1>1, <1>5, Merged
  <2> QED BY <2>1, <2>2 DEF Holding
<1>7. MessagesOK' BY <1>1, <1>2 DEF StagesInv, MessagesOK
<1>8. ~data'["force_deny"] BY <1>4, <1>6 DEF Holding
<1>9. \E c \in BOOLEAN : Holding("force_deny", c)' BY <1>6
<1>10. SendInv' BY <1>1, <1>3, <1>4, <1>6, <1>8, <1>9 DEF SendInv
<1> QED BY <1>2, <1>7, <1>10 DEF StagesInv

(* detect_anomaly notes what is wrong with the caller's message. *)
LEMMA DetectKeeps ==
  ASSUME StagesInv, stage = "special_process", step = 1, DetectAnomaly
  PROVE  StagesInv'
<1> DEFINE anomaly == Anomaly(kind, original)
           output  == [anomaly_type |-> anomaly]
<1>1. /\ kind \in Kinds /\ message = original /\ "clamped" \notin DOMAIN data
      /\ UNCHANGED <<message, original>> /\ Continue(output)
  BY DEF DetectAnomaly, StagesInv, SpecialInv, MessagesOK
<1>2. kind' = kind /\ stage' = "special_process" BY <1>1, Merged
<1>3. step' = 2
  <2>1. Straight(Steps[1]) /\ Len(Steps) = 4 BY <1>1, SpecialSteps
  <2>2. step' = IF 1 = 4 THEN 0 ELSE 1 + 1 BY <1>1, <2>1, StraightStep
  <2> QED BY <2>2
<1>4. DOMAIN output = {"anomaly_type"} /\ output["anomaly_type"] = anomaly OBVIOUS
<1>5. "clamped" \notin DOMAIN data' /\ Holding("anomaly_type", anomaly)'
  <2>1. anomaly' = anomaly BY <1>1, <1>2
  <2> HIDE DEF output, anomaly
  <2>2. "clamped" \notin DOMAIN data' BY <1>1, <1>4, FieldsKept
  <2>3. "anomaly_type" \in DOMAIN data' /\ data'["anomaly_type"] = anomaly
    BY <1>1, <1>4, Merged
  <2> QED BY <2>1, <2>2, <2>3 DEF Holding
<1>6. MessagesOK' BY <1>1, <1>2 DEF StagesInv, MessagesOK
<1>7. SpecialInv' BY <1>1, <1>3, <1>5 DEF SpecialInv
<1> QED BY <1>2, <1>6, <1>7 DEF StagesInv

(* resolve_conflict reports the anomaly as the conflict. *)
LEMMA ResolveKeeps ==
  ASSUME StagesInv, stage = "special_process", step = 2, ResolveConflict
  PROVE  StagesInv'
<1> DEFINE anomaly == Anomaly(kind, original)
           output  == [conflict_type |-> anomaly]
<1>1. /\ kind \in Kinds /\ message = original /\ "clamped" \notin DOMAIN data
      /\ UNCHANGED <<message, original>> /\ Continue(output)
      /\ Holding("anomaly_type", anomaly)
  BY DEF ResolveConflict, StagesInv, SpecialInv, MessagesOK, Holding
<1>2. kind' = kind /\ stage' = "special_process" BY <1>1, Merged
<1>3. step' = 3
  <2>1. Straight(Steps[2]) /\ Len(Steps) = 4 BY <1>1, SpecialSteps
  <2>2. step' = IF 2 = 4 THEN 0 ELSE 2 + 1 BY <1>1, <2>1, StraightStep
  <2> QED BY <2>2
<1>4. DOMAIN output = {"conflict_type"} /\ output["conflict_type"] = anomaly OBVIOUS
<1>5. /\ "clamped" \notin DOMAIN data'
      /\ Holding("anomaly_type", anomaly)' /\ Holding("conflict_type", anomaly)'
  <2>1. anomaly' = anomaly BY <1>1, <1>2
  <2> HIDE DEF output, anomaly
  <2>2. "clamped" \notin DOMAIN data' BY <1>1, <1>4, FieldsKept
  <2>3. "conflict_type" \in DOMAIN data' /\ data'["conflict_type"] = anomaly
    BY <1>1, <1>4, Merged
  <2>4. "anomaly_type" \in DOMAIN data' /\ data'["anomaly_type"] = anomaly
    BY <1>1, <1>4, Merged DEF Holding
  <2> QED BY <2>1, <2>2, <2>3, <2>4 DEF Holding
<1>6. MessagesOK' BY <1>1, <1>2 DEF StagesInv, MessagesOK
<1>7. SpecialInv' BY <1>1, <1>3, <1>5 DEF SpecialInv
<1> QED BY <1>2, <1>6, <1>7 DEF StagesInv

(* clamp_field brings the message into range, if there is one. *)
LEMMA ClampKeeps ==
  ASSUME StagesInv, stage = "special_process", step = 3, ClampField
  PROVE  StagesInv'
<1> DEFINE anomaly == Anomaly(kind, original)
           output  == [clamped |-> TRUE]
<1>1. /\ kind \in Kinds /\ message = original /\ "clamped" \notin DOMAIN data
      /\ original' = original
      /\ Holding("anomaly_type", anomaly) /\ Holding("conflict_type", anomaly)
  BY DEF ClampField, StagesInv, SpecialInv, MessagesOK
<1>2. Straight(Steps[3]) /\ Len(Steps) = 4 BY <1>1, SpecialSteps
<1>3. CASE message = NoMessage
  <2>1. UNCHANGED <<message, kind, stage, data>> /\ Goto(3 + 1)
    BY <1>3 DEF ClampField, Skip
  <2>2. step' = 4 BY <1>2, <2>1 DEF Goto
  <2>3. MessagesOK' BY <1>1, <2>1 DEF StagesInv, MessagesOK
  <2>4. Holding("anomaly_type", anomaly)' /\ Holding("conflict_type", anomaly)'
    BY <1>1, <2>1 DEF Holding
  <2>5. SpecialInv' BY <1>1, <1>3, <2>1, <2>2, <2>4 DEF SpecialInv
  <2> QED BY <2>1, <2>3, <2>5 DEF StagesInv
<1>4. CASE message # NoMessage
  <2>1. message' = Clamped(kind, message) /\ Continue(output)
    BY <1>4 DEF ClampField, Clamped
  <2>2. kind' = kind /\ stage' = "special_process" BY <2>1, Merged
  <2>3. step' = 4
    <3>1. step' = IF 3 = 4 THEN 0 ELSE 3 + 1 BY <1>2, <2>1, StraightStep
    <3> QED BY <3>1
  <2>4. message \in MessageTypes BY <1>4 DEF StagesInv, MessagesOK
  <2>5. message' \in MessageTypes BY <1>1, <2>1, <2>4, ClampedTyped
  <2>6. message' # NoMessage BY <2>5, NoMessageAssumption
  <2>7. MessagesOK' BY <1>1, <1>4, <2>2, <2>5, <2>6 DEF StagesInv, MessagesOK
  <2>8. DOMAIN output = {"clamped"} OBVIOUS
  <2>9. /\ "clamped" \in DOMAIN data'
        /\ Holding("anomaly_type", anomaly)' /\ Holding("conflict_type", anomaly)'
    <3>1. anomaly' = anomaly BY <1>1, <2>2
    <3> HIDE DEF output, anomaly
    <3>2. "clamped" \in DOMAIN data' BY <2>1, <2>8, Merged
    <3>3. "conflict_type" \in DOMAIN data' /\ data'["conflict_type"] = anomaly
      BY <1>1, <2>1, <2>8, Merged DEF Holding
    <3>4. "anomaly_type" \in DOMAIN data' /\ data'["anomaly_type"] = anomaly
      BY <1>1, <2>1, <2>8, Merged DEF Holding
    <3> QED BY <3>1, <3>2, <3>3, <3>4 DEF Holding
  <2>10. message' = Clamped(kind, original)'
    <3>1. Clamped(kind, original)' = Clamped(kind, original) BY <1>1, <2>2 DEF Clamped
    <3> QED BY <1>1, <2>1, <3>1
  <2>11. SpecialInv' BY <2>3, <2>6, <2>9, <2>10 DEF SpecialInv
  <2> QED BY <2>2, <2>7, <2>11 DEF StagesInv
<1> QED BY <1>3, <1>4

(* log_result ends T5. *)
LEMMA LogKeeps ==
  ASSUME StagesInv, stage = "special_process", step = 4, LogResult
  PROVE  StagesInv'
<1> DEFINE anomaly == Anomaly(kind, original)
           output  == [logged |-> TRUE]
<1>1. /\ kind \in Kinds /\ UNCHANGED <<message, original>> /\ Continue(output)
      /\ Holding("anomaly_type", anomaly) /\ Holding("conflict_type", anomaly)
      /\ "clamped" \in DOMAIN data <=> message # NoMessage
      /\ message # NoMessage => message = Clamped(kind, original)
  BY DEF LogResult, StagesInv, SpecialInv, MessagesOK
<1>2. kind' = kind /\ stage' = "special_process" BY <1>1, Merged
<1>3. step' = 0
  <2>1. Straight(Steps[4]) /\ Len(Steps) = 4 BY <1>1, SpecialSteps
  <2>2. step' = IF 4 = 4 THEN 0 ELSE 4 + 1 BY <1>1, <2>1, StraightStep
  <2> QED BY <2>2
<1>4. DOMAIN output = {"logged"} OBVIOUS
<1>5. /\ "logged" \in DOMAIN data'
      /\ "clamped" \in DOMAIN data' <=> "clamped" \in DOMAIN data
      /\ Holding("anomaly_type", anomaly)' /\ Holding("conflict_type", anomaly)'
  <2>1. anomaly' = anomaly BY <1>1, <1>2
  <2> HIDE DEF output, anomaly
  <2>2. /\ "logged" \in DOMAIN data'
        /\ "clamped" \in DOMAIN data' <=> "clamped" \in DOMAIN data
    BY <1>1, <1>4, Merged
  <2>3. "conflict_type" \in DOMAIN data' /\ data'["conflict_type"] = anomaly
    BY <1>1, <1>4, Merged DEF Holding
  <2>4. "anomaly_type" \in DOMAIN data' /\ data'["anomaly_type"] = anomaly
    BY <1>1, <1>4, Merged DEF Holding
  <2> QED BY <2>1, <2>2, <2>3, <2>4 DEF Holding
<1>6. MessagesOK' BY <1>1, <1>2 DEF StagesInv, MessagesOK
<1>7. Clamped(kind, original)' = Clamped(kind, original) BY <1>1, <1>2 DEF Clamped
<1>8. SpecialInv' BY <1>1, <1>3, <1>5, <1>7 DEF SpecialInv
<1> QED BY <1>2, <1>6, <1>8 DEF StagesInv

(* The program starts in a state of the invariant. *)
LEMMA StagesInit == Init => StagesInv
BY DEF Init, StagesInv, MessagesOK, Kinds

(* A caller that starts a stage leaves the invariant true. *)
LEMMA StartKeeps ==
  ASSUME StagesInv, NEW k \in Kinds,
         \/ \E r \in Reports \union {NoMessage} : StartPrepare(k, r)
         \/ \E npg : \E deny \in BOOLEAN : StartSend(k, npg, deny)
         \/ \E claim : \/ StartSpecial(k, NoMessage, claim)
                       \/ \E r \in Reports, now \in Clock :
                            StartSpecial(k, Message(r, "air", now), claim)
  PROVE  StagesInv'
<1>1. ASSUME NEW r \in Reports \union {NoMessage}, StartPrepare(k, r) PROVE StagesInv'
  <2> DEFINE fields == [report |-> r]
  <2>1. /\ kind' = k /\ stage' = "prepare_send" /\ step' = 1 /\ message' = NoMessage
        /\ original' = NoMessage /\ data' = fields
    BY <1>1 DEF StartPrepare, Start
  <2>2. "report" \in DOMAIN fields /\ fields["report"] = r OBVIOUS
  <2> HIDE DEF fields
  <2>3. "report" \in DOMAIN data' /\ data'["report"] = r BY <2>1, <2>2
  <2>4. PrepareInv' BY <2>1, <2>3 DEF PrepareInv, Holding
  <2> QED BY <2>1, <2>4 DEF StagesInv, MessagesOK
<1>2. ASSUME NEW npg, NEW deny \in BOOLEAN, StartSend(k, npg, deny) PROVE StagesInv'
  <2> DEFINE fields == [npg_number |-> npg, force_deny |-> deny]
  <2>1. /\ kind' = k /\ stage' = "send" /\ step' = 1 /\ message' = NoMessage
        /\ original' = NoMessage /\ data' = fields
    BY <1>2 DEF StartSend, Start
  <2>2. DOMAIN fields = {"npg_number", "force_deny"} /\ fields["force_deny"] = deny OBVIOUS
  <2> HIDE DEF fields
  <2>3. /\ "force_deny" \in DOMAIN data' /\ data'["force_deny"] = deny
        /\ "transmitted" \notin DOMAIN data'
    BY <2>1, <2>2
  <2>4. SendInv' BY <2>1, <2>3 DEF SendInv, Holding
  <2> QED BY <2>1, <2>4 DEF StagesInv, MessagesOK
<1>3. ASSUME NEW claim, NEW m, m = NoMessage \/ m \in MessageTypes,
             StartSpecial(k, m, claim)
      PROVE  StagesInv'
  <2> DEFINE fields == [anomaly_type |-> claim]
  <2>1. /\ kind' = k /\ stage' = "special_process" /\ step' = 1 /\ message' = m
        /\ original' = m /\ data' = fields
    BY <1>3 DEF StartSpecial, Start
  <2>2. DOMAIN fields = {"anomaly_type"} OBVIOUS
  <2> HIDE DEF fields
  <2>3. "clamped" \notin DOMAIN data' BY <2>1, <2>2
  <2>4. SpecialInv' BY <2>1, <2>3 DEF SpecialInv
  <2> QED BY <1>3, <2>1, <2>4 DEF StagesInv, MessagesOK
<1>4. \A r \in Reports, now \in Clock : Message(r, "air", now) \in MessageTypes
  BY MessageTyped DEF PlatformNames
<1> QED BY <1>1, <1>2, <1>3, <1>4

(* The nodes preserve the invariant. *)
LEMMA NodeKeeps ==
  ASSUME StagesInv, Node PROVE StagesInv'
<1>0. kind \in Kinds /\ stage \in {"none", "prepare_send", "send", "special_process"}
  BY DEF StagesInv, MessagesOK
<1>1. CASE stage = "prepare_send"
  <2>1. step \in 0..4 BY <1>1 DEF StagesInv, PrepareInv
  <2> QED BY <1>0, <1>1, <2>1, PrepareNode, InitDataKeeps, ClassifyKeeps, EncodeKeeps,
             ValidateKeeps
<1>2. CASE stage = "send"
  <2>1. step \in 0..3 BY <1>2 DEF StagesInv, SendInv
  <2> QED BY <1>2, <2>1, SendNode, CheckSendKeeps, AssignKeeps, TransmitKeeps
<1>3. CASE stage = "special_process"
  <2>1. step \in 0..4 BY <1>3 DEF StagesInv, SpecialInv
  <2> QED BY <1>0, <1>3, <2>1, SpecialNode, DetectKeeps, ResolveKeeps, ClampKeeps, LogKeeps
<1>4. CASE stage = "none"
  <2>1. step # 0 BY NodeRole DEF At
  <2> QED BY <1>4, <2>1 DEF StagesInv
<1> QED BY <1>0, <1>1, <1>2, <1>3, <1>4

(* What each stage knows at each of its steps. *)
THEOREM StagesInvariant == Spec => []StagesInv
<1>1. StagesInv /\ [Next]_vars => StagesInv'
  <2> SUFFICES ASSUME StagesInv, [Next]_vars PROVE StagesInv' OBVIOUS
  <2>1. CASE UNCHANGED vars
    BY <2>1 DEF vars, StagesInv, MessagesOK, PrepareInv, SendInv, SpecialInv, Holding,
                Classified, Clamped
  <2>2. CASE Node BY <2>2, NodeKeeps
  <2>3. CASE Next /\ ~Node
    <3>1. PICK k \in Kinds :
            \/ \E r \in Reports \union {NoMessage} : StartPrepare(k, r)
            \/ \E npg \in {0, 7}, deny \in BOOLEAN : StartSend(k, npg, deny)
            \/ \E claim \in {"", "track_id_conflict"} :
                 \/ StartSpecial(k, NoMessage, claim)
                 \/ \E r \in Reports, now \in Clock :
                      StartSpecial(k, Message(r, "air", now), claim)
      BY <2>3 DEF Next
    <3>2. CASE \E r \in Reports \union {NoMessage} : StartPrepare(k, r)
      BY <3>2, StartKeeps
    <3>3. CASE \E npg \in {0, 7}, deny \in BOOLEAN : StartSend(k, npg, deny)
      <4>1. \E npg : \E deny \in BOOLEAN : StartSend(k, npg, deny) BY <3>3
      <4> QED BY <4>1, StartKeeps
    <3>4. CASE \E claim : \/ StartSpecial(k, NoMessage, claim)
                          \/ \E r \in Reports, now \in Clock :
                               StartSpecial(k, Message(r, "air", now), claim)
      BY <3>4, StartKeeps
    <3> QED BY <3>1, <3>2, <3>3, <3>4
  <2> QED BY <2>1, <2>2, <2>3
<1> QED BY <1>1, StagesInit, PTL DEF Spec

(* Every reachable state is well typed. *)
THEOREM StagesTyped == Spec => []TypeOK
<1>1. StagesInv => TypeOK
  <2> SUFFICES ASSUME StagesInv PROVE TypeOK OBVIOUS
  <2>1. step = 0 \/ step \in DOMAIN Steps
    <3>1. CASE stage = "prepare_send"
      <4>1. step \in 0..4 BY <3>1 DEF StagesInv, PrepareInv
      <4>2. DOMAIN Steps = 1..4 BY <3>1, PrepareSteps DEF StagesInv, MessagesOK
      <4> QED BY <4>1, <4>2
    <3>2. CASE stage = "send"
      <4>1. step \in 0..3 BY <3>2 DEF StagesInv, SendInv
      <4>2. DOMAIN Steps = 1..3 BY <3>2, SendSteps
      <4> QED BY <4>1, <4>2
    <3>3. CASE stage = "special_process"
      <4>1. step \in 0..4 BY <3>3 DEF StagesInv, SpecialInv
      <4>2. DOMAIN Steps = 1..4 BY <3>3, SpecialSteps DEF StagesInv, MessagesOK
      <4> QED BY <4>1, <4>2
    <3> QED BY <3>1, <3>2, <3>3 DEF StagesInv, MessagesOK
  <2> QED BY <2>1 DEF StagesInv, MessagesOK, TypeOK
<1> QED BY <1>1, StagesInvariant, PTL

(* T2 transmits unless it is denied, and on the NPG it assigned. *)
THEOREM TransmitsUnlessDenied == Spec => []TransmittedUnlessDenied
<1>1. StagesInv => TransmittedUnlessDenied
  BY DEF StagesInv, SendInv, Holding, TransmittedUnlessDenied, Ended
<1> QED BY <1>1, StagesInvariant, PTL

(* Whatever the message, the routed T5 does what T5SpecialProcessing does. *)
THEOREM ClampsAlike == Spec => []ClampedAlike
<1>1. ASSUME NEW m \in MessageTypes PROVE Clamped("J2.2", m) = T5SpecialProcessing(m)
  BY SMT DEF Clamped, T5SpecialProcessing, ClampInt64, Wrap, MaxAlt
<1>2. StagesInv => ClampedAlike
  <2> SUFFICES ASSUME StagesInv, Ended("special_process"), kind = "J2.2", message # NoMessage
               PROVE  message = T5SpecialProcessing(original)
    BY DEF ClampedAlike
  <2>1. message = Clamped("J2.2", original) BY DEF StagesInv, SpecialInv, Ended
  <2>2. original \in MessageTypes BY DEF StagesInv, MessagesOK
  <2> QED BY <1>1, <2>1, <2>2
<1> QED BY <1>2, StagesInvariant, PTL

(* The part of the errors that is about one field.                          *)
FieldError(k, m, f) == IF OutOfRange(k, m, f) THEN <<f>> ELSE <<>>

(* The fields a validation looks at.                                        *)
FieldNames == {"latitude", "longitude", "altitude", "heading"}

(* Sequences of one text and of more. *)
LEMMA SmallSeqs ==
  ASSUME NEW S
  PROVE  /\ <<>> \in Seq(S)
         /\ \A x \in S : <<x>> \in Seq(S) /\ <<x>> # <<>> /\ Head(<<x>>) = x
         /\ \A s, t \in Seq(S) : s \o t \in Seq(S) /\ (s \o t = <<>> <=> s = <<>> /\ t = <<>>)
         /\ \A s \in Seq(S) : s \o <<>> = s /\ <<>> \o s = s
         /\ \A s, t, u \in Seq(S) : (s \o t) \o u = s \o (t \o u)
         /\ \A x \in S, s \in Seq(S) : Head(<<x>> \o s) = x
<1>1. <<>> \in Seq(S) OBVIOUS
<1>2. ASSUME NEW x \in S PROVE <<x>> \in Seq(S) /\ <<x>> # <<>> /\ Head(<<x>>) = x
  OBVIOUS
<1>3. ASSUME NEW s \in Seq(S), NEW t \in Seq(S)
      PROVE  s \o t \in Seq(S) /\ (s \o t = <<>> <=> s = <<>> /\ t = <<>>)
  OBVIOUS
<1>4. ASSUME NEW s \in Seq(S) PROVE s \o <<>> = s /\ <<>> \o s = s
  OBVIOUS
<1>5. ASSUME NEW s \in Seq(S), NEW t \in Seq(S), NEW u \in Seq(S)
      PROVE  (s \o t) \o u = s \o (t \o u)
  OBVIOUS
<1>6. ASSUME NEW x \in S, NEW s \in Seq(S) PROVE Head(<<x>> \o s) = x
  <2>1. (<<x>> \o s)[1] = x OBVIOUS
  <2>2. <<x>> \o s \in Seq(S) /\ <<x>> \o s # <<>> BY <1>2, <1>3
  <2> QED BY <2>1, <2>2
<1> QED BY <1>1, <1>2, <1>3, <1>4, <1>5, <1>6

(* A field contributes one error or none. *)
LEMMA OneError ==
  ASSUME NEW k, NEW m, NEW f \in FieldNames
  PROVE  /\ FieldError(k, m, f) \in Seq(FieldNames)
         /\ FieldError(k, m, f) = <<>> <=> ~OutOfRange(k, m, f)
         /\ FieldError(k, m, f) # <<>> => FieldError(k, m, f) = <<f>>
<1>1. <<f>> \in Seq(FieldNames) /\ <<f>> # <<>> /\ <<>> \in Seq(FieldNames)
  BY SmallSeqs
<1> QED BY <1>1, Zenon DEF FieldError

(* A message has no errors when its fields are in range. *)
LEMMA NoErrors ==
  ASSUME NEW k, NEW m
  PROVE  Errors(k, m) = <<>>
           <=> \A f \in {"latitude", "longitude", "altitude", "heading"} : ~OutOfRange(k, m, f)
<1> DEFINE a == FieldError(k, m, "latitude")
           b == FieldError(k, m, "longitude")
           c == FieldError(k, m, "altitude")
           d == FieldError(k, m, "heading")
<1>1. Errors(k, m) = a \o b \o c \o d
  BY DEF Errors, FieldError
<1>2. /\ a \in Seq(FieldNames) /\ (a = <<>> <=> ~OutOfRange(k, m, "latitude"))
      /\ b \in Seq(FieldNames) /\ (b = <<>> <=> ~OutOfRange(k, m, "longitude"))
      /\ c \in Seq(FieldNames) /\ (c = <<>> <=> ~OutOfRange(k, m, "altitude"))
      /\ d \in Seq(FieldNames) /\ (d = <<>> <=> ~OutOfRange(k, m, "heading"))
  <2>1. "latitude" \in FieldNames /\ "longitude" \in FieldNames
        /\ "altitude" \in FieldNames /\ "heading" \in FieldNames
    BY DEF FieldNames
  <2> QED BY <2>1, OneError
<1>3. \A s, t \in Seq(FieldNames) : s \o t \in Seq(FieldNames) /\ (s \o t = <<>> <=> s = <<>> /\ t = <<>>)
  BY SmallSeqs
<1> HIDE DEF a, b, c, d
<1>4. a \o b \in Seq(FieldNames) /\ a \o b \o c \in Seq(FieldNames) BY <1>2, <1>3
<1>5. Errors(k, m) = <<>> <=> a = <<>> /\ b = <<>> /\ c = <<>> /\ d = <<>>
  BY <1>1, <1>2, <1>3, <1>4
<1> QED BY <1>2, <1>5

(* The first error of a J2.2 message names its first field out of range. *)
LEMMA FirstError ==
  ASSUME NEW m
  PROVE  Errors("J2.2", m) # <<>> =>
           Head(Errors("J2.2", m)) = IF OutOfRange("J2.2", m, "latitude") THEN "latitude"
                                     ELSE IF OutOfRange("J2.2", m, "longitude")
                                     THEN "longitude" ELSE "altitude"
<1> DEFINE a == FieldError("J2.2", m, "latitude")
           b == FieldError("J2.2", m, "longitude")
           c == FieldError("J2.2", m, "altitude")
           d == FieldError("J2.2", m, "heading")
<1>1. Errors("J2.2", m) = a \o b \o c \o d
  BY DEF Errors, FieldError
<1>2. /\ a \in Seq(FieldNames) /\ b \in Seq(FieldNames) /\ c \in Seq(FieldNames) /\ d = <<>>
      /\ IF OutOfRange("J2.2", m, "latitude") THEN a = <<"latitude">> ELSE a = <<>>
      /\ IF OutOfRange("J2.2", m, "longitude") THEN b = <<"longitude">> ELSE b = <<>>
      /\ IF OutOfRange("J2.2", m, "altitude") THEN c = <<"altitude">> ELSE c = <<>>
  <2>1. ~OutOfRange("J2.2", m, "heading") BY Zenon DEF OutOfRange
  <2>2. "latitude" \in FieldNames /\ "longitude" \in FieldNames
        /\ "altitude" \in FieldNames /\ "heading" \in FieldNames
    BY DEF FieldNames
  <2>3. a \in Seq(FieldNames) /\ b \in Seq(FieldNames) /\ c \in Seq(FieldNames) /\ d = <<>>
    BY <2>1, <2>2, OneError
  <2>4. /\ IF OutOfRange("J2.2", m, "latitude") THEN a = <<"latitude">> ELSE a = <<>>
        /\ IF OutOfRange("J2.2", m, "longitude") THEN b = <<"longitude">> ELSE b = <<>>
        /\ IF OutOfRange("J2.2", m, "altitude") THEN c = <<"altitude">> ELSE c = <<>>
    BY Zenon DEF FieldError
  <2> QED BY <2>3, <2>4
<1> HIDE DEF a, b, c, d
<1>3. \A s \in Seq(FieldNames) : s \o <<>> = s /\ <<>> \o s = s BY SmallSeqs
<1>4. /\ \A s \in Seq(FieldNames) : /\ Head(<<"latitude">> \o s) = "latitude"
                                   /\ Head(<<"longitude">> \o s) = "longitude"
      /\ Head(<<"altitude">>) = "altitude"
  BY SmallSeqs DEF FieldNames
<1>5. b \o c \in Seq(FieldNames) /\ (a \o b) \o c = a \o (b \o c)
  <2>1. a \in Seq(FieldNames) /\ b \in Seq(FieldNames) /\ c \in Seq(FieldNames)
    BY <1>2, Zenon
  <2>2. b \o c \in Seq(FieldNames)
    BY <2>1, ConcatProperties, Zenon
  <2>3. (a \o b) \o c = a \o (b \o c)
    <3>1. \A s, t, u \in Seq(FieldNames) : (s \o t) \o u = s \o (t \o u)
      BY SmallSeqs, Zenon
    <3> QED BY <2>1, <3>1, Zenon
  <2> QED BY <2>2, <2>3, Zenon
<1>6. Errors("J2.2", m) = a \o (b \o c)
  <2>1. (a \o b) \o c \in Seq(FieldNames)
    <3>1. a \in Seq(FieldNames) BY <1>2, Zenon
    <3>2. a \o (b \o c) \in Seq(FieldNames)
      BY <1>5, <3>1, ConcatProperties, Zenon
    <3> QED BY <1>5, <3>2, Zenon
  <2>2. Errors("J2.2", m) = (a \o b) \o c BY <1>1, <1>2, <1>3, <2>1
  <2> QED BY <1>5, <2>2, Zenon
<1>7. CASE OutOfRange("J2.2", m, "latitude")
  BY <1>2, <1>4, <1>5, <1>6, <1>7
<1>8. CASE ~OutOfRange("J2.2", m, "latitude") /\ OutOfRange("J2.2", m, "longitude")
  <2>1. Errors("J2.2", m) = b \o c BY <1>2, <1>3, <1>5, <1>6, <1>8
  <2> QED BY <1>2, <1>4, <1>8, <2>1
<1>9. CASE /\ ~OutOfRange("J2.2", m, "latitude") /\ ~OutOfRange("J2.2", m, "longitude")
  <2>1. Errors("J2.2", m) = c BY <1>2, <1>3, <1>5, <1>6, <1>9
  <2> QED BY <1>2, <1>4, <1>9, <2>1
<1> QED BY <1>7, <1>8, <1>9

(* A number is outside an interval when it is below or above it. *)
LEMMA Outside ==
  ASSUME NEW v \in Int, NEW lo \in Int, NEW hi \in Int
  PROVE  v \notin lo..hi <=> v < lo \/ v > hi
OBVIOUS

(* The two ways of writing the platforms of J2.2. *)
LEMMA PlatformsAlike ==
  ASSUME NEW alt \in Int
  PROVE  PlatformOf("J2.2", alt) = IF alt > 100 /\ alt > 5000 THEN "air"
                                   ELSE IF alt > 100 THEN "surface" ELSE "land"
<1>1. CASE alt > 5000 BY <1>1, SMT DEF PlatformOf
<1>2. CASE alt > 100 /\ alt <= 5000 BY <1>2, SMT DEF PlatformOf
<1>3. CASE alt <= 100 BY <1>3, SMT DEF PlatformOf
<1> QED BY <1>1, <1>2, <1>3

(* Whatever the message, the routed T1 does what T1SendPreparation does. *)
THEOREM PreparesAlike == Spec => []PreparedAlike
<1>1. ASSUME NEW m \in MessageTypes
      PROVE  Classified("J2.2", m) = T1SendPreparation(m).message
  <2>1. m.alt \in Int BY DEF MessageTypes
  <2>2. PlatformOf("J2.2", m.alt) = IF m.alt > 100 /\ m.alt > 5000 THEN "air"
                                    ELSE IF m.alt > 100 THEN "surface" ELSE "land"
    BY <2>1, PlatformsAlike
  <2>3. T1SendPreparation(m).message = [m EXCEPT !.platform = PlatformOf("J2.2", m.alt)]
    BY <2>2 DEF T1SendPreparation
  <2> QED BY <2>3 DEF Classified
<1>2. ASSUME NEW m \in MessageTypes
      PROVE  T1SendPreparation(m).error =
               IF OutOfRange("J2.2", m, "latitude") THEN "latitude"
               ELSE IF OutOfRange("J2.2", m, "longitude") THEN "longitude"
               ELSE IF OutOfRange("J2.2", m, "altitude") THEN "altitude" ELSE "none"
  <2>1. m.lat \in Int /\ m.lon \in Int /\ m.alt \in Int BY DEF MessageTypes
  <2>2. OutOfRange("J2.2", m, "latitude") <=> m.lat < -MaxLat \/ m.lat > MaxLat
    <3>1. -MaxLat \in Int /\ MaxLat \in Int BY SMT DEF MaxLat
    <3>2. OutOfRange("J2.2", m, "latitude") <=> m.lat \notin -MaxLat..MaxLat BY DEF OutOfRange
    <3> QED BY <2>1, <3>1, <3>2, Outside
  <2>3. OutOfRange("J2.2", m, "longitude") <=> m.lon < -MaxLon \/ m.lon > MaxLon
    <3>1. -MaxLon \in Int /\ MaxLon \in Int BY SMT DEF MaxLon
    <3>2. OutOfRange("J2.2", m, "longitude") <=> m.lon \notin -MaxLon..MaxLon BY DEF OutOfRange
    <3> QED BY <2>1, <3>1, <3>2, Outside
  <2>4. OutOfRange("J2.2", m, "altitude") <=> m.alt < 0 \/ m.alt > 50000
    <3>1. PICK hi \in Int : hi = 50000 BY SMT
    <3>2. MaxAlt("J2.2") = hi BY <3>1, SMT DEF MaxAlt
    <3>3. OutOfRange("J2.2", m, "altitude") <=> m.alt \notin 0..hi BY <3>2 DEF OutOfRange
    <3>4. m.alt \notin 0..hi <=> m.alt < 0 \/ m.alt > hi BY <2>1, Outside
    <3>5. m.alt > hi <=> m.alt > 50000 BY <2>1, <3>1, SMT
    <3> QED BY <3>3, <3>4, <3>5
  <2> QED BY <2>2, <2>3, <2>4, SMT DEF T1SendPreparation
<1>3. ASSUME NEW m \in MessageTypes, NEW f \in FieldNames
      PROVE  OutOfRange("J2.2", Classified("J2.2", m), f) <=> OutOfRange("J2.2", m, f)
  <2>1. /\ Classified("J2.2", m).lat = m.lat /\ Classified("J2.2", m).lon = m.lon
        /\ Classified("J2.2", m).alt = m.alt
    BY DEF Classified, MessageTypes
  <2> QED BY <2>1, Zenon DEF OutOfRange
<1>4. ASSUME NEW m \in MessageTypes
      PROVE  LET e == Errors("J2.2", Classified("J2.2", m))
             IN T1SendPreparation(m).error = IF e = <<>> THEN "none" ELSE Head(e)
  <2> DEFINE c == Classified("J2.2", m)
             e == Errors("J2.2", c)
             out(f) == OutOfRange("J2.2", m, f)
  <2>1. /\ out("latitude") <=> OutOfRange("J2.2", c, "latitude")
        /\ out("longitude") <=> OutOfRange("J2.2", c, "longitude")
        /\ out("altitude") <=> OutOfRange("J2.2", c, "altitude")
        /\ ~OutOfRange("J2.2", c, "heading")
    <3>1. ~OutOfRange("J2.2", c, "heading") BY Zenon DEF OutOfRange
    <3> HIDE DEF c
    <3> QED BY <1>3, <3>1 DEF FieldNames, c
  <2>2. e = <<>> <=> ~out("latitude") /\ ~out("longitude") /\ ~out("altitude")
    <3> HIDE DEF c
    <3> QED BY <2>1, NoErrors
  <2>3. e # <<>> => Head(e) = IF out("latitude") THEN "latitude"
                              ELSE IF out("longitude") THEN "longitude" ELSE "altitude"
    <3> HIDE DEF c
    <3> QED BY <2>1, FirstError
  <2> QED BY <1>2, <2>2, <2>3
<1>5. StagesInv => PreparedAlike
  <2> SUFFICES ASSUME StagesInv, Ended("prepare_send"), kind = "J2.2"
               PROVE  /\ message = T1SendPreparation(original).message
                      /\ T1SendPreparation(original).error =
                           IF data.errors = <<>> THEN "none" ELSE Head(data.errors)
    BY DEF PreparedAlike
  <2>1. /\ message # NoMessage /\ message = Classified("J2.2", original)
        /\ data.errors = Errors("J2.2", message)
    BY DEF StagesInv, PrepareInv, Holding, Ended
  <2>2. original \in MessageTypes BY <2>1 DEF StagesInv, MessagesOK
  <2> QED BY <1>1, <1>4, <2>1, <2>2
<1> QED BY <1>5, StagesInvariant, PTL

(* In range is what lies between the limits. *)
LEMMA InRangeIs ==
  ASSUME NEW k \in Kinds, NEW m
  PROVE  InRange(k, m) <=> /\ m.lat \in -MaxLat..MaxLat /\ m.lon \in -MaxLon..MaxLon
                           /\ m.alt \in 0..MaxAlt(k) /\ m.course \in 0..(FullCircle - 1)
<1>1. ASSUME InRange(k, m)
      PROVE  /\ m.lat \in -MaxLat..MaxLat /\ m.lon \in -MaxLon..MaxLon
             /\ m.alt \in 0..MaxAlt(k) /\ m.course \in 0..(FullCircle - 1)
  <2>1. Errors(k, m) = <<>> /\ m.course \in 0..(FullCircle - 1) BY <1>1 DEF InRange
  <2>2. /\ ~OutOfRange(k, m, "latitude") /\ ~OutOfRange(k, m, "longitude")
        /\ ~OutOfRange(k, m, "altitude")
    BY <2>1, NoErrors
  <2> QED BY <2>1, <2>2, Zenon DEF OutOfRange
<1>2. ASSUME m.lat \in -MaxLat..MaxLat, m.lon \in -MaxLon..MaxLon,
             m.alt \in 0..MaxAlt(k), m.course \in 0..(FullCircle - 1)
      PROVE  InRange(k, m)
  <2>1. \A f : ~OutOfRange(k, m, f) BY <1>2, Zenon DEF OutOfRange
  <2> QED BY <1>2, <2>1, NoErrors DEF InRange
<1> QED BY <1>1, <1>2

(* An anomaly is found if and only if the altitude or a heading is wrong. *)
LEMMA AnomalyIs ==
  ASSUME NEW k, NEW m
  PROVE  Anomaly(k, m) # "" <=>
           /\ m # NoMessage
           /\ OutOfRange(k, m, "altitude") \/ OutOfRange(k, m, "heading")
BY DEF Anomaly

(* Whatever is wrong with the message, T5 repairs it, in a second run if    *)
(* the course was a hair below zero; it leaves the message alone if nothing *)
(* is; and it reports an anomaly if altitude or heading were wrong.         *)
THEOREM SpecialAlwaysRepairs == Spec => []SpecialRepairs
<1>1. StagesInv => SpecialRepairs
  <2> SUFFICES ASSUME StagesInv, Ended("special_process") PROVE SpecialRepairs
    BY DEF SpecialRepairs
  <2>1. /\ "logged" \in DOMAIN data
        /\ "clamped" \in DOMAIN data <=> message # NoMessage
        /\ data.anomaly_type = Anomaly(kind, original)
        /\ data.conflict_type = Anomaly(kind, original)
    BY DEF StagesInv, SpecialInv, Holding, Ended
  <2>2. ASSUME message # NoMessage
        PROVE  /\ IF original.course = Hair
                  THEN /\ message.course = FullCircle
                       /\ InRange(kind, [message EXCEPT !.course = 0])
                  ELSE InRange(kind, message)
               /\ InRange(kind, original) => message = original
               /\ InRange(kind, Clamped(kind, message))
    <3>1. message = Clamped(kind, original) /\ original \in MessageTypes /\ kind \in Kinds
      BY <2>2 DEF StagesInv, SpecialInv, MessagesOK, Ended
    <3>2. /\ message \in MessageTypes
          /\ message.lat \in -MaxLat..MaxLat /\ message.lon \in -MaxLon..MaxLon
          /\ message.alt \in 0..MaxAlt(kind)
          /\ original.course # Hair => message.course \in 0..(FullCircle - 1)
          /\ original.course = Hair => message.course = FullCircle
      BY <3>1, ClampedTyped
    <3>3. original.course # Hair => InRange(kind, message) BY <3>1, <3>2, InRangeIs
    <3>4. InRange(kind, [message EXCEPT !.course = 0])
      <4> DEFINE zeroed == [message EXCEPT !.course = 0]
      <4>1. /\ zeroed.lat = message.lat /\ zeroed.lon = message.lon
            /\ zeroed.alt = message.alt /\ zeroed.course = 0
        BY <3>2 DEF MessageTypes
      <4>2. 0 \in 0..(FullCircle - 1) BY DEF FullCircle
      <4> HIDE DEF zeroed
      <4>3. InRange(kind, zeroed) BY <3>1, <3>2, <4>1, <4>2, InRangeIs
      <4> QED BY <4>3 DEF zeroed
    <3>5. InRange(kind, original) => message = original BY <3>1, ClampedTyped, InRangeIs
    <3>6. message.course # Hair
      <4>1. FullCircle \in Int /\ 0..(FullCircle - 1) \subseteq Int BY DEF FullCircle
      <4> QED BY <3>2, <4>1, HairAssumption
    <3>7. InRange(kind, Clamped(kind, message)) BY <3>1, <3>2, <3>6, ClampedTyped, InRangeIs
    <3> QED BY <3>2, <3>3, <3>4, <3>5, <3>7
  <2>3. data.anomaly_type # "" <=>
          /\ original # NoMessage
          /\ OutOfRange(kind, original, "altitude") \/ OutOfRange(kind, original, "heading")
    BY <2>1, AnomalyIs
  <2> QED BY <2>1, <2>2, <2>3, Zenon DEF SpecialRepairs
<1> QED BY <1>1, StagesInvariant, PTL

(* DecodeJ22 rejects every payload that T1 produces once one bit of a word  *)
(* has changed.                                                             *)
THEOREM BitErrorsAlwaysDetected == Spec => []BitErrorsDetected
<1>1. StagesInv => BitErrorsDetected
  <2> SUFFICES ASSUME StagesInv, Ended("prepare_send"), kind = "J2.2",
                      NEW b \in 0..74
               PROVE  /\ Rejects([data.j22 EXCEPT !.iw = Flip(@, b)])
                      /\ Rejects([data.j22 EXCEPT !.e0 = Flip(@, b)])
    BY DEF BitErrorsDetected
  <2>1. data.j22 = EncodeJ22(message)
    BY DEF StagesInv, PrepareInv, Holding, Ended
  <2> QED BY <2>1, PayloadBitErrors
<1> QED BY <1>1, StagesInvariant, PTL

(* A platform has a byte that stands for it. *)
LEMMA PlatformBytes ==
  ASSUME NEW p \in {"air", "surface", "subsurface", "land"}
  PROVE  PlatformByte(p) \in 1..4 /\ PlatformFromByte(PlatformByte(p)) = p
<1>1. DOMAIN Platforms = 1..4 /\ Platforms[1] = "air" /\ Platforms[2] = "surface"
      /\ Platforms[3] = "subsurface" /\ Platforms[4] = "land"
  BY DEF Platforms
<1>2. \E k \in 1..4 : Platforms[k] = p BY <1>1
<1>3. PlatformByte(p) \in 1..4 /\ Platforms[PlatformByte(p)] = p
  BY <1>1, <1>2 DEF PlatformByte
<1> QED BY <1>3 DEF PlatformFromByte

(* Truncating a time to its second takes less than a second off it. *)
LEMMA WithinSecond ==
  ASSUME NEW t \in Nat
  PROVE  Unix(t) * TicksPerSecond \in (t - TicksPerSecond + 1)..t
<1>1. \A d \in Nat \ {0} : LET q == t \div d IN q \in Int /\ q * d <= t /\ t < q * d + d
  BY SMT
<1> DEFINE s == Unix(t) * TicksPerSecond
<1>2. TicksPerSecond \in Nat \ {0} BY TicksAssumption
<1>3. Unix(t) \in Int /\ s <= t /\ t < s + TicksPerSecond BY <1>1, <1>2 DEF Unix
<1>4. s \in Int BY <1>2, <1>3
<1> HIDE DEF s
<1>5. s \in (t - TicksPerSecond + 1)..t BY <1>2, <1>3, <1>4
<1> QED BY <1>5 DEF s

(* The context block of every payload T1 produces says what the message     *)
(* says.                                                                    *)
THEOREM ContextAlwaysFaithful ==
  Spec => [](Ended("prepare_send") /\ kind = "J2.2" => ContextFaithful)
<1>1. StagesInv => (Ended("prepare_send") /\ kind = "J2.2" => ContextFaithful)
  <2> SUFFICES ASSUME StagesInv, Ended("prepare_send"), kind = "J2.2"
               PROVE  ContextFaithful
    OBVIOUS
  <2> DEFINE p == EncodeJ22(message)
  <2>1. /\ data.j22 = p /\ message = Classified("J2.2", original)
        /\ message \in MessageTypes /\ original \in MessageTypes
    BY DEF StagesInv, PrepareInv, MessagesOK, Holding, Ended
  <2>2. message.platform \in {"air", "surface", "subsurface", "land"}
    <3>1. message.platform = PlatformOf("J2.2", original.alt)
      BY <2>1 DEF Classified, MessageTypes
    <3>2. original.alt \in Int BY <2>1 DEF MessageTypes
    <3> QED BY <3>1, <3>2, PlatformTyped DEF Kinds
  <2>3. /\ p.ctx.platform = PlatformByte(message.platform)
        /\ p.ctx.id = PutASCII(message.id)
        /\ p.ctx.time = Unix(message.time) /\ p.ctx.valid = message.valid
    BY DEF EncodeJ22
  <2>4. ~Rejects(p)
    <3>1. VerifyWordParity(p.iw) /\ VerifyWordParity(p.e0) BY PayloadBitErrors
    <3>2. p.ctx.platform \in 0..Len(Platforms)
      <4>1. Len(Platforms) = 4 BY DEF Platforms
      <4> QED BY <2>2, <2>3, <4>1, PlatformBytes
    <3> QED BY <3>1, <3>2, SMTT(30) DEF Rejects
  <2> DEFINE d == DecodeJ22(p)
  <2>5. /\ d.platform = PlatformFromByte(p.ctx.platform) /\ d.valid = p.ctx.valid
        /\ d.id = p.ctx.id /\ d.time = p.ctx.time * TicksPerSecond
    BY Zenon DEF DecodeJ22
  <2> HIDE DEF d, p
  <2>6. d.platform = message.platform /\ d.valid = message.valid
    BY <2>2, <2>3, <2>5, PlatformBytes
  <2>7. d.id.head = message.id.head
    <3>1. PICK i : i = message.id OBVIOUS
    <3>2. PutASCII(i).head = i.head BY DEF PutASCII
    <3> QED BY <2>3, <2>5, <3>1, <3>2
  <2>8. d.time \in (message.time - TicksPerSecond + 1)..message.time
    <3>1. message.time \in Nat BY <2>1, ClockAssumption DEF MessageTypes
    <3> QED BY <2>3, <2>5, <3>1, WithinSecond
  <2> QED BY <2>1, <2>4, <2>6, <2>7, <2>8 DEF ContextFaithful, d
<1> QED BY <1>1, StagesInvariant, PTL
-----------------------------------------------------------------------------
(* The powers of two the fields need. *)
LEMMA Doubling ==
  \A k \in 0..24 : 2^k \in Nat \ {0} /\ 2^(k + 1) = 2 * 2^k
<1> DEFINE P(k) == 2^k
<1>1. /\ P(0) = 1 /\ P(1) = 2 /\ P(2) = 4 /\ P(3) = 8
      /\ P(4) = 16 /\ P(5) = 32 /\ P(6) = 64 /\ P(7) = 128
      /\ P(8) = 256 /\ P(9) = 512 /\ P(10) = 1024 /\ P(11) = 2048
      /\ P(12) = 4096 /\ P(13) = 8192 /\ P(14) = 16384 /\ P(15) = 32768
      /\ P(16) = 65536 /\ P(17) = 131072 /\ P(18) = 262144 /\ P(19) = 524288
      /\ P(20) = 1048576 /\ P(21) = 2097152 /\ P(22) = 4194304 /\ P(23) = 8388608
      /\ P(24) = 16777216 /\ P(25) = 33554432
  OBVIOUS
<1> HIDE DEF P
<1>2. \A k \in 0..24 : P(k) \in Nat \ {0} /\ P(k + 1) = 2 * P(k) BY <1>1
<1> QED BY <1>2 DEF P

(* A quotient and a remainder in range are those of the division. *)
LEMMA RemainderIs ==
  ASSUME NEW m \in Nat \ {0}, NEW h \in Int, NEW r \in 0..(m - 1)
  PROVE  (m * h + r) % m = r
<1> DEFINE v == m * h + r
<1>1. v \in Int OBVIOUS
<1>2. \A w \in Int : w = m * (w \div m) + (w % m) /\ w \div m \in Int /\ w % m \in 0..(m - 1)
  OBVIOUS
<1>3. PICK k \in Int, t \in 0..(m - 1) : v = m * k + t /\ v % m = t BY <1>1, <1>2
<1>4. m * (h - k) = t - r BY <1>3
<1>5. \A d \in Int : d >= 1 => m * d >= m OBVIOUS
<1>6. \A d \in Int : d <= -1 => m * d <= -m OBVIOUS
<1>7. ~(h - k >= 1)
  <2>1. h - k >= 1 => m * (h - k) >= m BY <1>5, <1>3
  <2> QED BY <1>4, <2>1, <1>3
<1>8. ~(h - k <= -1)
  <2>1. h - k <= -1 => m * (h - k) <= -m BY <1>6, <1>3
  <2> QED BY <1>4, <2>1, <1>3
<1>9. h = k BY <1>3, <1>7, <1>8
<1> QED BY <1>3, <1>9

(* The next bit of a number. *)
LEMMA NextBit ==
  ASSUME NEW v \in Int, NEW p \in Nat \ {0}
  PROVE  /\ (v \div p) % 2 = 1 => v % (2 * p) = (v % p) + p
         /\ (v \div p) % 2 # 1 => v % (2 * p) = v % p
<1>1. PICK q \in Int, r \in 0..(p - 1) : v = p * q + r /\ v \div p = q /\ v % p = r
  <2>1. v \div p \in Int /\ v % p \in 0..(p - 1) /\ v = p * (v \div p) + (v % p) OBVIOUS
  <2> QED BY <2>1
<1>2. PICK h \in Int : IF q % 2 = 1 THEN q = 2 * h + 1 ELSE q = 2 * h
  <2>1. q \div 2 \in Int /\ (IF q % 2 = 1 THEN q = 2 * (q \div 2) + 1 ELSE q = 2 * (q \div 2))
    OBVIOUS
  <2> QED BY <2>1
<1>3. CASE q % 2 = 1
  <2>1. v = (2 * p) * h + (r + p) BY <1>1, <1>2, <1>3
  <2>2. 2 * p \in Nat \ {0} /\ r + p \in 0..(2 * p - 1) BY <1>1
  <2>3. v % (2 * p) = r + p BY <2>1, <2>2, RemainderIs
  <2> QED BY <1>1, <1>3, <2>3
<1>4. CASE q % 2 # 1
  <2>1. v = (2 * p) * h + r BY <1>1, <1>2, <1>4
  <2>2. 2 * p \in Nat \ {0} /\ r \in 0..(2 * p - 1) BY <1>1
  <2>3. v % (2 * p) = r BY <2>1, <2>2, RemainderIs
  <2> QED BY <1>1, <1>4, <2>3
<1> QED BY <1>3, <1>4

(* What the bits of a field whose last bit is e count for, and the bits     *)
(* there that show the lowest k of the number v.                            *)
Weights(e)    == [b \in Int |-> 2^(e - b)]
Ones(v, e, k) == {b \in (e - k + 1)..e : (v \div 2^(e - b)) % 2 = 1}

LEMMA OnesIntegral ==
  ASSUME NEW v \in Int, NEW e \in Int, NEW k \in 0..24
  PROVE  IsFiniteSet(Ones(v, e, k)) /\ Integral(Weights(e), Ones(v, e, k))
<1>1. e - k + 1 \in Int OBVIOUS
<1>2. IsFiniteSet((e - k + 1)..e) BY <1>1, FS_Interval
<1>3. IsFiniteSet(Ones(v, e, k)) BY <1>2, FS_Subset DEF Ones
<1>4. ASSUME NEW b \in Ones(v, e, k) PROVE Weights(e)[b] \in Int
  <2>1. b \in Int /\ e - b \in 0..24 BY <1>4 DEF Ones
  <2>2. 2^(e - b) \in Int BY <2>1, Doubling
  <2> QED BY <2>1, <2>2 DEF Weights
<1> QED BY <1>3, <1>4 DEF Integral

(* One bit more. *)
LEMMA OnesNext ==
  ASSUME NEW v \in Int, NEW e \in Int, NEW k \in 0..23
  PROVE  /\ e - k \notin Ones(v, e, k)
         /\ Ones(v, e, k + 1) = IF (v \div 2^k) % 2 = 1
                                THEN Ones(v, e, k) \union {e - k} ELSE Ones(v, e, k)
<1> DEFINE On(b) == (v \div 2^(e - b)) % 2 = 1
<1>1. On(e - k) <=> (v \div 2^k) % 2 = 1
  <2>1. e - (e - k) = k OBVIOUS
  <2> QED BY <2>1
<1>2. /\ e - (k + 1) + 1 = e - k
      /\ (e - k)..e = ((e - k + 1)..e) \union {e - k}
      /\ e - k \notin (e - k + 1)..e
  OBVIOUS
<1>3. /\ Ones(v, e, k) = {b \in (e - k + 1)..e : On(b)}
      /\ Ones(v, e, k + 1) = {b \in (e - k)..e : On(b)}
  BY <1>2 DEF Ones
<1> HIDE DEF On
<1> QED BY <1>1, <1>2, <1>3

LEMMA OnesSum ==
  ASSUME NEW v \in Int, NEW e \in Int, NEW n \in 0..24
  PROVE  SumOver(Weights(e), Ones(v, e, n)) = v % 2^n
<1> DEFINE M == {k \in 0..24 : SumOver(Weights(e), Ones(v, e, k)) # v % 2^k}
<1> SUFFICES ASSUME M # {} PROVE FALSE OBVIOUS
<1>1. PICK m \in M : \A j \in M : m <= j
  <2>1. M \in SUBSET Nat OBVIOUS
  <2> HIDE DEF M
  <2> QED BY <2>1, LeastExists
<1>2. m \in 0..24 /\ SumOver(Weights(e), Ones(v, e, m)) # v % 2^m BY <1>1
<1>3. m # 0
  <2>1. Ones(v, e, 0) = {} BY DEF Ones
  <2>2. v % 2^0 = 0 OBVIOUS
  <2> QED BY <1>2, <2>1, <2>2, SumEmpty
<1>4. PICK k \in 0..23 : m = k + 1 BY <1>2, <1>3
<1>5. SumOver(Weights(e), Ones(v, e, k)) = v % 2^k
  <2>1. k \notin M /\ k \in 0..24
    <3>1. ~(m <= k) BY <1>4
    <3> HIDE DEF M
    <3> QED BY <1>1, <1>4, <3>1
  <2> QED BY <2>1
<1> DEFINE one == (v \div 2^k) % 2 = 1  S == Ones(v, e, k)
<1>6. 2^k \in Nat \ {0} /\ 2^m = 2 * 2^k
  <2>1. k \in 0..24 OBVIOUS
  <2>2. 2^k \in Nat \ {0} /\ 2^(k + 1) = 2 * 2^k BY <2>1, Doubling, Zenon
  <2> QED BY <1>4, <2>2, Zenon
<1>7. v % 2^m = IF one THEN (v % 2^k) + 2^k ELSE v % 2^k
  <2>1. PICK p \in Nat \ {0} : p = 2^k BY <1>6
  <2>2. /\ (v \div p) % 2 = 1 => v % (2 * p) = (v % p) + p
        /\ (v \div p) % 2 # 1 => v % (2 * p) = v % p
    BY NextBit
  <2> QED BY <1>6, <2>1, <2>2
<1>8. e - k \notin S /\ Ones(v, e, m) = IF one THEN S \union {e - k} ELSE S
  BY <1>4, OnesNext
<1>9. CASE one
  <2> DEFINE T == Ones(v, e, m)
  <2>1. IsFiniteSet(T) /\ Integral(Weights(e), T) BY <1>2, OnesIntegral
  <2>2. e - k \in T /\ But(T, e - k) = S BY <1>8, <1>9 DEF But
  <2>3. Weights(e)[e - k] = 2^k
    <3>1. e - (e - k) = k /\ e - k \in Int OBVIOUS
    <3> QED BY <3>1 DEF Weights
  <2> HIDE DEF T, S, one
  <2>4. SumOver(Weights(e), T) = 2^k + SumOver(Weights(e), S)
    BY <2>1, <2>2, <2>3, SumTake
  <2>5. v % 2^k \in Int
    <3>1. \A p \in Nat \ {0} : v % p \in Int OBVIOUS
    <3> QED BY <1>6, <3>1
  <2>6. SumOver(Weights(e), T) = (v % 2^k) + 2^k BY <1>5, <1>6, <2>4, <2>5 DEF S
  <2> QED BY <1>2, <1>7, <1>9, <2>6 DEF T
<1>10. CASE ~one
  <2>1. Ones(v, e, m) = S BY <1>8, <1>10
  <2> QED BY <1>2, <1>5, <1>7, <1>10, <2>1
<1> QED BY <1>9, <1>10

(* GetBits adds up the weights of the bits it finds. *)
LEMMA GetBitsSum ==
  ASSUME NEW w, NEW start \in Int, NEW n \in Int
  PROVE  GetBits(w, start, n)
           = SumOver(Weights(start + n - 1), w \intersect (start..(start + n - 1)))
<1> DEFINE e == start + n - 1
           S == w \intersect (start..(start + n - 1))
           Rest(g, s) == g[s \ {Some(s)}]
           Q(g, s) == IF s = {} THEN 0 ELSE 2^(start + n - 1 - Some(s)) + Rest(g, s)
           R(g, s) == IF s = {} THEN 0 ELSE Weights(e)[Some(s)] + Rest(g, s)
           P(g) == g = [s \in SUBSET S |-> Q(g, s)]
           h == CHOOSE g : P(g)
<1>1. e \in Int /\ S \in SUBSET Int /\ IsFiniteSet(S)
  <2>1. e \in Int OBVIOUS
  <2>2. IsFiniteSet(start..e) BY <2>1, FS_Interval, Zenon
  <2>3. S \subseteq start..e OBVIOUS
  <2> HIDE DEF e, S
  <2>4. IsFiniteSet(S) BY <2>2, <2>3, FS_Subset, Zenon
  <2> QED BY <2>1, <2>3, <2>4
<1>2. \A s \in SUBSET S : s # {} => Weights(e)[Some(s)] = 2^(e - Some(s))
  <2> HIDE DEF S
  <2> QED BY <1>1, SomeIn DEF Weights
<1>3. PICK g : Sums(Weights(e), S, g) /\ SumOver(Weights(e), S) = g[S]
  <2> HIDE DEF S
  <2> QED BY <1>1, SumIs
<1>4. ASSUME NEW f PROVE P(f) <=> Sums(Weights(e), S, f)
  <2>1. ASSUME NEW s \in SUBSET S PROVE Q(f, s) = R(f, s)
    <3>1. CASE s = {} BY <3>1
    <3>2. CASE s # {}
      <4>1. Weights(e)[Some(s)] = 2^(e - Some(s))
        <5> HIDE DEF S, e
        <5> QED BY <1>2, <3>2
      <4>2. e - Some(s) = start + n - 1 - Some(s)
        <5>1. Some(s) \in s BY <3>2, SomeIn
        <5>2. Some(s) \in Int BY <5>1
        <5> HIDE DEF S
        <5> QED BY <5>2
      <4> HIDE DEF Rest, e
      <4> QED BY <3>2, <4>1, <4>2
    <3> QED BY <3>1, <3>2
  <2>2. Sums(Weights(e), S, f) <=> f = [s \in SUBSET S |-> R(f, s)] BY DEF Sums
  <2> HIDE DEF Q, R, S
  <2> QED BY <2>1, <2>2
<1>5. P(h)
  <2>1. P(g) BY <1>3, <1>4
  <2> HIDE DEF P
  <2> QED BY <2>1
<1>6. GetBits(w, start, n) = h[S]
  BY DEF GetBits, MapThenSumSet, MapThenFoldSet, Some
<1> HIDE DEF h, P, S
<1>7. g[S] = h[S]
  <2>1. Sums(Weights(e), S, h) BY <1>4, <1>5
  <2>2. S \in SUBSET S OBVIOUS
  <2> QED BY <1>1, <1>3, <2>1, <2>2, SumsAgree
<1> QED BY <1>3, <1>6, <1>7 DEF S

(* What was written is read again. *)
LEMMA BitsRead ==
  ASSUME NEW w, NEW start \in Nat, NEW n \in 1..24, NEW v \in Nat, v < 2^n,
         w \intersect (start..(start + n - 1)) = Ones(v, start + n - 1, n)
  PROVE  GetBits(w, start, n) = v
<1> DEFINE e == start + n - 1
<1>1. GetBits(w, start, n) = SumOver(Weights(e), Ones(v, e, n))
  <2>1. start \in Int /\ n \in Int OBVIOUS
  <2>2. GetBits(w, start, n) = SumOver(Weights(e), w \intersect (start..(start + n - 1)))
    BY <2>1, GetBitsSum
  <2> QED BY <2>2, Zenon
<1>2. SumOver(Weights(e), Ones(v, e, n)) = v % 2^n
  <2>1. n \in 0..24 /\ v \in Int /\ e \in Int OBVIOUS
  <2> QED BY <2>1, OnesSum, Zenon
<1>3. v % 2^n = v
  <2>1. 2^n \in Nat \ {0} BY Doubling
  <2>2. \A p \in Nat \ {0} : v < p => v % p = v OBVIOUS
  <2> QED BY <2>1, <2>2
<1> QED BY <1>1, <1>2, <1>3

(* The positions of a field, and those it sets. *)
Span(f)  == f[1]..(f[1] + f[2] - 1)
Shown(f) == Ones(f[3], f[1] + f[2] - 1, f[2])
Placed(fs) == \A k \in DOMAIN fs : fs[k][1] \in Int /\ fs[k][2] \in Int

LEMMA SetBitsIs ==
  ASSUME NEW f, f[1] \in Int, f[2] \in Int, NEW w \in SUBSET Int
  PROVE  SetBits(w, f[1], f[2], f[3]) = (w \ Span(f)) \union Shown(f)
<1>1. PICK start \in Int, n \in Int : f[1] = start /\ f[2] = n OBVIOUS
<1> DEFINE v == f[3]
           e == start + n - 1
           On(b) == (v \div 2^(e - b)) % 2 = 1
<1>2. e \in Int /\ e - n + 1 = start OBVIOUS
<1>3. {b \in start..(start + n - 1) : (v \div 2^(start + n - 1 - b)) % 2 = 1}
        = {b \in start..e : On(b)}
  <2>1. \A b \in Int : start + n - 1 - b = e - b OBVIOUS
  <2> QED BY <2>1
<1>4. Shown(f) = {b \in start..e : On(b)}
  <2>1. Shown(f) = Ones(v, e, n) BY <1>1 DEF Shown
  <2>2. Ones(v, e, n) = {b \in (e - n + 1)..e : On(b)} BY DEF Ones
  <2> HIDE DEF e, On
  <2> QED BY <1>2, <2>1, <2>2
<1>5. {b \in w : b < start \/ b >= start + n} = w \ (start..e)
  <2>1. \A b \in Int : b < start \/ b >= start + n <=> b \notin start..e OBVIOUS
  <2> HIDE DEF e
  <2> QED BY <2>1
<1>6. Span(f) = start..e BY <1>1 DEF Span
<1> QED BY <1>1, <1>3, <1>4, <1>5, <1>6 DEF SetBits

(* Of two fields the later is written over the earlier. *)
Written(fs, s) ==
  {b \in Int : \E k \in s : /\ b \in Shown(fs[k])
                            /\ \A j \in s : j > k => b \notin Span(fs[j])}

LEMMA MaxIs ==
  ASSUME NEW n \in Nat, NEW s \in SUBSET (1..n), s # {}
  PROVE  Max(s) \in s /\ \A y \in s : Max(s) >= y
<1> DEFINE M == {n - y : y \in s}
<1>1. PICK m \in M : \A j \in M : m <= j
  <2>1. M \in SUBSET Nat
    <3>1. \A y \in s : n - y \in Nat OBVIOUS
    <3> QED BY <3>1
  <2>2. M # {}
    <3>1. PICK y \in s : TRUE OBVIOUS
    <3>2. n - y \in M OBVIOUS
    <3> QED BY <3>2
  <2> HIDE DEF M
  <2> QED BY <2>1, <2>2, LeastExists
<1>2. PICK x \in s : m = n - x OBVIOUS
<1>3. \A y \in s : x >= y
  <2> SUFFICES ASSUME NEW y \in s PROVE x >= y OBVIOUS
  <2>1. n - y \in M /\ x \in 1..n /\ y \in 1..n OBVIOUS
  <2>2. n - x <= n - y BY <1>1, <1>2, <2>1
  <2> QED BY <2>1, <2>2
<1> QED BY <1>3 DEF Max

LEMMA WordRounds ==
  ASSUME NEW fs, NEW n \in Nat, DOMAIN fs = 1..n, Placed(fs)
  PROVE  \E h : /\ h[0] = {}
                /\ \A k \in 1..n : h[k] = SetBits(h[k - 1], fs[k][1], fs[k][2], fs[k][3])
                /\ WordOf(fs) = h[n]
<1> DEFINE Put(w, k) == SetBits(w, fs[k][1], fs[k][2], fs[k][3])
           Q(g, s) == IF s = {} THEN {} ELSE Put(g[s \ {Max(s)}], Max(s))
           P(g) == g = [s \in SUBSET (DOMAIN fs) |-> Q(g, s)]
           g0 == [s \in SUBSET (DOMAIN fs) |-> Written(fs, s)]
           h == CHOOSE g : P(g)
<1>1. ASSUME NEW s \in SUBSET (1..n), s # {}
      PROVE  Written(fs, s) = Put(Written(fs, s \ {Max(s)}), Max(s))
  <2> DEFINE x == Max(s)  r == s \ {Max(s)}
  <2>1. x \in s /\ \A y \in s : x >= y BY <1>1, MaxIs
  <2>2. x \in 1..n /\ \A y \in r : x > y
    <3>1. x \in 1..n BY <2>1
    <3>2. \A y \in r : y \in s /\ y \in 1..n /\ y # x OBVIOUS
    <3> HIDE DEF x, r
    <3> QED BY <2>1, <3>1, <3>2
  <2>3. fs[x][1] \in Int /\ fs[x][2] \in Int BY <2>2 DEF Placed
  <2>4. Shown(fs[x]) \subseteq Int BY <2>3 DEF Shown, Ones
  <2>5. Put(Written(fs, r), x) = (Written(fs, r) \ Span(fs[x])) \union Shown(fs[x])
    <3>1. Written(fs, r) \in SUBSET Int BY DEF Written
    <3> QED BY <2>3, <3>1, SetBitsIs
  <2>6. ASSUME NEW b \in Int
        PROVE  b \in Written(fs, s) <=>
                 (b \in Written(fs, r) /\ b \notin Span(fs[x])) \/ b \in Shown(fs[x])
    <3>1. ASSUME NEW k \in s, b \in Shown(fs[k]), \A j \in s : j > k => b \notin Span(fs[j])
          PROVE  (b \in Written(fs, r) /\ b \notin Span(fs[x])) \/ b \in Shown(fs[x])
      <4>1. CASE k = x BY <3>1, <4>1
      <4>2. CASE k # x
        <5>1. k \in r /\ x > k BY <2>2, <4>2
        <5>2. b \notin Span(fs[x]) BY <2>1, <3>1, <5>1
        <5>3. b \in Written(fs, r) BY <3>1, <5>1 DEF Written
        <5> QED BY <5>2, <5>3
      <4> QED BY <4>1, <4>2
    <3>2. ASSUME b \in Shown(fs[x]) PROVE b \in Written(fs, s)
      <4>1. \A j \in s : ~(j > x) BY <2>1, <2>2
      <4> QED BY <2>1, <3>2, <4>1 DEF Written
    <3>3. ASSUME b \in Written(fs, r), b \notin Span(fs[x]) PROVE b \in Written(fs, s)
      <4>1. PICK k \in r : b \in Shown(fs[k]) /\ \A j \in r : j > k => b \notin Span(fs[j])
        BY <3>3 DEF Written
      <4>2. \A j \in s : j > k => b \notin Span(fs[j]) BY <3>3, <4>1
      <4>3. k \in s OBVIOUS
      <4> QED BY <4>1, <4>2, <4>3 DEF Written
    <3> HIDE DEF x, r
    <3> QED BY <3>1, <3>2, <3>3 DEF Written
  <2>7. Written(fs, s) \subseteq Int /\ Written(fs, r) \subseteq Int BY DEF Written
  <2> HIDE DEF x, r, Put
  <2>8. Written(fs, s) = Put(Written(fs, r), x) BY <2>4, <2>5, <2>6, <2>7
  <2> QED BY <2>8 DEF x, r
<1>2. P(g0)
  <2>1. ASSUME NEW s \in SUBSET (DOMAIN fs) PROVE Written(fs, s) = Q(g0, s)
    <3>1. CASE s = {} BY <3>1 DEF Written
    <3>2. CASE s # {}
      <4> DEFINE r == s \ {Max(s)}
      <4>1. r \in SUBSET (DOMAIN fs) OBVIOUS
      <4>2. g0[r] = Written(fs, r) BY <4>1
      <4>3. Q(g0, s) = Put(g0[r], Max(s)) BY <3>2
      <4>4. Written(fs, s) = Put(Written(fs, r), Max(s)) BY <1>1, <3>2
      <4> HIDE DEF g0, Q, Put, r
      <4> QED BY <4>2, <4>3, <4>4
    <3> QED BY <3>1, <3>2
  <2> HIDE DEF Q
  <2> QED BY <2>1
<1>3. P(h)
  <2> HIDE DEF P
  <2> QED BY <1>2
<1>4. WordOf(fs) = h[DOMAIN fs]
  BY DEF WordOf, FoldLeft, MapThenFoldSet
<1> HIDE DEF h
<1>5. h[{}] = {}
  <2>1. {} \in SUBSET (DOMAIN fs) OBVIOUS
  <2>2. h[{}] = Q(h, {}) BY <1>3, <2>1
  <2> QED BY <2>2
<1>6. ASSUME NEW k \in 1..n PROVE h[1..k] = Put(h[1..(k - 1)], k)
  <2>1. 1..k \in SUBSET (DOMAIN fs) /\ k \in 1..k /\ 1..k # {} OBVIOUS
  <2>2. Max(1..k) = k
    <3>1. Max(1..k) \in 1..k /\ \A y \in 1..k : Max(1..k) >= y
      <4>1. 1..k \in SUBSET (1..n) /\ 1..k # {} BY <2>1
      <4> QED BY <4>1, MaxIs
    <3>2. \A m \in 1..k : m >= k => m = k OBVIOUS
    <3> QED BY <2>1, <3>1, <3>2
  <2>3. (1..k) \ {k} = 1..(k - 1) OBVIOUS
  <2>4. h[1..k] = Q(h, 1..k)
    <3> HIDE DEF Q
    <3> QED BY <1>3, <2>1
  <2>5. Q(h, 1..k) = Put(h[(1..k) \ {Max(1..k)}], Max(1..k))
    <3> HIDE DEF Put
    <3> QED BY <2>1
  <2> HIDE DEF Put, Q
  <2> QED BY <2>2, <2>3, <2>4, <2>5
<1> DEFINE u == [k \in 0..n |-> h[1..k]]
<1>7. u[0] = {}
  <2>1. 1..0 = {} OBVIOUS
  <2> QED BY <1>5, <2>1
<1>8. ASSUME NEW k \in 1..n PROVE u[k] = Put(u[k - 1], k)
  <2>1. k \in 0..n /\ k - 1 \in 0..n OBVIOUS
  <2>2. u[k] = h[1..k] /\ u[k - 1] = h[1..(k - 1)] BY <2>1
  <2> HIDE DEF u, Put
  <2> QED BY <1>6, <2>2
<1>9. WordOf(fs) = u[n] BY <1>4
<1> HIDE DEF u
<1> QED BY <1>7, <1>8, <1>9

(* A field that no later field overlaps stays as it was written. *)
LEMMA FieldStays ==
  ASSUME NEW fs, NEW n \in Nat, DOMAIN fs = 1..n, Placed(fs), NEW q \in 1..n,
         \A k \in (q + 1)..n : Span(fs[k]) \intersect Span(fs[q]) = {}
  PROVE  WordOf(fs) \intersect Span(fs[q]) = Shown(fs[q])
<1>1. PICK h : /\ h[0] = {}
               /\ \A k \in 1..n : h[k] = SetBits(h[k - 1], fs[k][1], fs[k][2], fs[k][3])
               /\ WordOf(fs) = h[n]
  BY WordRounds
<1>2. \A k \in 1..n : fs[k][1] \in Int /\ fs[k][2] \in Int BY DEF Placed
<1>3. ASSUME NEW k \in 1..n PROVE Shown(fs[k]) \subseteq Span(fs[k]) /\ Span(fs[k]) \subseteq Int
  <2>1. PICK s \in Int, l \in Int : fs[k][1] = s /\ fs[k][2] = l BY <1>2
  <2>2. s + l - 1 - l + 1 = s OBVIOUS
  <2> QED BY <2>1, <2>2 DEF Shown, Span, Ones
<1>4. ASSUME NEW k \in 1..n, h[k - 1] \in SUBSET Int
      PROVE  h[k] = (h[k - 1] \ Span(fs[k])) \union Shown(fs[k])
  BY <1>1, <1>2, <1>4, SetBitsIs
<1> DEFINE Good(k) == /\ h[k] \in SUBSET Int
                      /\ k >= q => h[k] \intersect Span(fs[q]) = Shown(fs[q])
           M == {k \in 0..n : ~Good(k)}
<1>5. M = {}
  <2> SUFFICES ASSUME M # {} PROVE FALSE OBVIOUS
  <2>1. PICK m \in M : \A j \in M : m <= j
    <3>1. M \in SUBSET Nat OBVIOUS
    <3> HIDE DEF M
    <3> QED BY <3>1, LeastExists
  <2>2. m \in 0..n /\ ~Good(m) OBVIOUS
  <2>3. m # 0
    <3>1. ~(0 >= q) OBVIOUS
    <3> QED BY <1>1, <2>2, <3>1
  <2>4. m \in 1..n /\ m - 1 \in 0..n /\ Good(m - 1)
    <3>1. m \in 1..n /\ m - 1 \in 0..n BY <2>2, <2>3
    <3>2. m - 1 \notin M
      <4>1. ~(m <= m - 1) BY <3>1
      <4> HIDE DEF M
      <4> QED BY <2>1, <4>1
    <3> HIDE DEF Good
    <3> QED BY <3>1, <3>2
  <2>5. h[m] = (h[m - 1] \ Span(fs[m])) \union Shown(fs[m]) BY <1>4, <2>4
  <2>6. h[m] \in SUBSET Int BY <1>3, <2>4, <2>5
  <2>7. ASSUME m >= q PROVE h[m] \intersect Span(fs[q]) = Shown(fs[q])
    <3>1. CASE m = q BY <1>3, <2>5, <3>1
    <3>2. CASE m # q
      <4>1. m - 1 >= q /\ m \in (q + 1)..n BY <2>4, <2>7, <3>2
      <4>2. h[m - 1] \intersect Span(fs[q]) = Shown(fs[q]) BY <2>4, <4>1
      <4>3. Span(fs[m]) \intersect Span(fs[q]) = {} BY <4>1
      <4> QED BY <1>3, <2>4, <2>5, <4>2, <4>3
    <3> QED BY <3>1, <3>2
  <2> QED BY <2>2, <2>6, <2>7
<1>6. Good(n)
  <2>1. n \in 0..n /\ n \notin M BY <1>5
  <2> HIDE DEF Good
  <2> QED BY <2>1
<1> QED BY <1>1, <1>6

(* The numbers a field of n bits can hold. *)
Counts(n) == {v \in Nat : v < 2^n}

(* and is read as it was written, the parity of the word being elsewhere. *)
Carries(fs, n, q, start, l, v) ==
  /\ n \in Nat /\ DOMAIN fs = 1..n /\ Placed(fs)
  /\ q \in 1..n /\ \A k \in (q + 1)..n : Span(fs[k]) \intersect Span(fs[q]) = {}
  /\ start \in Nat /\ l \in 1..24 /\ start + l <= 70
  /\ v \in Counts(l)
  /\ fs[q] = <<start, l, v>>

LEMMA FieldRead ==
  ASSUME NEW fs, NEW n, NEW q, NEW start, NEW l, NEW v, Carries(fs, n, q, start, l, v)
  PROVE  GetBits(SetParity(WordOf(fs)), start, l) = v
<1> USE DEF Carries, Counts
<1> DEFINE w == WordOf(fs)
<1>1. Span(fs[q]) = start..(start + l - 1) /\ Shown(fs[q]) = Ones(v, start + l - 1, l)
  BY DEF Span, Shown
<1>2. w \intersect Span(fs[q]) = Shown(fs[q]) BY FieldStays
<1>3. SetParity(w) \intersect (start..(start + l - 1)) = w \intersect (start..(start + l - 1))
  <2>1. \A b \in start..(start + l - 1) : b \notin 70..74 OBVIOUS
  <2> HIDE DEF w
  <2> QED BY <2>1, ParityBitsApart DEF SetParity
<1> HIDE DEF w
<1>4. SetParity(w) \intersect (start..(start + l - 1)) = Ones(v, start + l - 1, l)
  BY <1>1, <1>2, <1>3
<1>5. GetBits(SetParity(w), start, l) = v BY <1>4, BitsRead
<1> QED BY <1>5 DEF w

(* The words of a payload, and the fields read from them. *)
InitialWith(air, alt) ==
  SetParity(WordOf(<<<<2, 5, 2>>, <<7, 3, 2>>, <<10, 3, 1>>, <<13, 7, air>>, <<23, 4, 1>>,
                     <<27, 4, 8>>, <<31, 4, 15>>, <<40, 13, alt>>, <<61, 4, 15>>>>))

ExtensionWith(lat, lon, course, speed) ==
  SetParity(WordOf(<<<<0, 2, 2>>, <<2, 23, lat>>, <<25, 24, lon>>,
                     <<50, 9, course>>, <<59, 11, speed>>>>))

LEMMA InitialFields ==
  ASSUME NEW air, NEW alt \in Counts(13)
  PROVE  GetBits(InitialWith(air, alt), 40, 13) = alt
<1> DEFINE fs == <<<<2, 5, 2>>, <<7, 3, 2>>, <<10, 3, 1>>, <<13, 7, air>>, <<23, 4, 1>>,
                   <<27, 4, 8>>, <<31, 4, 15>>, <<40, 13, alt>>, <<61, 4, 15>>>>
<1>1. DOMAIN fs = 1..9 /\ fs[8] = <<40, 13, alt>> /\ fs[9] = <<61, 4, 15>> OBVIOUS
<1>2. Placed(fs) BY DEF Placed
<1>3. Span(fs[9]) \intersect Span(fs[8]) = {}
  <2>1. Span(fs[9]) = 61..64 /\ Span(fs[8]) = 40..52 BY <1>1 DEF Span
  <2> HIDE DEF fs
  <2> QED BY <2>1
<1> HIDE DEF fs
<1>4. \A k \in (8 + 1)..9 : Span(fs[k]) \intersect Span(fs[8]) = {}
  <2>1. \A k \in (8 + 1)..9 : k = 9 OBVIOUS
  <2> QED BY <1>3, <2>1
<1>6. GetBits(SetParity(WordOf(fs)), 40, 13) = alt
  <2>1. Carries(fs, 9, 8, 40, 13, alt) BY <1>1, <1>2, <1>4 DEF Carries
  <2> QED BY <2>1, FieldRead
<1> QED BY <1>6 DEF fs, InitialWith

LEMMA ExtensionFields ==
  ASSUME NEW lat \in Counts(23), NEW lon \in Counts(24),
         NEW course \in Counts(9), NEW speed \in Counts(11), NEW w,
         w = ExtensionWith(lat, lon, course, speed)
  PROVE  /\ GetBits(w, 2, 23) = lat /\ GetBits(w, 25, 24) = lon
         /\ GetBits(w, 50, 9) = course /\ GetBits(w, 59, 11) = speed
<1> DEFINE fs == <<<<0, 2, 2>>, <<2, 23, lat>>, <<25, 24, lon>>,
                   <<50, 9, course>>, <<59, 11, speed>>>>
<1>1. /\ DOMAIN fs = 1..5 /\ fs[2] = <<2, 23, lat>> /\ fs[3] = <<25, 24, lon>>
      /\ fs[4] = <<50, 9, course>> /\ fs[5] = <<59, 11, speed>>
  OBVIOUS
<1>2. Placed(fs) BY DEF Placed
<1>3. /\ Span(fs[2]) = 2..24 /\ Span(fs[3]) = 25..48
      /\ Span(fs[4]) = 50..58 /\ Span(fs[5]) = 59..69
  BY <1>1 DEF Span
<1> HIDE DEF fs
<1>4. /\ \A k \in (2 + 1)..5 : Span(fs[k]) \intersect Span(fs[2]) = {}
      /\ \A k \in (3 + 1)..5 : Span(fs[k]) \intersect Span(fs[3]) = {}
      /\ \A k \in (4 + 1)..5 : Span(fs[k]) \intersect Span(fs[4]) = {}
      /\ \A k \in (5 + 1)..5 : Span(fs[k]) \intersect Span(fs[5]) = {}
  <2>1. /\ \A k \in (2 + 1)..5 : k = 3 \/ k = 4 \/ k = 5
        /\ \A k \in (3 + 1)..5 : k = 4 \/ k = 5
        /\ \A k \in (4 + 1)..5 : k = 5
        /\ \A k \in (5 + 1)..5 : FALSE
    OBVIOUS
  <2>2. /\ (25..48) \intersect (2..24) = {} /\ (50..58) \intersect (2..24) = {}
        /\ (59..69) \intersect (2..24) = {} /\ (50..58) \intersect (25..48) = {}
        /\ (59..69) \intersect (25..48) = {} /\ (59..69) \intersect (50..58) = {}
    OBVIOUS
  <2> QED BY <1>3, <2>1, <2>2
<1>6. GetBits(SetParity(WordOf(fs)), 2, 23) = lat
  <2>1. Carries(fs, 5, 2, 2, 23, lat) BY <1>1, <1>2, <1>4 DEF Carries
  <2> QED BY <2>1, FieldRead
<1>7. GetBits(SetParity(WordOf(fs)), 25, 24) = lon
  <2>1. Carries(fs, 5, 3, 25, 24, lon) BY <1>1, <1>2, <1>4 DEF Carries
  <2> QED BY <2>1, FieldRead
<1>8. GetBits(SetParity(WordOf(fs)), 50, 9) = course
  <2>1. Carries(fs, 5, 4, 50, 9, course) BY <1>1, <1>2, <1>4 DEF Carries
  <2> QED BY <2>1, FieldRead
<1>9. GetBits(SetParity(WordOf(fs)), 59, 11) = speed
  <2>1. Carries(fs, 5, 5, 59, 11, speed) BY <1>1, <1>2, <1>4 DEF Carries
  <2> QED BY <2>1, FieldRead
<1>10. w = SetParity(WordOf(fs)) BY DEF fs, ExtensionWith
<1> QED BY <1>6, <1>7, <1>8, <1>9, <1>10

(* Rounding to a count of twos changes a number by one at most, rounding a  *)
(* number that is not negative to a count of 25s by twelve.                 *)
LEMMA RoundedBy2 ==
  ASSUME NEW v \in Int
  PROVE  Rounded(v, 2) \in Int /\ 2 * Rounded(v, 2) - v \in -1..1
<1>1. CASE v >= 0 BY <1>1 DEF Rounded
<1>2. CASE ~(v >= 0) BY <1>2 DEF Rounded
<1> QED BY <1>1, <1>2

LEMMA RoundedBy25 ==
  ASSUME NEW v \in Nat
  PROVE  Rounded(v, 25) \in Int /\ 25 * Rounded(v, 25) - v \in -12..12
BY DEF Rounded

(* A count of the two's complement means the signed number it was made of.  *)
LEMMA SignedBack ==
  ASSUME NEW n \in 1..24, NEW h \in Nat, h < 2^(n - 1), NEW v \in Int, -(2 * h) <= v, v <= 2 * h
  PROVE  /\ SignedToCount(v, n) \in Counts(n)
         /\ 2 * Count(SignedToCount(v, n), n) - v \in -1..1
         /\ 2 * Count(SignedToCount(v, n), n) \in -(2 * h)..(2 * h)
<1>1. PICK c \in Int : c = Rounded(v, 2) /\ 2 * c - v \in -1..1
  <2>1. v \in Int OBVIOUS
  <2> QED BY <2>1, RoundedBy2
<1>2. c \in -h..h BY <1>1
<1>3. PICK p \in Nat : p = 2^(n - 1) /\ 2 * p = 2^n
  <2>1. n - 1 \in 0..24 /\ (n - 1) + 1 = n OBVIOUS
  <2>2. 2^(n - 1) \in Nat \ {0} /\ 2^((n - 1) + 1) = 2 * 2^(n - 1)
    BY <2>1, Doubling, Zenon
  <2> QED BY <2>1, <2>2
<1>4. h < p BY <1>3
<1>5. ClampInt64(c, -p, p - 1) = c BY <1>2, <1>4 DEF ClampInt64
<1>6. SignedToCount(v, n) = IF c < 0 THEN c + 2 * p ELSE c
  BY <1>1, <1>3, <1>5 DEF SignedToCount
<1>7. Count(SignedToCount(v, n), n) = c BY <1>2, <1>3, <1>4, <1>6 DEF Count
<1>8. SignedToCount(v, n) \in Counts(n) BY <1>2, <1>3, <1>4, <1>6 DEF Counts
<1> QED BY <1>1, <1>2, <1>7, <1>8

(* Counts of altitude, and counts that saturate at a largest one. *)
AltitudeCount(v)      == ClampInt64(Rounded(v, 25), 0, 8191)
SaturatedCount(v, hi) == ClampInt64(Rounded(v, 2), 0, hi)

LEMMA HighestCount == \E top \in Nat : top = 2000 /\ MaxAlt("J2.2") = 25 * top
BY DEF MaxAlt

LEMMA CountedAltitude ==
  ASSUME NEW v, v \in 0..MaxAlt("J2.2")
  PROVE  /\ AltitudeCount(v) \in Counts(13) /\ 25 * AltitudeCount(v) - v \in -12..12
         /\ 25 * AltitudeCount(v) \in 0..MaxAlt("J2.2")
<1>1. PICK top \in Nat : top = 2000 /\ MaxAlt("J2.2") = 25 * top BY HighestCount, Zenon
<1>2. v \in Nat BY <1>1
<1>3. PICK c \in Int : c = Rounded(v, 25) /\ 25 * c - v \in -12..12
  BY <1>2, RoundedBy25
<1>4. c \in 0..top BY <1>1, <1>3, SMTT(30)
<1>5. AltitudeCount(v) = c BY <1>1, <1>3, <1>4 DEF AltitudeCount, ClampInt64
<1>6. c \in Counts(13) BY <1>1, <1>4 DEF Counts
<1> QED BY <1>1, <1>3, <1>4, <1>5, <1>6, SMTT(30)

(* What saturates is right up to the largest count. *)
LEMMA Saturates ==
  ASSUME NEW v \in Int, NEW hi \in Nat
  PROVE  /\ SaturatedCount(v, hi) \in 0..hi
         /\ v \in 0..(2 * hi) => 2 * SaturatedCount(v, hi) - v \in -1..1
<1>1. PICK c \in Int : c = Rounded(v, 2) /\ 2 * c - v \in -1..1
  BY RoundedBy2
<1>2. ClampInt64(c, 0, hi) \in 0..hi BY DEF ClampInt64
<1>3. v \in 0..(2 * hi) => ClampInt64(c, 0, hi) = c BY <1>1 DEF ClampInt64
<1>4. SaturatedCount(v, hi) = ClampInt64(c, 0, hi) BY <1>1, SMTT(30) DEF SaturatedCount
<1> QED BY <1>1, <1>2, <1>3, <1>4

(* What the words of the payload of a valid message say. *)
Valid(m) == /\ m.lat \in -MaxLat..MaxLat /\ m.lon \in -MaxLon..MaxLon
            /\ m.alt \in 0..MaxAlt("J2.2") /\ m.course \in Courses /\ m.speed \in Int

(* What the decoded fields d say of the message m.                          *)
Says(d, m) ==
  /\ d.lat - m.lat \in -1..1 /\ d.lon - m.lon \in -1..1 /\ d.alt - m.alt \in -12..12
  /\ HalfDegrees(m.course) \in 0..(FullCircle - 2) =>
       d.course - HalfDegrees(m.course) \in -1..1
  /\ m.speed \in 0..FullSpeed => d.speed - m.speed \in -1..1

LEMMA WordsDecode ==
  ASSUME NEW m, Valid(m), NEW d, d = DecodeJ22(EncodeJ22(m))
  PROVE  /\ Says(d, m)
         /\ d.lat \in -MaxLat..MaxLat /\ d.lon \in -MaxLon..MaxLon
         /\ d.alt \in 0..MaxAlt("J2.2")
<1> DEFINE lat    == SignedToCount(m.lat, 23)
           lon    == SignedToCount(m.lon, 24)
           alt    == AltitudeCount(m.alt)
           half   == HalfDegrees(m.course)
           course == SaturatedCount(half, 359)
           speed  == SaturatedCount(m.speed, 2046)
           p      == EncodeJ22(m)
<1>1. /\ lat \in Counts(23) /\ 2 * Count(lat, 23) - m.lat \in -1..1
      /\ 2 * Count(lat, 23) \in -MaxLat..MaxLat
  <2>1. PICK h \in Nat, n \in 1..24 : n = 23 /\ h < 2^(n - 1) /\ MaxLat = 2 * h
    BY SMT DEF MaxLat
  <2>2. m.lat \in Int /\ -(2 * h) <= m.lat /\ m.lat <= 2 * h BY <2>1 DEF Valid
  <2> QED BY <2>1, <2>2, SignedBack
<1>2. /\ lon \in Counts(24) /\ 2 * Count(lon, 24) - m.lon \in -1..1
      /\ 2 * Count(lon, 24) \in -MaxLon..MaxLon
  <2>1. PICK h \in Nat, n \in 1..24 : n = 24 /\ h < 2^(n - 1) /\ MaxLon = 2 * h
    BY SMT DEF MaxLon
  <2>2. m.lon \in Int /\ -(2 * h) <= m.lon /\ m.lon <= 2 * h BY <2>1 DEF Valid
  <2> QED BY <2>1, <2>2, SignedBack
<1>3. /\ alt \in Counts(13) /\ 25 * alt - m.alt \in -12..12
      /\ 25 * alt \in 0..MaxAlt("J2.2")
  BY CountedAltitude DEF Valid
<1>4. course \in Counts(9) /\ (half \in 0..(FullCircle - 2) => 2 * course - half \in -1..1)
  <2>1. PICK n \in Nat : n = 359 /\ FullCircle - 2 = 2 * n /\ 0..n \subseteq Counts(9)
    BY DEF FullCircle, Counts
  <2>2. half \in Int BY DEF Valid, Courses, HalfDegrees
  <2> HIDE DEF half
  <2>3. /\ SaturatedCount(half, n) \in 0..n
        /\ half \in 0..(2 * n) => 2 * SaturatedCount(half, n) - half \in -1..1
    BY <2>2, Saturates
  <2> QED BY <2>1, <2>3, SMTT(30)
<1>5. speed \in Counts(11) /\ (m.speed \in 0..FullSpeed => 2 * speed - m.speed \in -1..1)
  <2>1. PICK n \in Nat : n = 2046 /\ FullSpeed = 2 * n BY DEF FullSpeed
  <2>2. m.speed \in Int BY DEF Valid
  <2>3. /\ SaturatedCount(m.speed, n) \in 0..n
        /\ m.speed \in 0..(2 * n) => 2 * SaturatedCount(m.speed, n) - m.speed \in -1..1
    BY <2>2, Saturates
  <2>4. speed = SaturatedCount(m.speed, n) BY <2>1
  <2> HIDE DEF speed
  <2>5. speed \in Counts(11)
    <3>1. 0..n \subseteq Counts(11) BY <2>1 DEF Counts
    <3> QED BY <2>3, <2>4, <3>1
  <2>6. m.speed \in 0..FullSpeed => 2 * speed - m.speed \in -1..1
    <3>1. FullSpeed = 2 * n BY <2>1
    <3> QED BY <2>3, <2>4, <3>1
  <2> QED BY <2>5, <2>6
<1>6. p.iw = InitialWith(IF m.platform = "air" THEN 1 ELSE 0, alt)
  BY DEF EncodeJ22, EncodeInitialWord, InitialWith, AltitudeCount
<1>7. p.e0 = ExtensionWith(lat, lon, course, speed)
  BY DEF EncodeJ22, EncodeExtensionWord, ExtensionWith, SaturatedCount
<1> HIDE DEF lat, lon, alt, half, course, speed, p
<1>8. GetBits(p.iw, 40, 13) = alt BY <1>3, <1>6, InitialFields, SMTT(30)
<1>9. /\ GetBits(p.e0, 2, 23) = lat /\ GetBits(p.e0, 25, 24) = lon
      /\ GetBits(p.e0, 50, 9) = course /\ GetBits(p.e0, 59, 11) = speed
  BY <1>1, <1>2, <1>4, <1>5, <1>7, ExtensionFields
<1>10. /\ d.lat = 2 * Count(lat, 23) /\ d.lon = 2 * Count(lon, 24) /\ d.alt = 25 * alt
       /\ d.course = 2 * course /\ d.speed = 2 * speed
  <2>1. d = DecodeJ22(p) BY DEF p
  <2> QED BY <1>8, <1>9, <2>1 DEF DecodeJ22
<1> QED BY <1>1, <1>2, <1>3, <1>4, <1>5, <1>10 DEF Says, half

(* The words of every payload T1 produces for a valid message say what the  *)
(* message says, and so does the payload.                                   *)
THEOREM PayloadAlwaysFaithful == Spec => []PayloadFaithful
<1>1. StagesInv => (Ended("prepare_send") /\ kind = "J2.2" /\ data.errors = <<>>
                      => WordsFaithful)
  <2> SUFFICES ASSUME StagesInv, Ended("prepare_send"), kind = "J2.2", data.errors = <<>>
               PROVE  WordsFaithful
    OBVIOUS
  <2> DEFINE d == DecodeJ22(EncodeJ22(message))
  <2>1. /\ data.j22 = EncodeJ22(message) /\ message \in MessageTypes
        /\ Errors("J2.2", message) = <<>>
    BY DEF StagesInv, PrepareInv, MessagesOK, Holding, Ended
  <2>2. Valid(message)
    <3>1. /\ ~OutOfRange("J2.2", message, "latitude")
          /\ ~OutOfRange("J2.2", message, "longitude")
          /\ ~OutOfRange("J2.2", message, "altitude")
      BY <2>1, NoErrors
    <3>2. /\ message.lat \in -MaxLat..MaxLat /\ message.lon \in -MaxLon..MaxLon
          /\ message.alt \in 0..MaxAlt("J2.2")
      BY <3>1, Zenon DEF OutOfRange
    <3>3. message.course \in Courses /\ message.speed \in Int BY <2>1 DEF MessageTypes
    <3> QED BY <3>2, <3>3 DEF Valid
  <2>3. /\ Says(d, message)
        /\ d.lat \in -MaxLat..MaxLat /\ d.lon \in -MaxLon..MaxLon
        /\ d.alt \in 0..MaxAlt("J2.2")
    BY <2>2, WordsDecode, Zenon
  <2> HIDE DEF d
  <2>4. Errors("J2.2", d) = <<>>
    <3>1. /\ ~OutOfRange("J2.2", d, "latitude") /\ ~OutOfRange("J2.2", d, "longitude")
          /\ ~OutOfRange("J2.2", d, "altitude") /\ ~OutOfRange("J2.2", d, "heading")
      BY <2>3, Zenon DEF OutOfRange
    <3> QED BY <3>1, NoErrors
  <2>5. d = DecodeJ22(data.j22) BY <2>1 DEF d
  <2> QED BY <2>3, <2>4, <2>5, Zenon DEF WordsFaithful, Near, Says
<1>2. /\ Ended("prepare_send") /\ kind = "J2.2" => ContextFaithful
      /\ StagesInv
      => PayloadFaithful
  BY <1>1 DEF PayloadFaithful
<1> QED BY <1>2, StagesInvariant, ContextAlwaysFaithful, PTL
=============================================================================
