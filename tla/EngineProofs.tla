---------------------------- MODULE EngineProofs ----------------------------
(***************************************************************************)
(* Proofs about the engine for every set of definitions, nodes and         *)
(* outputs.                                                                *)
(***************************************************************************)
EXTENDS Engine, FiniteSetTheorems, SequenceTheorems, WellFoundedInduction, TLAPS

(* A nonempty set of naturals has a least element (FiniteSetsExt!Min picks  *)
(* it).  The prefixes 1..k ordered by strict inclusion are well founded.    *)
LEMMA MinIsLeast ==
  ASSUME NEW M \in SUBSET Nat, M # {}
  PROVE  Min(M) \in M /\ \A j \in M : Min(M) <= j
<1> DEFINE T == {1..k : k \in M}
<1>1. PICK x \in T : \A y \in T : ~ (<<y, x>> \in StrictSubsetOrdering(Nat))
  <2>1. T # {} OBVIOUS
  <2>2. T \subseteq FiniteSubsetsOf(Nat)
    <3>1. \A k \in M : IsFiniteSet(1..k) /\ 1..k \in SUBSET Nat
      BY FS_Interval
    <3> QED BY <3>1 DEF FiniteSubsetsOf
  <2> HIDE DEF T
  <2>3. IsWellFoundedOn(StrictSubsetOrdering(Nat), FiniteSubsetsOf(Nat))
    BY FS_StrictSubsetOrderingWellFounded
  <2> QED BY <2>1, <2>2, <2>3, WFMin
<1>2. PICK k \in M : x = 1..k OBVIOUS
<1>3. ASSUME NEW j \in M, j < k PROVE FALSE
  <2>1. 1..j \in T OBVIOUS
  <2>2. 1..j \subseteq 1..k BY <1>3
  <2>3. k \in 1..k /\ k \notin 1..j BY <1>3
  <2>4. <<1..j, 1..k>> \in StrictSubsetOrdering(Nat)
    BY <2>2, <2>3 DEF StrictSubsetOrdering
  <2> QED BY <2>1, <2>4, <1>1, <1>2
<1>4. \E m \in M : \A j \in M : m <= j BY <1>3
<1> QED BY <1>4 DEF Min

(* StepIndex returns 0 or a position of the stage that holds the step. *)
LEMMA StepIndexFinds ==
  ASSUME NEW steps \in Seq(StepDefs), NEW id
  PROVE  /\ StepIndex(steps, id) \in 0..Len(steps)
         /\ StepIndex(steps, id) # 0 => steps[StepIndex(steps, id)].id = id
<1> DEFINE hits == {i \in DOMAIN steps : steps[i].id = id}
<1>1. hits \in SUBSET Nat /\ hits \subseteq 1..Len(steps) OBVIOUS
<1>2. CASE hits = {} BY <1>2 DEF StepIndex
<1>3. CASE hits # {}
  <2>1. Min(hits) \in hits BY <1>1, <1>3, MinIsLeast
  <2> QED BY <1>1, <1>3, <2>1 DEF StepIndex
<1> QED BY <1>2, <1>3

(* GetStage returns 0 or the position of a stage of the definition. *)
LEMMA GetStageFinds ==
  ASSUME NEW d \in Seq(StageDefs), NEW id
  PROVE  GetStage(d, id) \in 0..Len(d)
<1> DEFINE hits == {i \in DOMAIN d : d[i].id = id}
<1>1. hits \in SUBSET Nat /\ hits \subseteq 1..Len(d) OBVIOUS
<1>2. CASE hits = {} BY <1>2 DEF GetStage
<1>3. CASE hits # {}
  <2>1. Min(hits) \in hits BY <1>1, <1>3, MinIsLeast
  <2> QED BY <1>1, <1>3, <2>1 DEF GetStage
<1> QED BY <1>2, <1>3

(* Route names a target the step declares: its default or a branch's. *)
LEMMA RouteDeclared ==
  ASSUME NEW step \in StepDefs, NEW output
  PROVE  \/ Route(output, step) = step.defaultGoto
         \/ \E k \in DOMAIN step.branches : Route(output, step) = step.branches[k].goto
<1> DEFINE M == Matching(output, step)
<1>1. CASE M = {} BY <1>1 DEF Route
<1>2. CASE M # {}
  <2>1. DOMAIN step.branches \subseteq Nat BY DEF StepDefs
  <2>2. M \subseteq DOMAIN step.branches BY DEF Matching
  <2>3. Min(M) \in M BY <1>2, <2>1, <2>2, MinIsLeast
  <2> QED BY <1>2, <2>2, <2>3 DEF Route
<1> QED BY <1>1, <1>2

(* The definition, if there is one, is one that may be loaded. *)
DefinitionOK == def = NoDef \/ def \in Definitions

(* Steps is a sequence of steps, and a stage that has steps is a stage of   *)
(* the definition that is loaded.                                           *)
LEMMA StepsAreSteps ==
  ASSUME DefinitionOK
  PROVE  /\ Steps \in Seq(StepDefs)
         /\ def = NoDef => Steps = <<>>
         /\ \A i \in 1..Len(Steps) : /\ GetStage(def, stage) \in DOMAIN def
                                      /\ Steps = def[GetStage(def, stage)].steps
<1>1. CASE def = NoDef \/ GetStage(def, stage) = 0 BY <1>1 DEF Steps
<1>2. CASE ~(def = NoDef \/ GetStage(def, stage) = 0)
  <2>1. def \in Seq(StageDefs) BY <1>2, DefinitionsAssumption DEF DefinitionOK
  <2>2. GetStage(def, stage) \in DOMAIN def BY <1>2, <2>1, GetStageFinds
  <2>3. def[GetStage(def, stage)] \in StageDefs
    BY <2>1, <2>2, ElementOfSeq, LenProperties
  <2>4. def[GetStage(def, stage)].steps \in Seq(StepDefs) BY <2>3 DEF StageDefs
  <2> QED BY <1>2, <2>2, <2>4 DEF Steps
<1> QED BY <1>1, <1>2

(* A target Run looks up in a validated definition is one Validate saw: it  *)
(* resolves to a position further on.                                       *)
LEMMA ValidatedTargets ==
  ASSUME DefinitionOK, Validate(def), NEW output, idx \in 1..Len(Steps),
         Route(output, Step) \notin {"", "end"}
  PROVE  StepIndex(Steps, Route(output, Step)) > idx
<1>1. Steps \in Seq(StepDefs) BY StepsAreSteps
<1>2. Step \in StepDefs BY <1>1, ElementOfSeq DEF Step
<1>3. ValidStep(Steps, idx)
  <2>1. GetStage(def, stage) \in DOMAIN def /\ Steps = def[GetStage(def, stage)].steps
    BY StepsAreSteps
  <2>2. idx \in DOMAIN Steps BY <1>1, LenProperties
  <2> QED BY <2>1, <2>2 DEF Validate
<1>4. CASE Route(output, Step) = Step.defaultGoto
  BY <1>3, <1>4 DEF ValidStep, ForwardTarget, Step
<1>5. CASE \E k \in DOMAIN Step.branches : Route(output, Step) = Step.branches[k].goto
  BY <1>3, <1>5 DEF ValidStep, ForwardTarget, Step
<1> QED BY <1>2, <1>4, <1>5, RouteDeclared

(***************************************************************************)
(* The inductive invariant: beside the three properties it says where a    *)
(* definition comes from and that idx never passes Len(Steps) + 1.         *)
(***************************************************************************)
EngineInv ==
  /\ TypeOK
  /\ DefinitionOK
  /\ loaded => def # NoDef /\ Validate(def)
  /\ def = NoDef => result = "none"
  /\ pc = "running" => idx <= Len(Steps) + 1 /\ result = "none"
  /\ ForwardProgress
  /\ LoadedNeverMisroutes

(* The program starts in a state of the invariant. *)
LEMMA EngineInit == Init => EngineInv
<1> SUFFICES ASSUME Init PROVE EngineInv OBVIOUS
<1>1. Steps = <<>> BY DEF Init, Steps
<1>2. <<>> \in Outputs
  <2>1. [f \in {} |-> CHOOSE v \in Values : TRUE] \in [{} -> Values] OBVIOUS
  <2>2. <<>> \in [{} -> Values] OBVIOUS
  <2> QED BY <2>2 DEF Outputs
<1>3. TypeOK
  <2>1. DOMAIN <<>> = {} /\ <<>> \in [{} -> Tokens] OBVIOUS
  <2>2. DOMAIN tokens = {} /\ tokens \in [DOMAIN tokens -> Tokens]
    BY <2>1, Zenon DEF Init
  <2>3. DOMAIN tokens \subseteq StageIds BY <2>2
  <2>4. lastOutput \in Outputs BY <1>2, Zenon DEF Init
  <2>5. idx \in Nat \ {0} /\ executed \subseteq Nat \ {0}
    <3>1. idx = 1 /\ executed = {} BY DEF Init
    <3> QED BY <3>1
  <2>6. result \in Results /\ pc \in {"ready", "running"} BY DEF Init, Results
  <2>7. pc = "running" => def # NoDef /\ stage \in DOMAIN tokens BY DEF Init
  <2>8. registry \subseteq Nodes /\ loaded \in BOOLEAN BY DEF Init
  <2> QED BY <2>2, <2>3, <2>4, <2>5, <2>6, <2>7, <2>8 DEF TypeOK
<1> QED BY <1>1, <1>3 DEF Init, EngineInv, DefinitionOK, ForwardProgress, LoadedNeverMisroutes

(* Extending a map keeps its type and its keys. *)
LEMMA ExtendType ==
  ASSUME NEW T, NEW F, NEW G, NEW f \in [F -> T], NEW g \in [G -> T]
  PROVE  Extend(f, g) \in [F \union G -> T]
BY DEF Extend

(* Merging the output of a node into token data gives a map of outputs. *)
LEMMA MergedData ==
  ASSUME NEW prev \in Outputs \union {Raw}, NEW output \in Outputs
  PROVE  /\ MergeContext(prev, output) \in Outputs
         /\ prev # Raw => DOMAIN prev \subseteq DOMAIN MergeContext(prev, output)
<1>1. CASE prev = Raw BY <1>1 DEF MergeContext
<1>2. CASE prev # Raw
  <2>1. PICK F \in SUBSET Fields : prev \in [F -> Values] BY <1>2 DEF Outputs
  <2>2. PICK G \in SUBSET Fields : output \in [G -> Values] BY DEF Outputs
  <2>3. Extend(prev, output) \in [F \union G -> Values] BY <2>1, <2>2, ExtendType
  <2>4. F \union G \in SUBSET Fields OBVIOUS
  <2>5. Extend(prev, output) \in Outputs BY <2>3, <2>4 DEF Outputs
  <2>6. DOMAIN prev = F /\ DOMAIN Extend(prev, output) = F \union G BY <2>1, <2>3
  <2> QED BY <1>2, <2>5, <2>6 DEF MergeContext
<1> QED BY <1>1, <1>2

(* While def and stage stay, so do the steps. *)
LEMMA StepsStay ==
  ASSUME def' = def, stage' = stage PROVE Steps' = Steps /\ (DefinitionOK => DefinitionOK')
BY DEF Steps, DefinitionOK

(* Registering nodes and building an instance preserve the invariant. *)
LEMMA EngineSetup ==
  ASSUME EngineInv,
         \/ \E n \in Nodes : Register(n)
         \/ def = NoDef /\ \E d \in Definitions : LoadWorkflow(d) \/ NewInstance(d)
  PROVE  EngineInv'
<1> USE DEF EngineInv
<1>1. ASSUME NEW n \in Nodes, Register(n) PROVE EngineInv'
  <2>1. Steps' = Steps /\ DefinitionOK' BY <1>1, StepsStay DEF Register, runVars
  <2>2. TypeOK' BY <1>1 DEF Register, runVars, TypeOK
  <2> QED BY <1>1, <2>1, <2>2 DEF Register, runVars, ForwardProgress, LoadedNeverMisroutes
<1>2. ASSUME def = NoDef, NEW d \in Definitions, LoadWorkflow(d) \/ NewInstance(d)
      PROVE  EngineInv'
  <2> USE DEF LoadWorkflow, NewInstance, runVars
  <2>1. executed = {} /\ pc = "ready"
    <3>1. Steps = <<>> BY <1>2, StepsAreSteps
    <3>2. 1..Len(<<>>) = {} OBVIOUS
    <3>3. executed = {} BY <3>1, <3>2 DEF ForwardProgress
    <3> QED BY <1>2, <3>3 DEF TypeOK
  <2>2. def' = d /\ d # NoDef /\ DefinitionOK'
    BY <1>2, DefinitionsAssumption DEF DefinitionOK
  <2>3. TypeOK' BY <1>2, <2>1 DEF TypeOK
  <2>4. loaded' => Validate(def')
    BY <1>2
  <2>5. ForwardProgress' BY <1>2, <2>1 DEF ForwardProgress
  <2>6. result \notin {"target_not_found", "forward_violation"} \/ ~loaded'
    BY <1>2 DEF LoadedNeverMisroutes
  <2>7. LoadedNeverMisroutes' BY <1>2, <2>6 DEF LoadedNeverMisroutes
  <2> QED BY <1>2, <2>1, <2>2, <2>3, <2>4, <2>5, <2>7
<1> QED BY <1>1, <1>2
(* A definition in the next state gives its stage finitely many steps. *)
LEMMA StepsPrimedSeq ==
  ASSUME DefinitionOK' PROVE Len(Steps') \in Nat
<1>1. Steps' \in Seq(StepDefs)
  <2>1. CASE def' = NoDef \/ GetStage(def', stage') = 0 BY <2>1 DEF Steps
  <2>2. CASE ~(def' = NoDef \/ GetStage(def', stage') = 0)
    <3>1. def' \in Seq(StageDefs) BY <2>2, DefinitionsAssumption DEF DefinitionOK
    <3>2. GetStage(def', stage') \in 1..Len(def') BY <2>2, <3>1, GetStageFinds
    <3>3. def'[GetStage(def', stage')] \in StageDefs BY <3>1, <3>2, ElementOfSeq
    <3> QED BY <2>2, <3>3 DEF Steps, StageDefs
  <2> QED BY <2>1, <2>2
<1> QED BY <1>1, LenProperties

(* Injecting a token and entering Run preserve the invariant. *)
LEMMA EngineCaller ==
  ASSUME EngineInv, NEW s \in StageIds,
         \/ \E data \in Injected : InjectToken(s, data)
         \/ RunRefused(s)
         \/ StartRun(s)
  PROVE  EngineInv'
<1> USE DEF EngineInv
<1>1. ASSUME NEW data \in Injected, InjectToken(s, data) PROVE EngineInv'
  <2> DEFINE token == [x \in {s} |-> [stepIndex |-> 1, data |-> data]]
  <2> USE DEF InjectToken, runVars
  <2>1. Steps' = Steps /\ DefinitionOK' BY <1>1, StepsStay
  <2>2. token \in [{s} -> Tokens] BY DataAssumption DEF Tokens
  <2>3. tokens' \in [DOMAIN tokens \union {s} -> Tokens]
    <3> HIDE DEF token
    <3>1. tokens \in [DOMAIN tokens -> Tokens] BY DEF TypeOK
    <3>2. tokens' = Extend(tokens, token) BY <1>1 DEF token
    <3> QED BY <2>2, <3>1, <3>2, ExtendType
  <2>4. DOMAIN tokens' = DOMAIN tokens \union {s} BY <2>3
  <2>5. TypeOK' BY <1>1, <2>3, <2>4 DEF TypeOK
  <2>6. ForwardProgress' BY <1>1, <2>1 DEF ForwardProgress
  <2>7. LoadedNeverMisroutes' BY <1>1 DEF LoadedNeverMisroutes
  <2> QED BY <1>1, <2>1, <2>5, <2>6, <2>7
<1>2. ASSUME RunRefused(s) PROVE EngineInv'
  <2> USE DEF RunRefused, Return
  <2>1. Steps' = Steps /\ DefinitionOK' BY <1>2, StepsStay
  <2>2. TypeOK' BY <1>2 DEF TypeOK, Results
  <2>3. pc' = "ready" /\ result' \in {"stage_not_found", "no_token"} BY <1>2
  <2>4. ForwardProgress' BY <1>2, <2>1, <2>3 DEF ForwardProgress
  <2>5. LoadedNeverMisroutes' BY <2>3 DEF LoadedNeverMisroutes
  <2> QED BY <1>2, <2>1, <2>2, <2>3, <2>4, <2>5
<1>3. ASSUME StartRun(s) PROVE EngineInv'
  <2> USE DEF StartRun
  <2>1. DefinitionOK' /\ executed' = {} /\ idx' = 1 /\ result' = "none"
    BY <1>3 DEF DefinitionOK
  <2>2. <<>> \in Outputs
    <3>1. <<>> \in [{} -> Values] OBVIOUS
    <3> QED BY <3>1 DEF Outputs
  <2>3. TypeOK'
    <3>1. lastOutput' \in Outputs BY <1>3, <2>2, Zenon
    <3> QED BY <1>3, <2>1, <3>1 DEF TypeOK, Results
  <2>4. idx' <= Len(Steps') + 1
    <3>1. Len(Steps') \in Nat BY <2>1, StepsPrimedSeq
    <3> QED BY <2>1, <3>1
  <2>5. ForwardProgress' BY <2>1 DEF ForwardProgress
  <2>6. LoadedNeverMisroutes' BY <2>1 DEF LoadedNeverMisroutes
  <2> QED BY <1>3, <2>1, <2>3, <2>4, <2>5, <2>6
<1> QED BY <1>1, <1>2, <1>3
(* What a step of Run has to establish, once it is known to stay in the     *)
(* stage, to have executed at most idx and not to have moved back.          *)
LEMMA EngineRunFrame ==
  ASSUME EngineInv, pc = "running", idx \in 1..Len(Steps),
         UNCHANGED <<registry, def, loaded, stage>>,
         tokens' \in [DOMAIN tokens -> Tokens], lastOutput' \in Outputs,
         executed' = executed \union {idx},
         pc' \in {"ready", "running"}, result' \in Results,
         idx' \in Nat, idx' <= Len(Steps) + 1,
         pc' = "running" => idx' > idx /\ result' = result,
         idx' >= idx,
         loaded => result' \notin {"target_not_found", "forward_violation"}
  PROVE  EngineInv'
<1> USE DEF EngineInv
<1>1. Steps' = Steps /\ DefinitionOK' BY StepsStay
<1>2. executed' \subseteq 1..Len(Steps) BY DEF ForwardProgress
<1>3. \A i \in executed' : i <= idx
  BY DEF ForwardProgress, TypeOK
<1>4. ForwardProgress'
  <2>1. ASSUME pc' = "running", NEW i \in executed' PROVE i < idx'
    <3>1. i \in Nat /\ idx \in Nat /\ idx' \in Nat BY <1>2
    <3>2. i <= idx /\ idx < idx' BY <1>3, <2>1, <3>1
    <3> QED BY <3>1, <3>2
  <2> QED BY <1>1, <1>2, <2>1 DEF ForwardProgress
<1>5. TypeOK'
  <2>1. DOMAIN tokens' = DOMAIN tokens OBVIOUS
  <2>2. idx' \in Nat \ {0} BY DEF TypeOK
  <2>3. executed' \subseteq Nat \ {0} BY DEF TypeOK
  <2> QED BY <2>1, <2>2, <2>3 DEF TypeOK
<1>6. def' # NoDef /\ (loaded' => Validate(def')) BY DEF TypeOK
<1>7. pc' = "running" => idx' <= Len(Steps') + 1 /\ result' = "none" BY <1>1
<1>8. LoadedNeverMisroutes' BY DEF LoadedNeverMisroutes
<1> QED BY <1>1, <1>4, <1>5, <1>6, <1>7, <1>8

(* An iteration of Run's loop preserves the invariant, however it ends. *)
LEMMA EngineRunStep == EngineInv /\ RunStep => EngineInv'
<1> SUFFICES ASSUME EngineInv, RunStep PROVE EngineInv' OBVIOUS
<1> USE DEF EngineInv
<1>0. /\ Steps \in Seq(StepDefs) /\ Len(Steps) \in Nat
      /\ tokens \in [DOMAIN tokens -> Tokens] /\ idx \in Nat \ {0}
  BY StepsAreSteps, LenProperties DEF TypeOK
<1>1. ASSUME StepFails PROVE EngineInv'
  <2> USE DEF StepFails
  <2>1. pc = "running" /\ idx \in 1..Len(Steps) /\ stage \in DOMAIN tokens
    BY <1>0, <1>1 DEF TypeOK
  <2>2. tokens' \in [DOMAIN tokens -> Tokens]
    <3>1. tokens[stage] \in Tokens BY <1>0, <2>1
    <3>2. [tokens[stage] EXCEPT !.stepIndex = idx] \in Tokens BY <1>0, <3>1 DEF Tokens
    <3>3. tokens' = [tokens EXCEPT ![stage] = [tokens[stage] EXCEPT !.stepIndex = idx]]
      BY <1>1
    <3> QED BY <1>0, <2>1, <3>2, <3>3
  <2>3. UNCHANGED <<registry, def, loaded, stage>> /\ executed' = executed \union {idx}
    BY <1>1
  <2>4. lastOutput' \in Outputs BY <1>1 DEF TypeOK
  <2>5. CASE Return("aborted") /\ idx' = idx
    <3>1. pc' = "ready" /\ result' = "aborted" /\ idx' = idx BY <2>5 DEF Return
    <3>2. idx' \in Nat /\ idx' <= Len(Steps) + 1 /\ idx' >= idx BY <1>0, <2>1, <3>1
    <3>3. result' \in Results BY <3>1 DEF Results
    <3> QED BY <2>1, <2>2, <2>3, <2>4, <3>1, <3>2, <3>3, EngineRunFrame
  <2>6. CASE idx' = SkipTo(idx) /\ UNCHANGED <<pc, result>>
    <3>1. idx' = idx + 1 BY <2>6 DEF SkipTo
    <3>2. idx' \in Nat /\ idx' <= Len(Steps) + 1 /\ idx' >= idx /\ idx' > idx
      BY <1>0, <2>1, <3>1
    <3>3. result' \in Results /\ pc' \in {"ready", "running"} BY <2>6 DEF TypeOK
    <3>4. loaded => result' \notin {"target_not_found", "forward_violation"}
      BY <2>6 DEF LoadedNeverMisroutes
    <3>5. result' = result BY <2>6
    <3> QED BY <2>1, <2>2, <2>3, <2>4, <3>2, <3>3, <3>4, <3>5, EngineRunFrame
  <2> QED BY <1>1, <2>5, <2>6
<1>2. ASSUME NEW output \in Outputs, StepSucceeds(output) PROVE EngineInv'
  <2> DEFINE next == Route(output, Step)
  <2> USE DEF StepSucceeds
  <2>1. pc = "running" /\ idx \in 1..Len(Steps) /\ stage \in DOMAIN tokens
    BY <1>0, <1>2 DEF TypeOK
  <2>2. tokens' \in [DOMAIN tokens -> Tokens]
    <3> DEFINE token == [stepIndex |-> idx,
                         data |-> MergeContext(tokens[stage].data, output)]
    <3>1. tokens[stage].data \in Outputs \union {Raw} BY <1>0, <2>1 DEF Tokens
    <3>2. token \in Tokens BY <1>0, <3>1, MergedData DEF Tokens
    <3>3. tokens' = [tokens EXCEPT ![stage] = token] BY <1>2
    <3> QED BY <1>0, <2>1, <3>2, <3>3
  <2>3. UNCHANGED <<registry, def, loaded, stage>> /\ executed' = executed \union {idx}
    BY <1>2
  <2>4. lastOutput' \in Outputs BY <1>2
  <2>5. CASE FallThrough(next) \/ RouteToEnd(next) \/ RouteTo(next)
    <3>1. UNCHANGED <<pc, result>> BY <2>5 DEF FallThrough, RouteToEnd, RouteTo
    <3>2. idx' \in Nat /\ idx' <= Len(Steps) + 1 /\ idx' > idx
      <4>1. CASE FallThrough(next)
        <5>1. idx' = idx + 1 BY <4>1 DEF FallThrough
        <5> QED BY <1>0, <2>1, <5>1
      <4>2. CASE RouteToEnd(next) BY <1>0, <2>1, <4>2 DEF RouteToEnd
      <4>3. CASE RouteTo(next)
        <5>1. StepIndex(Steps, next) \in 0..Len(Steps) BY <1>0, StepIndexFinds
        <5>2. idx' = StepIndex(Steps, next) /\ idx' > idx
          BY <4>3 DEF RouteTo, ForwardOnly
        <5> QED BY <1>0, <5>1, <5>2
      <4> QED BY <2>5, <4>1, <4>2, <4>3
    <3>3. idx' >= idx BY <1>0, <3>2
    <3>4. result' \in Results /\ pc' \in {"ready", "running"} BY <3>1 DEF TypeOK
    <3>5. loaded => result' \notin {"target_not_found", "forward_violation"}
      BY <3>1 DEF LoadedNeverMisroutes
    <3>6. result' = result BY <3>1
    <3> QED BY <2>1, <2>2, <2>3, <2>4, <3>2, <3>3, <3>4, <3>5, <3>6, EngineRunFrame
  <2>6. CASE RouteFails(next)
    <3>1. pc' = "ready" /\ idx' = idx BY <2>6 DEF RouteFails, Return
    <3>2. result' \in Results BY <2>6 DEF RouteFails, Return, Results
    <3>3. ASSUME loaded PROVE result' \notin {"target_not_found", "forward_violation"}
      <4>1. Validate(def) BY <3>3
      <4>2. next \notin {"", "end"} => StepIndex(Steps, next) > idx
        BY <2>1, <4>1, ValidatedTargets
      <4>3. StepIndex(Steps, next) \in Nat BY <1>0, StepIndexFinds
      <4>4. next \notin {"", "end"} =>
              StepIndex(Steps, next) # 0 /\ ForwardOnly(idx, StepIndex(Steps, next))
        <5>1. \A t \in Nat : t > idx => t # 0 /\ ForwardOnly(idx, t)
          BY <1>0 DEF ForwardOnly
        <5> QED BY <4>2, <4>3, <5>1
      <4>5. result' = "undefined_routing" BY <2>6, <4>4 DEF RouteFails, Return
      <4> QED BY <4>5
    <3>4. idx' \in Nat /\ idx' <= Len(Steps) + 1 /\ idx' >= idx BY <1>0, <2>1, <3>1
    <3> QED BY <2>1, <2>2, <2>3, <2>4, <3>1, <3>2, <3>3, <3>4, EngineRunFrame
  <2> QED BY <1>2, <2>5, <2>6
<1>3. ASSUME Complete PROVE EngineInv'
  <2> USE DEF Complete, Return
  <2>1. Steps' = Steps /\ DefinitionOK' BY <1>3, StepsStay
  <2>2. pc' = "ready" /\ result' = "completed" BY <1>3
  <2>3. TypeOK' BY <1>3, <2>2 DEF TypeOK, Results
  <2>4. ForwardProgress' BY <1>3, <2>1, <2>2 DEF ForwardProgress
  <2>5. LoadedNeverMisroutes' BY <2>2 DEF LoadedNeverMisroutes
  <2>6. def # NoDef BY <1>3 DEF TypeOK
  <2> QED BY <1>3, <2>1, <2>2, <2>3, <2>4, <2>5, <2>6
<1> QED BY <1>1, <1>2, <1>3 DEF RunStep

(* The invariant holds throughout. *)
THEOREM EngineInvariant == Spec => []EngineInv
<1>1. EngineInv /\ [Next]_vars => EngineInv'
  <2> SUFFICES ASSUME EngineInv, [Next]_vars PROVE EngineInv' OBVIOUS
  <2>1. CASE UNCHANGED vars
    <3>1. Steps' = Steps /\ (DefinitionOK => DefinitionOK')
      BY <2>1, StepsStay DEF vars
    <3> QED BY <2>1, <3>1 DEF vars, EngineInv, TypeOK, ForwardProgress, LoadedNeverMisroutes
  <2>2. CASE Next BY <2>2, EngineSetup, EngineCaller, EngineRunStep DEF Next
  <2> QED BY <2>1, <2>2
<1> QED BY <1>1, EngineInit, PTL DEF Spec

(* Every reachable state is well typed. *)
THEOREM TypeCorrect == Spec => []TypeOK
BY EngineInvariant, PTL DEF EngineInv

(* Proposition 1 for every definition: a Run takes its steps in increasing  *)
(* order, each at most once.                                                *)
THEOREM ForwardProgressHolds == Spec => []ForwardProgress
BY EngineInvariant, PTL DEF EngineInv

(* Validate is strong enough: a loaded definition never meets the run-time  *)
(* routing errors.                                                          *)
THEOREM ValidatedNeverMisroutes == Spec => []LoadedNeverMisroutes
BY EngineInvariant, PTL DEF EngineInv

(* A node's output never removes a field of the token's context. *)
THEOREM ContextNeverShrinks == Spec => ContextGrows
<1>1. EngineInv /\ [Next]_vars
        => [pc = "running" /\ tokens[stage].data # Raw =>
              DOMAIN tokens[stage].data \subseteq DOMAIN tokens'[stage].data]_vars
  <2> SUFFICES ASSUME EngineInv, Next, pc = "running", tokens[stage].data # Raw
               PROVE  DOMAIN tokens[stage].data \subseteq DOMAIN tokens'[stage].data
    OBVIOUS
  <2>1. stage \in DOMAIN tokens /\ tokens \in [DOMAIN tokens -> Tokens] /\ def # NoDef
    BY DEF EngineInv, TypeOK
  <2>2. RunStep
    BY <2>1 DEF Next, Register, InjectToken, RunRefused, StartRun
  <2>3. CASE StepFails
    <3>1. tokens'[stage].data = tokens[stage].data BY <2>1, <2>3 DEF StepFails, Tokens
    <3> QED BY <3>1
  <2>4. ASSUME NEW output \in Outputs, StepSucceeds(output)
        PROVE  DOMAIN tokens[stage].data \subseteq DOMAIN tokens'[stage].data
    <3>1. tokens'[stage].data = MergeContext(tokens[stage].data, output)
      BY <2>1, <2>4 DEF StepSucceeds
    <3>2. tokens[stage].data \in Outputs \union {Raw} BY <2>1 DEF Tokens
    <3> QED BY <3>1, <3>2, MergedData
  <2>5. CASE Complete BY <2>5 DEF Complete
  <2> QED BY <2>2, <2>3, <2>4, <2>5 DEF RunStep
<1> QED BY <1>1, EngineInvariant, PTL DEF Spec, ContextGrows
(***************************************************************************)
(* Refinement: with idx as the position and Len(Steps) + 1 as the limit,   *)
(* every engine step is a step of ForwardWalk or leaves it alone.          *)
(***************************************************************************)

(* Every engine step is a step of the walk. *)
LEMMA WalkStep ==
  ASSUME EngineInv, EngineInv', [Next]_vars PROVE [Walk!Next]_(Walk!wvars)
<1> USE DEF Walk!wvars, Walk!Next
<1>1. Len(Steps) \in Nat /\ Len(Steps') \in Nat
  BY StepsAreSteps, StepsPrimedSeq, LenProperties DEF EngineInv
<1>2. idx \in Nat /\ idx' \in Nat BY DEF EngineInv, TypeOK
<1>3. CASE UNCHANGED vars
  BY <1>3, StepsStay DEF vars
<1>4. ASSUME \/ \E n \in Nodes : Register(n)
             \/ def = NoDef /\ \E d \in Definitions : LoadWorkflow(d) \/ NewInstance(d)
             \/ \E s \in StageIds, data \in Injected : InjectToken(s, data)
             \/ \E s \in StageIds : RunRefused(s)
      PROVE  Walk!Rest
  <2>1. idx' = idx
    BY <1>4 DEF Register, LoadWorkflow, NewInstance, InjectToken, RunRefused, runVars
  <2>2. pc = "ready" /\ pc' = "ready"
    BY <1>4 DEF Register, LoadWorkflow, NewInstance, InjectToken, RunRefused, Return,
                runVars, EngineInv, TypeOK
  <2> QED BY <1>1, <2>1, <2>2 DEF Walk!Rest
<1>5. ASSUME NEW s \in StageIds, StartRun(s) PROVE Walk!Start
  BY <1>1, <1>5 DEF StartRun, Walk!Start
<1>6. ASSUME RunStep PROVE Walk!Advance \/ Walk!Stop
  <2>1. Len(Steps') = Len(Steps)
    <3>1. def' = def /\ stage' = stage
      BY <1>6 DEF RunStep, StepFails, StepSucceeds, Complete
    <3> QED BY <3>1, StepsStay
  <2>2. pc = "running" BY <1>6 DEF RunStep, StepFails, StepSucceeds, Complete
  <2>3. CASE pc' = "running"
    <3>1. idx \in executed'
      BY <1>6, <2>3 DEF RunStep, StepFails, StepSucceeds, Complete, Return
    <3>2. idx < idx' /\ idx' <= Len(Steps') + 1
      BY <2>3, <3>1 DEF EngineInv, ForwardProgress
    <3>3. idx' \in (idx + 1)..(Len(Steps) + 1) BY <1>1, <1>2, <2>1, <3>2
    <3> QED BY <2>1, <2>2, <2>3, <3>3 DEF Walk!Advance
  <2>4. CASE pc' = "ready"
    <3>1. idx' = idx
      BY <1>6, <2>2, <2>4 DEF RunStep, StepFails, StepSucceeds, Complete, Return,
                         FallThrough, RouteToEnd, RouteTo, RouteFails
    <3> QED BY <2>1, <2>2, <2>4, <3>1 DEF Walk!Stop
  <2> QED BY <2>3, <2>4 DEF EngineInv, TypeOK
<1> QED BY <1>3, <1>4, <1>5, <1>6 DEF Next

(* The engine implements the safety part of ForwardWalk. *)
THEOREM EngineImplementsWalk == Spec => Walk!Safety
<1>1. Init => Walk!Init
  <2> SUFFICES ASSUME Init PROVE Walk!Init OBVIOUS
  <2>1. Steps = <<>> BY DEF Init, Steps
  <2>2. Len(<<>>) + 1 \in Nat \ {0} OBVIOUS
  <2>3. Len(Steps) + 1 \in Nat \ {0} BY <2>1, <2>2
  <2> QED BY <2>3 DEF Init, Walk!Init
<1>2. EngineInv /\ EngineInv' /\ [Next]_vars => [Walk!Next]_(Walk!wvars)
  BY WalkStep
<1> QED BY <1>1, <1>2, EngineInvariant, PTL DEF Spec, Walk!Safety
(***************************************************************************)
(* Branching on both values of a boolean.                                  *)
(***************************************************************************)

(* One of the two conditions `f == true`, `f == false` holds. *)
LEMMA OneBooleanHolds ==
  ASSUME NEW output, NEW f \in DOMAIN output, output[f].kind = "bool",
         output[f].val \in BOOLEAN
  PROVE  \/ Holds([form |-> "equality", field |-> f, literal |-> "true"], output)
         \/ Holds([form |-> "equality", field |-> f, literal |-> "false"], output)
BY DEF Holds, BoolEquals

(* A position further on is not 0. *)
LEMMA PositionAbove ==
  ASSUME NEW n \in Nat, NEW i \in 1..n, NEW t \in 0..n, t > i
  PROVE  t \in 1..n /\ t # 0
OBVIOUS

(* A branch of a validated step has a target that is not empty. *)
LEMMA ValidatedBranchTarget ==
  ASSUME NEW steps \in Seq(StepDefs), UniqueStepIds(steps), NEW i \in DOMAIN steps,
         ValidStep(steps, i), NEW k \in DOMAIN steps[i].branches
  PROVE  steps[i].branches[k].goto # ""
<1> SUFFICES ASSUME steps[i].branches[k].goto = "" PROVE FALSE OBVIOUS
<1>1. Len(steps) \in Nat /\ DOMAIN steps = 1..Len(steps) BY LenProperties
<1>2. StepIndex(steps, "") > i BY DEF ValidStep, ForwardTarget
<1>3. StepIndex(steps, "") \in 0..Len(steps) BY StepIndexFinds
<1>4. StepIndex(steps, "") \in DOMAIN steps /\ StepIndex(steps, "") # 0
  BY <1>1, <1>2, <1>3, PositionAbove
<1>5. steps[StepIndex(steps, "")].id = "" BY <1>4, StepIndexFinds
<1> QED BY <1>4, <1>5 DEF UniqueStepIds

(* BothBooleansRouted is inductive relative to EngineInv. *)
LEMMA BothBooleansStep ==
  ASSUME EngineInv, EngineInv', BothBooleansRouted, [Next]_vars
  PROVE  BothBooleansRouted'
<1>1. CASE UNCHANGED <<def, stage, idx, result, lastOutput, loaded>>
  <2>1. Steps' = Steps /\ Step' = Step BY <1>1, StepsStay DEF Step
  <2> QED BY <1>1, <2>1 DEF BothBooleansRouted
<1>2. CASE result' # "undefined_routing" BY <1>2 DEF BothBooleansRouted
<1>3. ASSUME NEW output \in Outputs, StepSucceeds(output),
             loaded', result' = "undefined_routing",
             NEW f \in DOMAIN lastOutput',
             NEW k \in DOMAIN Step'.branches, NEW m \in DOMAIN Step'.branches,
             lastOutput'[f].kind = "bool", lastOutput'[f].val \in BOOLEAN,
             Step'.branches[k].condition = [form |-> "equality", field |-> f, literal |-> "true"],
             Step'.branches[m].condition = [form |-> "equality", field |-> f, literal |-> "false"]
      PROVE  FALSE
  <2>1. /\ pc = "running" /\ idx \in 1..Len(Steps) /\ Steps \in Seq(StepDefs)
        /\ DOMAIN Steps = 1..Len(Steps) /\ loaded
    <3>1. idx \in Nat \ {0} /\ Steps \in Seq(StepDefs)
      BY StepsAreSteps DEF EngineInv, TypeOK
    <3>2. DOMAIN Steps = 1..Len(Steps) /\ Len(Steps) \in Nat BY <3>1, LenProperties
    <3> QED BY <1>3, <3>1, <3>2 DEF StepSucceeds
  <2>2. result = "none" BY <2>1 DEF EngineInv
  <2>3. RouteFails(Route(output, Step)) /\ Route(output, Step) = "" /\ idx' = idx
    <3>1. RouteFails(Route(output, Step))
      BY <1>3, <2>2 DEF StepSucceeds, FallThrough, RouteToEnd, RouteTo
    <3> QED BY <1>3, <3>1 DEF RouteFails, Return
  <2>4. Step' = Step /\ lastOutput' = output
    <3>1. Steps' = Steps BY <1>3, StepsStay DEF StepSucceeds
    <3> QED BY <1>3, <2>3, <3>1 DEF StepSucceeds, Step
  <2>5. Step \in StepDefs /\ DOMAIN Step.branches \subseteq Nat
    <3>1. Step \in StepDefs BY <2>1, ElementOfSeq DEF Step
    <3> QED BY <3>1 DEF StepDefs
  <2>6. PICK b \in DOMAIN Step.branches : Holds(Step.branches[b].condition, output)
    BY <1>3, <2>4, OneBooleanHolds
  <2>7. PICK c \in DOMAIN Step.branches : Step.branches[c].goto = ""
    <3>1. Matching(output, Step) # {} BY <2>6 DEF Matching
    <3>2. Matching(output, Step) \in SUBSET Nat BY <2>5 DEF Matching
    <3>3. Min(Matching(output, Step)) \in Matching(output, Step)
      BY <3>1, <3>2, MinIsLeast
    <3>4. Route(output, Step) = Step.branches[Min(Matching(output, Step))].goto
      BY <3>1 DEF Route
    <3> QED BY <2>3, <3>3, <3>4 DEF Matching
  <2>8. UniqueStepIds(Steps) /\ ValidStep(Steps, idx)
    <3>1. GetStage(def, stage) \in DOMAIN def /\ Steps = def[GetStage(def, stage)].steps
      BY <2>1, StepsAreSteps DEF EngineInv
    <3>2. Validate(def) BY <2>1 DEF EngineInv
    <3> QED BY <2>1, <3>1, <3>2 DEF Validate
  <2> QED BY <2>1, <2>7, <2>8, ValidatedBranchTarget DEF Step
<1>4. CASE \E output \in Outputs : StepSucceeds(output)
  BY <1>3, <1>4 DEF BothBooleansRouted
<1>5. CASE Next /\ ~ \E output \in Outputs : StepSucceeds(output)
  <2>1. \/ \E n \in Nodes : Register(n)
        \/ \E d \in Definitions : LoadWorkflow(d) \/ NewInstance(d)
        \/ \E s \in StageIds, data \in Injected : InjectToken(s, data)
        \/ \E s \in StageIds : RunRefused(s) \/ StartRun(s)
        \/ StepFails \/ Complete
    BY <1>5 DEF Next, RunStep
  <2>2. CASE \/ \E n \in Nodes : Register(n)
             \/ \E s \in StageIds, data \in Injected : InjectToken(s, data)
    BY <1>1, <2>2 DEF Register, InjectToken, runVars
  <2>3. CASE \E d \in Definitions : LoadWorkflow(d) \/ NewInstance(d)
    <3>1. result' = "none" BY <2>3 DEF LoadWorkflow, NewInstance, runVars, EngineInv
    <3> QED BY <1>2, <3>1
  <2>4. CASE \E s \in StageIds : RunRefused(s) \/ StartRun(s)
    BY <1>2, <2>4 DEF RunRefused, StartRun, Return
  <2>5. CASE StepFails \/ Complete
    <3>1. result' \in {"aborted", "completed", "none"}
      BY <2>5 DEF StepFails, Complete, Return, EngineInv
    <3> QED BY <1>2, <3>1
  <2> QED BY <2>1, <2>2, <2>3, <2>4, <2>5
<1>6. CASE UNCHANGED vars BY <1>1, <1>6 DEF vars
<1> QED BY <1>4, <1>5, <1>6

(* A loaded step that covers both values of a boolean always routes. *)
THEOREM BothBooleansAlwaysRouted == Spec => []BothBooleansRouted
<1>1. Init => BothBooleansRouted BY DEF Init, BothBooleansRouted
<1>2. EngineInv /\ EngineInv' /\ BothBooleansRouted /\ [Next]_vars => BothBooleansRouted'
  BY BothBooleansStep
<1> QED BY <1>1, <1>2, EngineInvariant, PTL DEF Spec

(***************************************************************************)
(* Skipped steps.  While a Run is in progress, the step it is about to     *)
(* execute is the first one or follows the last one executed, which is     *)
(* what makes SkipsAreDeclared inductive.                                  *)
(***************************************************************************)

(* idx comes after position m in the text or by a target of step m. *)
Follows(m) == \/ idx = m + 1
              \/ idx <= Len(Steps) /\ Steps[idx].id \in Targets(m)
              \/ idx = Len(Steps) + 1 /\ "end" \in Targets(m)

(* m is the last position Run has executed. *)
LastExecuted(m) == m \in executed /\ \A k \in executed : k <= m

(* idx is where a Run that executed these positions may be. *)
Continues == \/ executed = {} /\ idx = 1
             \/ \E m \in executed : LastExecuted(m) /\ Follows(m)

(* Between two executed positions nothing is passed over undeclared. *)
GapsDeclared ==
  /\ \A i, j \in executed :
        (i < j /\ \A m \in executed : m <= i \/ m >= j)
           => j = i + 1 \/ Steps[j].id \in Targets(i)
  /\ executed # {} => 1 \in executed

(* A completed Run left by its last position or by a declared "end". *)
EndDeclared == result = "completed" /\ Steps # <<>>
                 => Len(Steps) \in executed \/ "end" \in Targets(Max(executed))

(* The inductive invariant behind SkipsAreDeclared. *)
SkipInv == GapsDeclared /\ EndDeclared /\ (pc = "running" => Continues)

(* The greatest of a set of naturals, where there is one, is its Max. *)
LEMMA MaxIsGreatest ==
  ASSUME NEW M \in SUBSET Nat, NEW m \in M, \A k \in M : k <= m
  PROVE  Max(M) = m
<1>1. m \in M /\ \A k \in M : m >= k OBVIOUS
<1>2. \E x \in M : \A k \in M : x >= k BY <1>1
<1>3. Max(M) \in M /\ \A k \in M : Max(M) >= k BY <1>2 DEF Max
<1>4. Max(M) \in Nat /\ m \in Nat /\ Max(M) >= m /\ m >= Max(M) BY <1>1, <1>3
<1> QED BY <1>4

(* While the steps and the history of the Run stay, the gaps in it stay     *)
(* declared.                                                                *)
LEMMA SkipsStay ==
  ASSUME EngineInv, SkipInv, UNCHANGED <<def, stage, idx, executed>>,
         result' = "completed" => result = "completed",
         pc' = "running" => pc = "running"
  PROVE  SkipInv'
<1>1. Steps' = Steps BY StepsStay
<1>2. \A i : Targets(i)' = Targets(i) BY <1>1 DEF Targets
<1>3. GapsDeclared' BY <1>1, <1>2 DEF SkipInv, GapsDeclared
<1>5. EndDeclared'
  <2> DEFINE m == Max(executed)
  <2>1. m' = m /\ Targets(m)' = Targets(m) BY <1>1 DEF Targets
  <2> QED BY <1>1, <2>1 DEF SkipInv, EndDeclared
<1>4. ASSUME pc' = "running" PROVE Continues'
  <2>1. Continues BY <1>4 DEF SkipInv
  <2>2. CASE executed = {} /\ idx = 1 BY <2>2 DEF Continues
  <2>3. ASSUME NEW m \in executed, LastExecuted(m), Follows(m) PROVE Continues'
    <3>1. Follows(m)' BY <1>1, <1>2, <2>3 DEF Follows, Targets
    <3>2. LastExecuted(m)' BY <2>3 DEF LastExecuted
    <3> QED BY <3>1, <3>2 DEF Continues
  <2> QED BY <2>1, <2>2, <2>3 DEF Continues
<1> QED BY <1>3, <1>4, <1>5 DEF SkipInv

(* Executing the step at idx leaves no undeclared gap behind it. *)
LEMMA SkipsExtend ==
  ASSUME EngineInv, SkipInv, pc = "running", idx \in 1..Len(Steps),
         UNCHANGED <<def, stage>>, executed' = executed \union {idx},
         result' # "completed"
  PROVE  GapsDeclared' /\ EndDeclared' /\ \A k \in executed' : k <= idx
<1>1. Steps' = Steps BY StepsStay
<1>2. \A i : Targets(i)' = Targets(i) BY <1>1 DEF Targets
<1>3. executed \in SUBSET Nat /\ (\A i \in executed : i < idx) /\ Len(Steps) \in Nat
  BY StepsAreSteps, LenProperties DEF EngineInv, TypeOK, ForwardProgress
<1>4. Continues BY DEF SkipInv
<1>5. ASSUME NEW i \in executed', NEW j \in executed', i < j,
             \A m \in executed' : m <= i \/ m >= j
      PROVE  j = i + 1 \/ Steps[j].id \in Targets(i)
  <2>1. i \in executed
    <3>1. CASE i = idx
      <4>1. j \in executed BY <1>5, <1>3, <3>1
      <4> QED BY <1>3, <1>5, <3>1, <4>1
    <3> QED BY <3>1
  <2>2. CASE j = idx
    <3>1. PICK m \in executed : LastExecuted(m) /\ Follows(m) BY <1>4, <2>1 DEF Continues
    <3>2. m = i
      <4>1. m <= i \/ m >= idx BY <1>5, <2>2
      <4>2. m < idx /\ i <= m BY <1>3, <2>1, <3>1 DEF LastExecuted
      <4> QED BY <1>3, <2>1, <4>1, <4>2
    <3> QED BY <1>3, <2>2, <3>1, <3>2 DEF Follows
  <2>3. CASE j # idx
    <3>1. j \in executed /\ \A m \in executed : m <= i \/ m >= j BY <1>5, <2>3
    <3> QED BY <1>5, <2>1, <3>1 DEF SkipInv, GapsDeclared
  <2> QED BY <2>2, <2>3
<1>6. 1 \in executed'
  BY <1>4, <1>3 DEF Continues, SkipInv, GapsDeclared
<1>7. GapsDeclared' BY <1>1, <1>2, <1>5, <1>6 DEF GapsDeclared
<1>8. ASSUME NEW k \in executed' PROVE k <= idx BY <1>3
<1> QED BY <1>7, <1>8 DEF EndDeclared

(* An iteration of Run's loop goes on to the next position, to a target of  *)
(* the step it executed or to the end, and completes only from there.       *)
LEMMA SkipsRunStep == EngineInv /\ SkipInv /\ RunStep => SkipInv'
<1> SUFFICES ASSUME EngineInv, SkipInv, RunStep PROVE SkipInv' OBVIOUS
<1>0. /\ Steps \in Seq(StepDefs) /\ Len(Steps) \in Nat /\ idx \in Nat \ {0}
      /\ executed \in SUBSET (1..Len(Steps))
  BY StepsAreSteps, LenProperties DEF EngineInv, TypeOK, ForwardProgress
<1>1. ASSUME pc = "running", idx <= Len(Steps), UNCHANGED <<def, stage>>,
             executed' = executed \union {idx}, result' # "completed",
             \/ pc' = "ready"
             \/ idx' = idx + 1
             \/ idx' <= Len(Steps) /\ Steps[idx'].id \in Targets(idx)
             \/ idx' = Len(Steps) + 1 /\ "end" \in Targets(idx)
      PROVE  SkipInv'
  <2>1. idx \in 1..Len(Steps) BY <1>0, <1>1
  <2>2. GapsDeclared' /\ EndDeclared' /\ \A k \in executed' : k <= idx
    BY <1>1, <2>1, SkipsExtend
  <2>3. ASSUME pc' = "running" PROVE Continues'
    <3>1. Steps' = Steps BY <1>1, StepsStay
    <3>2. PICK m : m = idx OBVIOUS
    <3>3. m \in executed' /\ LastExecuted(m)' BY <1>1, <2>2, <3>2 DEF LastExecuted
    <3>4. Follows(m)'
      <4>1. Targets(m)' = Targets(idx) BY <3>1, <3>2 DEF Targets
      <4> HIDE DEF Targets
      <4> QED BY <1>1, <2>3, <3>1, <3>2, <4>1 DEF Follows
    <3> QED BY <3>3, <3>4 DEF Continues
  <2> QED BY <2>2, <2>3 DEF SkipInv
<1>2. CASE StepFails
  <2>1. /\ pc = "running" /\ idx <= Len(Steps) /\ UNCHANGED <<def, stage>>
        /\ executed' = executed \union {idx}
        /\ pc' = "ready" \/ idx' = idx + 1
    BY <1>2 DEF StepFails, Return, SkipTo
  <2>2. result' # "completed" BY <1>2 DEF StepFails, Return, EngineInv
  <2> QED BY <1>1, <2>1, <2>2
<1>3. ASSUME NEW output \in Outputs, StepSucceeds(output) PROVE SkipInv'
  <2> DEFINE next == Route(output, Step)
  <2>1. /\ pc = "running" /\ idx <= Len(Steps) /\ UNCHANGED <<def, stage>>
        /\ executed' = executed \union {idx}
        /\ FallThrough(next) \/ RouteToEnd(next) \/ RouteTo(next) \/ RouteFails(next)
    BY <1>3 DEF StepSucceeds
  <2>2. next \in Targets(idx)
    <3>1. idx \in 1..Len(Steps) BY <1>0, <2>1
    <3>2. Step \in StepDefs BY <1>0, <3>1, ElementOfSeq DEF Step
    <3> QED BY <3>2, RouteDeclared DEF Step, Targets
  <2>3. result' # "completed"
    BY <2>1 DEF FallThrough, RouteToEnd, RouteTo, RouteFails, Return, EngineInv
  <2>4. CASE FallThrough(next) BY <1>1, <2>1, <2>3, <2>4 DEF FallThrough
  <2>5. CASE RouteToEnd(next)
    <3>1. idx' = Len(Steps) + 1 /\ "end" \in Targets(idx)
      BY <2>2, <2>5 DEF RouteToEnd
    <3> QED BY <1>1, <2>1, <2>3, <3>1
  <2>6. CASE RouteTo(next)
    <3>1. idx' = StepIndex(Steps, next) /\ idx' # 0 BY <2>6 DEF RouteTo
    <3>2. idx' \in 0..Len(Steps) /\ Steps[idx'].id = next BY <1>0, <3>1, StepIndexFinds
    <3>3. idx' <= Len(Steps) /\ Steps[idx'].id \in Targets(idx) BY <1>0, <2>2, <3>2
    <3> QED BY <1>1, <2>1, <2>3, <3>3
  <2>7. CASE RouteFails(next)
    <3>1. pc' = "ready" BY <2>7 DEF RouteFails, Return
    <3> QED BY <1>1, <2>1, <2>3, <3>1
  <2> QED BY <2>1, <2>4, <2>5, <2>6, <2>7
<1>4. CASE Complete
  <2>1. /\ pc = "running" /\ pc' = "ready" /\ UNCHANGED <<def, stage, idx, executed>>
        /\ idx > Len(Steps)
    BY <1>4 DEF Complete, Return
  <2>2. Steps' = Steps BY <2>1, StepsStay
  <2>3. GapsDeclared' BY <2>1, <2>2 DEF SkipInv, GapsDeclared, Targets
  <2>4. Steps = <<>> \/ Len(Steps) \in executed \/ "end" \in Targets(Max(executed))
    <3>1. CASE executed = {} /\ idx = 1
      <4>1. Len(Steps) = 0 BY <1>0, <2>1, <3>1
      <4> QED BY <1>0, <4>1, EmptySeq
    <3>2. ASSUME NEW m \in executed, LastExecuted(m), Follows(m)
          PROVE  Len(Steps) \in executed \/ "end" \in Targets(Max(executed))
      <4>1. Max(executed) = m
        <5>1. executed \in SUBSET Nat BY <1>0
        <5> QED BY <3>2, <5>1, MaxIsGreatest DEF LastExecuted
      <4>2. CASE idx = m + 1
        <5>1. m \in 1..Len(Steps) BY <1>0, <3>2
        <5>2. m = Len(Steps) BY <1>0, <2>1, <4>2, <5>1
        <5> QED BY <3>2, <5>2
      <4>3. ~(idx <= Len(Steps)) BY <1>0, <2>1
      <4> QED BY <3>2, <4>1, <4>2, <4>3 DEF Follows
    <3> QED BY <2>1, <3>1, <3>2 DEF SkipInv, Continues
  <2>5. EndDeclared'
    <3> DEFINE m == Max(executed)
    <3>1. m' = m /\ Targets(m)' = Targets(m) BY <2>1, <2>2 DEF Targets
    <3> QED BY <2>1, <2>2, <2>4, <3>1 DEF EndDeclared
  <2> QED BY <2>1, <2>3, <2>5 DEF SkipInv
<1> QED BY <1>2, <1>3, <1>4 DEF RunStep

(* SkipInv is inductive relative to EngineInv. *)
LEMMA SkipsStep == EngineInv /\ SkipInv /\ [Next]_vars => SkipInv'
<1> SUFFICES ASSUME EngineInv, SkipInv, [Next]_vars PROVE SkipInv' OBVIOUS
<1>1. CASE UNCHANGED vars BY <1>1, SkipsStay DEF vars
<1>2. CASE \E n \in Nodes : Register(n)
  BY <1>2, SkipsStay DEF Register, runVars
<1>3. CASE def = NoDef /\ \E d \in Definitions : LoadWorkflow(d) \/ NewInstance(d)
  <2>1. executed = {} /\ pc = "ready" /\ result = "none"
    <3>1. Steps = <<>> BY <1>3, StepsAreSteps DEF EngineInv
    <3>2. 1..Len(<<>>) = {} OBVIOUS
    <3>3. executed = {} BY <3>1, <3>2 DEF EngineInv, ForwardProgress
    <3> QED BY <1>3, <3>3 DEF EngineInv, TypeOK
  <2>2. executed' = {} /\ pc' = "ready" /\ result' = "none"
    BY <1>3, <2>1 DEF LoadWorkflow, NewInstance, runVars
  <2> QED BY <2>2 DEF SkipInv, GapsDeclared, EndDeclared
<1>4. CASE \E s \in StageIds, data \in Injected : InjectToken(s, data)
  BY <1>4, SkipsStay DEF InjectToken, runVars
<1>5. CASE \E s \in StageIds : RunRefused(s)
  BY <1>5, SkipsStay DEF RunRefused, Return
<1>6. CASE \E s \in StageIds : StartRun(s)
  <2>1. executed' = {} /\ idx' = 1 /\ result' = "none" BY <1>6 DEF StartRun
  <2> QED BY <2>1 DEF SkipInv, GapsDeclared, EndDeclared, Continues
<1>7. CASE RunStep BY <1>7, SkipsRunStep
<1> QED BY <1>1, <1>2, <1>3, <1>4, <1>5, <1>6, <1>7 DEF Next

(* For every definition, validated or not, and whatever the nodes return,   *)
(* Run passes over a step only when the definition says so.                 *)
THEOREM SkipsAlwaysDeclared == Spec => []SkipsAreDeclared
<1>1. Init => SkipInv
  BY DEF Init, SkipInv, GapsDeclared, EndDeclared
<1>2. SkipInv => SkipsAreDeclared
  BY DEF SkipInv, GapsDeclared, EndDeclared, SkipsAreDeclared
<1> QED BY <1>1, <1>2, SkipsStep, EngineInvariant, PTL DEF Spec
=============================================================================
