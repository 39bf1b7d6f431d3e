------------------------------- MODULE Engine -------------------------------
(***************************************************************************)
(* The workflow engine of workflow/engine.go: nodes are registered, a      *)
(* definition is loaded (validated) or assembled by the program (not       *)
(* validated), tokens are injected into stages, and Run walks one stage,   *)
(* executing a node per step and routing on its output.                    *)
(*                                                                         *)
(* An instance belongs to one goroutine, so one Run is in progress at a    *)
(* time.  What a node does is open: it fails or returns any output of      *)
(* Outputs.  The iteration of Run's loop for one step is one action, and   *)
(* its way of ending (error policy, fall-through, "end", goto, refusal) is *)
(* a disjunct of its own.                                                  *)
(***************************************************************************)
EXTENDS WorkflowDef

CONSTANTS Definitions, \* workflow definitions that may be loaded or assembled
          Nodes,       \* node names that may be registered
          StageIds,    \* stage IDs a caller may name
          Injected,    \* data InjectToken is called with: Raw or an output
          Raw,         \* token data that is not a map
          NoDef        \* no definition yet

ASSUME DefinitionsAssumption ==
  NoDef \notin Definitions /\ Definitions \subseteq Seq(StageDefs)

ASSUME DataAssumption ==
  Raw \notin Outputs /\ Injected \subseteq Outputs \union {Raw}

VARIABLES registry,    \* names in the NodeRegistry
          def,         \* Definition of the instance
          loaded,      \* the definition went through LoadWorkflow
          tokens,      \* Tokens of the instance: stage ID -> [stepIndex, data]
          pc,          \* "ready" or "running": is a Run in progress
          stage,       \* its stage ID
          idx,         \* its stepIndex, from 1 to Len(steps) + 1
          result,      \* what the last Run returned; "none" before that
          executed,    \* history: positions whose node this Run has executed
          lastOutput   \* history: output of the last successful node

vars == <<registry, def, loaded, tokens, pc, stage, idx, result, executed, lastOutput>>
runVars == <<pc, stage, idx, result, executed, lastOutput>>

Results == {"none", "completed", "stage_not_found", "no_token", "aborted",
            "undefined_routing", "target_not_found", "forward_violation"}

Steps == IF def = NoDef \/ GetStage(def, stage) = 0 THEN <<>> ELSE def[GetStage(def, stage)].steps
Step  == Steps[idx]

Init == /\ registry = {}
        /\ def = NoDef
        /\ loaded = FALSE
        /\ tokens = <<>>
        /\ pc = "ready"
        /\ stage = ""
        /\ idx = 1
        /\ result = "none"
        /\ executed = {}
        /\ lastOutput = <<>>

(* Register: a name that is taken is refused and changes nothing. Programs  *)
(* register their nodes before they build an instance.                      *)
Register(n) ==
  /\ def = NoDef
  /\ n \notin registry
  /\ registry' = registry \union {n}
  /\ UNCHANGED <<def, loaded, tokens, runVars>>

(* LoadWorkflow and NewInstance: an invalid definition is refused. *)
LoadWorkflow(d) ==
  /\ def = NoDef
  /\ Validate(d)
  /\ def' = d
  /\ loaded' = TRUE
  /\ UNCHANGED <<registry, tokens, runVars>>

(* NewInstance on a definition assembled in Go, which nothing validates. *)
NewInstance(d) ==
  /\ def = NoDef
  /\ def' = d
  /\ UNCHANGED <<registry, loaded, tokens, runVars>>

(* The map f with the entries of g added; g wins where both have one. *)
Extend(f, g) == [x \in DOMAIN f \union DOMAIN g |->
                   IF x \in DOMAIN g THEN g[x] ELSE f[x]]

InjectToken(s, data) ==
  /\ def # NoDef
  /\ pc = "ready"
  /\ tokens' = Extend(tokens, [x \in {s} |-> [stepIndex |-> 1, data |-> data]])
  /\ UNCHANGED <<registry, def, loaded, runVars>>

Return(r) == pc' = "ready" /\ result' = r

RunRefused(s) ==
  /\ def # NoDef
  /\ pc = "ready"
  /\ \/ GetStage(def, s) = 0 /\ Return("stage_not_found")
     \/ GetStage(def, s) # 0 /\ s \notin DOMAIN tokens /\ Return("no_token")
  /\ UNCHANGED <<registry, def, loaded, tokens, stage, idx, executed, lastOutput>>

StartRun(s) ==
  /\ def # NoDef
  /\ pc = "ready"
  /\ GetStage(def, s) # 0
  /\ s \in DOMAIN tokens
  /\ pc' = "running"
  /\ stage' = s
  /\ idx' = 1
  /\ result' = "none"
  /\ executed' = {}
  /\ lastOutput' = <<>>
  /\ UNCHANGED <<registry, def, loaded, tokens>>

(* mergeContext: the node's output wins over the fields of earlier steps. *)
MergeContext(prev, output) == IF prev = Raw THEN output ELSE Extend(prev, output)

(* Faulty variant: a skipped step is tried again. *)
RetrySkipped(i) == i

(* Faulty variant: a skipped step sends Run one step back. *)
SkipBack(i) == i - 1

(* The step after a failed step whose policy is not "abort". *)
SkipTo(i) == i + 1

(* The node is missing or fails: on_reject decides. *)
StepFails ==
  /\ pc = "running"
  /\ idx <= Len(Steps)
  /\ tokens' = [tokens EXCEPT ![stage].stepIndex = idx]
  /\ executed' = executed \union {idx}
  /\ \/ Step.onReject = "abort" /\ Return("aborted") /\ idx' = idx
     \/ Step.onReject # "abort" /\ idx' = SkipTo(idx) /\ UNCHANGED <<pc, result>>
  /\ UNCHANGED <<registry, def, loaded, stage, lastOutput>>

(* Faulty variant: a step may be routed to itself. *)
ForwardOnlyOrSame(i, target) == target >= i

(* Faulty variant: the run-time check of Proposition 1 is missing. *)
AnyTarget(i, target) == target > 0

(* The run-time check of Proposition 1. *)
ForwardOnly(i, target) == target > i

FallThrough(next) ==
  /\ next = ""
  /\ Step.branches = <<>> \/ Step.defaultGoto # ""
  /\ idx' = idx + 1
  /\ UNCHANGED <<pc, result>>

RouteToEnd(next) ==
  /\ next = "end"
  /\ idx' = Len(Steps) + 1
  /\ UNCHANGED <<pc, result>>

RouteTo(next) ==
  /\ next \notin {"", "end"}
  /\ StepIndex(Steps, next) # 0
  /\ ForwardOnly(idx, StepIndex(Steps, next))
  /\ idx' = StepIndex(Steps, next)
  /\ UNCHANGED <<pc, result>>

(* The three ways Run refuses to route. *)
RouteFails(next) ==
  /\ \/ /\ next = "" /\ Step.branches # <<>> /\ Step.defaultGoto = ""
        /\ Return("undefined_routing")
     \/ /\ next \notin {"", "end"} /\ StepIndex(Steps, next) = 0
        /\ Return("target_not_found")
     \/ /\ next \notin {"", "end"} /\ StepIndex(Steps, next) # 0
        /\ ~ForwardOnly(idx, StepIndex(Steps, next))
        /\ Return("forward_violation")
  /\ idx' = idx

StepSucceeds(output) ==
  /\ pc = "running"
  /\ idx <= Len(Steps)
  /\ Step.node \in registry
  /\ tokens' = [tokens EXCEPT ![stage] =
                  [stepIndex |-> idx, data |-> MergeContext(@.data, output)]]
  /\ executed' = executed \union {idx}
  /\ lastOutput' = output
  /\ LET next == Route(output, Step)
     IN FallThrough(next) \/ RouteToEnd(next) \/ RouteTo(next) \/ RouteFails(next)
  /\ UNCHANGED <<registry, def, loaded, stage>>

Complete ==
  /\ pc = "running"
  /\ idx > Len(Steps)
  /\ Return("completed")
  /\ UNCHANGED <<registry, def, loaded, tokens, stage, idx, executed, lastOutput>>

RunStep == \/ StepFails
           \/ pc = "running" /\ \E output \in Outputs : StepSucceeds(output)
           \/ Complete

Next == \/ \E n \in Nodes : Register(n)
        \/ def = NoDef /\ \E d \in Definitions : LoadWorkflow(d) \/ NewInstance(d)
        \/ \E s \in StageIds, data \in Injected : InjectToken(s, data)
        \/ \E s \in StageIds : RunRefused(s) \/ StartRun(s)
        \/ RunStep

Spec == Init /\ [][Next]_vars

(* Run is a loop in the caller's goroutine and nodes return, so a Run in    *)
(* progress keeps taking steps. Nothing obliges a caller to start one.      *)
Fairness == WF_vars(RunStep)
FairSpec == Spec /\ Fairness
-----------------------------------------------------------------------------
(***************************************************************************)
(* Properties.                                                             *)
(***************************************************************************)
Tokens == [stepIndex : Nat \ {0}, data : Outputs \union {Raw}]

TypeOK ==
  /\ registry \subseteq Nodes
  /\ loaded \in BOOLEAN
  /\ DOMAIN tokens \subseteq StageIds
  /\ tokens \in [DOMAIN tokens -> Tokens]
  /\ pc \in {"ready", "running"}
  /\ pc = "running" => def # NoDef /\ stage \in DOMAIN tokens
  /\ idx \in Nat \ {0}
  /\ result \in Results
  /\ executed \subseteq Nat \ {0}
  /\ lastOutput \in Outputs

(* A definition LoadWorkflow accepted never makes Run refuse a target at    *)
(* run time: the two routing errors of engine.go:127-132 are reserved for   *)
(* definitions that slipped past Validate.                                  *)
LoadedNeverMisroutes ==
  loaded => result \notin {"target_not_found", "forward_violation"}

(* Proposition 1: whatever the definition and the nodes do, every position  *)
(* a Run has executed lies below the one it is about to execute, so Run     *)
(* takes its steps in increasing order and each at most once.               *)
ForwardProgress ==
  /\ executed \subseteq 1..Len(Steps)
  /\ pc = "running" => \A i \in executed : i < idx

(* A step is passed over only when the definition says so: Run went from    *)
(* each executed step to the next position or to a target that step         *)
(* declares, and left the stage after the last position or by "end".        *)
Targets(i) == {Steps[i].defaultGoto} \union
              {Steps[i].branches[k].goto : k \in DOMAIN Steps[i].branches}

SkipsAreDeclared ==
  /\ \A i, j \in executed :
        (i < j /\ \A m \in executed : m <= i \/ m >= j)
           => j = i + 1 \/ Steps[j].id \in Targets(i)
  /\ executed # {} => 1 \in executed
  /\ result = "completed" /\ Steps # <<>>
        => \/ Len(Steps) \in executed
           \/ "end" \in Targets(Max(executed))

(* In a loaded definition a step that branches on both values of a boolean  *)
(* its node produced is never reported as undefined routing                 *)
(* (engine.go:112), whatever else its branches test. An assembled           *)
(* definition may hold a branch with an empty goto, which is.               *)
BothBooleansRouted ==
  loaded /\ result = "undefined_routing" =>
    ~ \E f \in DOMAIN lastOutput, k, m \in DOMAIN Step.branches :
        /\ lastOutput[f].kind = "bool"
        /\ lastOutput[f].val \in BOOLEAN
        /\ Step.branches[k].condition = [form |-> "equality", field |-> f, literal |-> "true"]
        /\ Step.branches[m].condition = [form |-> "equality", field |-> f, literal |-> "false"]

(* Fields produced by earlier steps stay in the token's context for the     *)
(* whole Run (the promise of mergeContext's comment, engine.go:142-144).    *)
ContextGrows ==
  [][pc = "running" /\ tokens[stage].data # Raw =>
       DOMAIN tokens[stage].data \subseteq DOMAIN tokens'[stage].data]_vars

(* Every Run returns, on any definition, validated or not. *)
RunTerminates == pc = "running" ~> pc = "ready"

(* The engine is a walk that only moves forward. *)
Walk == INSTANCE ForwardWalk WITH pos <- idx, limit <- Len(Steps) + 1
WalkSpec == Walk!Spec
=============================================================================
