----------------------------- MODULE WorkflowDef -----------------------------
(***************************************************************************)
(* Workflow definitions of workflow/types.go.  A definition is a sequence  *)
(* of stages [id, steps], a stage a sequence of steps                      *)
(*   [id, node, branches, onReject, defaultGoto],                          *)
(* and a branch a record [condition, goto].  Positions count from 1 here   *)
(* and from 0 in the code, so 0 stands for the code's -1 and nil.          *)
(***************************************************************************)
EXTENDS Router

BranchDefs == [condition : Conditions, goto : STRING]

StepDefs == [id : STRING, node : STRING, branches : Seq(BranchDefs),
             onReject : STRING, defaultGoto : STRING]

StageDefs == [id : STRING, steps : Seq(StepDefs)]

(* GetStage: position of the first stage with this ID. *)
GetStage(def, id) ==
  LET hits == {i \in DOMAIN def : def[i].id = id}
  IN IF hits = {} THEN 0 ELSE Min(hits)

(* Faulty variant: the position after the step that was asked for. *)
StepIndexPast(steps, id) ==
  LET hits == {i \in DOMAIN steps : steps[i].id = id}
  IN IF hits = {} THEN 0 ELSE Min(hits) + 1

(* StepIndex: position of the first step with this ID. *)
StepIndex(steps, id) ==
  LET hits == {i \in DOMAIN steps : steps[i].id = id}
  IN IF hits = {} THEN 0 ELSE Min(hits)

(* A target Validate accepts for step i: "end", or a step further on. *)
ForwardTarget(steps, i, target) ==
  target = "end" \/ StepIndex(steps, target) > i

UniqueStepIds(steps) ==
  /\ \A i \in DOMAIN steps : steps[i].id # ""
  /\ \A i, j \in DOMAIN steps : steps[i].id = steps[j].id => i = j

(* Faulty variant: the default target is not checked. *)
ValidStepBranchesOnly(steps, i) ==
  \A k \in DOMAIN steps[i].branches :
     /\ steps[i].branches[k].condition.form # "empty"
     /\ ForwardTarget(steps, i, steps[i].branches[k].goto)

ValidStep(steps, i) ==
  /\ \A k \in DOMAIN steps[i].branches :
        /\ steps[i].branches[k].condition.form # "empty"
        /\ ForwardTarget(steps, i, steps[i].branches[k].goto)
  /\ steps[i].defaultGoto = "" \/ ForwardTarget(steps, i, steps[i].defaultGoto)

(* Validate. Node names, on_reject values, stage IDs and conditions that    *)
(* can never match are not looked at.                                       *)
Validate(def) ==
  \A s \in DOMAIN def :
     /\ UniqueStepIds(def[s].steps)
     /\ \A i \in DOMAIN def[s].steps : ValidStep(def[s].steps, i)
=============================================================================
