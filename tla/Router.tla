------------------------------- MODULE Router -------------------------------
(***************************************************************************)
(* Conditional routing of workflow/router.go: a branch condition           *)
(* `field == literal` is evaluated against the output of the node that has *)
(* just run, and the first branch that holds names the next step.          *)
(*                                                                         *)
(* A node output is a function from the fields the node set to typed       *)
(* values [kind, val].  A condition is a record [form, field, literal]:    *)
(* form is "equality" when the pattern `^(\w+)\s*==\s*(.+)$` matches,      *)
(* "empty" for the empty string and "malformed" for any other text.        *)
(* Literals are the texts right of `==` once quotes and blanks are         *)
(* trimmed.                                                                *)
(***************************************************************************)
EXTENDS Naturals, Sequences, FiniteSetsExt

CONSTANTS Fields,      \* names of output fields
          Values,      \* typed values [kind |-> ..., val |-> ...]
          Literals,    \* right-hand sides of conditions
          ScannedNumber \* the number Sscanf("%f") reads off a literal, where it reads one

ASSUME ScannedNumberAssumption == DOMAIN ScannedNumber \subseteq Literals

Outputs == UNION {[F -> Values] : F \in SUBSET Fields}

Conditions == [form : {"equality", "empty", "malformed"},
               field : Fields, literal : Literals]

(* Faulty variant: a boolean field matches only when it is true. *)
BoolEqualsOnlyTrue(val, literal) == val /\ literal = "true"

(* Any literal other than "true" equals the boolean false. *)
BoolEquals(val, literal) == val = (literal = "true")

(* evaluateCondition. A number whose literal scans as a number is compared  *)
(* as a number (so trailing text of the literal is ignored); every other    *)
(* kind is compared as printed text, which is what val stands for then.     *)
Holds(cond, output) ==
  /\ cond.form = "equality"
  /\ cond.field \in DOMAIN output
  /\ LET v == output[cond.field]
     IN \/ v.kind = "bool" /\ BoolEquals(v.val, cond.literal)
        \/ /\ v.kind = "number"
           /\ cond.literal \in DOMAIN ScannedNumber
           /\ v.val = ScannedNumber[cond.literal]
        \/ v.kind \in {"string", "other"} /\ v.val = cond.literal

(* Positions of the branches of step whose condition holds. *)
Matching(output, step) ==
  {k \in DOMAIN step.branches : Holds(step.branches[k].condition, output)}

(* Route: the first matching branch, else the default target, "" when there *)
(* is none.                                                                 *)
Route(output, step) ==
  IF Matching(output, step) = {}
  THEN step.defaultGoto
  ELSE step.branches[Min(Matching(output, step))].goto
=============================================================================
