------------------------------ MODULE MCEngine ------------------------------
(***************************************************************************)
(* A small instance of Engine: one stage of three steps, every combination *)
(* of the branch lists, default targets and policies below, validated or   *)
(* not, with either, both or none of the two nodes registered.             *)
(***************************************************************************)
EXTENDS Engine

MCFields   == {"ok"}
MCLiterals == {"true", "false", "5abc"}
MCValues   == {[kind |-> "bool", val |-> TRUE], [kind |-> "bool", val |-> FALSE],
               [kind |-> "number", val |-> 5]}
MCScanned  == [l \in {"5abc"} |-> 5]

Equals(f, l) == [form |-> "equality", field |-> f, literal |-> l]
True  == Equals("ok", "true")
False == Equals("ok", "false")
Five  == Equals("ok", "5abc")
Blank == [form |-> "empty", field |-> "ok", literal |-> "true"]

To(cond, g) == [condition |-> cond, goto |-> g]

FirstBranches  == {<<>>, <<To(True, "s3")>>, <<To(False, "s1")>>, <<To(Blank, "s2")>>, <<To(True, "")>>,
                   <<To(True, "end"), To(False, "s3")>>,
                   <<To(Five, "s3"), To(True, "s2"), To(False, "s2")>>}
SecondBranches == {<<>>, <<To(True, "s1")>>, <<To(False, "end"), To(True, "s3")>>}
ThirdBranches  == {<<>>, <<To(True, "s3")>>}

StepsWith(id, node, branches, policies, defaults) ==
  [id : {id}, node : {node}, branches : branches, onReject : policies,
   defaultGoto : defaults]

Stages == {<<a, b, c>> :
     a \in StepsWith("s1", "n1", FirstBranches, {"abort", "skip"}, {"", "s3"}),
     b \in StepsWith("s2", "n2", SecondBranches, {""}, {"", "ghost"}),
     c \in StepsWith("s3", "n1", ThirdBranches, {"abort"}, {"end"})
           \union StepsWith("s1", "n1", {<<>>}, {"abort"}, {""})}

MCDefinitions == {<<[id |-> "T", steps |-> steps]>> : steps \in {<<>>} \union Stages}
=============================================================================
