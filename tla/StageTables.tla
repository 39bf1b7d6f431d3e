---------------------------- MODULE StageTables ----------------------------
(***************************************************************************)
(* The stages as the two workflow files define them,                       *)
(* config/ppli_stages.json and config/j32_stages.json, and what each node  *)
(* name stands for: the nodes of the two message types act alike, so       *)
(* NodeNames gives both names of a role.                                   *)
(***************************************************************************)
EXTENDS WorkflowDef

(* Branch [condition "field == literal", goto]. *)
Branch(field, literal, goto) ==
  [condition |-> [form |-> "equality", field |-> field, literal |-> literal],
   goto |-> goto]

Text(s) == [kind |-> "string", val |-> s]
Flag(b) == [kind |-> "bool", val |-> b]

StepOf(id, node, onReject, branches, defaultGoto) ==
  [id |-> id, node |-> node, onReject |-> onReject, branches |-> branches,
   defaultGoto |-> defaultGoto]

(* Faulty variant: a duplicate goes to create_entry. *)
OnCorrelationDuplicateCreates ==
  <<Branch("correlation", "new", "r4"),
    Branch("correlation", "update", "r5"),
    Branch("correlation", "duplicate", "r4")>>

(* Faulty variant: a new track goes straight to the store step. *)
OnCorrelationNewStored ==
  <<Branch("correlation", "new", "r7"),
    Branch("correlation", "update", "r5"),
    Branch("correlation", "duplicate", "r6")>>

OnCorrelation == <<Branch("correlation", "new", "r4"),
                   Branch("correlation", "update", "r5"),
                   Branch("correlation", "duplicate", "r6")>>

(* Faulty variant: nothing is said of tracks that have not expired. *)
OnExpiryTrueOnly == <<Branch("expired", "true", "c2")>>

OnExpiry == <<Branch("expired", "true", "c2"), Branch("expired", "false", "c3")>>

(* Faulty variant: after creating the entry the stage falls through to r5. *)
PpliReceiveFallsThrough ==
  <<StepOf("r1", "decode_message",    "abort", <<>>, ""),
    StepOf("r2", "receive_filter",    "skip",  <<>>, ""),
    StepOf("r3", "ppli_correlate",    "abort", OnCorrelation, ""),
    StepOf("r4", "create_entry",      "abort", <<>>, ""),
    StepOf("r5", "update_entry",      "abort", <<>>, "r7"),
    StepOf("r6", "duplicate_resolve", "",      <<>>, "r7"),
    StepOf("r7", "store_ppli",        "skip",  <<>>, "")>>

PpliReceive ==
  <<StepOf("r1", "decode_message",    "abort", <<>>, ""),
    StepOf("r2", "receive_filter",    "skip",  <<>>, ""),
    StepOf("r3", "ppli_correlate",    "abort", OnCorrelation, ""),
    StepOf("r4", "create_entry",      "abort", <<>>, "r7"),
    StepOf("r5", "update_entry",      "abort", <<>>, "r7"),
    StepOf("r6", "duplicate_resolve", "",      <<>>, "r7"),
    StepOf("r7", "store_ppli",        "skip",  <<>>, "")>>

PpliClear ==
  <<StepOf("c1", "check_ttl",       "", OnExpiry, ""),
    StepOf("c2", "check_source_ju", "", <<>>, "c4"),
    StepOf("c3", "retain_entry",    "", <<>>, "end"),
    StepOf("c4", "delete_entry",    "", <<>>, "end")>>

J32Receive ==
  <<StepOf("r1", "decode_j32_message",    "abort", <<>>, ""),
    StepOf("r2", "j32_receive_filter",    "skip",  <<>>, ""),
    StepOf("r3", "j32_correlate",         "abort", OnCorrelation, ""),
    StepOf("r4", "create_j32_entry",      "abort", <<>>, "r7"),
    StepOf("r5", "update_j32_entry",      "abort", <<>>, "r7"),
    StepOf("r6", "duplicate_j32_resolve", "",      <<>>, ""),
    StepOf("r7", "store_j32",             "skip",  <<>>, "")>>

J32Clear ==
  <<StepOf("c1", "check_ttl_j32",    "", OnExpiry, ""),
    StepOf("c2", "check_source_ju",  "", <<>>, "c4"),
    StepOf("c3", "retain_j32_entry", "", <<>>, "end"),
    StepOf("c4", "delete_j32_entry", "", <<>>, "end")>>

-----------------------------------------------------------------------------
(* Faulty variant: the message is encoded before it is classified. *)
PpliPrepareEncodesFirst ==
  <<StepOf("s1", "init_ppli_data",      "",     <<>>, ""),
    StepOf("s2", "encode_ppli_message", "",     <<>>, ""),
    StepOf("s3", "classify_platform",   "",     <<>>, ""),
    StepOf("s4", "validate_message",    "skip", <<>>, "")>>

PpliPrepare ==
  <<StepOf("s1", "init_ppli_data",      "",     <<>>, ""),
    StepOf("s2", "classify_platform",   "",     <<>>, ""),
    StepOf("s3", "encode_ppli_message", "",     <<>>, ""),
    StepOf("s4", "validate_message",    "skip", <<>>, "")>>

J32Prepare ==
  <<StepOf("s1", "init_j32_data",        "",     <<>>, ""),
    StepOf("s2", "classify_j32",         "",     <<>>, ""),
    StepOf("s3", "encode_j32_message",   "",     <<>>, ""),
    StepOf("s4", "validate_j32_message", "skip", <<>>, "")>>

(* Faulty variant: a message that must not be sent falls through to s2. *)
SendFallsThrough ==
  <<StepOf("s1", "check_send_condition", "",      <<Branch("can_send", "true", "s2")>>, "s2"),
    StepOf("s2", "assign_npg_slot",      "",      <<>>, ""),
    StepOf("s3", "transmit",             "abort", <<>>, "")>>

Send ==
  <<StepOf("s1", "check_send_condition", "",
           <<Branch("can_send", "true", "s2"), Branch("can_send", "false", "end")>>,
           "end"),
    StepOf("s2", "assign_npg_slot", "",      <<>>, ""),
    StepOf("s3", "transmit",        "abort", <<>>, "")>>

(* Faulty variant: fields are clamped before anomalies are looked for. *)
PpliSpecialClampsFirst ==
  <<StepOf("t1", "clamp_field",      "", <<>>, ""),
    StepOf("t2", "detect_anomaly",   "", <<>>, ""),
    StepOf("t3", "resolve_conflict", "", <<>>, ""),
    StepOf("t4", "log_result",       "", <<>>, "")>>

PpliSpecial ==
  <<StepOf("t1", "detect_anomaly",   "", <<>>, ""),
    StepOf("t2", "resolve_conflict", "", <<>>, ""),
    StepOf("t3", "clamp_field",      "", <<>>, ""),
    StepOf("t4", "log_result",       "", <<>>, "")>>

J32Special ==
  <<StepOf("t1", "j32_detect_anomaly", "", <<>>, ""),
    StepOf("t2", "resolve_conflict",   "", <<>>, ""),
    StepOf("t3", "j32_clamp_field",    "", <<>>, ""),
    StepOf("t4", "log_result",         "", <<>>, "")>>
-----------------------------------------------------------------------------
(* Faulty variant: the bulk sweep does not say whether anything expired. *)
NoFields == <<>>

(* What the branches of c1 see after a bulk sweep: check_ttl says "not      *)
(* expired", check_ttl_j32 sets no field they test.                         *)
PpliBulk == [expired |-> Flag(FALSE)]
J32Bulk  == <<>>

NodeNames(role) ==
  CASE role = "init"       -> {"init_ppli_data", "init_j32_data"}
    [] role = "classify"   -> {"classify_platform", "classify_j32"}
    [] role = "encode"     -> {"encode_ppli_message", "encode_j32_message"}
    [] role = "validate"   -> {"validate_message", "validate_j32_message"}
    [] role = "check_send" -> {"check_send_condition"}
    [] role = "assign"     -> {"assign_npg_slot"}
    [] role = "transmit"   -> {"transmit"}
    [] role = "detect"     -> {"detect_anomaly", "j32_detect_anomaly"}
    [] role = "resolve"    -> {"resolve_conflict"}
    [] role = "clamp"      -> {"clamp_field", "j32_clamp_field"}
    [] role = "log"        -> {"log_result"}
    [] role = "decode"    -> {"decode_message", "decode_j32_message"}
    [] role = "correlate" -> {"ppli_correlate", "j32_correlate"}
    [] role = "create"    -> {"create_entry", "create_j32_entry"}
    [] role = "update"    -> {"update_entry", "update_j32_entry"}
    [] role = "store"     -> {"store_ppli", "store_j32"}
    [] role = "check_ttl" -> {"check_ttl", "check_ttl_j32"}
    [] role = "delete"    -> {"delete_entry", "delete_j32_entry"}
    \* nodes that leave the database alone and cannot fail on a decoded message
    [] role = "passive"   -> {"receive_filter", "j32_receive_filter",
                              "duplicate_resolve", "duplicate_j32_resolve",
                              "check_source_ju", "retain_entry", "retain_j32_entry"}
=============================================================================
