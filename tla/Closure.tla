------------------------------- MODULE Closure -------------------------------
(***************************************************************************)
(* The evidence of a release and what closure-summary makes of it: the     *)
(* smoke commands, which turn inputs or earlier evidence into a payload of *)
(* gates, and the summaries, which turn payloads into the gates of the     *)
(* release.  Everything here is a function of its arguments; the module    *)
(* Release runs the commands.                                              *)
(*                                                                         *)
(* A payload is the kind of command it is of, whether it is the answer to  *)
(* an error (which has the name of the command but no schema and no        *)
(* gates), the gates and facts in it that are false, and the payloads it   *)
(* was made of.                                                            *)
(***************************************************************************)
EXTENDS Naturals, FiniteSets, Sequences

CONSTANT NotSupplied  \* closure-summary was given no file of a kind

Failed(gates) == {g \in DOMAIN gates : ~gates[g]}
Payload(kind, gates, sources) ==
    [of |-> kind, error |-> FALSE, failed |-> Failed(gates), from |-> sources]
ErrorPayload(kind) == [of |-> kind, error |-> TRUE, failed |-> {}, from |-> {}]
Core(p) == [of |-> p.of, error |-> p.error, failed |-> p.failed]

\* payload.get(name): an error answer has nothing but its command.
Has(p, name) == ~p.error /\ name \notin p.failed
\* The schema_version is the one the command writes.
Supported(p, kind) == p # NotSupplied /\ p.of = kind /\ ~p.error
\* A summary that asks for every gate but some.
Ready(p, kind, unasked) == Supported(p, kind) /\ p.failed \subseteq unasked

-----------------------------------------------------------------------------
\* Artifact and Unit.

\* An artifact [admitted, machine] on a Unit [architecture, abi, board,
\* storage, llext, signing, heap, slot], under requirements [abi, board,
\* storage, signing, heap, slot, probe].  "" requires what the Unit has; a
\* board family with a "/" names a board.
build_hardware_compatibility_smoke(art, unit, need) ==
    LET fits(field) == need[field] \in {"", unit[field]} IN
    [capability_fields_recorded |->
         "" \notin {unit.architecture, unit.abi, unit.board, unit.storage},
     hardware_agnostic_board_family_used |-> unit.board # "board/soc",
     signing_and_budget_recorded |-> TRUE,
     artifact_admission_recorded |-> art.admitted,
     architecture_compatible |-> art.machine = unit.architecture,
     abi_compatible |-> fits("abi"),
     board_family_compatible |-> fits("board"),
     storage_class_compatible |-> fits("storage"),
     llext_capability_compatible |-> unit.llext,
     signing_requirement_compatible |-> need.signing => unit.signing,
     resource_budget_sufficient |-> unit.heap >= need.heap /\ unit.slot >= need.slot,
     cross_architecture_rejection_recorded |->
         need.probe \notin {"", unit.architecture, art.machine}]

AbstractionGates == {"capability_fields_recorded", "signing_and_budget_recorded",
                     "hardware_agnostic_board_family_used"}

\* hardware_abstraction_ok and artifact_compatibility_ok.
hardware_compatibility_summary(p) ==
    [hardware_abstraction_gate |->
         Supported(p, "hardware") /\ p.failed \cap AbstractionGates = {},
     artifact_compatibility_gate |->
         Supported(p, "hardware") /\ p.failed \subseteq AbstractionGates]

\* Mutant: the budget smoke takes the recorded budget for a sufficient one.
build_resource_budget_governance_smoke_Mutant(hw) ==
    [hardware_compatibility_contract_supported |-> ~hw.error,
     resource_budget_recorded |-> ~hw.error,
     resource_budget_thresholds_recorded |-> ~hw.error,
     resource_budget_sufficient |-> Has(hw, "signing_and_budget_recorded"),
     signing_and_budget_recorded |-> Has(hw, "signing_and_budget_recorded")]

\* From hardware evidence; the command is refused for any other (ValueError).
build_resource_budget_governance_smoke(hw) ==
    [hardware_compatibility_contract_supported |-> ~hw.error,
     resource_budget_recorded |-> ~hw.error,
     resource_budget_thresholds_recorded |-> ~hw.error,
     resource_budget_sufficient |-> Has(hw, "resource_budget_sufficient"),
     signing_and_budget_recorded |-> Has(hw, "signing_and_budget_recorded")]

resource_budget_governance_summary(p) ==
    Ready(p, "budget", {"hardware_compatibility_contract_supported"})

Classes == {"extensible_unit", "restricted_unit", "relay_capable_unit",
            "federated_access_unit"}
\* The hardware smoke as the rows of the matrix call it, with the ABI, the
\* storage and the limits of the Unit as the requirements.
RowHardware(class, art, board) ==
    LET restricted == class = "restricted_unit" IN
    build_hardware_compatibility_smoke(art,
        [architecture |-> IF restricted THEN "arm" ELSE "xtensa", abi |-> "own",
         board |-> board, storage |-> "own", llext |-> ~restricted,
         signing |-> FALSE, heap |-> 2, slot |-> 2],
        [abi |-> "own", board |-> board, storage |-> "own", signing |-> FALSE,
         heap |-> 1, slot |-> 1, probe |-> IF restricted THEN "xtensa" ELSE "x86_64"])

\* No class given is all four.  A restricted row is ready when the Unit is
\* seen not to load apps; it does not depend on the artifact.
build_hardware_acceptance_matrix(given, art, board) ==
    LET classes == IF given = {} THEN Classes ELSE given
        hw == [c \in classes |-> RowHardware(c, art, board)]
        ready(c) == IF c = "restricted_unit"
                    THEN hw[c].hardware_agnostic_board_family_used
                         /\ ~hw[c].llext_capability_compatible
                    ELSE Failed(hw[c]) = {}
    IN [required_capability_classes_present |->
            {"extensible_unit", "restricted_unit", "relay_capable_unit"} \subseteq classes,
        board_family_mapping_recorded |-> board # "",
        hardware_agnostic_mapping_used |->
            \A c \in classes : hw[c].hardware_agnostic_board_family_used,
        restricted_unit_outcome_explicit |-> "restricted_unit" \in classes,
        relay_or_federated_row_present |->
            classes \cap {"relay_capable_unit", "federated_access_unit"} # {},
        all_matrix_rows_ready |-> \A c \in classes : ready(c)]

hardware_acceptance_matrix_summary(p) ==
    [hardware_acceptance_matrix_gate |-> Ready(p, "matrix", {}),
     restricted_unit_compatibility_gate |->
         /\ Supported(p, "matrix")
         /\ p.failed \cap {"restricted_unit_outcome_explicit", "all_matrix_rows_ready"} = {}]

\* Provenance of an artifact; its strings are in what is missing of it.
build_signing_provenance_smoke(art, missing, required, enforced) ==
    [g \in {"source_identity_recorded", "build_provenance_recorded",
            "artifact_sha256_recorded", "elf_identity_recorded",
            "artifact_contains_build_id_string", "artifact_contains_version_string",
            "filename_matches_app_id", "artifact_admission_recorded",
            "signing_required_for_release", "signing_enforcement_compatible"} |->
        CASE g = "artifact_admission_recorded" -> art.admitted
          [] g = "signing_required_for_release" -> required
          [] g = "signing_enforcement_compatible" -> required => enforced
          [] OTHER -> g \notin missing]

signing_provenance_summary(p) == Ready(p, "signing", {})

-----------------------------------------------------------------------------
\* Agents, tools and coding agents.

\* The manifest is what the tool adapter answered (a neuro_cli that cannot
\* be run answers an empty one); rules that hold of every tool hold of none.
build_agent_excellence_smoke(manifest, bridge, routed) ==
    [tool_manifest_supplied |-> manifest, tool_manifest_contract_supported |-> manifest,
     available_tools_recorded |-> manifest, governed_tools_present |-> manifest,
     side_effect_tools_require_approval |-> TRUE, workflow_catalog_consistent |-> TRUE,
     skill_descriptor_supplied |-> TRUE, skill_descriptor_contract_supported |-> TRUE,
     workflow_plan_required_for_governed_tools |-> TRUE,
     mcp_descriptor_read_only |-> bridge = "read_only_descriptor_only",
     approval_required_tool_proposals_blocked |-> bridge = "read_only_descriptor_only",
     mcp_read_only_execute_supported |-> manifest,
     mcp_governance_descriptor_supported |-> manifest,
     coding_agent_self_improvement_routed |-> routed]

\* The summary does not ask for the manifest contract, for the two MCP
\* probes or for the routed coding agent.
agent_excellence_summary(p) ==
    Ready(p, "excellence", {"tool_manifest_supplied", "tool_manifest_contract_supported",
        "mcp_read_only_execute_supported", "mcp_governance_descriptor_supported",
        "coding_agent_self_improvement_routed"})

\* Without an approving decision the sandbox and callback gates are true by
\* default: approved is the status of the route, which is not a gate.
build_coding_agent_self_improvement_route(decision) ==
    LET approved == decision = "approve" IN
    [review_routing_required |-> TRUE, operator_approval_required |-> TRUE,
     sandbox_only_execution |-> TRUE,
     sandbox_execution_recorded |-> approved \/ TRUE,
     plan_artifact_recorded |-> TRUE, plan_steps_recorded |-> TRUE,
     callback_audit_recorded |-> approved \/ TRUE,
     callback_payload_recorded |-> TRUE,
     approved |-> approved]

coding_agent_route_summary(p) == Ready(p, "coding_route", {"approved"})

-----------------------------------------------------------------------------
\* Evidence made of evidence.

Candidate == {"rollback_required", "candidate_recorded", "approval_pending",
              "lease_resource", "cleanup_hint"}
RollbackFacts == {"decision_recorded", "approval_required", "approved", "executed",
                  "through_query_leases", "apps_observed", "leases_clear", "no_failure"}
LiveFacts == {"source_real", "ingest_recorded", "collected", "bounded", "evidence",
              "span_ok", "source_consistent", "session_context", "agent_run_evidence",
              "adapter_required", "adapter_real", "execution_succeeded", "state_sync_used"}
RelayFacts == {"route_failure_recorded", "fallback_path_recorded",
               "operator_runbook_recorded", "deterministic_validation_recorded"}
RunFacts(kind) ==
    {"gateway_connected", "ready_recorded", "dispatch_processed",
     "core_ingress_recorded", "bounded_runtime"} \cup
    CASE kind = "qq_run" -> {"hello_recorded", "persisted", "resumed", "resume_succeeded"}
      [] kind = "wecom_run" -> {"auth_sent"}
      [] kind = "openclaw_run" -> {"bind_sent", "plugin_identified", "plugin_ready"}

\* A failed activation and a relay failure, as an operator diagnoses them.
build_observability_diagnosis_smoke(relay, act) ==
    [relay_failure_contract_supported |-> ~relay.error,
     route_failure_recorded |-> Has(relay, "route_failure_recorded"),
     fallback_path_recorded |-> Has(relay, "fallback_path_recorded"),
     operator_runbook_recorded |-> Has(relay, "operator_runbook_recorded"),
     activate_failure_command_recorded |-> TRUE,
     rollback_required_recorded |-> Has(act, "rollback_required"),
     recovery_candidate_summary_recorded |-> Has(act, "candidate_recorded"),
     rollback_candidate_lease_recorded |-> Has(act, "lease_resource"),
     rollback_approval_recorded |-> Has(act, "approval_pending"),
     operator_next_actions_recorded |->
         /\ Has(relay, "fallback_path_recorded") /\ Has(relay, "operator_runbook_recorded")
         /\ Has(act, "cleanup_hint")]

observability_diagnosis_summary(p) ==
    Ready(p, "observability", {"relay_failure_contract_supported"})

relay_failure_summary(p) == Ready(p, "relay_failure", {})

\* A failed activation and the rollback that followed it.
build_release_rollback_hardening_smoke(act, rb) ==
    [activate_failure_command_recorded |-> TRUE,
     rollback_required_recorded |-> Has(act, "rollback_required"),
     recovery_candidate_summary_recorded |-> Has(act, "candidate_recorded"),
     rollback_approval_boundary_recorded |-> Has(act, "approval_pending"),
     rollback_payload_command_recorded |-> TRUE,
     rollback_decision_recorded |-> Has(rb, "decision_recorded"),
     rollback_approval_required |-> Has(rb, "approval_required"),
     rollback_decision_approved |-> Has(rb, "approved"),
     rollback_execution_recorded |-> Has(rb, "executed"),
     rollback_execution_completed_through_cleanup |-> Has(rb, "through_query_leases"),
     post_rollback_app_observation_recorded |-> Has(rb, "apps_observed"),
     rollback_cleanup_clear |-> Has(rb, "leases_clear"),
     rollback_failure_summary_clear |-> rb.error \/ Has(rb, "no_failure")]

release_rollback_summary(p) == Ready(p, "rollback_hardening", {})

\* A run on live events; route is the coding agent evidence or NotSupplied.
\* An answer to an error names no source and no run, which are consistent.
build_real_scene_e2e_smoke(live, route) ==
    [g \in LiveFacts \cup {"coding_agent_route_valid_if_supplied"} |->
        IF g = "coding_agent_route_valid_if_supplied"
        THEN route = NotSupplied \/ Ready(route, "coding_route", {"approved"})
        ELSE IF g \in {"bounded", "source_consistent"} THEN live.error \/ Has(live, g)
        ELSE Has(live, g)]

\* The summary does not ask for the gates of the coding agent evidence.
real_scene_e2e_summary(p) == Ready(p, "real_scene", {"coding_agent_route_valid_if_supplied"})

\* The run of a gateway client.  A resumed session counts only when the
\* operator requires it.
build_qq_official_gateway_closure(run, resume) ==
    [f \in RunFacts("qq_run") \cup {"gateway_run_contract_supported"} |->
        IF f = "gateway_run_contract_supported" THEN ~run.error
        ELSE IF f \in {"persisted", "resumed", "resume_succeeded"}
             THEN resume => Has(run, f)
             ELSE Has(run, f)]
build_wecom_gateway_closure(run) ==
    [f \in RunFacts("wecom_run") |-> Has(run, f)]
build_openclaw_gateway_closure(run) ==
    [f \in RunFacts("openclaw_run") |-> Has(run, f)]

\* These summaries take the gates the payload has, and ask for all of them.
qq_official_gateway_summary(p) == Ready(p, "qq", {})
wecom_gateway_summary(p) == Ready(p, "wecom", {})
openclaw_gateway_summary(p) == Ready(p, "openclaw", {})
release_210_smoke_summary(p, kind) == Ready(p, kind, {})

-----------------------------------------------------------------------------
\* Evidence written by hand, and smokes of a fixed scenario.

DocumentationGates == {"release_plan_aligned", "readme_aligned", "progress_recorded",
                       "runbooks_aligned", "release_identity_unpromoted"}
documentation_summary(p) == Ready(p, "documentation", {})

LegacyGates == {"core_tests_passed", "app_lifecycle_regression_passed",
                "event_service_regression_passed"}
RegressionGates == LegacyGates \cup
    {"agent_closure_regression_passed", "federation_regression_passed",
     "relay_regression_passed", "hardware_compatibility_regression_passed"}
\* A payload of the legacy schema is asked for the legacy gates only.
regression_summary(p) ==
    \/ Ready(p, "regression", {})
    \/ Ready(p, "legacy_regression", RegressionGates \ LegacyGates)

\* The vitality of a smoke run falls by 8 and rises by 12 within 0..100.
build_vitality_smoke(score) ==
    LET decayed == IF score >= 8 THEN score - 8 ELSE 0
        restored == IF decayed + 12 <= 100 THEN decayed + 12 ELSE 100
    IN [decay_transition_recorded |-> decayed < score,
        replenishment_transition_recorded |-> restored > decayed]

\* A daemon replay of some cycles, resumed and then paused, on a database of
\* its own; no cycle is a ValueError.
build_autonomy_daemon_smoke ==
    [g \in {"heartbeat_recorded", "restart_continuity_recorded",
            "operator_pause_recorded", "pause_blocks_workflow_execution"} |-> TRUE]

\* Scenarios without an input: whatever the system is like, all gates pass.
build_persona_state_smoke ==
    [g \in {"persona_seed_recorded", "persona_growth_recorded",
            "growth_requires_runtime_evidence", "immutability_stamp_recorded",
            "immutability_stamp_valid", "privacy_redaction_supported"} |-> TRUE]
build_task_tracking_smoke ==
    [g \in {"heartbeat_linked", "active_hours_config_recorded", "rerun_ready"} |-> TRUE]
build_memory_maintenance_smoke ==
    [g \in {"prompt_safe_summary_recorded", "audit_record_bound"} |-> TRUE]
build_self_optimization_smoke ==
    [g \in {"approval_required", "apply_changes_still_forbidden"} |-> TRUE]
build_approval_social_smoke ==
    [g \in {"pending_approval_created", "denied_decision_prevents_execution"} |-> TRUE]
build_self_improvement_smoke ==
    [g \in {"denied_proposal_not_executed",
            "approved_proposal_needs_verified_evidence"} |-> TRUE]
build_world_model_context_smoke ==
    [g \in {"relationship_context_prompt_safe", "relay_context_preserved"} |-> TRUE]

\* Three parts of the persona evidence, of a payload of any schema.
persona_225_summary(p) ==
    LET passed(gates) == p # NotSupplied /\ \A g \in gates : Has(p, g) IN
    [persona_seed_gate |-> passed({"persona_seed_recorded"}),
     persona_growth_gate |-> passed({"persona_growth_recorded",
                                     "growth_requires_runtime_evidence"}),
     memory_immutability_gate |-> passed({"immutability_stamp_recorded",
                                          "immutability_stamp_valid"})]

-----------------------------------------------------------------------------
\* Model providers.

\* ready: framework, credentials and a model identifier are there; works:
\* the call would succeed.  Not ready is reported as skipped, which is fine.
maf_provider_smoke_status(ready, allow, execute, works) ==
    LET refused == execute /\ ~allow
        called == execute /\ allow /\ ready
    IN [real_provider_call_opt_in_respected |-> ~refused,
        provider_requirements_ready |-> ready /\ ~refused,
        missing_requirements_cleanly_reported |-> ~ready /\ ~refused,
        no_model_call |-> ~called,
        model_call_evidence_present |-> called /\ works]

provider_smoke_ok(p) ==
    /\ Supported(p, "provider")
    /\ Has(p, "real_provider_call_opt_in_respected")
    /\ Has(p, "no_model_call") \/ Has(p, "model_call_evidence_present")
    /\ \/ Has(p, "provider_requirements_ready")
       \/ Has(p, "missing_requirements_cleanly_reported")

\* Not supplied is satisfied unless it is required.
provider_smoke_summary(p, required) ==
    IF p = NotSupplied THEN ~required ELSE provider_smoke_ok(p)

AllModes == {"text", "image", "audio", "video"}
InferenceProfiles ==
    [local_16g |-> [input |-> AllModes, output |-> {"text"}],
     visual_heavy |-> [input |-> AllModes \ {"audio"}, output |-> {"text"}],
     omni_premium |-> [input |-> AllModes, output |-> {"text", "audio"}],
     remote_openai_compatible |-> [input |-> AllModes, output |-> {"text"}]]

\* An empty or odd reference and an unknown response mode are ValueErrors;
\* text is never empty, as the command has a default.
normalize_multimodal_input(req) == req.refs_valid /\ req.outputs \subseteq {"text", "audio"}

\* The profiles that can take the request; the one of lowest priority wins.
build_inference_route(req, live, env_ready) ==
    {n \in DOMAIN InferenceProfiles :
        /\ req.profile \in {"auto", n}
        /\ req.inputs \subseteq InferenceProfiles[n].input
        /\ req.outputs \subseteq InferenceProfiles[n].output
        /\ live => env_ready}

multimodal_profile_smoke(req, live, env_ready) ==
    [multimodal_input_recorded |-> TRUE, route_decision_recorded |-> TRUE,
     profile_readiness_recorded |-> req.profile \in DOMAIN InferenceProfiles \cup {"auto"},
     route_ready |-> build_inference_route(req, live, env_ready) # {},
     no_model_call_executed |-> TRUE]

multimodal_profile_summary(p, required) ==
    IF p = NotSupplied THEN ~required ELSE Ready(p, "multimodal", {})

-----------------------------------------------------------------------------
\* Executions of a session.  An execution is [context, plan, results, route,
\* sound]: whether its audit record has a session context (that of an
\* approved and resumed tool has none), the outcome of the plan, whether
\* there are tool results, the route of the federation, and which of its
\* memory and tool records keep the rules.

Routes == {"none", "local", "relay", "relay_failed", "delegated", "undelegated"}
build_federation_closure_summary(e) ==
    e.context /\ e.route \notin {"none", "undelegated"}
\* A relay was used, or its failure says why.
build_relay_closure_summary(e) == e.context /\ e.route \in {"relay", "relay_failed"}
build_memory_governance_closure_summary(e) == e.context /\ "memory" \in e.sound
build_memory_recall_closure_summary(e) == e.context
build_tool_skill_mcp_closure_summary(e) ==
    /\ e.context
    /\ e.plan = "no_tool_selected" \/ "tool" \in e.sound

\* approval_state_recorded is true of any execution: it is left out.
build_closure_execution_summary(e) ==
    /\ e.context
    /\ e.plan \in {"tool_selected", "no_tool_selected", "invalid_payload"}
    /\ build_memory_governance_closure_summary(e)
    /\ build_memory_recall_closure_summary(e)
    /\ build_tool_skill_mcp_closure_summary(e)
    /\ e.results \/ e.plan = "no_tool_selected"

-----------------------------------------------------------------------------
\* The gates of a release.  f: the payload or NotSupplied of each kind;
\* latest: the latest audited execution, in a set of its own, if there is one.

Kinds210 == {"autonomy", "vitality", "persona", "social", "approval_social",
             "self_improvement"}
Kinds226 == {"task_tracking", "memory_maintenance", "self_optimization", "world_model"}

\* ok of the summary: the session has closed.
aggregate_gates(f, latest, pending, require_provider, require_multimodal) ==
    [session_has_execution_evidence |-> latest # {},
     latest_execution_closure_ready |->
         \E e \in latest : build_closure_execution_summary(e),
     no_pending_approvals |-> pending = {},
     memory_governance_gate_satisfied |->
         \E e \in latest : build_memory_governance_closure_summary(e),
     memory_recall_gate_satisfied |->
         \E e \in latest : build_memory_recall_closure_summary(e),
     tool_skill_mcp_gate_satisfied |->
         \E e \in latest : build_tool_skill_mcp_closure_summary(e),
     provider_smoke_gate_satisfied |->
         provider_smoke_summary(f["provider"], require_provider),
     multimodal_profile_gate_satisfied |->
         multimodal_profile_summary(f["multimodal"], require_multimodal)]

\* Gates of 2.2.6, once a file of one of its kinds is supplied.
release_226_gates(f) ==
    (\E k \in Kinds226 : f[k] # NotSupplied) =>
        /\ release_210_smoke_summary(f["autonomy"], "autonomy")
        /\ \A k \in Kinds226 : release_210_smoke_summary(f[k], k)
        /\ \A g \in {"heartbeat_linked", "active_hours_config_recorded"} :
               Has(f["task_tracking"], g)
        /\ Has(f["memory_maintenance"], "prompt_safe_summary_recorded")

\* closure_summary_gate: every gate of the checklist.  Pending approvals are
\* not among them.
validation_gates(f, latest) ==
    /\ \E e \in latest : /\ build_federation_closure_summary(e)
                         /\ build_relay_closure_summary(e)
                         /\ build_memory_governance_closure_summary(e)
                         /\ build_memory_recall_closure_summary(e)
                         /\ build_tool_skill_mcp_closure_summary(e)
    /\ documentation_summary(f["documentation"])
    /\ relay_failure_summary(f["relay_failure"])
    /\ Failed(hardware_compatibility_summary(f["hardware"])) = {}
    /\ Failed(hardware_acceptance_matrix_summary(f["matrix"])) = {}
    /\ resource_budget_governance_summary(f["budget"])
    /\ agent_excellence_summary(f["excellence"])
    /\ release_rollback_summary(f["rollback_hardening"])
    /\ signing_provenance_summary(f["signing"])
    /\ observability_diagnosis_summary(f["observability"])
    /\ real_scene_e2e_summary(f["real_scene"])
    /\ \A k \in Kinds210 : release_210_smoke_summary(f[k], k)
    /\ Failed(persona_225_summary(f["persona"])) = {}
    /\ qq_official_gateway_summary(f["qq"])
    /\ wecom_gateway_summary(f["wecom"])
    /\ openclaw_gateway_summary(f["openclaw"])
    /\ coding_agent_route_summary(f["coding_route"])
    /\ f["multimodal"] # NotSupplied /\ multimodal_profile_summary(f["multimodal"], TRUE)
    /\ f["provider"] # NotSupplied /\ provider_smoke_summary(f["provider"], TRUE)
    /\ regression_summary(f["regression"])
    /\ release_226_gates(f)
=============================================================================
