--------------------------- MODULE Release_proofs ---------------------------
(***************************************************************************)
(* What an ok, a validated release and a configuration file vouch for, for *)
(* any number of operators, commands and executions.                       *)
(***************************************************************************)
EXTENDS Release, SequenceTheorems, TLAPS

-----------------------------------------------------------------------------
\* Configuration files.

LEMMA PartialFunction ==
  ASSUME NEW D, NEW R, NEW f, f = [x \in DOMAIN f |-> f[x]], DOMAIN f \subseteq D,
         \A x \in DOMAIN f : f[x] \in R
  PROVE  f \in Partial(D, R)
<1>1. f \in [DOMAIN f -> R]
  OBVIOUS
<1> QED
  BY <1>1 DEF Partial

LEMMA PartialHas ==
  ASSUME NEW D, NEW R, NEW f \in Partial(D, R)
  PROVE  /\ DOMAIN f \subseteq D
         /\ \A x \in DOMAIN f : f[x] \in R
         /\ f = [x \in DOMAIN f |-> f[x]]
<1>1. PICK S \in SUBSET D : f \in [S -> R]
  BY DEF Partial
<1> QED
  BY <1>1
-----------------------------------------------------------------------------
\* The inductive invariant.

\* Steps, by what they work on.
ReadSteps == [do : {"read"}, of : SUBSET Kinds]
SessionSteps == [do : {"spans", "pending"}, of : {"session"}]
StoreSteps(s) == [do : {"load", "truncate", "config"}, of : {s}]
                 \cup [do : {"write"}, of : {s}, change : Changes(s)]
Steps == ReadSteps \cup SessionSteps \cup UNION {StoreSteps(s) : s \in Stores}

\* closure-summary reads the files, then the spans, then the requests.
SnapshotShape(todo, read) ==
    /\ Len(todo) <= 3
    /\ Len(todo) = 3 => todo[1].do = "read" /\ todo[1].of \subseteq ClosureKinds
    /\ Len(todo) >= 2 => todo[Len(todo) - 1].do = "spans"
    /\ Len(todo) >= 1 => todo[Len(todo)].do = "pending" /\ "pending" \notin DOMAIN read
    /\ Len(todo) <= 1 => "spans" \in DOMAIN read
    /\ Len(todo) = 0 => "pending" \in DOMAIN read

\* A smoke made of evidence has read its sources, or is reading them.
SourcesShape(k, todo, read) ==
    /\ Len(todo) <= 1
    /\ Len(todo) = 1 => /\ todo[1].do = "read"
                        /\ DOMAIN read \cup todo[1].of \in SourceSets(k)
    /\ Len(todo) = 0 => DOMAIN read \in SourceSets(k)

\* A file is truncated after the load of its change, and written after that.
StoreShape(todo) ==
    \A i \in DOMAIN todo :
        /\ todo[i].do \in {"load", "truncate", "write", "config"}
        /\ i > 1 /\ todo[i].do = "truncate" =>
               todo[i - 1].do = "load" /\ todo[i - 1].of = todo[i].of
        /\ i > 1 /\ todo[i].do = "write" =>
               todo[i - 1].do = "truncate" /\ todo[i - 1].of = todo[i].of

\* The gates the summary of some evidence does not ask for.
Unasked(k) ==
    CASE k = "budget" -> {"hardware_compatibility_contract_supported"}
      [] k = "observability" -> {"relay_failure_contract_supported"}
      [] k = "real_scene" -> {"coding_agent_route_valid_if_supplied"}
      [] OTHER -> {}

\* A payload of kind k: only some commands answer errors, only evidence made
\* of evidence has sources, and its summary is ready only if they are.
PayloadOK(k, p) ==
    /\ p.of = k \/ (k = "regression" /\ p.of = "legacy_regression")
    /\ p.error \in BOOLEAN
    /\ p.error => k \in AnswersErrors
    /\ k \notin Derived => p.from = {}
    /\ Ready(p, k, Unasked(k)) => RestsOnSources(p)

CommandOK(c) ==
    /\ c.kind \in Kinds \cup {"closure", "edit"}
    /\ c = [kind |-> c.kind, todo |-> c.todo, read |-> c.read]
    /\ c.todo \in Seq(Steps)
    /\ c.kind = "closure" => SnapshotShape(c.todo, c.read)
    /\ c.kind \in Derived => SourcesShape(c.kind, c.todo, c.read)
    /\ c.kind \notin Derived \cup {"closure"} => StoreShape(c.todo)
    /\ \A k \in DOMAIN c.read \cap Kinds : PayloadOK(k, c.read[k])

CommandsOK ==
    /\ cmd = [o \in Operators |-> cmd[o]]
    /\ \A o \in Operators : cmd[o] # NoCommand => CommandOK(cmd[o])

\* Files hold payloads; a file is torn while the one command saving to it runs.
FilesOK ==
    /\ file = [k \in Kinds |-> file[k]]
    /\ \A k \in Kinds : file[k] \in {NoFile, Torn} \/ PayloadOK(k, file[k])
    /\ \A o \in Operators :
           cmd[o] # NoCommand /\ cmd[o].kind \in Kinds => file[cmd[o].kind] = Torn
    /\ \A o, p \in Operators :
           cmd[o] # NoCommand /\ cmd[o].kind \in Kinds /\ Runs(p, cmd[o].kind) => o = p

Execs == [context : BOOLEAN, plan : {"tool_selected"}, results : BOOLEAN,
          route : {"relay"}, sound : {{"memory", "tool"}}]
Spans == [audited : BOOLEAN, request : {"none", "pending", "settled"}, resumes : Nat,
          exec : Execs]

\* What closure-summary has read of the session: spans it saw audited are, and
\* if it found no request that waits, none of theirs does, unless reopened.
SeenOK(c) ==
    c.kind = "closure" /\ "spans" \in DOMAIN c.read =>
        \A n \in DOMAIN c.read["spans"] :
            /\ n \in DOMAIN spans
            /\ c.read["spans"][n] \in BOOLEAN
            /\ c.read["spans"][n] => spans[n].audited
            /\ /\ c.read["spans"][n] /\ "pending" \in DOMAIN c.read
               /\ c.read["pending"] = {} /\ spans[n].request = "pending"
               => n \in reopened
SnapshotsOK ==
    /\ spans \in Seq(Spans)
    /\ \A o \in Operators : cmd[o] # NoCommand => SeenOK(cmd[o])

ClosureOK ==
    closure \notin {NoFile, Torn} =>
        /\ closure.ok \in BOOLEAN /\ closure.validated \in BOOLEAN
        /\ \A n \in closure.counted :
               /\ n \in DOMAIN spans /\ spans[n].audited
               /\ closure.ok => spans[n].request # "pending" \/ n \in reopened
        /\ closure.validated =>
               \A p \in closure.evidence \ {NotSupplied} : RestsOnSources(p)

\* A command between the load and the write of a change of s.
Busy(c, s) ==
    /\ c # NoCommand /\ c.todo # <<>>
    /\ Head(c.todo).do \in {"truncate", "write"} /\ Head(c.todo).of = s

\* Whoever is there has a configuration ...
StoreTyped(s) ==
    /\ config[s] \in Configs(s) \cup {NoFile, Torn}
    /\ hist.log[s] \in Seq(Changes(s))
    /\ \A o \in Operators : Busy(cmd[o], s) => /\ "config" \in DOMAIN cmd[o].read
                                              /\ cmd[o].read["config"] \in Configs(s)

\* ... and, unless changes overlapped, is alone, and what she has is up to date.
StoreKept(s) ==
    /\ \A o, p \in Operators : Busy(cmd[o], s) /\ Busy(cmd[p], s) => o = p
    /\ \A o \in Operators : Busy(cmd[o], s) => Keeps(cmd[o].read["config"], hist.log[s])
    /\ Readable(config[s]) => Keeps(config[s], hist.log[s])
    /\ config[s] = NoFile => hist.log[s] = <<>>

StoresOK ==
    /\ config = [s \in Stores |-> config[s]]
    /\ hist = [log |-> hist.log, overlapped |-> hist.overlapped]
    /\ hist.log = [s \in Stores |-> hist.log[s]]
    /\ \A s \in Stores : StoreTyped(s) /\ (s \notin hist.overlapped => StoreKept(s))

Inv == CommandsOK /\ FilesOK /\ SnapshotsOK /\ ClosureOK /\ StoresOK

-----------------------------------------------------------------------------
\* Facts about the constants of the model.

\* Words that name no kind of evidence.
Words == {"closure", "edit", "config", "spans", "pending"}

LEMMA ClosureKindsAre ==
  ClosureKinds =
    {"provider", "multimodal", "documentation", "regression", "relay_failure",
     "hardware", "matrix", "budget", "excellence", "rollback_hardening", "signing",
     "observability", "real_scene", "autonomy", "task_tracking",
     "memory_maintenance", "self_optimization", "world_model", "vitality",
     "persona", "social", "qq", "wecom", "openclaw", "approval_social",
     "self_improvement", "coding_route"}
BY DEF ClosureKinds, ClosureOrder

LEMMA DerivedAre ==
  Derived = {"budget", "observability", "rollback_hardening", "real_scene", "qq",
             "wecom", "openclaw"}
BY DEF Derived, SourcesOf

LEMMA FactsAre ==
  DOMAIN FactsOf = {"activate", "rollback", "live_event", "relay_failure",
                    "documentation", "qq_run", "wecom_run", "openclaw_run"}
BY DEF FactsOf

LEMMA KindsAreNoWords == Kinds \cap Words = {}
BY ClosureKindsAre, FactsAre DEF Kinds, Words

LEMMA DerivedAreKinds == Derived \subseteq ClosureKinds /\ ClosureKinds \subseteq Kinds
BY DerivedAre, ClosureKindsAre DEF Kinds

LEMMA SourcesAre ==
  /\ Sources("budget") = {"hardware"}
  /\ Sources("observability") = {"relay_failure", "activate"}
  /\ Sources("rollback_hardening") = {"activate", "rollback"}
  /\ Sources("real_scene") = {"live_event", "coding_route"}
  /\ Sources("qq") = {"qq_run"}
  /\ Sources("wecom") = {"wecom_run"}
  /\ Sources("openclaw") = {"openclaw_run"}
BY DEF Sources, SourcesOf

LEMMA SourcesAreKinds ==
  ASSUME NEW k \in Derived, NEW given \in SourceSets(k)
  PROVE  given \subseteq Kinds /\ given # {}
BY DerivedAre, SourcesAre, ClosureKindsAre, FactsAre DEF SourceSets, Kinds

-----------------------------------------------------------------------------
\* Evidence made of evidence: each smoke and the summary that reads it.

\* Evidence of a kind other than regression is of that kind.
LEMMA SourceIsOfItsKind ==
  ASSUME NEW k, NEW p, PayloadOK(k, p), k # "regression"
  PROVE  /\ Core(p).of = k /\ Core(p).error = p.error /\ Core(p).failed = p.failed
         /\ p.error \in BOOLEAN
BY DEF PayloadOK, Core

\* A source that has every ground of its kind.
Grounded(k, p) == ~p.error /\ p.failed \cap Grounds[k] = {}

\* Whatever a smoke printed rests on its sources if, whenever its summary is
\* ready, each of them has its grounds.
LEMMA VouchesForSources ==
  ASSUME NEW k \in Derived, NEW read, NEW resume,
         \A s \in DOMAIN read : s # "regression" /\ PayloadOK(s, read[s]),
         Failed(DerivedGates(k, read, resume)) \subseteq Unasked(k) =>
             \A s \in DOMAIN read : Grounded(s, read[s])
  PROVE  PayloadOK(k, DerivedPayload(k, read, resume))
<1> DEFINE p == DerivedPayload(k, read, resume)
           gates == DerivedGates(k, read, resume)
<1>1. /\ p.of = k /\ p.error = FALSE /\ p.failed = Failed(gates)
      /\ p.from = {Core(read[s]) : s \in DOMAIN read}
  BY DEF DerivedPayload, Payload
<1> HIDE DEF p, gates
<1>2. ASSUME Ready(p, k, Unasked(k)) PROVE RestsOnSources(p)
  <2>1. \A s \in DOMAIN read : Grounded(s, read[s])
    BY <1>1, <1>2 DEF Ready, gates
  <2>2. SUFFICES ASSUME NEW s \in DOMAIN read
                 PROVE  /\ ~Core(read[s]).error
                        /\ Core(read[s]).failed \cap Grounds[Core(read[s]).of] = {}
    BY <1>1, <2>2 DEF RestsOnSources
  <2> QED
    BY <2>1, SourceIsOfItsKind DEF Grounded
<1> QED
  BY <1>1, <1>2 DEF PayloadOK, p

\* A gate the summary asks for is true when the summary is ready.
LEMMA GatePassed ==
  ASSUME NEW gates, NEW unasked, Failed(gates) \subseteq unasked,
         NEW g \in DOMAIN gates \ unasked
  PROVE  gates[g]
BY DEF Failed

LEMMA BudgetVouches ==
  ASSUME NEW hw, Failed(build_resource_budget_governance_smoke(hw)) \subseteq Unasked("budget")
  PROVE  Grounded("hardware", hw)
<1> DEFINE gates == build_resource_budget_governance_smoke(hw)
<1>1. Unasked("budget") = {"hardware_compatibility_contract_supported"}
  BY DEF Unasked
<1>2. /\ DOMAIN gates = {"hardware_compatibility_contract_supported",
             "resource_budget_recorded", "resource_budget_thresholds_recorded",
             "resource_budget_sufficient", "signing_and_budget_recorded"}
      /\ gates["resource_budget_sufficient"] = Has(hw, "resource_budget_sufficient")
      /\ gates["signing_and_budget_recorded"] = Has(hw, "signing_and_budget_recorded")
  BY DEF build_resource_budget_governance_smoke
<1> HIDE DEF gates
<1>3. Has(hw, "resource_budget_sufficient") /\ Has(hw, "signing_and_budget_recorded")
  BY <1>1, <1>2, GatePassed DEF gates
<1>4. Grounds["hardware"] = {"resource_budget_sufficient", "signing_and_budget_recorded"}
  BY DEF Grounds
<1> QED
  BY <1>3, <1>4 DEF Grounded, Has

LEMMA ObservabilityVouches ==
  ASSUME NEW relay, NEW act,
         Failed(build_observability_diagnosis_smoke(relay, act))
             \subseteq Unasked("observability")
  PROVE  Grounded("relay_failure", relay) /\ Grounded("activate", act)
<1> DEFINE gates == build_observability_diagnosis_smoke(relay, act)
<1>1. Unasked("observability") = {"relay_failure_contract_supported"}
  BY DEF Unasked
<1>2. /\ {"route_failure_recorded", "fallback_path_recorded",
          "operator_runbook_recorded", "rollback_required_recorded",
          "recovery_candidate_summary_recorded", "rollback_approval_recorded"}
             \subseteq DOMAIN gates
      /\ gates["route_failure_recorded"] = Has(relay, "route_failure_recorded")
      /\ gates["fallback_path_recorded"] = Has(relay, "fallback_path_recorded")
      /\ gates["operator_runbook_recorded"] = Has(relay, "operator_runbook_recorded")
      /\ gates["rollback_required_recorded"] = Has(act, "rollback_required")
      /\ gates["recovery_candidate_summary_recorded"] = Has(act, "candidate_recorded")
      /\ gates["rollback_approval_recorded"] = Has(act, "approval_pending")
  BY DEF build_observability_diagnosis_smoke
<1> HIDE DEF gates
<1>3. /\ Has(relay, "route_failure_recorded") /\ Has(relay, "fallback_path_recorded")
      /\ Has(relay, "operator_runbook_recorded")
  BY <1>1, <1>2, GatePassed DEF gates
<1>4. /\ Has(act, "rollback_required") /\ Has(act, "candidate_recorded")
      /\ Has(act, "approval_pending")
  BY <1>1, <1>2, GatePassed DEF gates
<1>5. /\ Grounds["relay_failure"] = {"route_failure_recorded", "fallback_path_recorded",
                                     "operator_runbook_recorded"}
      /\ Grounds["activate"] = {"rollback_required", "candidate_recorded",
                                "approval_pending"}
  BY DEF Grounds, RelayFacts
<1> QED
  BY <1>3, <1>4, <1>5 DEF Grounded, Has

LEMMA RollbackVouches ==
  ASSUME NEW act, NEW rb,
         Failed(build_release_rollback_hardening_smoke(act, rb))
             \subseteq Unasked("rollback_hardening")
  PROVE  Grounded("activate", act) /\ Grounded("rollback", rb)
<1> DEFINE gates == build_release_rollback_hardening_smoke(act, rb)
<1>1. Unasked("rollback_hardening") = {}
  BY DEF Unasked
<1>2. /\ {"rollback_required_recorded", "recovery_candidate_summary_recorded",
          "rollback_approval_boundary_recorded", "rollback_decision_recorded",
          "rollback_approval_required", "rollback_decision_approved",
          "rollback_execution_recorded", "rollback_execution_completed_through_cleanup",
          "post_rollback_app_observation_recorded", "rollback_cleanup_clear",
          "rollback_failure_summary_clear"} \subseteq DOMAIN gates
      /\ gates["rollback_required_recorded"] = Has(act, "rollback_required")
      /\ gates["recovery_candidate_summary_recorded"] = Has(act, "candidate_recorded")
      /\ gates["rollback_approval_boundary_recorded"] = Has(act, "approval_pending")
  BY DEF build_release_rollback_hardening_smoke
<1>3. /\ gates["rollback_decision_recorded"] = Has(rb, "decision_recorded")
      /\ gates["rollback_approval_required"] = Has(rb, "approval_required")
      /\ gates["rollback_decision_approved"] = Has(rb, "approved")
      /\ gates["rollback_execution_recorded"] = Has(rb, "executed")
      /\ gates["rollback_execution_completed_through_cleanup"]
            = Has(rb, "through_query_leases")
      /\ gates["post_rollback_app_observation_recorded"] = Has(rb, "apps_observed")
      /\ gates["rollback_cleanup_clear"] = Has(rb, "leases_clear")
      /\ gates["rollback_failure_summary_clear"] = (rb.error \/ Has(rb, "no_failure"))
  BY DEF build_release_rollback_hardening_smoke
<1> HIDE DEF gates
<1>4. /\ Has(act, "rollback_required") /\ Has(act, "candidate_recorded")
      /\ Has(act, "approval_pending")
  BY <1>1, <1>2, GatePassed DEF gates
<1>5. /\ Has(rb, "decision_recorded") /\ Has(rb, "approval_required")
      /\ Has(rb, "approved") /\ Has(rb, "executed")
  BY <1>1, <1>2, <1>3, GatePassed DEF gates
<1>6. /\ Has(rb, "through_query_leases") /\ Has(rb, "apps_observed")
      /\ Has(rb, "leases_clear") /\ (rb.error \/ Has(rb, "no_failure"))
  BY <1>1, <1>2, <1>3, GatePassed DEF gates
<1>7. /\ Grounds["rollback"] = {"decision_recorded", "approval_required", "approved",
             "executed", "through_query_leases", "apps_observed", "leases_clear",
             "no_failure"}
      /\ Grounds["activate"] = {"rollback_required", "candidate_recorded",
                                "approval_pending"}
  BY DEF Grounds, RollbackFacts
<1> QED
  BY <1>4, <1>5, <1>6, <1>7 DEF Grounded, Has

\* The coding agent evidence has no grounds of its own: no command answers an
\* error in its name, and that is all the summary rests on.
LEMMA RealSceneVouches ==
  ASSUME NEW live, NEW route,
         Failed(build_real_scene_e2e_smoke(live, route)) \subseteq Unasked("real_scene")
  PROVE  Grounded("live_event", live)
<1> DEFINE gates == build_real_scene_e2e_smoke(live, route)
           last == "coding_agent_route_valid_if_supplied"
<1>1. Unasked("real_scene") = {last} /\ last \notin LiveFacts
  BY DEF Unasked, LiveFacts
<1>2. /\ DOMAIN gates = LiveFacts \cup {last}
      /\ \A g \in LiveFacts : gates[g] = IF g \in {"bounded", "source_consistent"}
                                         THEN live.error \/ Has(live, g)
                                         ELSE Has(live, g)
  BY <1>1 DEF build_real_scene_e2e_smoke
<1> HIDE DEF gates, last
<1>3. \A g \in LiveFacts : gates[g]
  BY <1>1, <1>2, GatePassed DEF gates
<1>4. \A g \in LiveFacts \ {"bounded", "source_consistent"} : Has(live, g)
  BY <1>2, <1>3
<1>5. "source_real" \in LiveFacts /\ "bounded" \in LiveFacts
  BY DEF LiveFacts
<1>6. ~live.error /\ \A g \in LiveFacts : g \notin live.failed
  BY <1>2, <1>3, <1>4, <1>5 DEF Has
<1>7. Grounds["live_event"] = LiveFacts
  BY DEF Grounds
<1> QED
  BY <1>6, <1>7 DEF Grounded

LEMMA QqVouches ==
  ASSUME NEW run, NEW resume,
         Failed(build_qq_official_gateway_closure(run, resume)) \subseteq Unasked("qq")
  PROVE  Grounded("qq_run", run)
<1> DEFINE gates == build_qq_official_gateway_closure(run, resume)
           optional == {"persisted", "resumed", "resume_succeeded"}
<1>1. Unasked("qq") = {}
  BY DEF Unasked
<1>2. RunFacts("qq_run") = {"gateway_connected", "ready_recorded", "dispatch_processed",
           "core_ingress_recorded", "bounded_runtime", "hello_recorded", "persisted",
           "resumed", "resume_succeeded"}
  BY DEF RunFacts
<1>3. /\ DOMAIN gates = RunFacts("qq_run") \cup {"gateway_run_contract_supported"}
      /\ \A f \in RunFacts("qq_run") \ optional : gates[f] = Has(run, f)
  BY <1>2 DEF build_qq_official_gateway_closure
<1>4. Grounds["qq_run"] = RunFacts("qq_run") \ optional
  BY DEF Grounds
<1> HIDE DEF gates, optional
<1>5. \A f \in RunFacts("qq_run") \ optional : Has(run, f)
  BY <1>1, <1>3, GatePassed DEF gates
<1>6. "gateway_connected" \in RunFacts("qq_run") \ optional
  BY <1>2 DEF optional
<1> QED
  BY <1>4, <1>5, <1>6 DEF Grounded, Has

LEMMA WecomVouches ==
  ASSUME NEW run, Failed(build_wecom_gateway_closure(run)) \subseteq Unasked("wecom")
  PROVE  Grounded("wecom_run", run)
<1>1. Unasked("wecom") = {} /\ "gateway_connected" \in RunFacts("wecom_run")
  BY DEF Unasked, RunFacts
<1>2. \A f \in RunFacts("wecom_run") : Has(run, f)
  <2> DEFINE gates == build_wecom_gateway_closure(run)
  <2>1. /\ DOMAIN gates = RunFacts("wecom_run")
        /\ \A f \in RunFacts("wecom_run") : gates[f] = Has(run, f)
    BY DEF build_wecom_gateway_closure
  <2> HIDE DEF gates
  <2> QED
    BY <1>1, <2>1, GatePassed DEF gates
<1>3. Grounds["wecom_run"] = RunFacts("wecom_run")
  BY DEF Grounds
<1> QED
  BY <1>1, <1>2, <1>3 DEF Grounded, Has

LEMMA OpenclawVouches ==
  ASSUME NEW run, Failed(build_openclaw_gateway_closure(run)) \subseteq Unasked("openclaw")
  PROVE  Grounded("openclaw_run", run)
<1>1. Unasked("openclaw") = {} /\ "gateway_connected" \in RunFacts("openclaw_run")
  BY DEF Unasked, RunFacts
<1>2. \A f \in RunFacts("openclaw_run") : Has(run, f)
  <2> DEFINE gates == build_openclaw_gateway_closure(run)
  <2>1. /\ DOMAIN gates = RunFacts("openclaw_run")
        /\ \A f \in RunFacts("openclaw_run") : gates[f] = Has(run, f)
    BY DEF build_openclaw_gateway_closure
  <2> HIDE DEF gates
  <2> QED
    BY <1>1, <2>1, GatePassed DEF gates
<1>3. Grounds["openclaw_run"] = RunFacts("openclaw_run")
  BY DEF Grounds
<1> QED
  BY <1>1, <1>2, <1>3 DEF Grounded, Has

\* What a smoke prints of the sources it was given.
LEMMA DerivedPayloadOK ==
  ASSUME NEW k \in Derived, NEW read, NEW resume, DOMAIN read \in SourceSets(k),
         \A s \in DOMAIN read : PayloadOK(s, read[s])
  PROVE  PayloadOK(k, DerivedPayload(k, read, resume))
<1> DEFINE gates == DerivedGates(k, read, resume)
<1>1. "regression" \notin DOMAIN read
  BY DerivedAre, SourcesAre DEF SourceSets
<1>2. SUFFICES ASSUME Failed(gates) \subseteq Unasked(k)
               PROVE  \A s \in DOMAIN read : Grounded(s, read[s])
  <2> HIDE DEF gates
  <2> QED
    BY <1>1, <1>2, VouchesForSources DEF gates
<1>3. CASE k = "budget"
  <2>1. gates = build_resource_budget_governance_smoke(read["hardware"])
    BY <1>3 DEF DerivedGates
  <2>2. DOMAIN read = {"hardware"}
    BY <1>3, SourcesAre DEF SourceSets
  <2> HIDE DEF gates
  <2> QED
    BY <1>2, <1>3, <2>1, <2>2, BudgetVouches
<1>4. CASE k = "observability"
  <2>1. gates = build_observability_diagnosis_smoke(read["relay_failure"], read["activate"])
    BY <1>4 DEF DerivedGates
  <2>2. DOMAIN read = {"relay_failure", "activate"}
    BY <1>4, SourcesAre DEF SourceSets
  <2> HIDE DEF gates
  <2> QED
    BY <1>2, <1>4, <2>1, <2>2, ObservabilityVouches
<1>5. CASE k = "rollback_hardening"
  <2>1. gates = build_release_rollback_hardening_smoke(read["activate"], read["rollback"])
    BY <1>5 DEF DerivedGates
  <2>2. DOMAIN read = {"activate", "rollback"}
    BY <1>5, SourcesAre DEF SourceSets
  <2> HIDE DEF gates
  <2> QED
    BY <1>2, <1>5, <2>1, <2>2, RollbackVouches
<1>6. CASE k = "real_scene"
  <2> DEFINE route == IF "coding_route" \in DOMAIN read THEN read["coding_route"]
                      ELSE NotSupplied
  <2>1. gates = build_real_scene_e2e_smoke(read["live_event"], route)
    BY <1>6 DEF DerivedGates
  <2>2. DOMAIN read \subseteq {"live_event", "coding_route"}
    BY <1>6, SourcesAre DEF SourceSets
  <2> HIDE DEF gates, route
  <2>3. Grounded("live_event", read["live_event"])
    BY <1>2, <1>6, <2>1, RealSceneVouches
  <2>4. "coding_route" \notin AnswersErrors
    BY DerivedAre, FactsAre DEF AnswersErrors
  <2>5. Grounds["coding_route"] = {}
    BY DEF Grounds
  <2>6. ASSUME "coding_route" \in DOMAIN read
        PROVE  Grounded("coding_route", read["coding_route"])
    BY <2>4, <2>5, <2>6 DEF PayloadOK, Grounded
  <2> QED
    BY <2>2, <2>3, <2>6
<1>7. CASE k = "qq"
  <2>1. gates = build_qq_official_gateway_closure(read["qq_run"], resume)
    BY <1>7 DEF DerivedGates
  <2>2. DOMAIN read = {"qq_run"}
    BY <1>7, SourcesAre DEF SourceSets
  <2> HIDE DEF gates
  <2> QED
    BY <1>2, <1>7, <2>1, <2>2, QqVouches
<1>8. CASE k = "wecom"
  <2>1. gates = build_wecom_gateway_closure(read["wecom_run"])
    BY <1>8 DEF DerivedGates
  <2>2. DOMAIN read = {"wecom_run"}
    BY <1>8, SourcesAre DEF SourceSets
  <2> HIDE DEF gates
  <2> QED
    BY <1>2, <1>8, <2>1, <2>2, WecomVouches
<1>9. CASE k = "openclaw"
  <2>1. gates = build_openclaw_gateway_closure(read["openclaw_run"])
    BY <1>9 DEF DerivedGates
  <2>2. DOMAIN read = {"openclaw_run"}
    BY <1>9, SourcesAre DEF SourceSets
  <2> HIDE DEF gates
  <2> QED
    BY <1>2, <1>9, <2>1, <2>2, OpenclawVouches
<1> QED
  BY <1>3, <1>4, <1>5, <1>6, <1>7, <1>8, <1>9, DerivedAre

LEMMA ErrorPayloadOK ==
  ASSUME NEW k \in AnswersErrors PROVE PayloadOK(k, ErrorPayload(k))
BY DEF PayloadOK, ErrorPayload, Ready, Supported, RestsOnSources

LEMMA PlainPayloadOK ==
  ASSUME NEW k, NEW g, k \notin Derived PROVE PayloadOK(k, Payload(k, g, {}))
BY DEF PayloadOK, Payload, RestsOnSources

\* Whatever a command prints is a payload of its kind.
LEMMA PrintedPayloadOK ==
  ASSUME NEW k \in Kinds, NEW read,
         k \in Derived => /\ DOMAIN read \in SourceSets(k)
                          /\ \A s \in DOMAIN read : PayloadOK(s, read[s]),
         NEW p \in Payloads(k, read)
  PROVE  PayloadOK(k, p)
<1>1. CASE k \in Derived
  <2>1. PICK resume \in BOOLEAN : p = DerivedPayload(k, read, resume)
    BY <1>1, DerivedAre DEF Payloads
  <2> QED
    BY <1>1, <2>1, DerivedPayloadOK
<1>2. CASE k = "provider"
  <2>1. p \in ProviderPayloads(read["config"])
    BY <1>2, DerivedAre DEF Payloads
  <2>2. \E g : p = Payload("provider", g, {})
    BY <2>1 DEF ProviderPayloads
  <2> QED
    BY <1>2, <2>2, PlainPayloadOK, DerivedAre
<1>3. CASE k = "social"
  <2>1. p = Payload(k, social_adapter_test(read["config"]), {})
    BY <1>3, DerivedAre DEF Payloads
  <2> QED
    BY <1>3, <2>1, PlainPayloadOK, DerivedAre
<1>4. CASE k = "regression"
  <2>1. PICK of \in {"regression", "legacy_regression"}, g \in Outcomes(k) :
            p = Payload(of, g, {})
    BY <1>4, DerivedAre DEF Payloads
  <2> QED
    BY <1>4, <2>1, DerivedAre DEF PayloadOK, Payload, RestsOnSources
<1>5. CASE k \notin Derived \cup {"provider", "social", "regression"}
  <2>1. \/ \E g \in Outcomes(k) : p = Payload(k, g, {})
        \/ k \in AnswersErrors /\ p = ErrorPayload(k)
    BY <1>5 DEF Payloads
  <2> QED
    BY <1>5, <2>1, PlainPayloadOK, ErrorPayloadOK
<1> QED
  BY <1>1, <1>2, <1>3, <1>4, <1>5

\* The evidence of a system in order.
LEMMA GoodPayloadOK ==
  ASSUME NEW k \in Kinds PROVE PayloadOK(k, Good(k))
<1>1. Good(k).of = k /\ Good(k).error = FALSE /\ Good(k).failed = {}
  BY DEF Good, Sound
<1>2. \A source \in Good(k).from : ~source.error /\ source.failed = {}
  BY DEF Good, Sound, Core
<1>3. k \notin Derived => Good(k).from = {}
  BY DEF Good, Sound
<1> QED
  BY <1>1, <1>2, <1>3 DEF PayloadOK, RestsOnSources

\* A validated summary has found every evidence made of evidence ready.
LEMMA ValidatedAsks ==
  ASSUME NEW f, NEW latest, validation_gates(f, latest), NEW k \in Derived
  PROVE  Ready(f[k], k, Unasked(k))
<1>1. /\ Ready(f["budget"], "budget", {"hardware_compatibility_contract_supported"})
      /\ Ready(f["observability"], "observability", {"relay_failure_contract_supported"})
      /\ Ready(f["rollback_hardening"], "rollback_hardening", {})
      /\ Ready(f["real_scene"], "real_scene", {"coding_agent_route_valid_if_supplied"})
      /\ Ready(f["qq"], "qq", {}) /\ Ready(f["wecom"], "wecom", {})
      /\ Ready(f["openclaw"], "openclaw", {})
  BY DEF validation_gates, resource_budget_governance_summary,
         observability_diagnosis_summary, release_rollback_summary,
         real_scene_e2e_summary, qq_official_gateway_summary, wecom_gateway_summary,
         openclaw_gateway_summary
<1> QED
  BY <1>1, DerivedAre DEF Unasked

\* So the evidence of a validated summary rests on its sources.
LEMMA ValidatedRests ==
  ASSUME NEW f, NEW latest, validation_gates(f, latest), NEW k \in ClosureKinds,
         f[k] = NotSupplied \/ PayloadOK(k, f[k]), f[k] # NotSupplied
  PROVE  RestsOnSources(f[k])
<1>1. CASE k \in Derived
  BY <1>1, ValidatedAsks DEF PayloadOK
<1>2. CASE k \notin Derived
  BY <1>2 DEF PayloadOK, RestsOnSources
<1> QED
  BY <1>1, <1>2

\* A summary is ok only when no request it read waits.
LEMMA OkHasNoPending ==
  ASSUME NEW f, NEW latest, NEW pending, NEW b, NEW c,
         Failed(aggregate_gates(f, latest, pending, b, c)) = {}
  PROVE  pending = {}
<1> DEFINE gates == aggregate_gates(f, latest, pending, b, c)
<1>1. /\ "no_pending_approvals" \in DOMAIN gates
      /\ gates["no_pending_approvals"] = (pending = {})
  BY DEF aggregate_gates
<1> HIDE DEF gates
<1> QED
  BY <1>1 DEF Failed, gates

-----------------------------------------------------------------------------
\* Changes of a configuration.

LEMMA EmptyIsPartial == ASSUME NEW D, NEW R PROVE <<>> \in Partial(D, R)
<1>1. <<>> = [x \in {} |-> 0]
  OBVIOUS
<1> QED
  BY <1>1, PartialFunction

LEMMA NewConfigOK == ASSUME NEW s \in Stores PROVE NewConfig(s) \in Configs(s)
<1>1. NewConfig(s).active \in [SlotsOf(s) -> Names]
  BY DEF NewConfig, Names
<1>2. NewConfig(s).entries \in Partial(Names, Entries)
  BY EmptyIsPartial DEF NewConfig
<1> QED
  BY <1>1, <1>2 DEF NewConfig, Configs

LEMMA EntryIsEntry ==
  ASSUME NEW s, NEW c \in Configs(s), NEW name
  PROVE  EntryOf(c, name) \in Entries
<1>1. c.entries \in Partial(Names, Entries)
  BY DEF Configs
<1> QED
  BY <1>1, PartialHas, EmptyIsPartial DEF EntryOf, Entries

\* The entry of the changed profile has the fields given over those it had.
LEMMA LaidEntry ==
  ASSUME NEW e \in Entries, NEW g \in Entries
  PROVE  /\ LaidOver(e, g) \in Entries
         /\ DOMAIN LaidOver(e, g) = DOMAIN e \cup DOMAIN g
         /\ \A f \in DOMAIN g : LaidOver(e, g)[f] = g[f]
         /\ \A f \in DOMAIN e \ DOMAIN g : LaidOver(e, g)[f] = e[f]
<1>1. /\ DOMAIN LaidOver(e, g) = DOMAIN e \cup DOMAIN g
      /\ \A f \in DOMAIN g : LaidOver(e, g)[f] = g[f]
      /\ \A f \in DOMAIN e \ DOMAIN g : LaidOver(e, g)[f] = e[f]
      /\ LaidOver(e, g) = [x \in DOMAIN LaidOver(e, g) |-> LaidOver(e, g)[x]]
  BY DEF LaidOver
<1>2. /\ DOMAIN e \subseteq Fields /\ \A f \in DOMAIN e : e[f] \in BOOLEAN
      /\ DOMAIN g \subseteq Fields /\ \A f \in DOMAIN g : g[f] \in BOOLEAN
  BY PartialHas DEF Entries
<1>3. LaidOver(e, g) \in Entries
  BY <1>1, <1>2, PartialFunction DEF Entries
<1> QED
  BY <1>1, <1>3

LEMMA ChangeParts ==
  ASSUME NEW s, NEW ch \in Changes(s)
  PROVE  /\ ch.name \in Names /\ ch.slots \subseteq SlotsOf(s) /\ ch.fields \in Entries
         /\ ch.op = "set_active" => DOMAIN ch.fields = {}
BY EmptyIsPartial DEF Changes, Entries

\* d is c with the change ch applied.
Applied(s, c, ch, d) ==
    /\ \A slot \in SlotsOf(s) :
           d.active[slot] = IF slot \in ch.slots THEN ch.name ELSE c.active[slot]
    /\ \A name \in Names \ {ch.name} : EntryOf(d, name) = EntryOf(c, name)
    /\ DOMAIN EntryOf(d, ch.name) = DOMAIN EntryOf(c, ch.name) \cup DOMAIN ch.fields
    /\ \A f \in DOMAIN ch.fields : EntryOf(d, ch.name)[f] = ch.fields[f]
    /\ \A f \in DOMAIN EntryOf(c, ch.name) \ DOMAIN ch.fields :
           EntryOf(d, ch.name)[f] = EntryOf(c, ch.name)[f]

\* What a change makes of a configuration.
LEMMA ChangedHas ==
  ASSUME NEW s, NEW c \in Configs(s), NEW ch \in Changes(s)
  PROVE  Changed(c, ch) \in Configs(s) /\ Applied(s, c, ch, Changed(c, ch))
<1> DEFINE act == [slot \in DOMAIN c.active |->
                      IF slot \in ch.slots THEN ch.name ELSE c.active[slot]]
<1>1. /\ c.active \in [SlotsOf(s) -> Names] /\ c.entries \in Partial(Names, Entries)
      /\ c = [active |-> c.active, entries |-> c.entries]
  BY DEF Configs
<1>2. /\ act \in [SlotsOf(s) -> Names]
      /\ \A slot \in SlotsOf(s) : act[slot] = IF slot \in ch.slots THEN ch.name
                                              ELSE c.active[slot]
  BY <1>1, ChangeParts
<1> HIDE DEF act
<1>3. CASE ch.op = "set_active"
  <2>1. Changed(c, ch) = [active |-> act, entries |-> c.entries]
    BY <1>1, <1>3 DEF Changed, set_active_provider_profile, act
  <2>2. Changed(c, ch) \in Configs(s)
    BY <1>1, <1>2, <2>1 DEF Configs
  <2>3. \A name : EntryOf(Changed(c, ch), name) = EntryOf(c, name)
    BY <2>1 DEF EntryOf
  <2>4. DOMAIN ch.fields = {}
    BY <1>3, ChangeParts
  <2> QED
    BY <1>2, <2>1, <2>2, <2>3, <2>4 DEF Applied
<1>4. CASE ch.op # "set_active"
  <2> DEFINE old == EntryOf(c, ch.name)
             new == LaidOver(old, ch.fields)
             ents == With(c.entries, ch.name, new)
  <2>1. Changed(c, ch) = [active |-> act, entries |-> ents]
    BY <1>4 DEF Changed, config_update, act
  <2>2. old \in Entries /\ ch.fields \in Entries /\ ch.name \in Names
    BY EntryIsEntry, ChangeParts
  <2> HIDE DEF old
  <2>3. /\ new \in Entries /\ DOMAIN new = DOMAIN old \cup DOMAIN ch.fields
        /\ \A f \in DOMAIN ch.fields : new[f] = ch.fields[f]
        /\ \A f \in DOMAIN old \ DOMAIN ch.fields : new[f] = old[f]
    BY <2>2, LaidEntry
  <2> HIDE DEF new
  <2>4. /\ DOMAIN ents = DOMAIN c.entries \cup {ch.name}
        /\ ents[ch.name] = new
        /\ \A name \in DOMAIN c.entries \ {ch.name} : ents[name] = c.entries[name]
        /\ ents = [x \in DOMAIN ents |-> ents[x]]
    BY DEF With
  <2> HIDE DEF ents
  <2>5. DOMAIN c.entries \subseteq Names /\ \A x \in DOMAIN c.entries : c.entries[x] \in Entries
    BY <1>1, PartialHas
  <2>6. \A x \in DOMAIN ents : ents[x] \in Entries
    BY <2>3, <2>4, <2>5
  <2>7. ents \in Partial(Names, Entries)
    BY <2>2, <2>4, <2>5, <2>6, PartialFunction
  <2>8. Changed(c, ch) \in Configs(s)
    BY <1>2, <2>1, <2>7 DEF Configs
  <2>9. EntryOf(Changed(c, ch), ch.name) = new
    BY <2>1, <2>4 DEF EntryOf
  <2>10. \A name : name # ch.name => EntryOf(Changed(c, ch), name) = EntryOf(c, name)
    BY <2>1, <2>4 DEF EntryOf
  <2> QED
    BY <1>2, <2>1, <2>3, <2>8, <2>9, <2>10 DEF old, Applied
<1> QED
  BY <1>3, <1>4

\* A change keeps what the log has, but for what it replaces itself.
LEMMA ChangedKeeps ==
  ASSUME NEW s, NEW c \in Configs(s), NEW ch \in Changes(s),
         NEW log \in Seq(Changes(s)), Keeps(c, log)
  PROVE  Keeps(Changed(c, ch), Append(log, ch))
<1> DEFINE d == Changed(c, ch)
           long == Append(log, ch)
           since(i) == {log[j] : j \in i + 1 .. Len(log)}
           after(i) == {long[j] : j \in i + 1 .. Len(long)}
<1>1. /\ DOMAIN long = 1 .. Len(log) + 1 /\ long[Len(log) + 1] = ch
      /\ \A i \in 1 .. Len(log) : long[i] = log[i]
      /\ Len(long) = Len(log) + 1 /\ Len(log) \in Nat
      /\ DOMAIN log = 1 .. Len(log)
  OBVIOUS
<1>2. \A i \in DOMAIN log : log[i] \in Changes(s)
  BY <1>1
<1>7. Applied(s, c, ch, d)
  BY ChangedHas
<1> HIDE DEF d, long
<1>3. \A i \in 1 .. Len(log) : since(i) \subseteq after(i) /\ ch \in after(i)
  BY <1>1
<1> HIDE DEF since, after
<1>4. SUFFICES ASSUME NEW i \in DOMAIN long
               PROVE  /\ \A f \in DOMAIN long[i].fields :
                            \/ \E e \in after(i) : e.name = long[i].name /\ f \in DOMAIN e.fields
                            \/ /\ f \in DOMAIN EntryOf(d, long[i].name)
                               /\ EntryOf(d, long[i].name)[f] = long[i].fields[f]
                      /\ \A slot \in long[i].slots :
                            \/ \E e \in after(i) : slot \in e.slots
                            \/ d.active[slot] = long[i].name
  BY <1>4 DEF Keeps, after, d, long
<1>5. CASE i = Len(log) + 1
  <2>1. long[i] = ch /\ ch.slots \subseteq SlotsOf(s)
    BY <1>1, <1>5, ChangeParts
  <2> QED
    BY <1>7, <2>1 DEF Applied
<1>6. CASE i \in 1 .. Len(log)
  <2> DEFINE e == log[i]
  <2>1. e \in Changes(s) /\ long[i] = e /\ e.slots \subseteq SlotsOf(s)
    BY <1>1, <1>2, <1>6, ChangeParts
  <2>2. /\ \A f \in DOMAIN e.fields :
              \/ \E x \in since(i) : x.name = e.name /\ f \in DOMAIN x.fields
              \/ f \in DOMAIN EntryOf(c, e.name) /\ EntryOf(c, e.name)[f] = e.fields[f]
        /\ \A slot \in e.slots :
              \/ \E x \in since(i) : slot \in x.slots
              \/ c.active[slot] = e.name
    BY <1>1, <1>6 DEF Keeps, since
  <2> HIDE DEF e
  <2>3. since(i) \subseteq after(i) /\ ch \in after(i)
    BY <1>3, <1>6
  <2>4. ASSUME NEW f \in DOMAIN e.fields
        PROVE  \/ \E x \in after(i) : x.name = e.name /\ f \in DOMAIN x.fields
               \/ f \in DOMAIN EntryOf(d, e.name) /\ EntryOf(d, e.name)[f] = e.fields[f]
    <3>1. CASE \E x \in since(i) : x.name = e.name /\ f \in DOMAIN x.fields
      BY <2>3, <3>1
    <3>2. CASE f \in DOMAIN EntryOf(c, e.name) /\ EntryOf(c, e.name)[f] = e.fields[f]
      <4>1. CASE e.name = ch.name /\ f \in DOMAIN ch.fields
        BY <2>3, <4>1
      <4>2. CASE e.name = ch.name /\ f \notin DOMAIN ch.fields
        BY <1>7, <3>2, <4>2 DEF Applied
      <4>3. CASE e.name # ch.name
        BY <1>7, <2>1, <3>2, <4>3, ChangeParts DEF Applied
      <4> QED
        BY <4>1, <4>2, <4>3
    <3> QED
      BY <2>2, <3>1, <3>2
  <2>5. ASSUME NEW slot \in e.slots
        PROVE  (\E x \in after(i) : slot \in x.slots) \/ d.active[slot] = e.name
    <3>1. d.active[slot] = IF slot \in ch.slots THEN ch.name ELSE c.active[slot]
      BY <1>7, <2>1 DEF Applied
    <3> QED
      BY <2>2, <2>3, <3>1
  <2> QED
    BY <2>1, <2>4, <2>5
<1> QED
  BY <1>1, <1>5, <1>6

-----------------------------------------------------------------------------
\* Programs have their shape.

\* Steps on configuration files that begin with neither half of a write.
Chain(todo) ==
    /\ todo \in Seq(Steps)
    /\ StoreShape(todo)
    /\ Len(todo) > 0 => todo[1].do \notin {"truncate", "write"}

LEMMA ChainConcat ==
  ASSUME NEW p, NEW q, Chain(p), Chain(q)
  PROVE  Chain(p \o q)
<1> DEFINE r == p \o q
<1>1. /\ p \in Seq(Steps) /\ q \in Seq(Steps) /\ r \in Seq(Steps)
      /\ Len(p) \in Nat /\ Len(q) \in Nat /\ Len(r) = Len(p) + Len(q)
      /\ DOMAIN r = 1 .. Len(r)
  BY DEF Chain
<1>2. /\ \A i \in 1 .. Len(p) : r[i] = p[i] /\ i \in DOMAIN p
      /\ \A i \in 1 .. Len(r) : i > Len(p) => r[i] = q[i - Len(p)] /\ i - Len(p) \in DOMAIN q
  BY <1>1
<1> HIDE DEF r
<1>3. ASSUME NEW i \in 1 .. Len(p)
      PROVE  /\ r[i].do \in {"load", "truncate", "write", "config"}
             /\ i > 1 /\ r[i].do = "truncate" =>
                    r[i - 1].do = "load" /\ r[i - 1].of = r[i].of
             /\ i > 1 /\ r[i].do = "write" =>
                    r[i - 1].do = "truncate" /\ r[i - 1].of = r[i].of
  <2>1. r[i] = p[i] /\ i \in DOMAIN p
    BY <1>2
  <2>2. i > 1 => r[i - 1] = p[i - 1]
    BY <1>1, <1>2
  <2> QED
    BY <2>1, <2>2 DEF Chain, StoreShape
<1>4. ASSUME NEW i \in 1 .. Len(r), i > Len(p)
      PROVE  /\ r[i].do \in {"load", "truncate", "write", "config"}
             /\ i > 1 /\ r[i].do = "truncate" =>
                    r[i - 1].do = "load" /\ r[i - 1].of = r[i].of
             /\ i > 1 /\ r[i].do = "write" =>
                    r[i - 1].do = "truncate" /\ r[i - 1].of = r[i].of
  <2> DEFINE j == i - Len(p)
  <2>1. j \in DOMAIN q /\ j \in Nat \ {0} /\ r[i] = q[j]
    BY <1>1, <1>2, <1>4
  <2>2. CASE j = 1
    <3>1. r[i].do \in {"load", "truncate", "write", "config"}
      BY <2>1 DEF Chain, StoreShape
    <3>2. Len(q) > 0 /\ r[i] = q[1]
      BY <1>1, <2>1, <2>2
    <3> QED
      BY <3>1, <3>2 DEF Chain
  <2>3. CASE j > 1
    <3>1. r[i - 1] = q[j - 1]
      BY <1>1, <1>2, <1>4, <2>1, <2>3
    <3> HIDE DEF j
    <3> QED
      BY <2>1, <2>3, <3>1 DEF Chain, StoreShape
  <2> QED
    BY <2>1, <2>2, <2>3
<1>5. StoreShape(r)
  BY <1>1, <1>3, <1>4 DEF StoreShape
<1>6. Len(r) > 0 => r[1].do \notin {"truncate", "write"}
  BY <1>1, <1>2 DEF Chain
<1> QED
  BY <1>1, <1>5, <1>6 DEF Chain, r

LEMMA StepsOfStores ==
  ASSUME NEW s \in Stores
  PROVE  /\ Step("load", s) \in Steps /\ Step("truncate", s) \in Steps
         /\ Step("config", s) \in Steps
         /\ \A c \in Changes(s) : [do |-> "write", of |-> s, change |-> c] \in Steps
BY DEF Step, Steps, StoreSteps

LEMMA EditChain ==
  ASSUME NEW s \in Stores, NEW c \in Changes(s)
  PROVE  Chain(Edit(s, c))
<1> DEFINE e == Edit(s, c)
<1>1. e \in Seq(Steps)
  BY StepsOfStores DEF Edit
<1>2. /\ Len(e) = 4 /\ DOMAIN e = 1 .. 4
      /\ e[1].do = "load" /\ e[2].do = "truncate" /\ e[3].do = "write"
      /\ e[4].do = "config"
      /\ e[1].of = s /\ e[2].of = s /\ e[3].of = s
  BY DEF Edit, Step
<1> HIDE DEF e
<1> QED
  BY <1>1, <1>2 DEF Chain, StoreShape, e

LEMMA ConfigChain ==
  ASSUME NEW s \in Stores
  PROVE  /\ Chain(<< Step("config", s) >>)
         /\ Chain(<< Step("config", s), Step("config", s) >>)
<1>1. /\ << Step("config", s) >> \in Seq(Steps)
      /\ << Step("config", s), Step("config", s) >> \in Seq(Steps)
  BY StepsOfStores
<1> QED
  BY <1>1 DEF Chain, StoreShape, Step

LEMMA EmptyChain == Chain(<<>>)
BY DEF Chain, StoreShape

LEMMA SmokeChangeOK ==
  ASSUME NEW name \in Names, NEW fields \in SUBSET Fields
  PROVE  SmokeChange(name, fields) \in Changes("social")
<1> DEFINE g == [f \in fields \cup {"enabled", "credential_env_vars"} |-> TRUE]
<1>1. g \in Entries
  BY PartialFunction DEF Entries, Fields
<1> HIDE DEF g
<1>2. SmokeChange(name, fields) = [op |-> "update", name |-> name, slots |-> {},
                                   fields |-> g]
  BY DEF SmokeChange, g
<1> QED
  BY <1>1, <1>2 DEF Changes

LEMMA SmokeChangesOK == \A i \in 1 .. 5 : SmokeChanges[i] \in Changes("social")
<1> DEFINE bridge == {"endpoint_url", "compliance_acknowledged"}
           plugin == bridge \cup {"plugin_package", "plugin_installed",
                                  "account_session_ready"}
<1>1. /\ {"endpoint_url"} \in SUBSET Fields /\ bridge \in SUBSET Fields
      /\ plugin \in SUBSET Fields
  BY DEF Fields
<1>2. /\ SmokeChanges[1] = SmokeChange("qq_official", {"endpoint_url"})
      /\ SmokeChanges[2] = SmokeChange("onebot_qq", bridge)
      /\ SmokeChanges[3] = SmokeChange("wecom", {"endpoint_url"})
      /\ SmokeChanges[4] = SmokeChange("wechat_ilink", plugin)
      /\ SmokeChanges[5] = SmokeChange("qq_openclaw", plugin)
  BY DEF SmokeChanges
<1>3. {"qq_official", "onebot_qq", "wecom", "wechat_ilink", "qq_openclaw"} \subseteq Names
  BY DEF Names
<1> HIDE DEF bridge, plugin
<1> QED
  BY <1>1, <1>2, <1>3, SmokeChangeOK

LEMMA SocialChain == Chain(SocialProgram)
<1>1. \A i \in 1 .. 5 : Chain(SmokeEdit(i))
  BY SmokeChangesOK, EditChain DEF SmokeEdit, Stores
<1>2. Chain(SmokeEdit(1) \o SmokeEdit(2))
  BY <1>1, ChainConcat
<1>3. Chain(SmokeEdit(1) \o SmokeEdit(2) \o SmokeEdit(3))
  BY <1>1, <1>2, ChainConcat
<1>4. Chain(SmokeEdit(1) \o SmokeEdit(2) \o SmokeEdit(3) \o SmokeEdit(4))
  BY <1>1, <1>3, ChainConcat
<1>5. Chain(SmokeEdit(1) \o SmokeEdit(2) \o SmokeEdit(3) \o SmokeEdit(4) \o SmokeEdit(5))
  BY <1>1, <1>4, ChainConcat
<1>6. Chain(<< Step("config", "social"), Step("config", "social") >>)
  BY ConfigChain DEF Stores
<1> QED
  BY <1>5, <1>6, ChainConcat DEF SocialProgram

LEMMA UpdateIsChange ==
  ASSUME NEW s, NEW n \in Names, NEW t \in SUBSET SlotsOf(s), NEW e \in Entries
  PROVE  [op |-> "update", name |-> n, slots |-> t, fields |-> e] \in Changes(s)
BY DEF Changes

LEMMA SetActiveIsChange ==
  ASSUME NEW s, NEW n \in Names, NEW t \in SUBSET SlotsOf(s)
  PROVE  [op |-> "set_active", name |-> n, slots |-> t, fields |-> <<>>] \in Changes(s)
BY DEF Changes

LEMMA EditsOK ==
  ASSUME NEW s \in Stores, NEW c \in EditsOf[s]
  PROVE  c \in Changes(s)
<1> DEFINE both == [f \in {"credential_env_var", "configured_model"} |-> TRUE]
           model == [f \in {"configured_model"} |-> TRUE]
           off == [f \in {"enabled"} |-> FALSE]
           denied == [f \in {"compliance_acknowledged"} |-> FALSE]
<1>1. both \in Entries /\ model \in Entries /\ off \in Entries /\ denied \in Entries
  BY PartialFunction DEF Entries, Fields
<1>2. {"lab", "openai_compatible", "unknown", "wecom", "onebot_qq"} \subseteq Names
  BY DEF Names
<1>3. CASE s = "provider"
  <2>1. SlotsOf(s) = {"affective", "rational"}
    BY <1>3 DEF SlotsOf
  <2>2. \/ c = [op |-> "update", name |-> "lab", slots |-> {}, fields |-> both]
        \/ c = [op |-> "update", name |-> "openai_compatible", slots |-> {}, fields |-> model]
        \/ c = [op |-> "set_active", name |-> "lab", slots |-> {"affective"}, fields |-> <<>>]
        \/ c = [op |-> "set_active", name |-> "unknown", slots |-> {"rational"},
                fields |-> <<>>]
    BY <1>3, Zenon DEF EditsOf, ProviderEdits
  <2> HIDE DEF both, model
  <2>3. {} \in SUBSET SlotsOf(s) /\ {"affective"} \in SUBSET SlotsOf(s)
        /\ {"rational"} \in SUBSET SlotsOf(s)
    BY <2>1
  <2>4. /\ "lab" \in Names /\ "openai_compatible" \in Names /\ "unknown" \in Names
    BY <1>2
  <2> QED
    BY <1>1, <2>2, <2>3, <2>4, UpdateIsChange, SetActiveIsChange, Zenon
<1>4. CASE s = "social"
  <2>1. SlotsOf(s) = {"adapter"}
    BY <1>4 DEF SlotsOf
  <2>2. \/ c = [op |-> "update", name |-> "wecom", slots |-> {"adapter"}, fields |-> off]
        \/ c = [op |-> "update", name |-> "onebot_qq", slots |-> {}, fields |-> denied]
    BY <1>4, Zenon DEF EditsOf, SocialEdits
  <2> HIDE DEF off, denied
  <2>3. {} \in SUBSET SlotsOf(s) /\ {"adapter"} \in SUBSET SlotsOf(s)
    BY <2>1
  <2>4. "wecom" \in Names /\ "onebot_qq" \in Names
    BY <1>2
  <2> QED
    BY <1>1, <2>2, <2>3, <2>4, UpdateIsChange, Zenon
<1> QED
  BY <1>3, <1>4 DEF Stores

\* The first step of a program is neither half of a write.
Quiet(todo) == Len(todo) > 0 => todo[1].do \notin {"truncate", "write"}

LEMMA ReadStep ==
  ASSUME NEW given \in SUBSET Kinds
  PROVE  Step("read", given) \in Steps /\ << Step("read", given) >> \in Seq(Steps)
<1>1. Step("read", given) \in Steps
  BY DEF Step, Steps, ReadSteps
<1> QED
  BY <1>1

\* A step put before a program.
Before(x, q) == << x >> \o q

LEMMA Prefixed ==
  ASSUME NEW x \in Steps, NEW q \in Seq(Steps)
  PROVE  /\ Before(x, q) \in Seq(Steps) /\ Len(Before(x, q)) = Len(q) + 1
         /\ Before(x, q)[1] = x
         /\ \A i \in 1 .. Len(q) : Before(x, q)[i + 1] = q[i]
<1> DEFINE one == << x >>
<1>1. one \in Seq(Steps) /\ Len(one) = 1 /\ one[1] = x
  OBVIOUS
<1> HIDE DEF one
<1>2. /\ one \o q \in Seq(Steps) /\ Len(one \o q) = Len(one) + Len(q)
      /\ \A i \in 1 .. Len(one) + Len(q) :
             (one \o q)[i] = IF i <= Len(one) THEN one[i] ELSE q[i - Len(one)]
  BY <1>1, ConcatProperties
<1>3. Len(q) \in Nat
  OBVIOUS
<1>4. \A i \in 1 .. Len(q) : (one \o q)[i + 1] = q[i]
  BY <1>1, <1>2, <1>3
<1> QED
  BY <1>1, <1>2, <1>3, <1>4 DEF one, Before

LEMMA ClosureProgramOK ==
  ASSUME NEW given \in SUBSET ClosureKinds
  PROVE  /\ ClosureProgram(given) \in Seq(Steps)
         /\ SnapshotShape(ClosureProgram(given), <<>>)
         /\ Quiet(ClosureProgram(given))
<1> DEFINE snap == SnapshotOrder
           all == Before(Step("read", given), snap)
<1>1. /\ snap \in Seq(Steps) /\ Len(snap) = 2
      /\ snap[1].do = "spans" /\ snap[2].do = "pending"
  <2>1. Step("spans", "session") \in Steps /\ Step("pending", "session") \in Steps
    BY DEF Step, Steps, SessionSteps
  <2> QED
    BY <2>1 DEF SnapshotOrder, Step
<1> HIDE DEF snap
<1>2. given \in SUBSET Kinds
  BY DerivedAreKinds
<1>5. DOMAIN <<>> = {} /\ 2 - 1 = 1
  OBVIOUS
<1>3. CASE given = {}
  <2>1. ClosureProgram(given) = snap
    BY <1>1, <1>3 DEF ClosureProgram, snap
  <2> QED
    <3>1. Quiet(snap)
      BY <1>1 DEF Quiet
    <3>2. SnapshotShape(snap, <<>>)
      <4>1. "pending" \notin DOMAIN <<>>
        BY <1>5
      <4>2. snap[Len(snap) - 1].do = "spans" /\ snap[Len(snap)].do = "pending"
        BY <1>1, <1>5
      <4> QED
        BY <1>1, <4>1, <4>2 DEF SnapshotShape
    <3> QED
      BY <1>1, <2>1, <3>1, <3>2
<1>4. CASE given # {}
  <2>1. ClosureProgram(given) = all
    BY <1>4 DEF ClosureProgram, snap, Before
  <2>2. all \in Seq(Steps)
    BY <1>1, <1>2, ReadStep, Prefixed
  <2>3. /\ Len(all) = 3 /\ all[1] = Step("read", given)
        /\ all[2] = snap[1] /\ all[3] = snap[2]
    <3>1. Step("read", given) \in Steps
      BY <1>2, ReadStep
    <3>2. \A i \in 1 .. Len(snap) : all[i + 1] = snap[i]
      BY <1>1, <3>1, Prefixed
    <3>3. Len(all) = Len(snap) + 1 /\ all[1] = Step("read", given)
      BY <1>1, <3>1, Prefixed
    <3> HIDE DEF all
    <3>4. all[1 + 1] = snap[1] /\ all[2 + 1] = snap[2]
      BY <1>1, <3>2
    <3> QED
      BY <1>1, <3>3, <3>4
  <2> HIDE DEF all
  <2>4. all[1].do = "read" /\ all[1].of = given
    BY <2>3 DEF Step
  <2> QED
    BY <1>1, <1>5, <2>1, <2>2, <2>3, <2>4 DEF SnapshotShape, Quiet
<1> QED
  BY <1>3, <1>4

\* Every program an operator can begin.
LEMMA ProgramOK ==
  ASSUME NEW k \in Commands, NEW program \in Programs(k)
  PROVE  /\ CommandOK([kind |-> k, todo |-> program, read |-> <<>>])
         /\ Quiet(program)
<1> DEFINE c == [kind |-> k, todo |-> program, read |-> <<>>]
<1>1. k \in Kinds \cup {"closure", "edit"}
  BY DEF Commands
<1>2. c.kind = k /\ c.todo = program /\ c.read = <<>> /\ DOMAIN c.read = {}
  OBVIOUS
<1>3. "closure" \notin Derived /\ "edit" \notin Derived /\ "provider" \notin Derived
      /\ "social" \notin Derived
  BY DerivedAre
<1>4. CASE k = "closure"
  <2>1. PICK given \in Supplied : program = ClosureProgram(given)
    BY <1>3, <1>4 DEF Programs
  <2>2. given \in SUBSET ClosureKinds
    BY DEF Supplied
  <2> HIDE DEF c
  <2> QED
    BY <1>1, <1>2, <1>3, <1>4, <2>1, <2>2, ClosureProgramOK DEF CommandOK, c
<1>5. CASE k \in Derived
  <2>1. PICK given \in SourceSets(k) : program = << Step("read", given) >>
    BY <1>3, <1>5 DEF Programs
  <2>2. given \in SUBSET Kinds
    BY <1>5, SourcesAreKinds
  <2>3. program \in Seq(Steps) /\ Len(program) = 1 /\ program[1].do = "read"
        /\ program[1].of = given
    BY <2>1, <2>2, ReadStep DEF Step
  <2>4. SourcesShape(k, program, <<>>)
    BY <2>3 DEF SourcesShape
  <2>5. Quiet(program)
    BY <2>3 DEF Quiet
  <2> HIDE DEF c
  <2> QED
    BY <1>1, <1>2, <1>3, <1>5, <2>3, <2>4, <2>5 DEF CommandOK, c
<1>6. CASE k \notin Derived \cup {"closure"}
  <2>1. Chain(program)
    <3>1. CASE k = "edit"
      <4>1. PICK s \in Stores \cap play : \E e \in EditsOf[s] : program = Edit(s, e)
        BY <1>3, <3>1 DEF Programs
      <4> QED
        BY <4>1, EditsOK, EditChain
    <3>2. CASE k = "provider"
      BY <1>3, <3>2, ConfigChain DEF Programs, Stores
    <3>3. CASE k = "social"
      BY <1>3, <3>3, SocialChain DEF Programs
    <3>4. CASE k \notin {"edit", "provider", "social"}
      BY <1>6, <3>4, EmptyChain DEF Programs
    <3> QED
      BY <3>1, <3>2, <3>3, <3>4
  <2> HIDE DEF c
  <2> QED
    BY <1>1, <1>2, <1>6, <2>1 DEF CommandOK, Chain, Quiet, c
<1> QED
  BY <1>4, <1>5, <1>6

-----------------------------------------------------------------------------
\* One operator's command changes, and what else does not.

Becomes(o, c) ==
    /\ cmd' = [q \in Operators |-> cmd'[q]]
    /\ cmd'[o] = c
    /\ \A q \in Operators \ {o} : cmd'[q] = cmd[q]

LEMMA EndsBecomes ==
  ASSUME CommandsOK, NEW o \in Operators, Ends(o)
  PROVE  Becomes(o, NoCommand)
BY DEF CommandsOK, Ends, Becomes

LEMMA MovesBecomes ==
  ASSUME CommandsOK, NEW o \in Operators, cmd[o] # NoCommand, NEW t, NEW r,
         cmd' = [cmd EXCEPT ![o].todo = t, ![o].read = r]
  PROVE  Becomes(o, [kind |-> cmd[o].kind, todo |-> t, read |-> r])
<1>1. cmd[o] = [kind |-> cmd[o].kind, todo |-> cmd[o].todo, read |-> cmd[o].read]
  BY DEF CommandsOK, CommandOK
<1> QED
  BY <1>1 DEF CommandsOK, Becomes

LEMMA AdvancesBecomes ==
  ASSUME CommandsOK, NEW o \in Operators, cmd[o] # NoCommand, NEW t,
         cmd' = [cmd EXCEPT ![o].todo = t]
  PROVE  Becomes(o, [kind |-> cmd[o].kind, todo |-> t, read |-> cmd[o].read])
<1>1. cmd[o] = [kind |-> cmd[o].kind, todo |-> cmd[o].todo, read |-> cmd[o].read]
  BY DEF CommandsOK, CommandOK
<1> QED
  BY <1>1 DEF CommandsOK, Becomes

LEMMA CommandsStay ==
  ASSUME CommandsOK, NEW o \in Operators, NEW c, Becomes(o, c),
         c # NoCommand => CommandOK(c)
  PROVE  CommandsOK'
BY DEF CommandsOK, Becomes

LEMMA FilesStay ==
  ASSUME FilesOK, NEW o \in Operators, NEW c, Becomes(o, c), UNCHANGED file,
         c # NoCommand => cmd[o] # NoCommand /\ c.kind = cmd[o].kind
  PROVE  FilesOK'
BY DEF FilesOK, Becomes, Runs

LEMMA SnapshotsStay ==
  ASSUME SnapshotsOK, NEW o \in Operators, NEW c, Becomes(o, c),
         UNCHANGED <<spans, reopened>>, c # NoCommand => SeenOK(c)
  PROVE  SnapshotsOK'
BY DEF SnapshotsOK, SeenOK, Becomes

LEMMA ClosureStays ==
  ASSUME ClosureOK, UNCHANGED <<closure, spans, reopened>>
  PROVE  ClosureOK'
BY DEF ClosureOK

LEMMA StoresStay ==
  ASSUME StoresOK, NEW o \in Operators, NEW c, Becomes(o, c),
         UNCHANGED <<config, hist>>, \A s \in Stores : ~Busy(c, s)
  PROVE  StoresOK'
<1>1. \A s \in Stores : StoreTyped(s)'
  BY DEF StoresOK, StoreTyped, Becomes
<1>2. \A s \in Stores : s \notin hist'.overlapped => StoreKept(s)'
  BY DEF StoresOK, StoreKept, Becomes, Readable
<1> QED
  BY <1>1, <1>2 DEF StoresOK

\* A command that ended.
LEMMA EndsInv ==
  ASSUME Inv, NEW o \in Operators, Ends(o),
         UNCHANGED <<file, closure, config, spans, hist, reopened>>
  PROVE  Inv'
<1>1. Becomes(o, NoCommand)
  BY EndsBecomes DEF Inv
<1>2. \A s \in Stores : ~Busy(NoCommand, s)
  BY DEF Busy
<1> QED
  BY <1>1, <1>2, CommandsStay, FilesStay, SnapshotsStay, ClosureStays, StoresStay DEF Inv

\* A command that moved on without touching a file.
LEMMA MovesInv ==
  ASSUME Inv, NEW o \in Operators, cmd[o] # NoCommand, NEW t, NEW r,
         cmd' = [cmd EXCEPT ![o].todo = t, ![o].read = r],
         CommandOK([kind |-> cmd[o].kind, todo |-> t, read |-> r]),
         SeenOK([kind |-> cmd[o].kind, todo |-> t, read |-> r]), Quiet(t),
         UNCHANGED <<file, closure, config, spans, hist, reopened>>
  PROVE  Inv'
<1> DEFINE c == [kind |-> cmd[o].kind, todo |-> t, read |-> r]
<1>1. Becomes(o, c) /\ c.kind = cmd[o].kind
  BY MovesBecomes DEF Inv
<1>2. \A s \in Stores : ~Busy(c, s)
  <2>1. t \in Seq(Steps) /\ c.todo = t
    BY DEF CommandOK
  <2>2. t # <<>> => Len(t) > 0 /\ Head(t) = t[1]
    BY <2>1
  <2> HIDE DEF c
  <2> QED
    BY <2>1, <2>2 DEF Busy, Quiet
<1> HIDE DEF c
<1>3. CommandOK(c) /\ SeenOK(c)
  BY DEF c
<1> QED
  BY <1>1, <1>2, <1>3, CommandsStay, FilesStay, SnapshotsStay, ClosureStays, StoresStay
     DEF Inv

-----------------------------------------------------------------------------
\* The steps of a command.

LEMMA WithHas ==
  ASSUME NEW f, NEW k, NEW v
  PROVE  /\ DOMAIN With(f, k, v) = DOMAIN f \cup {k}
         /\ With(f, k, v)[k] = v
         /\ \A x \in DOMAIN f \ {k} : With(f, k, v)[x] = f[x]
BY DEF With

LEMMA AtFacts ==
  ASSUME Inv, NEW o \in Operators, NEW do, AtStep(o, do)
  PROVE  /\ cmd[o] # NoCommand /\ CommandOK(cmd[o]) /\ SeenOK(cmd[o])
         /\ cmd[o].todo \in Seq(Steps) /\ Len(cmd[o].todo) \in Nat /\ Len(cmd[o].todo) > 0
         /\ Head(cmd[o].todo) = cmd[o].todo[1] /\ cmd[o].todo[1].do = do
         /\ cmd[o].todo[1] \in Steps
         /\ Tail(cmd[o].todo) \in Seq(Steps)
         /\ Len(Tail(cmd[o].todo)) = Len(cmd[o].todo) - 1
         /\ \A i \in 1 .. Len(cmd[o].todo) - 1 : Tail(cmd[o].todo)[i] = cmd[o].todo[i + 1]
<1>1. cmd[o] # NoCommand /\ CommandOK(cmd[o]) /\ SeenOK(cmd[o])
  BY DEF AtStep, Inv, CommandsOK, SnapshotsOK
<1> DEFINE t == cmd[o].todo
<1>2. t \in Seq(Steps) /\ t # <<>> /\ Head(t).do = do
  BY <1>1 DEF CommandOK, AtStep
<1> HIDE DEF t
<1>3. /\ Len(t) \in Nat /\ Len(t) > 0 /\ Head(t) = t[1] /\ t[1] \in Steps
      /\ Tail(t) \in Seq(Steps) /\ Len(Tail(t)) = Len(t) - 1
      /\ \A i \in 1 .. Len(t) - 1 : Tail(t)[i] = t[i + 1]
  BY <1>2
<1> QED
  BY <1>1, <1>2, <1>3 DEF t

\* Which commands have which steps.
LEMMA StepKinds ==
  ASSUME NEW c, CommandOK(c), Len(c.todo) \in Nat, Len(c.todo) > 0
  PROVE  /\ c.todo[1].do = "read" => \/ c.kind = "closure" /\ Len(c.todo) = 3
                                     \/ c.kind \in Derived /\ Len(c.todo) = 1
         /\ c.todo[1].do = "spans" => c.kind = "closure" /\ Len(c.todo) = 2
         /\ c.todo[1].do = "pending" => c.kind = "closure" /\ Len(c.todo) = 1
         /\ c.todo[1].do \in {"load", "truncate", "write", "config"} =>
                c.kind \notin Derived \cup {"closure"} /\ StoreShape(c.todo)
<1>1. c.todo \in Seq(Steps) /\ 1 \in DOMAIN c.todo
  BY DEF CommandOK
<1>2. PICK n : n = Len(c.todo)
  OBVIOUS
<1>3. n \in Nat /\ n > 0
  BY <1>2
<1>4. CASE c.kind = "closure"
  <2>1. SnapshotShape(c.todo, c.read) /\ "closure" \notin Derived
    BY <1>4, DerivedAre DEF CommandOK
  <2>2. /\ n <= 3 /\ (n = 3 => c.todo[1].do = "read")
        /\ (n >= 2 => c.todo[n - 1].do = "spans") /\ c.todo[n].do = "pending"
    BY <1>2, <1>3, <2>1 DEF SnapshotShape
  <2>3. n = 1 \/ n = 2 \/ n = 3
    BY <1>3, <2>2
  <2>4. (n = 2 => c.todo[1].do = "spans") /\ (n = 1 => c.todo[1].do = "pending")
    BY <2>2
  <2> QED
    BY <1>2, <1>4, <2>1, <2>2, <2>3, <2>4
<1>5. CASE c.kind \in Derived
  <2>1. SourcesShape(c.kind, c.todo, c.read) /\ c.kind # "closure"
    BY <1>5, DerivedAre DEF CommandOK
  <2>2. n = 1
    <3>1. n <= 1
      BY <1>2, <2>1 DEF SourcesShape
    <3> QED
      BY <1>3, <3>1
  <2>3. c.todo[1].do = "read"
    BY <1>2, <2>1, <2>2 DEF SourcesShape
  <2> QED
    BY <1>2, <1>5, <2>2, <2>3
<1>6. CASE c.kind \notin Derived \cup {"closure"}
  <2>1. StoreShape(c.todo)
    BY <1>6 DEF CommandOK
  <2>2. c.todo[1].do \in {"load", "truncate", "write", "config"}
    BY <1>1, <2>1 DEF StoreShape
  <2> QED
    BY <1>6, <2>1, <2>2
<1> QED
  BY <1>4, <1>5, <1>6

\* The program t that is left of todo when the file of k has been read.
AfterRead(todo, k, t) ==
    t = IF todo[1].of = {k} THEN Tail(todo)
        ELSE Before(Step("read", todo[1].of \ {k}), Tail(todo))

\* One file less, or one step less.
Leaves(todo, k, t) ==
    /\ t \in Seq(Steps) /\ todo[1].of \subseteq Kinds
    /\ todo[1].of = {k} => /\ Len(t) = Len(todo) - 1
                           /\ \A i \in 1 .. Len(todo) - 1 : t[i] = todo[i + 1]
    /\ todo[1].of # {k} => /\ Len(t) = Len(todo)
                           /\ t[1].do = "read" /\ t[1].of = todo[1].of \ {k}
                           /\ \A i \in 1 .. Len(todo) - 1 : t[i + 1] = todo[i + 1]

LEMMA AfterReadHas ==
  ASSUME NEW todo \in Seq(Steps), Len(todo) > 0, todo[1].do = "read",
         NEW k \in todo[1].of, NEW t, AfterRead(todo, k, t)
  PROVE  Leaves(todo, k, t)
<1>1. PICK tail : tail = Tail(todo)
  OBVIOUS
<1>2. /\ tail \in Seq(Steps) /\ Len(todo) \in Nat /\ Len(tail) = Len(todo) - 1
      /\ \A i \in 1 .. Len(todo) - 1 : tail[i] = todo[i + 1]
      /\ todo[1] \in Steps
  BY <1>1
<1>3. todo[1].of \subseteq Kinds
  BY <1>2 DEF Steps, ReadSteps, SessionSteps, StoreSteps
<1>4. CASE todo[1].of = {k}
  BY <1>1, <1>2, <1>3, <1>4 DEF AfterRead, Leaves
<1>5. CASE todo[1].of # {k}
  <2>1. PICK x : x = Step("read", todo[1].of \ {k})
    OBVIOUS
  <2>2. x \in Steps /\ x.do = "read" /\ x.of = todo[1].of \ {k}
    BY <1>3, <2>1, ReadStep DEF Step
  <2>3. t = Before(x, tail)
    BY <1>1, <1>5, <2>1 DEF AfterRead
  <2>4. /\ t \in Seq(Steps) /\ Len(t) = Len(tail) + 1 /\ t[1] = x
        /\ \A i \in 1 .. Len(tail) : t[i + 1] = tail[i]
    BY <1>2, <2>2, <2>3, Prefixed
  <2>5. Len(t) = Len(todo) /\ \A i \in 1 .. Len(todo) - 1 : t[i + 1] = todo[i + 1]
    BY <1>2, <2>4
  <2> QED
    BY <1>3, <1>5, <2>2, <2>4, <2>5 DEF Leaves
<1> QED
  BY <1>4, <1>5

\* closure-summary and the smokes keep their shape as they read.
LEMMA SnapshotReads ==
  ASSUME NEW todo \in Seq(Steps), Len(todo) = 3, NEW read, SnapshotShape(todo, read),
         NEW k \in todo[1].of, NEW t, AfterRead(todo, k, t),
         NEW r, DOMAIN r = DOMAIN read \cup {k}, k \notin Words
  PROVE  SnapshotShape(t, r) /\ Quiet(t)
<1>1. /\ todo[1].do = "read" /\ todo[1].of \subseteq ClosureKinds
      /\ todo[2].do = "spans" /\ todo[3].do = "pending" /\ "pending" \notin DOMAIN read
  BY DEF SnapshotShape
<1>5. Leaves(todo, k, t)
  BY <1>1, AfterReadHas
<1>2. "pending" \notin DOMAIN r
  BY <1>1 DEF Words
<1>3. CASE todo[1].of = {k}
  <2>1. Len(t) = 2 /\ \A i \in 1 .. 2 : t[i] = todo[i + 1]
    <3>1. /\ Len(t) = Len(todo) - 1
          /\ \A i \in 1 .. Len(todo) - 1 : t[i] = todo[i + 1]
      BY <1>3, <1>5 DEF Leaves
    <3> QED
      BY <3>1
  <2>2. t[1].do = "spans" /\ t[2].do = "pending"
    BY <1>1, <2>1
  <2> QED
    BY <1>2, <2>1, <2>2 DEF SnapshotShape, Quiet
<1>4. CASE todo[1].of # {k}
  <2>1. /\ Len(t) = 3 /\ t[1].do = "read" /\ t[1].of = todo[1].of \ {k}
        /\ \A i \in 1 .. 2 : t[i + 1] = todo[i + 1]
    <3>1. /\ Len(t) = Len(todo) /\ t[1].do = "read" /\ t[1].of = todo[1].of \ {k}
          /\ \A i \in 1 .. Len(todo) - 1 : t[i + 1] = todo[i + 1]
      BY <1>4, <1>5 DEF Leaves
    <3> QED
      BY <3>1
  <2>2. t[2].do = "spans" /\ t[3].do = "pending"
    BY <1>1, <2>1
  <2> QED
    BY <1>1, <1>2, <2>1, <2>2 DEF SnapshotShape, Quiet
<1> QED
  BY <1>3, <1>4

LEMMA SourcesRead ==
  ASSUME NEW kind, NEW todo \in Seq(Steps), Len(todo) = 1, NEW read,
         SourcesShape(kind, todo, read), NEW k \in todo[1].of, NEW t,
         AfterRead(todo, k, t), NEW r, DOMAIN r = DOMAIN read \cup {k}
  PROVE  SourcesShape(kind, t, r) /\ Quiet(t)
<1>1. todo[1].do = "read" /\ DOMAIN read \cup todo[1].of \in SourceSets(kind)
  BY DEF SourcesShape
<1>4. Leaves(todo, k, t)
  BY <1>1, AfterReadHas
<1>2. CASE todo[1].of = {k}
  <2>1. Len(t) = 0 /\ DOMAIN r = DOMAIN read \cup todo[1].of
    <3>1. Len(t) = Len(todo) - 1
      BY <1>2, <1>4 DEF Leaves
    <3> QED
      BY <1>2, <3>1
  <2> QED
    BY <1>1, <2>1 DEF SourcesShape, Quiet
<1>3. CASE todo[1].of # {k}
  <2>1. /\ Len(t) = 1 /\ t[1].do = "read" /\ t[1].of = todo[1].of \ {k}
    BY <1>3, <1>4 DEF Leaves
  <2>2. DOMAIN r \cup t[1].of = DOMAIN read \cup todo[1].of
    BY <2>1
  <2>3. DOMAIN r \cup t[1].of \in SourceSets(kind)
    BY <1>1, <2>2, Zenon
  <2> QED
    BY <2>1, <2>3 DEF SourcesShape, Quiet
<1> QED
  BY <1>2, <1>3

LEMMA ReadInv == ASSUME Inv, NEW o \in Operators, Read(o) PROVE Inv'
<1>1. AtStep(o, "read")
  BY DEF Read
<1>2. PICK c : c = cmd[o]
  OBVIOUS
<1>3. /\ c # NoCommand /\ CommandOK(c) /\ SeenOK(c)
      /\ c.todo \in Seq(Steps) /\ Len(c.todo) \in Nat /\ Len(c.todo) > 0
      /\ Head(c.todo) = c.todo[1] /\ c.todo[1].do = "read"
  BY <1>1, <1>2, AtFacts
<1>4. PICK k \in FirstOf(c.todo[1].of, OrderOf(c.kind)) :
          /\ Readable(file[k])
          /\ cmd' = [cmd EXCEPT ![o].todo =
                         IF c.todo[1].of = {k} THEN Tail(@)
                         ELSE << Step("read", c.todo[1].of \ {k}) >> \o Tail(@),
                     ![o].read = With(@, k, file[k])]
  BY <1>2, <1>3 DEF Read
<1>5. PICK t : AfterRead(c.todo, k, t)
  BY DEF AfterRead
<1>6. PICK r : r = With(c.read, k, file[k])
  OBVIOUS
<1>7. cmd' = [cmd EXCEPT ![o].todo = t, ![o].read = r]
  <2>1. /\ cmd' = [cmd EXCEPT ![o].todo =
                       IF c.todo[1].of = {k} THEN Tail(cmd[o].todo)
                       ELSE Before(Step("read", c.todo[1].of \ {k}), Tail(cmd[o].todo)),
                   ![o].read = With(cmd[o].read, k, file[k])]
    BY <1>4 DEF Before
  <2> QED
    BY <1>2, <1>5, <1>6, <2>1 DEF AfterRead
<1>8. k \in c.todo[1].of
  BY DEF FirstOf
<1>9. t \in Seq(Steps) /\ k \in Kinds
  BY <1>3, <1>5, <1>8, AfterReadHas DEF Leaves
<1>10. PayloadOK(k, file[k])
  BY <1>4, <1>9 DEF Inv, FilesOK, Readable
<1>11. /\ DOMAIN r = DOMAIN c.read \cup {k} /\ r[k] = file[k]
       /\ \A x \in DOMAIN c.read \ {k} : r[x] = c.read[x]
  BY <1>6 DEF With
<1>12. k \notin Words
  BY <1>9, KindsAreNoWords
<1>13. \A x \in DOMAIN r \cap Kinds : PayloadOK(x, r[x])
  BY <1>3, <1>10, <1>11 DEF CommandOK
<1>14. PICK d : d = [kind |-> c.kind, todo |-> t, read |-> r]
  OBVIOUS
<1>15. d.kind = c.kind /\ d.todo = t /\ d.read = r
  BY <1>14
<1>16. c.kind \in Kinds \cup {"closure", "edit"}
  BY <1>3 DEF CommandOK
<1>17. UNCHANGED <<file, closure, config, spans, hist, reopened>>
  BY DEF Read
<1>18. CommandOK(d) /\ SeenOK(d) /\ Quiet(t)
  <2>1. CASE c.kind = "closure" /\ Len(c.todo) = 3
    <3>1. "closure" \notin Derived /\ SnapshotShape(c.todo, c.read)
      BY <1>3, <2>1, DerivedAre DEF CommandOK
    <3>2. SnapshotShape(t, r) /\ Quiet(t)
      BY <1>3, <1>5, <1>8, <1>11, <1>12, <2>1, <3>1, SnapshotReads
    <3>3. CommandOK(d)
      BY <1>9, <1>13, <1>14, <1>15, <1>16, <2>1, <3>1, <3>2 DEF CommandOK
    <3>4. "pending" \notin DOMAIN r
      <4>1. "pending" \notin DOMAIN c.read
        BY <2>1, <3>1 DEF SnapshotShape
      <4> QED
        BY <1>11, <1>12, <4>1 DEF Words
    <3>5. "spans" \in DOMAIN r => "spans" \in DOMAIN c.read /\ r["spans"] = c.read["spans"]
      BY <1>11, <1>12 DEF Words
    <3>6. SeenOK(d)
      BY <1>3, <1>15, <2>1, <3>4, <3>5 DEF SeenOK
    <3> QED
      BY <3>2, <3>3, <3>6
  <2>2. CASE c.kind \in Derived /\ Len(c.todo) = 1
    <3>1. c.kind # "closure" /\ SourcesShape(c.kind, c.todo, c.read)
      BY <1>3, <2>2, DerivedAre DEF CommandOK
    <3>2. SourcesShape(c.kind, t, r) /\ Quiet(t)
      <4>1. PICK kind, todo, read : kind = c.kind /\ todo = c.todo /\ read = c.read
        OBVIOUS
      <4>2. /\ todo \in Seq(Steps) /\ Len(todo) = 1 /\ SourcesShape(kind, todo, read)
            /\ k \in todo[1].of /\ AfterRead(todo, k, t)
            /\ DOMAIN r = DOMAIN read \cup {k}
        BY <1>3, <1>5, <1>8, <1>11, <2>2, <3>1, <4>1
      <4>3. SourcesShape(kind, t, r) /\ Quiet(t)
        BY <4>2, SourcesRead
      <4> QED
        BY <4>1, <4>3
    <3>3. CommandOK(d)
      BY <1>9, <1>13, <1>14, <1>15, <1>16, <2>2, <3>1, <3>2 DEF CommandOK
    <3>4. SeenOK(d)
      BY <1>15, <3>1 DEF SeenOK
    <3> QED
      BY <3>2, <3>3, <3>4
  <2> QED
    BY <1>3, <2>1, <2>2, StepKinds
<1> QED
  BY <1>2, <1>3, <1>7, <1>14, <1>17, <1>18, MovesInv

\* The program t and what has been read r, after a step that read v as key.
Taken(c, key, v, t, r) ==
    /\ t \in Seq(Steps) /\ Len(t) = Len(c.todo) - 1
    /\ \A i \in 1 .. Len(c.todo) - 1 : t[i] = c.todo[i + 1]
    /\ DOMAIN r = DOMAIN c.read \cup {key} /\ r[key] = v
    /\ \A x \in DOMAIN c.read \ {key} : r[x] = c.read[x]
    /\ \A x \in DOMAIN r \cap Kinds : PayloadOK(x, r[x])

LEMMA TookHas ==
  ASSUME Inv, NEW o \in Operators, NEW do, AtStep(o, do), NEW key \in Words, NEW v,
         Took(o, key, v)
  PROVE  \E t, r : /\ Taken(cmd[o], key, v, t, r)
                   /\ cmd' = [cmd EXCEPT ![o].todo = t, ![o].read = r]
<1>1. PICK c : c = cmd[o]
  OBVIOUS
<1>2. PICK t : t = Tail(c.todo)
  OBVIOUS
<1>3. PICK r : r = With(c.read, key, v)
  OBVIOUS
<1>4. cmd' = [cmd EXCEPT ![o].todo = t, ![o].read = r]
  <2>1. cmd' = [cmd EXCEPT ![o].todo = Tail(cmd[o].todo),
                           ![o].read = With(cmd[o].read, key, v)]
    BY DEF Took
  <2> QED
    BY <1>1, <1>2, <1>3, <2>1
<1>5. /\ CommandOK(c) /\ t \in Seq(Steps) /\ Len(t) = Len(c.todo) - 1
      /\ \A i \in 1 .. Len(c.todo) - 1 : t[i] = c.todo[i + 1]
  BY <1>1, <1>2, AtFacts
<1>6. /\ DOMAIN r = DOMAIN c.read \cup {key} /\ r[key] = v
      /\ \A x \in DOMAIN c.read \ {key} : r[x] = c.read[x]
  BY <1>3 DEF With
<1>7. key \notin Kinds
  BY KindsAreNoWords
<1>8. \A x \in DOMAIN r \cap Kinds : PayloadOK(x, r[x])
  BY <1>5, <1>6, <1>7 DEF CommandOK
<1>9. Taken(c, key, v, t, r)
  BY <1>5, <1>6, <1>8 DEF Taken
<1> QED
  BY <1>1, <1>4, <1>9

\* closure-summary moved on with the session.
LEMMA SnapshotMovesInv ==
  ASSUME Inv, NEW o \in Operators, NEW c, c = cmd[o], c # NoCommand, CommandOK(c),
         c.kind = "closure", NEW t \in Seq(Steps), NEW r,
         cmd' = [cmd EXCEPT ![o].todo = t, ![o].read = r],
         SnapshotShape(t, r), \A x \in DOMAIN r \cap Kinds : PayloadOK(x, r[x]),
         SeenOK([kind |-> c.kind, todo |-> t, read |-> r]), Quiet(t),
         UNCHANGED <<file, closure, config, spans, hist, reopened>>
  PROVE  Inv'
<1>1. PICK d : d = [kind |-> c.kind, todo |-> t, read |-> r]
  OBVIOUS
<1>2. d.kind = "closure" /\ d.todo = t /\ d.read = r
  BY <1>1
<1>3. CommandOK(d)
  BY <1>1, <1>2, DerivedAre DEF CommandOK
<1> QED
  BY <1>1, <1>3, MovesInv

\* What the session holds.
LEMMA SpansAre ==
  ASSUME Inv
  PROVE  /\ spans \in Seq(Spans) /\ Len(spans) \in Nat /\ DOMAIN spans = 1 .. Len(spans)
         /\ \A n \in DOMAIN spans : /\ spans[n] \in Spans
                                    /\ spans[n].audited \in BOOLEAN
<1>1. spans \in Seq(Spans)
  BY DEF Inv, SnapshotsOK
<1>2. Len(spans) \in Nat /\ DOMAIN spans = 1 .. Len(spans)
  BY <1>1
<1>3. \A n \in DOMAIN spans : spans[n] \in Spans
  BY <1>1
<1> QED
  BY <1>1, <1>2, <1>3 DEF Spans

LEMMA ReadSpansInv == ASSUME Inv, NEW o \in Operators, ReadSpans(o) PROVE Inv'
<1>1. PICK c : c = cmd[o]
  OBVIOUS
<1>2. AtStep(o, "spans") /\ Took(o, "spans", get_execution_spans_for_session)
  BY DEF ReadSpans
<1>3. /\ c # NoCommand /\ CommandOK(c) /\ Len(c.todo) \in Nat /\ Len(c.todo) > 0
      /\ c.todo[1].do = "spans"
  BY <1>1, <1>2, AtFacts
<1>4. c.kind = "closure" /\ Len(c.todo) = 2
  BY <1>3, StepKinds
<1>5. PICK seen : seen = get_execution_spans_for_session
  OBVIOUS
<1>6. \A n \in DOMAIN seen : n \in DOMAIN spans /\ seen[n] = spans[n].audited
  BY <1>5 DEF get_execution_spans_for_session
<1>7. \A n \in DOMAIN spans : spans[n].audited \in BOOLEAN
  BY SpansAre
<1>8. PICK t, r : /\ Taken(c, "spans", seen, t, r)
                  /\ cmd' = [cmd EXCEPT ![o].todo = t, ![o].read = r]
  <2>1. "spans" \in Words
    BY DEF Words
  <2> QED
    BY <1>1, <1>2, <1>5, <2>1, TookHas, Zenon
<1>9. c.todo[2].do = "pending" /\ "pending" \notin DOMAIN c.read
  BY <1>3, <1>4 DEF CommandOK, SnapshotShape
<1>10. /\ t \in Seq(Steps) /\ Len(t) = 1 /\ t[1].do = "pending"
       /\ "spans" \in DOMAIN r /\ r["spans"] = seen /\ "pending" \notin DOMAIN r
       /\ \A x \in DOMAIN r \cap Kinds : PayloadOK(x, r[x])
  <2>1. /\ t \in Seq(Steps) /\ "spans" \in DOMAIN r /\ r["spans"] = seen
        /\ "pending" \notin DOMAIN r /\ \A x \in DOMAIN r \cap Kinds : PayloadOK(x, r[x])
    BY <1>8, <1>9 DEF Taken
  <2>2. Len(t) = Len(c.todo) - 1 /\ \A i \in 1 .. Len(c.todo) - 1 : t[i] = c.todo[i + 1]
    BY <1>8 DEF Taken
  <2>3. Len(t) = 1 /\ t[1] = c.todo[2]
    BY <1>4, <2>2
  <2> QED
    BY <1>9, <2>1, <2>3
<1>11. SnapshotShape(t, r) /\ Quiet(t)
  BY <1>10 DEF SnapshotShape, Quiet
<1>12. SeenOK([kind |-> c.kind, todo |-> t, read |-> r])
  BY <1>6, <1>7, <1>10 DEF SeenOK
<1>13. UNCHANGED <<file, closure, config, spans, hist, reopened>>
  BY DEF ReadSpans
<1> QED
  BY <1>1, <1>3, <1>4, <1>8, <1>10, <1>11, <1>12, <1>13, SnapshotMovesInv

LEMMA ReadPendingInv == ASSUME Inv, NEW o \in Operators, ReadPending(o) PROVE Inv'
<1>1. PICK c : c = cmd[o]
  OBVIOUS
<1>2. PICK waiting : waiting = {i \in DOMAIN spans : spans[i].request = "pending"}
  OBVIOUS
<1>3. AtStep(o, "pending") /\ Took(o, "pending", waiting)
  BY <1>2 DEF ReadPending
<1>4. /\ c # NoCommand /\ CommandOK(c) /\ SeenOK(c) /\ Len(c.todo) \in Nat
      /\ Len(c.todo) > 0 /\ c.todo[1].do = "pending"
  BY <1>1, <1>3, AtFacts
<1>5. c.kind = "closure" /\ Len(c.todo) = 1
  BY <1>4, StepKinds
<1>6. PICK t, r : /\ Taken(c, "pending", waiting, t, r)
                  /\ cmd' = [cmd EXCEPT ![o].todo = t, ![o].read = r]
  <2>1. "pending" \in Words
    BY DEF Words
  <2> QED
    BY <1>1, <1>3, <2>1, TookHas, Zenon
<1>7. "spans" \in DOMAIN c.read
  BY <1>4, <1>5 DEF CommandOK, SnapshotShape
<1>8. /\ t \in Seq(Steps) /\ Len(t) = 0
      /\ "spans" \in DOMAIN r /\ r["spans"] = c.read["spans"]
      /\ "pending" \in DOMAIN r /\ r["pending"] = waiting
      /\ \A x \in DOMAIN r \cap Kinds : PayloadOK(x, r[x])
  BY <1>5, <1>6, <1>7 DEF Taken
<1>9. SnapshotShape(t, r) /\ Quiet(t)
  BY <1>8 DEF SnapshotShape, Quiet
<1>10. SeenOK([kind |-> c.kind, todo |-> t, read |-> r])
  BY <1>2, <1>4, <1>5, <1>7, <1>8 DEF SeenOK
<1>11. UNCHANGED <<file, closure, config, spans, hist, reopened>>
  BY DEF ReadPending
<1> QED
  BY <1>1, <1>4, <1>5, <1>6, <1>8, <1>9, <1>10, <1>11, SnapshotMovesInv

-----------------------------------------------------------------------------
\* Commands that end.

LEMMA KillInv == ASSUME Inv, NEW o \in Operators, Kill(o) PROVE Inv'
BY EndsInv DEF Kill

LEMMA LoadFailsInv == ASSUME Inv, NEW o \in Operators, LoadFails(o) PROVE Inv'
BY EndsInv DEF LoadFails

\* A command that saved p as its evidence and ended.
LEMMA SavesInv ==
  ASSUME Inv, NEW o \in Operators, cmd[o] # NoCommand, cmd[o].kind \in Kinds,
         NEW p, PayloadOK(cmd[o].kind, p), file' = [file EXCEPT ![cmd[o].kind] = p],
         Ends(o), UNCHANGED <<closure, config, spans, hist, reopened>>
  PROVE  Inv'
<1>1. Becomes(o, NoCommand)
  BY EndsBecomes DEF Inv
<1>2. \A s \in Stores : ~Busy(NoCommand, s)
  BY DEF Busy
<1>3. CommandsOK' /\ SnapshotsOK' /\ ClosureOK' /\ StoresOK'
  BY <1>1, <1>2, CommandsStay, SnapshotsStay, ClosureStays, StoresStay DEF Inv
<1>4. PICK kind : kind = cmd[o].kind
  OBVIOUS
<1>5. /\ file = [k \in Kinds |-> file[k]] /\ kind \in Kinds
      /\ file' = [file EXCEPT ![kind] = p] /\ PayloadOK(kind, p)
  BY <1>4 DEF Inv, FilesOK
<1>6. file' = [k \in Kinds |-> file'[k]]
  BY <1>5
<1>7. \A k \in Kinds : file'[k] = IF k = kind THEN p ELSE file[k]
  BY <1>5
<1>8. \A k \in Kinds : file'[k] \in {NoFile, Torn} \/ PayloadOK(k, file'[k])
  BY <1>5, <1>7 DEF Inv, FilesOK
<1>9. \A q \in Operators : cmd'[q] # NoCommand => q # o /\ cmd'[q] = cmd[q]
  BY <1>1 DEF Becomes
<1>10. \A q \in Operators : cmd'[q] # NoCommand => cmd'[q].kind # kind
  BY <1>4, <1>5, <1>9 DEF Inv, FilesOK, Runs
<1>11. ASSUME NEW q \in Operators, cmd'[q] # NoCommand, cmd'[q].kind \in Kinds
       PROVE  file'[cmd'[q].kind] = Torn
  BY <1>7, <1>9, <1>10, <1>11 DEF Inv, FilesOK
<1>12. ASSUME NEW q \in Operators, NEW w \in Operators, cmd'[q] # NoCommand,
              cmd'[q].kind \in Kinds, Runs(w, cmd[q].kind)'
       PROVE  q = w
  BY <1>9, <1>12 DEF Inv, FilesOK, Runs
<1>13. FilesOK'
  BY <1>6, <1>8, <1>11, <1>12 DEF FilesOK
<1> QED
  BY <1>3, <1>13 DEF Inv

LEMMA ReadFailsInv == ASSUME Inv, NEW o \in Operators, ReadFails(o) PROVE Inv'
<1>1. AtStep(o, "read") /\ Ends(o) /\ UNCHANGED <<closure, config, spans, hist, reopened>>
  BY DEF ReadFails
<1>2. CASE cmd[o].kind \in AnswersErrors
  <2>1. cmd[o] # NoCommand /\ cmd[o].kind \in Kinds
    <3>1. cmd[o] # NoCommand /\ cmd[o].kind \in Kinds \cup {"closure", "edit"}
      BY <1>1, AtFacts DEF CommandOK
    <3> QED
      BY <1>2, <3>1, DerivedAre, FactsAre DEF AnswersErrors
  <2>2. file' = [file EXCEPT ![cmd[o].kind] = ErrorPayload(cmd[o].kind)]
    BY <1>2 DEF ReadFails
  <2> QED
    BY <1>1, <1>2, <2>1, <2>2, ErrorPayloadOK, SavesInv
<1>3. CASE cmd[o].kind \notin AnswersErrors
  <2>1. UNCHANGED file
    BY <1>3 DEF ReadFails
  <2> QED
    BY <1>1, <2>1, EndsInv
<1> QED
  BY <1>2, <1>3

LEMMA PrintAnswerInv == ASSUME Inv, NEW o \in Operators, PrintAnswer(o) PROVE Inv'
<1>1. /\ cmd[o] # NoCommand /\ cmd[o].todo = <<>> /\ cmd[o].kind # "closure" /\ Ends(o)
      /\ UNCHANGED <<closure, config, spans, hist, reopened>>
  BY DEF PrintAnswer
<1>2. CommandOK(cmd[o])
  BY <1>1 DEF Inv, CommandsOK
<1>3. CASE cmd[o].kind = "edit"
  <2>1. UNCHANGED file
    BY <1>3 DEF PrintAnswer
  <2> QED
    BY <1>1, <2>1, EndsInv
<1>4. CASE cmd[o].kind # "edit"
  <2>1. cmd[o].kind \in Kinds
    BY <1>1, <1>2, <1>4 DEF CommandOK
  <2>2. PICK p \in Payloads(cmd[o].kind, cmd[o].read) :
            file' = [file EXCEPT ![cmd[o].kind] = p]
    BY <1>4 DEF PrintAnswer
  <2>3. PayloadOK(cmd[o].kind, p)
    <3>1. PICK k, read : k = cmd[o].kind /\ read = cmd[o].read
      OBVIOUS
    <3>2. \A x \in DOMAIN read \cap Kinds : PayloadOK(x, read[x])
      BY <1>2, <3>1 DEF CommandOK
    <3>3. k \in Derived => /\ DOMAIN read \in SourceSets(k)
                           /\ \A x \in DOMAIN read : PayloadOK(x, read[x])
      <4>1. SUFFICES ASSUME k \in Derived
                     PROVE  /\ DOMAIN read \in SourceSets(k)
                            /\ \A x \in DOMAIN read : PayloadOK(x, read[x])
        OBVIOUS
      <4>2. DOMAIN read \in SourceSets(k)
        BY <1>1, <1>2, <3>1, <4>1 DEF CommandOK, SourcesShape
      <4>3. DOMAIN read \subseteq Kinds
        BY <4>1, <4>2, SourcesAreKinds
      <4> QED
        BY <3>2, <4>2, <4>3
    <3>4. k \in Kinds /\ p \in Payloads(k, read)
      BY <2>1, <2>2, <3>1
    <3>5. PayloadOK(k, p)
      BY <3>3, <3>4, PrintedPayloadOK
    <3> QED
      BY <3>1, <3>5
  <2> QED
    BY <1>1, <2>1, <2>2, <2>3, SavesInv
<1> QED
  BY <1>3, <1>4

-----------------------------------------------------------------------------
\* Commands that begin.

LEMMA BeginInv ==
  ASSUME Inv, NEW o \in Operators, NEW k \in Commands, Begin(o, k)
  PROVE  Inv'
<1>1. PICK program \in Programs(k) :
          cmd' = [cmd EXCEPT ![o] = [kind |-> k, todo |-> program, read |-> <<>>]]
  BY DEF Begin
<1>2. PICK d : d = [kind |-> k, todo |-> program, read |-> <<>>]
  OBVIOUS
<1>3. CommandOK(d) /\ Quiet(program)
  BY <1>2, ProgramOK
<1>4. d.kind = k /\ d.todo = program /\ DOMAIN d.read = {}
  BY <1>2
<1>5. Becomes(o, d)
  BY <1>1, <1>2 DEF Inv, CommandsOK, Becomes
<1>6. CommandsOK'
  BY <1>3, <1>5, CommandsStay DEF Inv
<1>7. SeenOK(d) /\ UNCHANGED <<config, spans, hist>>
  BY <1>4 DEF SeenOK, Begin
<1>8. SnapshotsOK'
  <2>1. CASE k = "closure"
    <3>1. \A q \in Operators : cmd[q] # NoCommand => cmd[q].kind # "closure"
      BY <2>1 DEF Begin, Runs
    <3>2. ASSUME NEW q \in Operators, cmd'[q] # NoCommand PROVE SeenOK(cmd[q])'
      BY <1>4, <1>5, <3>1, <3>2 DEF SeenOK, Becomes
    <3> QED
      BY <1>7, <3>2 DEF Inv, SnapshotsOK
  <2>2. CASE k # "closure"
    <3>1. UNCHANGED reopened
      BY <2>2 DEF Begin
    <3> QED
      BY <1>5, <1>7, <3>1, SnapshotsStay DEF Inv
  <2> QED
    BY <2>1, <2>2
<1>9. ClosureOK'
  <2>1. closure' = Torn \/ (closure' = closure /\ reopened' = reopened)
    BY DEF Begin
  <2> QED
    BY <1>7, <2>1 DEF Inv, ClosureOK
<1>10. StoresOK'
  <2>1. program \in Seq(Steps)
    BY <1>3, <1>4 DEF CommandOK
  <2>2. program # <<>> => Len(program) > 0 /\ Head(program) = program[1]
    BY <2>1
  <2>3. \A s \in Stores : ~Busy(d, s)
    BY <1>3, <1>4, <2>2 DEF Busy, Quiet
  <2> QED
    BY <1>5, <1>7, <2>3, StoresStay DEF Inv
<1>11. FilesOK'
  <2>1. \A q \in Operators : k # "edit" => ~Runs(q, k)
    BY DEF Begin
  <2>2. /\ cmd'[o] = d /\ \A q \in Operators \ {o} : cmd'[q] = cmd[q]
    BY <1>5 DEF Becomes
  <2>3. k \in Kinds => k # "edit"
    BY KindsAreNoWords DEF Words
  <2>4. /\ file' = [j \in Kinds |-> file'[j]]
        /\ \A j \in Kinds : file'[j] = IF j = k THEN Torn ELSE file[j]
    BY DEF Begin, Inv, FilesOK
  <2>5. \A j \in Kinds : file'[j] \in {NoFile, Torn} \/ PayloadOK(j, file'[j])
    BY <2>4 DEF Inv, FilesOK
  <2>6. ASSUME NEW q \in Operators, cmd'[q] # NoCommand, cmd'[q].kind \in Kinds
        PROVE  file'[cmd'[q].kind] = Torn
    <3>1. CASE q = o
      BY <1>4, <2>2, <2>4, <2>6, <3>1
    <3>2. CASE q # o
      BY <2>2, <2>4, <2>6, <3>2 DEF Inv, FilesOK
    <3> QED
      BY <3>1, <3>2
  <2>7. ASSUME NEW q \in Operators, NEW w \in Operators, cmd'[q] # NoCommand,
               cmd'[q].kind \in Kinds, Runs(w, cmd[q].kind)'
        PROVE  q = w
    <3>1. cmd'[w] # NoCommand /\ cmd'[w].kind = cmd'[q].kind
      BY <2>7 DEF Runs
    <3>2. CASE q = o /\ w # o
      BY <1>4, <2>1, <2>2, <2>3, <2>7, <3>1, <3>2 DEF Runs
    <3>3. CASE q # o /\ w = o
      BY <1>4, <2>1, <2>2, <2>3, <2>7, <3>1, <3>3 DEF Runs
    <3>4. CASE q # o /\ w # o
      BY <2>2, <2>7, <3>1, <3>4 DEF Runs, Inv, FilesOK
    <3> QED
      BY <3>2, <3>3, <3>4
  <2> QED
    BY <2>4, <2>5, <2>6, <2>7 DEF FilesOK
<1> QED
  BY <1>6, <1>8, <1>9, <1>10, <1>11 DEF Inv

-----------------------------------------------------------------------------
\* The summary.

LEMMA PrintClosureInv == ASSUME Inv, NEW o \in Operators, PrintClosure(o) PROVE Inv'
<1>1. PICK read : read = cmd[o].read
  OBVIOUS
<1>2. PICK counted : counted = {n \in DOMAIN read["spans"] : read["spans"][n]}
  OBVIOUS
<1>3. PICK latest :
          latest = {spans[n].exec : n \in {n \in counted : \A m \in counted : m <= n}}
  OBVIOUS
<1>4. PICK f : f = [k \in ClosureKinds |->
                       IF k \in DOMAIN read THEN read[k]
                       ELSE IF k \in play THEN NotSupplied ELSE Good(k)]
  OBVIOUS
<1>5. /\ Runs(o, "closure") /\ cmd[o].todo = <<>> /\ Ends(o)
      /\ UNCHANGED <<play, file, config, spans, begun, hist, reopened>>
  BY DEF PrintClosure
<1>6. PICK provider \in BOOLEAN, multimodal \in BOOLEAN :
          closure' = [ok |-> Failed(aggregate_gates(f, latest, read["pending"],
                                                    provider, multimodal)) = {},
                      validated |-> validation_gates(f, latest),
                      evidence |-> {f[k] : k \in play \cap ClosureKinds},
                      counted |-> counted]
  BY <1>1, <1>2, <1>3, <1>4 DEF PrintClosure
<1>7. cmd[o] # NoCommand /\ cmd[o].kind = "closure"
  BY <1>5 DEF Runs
<1>8. CommandOK(cmd[o]) /\ SeenOK(cmd[o])
  BY <1>7 DEF Inv, CommandsOK, SnapshotsOK
<1>9. "spans" \in DOMAIN read /\ "pending" \in DOMAIN read
  <2>1. SnapshotShape(<<>>, read)
    BY <1>1, <1>5, <1>7, <1>8 DEF CommandOK
  <2> QED
    BY <2>1 DEF SnapshotShape
<1>10. \A n \in counted : /\ n \in DOMAIN spans /\ spans[n].audited
                          /\ read["pending"] = {} /\ spans[n].request = "pending"
                                => n \in reopened
  BY <1>1, <1>2, <1>7, <1>8, <1>9 DEF SeenOK
<1>11. closure'.ok => read["pending"] = {}
  BY <1>6, OkHasNoPending
<1>12. \A k \in ClosureKinds : f[k] = NotSupplied \/ PayloadOK(k, f[k])
  <2>1. \A k \in DOMAIN read \cap Kinds : PayloadOK(k, read[k])
    BY <1>1, <1>8 DEF CommandOK
  <2> QED
    BY <1>4, <2>1, DerivedAreKinds, GoodPayloadOK
<1>13. validation_gates(f, latest) =>
           \A k \in ClosureKinds : f[k] # NotSupplied => RestsOnSources(f[k])
  BY <1>12, ValidatedRests
<1>14. validation_gates(f, latest) \in BOOLEAN
  BY DEF validation_gates
<1>15. ClosureOK'
  <2>1. /\ closure'.ok \in BOOLEAN /\ closure'.validated \in BOOLEAN
        /\ closure'.counted = counted
        /\ closure'.evidence = {f[k] : k \in play \cap ClosureKinds}
        /\ closure'.validated = validation_gates(f, latest)
    BY <1>6, <1>14
  <2> QED
    BY <1>5, <1>10, <1>11, <1>13, <2>1 DEF ClosureOK
<1>16. Becomes(o, NoCommand)
  BY <1>5, EndsBecomes DEF Inv
<1>17. \A s \in Stores : ~Busy(NoCommand, s)
  BY DEF Busy
<1> QED
  BY <1>5, <1>15, <1>16, <1>17, CommandsStay, FilesStay, SnapshotsStay, StoresStay DEF Inv

-----------------------------------------------------------------------------
\* The session.

\* Runs and approvals add spans; an audited one asks for nothing more.
LEMMA SpansGrow ==
  ASSUME Inv, spans' \in Seq(Spans), DOMAIN spans \subseteq DOMAIN spans',
         \A n \in DOMAIN spans :
             /\ spans[n].audited => spans'[n].audited
             /\ spans[n].audited /\ spans'[n].request = "pending" =>
                    spans[n].request = "pending",
         UNCHANGED <<file, closure, config, cmd, hist, reopened>>
  PROVE  Inv'
<1>1. CommandsOK' /\ FilesOK'
  BY DEF Inv, CommandsOK, FilesOK, Runs
<1>2. StoresOK'
  BY DEF Inv, StoresOK, StoreTyped, StoreKept, Busy, Readable
<1>3. ClosureOK'
  BY DEF Inv, ClosureOK
<1>4. ASSUME NEW c, SeenOK(c) PROVE SeenOK(c)'
  BY <1>4 DEF SeenOK
<1>5. SnapshotsOK'
  BY <1>4 DEF Inv, SnapshotsOK
<1> QED
  BY <1>1, <1>2, <1>3, <1>5 DEF Inv

\* A span more.
LEMMA SpanAdded ==
  ASSUME Inv, NEW span \in Spans, spans' = Append(spans, span),
         UNCHANGED <<file, closure, config, cmd, hist, reopened>>
  PROVE  Inv'
<1>1. spans \in Seq(Spans)
  BY SpansAre
<1>2. spans' \in Seq(Spans) /\ DOMAIN spans \subseteq DOMAIN spans'
  BY <1>1
<1>3. \A n \in DOMAIN spans : spans'[n] = spans[n]
  BY <1>1
<1> QED
  BY <1>2, <1>3, SpansGrow

\* A span changed.
LEMMA SpanChanged ==
  ASSUME Inv, NEW i \in DOMAIN spans, NEW span \in Spans,
         spans' = [spans EXCEPT ![i] = span],
         spans[i].audited => span.audited,
         spans[i].audited /\ span.request = "pending" => spans[i].request = "pending",
         UNCHANGED <<file, closure, config, cmd, hist, reopened>>
  PROVE  Inv'
<1>1. spans \in Seq(Spans)
  BY SpansAre
<1>2. spans' \in Seq(Spans) /\ DOMAIN spans \subseteq DOMAIN spans'
  BY <1>1
<1>3. \A n \in DOMAIN spans : spans'[n] = IF n = i THEN span ELSE spans[n]
  BY <1>1
<1> QED
  BY <1>2, <1>3, SpansGrow

LEMMA RunBeginsInv == ASSUME Inv, RunBegins PROVE Inv'
<1>1. PICK e \in Executions :
          spans' = Append(spans, [audited |-> FALSE, request |-> "none",
                                  resumes |-> 0, exec |-> e])
  BY DEF RunBegins
<1>2. e \in Execs
  <2> DEFINE sound == {"memory", "tool"}
             d == [context |-> TRUE, plan |-> "tool_selected", results |-> TRUE,
                   route |-> "relay", sound |-> sound]
             other == [results |-> FALSE]
  <2>1. DOMAIN other = {"results"} /\ other["results"] = FALSE
    OBVIOUS
  <2>2. e = d \/ \E f \in DOMAIN other : e = [d EXCEPT ![f] = other[f]]
    BY DEF Executions, Varied
  <2>3. e = d \/ e = [d EXCEPT !.results = FALSE]
    BY <2>1, <2>2
  <2>4. sound \in {{"memory", "tool"}}
    OBVIOUS
  <2> HIDE DEF sound
  <2>5. \A b \in BOOLEAN : [context |-> TRUE, plan |-> "tool_selected", results |-> b,
                             route |-> "relay", sound |-> sound] \in Execs
    BY <2>4, Zenon DEF Execs
  <2>6. e = d \/ e = [context |-> TRUE, plan |-> "tool_selected", results |-> FALSE,
                      route |-> "relay", sound |-> sound]
    BY <2>3
  <2> QED
    BY <2>5, <2>6, Zenon
<1>3. [audited |-> FALSE, request |-> "none", resumes |-> 0, exec |-> e] \in Spans
  BY <1>2 DEF Spans
<1> QED
  BY <1>1, <1>3, SpanAdded DEF RunBegins

LEMMA RunAsksInv == ASSUME Inv, NEW i \in DOMAIN spans, RunAsks(i) PROVE Inv'
<1>1. PICK span : span = [spans[i] EXCEPT !.request = "pending"]
  OBVIOUS
<1>2. spans' = [spans EXCEPT ![i] = span] /\ ~spans[i].audited
  BY <1>1 DEF RunAsks
<1>3. span \in Spans
  BY <1>1, SpansAre DEF Spans
<1> QED
  BY <1>2, <1>3, SpanChanged DEF RunAsks

LEMMA SpanAuditedInv == ASSUME Inv, NEW i \in DOMAIN spans, SpanAudited(i) PROVE Inv'
<1>1. PICK span : span = [spans[i] EXCEPT !.audited = TRUE]
  OBVIOUS
<1>2. spans' = [spans EXCEPT ![i] = span] /\ ~spans[i].audited
  BY <1>1 DEF SpanAudited
<1>3. span \in Spans
  BY <1>1, SpansAre DEF Spans
<1> QED
  BY <1>2, <1>3, SpanChanged DEF SpanAudited

LEMMA ApprovalBeginsInv ==
  ASSUME Inv, NEW i \in DOMAIN spans, ApprovalBegins(i)
  PROVE  Inv'
<1>1. PICK e : e = [spans[i].exec EXCEPT !.context = FALSE]
  OBVIOUS
<1>2. spans[i].exec \in Execs /\ i \in Nat
  BY SpansAre DEF Spans
<1>3. e \in Execs
  BY <1>1, <1>2 DEF Execs
<1>4. [audited |-> FALSE, request |-> "none", resumes |-> i, exec |-> e] \in Spans
  BY <1>2, <1>3 DEF Spans
<1>5. spans' = Append(spans, [audited |-> FALSE, request |-> "none", resumes |-> i,
                              exec |-> e])
  BY <1>1 DEF ApprovalBegins
<1> QED
  BY <1>4, <1>5, SpanAdded DEF ApprovalBegins

\* The settled span, whoever settled it.
LEMMA SettledInv ==
  ASSUME Inv, NEW i \in DOMAIN spans, spans' = [spans EXCEPT ![i].request = "settled"],
         UNCHANGED <<file, closure, config, cmd, hist, reopened>>
  PROVE  Inv'
<1>1. PICK span : span = [spans[i] EXCEPT !.request = "settled"]
  OBVIOUS
<1>2. spans[i] \in Spans
  BY SpansAre
<1>3. span \in Spans /\ span.audited = spans[i].audited /\ span.request = "settled"
  BY <1>1, <1>2 DEF Spans
<1>4. spans' = [spans EXCEPT ![i] = span]
  BY <1>1
<1> QED
  BY <1>3, <1>4, SpanChanged

LEMMA DeniedInv == ASSUME Inv, NEW i \in DOMAIN spans, Denied(i) PROVE Inv'
BY SettledInv DEF Denied

LEMMA ApprovalSettlesInv ==
  ASSUME Inv, NEW j \in DOMAIN spans, ApprovalSettles(j)
  PROVE  Inv'
<1>1. PICK i : i = spans[j].resumes
  OBVIOUS
<1>2. /\ spans' = [spans EXCEPT ![i].request = "settled"]
      /\ UNCHANGED <<file, closure, config, cmd, hist, reopened>>
  BY <1>1 DEF ApprovalSettles
<1>3. CASE i \in DOMAIN spans
  BY <1>2, <1>3, SettledInv
<1>4. CASE i \notin DOMAIN spans
  <2>1. spans \in Seq(Spans)
    BY SpansAre
  <2>2. spans' = spans
    BY <1>2, <1>4, <2>1
  <2> QED
    BY <1>2, <2>1, <2>2, SpansGrow
<1> QED
  BY <1>3, <1>4

\* A stale pending status over a settled one.
LEMMA BlockedInv == ASSUME Inv, NEW i \in DOMAIN spans, Blocked(i) PROVE Inv'
<1>1. PICK span : span = [spans[i] EXCEPT !.request = "pending"]
  OBVIOUS
<1>2. spans \in Seq(Spans) /\ spans[i] \in Spans
  BY SpansAre
<1>3. span \in Spans /\ span.audited = spans[i].audited
  BY <1>1, <1>2 DEF Spans
<1>4. /\ spans' = [spans EXCEPT ![i] = span]
      /\ reopened' = IF SaysOk THEN reopened \cup {i} ELSE reopened
      /\ UNCHANGED <<file, closure, config, cmd, hist>>
  BY <1>1 DEF Blocked
<1>5. /\ spans' \in Seq(Spans) /\ DOMAIN spans' = DOMAIN spans
      /\ \A n \in DOMAIN spans : spans'[n] = IF n = i THEN span ELSE spans[n]
  BY <1>2, <1>3, <1>4
<1>6. CommandsOK' /\ FilesOK'
  BY <1>4 DEF Inv, CommandsOK, FilesOK, Runs
<1>7. StoresOK'
  BY <1>4 DEF Inv, StoresOK, StoreTyped, StoreKept, Busy, Readable
<1>8. ClosureOK'
  <2>1. closure \notin {NoFile, Torn} /\ closure.ok => i \in reopened'
    BY <1>4 DEF SaysOk
  <2> QED
    BY <1>3, <1>4, <1>5, <2>1 DEF Inv, ClosureOK
<1>9. ASSUME NEW o \in Operators, cmd[o] # NoCommand PROVE SeenOK(cmd[o])'
  <2>1. PICK c : c = cmd[o]
    OBVIOUS
  <2>2. SeenOK(c) /\ cmd'[o] = c
    BY <1>4, <1>9, <2>1 DEF Inv, SnapshotsOK
  <2>3. c.kind = "closure" /\ "pending" \in DOMAIN c.read /\ c.read["pending"] = {}
           => i \in reopened'
    BY <1>4, <1>9, <2>1 DEF SaysOk, Runs
  <2>4. reopened \subseteq reopened'
    BY <1>4
  <2>5. SeenOK(c)'
    BY <1>3, <1>5, <2>2, <2>3, <2>4 DEF SeenOK
  <2> QED
    BY <2>2, <2>5 DEF SeenOK
<1>10. SnapshotsOK'
  BY <1>4, <1>5, <1>9 DEF Inv, SnapshotsOK
<1> QED
  BY <1>6, <1>7, <1>8, <1>10 DEF Inv

LEMMA SessionStepInv == ASSUME Inv, SessionStep PROVE Inv'
BY RunBeginsInv, RunAsksInv, SpanAuditedInv, ApprovalBeginsInv, ApprovalSettlesInv,
   DeniedInv, BlockedInv DEF SessionStep

-----------------------------------------------------------------------------
\* Configuration files.

LEMMA StoreStepOf ==
  ASSUME NEW x \in Steps
  PROVE  /\ x.do \in {"load", "truncate", "write", "config"} => x.of \in Stores
         /\ x.do = "write" => x.change \in Changes(x.of)
<1>1. CASE x \in ReadSteps \cup SessionSteps
  BY <1>1 DEF ReadSteps, SessionSteps
<1>2. CASE \E s \in Stores : x \in StoreSteps(s)
  BY <1>2 DEF StoreSteps
<1> QED
  BY <1>1, <1>2 DEF Steps

\* What comes after a step on a file.
LEMMA StoreTail ==
  ASSUME NEW todo \in Seq(Steps), Len(todo) > 0, StoreShape(todo),
         NEW t \in Seq(Steps), Len(t) = Len(todo) - 1,
         \A i \in 1 .. Len(todo) - 1 : t[i] = todo[i + 1]
  PROVE  /\ StoreShape(t)
         /\ t # <<>> /\ Head(t).do = "truncate" =>
                todo[1].do = "load" /\ todo[1].of = Head(t).of
         /\ t # <<>> /\ Head(t).do = "write" =>
                todo[1].do = "truncate" /\ todo[1].of = Head(t).of
<1>1. /\ Len(todo) \in Nat /\ DOMAIN todo = 1 .. Len(todo)
      /\ DOMAIN t = 1 .. Len(todo) - 1
      /\ t # <<>> => Len(todo) > 1 /\ Head(t) = t[1]
  OBVIOUS
<1>2. ASSUME NEW i \in DOMAIN t
      PROVE  /\ t[i].do \in {"load", "truncate", "write", "config"}
             /\ t[i].do = "truncate" => todo[i].do = "load" /\ todo[i].of = t[i].of
             /\ t[i].do = "write" => todo[i].do = "truncate" /\ todo[i].of = t[i].of
  <2>1. PICK j : j = i + 1
    OBVIOUS
  <2>2. j \in DOMAIN todo /\ j > 1 /\ j - 1 = i /\ t[i] = todo[j]
    BY <1>1, <2>1
  <2> QED
    BY <2>2 DEF StoreShape
<1>3. \A i \in DOMAIN t : i > 1 => t[i - 1] = todo[i]
  BY <1>1
<1>4. StoreShape(t)
  BY <1>2, <1>3 DEF StoreShape
<1>5. t # <<>> => 1 \in DOMAIN t /\ Head(t) = t[1]
  BY <1>1
<1> QED
  BY <1>2, <1>4, <1>5

\* A command on a file, before and after its first step.
OnFile(c, s, t) ==
    /\ c # NoCommand /\ CommandOK(c) /\ c.kind \notin Derived \cup {"closure"}
    /\ s = Head(c.todo).of /\ s \in Stores /\ c.todo # <<>>
    /\ t = Tail(c.todo) /\ t \in Seq(Steps) /\ StoreShape(t)
    /\ t # <<>> /\ Head(t).do = "truncate" => Head(c.todo).do = "load" /\ Head(t).of = s
    /\ t # <<>> /\ Head(t).do = "write" => Head(c.todo).do = "truncate" /\ Head(t).of = s
    /\ Head(c.todo).do = "write" => Head(c.todo).change \in Changes(s)

LEMMA AtFile ==
  ASSUME Inv, NEW o \in Operators, NEW do \in {"load", "truncate", "write", "config"},
         AtStep(o, do)
  PROVE  /\ OnFile(cmd[o], Head(cmd[o].todo).of, Tail(cmd[o].todo))
         /\ Head(cmd[o].todo).do = do
<1>1. PICK c, todo, t : c = cmd[o] /\ todo = cmd[o].todo /\ t = Tail(cmd[o].todo)
  OBVIOUS
<1>2. /\ c # NoCommand /\ CommandOK(c) /\ todo \in Seq(Steps) /\ Len(todo) \in Nat
      /\ Len(todo) > 0 /\ Head(todo) = todo[1] /\ todo[1].do = do /\ todo[1] \in Steps
      /\ t \in Seq(Steps) /\ Len(t) = Len(todo) - 1
      /\ \A i \in 1 .. Len(todo) - 1 : t[i] = todo[i + 1]
  BY <1>1, AtFacts
<1>3. c.kind \notin Derived \cup {"closure"} /\ StoreShape(todo)
  BY <1>1, <1>2, StepKinds
<1>4. /\ StoreShape(t)
      /\ t # <<>> /\ Head(t).do = "truncate" =>
             todo[1].do = "load" /\ todo[1].of = Head(t).of
      /\ t # <<>> /\ Head(t).do = "write" =>
             todo[1].do = "truncate" /\ todo[1].of = Head(t).of
  BY <1>2, <1>3, StoreTail
<1>5. todo[1].of \in Stores /\ (todo[1].do = "write" => todo[1].change \in Changes(todo[1].of))
  BY <1>2, StoreStepOf
<1>6. todo # <<>>
  BY <1>2
<1> QED
  BY <1>1, <1>2, <1>3, <1>4, <1>5, <1>6 DEF OnFile

\* All but the files themselves, when such a command moves on.
LEMMA OnFileMoves ==
  ASSUME Inv, NEW o \in Operators, NEW s, NEW t, OnFile(cmd[o], s, t), NEW r,
         \A x \in DOMAIN r \cap Kinds : PayloadOK(x, r[x]),
         NEW d, d = [kind |-> cmd[o].kind, todo |-> t, read |-> r], Becomes(o, d),
         UNCHANGED <<file, closure, spans, reopened>>
  PROVE  CommandsOK' /\ FilesOK' /\ SnapshotsOK' /\ ClosureOK'
<1>1. d.kind = cmd[o].kind /\ d.todo = t /\ d.read = r
  OBVIOUS
<1>2. /\ cmd[o] # NoCommand /\ cmd[o].kind \notin Derived \cup {"closure"}
      /\ cmd[o].kind \in Kinds \cup {"closure", "edit"}
      /\ t \in Seq(Steps) /\ StoreShape(t)
  BY DEF OnFile, CommandOK
<1>3. CommandOK(d)
  BY <1>1, <1>2 DEF CommandOK
<1>4. SeenOK(d)
  BY <1>1, <1>2 DEF SeenOK
<1> QED
  BY <1>1, <1>2, <1>3, <1>4, CommandsStay, FilesStay, SnapshotsStay, ClosureStays DEF Inv

LEMMA ChangingIsBusy ==
  ASSUME NEW s, Changing(s) = {}
  PROVE  \A q \in Operators : ~Busy(cmd[q], s)
BY DEF Changing, AtStep, Busy

LEMMA KeepsNothing == ASSUME NEW content PROVE Keeps(content, <<>>)
BY DEF Keeps

\* What is loaded is a configuration and keeps the log.
LEMMA LoadedOK ==
  ASSUME Inv, NEW s \in Stores, config[s] # Torn
  PROVE  /\ Loaded(s) \in Configs(s)
         /\ s \notin hist.overlapped => Keeps(Loaded(s), hist.log[s])
<1>1. StoreTyped(s) /\ (s \notin hist.overlapped => StoreKept(s))
  BY DEF Inv, StoresOK
<1>2. CASE config[s] = NoFile
  BY <1>1, <1>2, NewConfigOK, KeepsNothing DEF Loaded, StoreKept
<1>3. CASE config[s] # NoFile
  BY <1>1, <1>3 DEF Loaded, StoreTyped, StoreKept, Readable
<1> QED
  BY <1>2, <1>3

LEMMA LoadConfigInv == ASSUME Inv, NEW o \in Operators, LoadConfig(o) PROVE Inv'
<1>1. PICK do \in {"load", "config"} : AtStep(o, do)
  BY DEF LoadConfig
<1>2. PICK c, s, tail : c = cmd[o] /\ s = Head(cmd[o].todo).of /\ tail = Tail(cmd[o].todo)
  OBVIOUS
<1>3. OnFile(c, s, tail) /\ Head(c.todo).do = do
  BY <1>1, <1>2, AtFile
<1>4. /\ config[s] # Torn /\ Took(o, "config", Loaded(s))
      /\ hist' = IF AtStep(o, "load") /\ Changing(s) # {}
                 THEN [hist EXCEPT !.overlapped = @ \cup {s}] ELSE hist
      /\ UNCHANGED <<file, closure, config, spans, reopened>>
  BY <1>2 DEF LoadConfig
<1>5. s \in Stores
  BY <1>3 DEF OnFile
<1>6. PICK content : content = Loaded(s)
  OBVIOUS
<1>7. /\ content \in Configs(s)
      /\ s \notin hist.overlapped => Keeps(content, hist.log[s])
  BY <1>4, <1>5, <1>6, LoadedOK
<1>8. PICK t, r : /\ Taken(c, "config", content, t, r)
                  /\ cmd' = [cmd EXCEPT ![o].todo = t, ![o].read = r]
  <2>1. "config" \in Words
    BY DEF Words
  <2> QED
    BY <1>1, <1>2, <1>4, <1>6, <2>1, TookHas, Zenon
<1>9. /\ "config" \in DOMAIN r /\ r["config"] = content
      /\ \A x \in DOMAIN r \cap Kinds : PayloadOK(x, r[x])
  BY <1>8 DEF Taken
<1>10. PICK d : d = [kind |-> c.kind, todo |-> t, read |-> r]
  OBVIOUS
<1>11. Becomes(o, d)
  BY <1>2, <1>3, <1>8, <1>10, MovesBecomes DEF Inv, OnFile
<1>12. t = tail
  <2>1. cmd'[o] = d
    BY <1>11 DEF Becomes
  <2>2. cmd'[o].todo = Tail(cmd[o].todo)
    BY <1>2, <1>3, <1>4 DEF Took, Inv, CommandsOK, CommandOK, OnFile
  <2> QED
    BY <1>2, <1>10, <2>1, <2>2
<1>13. CommandsOK' /\ FilesOK' /\ SnapshotsOK' /\ ClosureOK'
  BY <1>2, <1>3, <1>4, <1>9, <1>10, <1>11, <1>12, OnFileMoves
<1>14. \A q \in Operators \ {o} : cmd'[q] = cmd[q]
  BY <1>11 DEF Becomes
<1>15. /\ cmd'[o] = d /\ d.read = r
       /\ \A z : Busy(d, z) => z = s /\ do = "load"
  BY <1>3, <1>10, <1>11, <1>12 DEF Becomes, Busy, OnFile
<1>16. /\ hist'.log = hist.log /\ hist.overlapped \subseteq hist'.overlapped
       /\ hist' = [log |-> hist'.log, overlapped |-> hist'.overlapped]
       /\ do = "load" /\ Changing(s) # {} => s \in hist'.overlapped
  BY <1>1, <1>4 DEF Inv, StoresOK
<1>17. ASSUME NEW z \in Stores PROVE StoreTyped(z)'
  <2>1. StoreTyped(z)
    BY DEF Inv, StoresOK
  <2>2. ASSUME NEW q \in Operators, Busy(cmd[q], z)'
        PROVE  "config" \in DOMAIN cmd'[q].read /\ cmd'[q].read["config"] \in Configs(z)
    <3>1. CASE q = o
      <4>1. Busy(d, z)
        BY <1>15, <2>2, <3>1 DEF Busy
      <4> QED
        BY <1>7, <1>9, <1>15, <3>1, <4>1
    <3>2. CASE q # o
      BY <1>14, <2>1, <2>2, <3>2 DEF StoreTyped, Busy
    <3> QED
      BY <3>1, <3>2
  <2> QED
    BY <1>4, <1>16, <2>1, <2>2 DEF StoreTyped
<1>18. ASSUME NEW z \in Stores, z \notin hist'.overlapped PROVE StoreKept(z)'
  <2>1. StoreKept(z) /\ z \notin hist.overlapped
    BY <1>16, <1>18 DEF Inv, StoresOK
  <2>2. \A q \in Operators \ {o} : Busy(cmd[q], z)' => Busy(cmd[q], z)
    BY <1>14 DEF Busy
  <2>3. Busy(cmd[o], z)' => z = s /\ do = "load" /\ \A q \in Operators : ~Busy(cmd[q], z)
    <3>1. SUFFICES ASSUME Busy(d, z)
                   PROVE  z = s /\ do = "load" /\ \A q \in Operators : ~Busy(cmd[q], z)
      BY <1>15 DEF Busy
    <3>2. z = s /\ do = "load"
      BY <1>15, <3>1
    <3>3. Changing(s) = {}
      BY <1>16, <1>18, <3>2
    <3> QED
      BY <3>2, <3>3, ChangingIsBusy
  <2>4. \A p, q \in Operators : Busy(cmd[p], z)' /\ Busy(cmd[q], z)' => p = q
    BY <2>1, <2>2, <2>3 DEF StoreKept
  <2>5. ASSUME NEW q \in Operators, Busy(cmd[q], z)'
        PROVE  Keeps(cmd'[q].read["config"], hist.log[z])
    <3>1. CASE q = o
      BY <1>7, <1>9, <1>15, <2>1, <2>3, <2>5, <3>1
    <3>2. CASE q # o
      BY <1>14, <2>1, <2>2, <2>5, <3>2 DEF StoreKept
    <3> QED
      BY <3>1, <3>2
  <2> QED
    BY <1>4, <1>16, <2>1, <2>4, <2>5 DEF StoreKept, Readable
<1>19. StoresOK'
  BY <1>4, <1>16, <1>17, <1>18 DEF Inv, StoresOK
<1> QED
  BY <1>13, <1>19 DEF Inv

LEMMA TruncateConfigInv == ASSUME Inv, NEW o \in Operators, TruncateConfig(o) PROVE Inv'
<1>1. AtStep(o, "truncate")
  BY DEF TruncateConfig
<1>2. PICK c, s, t : c = cmd[o] /\ s = Head(cmd[o].todo).of /\ t = Tail(cmd[o].todo)
  OBVIOUS
<1>3. OnFile(c, s, t) /\ Head(c.todo).do = "truncate"
  BY <1>1, <1>2, AtFile
<1>4. /\ config' = [config EXCEPT ![s] = Torn] /\ cmd' = [cmd EXCEPT ![o].todo = t]
      /\ UNCHANGED <<file, closure, spans, hist, reopened>>
  BY <1>2 DEF TruncateConfig
<1>5. s \in Stores /\ c # NoCommand /\ Busy(c, s)
  BY <1>3 DEF OnFile, Busy
<1>6. PICK d : d = [kind |-> c.kind, todo |-> t, read |-> c.read]
  OBVIOUS
<1>7. Becomes(o, d)
  BY <1>2, <1>4, <1>5, <1>6, AdvancesBecomes DEF Inv
<1>8. \A x \in DOMAIN c.read \cap Kinds : PayloadOK(x, c.read[x])
  BY <1>3 DEF OnFile, CommandOK
<1>9. CommandsOK' /\ FilesOK' /\ SnapshotsOK' /\ ClosureOK'
  BY <1>2, <1>3, <1>4, <1>6, <1>7, <1>8, OnFileMoves
<1>10. \A q \in Operators : \A z : Busy(cmd[q], z)' =>
           Busy(cmd[q], z) /\ cmd'[q].read = cmd[q].read
  <2>1. \A z : Busy(d, z) => z = s
    BY <1>3, <1>6 DEF Busy, OnFile
  <2>2. cmd'[o] = d /\ d.read = cmd[o].read
    BY <1>2, <1>6, <1>7 DEF Becomes
  <2>3. \A q \in Operators \ {o} : cmd'[q] = cmd[q]
    BY <1>7 DEF Becomes
  <2>4. \A q \in Operators : \A z : Busy(cmd[q], z)' = Busy(cmd'[q], z)
    BY DEF Busy
  <2> QED
    BY <1>2, <1>5, <2>1, <2>2, <2>3, <2>4
<1>11. /\ config' = [z \in Stores |-> config'[z]]
       /\ \A z \in Stores : config'[z] = IF z = s THEN Torn ELSE config[z]
  BY <1>4 DEF Inv, StoresOK
<1>12. ASSUME NEW z \in Stores PROVE StoreTyped(z)'
  <2>1. StoreTyped(z)
    BY DEF Inv, StoresOK
  <2> QED
    BY <1>4, <1>10, <1>11, <2>1 DEF StoreTyped
<1>13. ASSUME NEW z \in Stores, z \notin hist'.overlapped PROVE StoreKept(z)'
  <2>1. StoreKept(z)
    BY <1>4, <1>13 DEF Inv, StoresOK
  <2>2. Readable(config[z])' => Readable(config[z]) /\ config'[z] = config[z]
    BY <1>11 DEF Readable
  <2>3. config'[z] = NoFile => config[z] = NoFile
    BY <1>11, MarkersAssumption
  <2> QED
    BY <1>4, <1>10, <2>1, <2>2, <2>3 DEF StoreKept
<1>14. StoresOK'
  BY <1>4, <1>11, <1>12, <1>13 DEF Inv, StoresOK
<1> QED
  BY <1>9, <1>14 DEF Inv

LEMMA WriteConfigInv == ASSUME Inv, NEW o \in Operators, WriteConfig(o) PROVE Inv'
<1>1. AtStep(o, "write")
  BY DEF WriteConfig
<1>2. PICK c, s, t, change : /\ c = cmd[o] /\ s = Head(cmd[o].todo).of
                             /\ t = Tail(cmd[o].todo) /\ change = Head(cmd[o].todo).change
  OBVIOUS
<1>3. OnFile(c, s, t) /\ Head(c.todo).do = "write"
  BY <1>1, <1>2, AtFile
<1>4. PICK content : content = Changed(c.read["config"], change)
  OBVIOUS
<1>5. /\ config' = [config EXCEPT ![s] = content] /\ cmd' = [cmd EXCEPT ![o].todo = t]
      /\ hist' = [hist EXCEPT !.log[s] = Append(hist.log[s], change)]
      /\ UNCHANGED <<file, closure, spans, reopened>>
  BY <1>2, <1>4 DEF WriteConfig
<1>6. s \in Stores /\ c # NoCommand /\ Busy(c, s) /\ change \in Changes(s)
  BY <1>2, <1>3 DEF OnFile, Busy
<1>7. PICK d : d = [kind |-> c.kind, todo |-> t, read |-> c.read]
  OBVIOUS
<1>8. Becomes(o, d)
  BY <1>2, <1>5, <1>6, <1>7, AdvancesBecomes DEF Inv
<1>9. \A x \in DOMAIN c.read \cap Kinds : PayloadOK(x, c.read[x])
  BY <1>3 DEF OnFile, CommandOK
<1>10. CommandsOK' /\ FilesOK' /\ SnapshotsOK' /\ ClosureOK'
  BY <1>2, <1>3, <1>5, <1>7, <1>8, <1>9, OnFileMoves
<1>11. \A q \in Operators : \A z : Busy(cmd[q], z)' =>
           q # o /\ Busy(cmd[q], z) /\ cmd'[q].read = cmd[q].read
  <2>1. \A z : ~Busy(d, z)
    BY <1>3, <1>7 DEF Busy, OnFile
  <2>2. cmd'[o] = d /\ \A q \in Operators \ {o} : cmd'[q] = cmd[q]
    BY <1>8 DEF Becomes
  <2>3. \A q \in Operators : \A z : Busy(cmd[q], z)' = Busy(cmd'[q], z)
    BY DEF Busy
  <2> QED
    BY <2>1, <2>2, <2>3
<1>12. /\ config' = [z \in Stores |-> config'[z]]
       /\ \A z \in Stores : config'[z] = IF z = s THEN content ELSE config[z]
  BY <1>5 DEF Inv, StoresOK
<1>13. /\ hist' = [log |-> hist'.log, overlapped |-> hist'.overlapped]
       /\ hist'.overlapped = hist.overlapped
       /\ hist'.log = [z \in Stores |-> hist'.log[z]]
       /\ \A z \in Stores : hist'.log[z] = IF z = s THEN Append(hist.log[s], change)
                                           ELSE hist.log[z]
  BY <1>5 DEF Inv, StoresOK
<1>14. PICK old, log : old = c.read["config"] /\ log = hist.log[s]
  OBVIOUS
<1>15. old \in Configs(s) /\ log \in Seq(Changes(s))
  BY <1>2, <1>6, <1>14 DEF Inv, StoresOK, StoreTyped
<1>16. content \in Configs(s)
  BY <1>4, <1>6, <1>14, <1>15, ChangedHas
<1>17. ASSUME NEW z \in Stores PROVE StoreTyped(z)'
  <2>1. StoreTyped(z)
    BY DEF Inv, StoresOK
  <2>2. config'[z] \in Configs(z) \cup {NoFile, Torn}
    BY <1>12, <1>16, <2>1 DEF StoreTyped
  <2>3. Append(log, change) \in Seq(Changes(s))
    BY <1>6, <1>15
  <2>4. hist'.log[z] \in Seq(Changes(z))
    BY <1>13, <1>14, <2>1, <2>3 DEF StoreTyped
  <2> QED
    BY <1>11, <2>1, <2>2, <2>4 DEF StoreTyped
<1>18. ASSUME NEW z \in Stores, z \notin hist'.overlapped PROVE StoreKept(z)'
  <2>1. StoreKept(z)
    BY <1>13, <1>18 DEF Inv, StoresOK
  <2>2. CASE z = s
    <3>1. \A q \in Operators : ~Busy(cmd[q], z)'
      BY <1>2, <1>6, <1>11, <2>1, <2>2 DEF StoreKept
    <3>2. Keeps(old, log)
      BY <1>2, <1>6, <1>14, <2>1, <2>2 DEF StoreKept
    <3>3. Keeps(content, Append(log, change))
      BY <1>4, <1>6, <1>14, <1>15, <3>2, ChangedKeeps
    <3>4. config'[z] = content /\ hist'.log[z] = Append(log, change) /\ content # NoFile
      BY <1>12, <1>13, <1>14, <1>16, <2>2, MarkersAssumption
    <3> QED
      BY <3>1, <3>3, <3>4 DEF StoreKept
  <2>3. CASE z # s
    <3>1. config'[z] = config[z] /\ hist'.log[z] = hist.log[z]
      BY <1>12, <1>13, <2>3
    <3> QED
      BY <1>11, <2>1, <3>1 DEF StoreKept, Readable
  <2> QED
    BY <2>2, <2>3
<1>19. StoresOK'
  BY <1>12, <1>13, <1>17, <1>18 DEF StoresOK
<1> QED
  BY <1>10, <1>19 DEF Inv

-----------------------------------------------------------------------------
\* The theorems.

LEMMA InitInv == ASSUME Init PROVE Inv
<1>1. /\ closure = NoFile /\ config = [s \in Stores |-> NoFile]
      /\ cmd = [o \in Operators |-> NoCommand]
      /\ hist = [log |-> [s \in Stores |-> <<>>], overlapped |-> {}]
  BY DEF Init
<1>2. PICK fresh \in BOOLEAN :
          file = [k \in Kinds |-> IF fresh /\ k \in play THEN NoFile ELSE Good(k)]
  BY DEF Init
<1>3. CommandsOK /\ ClosureOK
  BY <1>1 DEF CommandsOK, ClosureOK
<1>4. FilesOK
  BY <1>1, <1>2, GoodPayloadOK DEF FilesOK
<1>5. spans \in Seq(Spans)
  <2>1. CASE spans = <<>>
    BY <2>1
  <2>2. CASE spans # <<>>
    <3>1. PICK exec : exec = [context |-> TRUE, plan |-> "tool_selected", results |-> TRUE,
                              route |-> "relay", sound |-> {"memory", "tool"}]
      OBVIOUS
    <3>2. PICK span : span = [audited |-> TRUE, request |-> "none", resumes |-> 0,
                              exec |-> exec]
      OBVIOUS
    <3>3. spans = << span >>
      BY <2>2, <3>1, <3>2 DEF Init
    <3>4. exec \in Execs
      <4>1. PICK sound : sound = {"memory", "tool"}
        OBVIOUS
      <4>2. sound \in {{"memory", "tool"}}
        BY <4>1
      <4>3. exec = [context |-> TRUE, plan |-> "tool_selected", results |-> TRUE,
                    route |-> "relay", sound |-> sound]
        BY <3>1, <4>1
      <4> QED
        BY <4>2, <4>3, Zenon DEF Execs
    <3>5. span \in Spans
      BY <3>2, <3>4 DEF Spans
    <3> QED
      BY <3>3, <3>5
  <2> QED
    BY <2>1, <2>2
<1>6. SnapshotsOK
  BY <1>1, <1>5 DEF SnapshotsOK
<1>7. ASSUME NEW s \in Stores PROVE StoreTyped(s) /\ StoreKept(s)
  BY <1>1 DEF StoreTyped, StoreKept, Readable, Busy
<1>8. StoresOK
  BY <1>1, <1>7 DEF StoresOK
<1> QED
  BY <1>3, <1>4, <1>6, <1>8 DEF Inv

LEMMA OperatorStepInv ==
  ASSUME Inv, NEW o \in Operators, OperatorStep(o)
  PROVE  Inv'
BY BeginInv, ReadInv, ReadFailsInv, LoadConfigInv, LoadFailsInv, TruncateConfigInv,
   WriteConfigInv, PrintAnswerInv, KillInv, ReadSpansInv, ReadPendingInv, PrintClosureInv
   DEF OperatorStep

LEMMA StutterInv == ASSUME Inv, UNCHANGED vars PROVE Inv'
<1>1. UNCHANGED <<file, closure, config, spans, cmd, hist, reopened>>
  BY DEF vars
<1>2. spans' \in Seq(Spans) /\ \A n \in DOMAIN spans : spans'[n] = spans[n]
  BY <1>1, SpansAre
<1> QED
  BY <1>1, <1>2, SpansGrow

\* Whatever operators, runs and approvals do, and wherever a command is killed:
\* commands are where their programs can be, files hold what their command can
\* print, and every snapshot of the session is older than the session.
THEOREM ReleaseInvariant == Spec => []Inv
<1>1. Init => Inv
  BY InitInv
<1>2. Inv /\ [Next]_vars => Inv'
  BY OperatorStepInv, SessionStepInv, StutterInv DEF Next
<1> QED
  BY <1>1, <1>2, PTL DEF Spec

\* A file of evidence holds a payload of its kind or is torn by the command
\* that saves to it, and a configuration file has every slot.
THEOREM TypeCorrect == Spec => []TypeOK
<1>1. Inv => TypeOK
  <2>1. SUFFICES ASSUME Inv PROVE TypeOK
    OBVIOUS
  <2>2. \A k \in Kinds : \/ file[k] \in {NoFile, Torn}
                         \/ file[k].of = k \/ file[k].of = "legacy_regression"
    BY <2>1 DEF Inv, FilesOK, PayloadOK
  <2>3. closure \in {NoFile, Torn} \/ {closure.ok, closure.validated} \subseteq BOOLEAN
    BY <2>1 DEF Inv, ClosureOK
  <2>4. \A s \in Stores : \/ config[s] \in {NoFile, Torn}
                          \/ DOMAIN config[s].active = SlotsOf(s)
    BY <2>1 DEF Inv, StoresOK, StoreTyped, Configs
  <2>5. \A o \in Operators :
            cmd[o] # NoCommand /\ cmd[o].kind \in Kinds => file[cmd[o].kind] = Torn
    BY <2>1 DEF Inv, FilesOK
  <2> QED
    BY <2>2, <2>3, <2>4, <2>5 DEF TypeOK
<1> QED
  BY <1>1, ReleaseInvariant, PTL

\* When closure-summary says ok, no execution it counted has a request that
\* waits, then or later, unless a blocked approval reopened it since; for any
\* number of executions, decisions, operators and any limit of closure-summary:
\* load_snapshot reads the spans before the requests, a run persists its request
\* before its audit, so a span seen audited has no request the summary missed.
THEOREM ClosedStaysClosed == Spec => []OkMeansSettled
<1>1. Inv => OkMeansSettled
  BY DEF Inv, ClosureOK, OkMeansSettled
<1> QED
  BY <1>1, ReleaseInvariant, PTL

\* A validated release rests on what was measured: the gates that each smoke
\* computes from its sources and the gates that closure-summary asks of that
\* smoke leave no failed ground and no answer to an error between them.
THEOREM ValidatedIsMeasured == Spec => []ValidatedRestsOnSources
<1>1. Inv => ValidatedRestsOnSources
  BY DEF Inv, ClosureOK, ValidatedRestsOnSources
<1> QED
  BY <1>1, ReleaseInvariant, PTL

\* A change that provider-config, social-adapter-config, model-set-active or
\* the social smoke wrote is in the file, whenever the file can be read and as
\* long as no two changes of it overlapped, wherever commands were killed.  (One
\* killed between the two halves of write_text leaves a file nobody can read.)
THEOREM ChangesAreKept == Spec => []NoChangeIsLost
<1>1. Inv => NoChangeIsLost
  BY DEF Inv, StoresOK, StoreKept, NoChangeIsLost
<1> QED
  BY <1>1, ReleaseInvariant, PTL
=============================================================================
