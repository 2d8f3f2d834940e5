------------------------------- MODULE Release -------------------------------
(***************************************************************************)
(* Operators who collect the evidence of a release: they run the smoke     *)
(* commands and save what each prints, change the configuration files the  *)
(* smokes read, and run closure-summary over the saved files and over a    *)
(* session database that runs and approvals write at the same time.        *)
(*                                                                         *)
(* A command is a program of steps, one file or table at a time; the steps *)
(* of two operators interleave, and a command can be killed between any    *)
(* two.  Saving truncates a file first, so that it is torn until the       *)
(* command has printed.  What the payloads say is in Closure, what the     *)
(* configuration files mean in Profiles.                                   *)
(***************************************************************************)
EXTENDS Closure, Profiles

CONSTANTS Operators,
          MaxCommands,  \* bound: commands begun
          MaxSpans,     \* bound: executions of the session
          SpanLimit,    \* closure-summary --limit
          NoCommand, NoFile, Torn

ASSUME MarkersAssumption ==
    NoFile # Torn /\ \A s \in Stores : NoFile \notin Configs(s)

VARIABLES
    play,    \* the kinds of evidence this behaviour makes; others are good
    file,    \* kind -> the saved output of its command
    closure, \* the saved output of closure-summary
    config,  \* store -> its configuration file
    spans,   \* executions of the session, in the order they started
    cmd,     \* operator -> the command she runs: [kind, todo, read]
    begun,
    hist,    \* ghost: changes written to each store; loads that overlapped
    reopened \* ghost: spans whose settled request was made to wait again after
             \* closure-summary had found no request that waits

vars == <<play, file, closure, config, spans, cmd, begun, hist, reopened>>

-----------------------------------------------------------------------------
\* Evidence.

FactsOf ==
    [activate |-> Candidate, rollback |-> RollbackFacts, live_event |-> LiveFacts,
     relay_failure |-> RelayFacts, documentation |-> DocumentationGates,
     qq_run |-> RunFacts("qq_run"), wecom_run |-> RunFacts("wecom_run"),
     openclaw_run |-> RunFacts("openclaw_run")]

SourcesOf ==
    [budget |-> <<"hardware">>, observability |-> <<"relay_failure", "activate">>,
     rollback_hardening |-> <<"activate", "rollback">>,
     real_scene |-> <<"live_event", "coding_route">>, qq |-> <<"qq_run">>,
     wecom |-> <<"wecom_run">>, openclaw |-> <<"openclaw_run">>]
Derived == DOMAIN SourcesOf
Sources(k) == {SourcesOf[k][i] : i \in DOMAIN SourcesOf[k]}
\* The files a command is given; the coding agent evidence is optional.
SourceSets(k) ==
    {Sources(k)} \cup (IF k = "real_scene" THEN {{"live_event"}} ELSE {})

\* closure-summary reads the files it is given in this order.
ClosureOrder ==
    << "provider", "multimodal", "documentation", "regression", "relay_failure",
       "hardware", "matrix", "budget", "excellence", "rollback_hardening", "signing",
       "observability", "real_scene", "autonomy", "task_tracking",
       "memory_maintenance", "self_optimization", "world_model", "vitality",
       "persona", "social", "qq", "wecom", "openclaw", "approval_social",
       "self_improvement", "coding_route" >>
ClosureKinds == {ClosureOrder[i] : i \in DOMAIN ClosureOrder}
Kinds == ClosureKinds \cup DOMAIN FactsOf

\* Evidence that belongs together: a behaviour makes one of these.
Chains ==
    { {"hardware", "budget"}, {"relay_failure", "activate", "observability"},
      {"activate", "rollback", "rollback_hardening"},
      {"live_event", "coding_route", "real_scene"}, {"qq_run", "qq"},
      {"wecom_run", "wecom"}, {"openclaw_run", "openclaw"},
      {"matrix", "signing", "excellence"}, {"documentation", "regression"},
      {"provider", "multimodal"}, {"social"},
      (Kinds210 \ {"social"}) \cup Kinds226,
      {"session"} }

\* d, and d with one field changed.
Varied(d, other) == {d} \cup {[d EXCEPT ![f] = other[f]] : f \in DOMAIN other}
OneFails(facts) ==
    {[f \in facts |-> f \notin bad] : bad \in {{}} \cup {{f} : f \in facts}}

Artifact == [admitted |-> TRUE, machine |-> "xtensa"]
Artifacts == Varied(Artifact, [admitted |-> FALSE, machine |-> "arm"])
TheUnit == [architecture |-> "xtensa", abi |-> "own", board |-> "family",
            storage |-> "own", llext |-> TRUE, signing |-> FALSE, heap |-> 2, slot |-> 2]
Units == Varied(TheUnit, [architecture |-> "arm", abi |-> "", board |-> "board/soc",
                          llext |-> FALSE, heap |-> 0, slot |-> 0])
Need == [abi |-> "", board |-> "", storage |-> "", signing |-> FALSE,
         heap |-> 1, slot |-> 1, probe |-> "x86_64"]
Needs == Varied(Need, [abi |-> "other", storage |-> "other", signing |-> TRUE,
                       probe |-> "xtensa"])
Request == [inputs |-> {"text"}, outputs |-> {"text"}, profile |-> "auto",
            refs_valid |-> TRUE]
Requests == Varied(Request, [inputs |-> {"text", "audio"}, outputs |-> {"audio"},
                             profile |-> "visual_heavy", refs_valid |-> FALSE])

\* The gates that a command without sources may print.
Outcomes(k) ==
    CASE k \in DOMAIN FactsOf -> OneFails(FactsOf[k])
      [] k = "hardware" ->
            {build_hardware_compatibility_smoke(x[1], x[2], x[3]) :
                x \in (Artifacts \X {TheUnit} \X {Need})
                      \cup ({Artifact} \X Units \X {Need})
                      \cup ({Artifact} \X {TheUnit} \X Needs)}
      [] k = "matrix" ->
            {build_hardware_acceptance_matrix(given, art, board) :
                given \in {{}, {"restricted_unit"}, Classes \ {"federated_access_unit"}},
                art \in Artifacts, board \in {"", "family", "board/soc"}}
      [] k = "signing" ->
            {build_signing_provenance_smoke(art, missing, required, enforced) :
                art \in Artifacts, missing \in {{}, {"filename_matches_app_id"}},
                required \in BOOLEAN, enforced \in BOOLEAN}
      [] k = "excellence" ->
            {build_agent_excellence_smoke(manifest, bridge, TRUE) :
                manifest \in BOOLEAN, bridge \in {"read_only_descriptor_only", "other"}}
      [] k = "coding_route" ->
            {build_coding_agent_self_improvement_route(d) : d \in {"pending", "approve", "deny"}}
      [] k = "regression" -> OneFails(RegressionGates)
      [] k = "multimodal" ->
            {multimodal_profile_smoke(req, live, ready) :
                req \in {r \in Requests : normalize_multimodal_input(r)},
                live \in BOOLEAN, ready \in BOOLEAN}
      [] k = "vitality" -> {build_vitality_smoke(score) : score \in {0, 3, 60, 100}}
      [] k = "persona" -> {build_persona_state_smoke}
      [] k = "autonomy" -> {build_autonomy_daemon_smoke}
      [] k = "approval_social" -> {build_approval_social_smoke}
      [] k = "self_improvement" -> {build_self_improvement_smoke}
      [] k = "task_tracking" -> {build_task_tracking_smoke}
      [] k = "memory_maintenance" -> {build_memory_maintenance_smoke}
      [] k = "self_optimization" -> {build_self_optimization_smoke}
      [] k = "world_model" -> {build_world_model_context_smoke}

\* Commands that answer a bad request, or a source that cannot be read, with
\* an error payload.  The others end in a traceback and print nothing.
AnswersErrors == Derived \cup DOMAIN FactsOf \cup
    {"hardware", "matrix", "signing", "excellence", "multimodal", "autonomy", "vitality"}
Written == {"documentation", "regression"}  \* by hand

\* resume: the operator asks for a resumed session.
DerivedGates(k, read, resume) ==
    CASE k = "budget" -> build_resource_budget_governance_smoke(read["hardware"])
      [] k = "observability" ->
            build_observability_diagnosis_smoke(read["relay_failure"], read["activate"])
      [] k = "rollback_hardening" ->
            build_release_rollback_hardening_smoke(read["activate"], read["rollback"])
      [] k = "real_scene" ->
            build_real_scene_e2e_smoke(read["live_event"],
                IF "coding_route" \in DOMAIN read THEN read["coding_route"] ELSE NotSupplied)
      [] k = "qq" -> build_qq_official_gateway_closure(read["qq_run"], resume)
      [] k = "wecom" -> build_wecom_gateway_closure(read["wecom_run"])
      [] k = "openclaw" -> build_openclaw_gateway_closure(read["openclaw_run"])

DerivedPayload(k, read, resume) ==
    Payload(k, DerivedGates(k, read, resume), {Core(read[s]) : s \in DOMAIN read})

\* The environment has the framework and a credential, or nothing.
ProviderPayloads(store) ==
    {Payload("provider",
        maf_provider_smoke_status(framework /\ env.credential /\ env.model,
                                  allow, execute, works), {}) :
        framework \in BOOLEAN, allow \in BOOLEAN, execute \in BOOLEAN, works \in BOOLEAN,
        env \in {build_provider_runtime_env(store, [credential |-> b, model |-> FALSE]) :
                    b \in BOOLEAN}}

Payloads(k, read) ==
    CASE k \in Derived -> {DerivedPayload(k, read, resume) : resume \in BOOLEAN}
      [] k = "provider" -> ProviderPayloads(read["config"])
      [] k = "social" -> {Payload(k, social_adapter_test(read["config"]), {})}
      [] k = "regression" -> {Payload(of, g, {}) :
                                of \in {"regression", "legacy_regression"}, g \in Outcomes(k)}
      [] OTHER -> {Payload(k, g, {}) : g \in Outcomes(k)} \cup
                  (IF k \in AnswersErrors \ Written THEN {ErrorPayload(k)} ELSE {})

\* The evidence of a system in order.
Sound(k) == [of |-> k, error |-> FALSE, failed |-> {}, from |-> {}]
Good(k) == IF k \in Derived
           THEN [Sound(k) EXCEPT !.from = {Core(Sound(s)) : s \in Sources(k)}]
           ELSE Sound(k)

-----------------------------------------------------------------------------
\* Commands as programs.

Step(do, of) == [do |-> do, of |-> of]
\* A change of a store: the file is read, truncated, written, and read again
\* for the report.
Edit(s, c) == << Step("load", s), Step("truncate", s),
                 [do |-> "write", of |-> s, change |-> c], Step("config", s) >>

ProviderEdits ==
    { [op |-> "update", name |-> "lab", slots |-> {},
       fields |-> [f \in {"credential_env_var", "configured_model"} |-> TRUE]],
      [op |-> "update", name |-> "openai_compatible", slots |-> {},
       fields |-> [f \in {"configured_model"} |-> TRUE]],
      [op |-> "set_active", name |-> "lab", slots |-> {"affective"}, fields |-> <<>>],
      [op |-> "set_active", name |-> "unknown", slots |-> {"rational"}, fields |-> <<>>] }
SocialEdits ==
    { [op |-> "update", name |-> "wecom", slots |-> {"adapter"},
       fields |-> [f \in {"enabled"} |-> FALSE]],
      [op |-> "update", name |-> "onebot_qq", slots |-> {},
       fields |-> [f \in {"compliance_acknowledged"} |-> FALSE]] }
EditsOf == [provider |-> ProviderEdits, social |-> SocialEdits]

\* The order in which load_snapshot reads the session.  Mutant: the other.
SnapshotOrder_Mutant == << Step("pending", "session"), Step("spans", "session") >>
SnapshotOrder == << Step("spans", "session"), Step("pending", "session") >>

\* All files of the chain are supplied, or all but one.
Supplied == {(play \cap ClosureKinds) \ {k} : k \in play}
            \cup {play \cap ClosureKinds}
ClosureProgram(given) ==
    (IF given = {} THEN <<>> ELSE << Step("read", given) >>) \o SnapshotOrder

\* build_social_adapter_smoke on the file of an operator.
SmokeEdit(i) == Edit("social", SmokeChanges[i])
SocialProgram ==
    SmokeEdit(1) \o SmokeEdit(2) \o SmokeEdit(3) \o SmokeEdit(4) \o SmokeEdit(5)
        \o << Step("config", "social"), Step("config", "social") >>

Programs(k) ==
    CASE k = "closure" -> {ClosureProgram(given) : given \in Supplied}
      [] k = "edit" -> UNION {{Edit(s, c) : c \in EditsOf[s]} : s \in Stores \cap play}
      [] k = "provider" -> {<< Step("config", "provider") >>}
      [] k = "social" -> {SocialProgram}
      [] k \in Derived -> {<< Step("read", given) >> : given \in SourceSets(k)}
      [] OTHER -> {<<>>}

Init ==
    /\ play \in Chains
    /\ \E fresh \in BOOLEAN :
           file = [k \in Kinds |-> IF fresh /\ k \in play THEN NoFile ELSE Good(k)]
    /\ closure = NoFile
    /\ config = [s \in Stores |-> NoFile]
    /\ spans = IF "session" \in play THEN <<>>
               ELSE << [audited |-> TRUE, request |-> "none", resumes |-> 0,
                        exec |-> [context |-> TRUE, plan |-> "tool_selected",
                                  results |-> TRUE, route |-> "relay",
                                  sound |-> {"memory", "tool"}]] >>
    /\ cmd = [o \in Operators |-> NoCommand]
    /\ begun = 0
    /\ hist = [log |-> [s \in Stores |-> <<>>], overlapped |-> {}]
    /\ reopened = {}

Runs(o, k) == cmd[o] # NoCommand /\ cmd[o].kind = k

\* An operator starts a command with its output saved; no two operators save
\* to the same file at once.
Begin(o, k) ==
    /\ cmd[o] = NoCommand /\ begun < MaxCommands
    /\ k # "edit" => \A p \in Operators : ~Runs(p, k)
    /\ \E program \in Programs(k) :
           cmd' = [cmd EXCEPT ![o] = [kind |-> k, todo |-> program, read |-> <<>>]]
    /\ begun' = begun + 1
    /\ file' = IF k \in Kinds THEN [file EXCEPT ![k] = Torn] ELSE file
    /\ closure' = IF k = "closure" THEN Torn ELSE closure
    /\ reopened' = IF k = "closure" THEN {} ELSE reopened
    /\ UNCHANGED <<play, config, spans, hist>>

AtStep(o, do) == cmd[o] # NoCommand /\ cmd[o].todo # <<>> /\ Head(cmd[o].todo).do = do
Took(o, key, value) ==
    cmd' = [cmd EXCEPT ![o].todo = Tail(@), ![o].read = With(@, key, value)]
Ends(o) == cmd' = [cmd EXCEPT ![o] = NoCommand]

Readable(content) == content \notin {NoFile, Torn}

\* The first of some files in the order the command reads them, if there is one.
OrderOf(kind) == IF kind = "closure" THEN ClosureOrder ELSE SourcesOf[kind]
FirstOf(left, order) ==
    {order[i] : i \in {i \in DOMAIN order :
                          order[i] \in left /\ \A j \in 1..(i - 1) : order[j] \notin left}}

\* The next file of evidence.
Read(o) ==
    LET left == Head(cmd[o].todo).of IN
    /\ AtStep(o, "read")
    /\ \E k \in FirstOf(left, OrderOf(cmd[o].kind)) :
           /\ Readable(file[k])
           /\ cmd' = [cmd EXCEPT ![o].todo = IF left = {k} THEN Tail(@)
                                             ELSE << Step("read", left \ {k}) >> \o Tail(@),
                                 ![o].read = With(@, k, file[k])]
    /\ UNCHANGED <<play, file, closure, config, spans, begun, hist, reopened>>

\* A file that is missing or torn: a smoke answers it, closure-summary ends.
ReadFails(o) ==
    /\ AtStep(o, "read")
    /\ \E k \in FirstOf(Head(cmd[o].todo).of, OrderOf(cmd[o].kind)) : ~Readable(file[k])
    /\ Ends(o)
    /\ file' = IF cmd[o].kind \in AnswersErrors
               THEN [file EXCEPT ![cmd[o].kind] = ErrorPayload(cmd[o].kind)]
               ELSE file
    /\ UNCHANGED <<play, closure, config, spans, begun, hist, reopened>>

Loaded(s) == IF config[s] = NoFile THEN NewConfig(s) ELSE config[s]
\* An operator between the load and the write of a change.
Changing(s) == {o \in Operators : \E do \in {"truncate", "write"} :
                    AtStep(o, do) /\ Head(cmd[o].todo).of = s}

\* Load, before a change or for a report; nothing locks the file.
LoadConfig(o) ==
    LET s == Head(cmd[o].todo).of IN
    /\ \E do \in {"load", "config"} : AtStep(o, do)
    /\ config[s] # Torn
    /\ Took(o, "config", Loaded(s))
    /\ hist' = IF AtStep(o, "load") /\ Changing(s) # {}
               THEN [hist EXCEPT !.overlapped = @ \cup {s}] ELSE hist
    /\ UNCHANGED <<play, file, closure, config, spans, begun, reopened>>

\* json.loads raises on a torn file and nothing catches it.
LoadFails(o) ==
    /\ \E do \in {"load", "config"} : AtStep(o, do)
    /\ config[Head(cmd[o].todo).of] = Torn
    /\ Ends(o)
    /\ UNCHANGED <<play, file, closure, config, spans, begun, hist, reopened>>

\* write_text opens the file, which truncates it ...
TruncateConfig(o) ==
    /\ AtStep(o, "truncate")
    /\ config' = [config EXCEPT ![Head(cmd[o].todo).of] = Torn]
    /\ cmd' = [cmd EXCEPT ![o].todo = Tail(@)]
    /\ UNCHANGED <<play, file, closure, spans, begun, hist, reopened>>

\* ... and writes it.
WriteConfig(o) ==
    LET step == Head(cmd[o].todo) IN
    /\ AtStep(o, "write")
    /\ config' = [config EXCEPT ![step.of] = Changed(cmd[o].read["config"], step.change)]
    /\ cmd' = [cmd EXCEPT ![o].todo = Tail(@)]
    /\ hist' = [hist EXCEPT !.log[step.of] = Append(@, step.change)]
    /\ UNCHANGED <<play, file, closure, spans, begun, reopened>>

\* A smoke, or a change of a configuration, prints its answer.
PrintAnswer(o) ==
    /\ cmd[o] # NoCommand /\ cmd[o].todo = <<>> /\ cmd[o].kind # "closure"
    /\ IF cmd[o].kind = "edit" THEN file' = file
       ELSE \E p \in Payloads(cmd[o].kind, cmd[o].read) :
                file' = [file EXCEPT ![cmd[o].kind] = p]
    /\ Ends(o)
    /\ UNCHANGED <<play, closure, config, spans, begun, hist, reopened>>

\* The process is killed; what it had not written stays unwritten.
Kill(o) ==
    /\ cmd[o] # NoCommand
    /\ Ends(o)
    /\ UNCHANGED <<play, file, closure, config, spans, begun, hist, reopened>>

-----------------------------------------------------------------------------
\* The session.

InSession == "session" \in play
Executions ==
    Varied([context |-> TRUE, plan |-> "tool_selected", results |-> TRUE,
            route |-> "relay", sound |-> {"memory", "tool"}],
           [results |-> FALSE])

\* A run persists its span before anything else.
RunBegins ==
    /\ InSession /\ Len(spans) < MaxSpans
    /\ \E e \in Executions :
           spans' = Append(spans, [audited |-> FALSE, request |-> "none",
                                   resumes |-> 0, exec |-> e])
    /\ UNCHANGED <<play, file, closure, config, cmd, begun, hist, reopened>>

\* Its tool needs an approval: the request is persisted, pending.
RunAsks(i) ==
    /\ InSession
    /\ ~spans[i].audited /\ spans[i].resumes = 0 /\ spans[i].request = "none"
    /\ spans' = [spans EXCEPT ![i].request = "pending"]
    /\ UNCHANGED <<play, file, closure, config, cmd, begun, hist, reopened>>

\* The audit record, then the span with its audit_id.  A run that crashes is
\* one that never comes here.
SpanAudited(i) ==
    /\ InSession /\ ~spans[i].audited
    /\ spans' = [spans EXCEPT ![i].audited = TRUE]
    /\ UNCHANGED <<play, file, closure, config, cmd, begun, hist, reopened>>

\* Decisions on a request.  Each reads the request while it is pending and
\* writes it later, in other transactions: others may have decided since.
\* An approval resumes the tool in a span of its own ...
ApprovalBegins(i) ==
    /\ InSession /\ Len(spans) < MaxSpans
    /\ spans[i].request # "none"
    /\ spans' = Append(spans, [audited |-> FALSE, request |-> "none", resumes |-> i,
                               exec |-> [spans[i].exec EXCEPT !.context = FALSE]])
    /\ UNCHANGED <<play, file, closure, config, cmd, begun, hist, reopened>>

\* ... and settles the request after the audit of that span.
ApprovalSettles(j) ==
    /\ InSession
    /\ spans[j].resumes # 0 /\ spans[j].audited
    /\ spans' = [spans EXCEPT ![spans[j].resumes].request = "settled"]
    /\ UNCHANGED <<play, file, closure, config, cmd, begun, hist, reopened>>

\* A denied or expired request has no span.
Denied(i) ==
    /\ InSession
    /\ spans[i].request # "none"
    /\ spans' = [spans EXCEPT ![i].request = "settled"]
    /\ UNCHANGED <<play, file, closure, config, cmd, begun, hist, reopened>>

\* A summary has said ok, or may come to: it found no request that waits.
SaysOk ==
    \/ closure \notin {NoFile, Torn} /\ closure.ok
    \/ \E o \in Operators : /\ Runs(o, "closure") /\ "pending" \in DOMAIN cmd[o].read
                            /\ cmd[o].read["pending"] = {}

\* An approval that lacks a resource writes the request back as it read it,
\* pending, although another decision has settled it since.
Blocked(i) ==
    /\ InSession
    /\ spans[i].request = "settled"
    /\ spans' = [spans EXCEPT ![i].request = "pending"]
    /\ reopened' = IF SaysOk THEN reopened \cup {i} ELSE reopened
    /\ UNCHANGED <<play, file, closure, config, cmd, begun, hist>>

-----------------------------------------------------------------------------
\* closure-summary.

\* The latest spans, and whether each has its audit_id.
get_execution_spans_for_session ==
    [n \in {n \in DOMAIN spans : n + SpanLimit > Len(spans)} |-> spans[n].audited]

ReadSpans(o) ==
    /\ AtStep(o, "spans")
    /\ Took(o, "spans", get_execution_spans_for_session)
    /\ UNCHANGED <<play, file, closure, config, spans, begun, hist, reopened>>

\* The requests that wait.  The query has a limit of 20, but the gates ask
\* only whether there is one.
ReadPending(o) ==
    /\ AtStep(o, "pending")
    /\ Took(o, "pending", {i \in DOMAIN spans : spans[i].request = "pending"})
    /\ UNCHANGED <<play, file, closure, config, spans, begun, hist, reopened>>

\* The evidence of the spans that had an audit_id, the gates, the answer.
PrintClosure(o) ==
    LET read == cmd[o].read
        counted == {n \in DOMAIN read["spans"] : read["spans"][n]}
        latest == {spans[n].exec : n \in {n \in counted : \A m \in counted : m <= n}}
        f == [k \in ClosureKinds |->
                 IF k \in DOMAIN read THEN read[k]
                 ELSE IF k \in play THEN NotSupplied ELSE Good(k)]
    IN /\ Runs(o, "closure") /\ cmd[o].todo = <<>>
       /\ \E provider, multimodal \in BOOLEAN :
              closure' = [ok |-> Failed(aggregate_gates(f, latest, read["pending"],
                                                        provider, multimodal)) = {},
                          validated |-> validation_gates(f, latest),
                          evidence |-> {f[k] : k \in play \cap ClosureKinds},
                          counted |-> counted]
       /\ Ends(o)
       /\ UNCHANGED <<play, file, config, spans, begun, hist, reopened>>

\* The provider and the social smoke read the store of the same name, which
\* operators change in the behaviours that run them.
Commands == (play \cap Kinds) \cup {"closure"}
            \cup (IF Stores \cap play # {} THEN {"edit"} ELSE {})
OperatorStep(o) ==
    \/ \E k \in Commands : Begin(o, k)
    \/ Read(o) \/ ReadFails(o)
    \/ LoadConfig(o) \/ LoadFails(o) \/ TruncateConfig(o) \/ WriteConfig(o)
    \/ PrintAnswer(o) \/ Kill(o)
    \/ ReadSpans(o) \/ ReadPending(o) \/ PrintClosure(o)
SessionStep ==
    \/ RunBegins
    \/ \E i \in DOMAIN spans :
           \/ RunAsks(i) \/ SpanAudited(i) \/ ApprovalBegins(i)
           \/ ApprovalSettles(i) \/ Denied(i) \/ Blocked(i)

Next == (\E o \in Operators : OperatorStep(o)) \/ SessionStep
Spec == Init /\ [][Next]_vars

-----------------------------------------------------------------------------
\* Files hold payloads of their kind, configurations every slot, and a file
\* is torn while a command that saves to it runs.
TypeOK ==
    /\ \A k \in Kinds : \/ file[k] \in {NoFile, Torn}
                        \/ file[k].of = k \/ file[k].of = "legacy_regression"
    /\ closure \in {NoFile, Torn} \/ {closure.ok, closure.validated} \subseteq BOOLEAN
    /\ \A s \in Stores : \/ config[s] \in {NoFile, Torn}
                         \/ DOMAIN config[s].active = SlotsOf(s)
    /\ \A o \in Operators :
           cmd[o] # NoCommand /\ cmd[o].kind \in Kinds => file[cmd[o].kind] = Torn

\* When closure-summary says ok, no run it counted has a request that waits
\* for a decision, then or later, however runs, approvals and the reads of
\* load_snapshot interleave.  The exception: an approval at the resource gate
\* wrote its stale pending over a settled request after the requests were read
\* (apply_approval_decision, blocked_resource_gate).
OkMeansSettled ==
    closure \notin {NoFile, Torn} /\ closure.ok =>
        \A i \in closure.counted \ reopened : spans[i].request # "pending"

\* The facts of a source that evidence made of it vouches for.
Grounds ==
    [hardware |-> {"resource_budget_sufficient", "signing_and_budget_recorded"},
     relay_failure |-> RelayFacts \ {"deterministic_validation_recorded"},
     activate |-> {"rollback_required", "candidate_recorded", "approval_pending"},
     rollback |-> RollbackFacts, live_event |-> LiveFacts, coding_route |-> {},
     qq_run |-> RunFacts("qq_run") \ {"persisted", "resumed", "resume_succeeded"},
     wecom_run |-> RunFacts("wecom_run"), openclaw_run |-> RunFacts("openclaw_run")]

RestsOnSources(p) ==
    \A source \in p.from :
        ~source.error /\ source.failed \cap Grounds[source.of] = {}

\* A validated release rests on what was measured: no payload behind its
\* evidence is the answer to an error, and each has the facts its evidence
\* vouches for, through the smoke that read it and the summary that read that.
ValidatedRestsOnSources ==
    closure \notin {NoFile, Torn} /\ closure.validated =>
        \A p \in closure.evidence \ {NotSupplied} : RestsOnSources(p)

\* Each change of a log is in content: the last value given to a field of a
\* profile, and the last profile given to a slot.
Keeps(content, log) ==
    \A i \in DOMAIN log :
        LET later == {log[j] : j \in i + 1 .. Len(log)} IN
        /\ \A f \in DOMAIN log[i].fields :
               \/ \E c \in later : c.name = log[i].name /\ f \in DOMAIN c.fields
               \/ /\ f \in DOMAIN EntryOf(content, log[i].name)
                  /\ EntryOf(content, log[i].name)[f] = log[i].fields[f]
        /\ \A slot \in log[i].slots :
               \/ \E c \in later : slot \in c.slots
               \/ content.active[slot] = log[i].name

\* Unless two changes overlapped, no change that was written is lost: the file
\* has all of them, whichever commands wrote it since.
NoChangeIsLost ==
    \A s \in Stores \ hist.overlapped :
        Readable(config[s]) => Keeps(config[s], hist.log[s])
=============================================================================
