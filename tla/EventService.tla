---------------------------- MODULE EventService ----------------------------
(***************************************************************************)
(* Perception events and the runs of the Core workflow that act on them.   *)
(* A process of the Core is a live event service (event-service), a daemon *)
(* that replays batches with autonomy on (event-daemon), or a single       *)
(* replay (event-replay, no-model-dry-run, agent-run).  It opens the       *)
(* database, learns which events are known, and runs the workflow once for *)
(* every batch.  Each commit to the database is a step of its own, so that *)
(* the process may end between any two of them.                            *)
(*                                                                         *)
(* An event is identified by its dedupe key, which for live events is the  *)
(* event id built from source, type and a counter or time stamp of the     *)
(* source: a topic and a number here.  The rows of a run never change once *)
(* it has ended and no other process reads them, so they are kept only     *)
(* until the next run or the end of the process.                           *)
(***************************************************************************)
EXTENDS Naturals, FiniteSets

CONSTANTS
    Procs,          \* processes, each of which is started once
    MayBe,          \* the kinds of process each may be
    Models,         \* processes whose agents are models, not the fixed rules
    ModelTools,     \* tools a model may ask for
    MemoryOf,       \* the memory backend of each process
    Sources,        \* the events the outside world sends
    MaxBatch,       \* bound on the events of one batch, for each kind
    Cycles,         \* cycles of a service or a daemon
    SeedLimit,      \* keys read back at start (1000 in the code)
    Interval,       \* maintenance_interval_cycles
    Beside,         \* kinds of process that may start while another runs
    Idle, Done

Kinds == {"service", "daemon", "replay"}
External == {"unit.callback", "unit.lifecycle.activate_failed",
             "user.input.control.app.restart", "unit.info"}
Topics == External \cup {"time.tick", "core.maintenance.tick"}
Event == [topic : Topics, n : Nat]

ASSUME SourcesAssumption == Sources \subseteq [topic : External, n : Nat]
                            /\ IsFiniteSet(Sources)
ASSUME BoundsAssumption ==
    /\ MaxBatch \in [Kinds -> Nat] /\ Cycles \in Nat \ {0}
    /\ SeedLimit \in Nat /\ Beside \subseteq Kinds /\ Interval \in Nat \ {0}
ASSUME ProcsAssumption ==
    /\ IsFiniteSet(Procs) /\ Models \subseteq Procs
    /\ MemoryOf \in [Procs -> {"fake", "local", "mem0"}]
    /\ MayBe \in [Procs -> SUBSET Kinds]

VARIABLES
    proc,       \* the memory of each process
    row,        \* the rows of its latest run
    service,    \* its own span and checkpoint, if it is an event service
    events,     \* perception_events: the keys stored
    memory,     \* topics of the memories that SQLite and the sidecar hold
    hist        \* history: what was acted on, and what the claim leaves out
vars == <<proc, row, service, events, memory, hist>>

Known == Sources \cup {[topic |-> t, n |-> i] :
                          t \in Topics \ External, i \in 1..Cycles}

-----------------------------------------------------------------------------
\* Tools and the policy.

\* default_tool_manifest: tools that only look, and tools that change the
\* Unit, hold a lease for it and wait for an operator.
ReadOnlyTools == {"state_sync", "activation_health_guard", "query_leases"}
ApprovalTools == {"restart_app", "rollback_app"}
Tools == ReadOnlyTools \cup ApprovalTools

contract ==
    [t \in Tools |->
       LET changes == t \in ApprovalTools
       IN  [level |-> IF changes THEN "approval_required" ELSE "read_only",
            approval |-> changes, resources |-> changes, cleanup |-> changes,
            wrapper |-> TRUE, json |-> TRUE]]

\* WORKFLOW_PLAN_METADATA: what the catalog says of the workflows of a tool
\* (discover-leases, control-app-restart, control-rollback).
catalog == [t \in Tools |-> [destructive |-> t \in ApprovalTools,
                             mentions_lease |-> t \in ApprovalTools
                                                \/ t = "query_leases"]]

\* Mutant: the level is not looked at.
evaluate_contract_Mutant(c) == IF c.resources THEN "allowed" ELSE "denied"

evaluate_contract(c) ==
    IF c.approval THEN "approval_required"
    ELSE IF c.level \in {"observe_only", "read_only", "suggest_only"}
    THEN "allowed" ELSE "denied"

\* Arguments missing from a plan: an operator can still supply the app and
\* the lease of a tool that waits for approval.
Missing == {"none", "resolvable", "blocking"}

\* _build_skill_ground_rule_validation: the tool is called through the
\* wrapper and answers in JSON.
GroundRules(c) == c.wrapper /\ c.json

\* validate_tool_workflow_catalog_consistency.
InternalTools == {"state_sync", "activation_health_guard"}
CatalogAgrees(t, c) ==
    t \in InternalTools
    \/ /\ catalog[t].destructive = (c.approval \/ c.resources \/ c.level # "read_only")
       /\ c.resources => catalog[t].mentions_lease

\* load_mcp_bridge_descriptor: the bridge mode that fits the contract, of
\* which only one lets a tool that needs approval be proposed.
BridgeMode(c) ==
    IF c.approval \/ c.resources THEN "core_governed_approval_required_proposal"
    ELSE IF c.level = "read_only" THEN "core_governed_read_only_execution"
    ELSE "read_only_descriptor_only"
Proposable(c) ==
    (c.approval \/ c.resources)
        => BridgeMode(c) = "core_governed_approval_required_proposal"

\* _build_rational_plan_quality: a plan is run only if its tool is listed
\* with the same contract and the contract obeys all the rules.
PlanValid(t, listed, missing) ==
    LET c == contract[t]
    IN  /\ listed
        /\ missing = "none" \/ (missing = "resolvable" /\ c.approval)
        /\ c.resources => c.approval
        /\ (c.approval \/ c.resources) => c.cleanup
        /\ GroundRules(c) /\ CatalogAgrees(t, c) /\ Proposable(c)

ASSUME ModelToolsAssumption == ModelTools \subseteq Tools

-----------------------------------------------------------------------------
\* The router and the agents.

Priority(t) ==
    CASE t = "unit.callback" -> 80
      [] t = "user.input.control.app.restart" -> 70
      [] t = "unit.lifecycle.activate_failed" -> 50
      [] t = "core.maintenance.tick" -> 25
      [] t = "time.tick" -> 10
      [] t = "unit.info" -> 5

TopicsOf(frame) == {e.topic : e \in frame}
Highest(frame) ==
    IF frame = {} THEN 0
    ELSE CHOOSE x \in {Priority(t) : t \in TopicsOf(frame)} :
            \A t \in TopicsOf(frame) : Priority(t) <= x

\* The order in which a batch is stored: by priority, then by time.
Before(e, f) == Priority(e.topic) > Priority(f.topic)
                \/ (Priority(e.topic) = Priority(f.topic) /\ e.n < f.n)

\* FakeAffectiveAgent.decide: is the frame worth a reasoning window?
decide(frame) == Highest(frame) >= 50
                 \/ TopicsOf(frame) \cap {"unit.callback",
                                          "unit.lifecycle.activate_failed"} # {}

\* FakeRationalAgent.plan.
plan(frame) ==
    CASE "unit.lifecycle.activate_failed" \in TopicsOf(frame)
              -> "activation_health_guard"
      [] /\ "unit.lifecycle.activate_failed" \notin TopicsOf(frame)
         /\ "user.input.control.app.restart" \in TopicsOf(frame)
              -> "restart_app"
      [] OTHER -> "state_sync"

\* _retention_policy_for_topic and _screen_candidate: telemetry and frames of
\* low priority leave no memory.
Accepted(frame) ==
    {t \in TopicsOf(frame) : t # "time.tick" /\ Highest(frame) >= 10}

\* The newest events of a set, at most limit of them.
Newest(stored, limit) ==
    {S \in SUBSET stored :
        /\ Cardinality(S) = IF Cardinality(stored) < limit
                            THEN Cardinality(stored) ELSE limit
        /\ \A e \in S, f \in stored \ S : e.n >= f.n}

\* get_recent_dedupe_keys.
RecentKeys(stored) == Newest(stored, SeedLimit)

\* query_events: the newest stored events of a topic, or of all, and of at
\* least a priority.
Queries == [topics : {Topics} \cup {{t} : t \in Topics},
            least : {Priority(t) : t \in Topics}, limit : 0..Cardinality(Known)]
query_events(q) ==
    Newest({e \in events : e.topic \in q.topics /\ Priority(e.topic) >= q.least}, q.limit)

-----------------------------------------------------------------------------
\* State.

\* A span row, and what a run has written with it.
Row == [span : {"none", "running", "ok"},
        candidates : SUBSET Topics,         \* accepted memory candidates
        memories : SUBSET Topics,           \* long_term_memories
        policy : SUBSET Tools,              \* tools with a policy decision
        approval : SUBSET Tools,            \* pending approval requests
        results : SUBSET (Tools \X {"ok", "error", "pending", "blocked"}),
        audit : BOOLEAN,
        ran : SUBSET Tools]                 \* history: tools really executed
NoRow == [span |-> "none", candidates |-> {}, memories |-> {}, policy |-> {},
          approval |-> {}, results |-> {}, audit |-> FALSE, ran |-> {}]

Steps == {"collect", "route", "store", "remember", "commit", "think", "judge",
          "execute", "request", "result", "audit", "close", "finish"}
Proc == [kind : Kinds, step : Steps, cycle : 1..Cycles,
         seen : SUBSET Known,       \* seen_dedupe_keys of the router
         batch : SUBSET Known,      \* events of this cycle, then the new ones
         todo : SUBSET Known,       \* of them, still to be stored
         frame : SUBSET Known,
         recall : SUBSET Topics,    \* memories shown to the agents
         tool : Tools \cup {"none"},
         status : {"ok", "error", "pending", "blocked"},
         recovering : BOOLEAN,      \* after a health guard that asks for it
         stored : Nat,              \* total_persisted_event_count
         low : BOOLEAN,             \* vitality concerned or critical
         last : 0..Cycles]          \* last_maintenance_cycle, 0 for none
Service == [span : {"none", "running", "failed", "completed"},
            checkpoint : Nat,
            added : Nat]            \* history: rows it really added
Hist == [acted : [Known -> 0..2],   \* how often a run acted on the event
         shared : SUBSET Procs,     \* overlapped another, or not fully seeded
         unclaimed : SUBSET Known]  \* events such processes acted on

\* A process that was not started, or has ended, has no memory.
ASSUME MarkersAssumption == Idle \notin Proc /\ Done \notin Proc /\ Idle # Done

TypeOK ==
    /\ proc \in [Procs -> Proc \cup {Idle, Done}]
    /\ row \in [Procs -> Row]
    /\ service \in [Procs -> Service]
    /\ events \subseteq Known
    /\ memory \in [sqlite : SUBSET Topics, sidecar : SUBSET Topics]
    /\ hist \in Hist

Init ==
    /\ proc = [p \in Procs |-> Idle]
    /\ row = [p \in Procs |-> NoRow]
    /\ service = [p \in Procs |-> [span |-> "none", checkpoint |-> 0, added |-> 0]]
    /\ events = {} /\ memory = [sqlite |-> {}, sidecar |-> {}]
    /\ hist = [acted |-> [e \in Known |-> 0], shared |-> {}, unclaimed |-> {}]

Live == {p \in Procs : proc[p] \notin {Idle, Done}}
At(p, s) == p \in Live /\ proc[p].step = s
Go(p, s) == proc' = [proc EXCEPT ![p].step = s]
Ends(p) == proc' = [proc EXCEPT ![p] = Done] /\ row' = [row EXCEPT ![p] = NoRow]

-----------------------------------------------------------------------------
\* Start, cycles and end of a process.

\* A configuration that is refused ends the process before it writes.
Refused(p) ==
    /\ proc[p] = Idle
    /\ Ends(p)
    /\ UNCHANGED <<service, events, memory, hist>>

\* Mutant: the stored keys are not read back.
Seed_Mutant(kind) == {{}}

\* A service and a daemon read the stored keys, a replay does not.
Seed(kind) == IF kind = "replay" THEN {{}} ELSE RecentKeys(events)

Open(p, kind, low) ==
    /\ Live = {} \/ kind \in Beside
    /\ proc[p] = Idle /\ (low => kind = "daemon")
    /\ \E seed \in Seed(kind) :
          proc' = [proc EXCEPT ![p] =
             [kind |-> kind, step |-> "collect", cycle |-> 1, seen |-> seed,
              batch |-> {}, todo |-> {}, frame |-> {}, recall |-> {}, tool |-> "none",
              status |-> "ok", recovering |-> FALSE, stored |-> 0,
              low |-> low, last |-> 0]]
    /\ hist' = [hist EXCEPT
          !.shared = @ \cup IF Live # {} THEN Live \cup {p}
                            ELSE IF kind = "replay" \/ Cardinality(events) > SeedLimit
                            THEN {p} ELSE {}]
    /\ service' = IF kind = "service"
                  THEN [service EXCEPT ![p].span = "running"] ELSE service
    /\ UNCHANGED <<row, events, memory>>

\* fail_event_service: the checkpoint it writes is empty, whatever earlier
\* cycles have stored.
FailService(p) ==
    /\ service' = [service EXCEPT ![p].span = "failed", ![p].checkpoint = 0]
    /\ Ends(p)
    /\ UNCHANGED <<events, memory, hist>>

\* The monitor fails: no reply, or an answer that cannot be read.
CollectFails(p) ==
    /\ At(p, "collect") /\ proc[p].kind = "service"
    /\ FailService(p)

\* plan_autonomous_cycle: is maintenance due in this cycle?  Before the first
\* time a remainder decides, later the difference to the last time.
MaintenanceDue(j) ==
    \/ j.low
    \/ j.last = 0 /\ j.cycle % Interval = 0
    \/ j.last # 0 /\ j.cycle - j.last >= Interval

\* What the planner adds to a batch.
Ticks(j) ==
    {[topic |-> "time.tick", n |-> j.cycle]}
    \cup {[topic |-> "core.maintenance.tick", n |-> i] :
             i \in IF MaintenanceDue(j) THEN {j.cycle} ELSE {}}

\* A cycle is worth a run if something came from outside or maintenance is due.
Wakes(j, batch) == batch # {} \/ MaintenanceDue(j)

\* Mutant: the cycles are not counted.
AfterCycle_Endless(j) ==
    IF j.kind = "replay" THEN [j EXCEPT !.step = "finish"]
    ELSE [j EXCEPT !.step = "collect", !.stored = 0]

\* The last cycle is followed by the end of the process.
AfterCycle(j) ==
    IF j.kind = "replay" \/ j.cycle = Cycles THEN [j EXCEPT !.step = "finish"]
    ELSE [j EXCEPT !.step = "collect", !.cycle = @ + 1]

\* Events arrive from the monitor or from the file of batches.
Collect(p) ==
    /\ At(p, "collect") /\ proc[p].kind # "daemon"
    /\ \E batch \in SUBSET Sources :
          /\ Cardinality(batch) <= MaxBatch[proc[p].kind]
          /\ proc[p].kind = "service" /\ proc[p].cycle = 1 => batch # {}
          /\ proc' = [proc EXCEPT ![p].step = "route", ![p].batch = batch]
    /\ UNCHANGED <<row, service, events, memory, hist>>

\* A service that gets nothing in its first cycle gives up.
CollectsNothing(p) ==
    /\ At(p, "collect") /\ proc[p].kind = "service" /\ proc[p].cycle = 1
    /\ FailService(p)

\* A daemon with autonomy on plans its cycle; when nothing wakes it, or an
\* operator has paused it, the batch is not even stored.
PlanCycle(p) ==
    /\ At(p, "collect") /\ proc[p].kind = "daemon"
    /\ \E batch \in SUBSET Sources :
          LET j == proc[p]
              planned == [j EXCEPT !.batch = batch \cup Ticks(j),
                                   !.last = IF MaintenanceDue(j) THEN j.cycle ELSE @]
          IN  /\ Cardinality(batch) <= MaxBatch[proc[p].kind]
              /\ proc' = [proc EXCEPT ![p] =
                    IF Wakes(j, batch) THEN [planned EXCEPT !.step = "route"]
                    ELSE [AfterCycle(planned) EXCEPT !.batch = {}]]
    /\ UNCHANGED <<row, service, events, memory, hist>>

Paused(p) ==
    /\ At(p, "collect") /\ proc[p].kind = "daemon" /\ proc[p].cycle = 1
    /\ Ends(p)
    /\ UNCHANGED <<service, events, memory, hist>>

\* Mutant: the checkpoint is the count of the last cycle.
Finish_Mutant(p) ==
    /\ At(p, "finish")
    /\ service' = IF proc[p].kind # "service" THEN service
                  ELSE [service EXCEPT ![p].span = "completed",
                                       ![p].checkpoint = Cardinality(proc[p].batch)]
    /\ Ends(p)
    /\ UNCHANGED <<events, memory, hist>>

\* The service writes its checkpoint and its span.
Finish(p) ==
    /\ At(p, "finish")
    /\ service' = IF proc[p].kind # "service" THEN service
                  ELSE [service EXCEPT ![p].span = "completed",
                                       ![p].checkpoint = proc[p].stored]
    /\ Ends(p)
    /\ UNCHANGED <<events, memory, hist>>

-----------------------------------------------------------------------------
\* NoModelCoreWorkflow.run, one step for each group of commits.

\* The router drops the events it knows; the span is written.
Route(p) ==
    LET j == proc[p]
        new == j.batch \ j.seen
    IN  /\ At(p, "route")
        /\ proc' = [proc EXCEPT ![p] =
              [j EXCEPT !.step = IF new = {} THEN "remember" ELSE "store",
                        !.seen = @ \cup j.batch, !.batch = new, !.todo = new,
                        !.frame = new, !.recall = {}, !.tool = "none",
                        !.status = "ok",
                        !.recovering = FALSE]]
        /\ row' = [row EXCEPT ![p] = [NoRow EXCEPT !.span = "running"]]
        /\ UNCHANGED <<service, events, memory, hist>>

\* Mutant: the loop ends after its first event.
Store_Mutant(p) ==
    /\ At(p, "store")
    /\ \E e \in proc[p].todo :
          /\ \A f \in proc[p].todo \ {e} : ~Before(f, e)
          /\ events' = events \cup {e}
          /\ service' = IF e \in events THEN service
                        ELSE [service EXCEPT ![p].added = @ + 1]
    /\ proc' = [proc EXCEPT ![p].todo = {}, ![p].step = "remember"]
    /\ UNCHANGED <<row, memory, hist>>

\* persist_event, one commit for each event; a known id is ignored.
Store(p) ==
    /\ At(p, "store")
    /\ \E e \in proc[p].todo :
          LET left == proc[p].todo \ {e}
          IN  /\ \A f \in left : ~Before(f, e)
              /\ events' = events \cup {e}
              /\ service' = IF e \in events THEN service
                            ELSE [service EXCEPT ![p].added = @ + 1]
              /\ proc' = [proc EXCEPT ![p].todo = left,
                                      ![p].step = IF left = {} THEN "remember" ELSE @]
    /\ UNCHANGED <<row, memory, hist>>

\* The frame is built from the batch, or on request of a replay from a query
\* of the database that finds something; its facts are written.  Memory
\* candidates are proposed for every topic, screened and written.
Frames(p) == {proc[p].frame}
             \cup IF proc[p].kind # "replay" THEN {}
                  ELSE UNION {query_events(q) : q \in Queries} \ {{}}

\* lookup: SQLite memories of the topics (nothing ever retires one, so their
\* lifecycle state is committed), and what the sidecar finds, which carries no
\* governance record.  An item is a lifecycle state and a topic.
Items(p, frame) ==
    IF MemoryOf[p] = "fake" THEN {}
    ELSE ({"committed"} \X (TopicsOf(frame) \cap memory.sqlite))
         \cup ({"ungoverned"} \X IF MemoryOf[p] = "mem0" THEN memory.sidecar ELSE {})

\* Mutant: a result without a governance record is let through.
Recalled_Mutant(item) == item[2] # "time.tick"

\* _classify_memory_recall_item: only committed memories of a lasting
\* retention class reach the agents.
Recalled(item) == item[1] = "committed" /\ item[2] # "time.tick"

\* build_prompt_safe_context: what of the memory the agents are shown.
Shown(p, frame) == {i[2] : i \in {x \in Items(p, frame) : Recalled(x)}}

Remember(p) ==
    /\ At(p, "remember")
    /\ \E frame \in Frames(p) :
          /\ row' = [row EXCEPT ![p].candidates = Accepted(frame)]
          /\ proc' = [proc EXCEPT ![p].frame = frame,
                ![p].recall = Shown(p, frame),
                ![p].step = IF MemoryOf[p] = "fake" \/ Accepted(frame) = {}
                            THEN "think" ELSE "commit"]
    /\ UNCHANGED <<service, events, memory, hist>>

\* Mutant: what was screened out is committed as well.
Commits_Mutant(p) == TopicsOf(proc[p].frame)

Commits(p) == row[p].candidates

\* commit_candidates: one commit for each memory, after the sidecar has all.
Commit(p) ==
    LET all == Commits(p)
    IN  /\ At(p, "commit")
        /\ \E t \in all \ row[p].memories :
              LET now == row[p].memories \cup {t}
              IN  /\ row' = [row EXCEPT ![p].memories = now]
                  /\ IF now = all THEN Go(p, "think") ELSE UNCHANGED proc
                  /\ memory' = [sqlite |-> memory.sqlite \cup {t},
                                sidecar |-> IF MemoryOf[p] = "mem0"
                                            THEN memory.sidecar \cup all
                                            ELSE memory.sidecar]
        /\ UNCHANGED <<service, events, hist>>

\* The Mem0 client fails after it has taken some: none is mirrored.
SidecarFails(p) ==
    /\ At(p, "commit") /\ MemoryOf[p] = "mem0" /\ row[p].memories = {}
    /\ \E taken \in SUBSET Commits(p) :
          /\ taken # Commits(p)
          /\ memory' = [memory EXCEPT !.sidecar = @ \cup taken]
    /\ Go(p, "think")
    /\ UNCHANGED <<row, service, events, hist>>

\* With a model, the run needs an inference profile that is ready and takes
\* all the media of the frame; otherwise it raises, and nothing catches it.
RouteUnavailable(p) ==
    /\ At(p, "think") /\ p \in Models
    /\ Ends(p)
    /\ UNCHANGED <<service, events, memory, hist>>

\* The client of the model is not ready or fails, or the affective answer
\* cannot be read.
ModelFails(p) ==
    /\ At(p, "think") /\ p \in Models
    /\ Ends(p)
    /\ UNCHANGED <<service, events, memory, hist>>

\* What the agents may ask for: nothing (or a plan that cannot be read), or
\* one tool.
Plans(p) == IF p \in Models THEN ModelTools \cup {"none"}
            ELSE IF decide(proc[p].frame) THEN {plan(proc[p].frame)} ELSE {"none"}

\* The context facts are written, and the agents are asked.
Think(p) ==
    /\ At(p, "think")
    /\ \E tool \in Plans(p), listed \in IF p \in Models THEN BOOLEAN ELSE {TRUE},
          missing \in Missing :
          proc' = [proc EXCEPT ![p].tool = tool,
             ![p].step = IF tool = "none" THEN "audit"
                         ELSE IF PlanValid(tool, listed, missing)
                         THEN "judge" ELSE "result",
             ![p].status = "error"]
    /\ UNCHANGED <<row, service, events, memory, hist>>

\* Mutant: the decision is written after the tool has run.
Judge_Mutant(p) ==
    /\ At(p, "judge")
    /\ LET verdict == evaluate_contract(contract[proc[p].tool])
       IN  proc' = [proc EXCEPT ![p].step = IF verdict = "allowed" THEN "execute"
                                            ELSE "request"]
    /\ UNCHANGED <<row, service, events, memory, hist>>

\* The policy decides, and the decision is written before anything is done.
\* In a recovery only the lease query is run and only the rollback waits.
Judge(p) ==
    LET j == proc[p]
        verdict == evaluate_contract(contract[j.tool])
    IN  /\ At(p, "judge")
        /\ row' = [row EXCEPT ![p].policy = @ \cup {j.tool}]
        /\ proc' = [proc EXCEPT ![p].step =
              CASE verdict = "allowed" /\ (j.recovering => j.tool = "query_leases")
                        -> "execute"
                [] verdict = "approval_required"
                   /\ (j.recovering => j.tool = "rollback_app") -> "request"
                [] OTHER -> IF j.recovering THEN "audit" ELSE "result",
              ![p].status = "blocked"]
        /\ UNCHANGED <<service, events, memory, hist>>

\* A run acts on the events of its frame once.
Acts(p) ==
    hist' = IF proc[p].recovering THEN hist
            ELSE [hist EXCEPT
               !.acted = [e \in Known |-> IF e \in proc[p].frame /\ @[e] < 2
                                          THEN @[e] + 1 ELSE @[e]],
               !.unclaimed = @ \cup IF p \in hist.shared THEN proc[p].frame ELSE {}]

Execute(p) ==
    /\ At(p, "execute")
    /\ row' = [row EXCEPT ![p].ran = @ \cup {proc[p].tool}]
    /\ \E status \in {"ok", "error"} :
          proc' = [proc EXCEPT ![p].step = "result", ![p].status = status]
    /\ Acts(p)
    /\ UNCHANGED <<service, events, memory>>

\* The request for an approval is written, and then its result.
Request(p) ==
    /\ At(p, "request")
    /\ row' = [row EXCEPT ![p].approval = @ \cup {proc[p].tool}]
    /\ proc' = [proc EXCEPT ![p].step = "result", ![p].status = "pending"]
    /\ Acts(p)
    /\ UNCHANGED <<service, events, memory>>

\* A result is written.  A health guard may ask for a recovery: the leases
\* are looked at, and a rollback waits for approval.
Result(p) ==
    LET j == proc[p]
    IN  /\ At(p, "result")
        /\ row' = [row EXCEPT ![p].results = @ \cup {<<j.tool, j.status>>}]
        /\ \/ ~(j.recovering /\ j.tool = "query_leases") /\ Go(p, "audit")
           \/ /\ j.tool = "activation_health_guard" /\ j.status = "ok"
              /\ proc' = [proc EXCEPT ![p].step = "judge", ![p].tool = "query_leases",
                                      ![p].recovering = TRUE]
           \/ /\ j.recovering /\ j.tool = "query_leases"
              /\ proc' = [proc EXCEPT ![p].step = "judge", ![p].tool = "rollback_app"]
        /\ UNCHANGED <<service, events, memory, hist>>

\* The notification and the audit record.
Audit(p) ==
    /\ At(p, "audit")
    /\ row' = [row EXCEPT ![p].audit = TRUE]
    /\ Go(p, "close")
    /\ UNCHANGED <<service, events, memory, hist>>

\* The span is ok; the service counts what the run has stored.
Close(p) ==
    LET j == proc[p]
    IN  /\ At(p, "close")
        /\ row' = [row EXCEPT ![p].span = "ok"]
        /\ proc' = [proc EXCEPT ![p] =
              AfterCycle([j EXCEPT !.stored = @ + Cardinality(j.batch)])]
        /\ UNCHANGED <<service, events, memory, hist>>

\* The process is ended from outside, or by an exception no command catches.
Crash(p) ==
    /\ p \in Live
    /\ Ends(p)
    /\ UNCHANGED <<service, events, memory, hist>>

Step(p) ==
    \/ CollectFails(p) \/ Collect(p) \/ CollectsNothing(p) \/ PlanCycle(p)
    \/ Paused(p) \/ Finish(p) \/ Route(p) \/ Store(p) \/ Remember(p)
    \/ Commit(p) \/ SidecarFails(p) \/ RouteUnavailable(p) \/ ModelFails(p)
    \/ Think(p) \/ Judge(p) \/ Execute(p) \/ Request(p) \/ Result(p)
    \/ Audit(p) \/ Close(p)

Next ==
    \E p \in Procs :
       \/ Step(p) \/ Crash(p) \/ Refused(p)
       \/ \E kind \in MayBe[p], low \in BOOLEAN : Open(p, kind, low)

Spec == Init /\ [][Next]_vars
FairSpec == Spec /\ \A p \in Procs : WF_vars(Step(p))

-----------------------------------------------------------------------------
\* An event leads to an action once, whatever restarts and crashes lie
\* between its deliveries, unless a process that handled it overlapped with
\* another or did not read all the stored keys (run_live_event_service and
\* run_event_daemon_replay seed their router from the database).
ActedOnce == \A e \in Known : hist.acted[e] > 1 => e \in hist.unclaimed

\* At every point where a run may be cut off, what it did to the Unit is
\* covered by a policy decision already written and needed no approval, and a
\* result that waits for an approval has its request (run of the workflow).
EvidenceFirst ==
    \A p \in Procs :
        /\ \A t \in row[p].ran : t \in row[p].policy /\ ~contract[t].approval
        /\ \A t \in Tools : <<t, "pending">> \in row[p].results
                            => t \in row[p].approval /\ t \in row[p].policy

\* A span that says ok has its audit record, a result for every tool that
\* was run and for every request that waits, and memories that stem from
\* accepted candidates of topics in stored events.
OkIsComplete ==
    \A p \in Procs :
        /\ row[p].span = "ok" =>
              /\ row[p].audit
              /\ \A t \in row[p].ran : \E s \in {"ok", "error"} : <<t, s>> \in row[p].results
              /\ \A t \in row[p].approval : <<t, "pending">> \in row[p].results
        /\ row[p].memories \subseteq row[p].candidates
        /\ row[p].candidates \subseteq TopicsOf(events)

\* The agents are shown only memories that a run has committed to SQLite,
\* whatever the sidecar answers and whichever commits failed half-way.
RecallIsGoverned == \A p \in Live : proc[p].recall \subseteq memory.sqlite

\* The checkpoint of a completed service is the number of events it added to
\* the database over all its cycles (total_persisted_event_count), unless it
\* overlapped with another process or was not fully seeded.
CheckpointExact ==
    \A p \in Procs \ hist.shared :
        service[p].span = "completed" => service[p].checkpoint = service[p].added

\* What a router is about to drop as a duplicate is in the database, although
\* it notes the key of an event before the event is stored: no event is lost
\* between the two, over all cycles, restarts and crashes (normalize marks
\* seen_dedupe_keys, run persists afterwards, one commit for each event).
DroppedIsStored ==
    \A p \in Procs : At(p, "route") => proc[p].batch \cap proc[p].seen \subseteq events

\* Every process comes to its end: a failed monitor, an empty batch and a
\* raised exception end it as well as the last cycle.  A process is started
\* once, so that all of them ending is each of them ending.
ProcessesEnd == Live # {} ~> Live = {}
=============================================================================
