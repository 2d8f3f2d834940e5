----------------------------- MODULE AppRuntime -----------------------------
(***************************************************************************)
(* The application runtime of a Unit (runtime/app_runtime.c): the list of  *)
(* loaded applications, the policy that limits how many may be loaded and  *)
(* running, preemption by priority, and the one static buffer an artifact  *)
(* can be staged in (runtime/app_runtime_elf_staging.c).                   *)
(*                                                                         *)
(* Every operation holds g_ctx.lock from its first look at the list to its *)
(* last write, so each is one action.  A call that is rejected, or whose   *)
(* first callback fails, changes nothing and is a stuttering step; a call  *)
(* that fails half way has an action of its own.                           *)
(***************************************************************************)
EXTENDS Integers, FiniteSets, Sequences

CONSTANTS
    Apps,               \* application names
    PrioritySymbols,    \* values an artifact may export as its priority
    Policies,           \* the policies the runtime may be given
    Faults,             \* TRUE: loads and application callbacks may fail
    NoSymbol,           \* an artifact that exports no priority
    NoLimit,            \* APP_RT_POLICY_NO_LIMIT
    NotLoaded           \* no record in the list

Policy == [max_loaded_apps : Nat, max_running_apps : Nat,
           allow_preemptive_suspend : BOOLEAN]

\* A priority is a number from 0 to 255; the smaller one is the more important.
AppRecord == [state : {"INITIALIZED", "RUNNING", "SUSPENDED"},
              priority : 0 .. 255,
              auto_suspended : BOOLEAN,
              elf_buf_source : {"static", "malloc"}]

ASSUME AppsAssumption == IsFiniteSet(Apps)
ASSUME SymbolsAssumption == PrioritySymbols \subseteq Int
ASSUME PoliciesAssumption == Policies \subseteq Policy
ASSUME FaultsAssumption == Faults \in BOOLEAN
ASSUME NoLimitAssumption == NoLimit \in Nat
ASSUME NotLoadedAssumption == NotLoaded \notin AppRecord

VARIABLES
    app,            \* the record of each application
    list,           \* g_ctx.apps, the order of the records
    policy,         \* g_ctx.policy
    static_in_use   \* g_static_elf_buf_in_use

rtvars == <<app, list, policy, static_in_use>>

TableTypeOK ==
    /\ app \in [Apps -> AppRecord \cup {NotLoaded}]
    /\ policy \in Policy
    /\ static_in_use \in BOOLEAN

TypeOK == TableTypeOK /\ list \in Seq(Apps)

-----------------------------------------------------------------------------
IsLoaded(a) == app[a] # NotLoaded
StateOf(a) == IF IsLoaded(a) THEN app[a].state ELSE "UNLOADED"
Loaded == {a \in Apps : IsLoaded(a)}
Running == {a \in Apps : StateOf(a) = "RUNNING"}

\* app_runtime_read_priority clamps what the artifact exports.
read_priority(symbol) ==
    IF symbol = NoSymbol THEN 128
    ELSE IF symbol < 0 THEN 0
    ELSE IF symbol > 255 THEN 255
    ELSE symbol

\* app_runtime_elf_staging_alloc for an artifact that fits the static buffer
\* or not, and app_runtime_elf_staging_release.
staging_alloc(fits) == IF fits /\ ~static_in_use THEN "static" ELSE "malloc"

staging_release_Mutant(source, in_use) == in_use

staging_release(source, in_use) == in_use /\ source # "static"

-----------------------------------------------------------------------------
\* app_runtime_ensure_running_slot_locked.

SlotFree == Cardinality(Running) < policy.max_running_apps

Preemptable(a) == {b \in Running \ {a} : app[b].priority > app[a].priority}

Position(a) == CHOOSE i \in DOMAIN list : list[i] = a

Candidate_Mutant(a) ==
    {v \in Preemptable(a) : \A b \in Preemptable(a) \ {v} :
        \/ app[b].priority > app[v].priority
        \/ app[b].priority = app[v].priority /\ Position(v) < Position(b)}

\* The least important of them, the first in the list among equals.
Candidate(a) ==
    {v \in Preemptable(a) : \A b \in Preemptable(a) \ {v} :
        \/ app[b].priority < app[v].priority
        \/ app[b].priority = app[v].priority /\ Position(v) < Position(b)}

InState(record, s, auto) ==
    [state |-> s, priority |-> record.priority, auto_suspended |-> auto,
     elf_buf_source |-> record.elf_buf_source]

Suspended(v, auto) == [app EXCEPT ![v] = InState(app[v], "SUSPENDED", auto)]
Resumed(table, a) == [table EXCEPT ![a] = InState(table[a], "RUNNING", FALSE)]

\* The table once a has a slot to run in; none when it cannot have one.
ensure_running_slot(a) ==
    IF SlotFree THEN {app}
    ELSE {Suspended(v, TRUE) :
            v \in {w \in Candidate(a) : policy.allow_preemptive_suspend}}

-----------------------------------------------------------------------------
Init ==
    /\ app = [a \in Apps |-> NotLoaded]
    /\ list = << >>
    /\ policy = [max_loaded_apps |-> NoLimit, max_running_apps |-> NoLimit,
                 allow_preemptive_suspend |-> TRUE]
    /\ static_in_use = FALSE

set_policy_Mutant(p) ==
    /\ p.max_loaded_apps # 0 /\ p.max_running_apps # 0
    /\ p.max_running_apps <= p.max_loaded_apps
    /\ policy' = p
    /\ UNCHANGED <<app, list, static_in_use>>

\* app_runtime_set_policy.
set_policy(p) ==
    /\ p.max_loaded_apps # 0 /\ p.max_running_apps # 0
    /\ p.max_running_apps <= p.max_loaded_apps
    /\ Cardinality(Running) <= p.max_running_apps
    /\ policy' = p
    /\ UNCHANGED <<app, list, static_in_use>>

LoadAdmits(a) == /\ Cardinality(Loaded) < policy.max_loaded_apps
                 /\ ~IsLoaded(a)

\* app_runtime_load: the file is staged, linked, bound and initialised.
load(a, symbol, fits) ==
    LET source == staging_alloc(fits)
    IN  /\ LoadAdmits(a)
        /\ app' = [app EXCEPT ![a] =
                     [state |-> "INITIALIZED", priority |-> read_priority(symbol),
                      auto_suspended |-> FALSE, elf_buf_source |-> source]]
        /\ list' = Append(list, a)
        /\ static_in_use' = (static_in_use \/ source = "static")
        /\ UNCHANGED policy

\* The read, the linker, the text guard, the manifest or app_init refuses the
\* staged artifact: its buffer is given back.
load_fails(a, fits) ==
    LET source == staging_alloc(fits)
    IN  /\ Faults /\ LoadAdmits(a)
        /\ static_in_use' = staging_release(source,
                                static_in_use \/ source = "static")
        /\ UNCHANGED <<app, list, policy>>

\* app_runtime_start: only from INITIALIZED.
start(a) ==
    /\ StateOf(a) = "INITIALIZED"
    /\ \E table \in ensure_running_slot(a) : app' = Resumed(table, a)
    /\ UNCHANGED <<list, policy, static_in_use>>

\* The start arguments or app_start fail after the slot was made free.
start_fails(a) ==
    /\ Faults /\ StateOf(a) = "INITIALIZED"
    /\ app' \in ensure_running_slot(a)
    /\ UNCHANGED <<list, policy, static_in_use>>

\* app_runtime_suspend.
suspend(a) ==
    /\ StateOf(a) = "RUNNING"
    /\ app' = Suspended(a, FALSE)
    /\ UNCHANGED <<list, policy, static_in_use>>

\* app_runtime_resume, whose slot is found as a start's is.
resume(a) ==
    /\ StateOf(a) = "SUSPENDED"
    /\ \E table \in ensure_running_slot(a) : app' = Resumed(table, a)
    /\ UNCHANGED <<list, policy, static_in_use>>

resume_fails(a) ==
    /\ Faults /\ StateOf(a) = "SUSPENDED"
    /\ app' \in ensure_running_slot(a)
    /\ UNCHANGED <<list, policy, static_in_use>>

\* app_runtime_stop succeeds for any loaded app, and does something for one
\* that runs or is suspended.
stop(a) ==
    /\ IsLoaded(a)
    /\ app' = IF StateOf(a) = "INITIALIZED" THEN app
              ELSE [app EXCEPT ![a] = InState(app[a], "INITIALIZED", FALSE)]
    /\ UNCHANGED <<list, policy, static_in_use>>

\* app_runtime_unload: stop, deinit, off the list, buffer released.
unload(a) ==
    /\ IsLoaded(a)
    /\ static_in_use' = staging_release(app[a].elf_buf_source, static_in_use)
    /\ app' = [app EXCEPT ![a] = NotLoaded]
    /\ list' = SelectSeq(list, LAMBDA b : b # a)
    /\ UNCHANGED policy

\* app_deinit fails after the stop: the app stays, stopped.
unload_fails(a) == Faults /\ stop(a)

-----------------------------------------------------------------------------
\* The calls the console offers.
ConsoleCall(a) ==
    \/ \E symbol \in PrioritySymbols \cup {NoSymbol}, fits \in BOOLEAN :
          load(a, symbol, fits)
    \/ \E fits \in BOOLEAN : load_fails(a, fits)
    \/ start(a) \/ start_fails(a)
    \/ suspend(a)
    \/ resume(a) \/ resume_fails(a)
    \/ stop(a)
    \/ unload(a) \/ unload_fails(a)

Next ==
    \/ \E p \in Policies : set_policy(p)
    \/ \E a \in Apps : ConsoleCall(a)

Spec == Init /\ [][Next]_rtvars

-----------------------------------------------------------------------------
\* Never more applications run than the policy allows, whatever was started,
\* resumed or preempted and however the policy was changed in between.
RunningWithinLimit == Cardinality(Running) <= policy.max_running_apps

\* The static staging buffer is in use exactly while one loaded application
\* was staged in it, and by no two: loads that fail give it back and an unload
\* frees it for the next.
StaticBufferOwned ==
    /\ \A a, b \in Loaded :
          /\ app[a].elf_buf_source = "static"
          /\ app[b].elf_buf_source = "static"
          => a = b
    /\ static_in_use <=> \E a \in Loaded : app[a].elf_buf_source = "static"

Preempted(v) == /\ StateOf(v) = "RUNNING"
                /\ StateOf(v)' = "SUSPENDED" /\ app'[v].auto_suspended

IsRightVictim(v) ==
    /\ ~SlotFree
    /\ Running \ {v} \subseteq Running'
    /\ \A b \in Running' :
          IF b \in Running THEN app[b].priority <= app[v].priority
                           ELSE app[b].priority < app[v].priority

\* ensure_running_slot suspends an app only when all slots are taken, only one,
\* and the least important one: nothing that still runs is less important than
\* the victim, and what runs in its place is strictly more important.
PreemptsLeastImportant ==
    [][\A v \in Apps : Preempted(v) => IsRightVictim(v)]_rtvars
=============================================================================
