----------------------------- MODULE AppControl -----------------------------
(***************************************************************************)
(* Remote control of applications: the app command handler                 *)
(* (neuro_unit_app_command.c) and the deployments of the update service,   *)
(* which drive the runtime (AppRuntime) and, in a step of its own, the     *)
(* registry of callback commands (neuro_app_command_registry.c).           *)
(*                                                                         *)
(* Requests are served one at a time by the query callback thread.  The    *)
(* console thread calls the runtime directly, between any two steps of a   *)
(* handler, and never touches the registry.  Requests that are refused     *)
(* (no lease, unknown command) change nothing and are left out.            *)
(***************************************************************************)
EXTENDS AppRuntime

CONSTANTS
    MaxCommands,    \* NEURO_APPCMD_MAX_ENTRIES
    Console,        \* TRUE: the console thread works on the runtime as well
    Boots,          \* the policies main() may set before the Unit starts
    Idle            \* no request in progress

ASSUME MaxCommandsAssumption == MaxCommands \in Nat \ {0}
ASSUME ConsoleAssumption == Console \in BOOLEAN
ASSUME BootsAssumption == Boots \subseteq Policy

VARIABLES
    registry,   \* the state of each app's callback command
    job,        \* the request in progress
    answer,     \* the last answer to a callback command
    clean       \* ghost: the console has not acted, no call has failed or
                \* been refused, and no app was suspended for another

vars == <<rtvars, registry, job, answer, clean>>

CommandState == {"UNREGISTERED", "ENABLED", "DISABLED"}

Job == [step : {"enable", "disable", "remove", "dispatch", "forget", "load",
                "start", "register"},
        app : Apps]

ASSUME IdleAssumption == Idle \notin Job

ControlTypeOK ==
    /\ TypeOK
    /\ registry \in [Apps -> CommandState]
    /\ job \in Job \cup {Idle}
    /\ answer \in {"none", "ok", "disabled", "failed"}
    /\ clean \in BOOLEAN

-----------------------------------------------------------------------------
\* The command registry.  An application has one command, NEURO_APP_CMD_DEFAULT_NAME.

Registered == {a \in Apps : registry[a] # "UNREGISTERED"}

\* neuro_app_command_registry_set_app_enabled.
set_app_enabled(a, enabled) ==
    registry' = IF a \notin Registered THEN registry
                ELSE [registry EXCEPT ![a] =
                        IF enabled THEN "ENABLED" ELSE "DISABLED"]

remove_app(a) == registry' = [registry EXCEPT ![a] = "UNREGISTERED"]

\* neuro_register_app_callback_command: an app without a command callback is
\* left alone, a full registry refuses a new entry; the entry is enabled
\* at once, and no other thread sees it merely REGISTERED.
register_callback_command(a) ==
    \/ UNCHANGED registry
    \/ /\ IsLoaded(a)
       /\ a \in Registered \/ Cardinality(Registered) < MaxCommands
       /\ registry' = [registry EXCEPT ![a] = "ENABLED"]

-----------------------------------------------------------------------------
Serves(a, step) == job = [step |-> step, app |-> a]
Goto(a, step) ==
    /\ job' = [step |-> step, app |-> a]
    /\ clean' = (clean /\ \A b \in Apps \ {a} : app'[b] = app[b])
Done == job' = Idle /\ UNCHANGED clean
Fails == job' = Idle /\ clean' = FALSE

ControlInit ==
    /\ app = [a \in Apps |-> NotLoaded]
    /\ list = << >>
    /\ policy \in Boots
    /\ static_in_use = FALSE
    /\ registry = [a \in Apps |-> "UNREGISTERED"]
    /\ job = Idle
    /\ answer = "none"
    /\ clean = TRUE

\* app command "start": the runtime first, the registry in a second step.
CommandStart(a) ==
    /\ job = Idle
    /\ \/ start(a) /\ Goto(a, "enable")
       \/ start_fails(a) /\ Fails
    /\ UNCHANGED <<registry, answer>>

CommandStop(a) ==
    /\ job = Idle
    /\ stop(a) /\ Goto(a, "disable")
    /\ UNCHANGED <<registry, answer>>

CommandUnload(a) ==
    /\ job = Idle
    /\ \/ unload(a) /\ Goto(a, "remove")
       \/ unload_fails(a) /\ Fails
    /\ UNCHANGED <<registry, answer>>

RegistryFollows_Mutant(a) ==
    /\ \/ Serves(a, "enable") /\ set_app_enabled(a, TRUE)
       \/ Serves(a, "disable") /\ UNCHANGED registry
       \/ Serves(a, "remove") /\ remove_app(a)
    /\ Done
    /\ UNCHANGED <<rtvars, answer>>

RegistryFollows(a) ==
    /\ \/ Serves(a, "enable") /\ set_app_enabled(a, TRUE)
       \/ Serves(a, "disable") /\ set_app_enabled(a, FALSE)
       \/ Serves(a, "remove") /\ remove_app(a)
    /\ Done
    /\ UNCHANGED <<rtvars, answer>>

\* Any other action is looked up in the registry, and dispatched when it is
\* enabled and the lease is held.
CommandInvoke(a) ==
    /\ job = Idle
    /\ UNCHANGED <<rtvars, registry>>
    /\ \/ registry[a] = "ENABLED" /\ Goto(a, "dispatch") /\ UNCHANGED answer
       \/ /\ registry[a] = "DISABLED"
          /\ answer' = "disabled" /\ Done

\* app_runtime_dispatch_command: only a running app is called, and its
\* callback may fail.
Dispatch(a) ==
    /\ Serves(a, "dispatch")
    /\ \/ StateOf(a) = "RUNNING" /\ answer' = "ok"
       \/ (StateOf(a) # "RUNNING" \/ Faults) /\ answer' = "failed"
    /\ Done
    /\ UNCHANGED <<rtvars, registry>>

-----------------------------------------------------------------------------
\* What activate, rollback and delete of the update service do to the runtime
\* and the registry; their own state is in UpdateService.

Activate(a) ==
    /\ job = Idle
    /\ \/ ~IsLoaded(a) /\ UNCHANGED rtvars /\ Goto(a, "load")
       \/ unload(a) /\ Goto(a, "load")
       \/ unload_fails(a) /\ Fails
    /\ UNCHANGED <<registry, answer>>

\* app_runtime_stop and app_runtime_unload.
Rollback(a) ==
    /\ job = Idle
    /\ \/ unload(a) /\ Goto(a, "forget")
       \/ unload_fails(a) /\ Fails
    /\ UNCHANGED <<registry, answer>>

\* With a stable reference the rollback goes on to load it.
RollbackForgets(a) ==
    /\ Serves(a, "forget")
    /\ remove_app(a)
    /\ UNCHANGED <<rtvars, answer>>
    /\ Goto(a, "load") \/ Done

DeployLoads(a) ==
    /\ Serves(a, "load")
    /\ \/ /\ \E symbol \in PrioritySymbols \cup {NoSymbol}, fits \in BOOLEAN :
                load(a, symbol, fits)
          /\ Goto(a, "start")
       \/ \E fits \in BOOLEAN : load_fails(a, fits) /\ Fails
       \/ ~LoadAdmits(a) /\ Fails /\ UNCHANGED rtvars
    /\ UNCHANGED <<registry, answer>>

DeployStarts_Mutant(a) ==
    /\ Serves(a, "start")
    /\ \/ start(a) /\ Goto(a, "register")
       \/ start_fails(a) /\ Fails
    /\ UNCHANGED <<registry, answer>>

DeployStarts(a) ==
    LET refused == ~(StateOf(a) = "INITIALIZED" /\ ensure_running_slot(a) # {})
    IN  /\ Serves(a, "start")
        /\ \/ start(a) /\ Goto(a, "register")
           \/ start_fails(a) /\ Fails
           \/ refused /\ Fails /\ UNCHANGED rtvars
        /\ UNCHANGED <<registry, answer>>

DeployRegisters(a) ==
    /\ Serves(a, "register")
    /\ register_callback_command(a)
    /\ Done
    /\ UNCHANGED <<rtvars, answer>>

Delete(a) ==
    /\ job = Idle
    /\ ~IsLoaded(a)
    /\ remove_app(a)
    /\ UNCHANGED <<rtvars, job, answer, clean>>

ConsoleActs(a) ==
    /\ Console
    /\ ConsoleCall(a)
    /\ clean' = FALSE
    /\ UNCHANGED <<registry, job, answer>>

\* The steps with which the callback thread goes on with a request.
HandlerStep ==
    \E a \in Apps :
        \/ RegistryFollows(a) \/ Dispatch(a) \/ RollbackForgets(a)
        \/ DeployLoads(a) \/ DeployStarts(a) \/ DeployRegisters(a)

ControlNext ==
    \/ HandlerStep
    \/ \E a \in Apps :
          \/ CommandStart(a) \/ CommandStop(a) \/ CommandUnload(a)
          \/ CommandInvoke(a)
          \/ Activate(a) \/ Rollback(a) \/ Delete(a)
          \/ ConsoleActs(a)

ControlSpec == ControlInit /\ [][ControlNext]_vars
FairControlSpec == ControlSpec /\ WF_vars(HandlerStep)

-----------------------------------------------------------------------------
\* docs/project/UNIT_LLD.md, 5.6: "`ENABLED -> DISABLED`", "Trigger: App stop,
\* suspend, policy block, or dependency loss".  As long as only requests act
\* and all of them succeed, between requests every enabled command belongs to
\* an app that runs, so a caller is never handed to an app that cannot answer.
\* An app suspended for a more important one, stopped from the console or lost
\* in a failed deployment keeps its command enabled: the registry hears of
\* none of these.
EnabledIsRunning ==
    clean /\ job = Idle => \A a \in Apps : registry[a] = "ENABLED" => a \in Running

\* A request in progress ends, whatever the console does to its app between
\* the steps and whichever load or callback fails: every path of the handlers
\* reaches a reply.
RequestsEnd == job # Idle ~> job = Idle
=============================================================================
