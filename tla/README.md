# NeuroLink in TLA+

NeuroLink has three programs. The **Unit** (`neuro_unit/`, C on Zephyr) runs
loadable applications on a board, answers requests over zenoh, hands out leases
on its resources and installs updates. **neuro_cli** (`neuro_cli/`, Python) turns
one command line into one request to a Unit. The **Core** (`neurolink_core/`,
Python) runs agent workflows over a SQLite file and acts on Units through
neuro_cli, with an operator's approval where a tool has side effects.

This directory holds TLA+ modules of the parts whose behaviour is hard to test,
the TLC configurations that check them on small instances, and TLAPS proofs of
their main properties for instances of any size. `PROJECT.json` lists components,
runs, properties, mutants, hazards and theorems, and maps every definition to the
lines it stands for.

    tlc -config LeaseManager.cfg MCLeaseManager     # one run
    tlapm LeaseManager_proofs.tla                   # one proof module

## 1. Inventory

### Unit

| part | state | operations | interacts with |
|---|---|---|---|
| lease manager | table of slots: id, resource, holder, priority, expiry | acquire (grant, renew, preempt), release, check, prune, query | the check stands in front of every protected request; the clock |
| update manager, artifact store, update service | per app: update state, stable reference; artifact metadata; one file per app | prepare (download), verify, activate, rollback, delete, reconcile after boot | app runtime, command registry, file system, zenoh, seed store |
| recovery seed store | seed file, `.tmp` file, legacy file | save, load (migrate, recover, read) | called by the update service after every transition, and at boot |
| app runtime | list of records (state, priority, buffer source), policy, static staging buffer | load, start, suspend, resume, stop, unload, set policy, dispatch | console, app command handler, update service |
| app command handler, command registry, callback bridge | registered commands and their state | start, stop, unload, callback, register, enable, remove | app runtime, update service |
| console (shell) | none | lifecycle commands, storage, network | acts on the app runtime from a thread of its own |
| request envelope, policy, dispatch | none | decode, check fields, route to a handler | all handlers |
| zenoh transport | session, fetch context per chunk | connect loop, query callbacks, artifact download | update service |
| network manager, state registry, events, responses, diagnostics | versioned snapshot of the Unit's state | collect, set, publish | readers of the state |
| protocol codecs, port layer | none | JSON, CBOR; board bring-up | |

One callback thread serves remote requests one after another; the console is a
second thread; zenoh delivers replies on a third. A power failure may come
between any two calls, and then only the file system is left.

### Core and neuro_cli

| part | state | operations | interacts with |
|---|---|---|---|
| database | sessions, spans, facts, tool results, approvals, decisions, audits, memory | one commit per `persist_...` | every process of the Core |
| workflow run | rows of one span | span, events, frame, memory, context, plan, policy, tool or request, recovery, audit | agents, tools, database |
| approvals | request status, decisions | propose, decide (approve, deny, expire), resource gate, execute, record | Unit leases, tools, database |
| tools adapter | manifest cache | run neuro_cli with a timeout, parse, classify | Unit |
| deploy orchestration | the step of a plan, whether it has failed | acquire lease, prepare, verify, activate, health, observe, release; resolve, rollback | Unit leases and updates, neuro_cli |
| event service, daemon, replay | keys seen, cycle, checkpoint | collect or plan a cycle, run the workflow, close | Unit events, workflow, database |
| memory governance | candidates, memories in SQLite and in Mem0 | screen, commit, look up, recall | workflow, database |
| social gateways, webhook | session file, sequence number, attempts | identify, resume, ingest, acknowledge, stop | chat platforms, workflow |
| release evidence | saved payloads, session database | smoke commands, closure-summary | each other's output, configuration, database |
| provider and adapter configuration | two JSON files | update, set active, overlay, report | smokes, inference |
| federation | peers, units | advertise, route | other Cores |
| neuro_cli | none | one query per process, with retries | Unit |

The Core has no server: every command is a process of its own, several of them
work on one database, one Unit and one set of files, and nothing locks across two
commits, two queries or a load and a write.

### What is hard here

* *Power failure between two calls*: the seed and the artifact file are written
  by separate calls, and what boot makes of any mixture decides whether a Unit is
  stuck, loses its state or loads half a file.
* *Two threads, several locks*: the console may take an app away between two
  steps of an activation; the runtime and the command registry are changed one
  after the other.
* *Stale clocks and stale reads*: an acquire reads the clock before the lock; the
  Core reads a request's status and a lease, then acts on them much later.
* *Timeouts against late answers*: the process timeout of neuro_cli, the ten
  seconds of a chunk.
* *Processes that end anywhere*: a run commits a dozen rows one by one, a gateway
  client writes its session file between two payloads, a configuration file is
  truncated before it is written.
* *Evidence made of evidence*: a smoke reads what another one saved, defaults stand
  in for missing fields, and the closure of a release trusts the result.
* *Limits*: slots for leases, entries for updates, slots to run in, one static
  buffer for staging.
* *One step of several failing*: every call in a handler may fail, and every path
  has to end in a state the next request can work with.

`PROJECT.json` lists these as hazards, each at its line.

## 2. Modules

| module | models | proofs |
|---|---|---|
| `LeaseTable` | what the lease table promises: a set of leases, at most one changed per request | refinement in `LeaseManager_proofs` |
| `LeaseManager` | slot table and handlers, refining `LeaseTable` | `LeaseManager_proofs` |
| `UpdateService` | update requests, step by step, with files, runtime and seed | `UpdateService_proofs` |
| `AtomicSeed` | what the seed store promises: a save replaces the seed at one instant or leaves it | refinement in `UpdateService_proofs` |
| `SeedStore` | save and load of the seed, call by call, refining `AtomicSeed` | `UpdateService_proofs` |
| `AppRuntime` | the application runtime | `AppRuntime_proofs` |
| `AppControl` | command handler and registry on top of `AppRuntime` (EXTENDS it), with deployments and the console | `AppRuntime_proofs` |
| `Approval` | approval-gated tools of the Core | `Approval_proofs` |
| `Deploy` | the deploy commands of the Core against a Unit | `Deploy_proofs` |
| `EventService` | event service, daemon and replay around the workflow run | `EventService_proofs` |
| `Gateway` | gateway clients and the webhook server | `Gateway_proofs` |
| `Closure` | operators: what each smoke and summary makes of its inputs, and the gates of a release | lemmas in `Release_proofs` |
| `Profiles` | operators: the configuration files and the registries made of them | lemmas in `Release_proofs` |
| `Release` | the commands that make evidence, change configurations and close a release (EXTENDS both) | `Release_proofs` |

The `MC...` modules only give constants their values. A definition whose name ends
in `_Mutant` is a plausible wrong version of the one after it; no specification
uses it. It documents which mistake a property catches.
`TypeOK` states the shape of a module's variables. It is no property of any run: it
says nothing about the code beyond the shape of its state. It is proved for the lease
table and the release; in SeedStore, UpdateService, EventService and Gateway it is
part of the inductive invariant, and in the other modules the part of it that the
proofs need is.

**LeaseManager.** `entries` is the array of the C code, searched from the first
slot; an inactive slot is `Free`. `handle_lease_acquire` is two actions, because
it reads `k_uptime_get` before it takes the lock: `AcquireReadsClock`, then
`AcquireUnderLock`, with ticks of the clock in between. Generated ids are the
millisecond of the acquire, so two leases may carry the same id, as in the code.
A `Reboot` empties the table and restarts the clock.

**UpdateService.** `update`, `artifact`, `file`, `runtime`, `commands` are the
tables and what is on disk; `seed` is the last snapshot saved. A request becomes a
`job` that goes from step to step; between two steps the console (`Shell...`) and
`Crash` may come. Every step carries the failures of the calls it makes:
`DownloadFails`, `MayFailToLoad`, `MayFailToStart`, `UnloadFails`, and a save that
fails. An activation looks for a loaded app in one step and unloads it in the next
(`ActivateLooks`, `ActivateUnloads`), a rollback stops it and then unloads it
(`RollbackStops`, `RollbackUnloads`). Requests the code refuses change nothing and appear as guards. The content
of a file is an image and how many of its chunks are there.

**SeedStore.** `SaveBegins`, `OpenTmp`, `WriteTmp`, `SyncTmp`, `CloseTmp`,
`RenameTmp`, `UnlinkSeed`, `RenameTmpAgain` are the calls of a save,
`migrate_legacy_seed_if_needed`, `recover_tmp_seed_if_needed` and
`read_snapshot_file` those of a load. Written data that is not synced is whole or
torn after a crash. UpdateService abstracts all of it to one `Save` that either
replaces the seed or leaves it; that this is a fair abstraction is the refinement of
`AtomicSeed`. What the abstract store holds is the snapshot the next boot would find
(`Stored`): it changes when `.tmp` gets the name of the seed, or when the old seed is
removed and only `.tmp` is left, before the caller is told. `harmed` remembers that
one of the two failures has happened which the store does not survive, and the
promise of `AtomicSeed` ends there.

**AppRuntime** and **AppControl.** `list` is the order of loads, which decides
ties between candidates for preemption; priorities are clamped as the code does.
`ensure_running_slot` gives the tables a start or resume may continue with: as it
is, with a victim suspended, or none. AppControl adds the registry and splits a
command where the code releases one lock before it takes the next.

**Approval.** Every operator is a process; `request`, `results`, `audits` and
`decisions` are the tables of the database, each changed by a commit of its own.
A tool is one command to the Unit, or two (restart); a command is confirmed,
refused, answered but not heard, or cut off by the process timeout before or after
the Unit acted. `runs` counts, on the Unit's side, the decisions that have run a
command. `clean` keeps the requests whose decisions neither overlapped nor were
cut off.

**Deploy.** A command is a process with a step of its plan; a step is one query,
which `Replied` answers, `NoReply` repeats up to `MaxAttempts`, and which may be
carried out without an answer or arrive `late`. The Unit is a record with the
leases, the update state and whose artifact is staged, changed by its handlers
(`lease_acquire`, `prepare`, ...), which are the outcomes the modules above allow.
After a failure `After...` gives the cleanup that follows. `Raises` is an exception
no command catches: `TimeoutExpired`, and the unbound `activation_health`. Three
fields of a process are history (`Upset`, `Advance`): `deaf`, it missed a reply about
the lease; `shared`, another command of its agent overlapped, or a late request of
one arrived, and both mean the same lease by the same id; `lapsed`, while it ran
some command lost its lease or shared it.

**EventService.** One step per group of commits of `NoModelCoreWorkflow.run`.
`proc` is the memory of a process, `row` what its latest run has written, `events`
and `memory` what the database and the Mem0 sidecar hold. A model's answer is any
tool of `ModelTools`, listed in its prompt or not, or none; the fixed rules follow
the topic. `Crash` may come between any two steps.

**Gateway.** The QQ client and its session file (`Persist`, torn while it is
written), the WeCom and OpenClaw clients without one, and the webhook server with
a thread per request. The platform keeps sessions and numbered events, closes
connections, asks for a reconnect, invalidates sessions.

**Release**, **Closure**, **Profiles.** A payload is its kind, the gates that
failed, whether it is the answer to an error, and the payloads it was made from.
`Closure` has one operator for each `build_...` and `..._closure_summary`. An
operator's command is a program, a sequence of steps over files, configurations
and session tables; a step that reads evidence names the set of files left, which are
read in the order of the source, one at a time. `play` picks one chain of evidence per behaviour, and the rest
of the evidence is in order. A session is the list of its spans, with the request a
span may wait for.

## 3. What the runs show

| run | distinct states | bounds |
|---|---|---|
| `leases` | 60 492 | 2 slots, 3 resources, 2 holders, 2 priorities, clock to 2 |
| `updates` | 55 639 | 1 app, 2 images of 2 chunks, console, runtime failures |
| `update_crash` | 437 619 | 2 apps, 1 image, tables of one entry, power, save and seed failures |
| `update_partial` | violation | 1 app, power failures |
| `seed_store` | 1 287 | 4 saves, every call may fail |
| `app_runtime` | 41 950 | 3 apps, 8 policies, priorities out of range on both sides |
| `app_control` | 312 232 | 2 apps, with room for both to run or for one, a registry of 2, console, failures |
| `approvals` | 118 770 | 2 processes, 1 request, 2 leases, 3 attempts, all failures |
| `deploy` | 213 676 | 2 processes of 2 agents, 2 attempts per query, 1 late acquire, all Unit failures |
| `events` | 337 114 | 2 processes, 2 events, 2 cycles, batches of 2 (daemon) or 1, memory in SQLite and in Mem0 |
| `gateway` | 246 186 | 3 listeners in a row, 2 sessions of 4 numbers, limit of 2 events, 2 webhook threads, 4 posts, 1 resume attempt |
| `release` | 890 754 | 2 operators, 3 commands, 3 spans of which the newest 2 are read |

*Leases.* `OneLeasePerResource`, `AuthorisedIsExclusive`: the check lets through
only the holder of an unexpired lease, and nobody else has one on the resource.
`HeldUntilExpiry`: a running lease ends only by its holder's release, a reported
preemption of higher priority, or a reset; a stale clock never takes it early.
`FullOnlyWhenAllRunning`: expired leases do not use up the table.
`HolderCanRelease`: a holder is refused only when another lease has the same id.
`ImplementsLeaseTable`: the slot table refines the abstract one. Three resources
for two slots make the table full; two clock steps let a lease expire between the
reading of the clock and the lock.

*Updates.* `ActivatesWhatWasVerified`: what an activation loads is what verify
accepted. `RequestsAreAnswered`: every request is. With power failures
(`update_crash`): no entry is left in a transient state (`NoStuckTransition`),
rollback intent is on disk before anything is unloaded (`RollbackIntentDurable`),
and metadata, commands and seed entries stay within the update table even when it
has room for one of two apps (`NothingOutlivesItsEntry`). Two chunks are what it
takes for a partial file; two images of one size are what size checks cannot tell
apart.

*Seed store.* `Recoverable`: once a snapshot has been acknowledged, a whole one
not older is found after a power failure at any instant. `SettledIsLastSaved`: a
failed save leaves no trace. `ImplementsAtomicSeed`: to the service a save is one
step, whichever of its calls fail.

*Runtime.* `RunningWithinLimit`, `StaticBufferOwned`, `PreemptsLeastImportant`.
Three apps are the least for a choice of victim with a tie.

*Control.* `EnabledIsRunning`: as long as only the remote interface has acted, there
was room for every app and no call failed (`clean`), enabled commands belong to
running apps; without that it does not hold, see below. `RequestsEnd`: with
console and failures every request ends.

*Approvals.* `ApprovedIsRecorded`: nobody reads approved before the evidence is
there. `ExactWhenClean`: decisions that do not overlap leave a database that tells
exactly what ran. `OkMeansDone`: ok means the Unit did all of it. Two processes
are what an overlap takes; three attempts allow a blocked one, a cut-off one and a
retry.

*Deploy.* `ActivatesAdmitted`: unless a lease was lost or shared while it ran, a
command activates the artifact it has itself put at its path; the Unit asks for no
lease in front of prepare and verify, so this rests on every command stopping when
its acquire fails. `LeaseGivenBack`: a command that has asked for the lease and comes
to its answer has given it back, unless a reply about it was missed or another
command of the agent shared it; one that answers ok always has. `CommandsEnd`. Two
agents are what a conflict takes, two attempts what a repeated request takes, and the
late acquire is the one request that can undo a release. Both conditions are needed,
and it was the proof that showed it, for the instance has one process of each agent:
with two of one agent, one releases the lease while the other prepares, and a third
process acquires it and activates what the second has staged; and a command that
fails in its preflight leaves alone a lease that an earlier one has left its agent.

*Events.* `ActedOnce`: an event sent again is acted on once, unless a process that
handled it overlapped with another or could not read back all keys.
`EvidenceFirst`: whenever the process ends, what it did on the Unit is covered by a
decision on disk. `OkIsComplete`: a span that says ok has all its rows, and
memories that were accepted. `RecallIsGoverned`: agents are shown only what SQLite
has. `CheckpointExact`: the checkpoint of a completed service counts what the
database took. `DroppedIsStored`: the router notes the key of an event before the
event is stored, and an event it drops as a duplicate is in the database all the
same, over cycles, restarts and crashes. `ProcessesEnd`. The key limit is three, so it is reached; a replay starts beside
the service, so overlaps happen.

*Gateway.* `IngestedOnce`: no restart ingests a message twice, except in the one
mixed state named below. `NothingSkipped`: a number below the stored one was
ingested, or lost in a crash or failing run. `CountsWhatWasIngested`,
`WithinLimits`: a client stays within its limits of events and of resume attempts;
a webhook server ingests more, the requests in hand when the limit is reached and
one more, which the wait that had begun accepts (`Serve` checks the limit, `Request`
accepts), but never a second one. Nothing bounds its threads; four posts let two come
after a limit of two, so that a second late one would be seen.
`ListenersEnd`. Three listeners are a first, one that dies at the worst place, and
one that finds what it left.

*Release.* `OkMeansSettled`: a run counted by a closure that says ok has no request
waiting, then or later, unless an approval blocked at its gate has written the
request back to pending since it was read (`Blocked`, remembered in `reopened`);
this rests on spans being read before pending requests.
`ValidatedRestsOnSources`: behind a validated release, through two layers of
derived evidence, no payload is the answer to an error or lacks what its evidence
vouches for. `NoChangeIsLost`: without overlapping changes, the configuration files
hold the last value given to every field. Three commands are a source, what is made
of it, and the closure, or two changes and a reader; three spans exceed the limit
of two.

### Where code and documents disagree

`update_partial` ends in a counterexample: preparing a verified app again
overwrites its file while the seed still says VERIFIED. After a power failure boot
accepts any file that is not empty, against "partial downloads must not be treated
as verified artifacts" (UNIT_LLD.md:950).

Seen while modelling, and without a run.

In the Unit:

* The stable reference names the path that the next download overwrites, so a
  rollback may start the newer artifact and report "stable restored"
  (UNIT_LLD.md:494); a failing download removes it.
* Preemption suspends an app and its command stays ENABLED (UNIT_LLD.md:435).
* A start refuses a SUSPENDED app where UNIT_LLD.md lets it start; an unload
  removes the app's commands after the runtime has released it, not before.
* A second rename that fails after the unlink loses both copies of the seed,
  against the comment in `neuro_recovery_seed_store_save`; a legacy seed left by a
  failed migration is preferred to a newer `.tmp` file; a seed that cannot be read
  at boot is overwritten by the next save.
* A reply after the ten seconds of a chunk is copied into a buffer that has been
  freed; a `z_get` that fails after it took the closure frees the context twice; a
  load of a missing file leaks its record.

In approvals and deployments:

* When neuro_cli's process timeout ends after the Unit acted, `TimeoutExpired`
  leaves no tool result, audit record or status, and the request stays pending
  (AI_CORE_USER_GUIDE.md:57). In a deployment it skips the release of the lease.
* A blocked approval attempt writes `pending` over a status settled meanwhile, even
  after closure-summary has said ok of the session.
* The status `lease_not_found` that the cleanup allows never matches, because the
  Unit's errors arrive as `error_reply`. app-deploy-rollback answers ok only when
  the app does not run, though a rollback on the Unit starts it again. The artifact
  file is checked, and read again later. Evidence is stored only with `--db`.

In events and gateways:

* Events stored by a run that was cut off are never acted on. Ticks are numbered
  from 1 in every process, so after a restart they are duplicates; ids built from
  the Unit's counters repeat after its reset. A service that fails in a later
  cycle writes an empty checkpoint. Nothing retires expired memories.
* A client that gives up keeps the old session in its file; the next one stores
  the number of its READY under it and marks it resumable. A session file cut off
  by a crash stops every later start.
* The webhook server checks `--max-events` before a wait of up to 0.25 s for the
  next request, which is still accepted; its threads have no bound.

In releases:

* `closure_summary_gate` may be true while an approval is pending, against
  AI_CORE_RUNBOOK.md:994 and :1023; only `ok` says that none is. A run in flight
  when the spans are read is not counted.
* The coding-route gate passes for a pending and for a denied decision, the
  provider gate without credentials, and the legacy regression contract asks for
  fewer gates. Derived evidence may be older than the source beside it.
* social-adapter-smoke with `--config-file` overwrites the operator's own file,
  its compliance acknowledgements included. A torn configuration file fails every
  later command that reads it.

### Fairness

Liveness is claimed of five specifications. `FairSpec` of UpdateService and
`FairControlSpec` of AppControl assume weak fairness of the handler's own steps:
the callback thread is scheduled, its file system and runtime calls return, and
each fetch ends within `NEURO_QUERY_TIMEOUT_MS`. `FairSpec` of Deploy and of
EventService assume it of the steps of each process: queries have timeouts, SQLite
calls return. `FairSpec` of Gateway assumes it of the listener's own steps, and
that its deadline passes: `--duration` is checked in every turn of its loop, and
receives have timeouts. New requests, the console, other processes, messages,
failures and crashes are never assumed to happen or to stop. Steps between two
requests are finitely many, so no strong fairness is needed.

Deadlock is checked in the runs of the Unit and of approvals, which serve for
ever. Deploy, EventService, Gateway and Release stop when their processes are
done, and there it is not.

## 4. What is proved

Every theorem holds for every value of the constants that satisfies the named
assumptions of its module: tables have at least one slot, bounds are natural numbers,
priorities are integers, applications, processes and the like are finitely many where
they are counted, and the markers (`Idle`, `Free`, `None`, `NotLoaded`, ...) are not
mistaken for data (`MarkersAssumption`, `IdleAssumption`). One theorem has a
hypothesis more, named below. The inductive invariants were checked by TLC on the
instances of the runs before they were proved.

| theorem | says | inductive invariant |
|---|---|---|
| `TypeCorrect` | lease table, pending acquire and reply are well formed | itself |
| `LeasesAreExclusive` | one active slot per resource | `TypeOK` and itself: an acquire writes a free slot only when the lookup by resource found none |
| `AuthorisedRequestsAreExclusive` | who passes the lease check is the only holder | the same, and itself: the answer is given from the pruned table and withdrawn by every later step |
| `LeasesAreHeldUntilExpiry`, `FullMeansAllRunning`, `HoldersCanRelease` | action properties, see the run | `FullInv`: the above, and `ClockOK` |
| `LeaseTableIsImplemented` | every step of the slot table is a step of `LeaseTable`, or none | `FullInv` |
| `SeedIsRecoverable`, `SeedIsSettled` | see the run | which files exist, and how old they may be, at every step of a save and of a load, until harmed |
| `SavesAreAtomic` | every step of the seed store is a step of `AtomicSeed`, or none | the same |
| `ServiceInvariant` (updates), `NothingStaysInTransition`, `RollbackIntentIsOnDisk`, `TablesStayTogether` | see the runs | `Inv` of `UpdateService_proofs` |
| `ActivationLoadsTheVerified` | action property: what an activation loads is what verify accepted, when there are no power failures | the same and `VerifiedIsChecked` |
| `RunsWithinLimit`, `StaticBufferIsOwned` | see the run | table types and both properties; a slot is freed before it is taken |
| `PreemptionIsRight` | action property: a victim is taken only when all slots are, and it is the least important | from the same invariant |
| `SharedRuntimeIsSafe` | the three above under AppControl, requests and console interleaved | every step of AppControl changes the runtime as a step of AppRuntime does, or not at all |
| `EnabledCommandsRun` | see the run | `ControlInv`: the above, the shape of the registry, `SettledOK` |
| `ApprovalsAreRecorded`, `CleanRequestsAreExact`, `OkIsDone` | see the run | see below |
| `OwnArtifactIsActivated`, `LeaseIsGivenBack` | action properties, see the run | `Inv` of `Deploy_proofs` |
| `RunsAreInOrder`, `EvidenceComesFirst`, `OkSpansAreComplete`, `RecallStaysGoverned`, `DuplicatesAreStored` | see the run | `RunInv` |
| `ServiceInvariant` (events), `EventsAreActedOnOnce`, `CheckpointsAreExact` | see the run | `RunInv` and `SharedInv` |
| `GatewayInvariant`, `MessagesAreIngestedOnce`, `ResumingSkipsNothing`, `CountsAreHonest`, `LimitsHold` | see the run | `Inv` of `Gateway_proofs` |
| `ReleaseInvariant`, `TypeCorrect` (release), `ClosedStaysClosed`, `ValidatedIsMeasured`, `ChangesAreKept` | see the run | `Inv` of `Release_proofs` |
| `RequestsAreBounded`, `AppRequestsAreBounded`, `CommandsAreBounded`, `ProcessesAreBounded`, `ListenersAreBounded` | each has a measure that its own steps lower and no step of another raises | the invariants above, `DownloadOK` (updates), `RecoveryInv` (events) |

*Leases.* `ClockOK`: the time a pending acquire has read is not later than the clock.
Without it a lease could be pruned before its time. The refinement maps the slots to
the set of leases in them (`LeasesOf`). A prune maps to the loss of the leases that
have run out at the time it uses, an acquire to at most one new lease in the place of
what the prune and the preemption took; `SlotWritten` and `SlotFilled` say what
writing one slot does to that set.

*Seed.* The refinement maps the files to the one snapshot a boot would find. Most
calls of a save are stutters; the rename is `Succeed`, the unlink that leaves
only `.tmp` is `Replace`, every failing call `Fail`. The proof needs to know at each
step which files there are: a rename over a seed that is newer, or an unlink while
`.tmp` is torn, would not map to any step. Before the first acknowledged save a boot
may find one that nobody was told of, so `Boot` is weaker there.

*Updates.* The properties speak of single instants of a request, so the invariant
says what holds at every step of every request. `JobOK`: which step a request of its
kind can be at. `EntryOK`: the state its entry has at that step. `OneTransient`: no
other entry is transient. `IntentOK`: from the checkpoint on the seed has the
rollback. `TablesOK`, `SeedOK`: which tables have an entry together, in memory and in
the seed, since the seed becomes memory at boot; `EmptyBeforeBoot` is what a power
failure leaves. `ActivationLoadsTheVerified` assumes that `"crash"` is not among the
faults, and needs `VerifiedIsChecked`: the file of a VERIFIED or ACTIVATING entry is
the one verify saw. With power failures that does not hold, which is what
`update_partial` shows.

*Control.* `SettledOK` says, for a clean history, how far registry and runtime are
apart at the step of the request in progress: the handler changes one and then the
other, so `EnabledIsRunning` alone is not inductive.

*Approvals.* Four parts. `AllCommitted`: what a process has committed by the time it
reaches a step. `AllProgress`: how many commands the Unit has confirmed to it, and
that the Unit has then run. `Single` and `AllAlone`: a clean request has one process,
which finds it still pending and knows from its step what it has done. The two
properties alone are not inductive: a process about to settle must be known to have
recorded its evidence, and one between the two commands of a restart to have run the
first. `StepIInv` reduces every step to what it does to one request and one process.

*Deployments.* `HeldOK`: as long as no lease was lost or shared, a deployment between
its acquire and its release holds its lease. `StagedOK` follows, that nobody else has
staged anything since its prepare: another that prepares would hold the same lease,
so be of the same agent, and both would know (`AlikeOK`). `GivenOK`: after its release
a lease does not come back, because an acquire still on its way makes its sender deaf
(`LateOK`) or its siblings sharers. `StepFacts` goes through the plans: the steps
under the lease are reached only through a granted acquire, and left only through the
release. `UnitMoves` and `JobMoves` say what an attempt of a query, however it ends,
does to the Unit and to the process.

*Events.* `RunInv` says what one run has stored (`StoredOK`), judged (`JudgedOK`) and
executed (`ResultsOK`) by the time it reaches a step, and that every event its router
has seen is stored or waits to be (`SeenOK`); nothing in it speaks of two processes. `SharedInv` does
(`AloneOK`): what a process that overlapped with none knows of the events is what the
database has.

*Gateway.* `SkipOK` and `OnceOK` relate the number in the session file and in the
client to the messages ingested, lost or in hand, session by session (`SessionOK`);
`OnceOK` leaves out the one mixed state of section 3. `CountOK`, `AttemptsOK` and
`PostsOK` count messages, resumptions and threads.

*Release.* `CommandsOK`: what is left of a program at each step (`SnapshotShape`,
`SourcesShape`, `StoreShape`), so that spans are read before requests, sources before
what is made of them, and a file is truncated after its load. `FilesOK`: a file holds
a payload of its kind, whose readiness reaches down to its sources (`PayloadOK`); it
is about the gates that the summary asks for, since it leaves out some (`Unasked`).
`SnapshotsOK`: what closure-summary saw audited is, and the requests of those
executions that wait are among the ones it has read or were reopened since, because
an audited execution asks for nothing more. `ClosureOK` is what that gives for a saved closure, and needs
to hold on as sessions go on. `StoresOK`: who is between the load and the write of a
change has a configuration, and unless changes overlapped is alone and has every
change written so far (`StoreKept`). `MarkersAssumption` tells a missing file from a
torn one and from a configuration.

*Progress.* Of each liveness property the part is proved that fairness does not
supply: the actor has a place in a well-founded order, every step of its own takes it
further, and nothing that others do takes it back. For an update request that is the
number of steps left (`StepsLeft`: those of its kind and the chunks to fetch, for
which `DownloadOK` bounds the file by the image); for a request to an app at most
four; for a deployment its place in the plan, then the attempts made, at most nine
queries of `MaxAttempts`; for a process of the event service its cycle, its step
(`StepNo`; a health guard asks for one recovery, and the recovery for none,
`RecoveryInv`), then what is left of its batch; for a listener past its deadline at
most four steps, none of which takes another message or begins another round of its
loop.

Model-checked only:

* The rest of liveness: `RequestsAreAnswered`, `RequestsEnd`, `CommandsEnd`,
  `ProcessesEnd`, `ListenersEnd`. That some step is always possible until the end is
  about ENABLED, and that it is taken is fairness; the provers treat neither. Nor do
  they conclude an end from a measure, which is induction.
* The order of loads in AppRuntime, which is filtered with a LAMBDA that the provers
  cannot treat.

## 5. What is not modelled

Bytes: encodings, checksums, ELF linking, signatures, text of replies, events and
prompts. Heap accounting, so the record leaked by a load of a missing file is not
seen. The context of a chunk with its late reply; chunks are whole steps. What
models answer is arbitrary. Heartbeats of the gateways. Commands that print lists,
plans, templates or fixed payloads and change nothing; the federation route, a pure
choice whose outcome no modelled step reads. Two services or a service and a daemon
at the same time are within `EventService` (constant `Beside`) and beyond its run.
Board bring-up, demo applications and scripts are not part of the system.
`PROJECT.json` gives the reason for every other part.

## 6. Plan

1. `ArtifactFetch`: the context of one chunk with its two references, timeout, late
   reply and dropper, in place of the whole steps of UpdateService's download.
2. `Federation`: `plan_route` against a reference definition of the best route.
3. `StateRegistry` with the network manager and the connect loop; required fields
   per action of the request policy.

Abstract specifications worth stating beside `LeaseTable` and `AtomicSeed`: an update service that installs versions
atomically (implemented up to the divergences above), and an approval that is
decided once (implemented by clean requests).
