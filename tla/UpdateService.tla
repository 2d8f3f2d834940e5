--------------------------- MODULE UpdateService ----------------------------
(***************************************************************************)
(* The update service of a Unit: prepare, verify, activate, rollback and   *)
(* delete of an application (neuro_unit_update_service.c), with the tables *)
(* it drives (neuro_update_manager.c, neuro_artifact_store.c), the files   *)
(* it writes, the runtime it starts applications in and the recovery seed  *)
(* it checkpoints to and boots from.                                       *)
(*                                                                         *)
(* Update requests are served one at a time by the query callback thread;  *)
(* a handler is a sequence of steps, so that the console thread can act in *)
(* the runtime, or power can fail, between any two of them.  Every app has *)
(* one artifact path, <apps_dir>/<app>.llext, so a file is named by its    *)
(* app.  Which faults a run explores is the constant Faults.               *)
(***************************************************************************)
EXTENDS Integers, FiniteSets

CONSTANTS
    Apps,           \* application ids
    Images,         \* the artifacts that can be prepared
    ImageSize,      \* the size of each, in chunks
    MaxEntries,     \* entries of the update, artifact and seed tables
    Faults,         \* the faults explored, a subset of AllFaults
    Console,        \* TRUE: the shell thread works on the runtime as well
    Absent,         \* an unused table entry
    NoFile,         \* no file at an artifact path
    NoSeed,         \* no recovery seed on disk
    Idle,           \* no update request in progress
    None            \* no image, no content

AllFaults == {"crash", "seedread", "save", "download", "load", "start",
              "unload", "remove"}

ASSUME FaultsAssumption == Faults \subseteq AllFaults
ASSUME SizesAssumption == ImageSize \in [Images -> Nat \ {0}]
ASSUME EntriesAssumption == MaxEntries \in Nat \ {0}
ASSUME ConsoleAssumption == Console \in BOOLEAN
\* app ids are strings of bounded length
ASSUME AppsAssumption == IsFiniteSet(Apps)

VARIABLES
    update,     \* neuro_update_manager entries
    artifact,   \* neuro_artifact_store entries
    file,       \* what is stored at each artifact path
    runtime,    \* what the runtime has loaded, and whether it runs
    commands,   \* apps whose callback command is registered
    seed,       \* the recovery seed on disk
    seeded,     \* recovery_seed_initialized
    job,        \* the update request in progress
    checked     \* history: what verify found at the path since the prepare

memory == <<update, artifact, runtime, commands, seeded>>
vars == <<memory, file, seed, job, checked>>

Transient == {"PREPARING", "VERIFYING", "ACTIVATING", "ROLLBACK_PENDING",
              "ROLLING_BACK"}
UpdateState == Transient \cup {"PREPARED", "VERIFIED", "ACTIVE",
                               "ROLLED_BACK", "FAILED"}

\* stable_ref is the artifact path or empty.
UpdateEntry == [state : UpdateState, stable_ref : BOOLEAN]
ArtifactMeta == [state : {"STAGED", "VERIFIED", "ACTIVE", "INVALID"},
                 size_bytes : Nat]

\* The first len chunks of an image; complete when len is the image's size.
Content == [image : Images, len : Nat]
Complete(c) == c.len = ImageSize[c.image]

\* An app in the runtime, with the content that was loaded.
Loaded == [state : {"INITIALIZED", "RUNNING", "SUSPENDED"}, content : Content]

SeedEntry == [u : UpdateEntry \cup {Absent}, m : ArtifactMeta \cup {Absent}]

Job == [op : {"prepare", "verify", "activate", "rollback", "delete", "boot"},
        app : Apps \cup {None},
        step : {"open", "fetch", "stage", "check", "look", "unload", "load",
                "start", "checkpoint", "stop", "restore", "restart", "remove",
                "persist"},
        image : Images \cup {None}]

\* In the code these are an inactive flag, a missing file, a flag and NULL.
ASSUME MarkersAssumption ==
    /\ Absent \notin UpdateEntry \cup ArtifactMeta \cup Loaded
    /\ NoFile \notin Content /\ None \notin Content
    /\ NoSeed \notin [Apps -> SeedEntry]
    /\ Idle \notin Job
    /\ None \notin Apps \cup Images

TypeOK ==
    /\ update \in [Apps -> UpdateEntry \cup {Absent}]
    /\ artifact \in [Apps -> ArtifactMeta \cup {Absent}]
    /\ file \in [Apps -> Content \cup {NoFile}]
    /\ runtime \in [Apps -> Loaded \cup {Absent}]
    /\ commands \subseteq Apps
    /\ seed \in [Apps -> SeedEntry] \cup {NoSeed}
    /\ seeded \in BOOLEAN
    /\ job \in Job \cup {Idle}
    /\ checked \in [Apps -> Content \cup {None}]

-----------------------------------------------------------------------------
\* Update manager and artifact store.

StateOf(a) == IF update[a] = Absent THEN "NONE" ELSE update[a].state

SetState(a, s) == update' = [update EXCEPT ![a].state = s]

Used(table) == {a \in Apps : table[a] # Absent}

\* find_or_create_entry followed by the admission rule of prepare_begin.
PrepareAdmits(a) ==
    /\ a \in Used(update) \/ Cardinality(Used(update)) < MaxEntries
    /\ StateOf(a) \notin {"PREPARING", "VERIFYING", "ACTIVATING"}

prepare_begin(a) ==
    update' = [update EXCEPT ![a] =
                 [state |-> "PREPARING",
                  stable_ref |-> @ # Absent /\ @.stable_ref]]

RollbackAdmits(a) == StateOf(a) \in {"ACTIVE", "FAILED"}

\* neuro_artifact_store_set_state does nothing for an app it does not know.
set_artifact_state(a, s) ==
    artifact' = IF artifact[a] = Absent THEN artifact
                ELSE [artifact EXCEPT ![a].state = s]

reconcile_after_boot_Mutant(u, runtime_active, artifact_available) ==
    LET failed == \/ u.state \in Transient \ {"ROLLBACK_PENDING"}
                  \/ u.state \in {"PREPARED", "VERIFIED"} /\ ~artifact_available
                  \/ u.state = "ACTIVE" /\ ~runtime_active
    IN  IF failed THEN [u EXCEPT !.state = "FAILED"] ELSE u

\* neuro_update_manager_reconcile_after_boot.
reconcile_after_boot(u, runtime_active, artifact_available) ==
    LET failed == \/ u.state \in Transient
                  \/ u.state \in {"PREPARED", "VERIFIED"} /\ ~artifact_available
                  \/ u.state = "ACTIVE" /\ ~runtime_active
    IN  IF failed THEN [u EXCEPT !.state = "FAILED"] ELSE u

\* artifact_path_available: a file, and not an empty one.
FileUsable(a) == file[a] # NoFile /\ file[a].len > 0

-----------------------------------------------------------------------------
\* Control of a request.

Serving == job = Idle /\ seeded
At(op, step) == job # Idle /\ job.op = op /\ job.step = step
Begin(op, a, step, v) ==
    job' = [op |-> op, app |-> a, step |-> step, image |-> v]
Goto(step) == job' = [job EXCEPT !.step = step]

\* The failure paths: the entry becomes FAILED and that is checkpointed.
FailThenPersist == SetState(job.app, "FAILED") /\ Goto("persist")

\* neuro_recovery_seed_build_snapshot: both tables merged into one image,
\* which has room for MaxEntries applications.
Snapshot == [a \in Apps |-> [u |-> update[a], m |-> artifact[a]]]
SnapshotFits == Cardinality(Used(update) \cup Used(artifact)) <= MaxEntries

\* neuro_recovery_seed_store_save leaves the old seed in place when it fails.
Save(ok) ==
    /\ ok => SnapshotFits
    /\ ~ok => "save" \in Faults \/ ~SnapshotFits
    /\ seed' = IF ok THEN Snapshot ELSE seed

-----------------------------------------------------------------------------
Init ==
    /\ update = [a \in Apps |-> Absent]
    /\ artifact = [a \in Apps |-> Absent]
    \* applications may be provisioned on the storage medium
    /\ file \in [Apps -> {NoFile} \cup
                   {[image |-> v, len |-> ImageSize[v]] : v \in Images}]
    /\ runtime = [a \in Apps |-> Absent]
    /\ commands = {}
    /\ seed = NoSeed
    /\ seeded = FALSE
    /\ job = Idle
    /\ checked = [a \in Apps |-> None]

\* ensure_recovery_seed_initialized, reached from the first update request
\* after a start: mount, load, apply and reconcile.  Without a seed, or when
\* it cannot be read, the tables stay empty and the service is ready.
BootWithoutSeed ==
    /\ job = Idle /\ ~seeded
    /\ seed = NoSeed \/ "seedread" \in Faults
    /\ seeded' = TRUE
    /\ UNCHANGED <<update, artifact, runtime, commands, file, seed, job, checked>>

BootFromSeed ==
    LET available(a) == seed[a].m # Absent /\ FileUsable(a)
        active(a) == runtime[a] # Absent /\ runtime[a].state = "RUNNING"
    IN  /\ job = Idle /\ ~seeded
        /\ seed # NoSeed
        /\ seeded' = TRUE
        /\ update' = [a \in Apps |->
                IF seed[a].u = Absent THEN Absent
                ELSE reconcile_after_boot(seed[a].u, active(a), available(a))]
        /\ artifact' = [a \in Apps |-> seed[a].m]
        /\ Begin("boot", None, "persist", None)
        /\ UNCHANGED <<runtime, commands, file, seed, checked>>

-----------------------------------------------------------------------------
\* handle_update_prepare.

\* Transport "zenoh" with a valid artifact key and size.
PrepareDownload(a, v) ==
    /\ Serving /\ PrepareAdmits(a)
    /\ prepare_begin(a)
    /\ Begin("prepare", a, "open", v)
    /\ checked' = [checked EXCEPT ![a] = None]
    /\ UNCHANGED <<artifact, runtime, commands, seeded, file, seed>>

\* Transport "zenoh" without an artifact key or size.
PrepareContractInvalid(a) ==
    /\ Serving /\ PrepareAdmits(a)
    /\ update' = [update EXCEPT ![a] =
                    [state |-> "FAILED",
                     stable_ref |-> @ # Absent /\ @.stable_ref]]
    /\ Begin("prepare", a, "persist", None)
    /\ checked' = [checked EXCEPT ![a] = None]
    /\ UNCHANGED <<artifact, runtime, commands, seeded, file, seed>>

\* Any other transport: the file is expected at its path already, with the
\* size of image v if the request gives one.
PrepareLocal(a, v) ==
    /\ Serving /\ PrepareAdmits(a)
    /\ prepare_begin(a)
    /\ Begin("prepare", a, "stage", v)
    /\ checked' = [checked EXCEPT ![a] = None]
    /\ UNCHANGED <<artifact, runtime, commands, seeded, file, seed>>

\* neuro_unit_zenoh_download_artifact opens the artifact path itself with
\* FS_O_TRUNC and appends chunk by chunk.
DownloadOpens ==
    /\ At("prepare", "open")
    /\ file' = [file EXCEPT ![job.app] = [image |-> job.image, len |-> 0]]
    /\ Goto("fetch")
    /\ UNCHANGED <<memory, seed, checked>>

DownloadFetches ==
    /\ At("prepare", "fetch")
    /\ file[job.app].len < ImageSize[job.image]
    /\ file' = [file EXCEPT ![job.app].len = @ + 1]
    /\ UNCHANGED <<memory, seed, job, checked>>

\* The file is closed, and its size is the one requested.
DownloadCompletes ==
    /\ At("prepare", "fetch")
    /\ Complete(file[job.app])
    /\ Goto("stage")
    /\ UNCHANGED <<memory, file, seed, checked>>

\* A failed connection, open, fetch, write, close or stat: whatever is at the
\* path is removed, if that succeeds.
DownloadFails ==
    /\ "download" \in Faults
    /\ job # Idle /\ job.op = "prepare" /\ job.step \in {"open", "fetch"}
    /\ \/ file' = [file EXCEPT ![job.app] = NoFile]
       \/ "remove" \in Faults /\ UNCHANGED file
    /\ FailThenPersist
    /\ UNCHANGED <<artifact, runtime, commands, seeded, seed, checked>>

\* neuro_artifact_store_stage and prepare_complete.
PrepareStages ==
    LET a == job.app
        size == IF job.image = None THEN 0 ELSE ImageSize[job.image]
        room == a \in Used(artifact) \/ Cardinality(Used(artifact)) < MaxEntries
    IN  /\ At("prepare", "stage")
        /\ artifact' = IF room
                       THEN [artifact EXCEPT ![a] =
                                [state |-> "STAGED", size_bytes |-> size]]
                       ELSE artifact
        /\ SetState(a, IF room THEN "PREPARED" ELSE "FAILED")
        /\ Goto("persist")
        /\ UNCHANGED <<runtime, commands, seeded, file, seed, checked>>

-----------------------------------------------------------------------------
\* handle_update_verify.

VerifyBegins(a) ==
    /\ Serving /\ StateOf(a) = "PREPARED"
    /\ SetState(a, "VERIFYING")
    /\ Begin("verify", a, "check", None)
    /\ UNCHANGED <<artifact, runtime, commands, seeded, file, seed, checked>>

\* The file must be there, not empty, and of the size staged if one was given.
VerifyAccepts(a) ==
    /\ FileUsable(a)
    /\ artifact[a] # Absent
    /\ artifact[a].size_bytes > 0 => file[a].len = artifact[a].size_bytes

VerifyChecks ==
    LET a == job.app
    IN  /\ At("verify", "check")
        /\ \/ /\ VerifyAccepts(a)
              /\ set_artifact_state(a, "VERIFIED")
              /\ SetState(a, "VERIFIED")
              /\ Goto("persist")
              /\ checked' = [checked EXCEPT ![a] = file[a]]
           \/ /\ ~VerifyAccepts(a)
              /\ set_artifact_state(a, "INVALID")
              /\ FailThenPersist
              /\ UNCHANGED checked
        /\ UNCHANGED <<runtime, commands, seeded, file, seed>>

-----------------------------------------------------------------------------
\* The runtime, as the service sees it: app_runtime_unload, _load, _start.

IsLoaded(a) == runtime[a] # Absent

Unload(a) == runtime' = [runtime EXCEPT ![a] = Absent]

\* The app's stop or deinit callback fails: the app stays, stopped or not.
UnloadFails(a) ==
    /\ "unload" \in Faults /\ IsLoaded(a)
    /\ \/ UNCHANGED runtime
       \/ runtime' = [runtime EXCEPT ![a].state = "INITIALIZED"]

\* app_runtime_load needs a readable file and a name not loaded yet.  A
\* truncated image may or may not get past the ELF loader.
CanLoad(a) == ~IsLoaded(a) /\ FileUsable(a)
MayFailToLoad(a) ==
    \/ ~CanLoad(a)
    \/ "load" \in Faults
    \/ file[a] # NoFile /\ ~Complete(file[a])

Load(a) == runtime' = [runtime EXCEPT ![a] =
                         [state |-> "INITIALIZED", content |-> file[a]]]

CanStart(a) == IsLoaded(a) /\ runtime[a].state = "INITIALIZED"
MayFailToStart(a) == ~CanStart(a) \/ "start" \in Faults
Start(a) == runtime' = [runtime EXCEPT ![a].state = "RUNNING"]

\* neuro_register_app_callback_command: an app that is still loaded and
\* exports a command callback gets its command registered.
register_callback(a) ==
    \/ IsLoaded(a) /\ commands' = commands \cup {a}
    \/ UNCHANGED commands

ActivateBegins_Mutant(a) ==
    /\ Serving /\ StateOf(a) \in {"PREPARED", "VERIFIED"}
    /\ SetState(a, "ACTIVATING")
    /\ Begin("activate", a, "look", None)
    /\ UNCHANGED <<artifact, runtime, commands, seeded, file, seed, checked>>

\* handle_update_activate, after its lease check.
ActivateBegins(a) ==
    /\ Serving /\ StateOf(a) = "VERIFIED"
    /\ SetState(a, "ACTIVATING")
    /\ Begin("activate", a, "look", None)
    /\ UNCHANGED <<artifact, runtime, commands, seeded, file, seed, checked>>

\* runtime_app_is_loaded: is there an app to unload?
ActivateLooks ==
    /\ At("activate", "look")
    /\ Goto(IF IsLoaded(job.app) THEN "unload" ELSE "load")
    /\ UNCHANGED <<memory, file, seed, checked>>

\* An app that the console has unloaded since is not found, which fails too.
ActivateUnloads ==
    LET a == job.app
    IN  /\ At("activate", "unload")
        /\ \/ IsLoaded(a) /\ Unload(a) /\ Goto("load") /\ UNCHANGED update
           \/ ~IsLoaded(a) /\ FailThenPersist /\ UNCHANGED runtime
           \/ UnloadFails(a) /\ FailThenPersist
        /\ UNCHANGED <<artifact, commands, seeded, file, seed, checked>>

ActivateLoads ==
    LET a == job.app
    IN  /\ At("activate", "load")
        /\ \/ CanLoad(a) /\ Load(a) /\ Goto("start") /\ UNCHANGED update
           \/ MayFailToLoad(a) /\ FailThenPersist /\ UNCHANGED runtime
        /\ UNCHANGED <<artifact, commands, seeded, file, seed, checked>>

ActivateStarts_Mutant ==
    LET a == job.app
    IN  /\ At("activate", "start")
        /\ CanStart(a) /\ Start(a)
        /\ set_artifact_state(a, "ACTIVE")
        /\ update' = [update EXCEPT ![a] =
                        [state |-> "ACTIVE", stable_ref |-> TRUE]]
        /\ Goto("persist")
        /\ UNCHANGED <<commands, seeded, file, seed, checked>>

\* A started app is ACTIVE and its path becomes the stable reference.
ActivateStarts ==
    LET a == job.app
    IN  /\ At("activate", "start")
        /\ \/ /\ CanStart(a) /\ Start(a)
              /\ set_artifact_state(a, "ACTIVE")
              /\ update' = [update EXCEPT ![a] =
                              [state |-> "ACTIVE", stable_ref |-> TRUE]]
              /\ Goto("persist")
           \/ /\ MayFailToStart(a)
              /\ FailThenPersist
              /\ UNCHANGED <<artifact, runtime>>
        /\ UNCHANGED <<commands, seeded, file, seed, checked>>

-----------------------------------------------------------------------------
\* handle_update_rollback, after its lease check.

RollbackBegins(a) ==
    /\ Serving /\ RollbackAdmits(a)
    /\ SetState(a, "ROLLBACK_PENDING")
    /\ Begin("rollback", a, "checkpoint", None)
    /\ UNCHANGED <<artifact, runtime, commands, seeded, file, seed, checked>>

RollbackCheckpoints_Mutant ==
    LET a == job.app
    IN  /\ At("rollback", "checkpoint")
        /\ \E ok \in BOOLEAN : Save(ok)
        /\ SetState(a, "ROLLING_BACK") /\ Goto("stop")
        /\ UNCHANGED <<artifact, runtime, commands, seeded, file, checked>>

\* The intent is saved before anything is unloaded; if that fails the request
\* ends here, without a further checkpoint.
RollbackCheckpoints ==
    LET a == job.app
    IN  /\ At("rollback", "checkpoint")
        /\ \/ Save(TRUE) /\ SetState(a, "ROLLING_BACK") /\ Goto("stop")
           \/ Save(FALSE) /\ SetState(a, "FAILED") /\ job' = Idle
        /\ UNCHANGED <<artifact, runtime, commands, seeded, file, checked>>

\* app_runtime_stop, whose result is ignored.
RollbackStops ==
    LET a == job.app
    IN  /\ At("rollback", "stop")
        /\ \/ IsLoaded(a) /\ runtime' = [runtime EXCEPT ![a].state = "INITIALIZED"]
           \/ (~IsLoaded(a) \/ "unload" \in Faults) /\ UNCHANGED runtime
        /\ Goto("unload")
        /\ UNCHANGED <<update, artifact, commands, seeded, file, seed, checked>>

\* app_runtime_unload.  Only -ENOENT is tolerated, which the runtime never
\* returns: for an app that is not loaded it returns its own NOT_FOUND code.
RollbackUnloads ==
    LET a == job.app
    IN  /\ At("rollback", "unload")
        /\ \/ /\ IsLoaded(a) /\ Unload(a)
              /\ commands' = commands \ {a}
              /\ Goto("restore") /\ UNCHANGED update
           \/ /\ ~IsLoaded(a)
              /\ FailThenPersist /\ UNCHANGED <<runtime, commands>>
           \/ UnloadFails(a) /\ FailThenPersist /\ UNCHANGED commands
        /\ UNCHANGED <<artifact, seeded, file, seed, checked>>

RollbackRestores ==
    LET a == job.app
    IN  /\ At("rollback", "restore")
        /\ \/ /\ update[a].stable_ref
              /\ CanLoad(a) /\ Load(a)
              /\ Goto("restart") /\ UNCHANGED <<update, artifact>>
           \/ /\ update[a].stable_ref
              /\ MayFailToLoad(a)
              /\ FailThenPersist /\ UNCHANGED <<runtime, artifact>>
           \/ /\ ~update[a].stable_ref
              /\ artifact' = [artifact EXCEPT ![a] = Absent]
              /\ SetState(a, "ROLLED_BACK") /\ Goto("persist")
              /\ UNCHANGED runtime
        /\ UNCHANGED <<commands, seeded, file, seed, checked>>

RollbackRestarts ==
    LET a == job.app
    IN  /\ At("rollback", "restart")
        /\ \/ /\ CanStart(a) /\ Start(a)
              /\ register_callback(a)
              /\ set_artifact_state(a, "ACTIVE")
              /\ SetState(a, "ROLLED_BACK") /\ Goto("persist")
           \/ /\ MayFailToStart(a)
              /\ FailThenPersist /\ UNCHANGED <<runtime, commands, artifact>>
        /\ UNCHANGED <<seeded, file, seed, checked>>

-----------------------------------------------------------------------------
\* handle_update_delete, after its lease check.

DeleteBegins(a) ==
    /\ Serving
    /\ ~IsLoaded(a)
    /\ artifact[a] # Absent
    /\ Begin("delete", a, "remove", None)
    /\ UNCHANGED <<memory, file, seed, checked>>

DeleteRemoves_Mutant ==
    LET a == job.app
    IN  /\ At("delete", "remove")
        /\ file' = [file EXCEPT ![a] = NoFile]
        /\ update' = [update EXCEPT ![a] = Absent]
        /\ commands' = commands \ {a}
        /\ Goto("persist")
        /\ UNCHANGED <<artifact, runtime, seeded, seed, checked>>

DeleteRemoves ==
    LET a == job.app
    IN  /\ At("delete", "remove")
        /\ \/ /\ file[a] # NoFile
              /\ file' = [file EXCEPT ![a] = NoFile]
              /\ artifact' = [artifact EXCEPT ![a] = Absent]
              /\ update' = [update EXCEPT ![a] = Absent]
              /\ commands' = commands \ {a}
              /\ checked' = [checked EXCEPT ![a] = None]
              /\ Goto("persist")
           \/ /\ file[a] = NoFile \/ "remove" \in Faults
              /\ job' = Idle
              /\ UNCHANGED <<update, artifact, commands, file, checked>>
        /\ UNCHANGED <<runtime, seeded, seed>>

-----------------------------------------------------------------------------
\* The last step of every request: persist_recovery_seed_snapshot, whose
\* failure changes the answer of a delete and nothing else, then, for an
\* activation, the registration of the app's callback command, and the reply.
PersistAndReply ==
    /\ job # Idle /\ job.step = "persist"
    /\ \E ok \in BOOLEAN : Save(ok)
    /\ IF job.op = "activate" /\ StateOf(job.app) = "ACTIVE"
       THEN register_callback(job.app)
       ELSE UNCHANGED commands
    /\ job' = Idle
    /\ UNCHANGED <<update, artifact, runtime, seeded, file, checked>>

-----------------------------------------------------------------------------
\* The environment.

\* The shell thread calls the runtime directly, past leases, update manager
\* and command registry.
ShellLoads(a) ==
    /\ Console /\ CanLoad(a) /\ Load(a)
    /\ UNCHANGED <<update, artifact, commands, seeded, file, seed, job, checked>>

ShellStarts(a) ==
    /\ Console /\ CanStart(a) /\ Start(a)
    /\ UNCHANGED <<update, artifact, commands, seeded, file, seed, job, checked>>

\* stop, suspend and resume.
ShellMoves(a, from, to) ==
    /\ Console /\ IsLoaded(a) /\ runtime[a].state = from
    /\ runtime' = [runtime EXCEPT ![a].state = to]
    /\ UNCHANGED <<update, artifact, commands, seeded, file, seed, job, checked>>

ShellUnloads(a) ==
    /\ Console /\ IsLoaded(a) /\ Unload(a)
    /\ UNCHANGED <<update, artifact, commands, seeded, file, seed, job, checked>>

\* Power fails: memory is lost, the files stay as they are.
Crash ==
    /\ "crash" \in Faults
    /\ update' = [a \in Apps |-> Absent]
    /\ artifact' = [a \in Apps |-> Absent]
    /\ runtime' = [a \in Apps |-> Absent]
    /\ commands' = {}
    /\ seeded' = FALSE
    /\ job' = Idle
    /\ UNCHANGED <<file, seed, checked>>

\* The steps of the thread that serves update requests.
HandlerStep ==
    \/ DownloadOpens \/ DownloadFetches \/ DownloadCompletes
    \/ DownloadFails \/ PrepareStages
    \/ VerifyChecks
    \/ ActivateLooks \/ ActivateUnloads \/ ActivateLoads \/ ActivateStarts
    \/ RollbackCheckpoints \/ RollbackStops \/ RollbackUnloads
    \/ RollbackRestores \/ RollbackRestarts
    \/ DeleteRemoves
    \/ PersistAndReply

Request(a) ==
    \/ \E v \in Images : PrepareDownload(a, v)
    \/ PrepareContractInvalid(a)
    \/ \E v \in Images \cup {None} : PrepareLocal(a, v)
    \/ VerifyBegins(a)
    \/ ActivateBegins(a)
    \/ RollbackBegins(a)
    \/ DeleteBegins(a)

Next ==
    \/ BootWithoutSeed
    \/ BootFromSeed
    \/ \E a \in Apps : Request(a)
    \/ HandlerStep
    \/ \E a \in Apps :
          \/ ShellLoads(a)
          \/ ShellStarts(a)
          \/ ShellMoves(a, "RUNNING", "INITIALIZED")
          \/ ShellMoves(a, "RUNNING", "SUSPENDED")
          \/ ShellMoves(a, "SUSPENDED", "RUNNING")
          \/ ShellMoves(a, "SUSPENDED", "INITIALIZED")
          \/ ShellUnloads(a)
    \/ Crash

Spec == Init /\ [][Next]_vars

\* The callback thread keeps running; each fetch ends within its timeout.
FairSpec == Spec /\ WF_vars(HandlerStep)

-----------------------------------------------------------------------------
\* Properties.

\* No entry is left in a transient state when no request is being served: a
\* leftover PREPARING, VERIFYING or ACTIVATING would refuse every further
\* prepare and rollback of the app.  Every failure path and the boot
\* reconciliation must lead out, whatever was on disk when power failed.
NoStuckTransition ==
    job = Idle => \A a \in Apps : StateOf(a) \notin Transient

\* The update manager's comment on rollback_begin: the intent to roll back is
\* on disk before the destructive unload and restore work starts.
RollbackIntentDurable ==
    (job # Idle /\ job.op = "rollback" /\ job.step # "checkpoint"
                /\ StateOf(job.app) = "ROLLING_BACK") =>
        seed # NoSeed /\ seed[job.app].u.state = "ROLLBACK_PENDING"

\* Artifact metadata and registered commands never outlive the update entry
\* of their app, so the merged snapshot always fits the seed and no command
\* is offered for an app that was deleted.
NothingOutlivesItsEntry ==
    /\ Used(artifact) \subseteq Used(update)
    /\ commands \subseteq Used(update)
    /\ SnapshotFits

\* What an activation puts into the runtime is exactly what verify accepted.
ActivatesWhatWasVerified ==
    [][\A a \in Apps :
          (At("activate", "load") /\ job.app = a /\ runtime'[a] # runtime[a]
              /\ job' # job /\ job' # Idle) =>
             runtime'[a].content = checked[a]]_vars

\* UNIT_LLD.md, 9: "partial downloads must not be treated as verified
\* artifacts".  An artifact of known size that counts as verified between
\* requests is complete on disk.  It fails when power is lost while a verified
\* app is prepared again: the seed still says VERIFIED, and the boot
\* reconciliation accepts any file that is not empty.
NoPartialVerified ==
    \A a \in Apps :
        ( /\ job = Idle /\ StateOf(a) = "VERIFIED"
          /\ artifact[a] # Absent /\ artifact[a].size_bytes > 0 ) =>
            file[a] # NoFile /\ Complete(file[a])

\* Every request is answered, whatever fails on the way and whatever the
\* console does to the app in between.
RequestsAreAnswered == (job # Idle) ~> (job = Idle)
=============================================================================
