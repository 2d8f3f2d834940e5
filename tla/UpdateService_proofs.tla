------------------------ MODULE UpdateService_proofs ------------------------
(***************************************************************************)
(* Theorems about the update service for every set of applications and     *)
(* images, every table size, every combination of faults and with or       *)
(* without the console: what its tables, its request in progress and the   *)
(* recovery seed on disk have to do with each other.  Then about the store *)
(* below it: the seed survives every power failure and every failed call   *)
(* of a save, for any number of saves, until a second rename or a call of  *)
(* a load has failed.                                                      *)
(***************************************************************************)
EXTENDS UpdateService, SeedStore, FiniteSetTheorems, TLAPS

\* Which step a request of each kind can be at.
StepsOf(op) ==
    CASE op = "prepare"  -> {"open", "fetch", "stage", "persist"}
      [] op = "verify"   -> {"check", "persist"}
      [] op = "activate" -> {"look", "unload", "load", "start", "persist"}
      [] op = "rollback" -> {"checkpoint", "stop", "unload", "restore", "restart",
                             "persist"}
      [] op = "delete"   -> {"remove", "persist"}
      [] op = "boot"     -> {"persist"}

\* The request in progress is well formed; a download knows its image and,
\* once the path is open, writes to a file.
JobOK ==
    job # Idle =>
        /\ seeded
        /\ job.step \in StepsOf(job.op)
        /\ job.op # "boot" => job.app \in Apps
        /\ job.step \in {"open", "fetch"} => job.image \in Images
        /\ job.step = "fetch" => file[job.app] \in Content

\* The entry of the request's app exists and is in the state its step implies.
StateAt(op, step) ==
    CASE op = "prepare"  -> "PREPARING"
      [] op = "verify"   -> "VERIFYING"
      [] op = "activate" -> "ACTIVATING"
      [] op = "rollback" -> IF step = "checkpoint" THEN "ROLLBACK_PENDING"
                            ELSE "ROLLING_BACK"

EntryOK ==
    job # Idle /\ job.op \notin {"boot", "delete"} =>
        /\ update[job.app] # Absent
        /\ job.step # "persist" =>
              update[job.app].state = StateAt(job.op, job.step)

\* A transient entry belongs to the request in progress, before its last step.
OneTransient ==
    \A a \in Apps :
        StateOf(a) \in Transient =>
            /\ job # Idle /\ job.op \notin {"boot", "delete"}
            /\ job.app = a /\ job.step # "persist"

\* Once a rollback may unload, its intent is on disk.
IntentOK ==
    (job # Idle /\ job.op = "rollback"
       /\ job.step \in {"stop", "unload", "restore", "restart"}) =>
        /\ seed # NoSeed
        /\ seed[job.app].u # Absent
        /\ seed[job.app].u.state = "ROLLBACK_PENDING"

\* Before the boot from the seed the tables are empty.
EmptyBeforeBoot ==
    ~seeded => /\ update = [a \in Apps |-> Absent]
               /\ artifact = [a \in Apps |-> Absent]
               /\ commands = {}

\* Metadata and commands belong to entries, and the entries fit the table; so
\* do those of the seed, which become the tables of the next boot.
TablesOK ==
    /\ \A a \in Apps : artifact[a] # Absent => update[a] # Absent
    /\ \A a \in commands : update[a] # Absent
    /\ Cardinality(Used(update)) <= MaxEntries

SeedOK ==
    seed # NoSeed =>
        /\ \A a \in Apps : seed[a].m # Absent => seed[a].u # Absent
        /\ Cardinality({a \in Apps : seed[a].u # Absent}) <= MaxEntries

\* The inductive invariant.
Inv ==
    /\ TypeOK /\ JobOK /\ EntryOK /\ OneTransient
    /\ IntentOK /\ EmptyBeforeBoot /\ TablesOK /\ SeedOK

-----------------------------------------------------------------------------
\* The facts about the request in progress that every step of a handler uses.
LEMMA JobFacts ==
    ASSUME Inv, job # Idle, job.op # "boot"
    PROVE  /\ job \in Job /\ job.app \in Apps /\ seeded
           /\ job.op # "delete" => update[job.app] \in UpdateEntry
BY MarkersAssumption DEF Inv, TypeOK, JobOK, EntryOK

\* Going to another step of the same handler changes the step only.
LEMMA GotoFacts ==
    ASSUME job \in Job, NEW s, s \in StepsOf(job.op), Goto(s)
    PROVE  /\ job' \in Job /\ job' # Idle /\ job'.step = s
           /\ job'.op = job.op /\ job'.app = job.app /\ job'.image = job.image
<1>1. /\ job'.step = s /\ job'.op = job.op /\ job'.app = job.app
      /\ job'.image = job.image
  BY DEF Goto, Job
<1>2. s \in {"open", "fetch", "stage", "check", "look", "unload", "load", "start",
             "checkpoint", "stop", "restore", "restart", "remove", "persist"}
  BY DEF StepsOf, Job
<1>3. job' \in Job
  BY <1>2 DEF Goto, Job
<1> QED
  BY <1>1, <1>3, MarkersAssumption

\* What the steps of the prepare, verify, activate and rollback handlers have
\* in common: only the entry of the request's app changes, to the state that
\* the next step s implies.
MovesTo(s) ==
    /\ Goto(s) /\ s \in StepsOf(job.op) \ {"open"}
    /\ s = "fetch" => job.image \in Images /\ file'[job.app] \in Content
    /\ \A b \in Apps \ {job.app} : update'[b] = update[b]
    /\ update'[job.app] \in UpdateEntry
    /\ IF s = "persist" THEN update'[job.app].state \notin Transient
       ELSE update'[job.app].state = StateAt(job.op, s)
    /\ \A b \in Apps \ {job.app} : artifact'[b] = artifact[b]
    /\ commands' \subseteq commands \cup {job.app}
    /\ UNCHANGED seeded

\* Such a step preserves the invariant if it leaves the seed in order.
LEMMA HandlerMoves ==
    ASSUME Inv, TypeOK', job # Idle, job.op \notin {"boot", "delete"},
           NEW s, MovesTo(s), IntentOK', SeedOK'
    PROVE  Inv'
<1> USE MarkersAssumption, JobFacts DEF MovesTo
<1>1. /\ job'.step = s /\ job'.op = job.op /\ job'.app = job.app
      /\ job'.image = job.image /\ job' # Idle /\ job.app \in Apps
      /\ update[job.app] # Absent /\ update'[job.app] # Absent
  BY GotoFacts
<1>2. JobOK'
  BY <1>1 DEF JobOK, StepsOf
<1>3. EntryOK'
  BY <1>1 DEF EntryOK
<1>4. OneTransient'
  BY <1>1 DEF OneTransient, StateOf, Inv
<1>5. EmptyBeforeBoot'
  BY DEF EmptyBeforeBoot
<1>6. TablesOK'
  <2>1. Used(update') = Used(update)
    BY <1>1 DEF Used
  <2> QED
    BY <2>1, <1>1 DEF Inv, TypeOK, TablesOK
<1> QED
  BY <1>2, <1>3, <1>4, <1>5, <1>6 DEF Inv

\* A step that leaves the seed alone leaves a rollback's intent on disk.
LEMMA SeedKept ==
    ASSUME Inv, job # Idle, job.op \notin {"boot", "delete"}, NEW s, MovesTo(s),
           UNCHANGED seed, job.step \notin {"checkpoint", "persist"}
    PROVE  IntentOK' /\ SeedOK'
<1>1. job'.op = job.op /\ job'.app = job.app /\ job' # Idle
  BY JobFacts, GotoFacts DEF MovesTo
<1>2. job.op = "rollback" => job.step \in {"stop", "unload", "restore", "restart"}
  BY DEF Inv, JobOK, StepsOf
<1> QED
  BY <1>1, <1>2 DEF Inv, IntentOK, SeedOK

-----------------------------------------------------------------------------
\* handle_update_prepare: the download and the staging.
LEMMA DownloadOpensStep == ASSUME Inv, DownloadOpens PROVE Inv'
<1>1. /\ job \in Job /\ job.op = "prepare" /\ job.step = "open"
      /\ job # Idle /\ job.app \in Apps /\ job.image \in Images
      /\ update[job.app] \in UpdateEntry
      /\ update[job.app].state = "PREPARING"
  BY JobFacts DEF DownloadOpens, At, Inv, JobOK, EntryOK, StateAt
<1>2. file' \in [Apps -> Content \cup {NoFile}] /\ file'[job.app] \in Content
  BY <1>1 DEF DownloadOpens, Inv, TypeOK, Content
<1>3. MovesTo("fetch")
  BY <1>1, <1>2 DEF DownloadOpens, memory, MovesTo, StepsOf, StateAt
<1>4. TypeOK'
  BY <1>1, <1>2, <1>3, GotoFacts DEF DownloadOpens, memory, MovesTo, Inv, TypeOK
<1> QED
  BY <1>1, <1>3, <1>4, HandlerMoves, SeedKept DEF DownloadOpens

LEMMA DownloadFetchesStep == ASSUME Inv, DownloadFetches PROVE Inv'
<1>1. /\ job.app \in Apps /\ file[job.app] \in Content
  BY JobFacts DEF DownloadFetches, At, Inv, JobOK
<1>2. file' \in [Apps -> Content \cup {NoFile}] /\ file'[job.app] \in Content
  BY <1>1 DEF DownloadFetches, Inv, TypeOK, Content
<1> QED
  BY <1>2 DEF DownloadFetches, memory, Inv, TypeOK, JobOK, EntryOK,
              OneTransient, StateOf, IntentOK, EmptyBeforeBoot, TablesOK,
              SeedOK, Used

LEMMA DownloadCompletesStep == ASSUME Inv, DownloadCompletes PROVE Inv'
<1>1. /\ job \in Job /\ job.op = "prepare" /\ job.step = "fetch"
      /\ job # Idle /\ job.app \in Apps
      /\ update[job.app] \in UpdateEntry
      /\ update[job.app].state = "PREPARING"
  BY JobFacts DEF DownloadCompletes, At, Inv, JobOK, EntryOK, StateAt
<1>2. MovesTo("stage")
  BY <1>1 DEF DownloadCompletes, memory, MovesTo, StepsOf, StateAt
<1>3. TypeOK'
  BY <1>1, <1>2, GotoFacts DEF DownloadCompletes, memory, MovesTo, Inv, TypeOK
<1> QED
  BY <1>1, <1>2, <1>3, HandlerMoves, SeedKept DEF DownloadCompletes

\* The failure path that the handlers share.
LEMMA FailFacts ==
    ASSUME Inv, job # Idle, job.op \notin {"boot", "delete"}, FailThenPersist,
           UNCHANGED seeded, commands' \subseteq commands,
           \A b \in Apps \ {job.app} : artifact'[b] = artifact[b]
    PROVE  /\ MovesTo("persist")
           /\ update' \in [Apps -> UpdateEntry \cup {Absent}]
           /\ job' \in Job
<1>1. /\ job \in Job /\ job.app \in Apps /\ update[job.app] \in UpdateEntry
      /\ update \in [Apps -> UpdateEntry \cup {Absent}]
  BY JobFacts DEF Inv, TypeOK
<1>2. "persist" \in StepsOf(job.op)
  BY <1>1 DEF StepsOf, Job
<1>3. /\ \A b \in Apps \ {job.app} : update'[b] = update[b]
      /\ update'[job.app] \in UpdateEntry
      /\ update'[job.app].state = "FAILED"
      /\ update' \in [Apps -> UpdateEntry \cup {Absent}]
  BY <1>1 DEF FailThenPersist, SetState, UpdateEntry, UpdateState
<1>4. "FAILED" \notin Transient
  BY DEF Transient
<1> QED
  BY <1>1, <1>2, <1>3, <1>4, GotoFacts DEF FailThenPersist, MovesTo

LEMMA DownloadFailsStep == ASSUME Inv, DownloadFails PROVE Inv'
<1>1. job # Idle /\ job.op = "prepare" /\ job.step \in {"open", "fetch"}
  BY DEF DownloadFails
<1>2. /\ MovesTo("persist")
      /\ update' \in [Apps -> UpdateEntry \cup {Absent}] /\ job' \in Job
  BY <1>1, FailFacts DEF DownloadFails
<1>3. TypeOK'
  BY <1>1, <1>2, JobFacts DEF DownloadFails, Inv, TypeOK
<1> QED
  BY <1>1, <1>2, <1>3, HandlerMoves, SeedKept DEF DownloadFails

LEMMA PrepareStagesStep == ASSUME Inv, PrepareStages PROVE Inv'
<1>1. /\ job \in Job /\ job.op = "prepare" /\ job.step = "stage"
      /\ job # Idle /\ job.app \in Apps
      /\ update[job.app] \in UpdateEntry
  BY JobFacts DEF PrepareStages, At
<1>2. /\ update' \in [Apps -> UpdateEntry \cup {Absent}]
      /\ update'[job.app] \in UpdateEntry
      /\ update'[job.app].state \in {"PREPARED", "FAILED"}
      /\ \A b \in Apps \ {job.app} : update'[b] = update[b]
  BY <1>1 DEF PrepareStages, SetState, Inv, TypeOK, UpdateEntry, UpdateState
<1>3. /\ artifact' \in [Apps -> ArtifactMeta \cup {Absent}]
      /\ \A b \in Apps \ {job.app} : artifact'[b] = artifact[b]
  <2>1. (IF job.image = None THEN 0 ELSE ImageSize[job.image]) \in Nat
    BY <1>1, SizesAssumption DEF Job
  <2> QED
    BY <1>1, <2>1 DEF PrepareStages, Inv, TypeOK, ArtifactMeta
<1>4. MovesTo("persist")
  BY <1>1, <1>2, <1>3 DEF PrepareStages, MovesTo, StepsOf, Transient
<1>5. TypeOK'
  BY <1>1, <1>2, <1>3, <1>4, GotoFacts DEF PrepareStages, MovesTo, Inv, TypeOK
<1> QED
  BY <1>1, <1>4, <1>5, HandlerMoves, SeedKept DEF PrepareStages

-----------------------------------------------------------------------------
\* handle_update_verify.
LEMMA ArtifactStateFacts ==
    ASSUME Inv, NEW a \in Apps,
           NEW s \in {"STAGED", "VERIFIED", "ACTIVE", "INVALID"},
           set_artifact_state(a, s)
    PROVE  /\ artifact' \in [Apps -> ArtifactMeta \cup {Absent}]
           /\ \A b \in Apps \ {a} : artifact'[b] = artifact[b]
BY MarkersAssumption DEF set_artifact_state, Inv, TypeOK, ArtifactMeta

LEMMA VerifyChecksStep == ASSUME Inv, VerifyChecks PROVE Inv'
<1> DEFINE a == job.app
<1>1. /\ job \in Job /\ job.op = "verify" /\ job.step = "check"
      /\ job # Idle /\ a \in Apps /\ update[a] \in UpdateEntry
  BY JobFacts DEF VerifyChecks, At
<1>2. CASE VerifyAccepts(a) /\ set_artifact_state(a, "VERIFIED")
             /\ SetState(a, "VERIFIED") /\ Goto("persist")
             /\ checked' = [checked EXCEPT ![a] = file[a]]
  <2>1. checked' \in [Apps -> Content \cup {None}]
    BY <1>1, <1>2 DEF VerifyAccepts, FileUsable, Inv, TypeOK
  <2>2. /\ update' \in [Apps -> UpdateEntry \cup {Absent}]
        /\ update'[a] \in UpdateEntry /\ update'[a].state = "VERIFIED"
        /\ \A b \in Apps \ {a} : update'[b] = update[b]
    BY <1>1, <1>2 DEF SetState, Inv, TypeOK, UpdateEntry, UpdateState
  <2>3. /\ artifact' \in [Apps -> ArtifactMeta \cup {Absent}]
        /\ \A b \in Apps \ {a} : artifact'[b] = artifact[b]
    BY <1>1, <1>2, ArtifactStateFacts
  <2>4. MovesTo("persist")
    BY <1>1, <1>2, <2>2, <2>3 DEF VerifyChecks, MovesTo, StepsOf, Transient
  <2>5. TypeOK'
    BY <1>1, <2>1, <2>2, <2>3, <2>4, GotoFacts
       DEF VerifyChecks, MovesTo, Inv, TypeOK
  <2> QED
    BY <1>1, <2>4, <2>5, HandlerMoves, SeedKept DEF VerifyChecks
<1>3. CASE ~VerifyAccepts(a) /\ set_artifact_state(a, "INVALID")
             /\ FailThenPersist /\ UNCHANGED checked
  <2>1. /\ artifact' \in [Apps -> ArtifactMeta \cup {Absent}]
        /\ \A b \in Apps \ {a} : artifact'[b] = artifact[b]
    BY <1>1, <1>3, ArtifactStateFacts
  <2>2. /\ MovesTo("persist")
        /\ update' \in [Apps -> UpdateEntry \cup {Absent}] /\ job' \in Job
    BY <1>1, <1>3, <2>1, FailFacts DEF VerifyChecks
  <2>3. TypeOK'
    BY <1>3, <2>1, <2>2 DEF VerifyChecks, Inv, TypeOK
  <2> QED
    BY <1>1, <2>2, <2>3, HandlerMoves, SeedKept DEF VerifyChecks
<1> QED
  BY <1>2, <1>3 DEF VerifyChecks

-----------------------------------------------------------------------------
\* The runtime operations keep the runtime a table of loaded applications.
LEMMA RuntimeFacts ==
    ASSUME Inv, NEW a \in Apps,
           \/ Unload(a) \/ UnloadFails(a) \/ (CanLoad(a) /\ Load(a))
           \/ CanStart(a) /\ Start(a)
    PROVE  runtime' \in [Apps -> Loaded \cup {Absent}]
<1>1. CASE Unload(a)
  BY <1>1 DEF Unload, Inv, TypeOK
<1>2. CASE UnloadFails(a)
  BY <1>2 DEF UnloadFails, IsLoaded, Inv, TypeOK, Loaded
<1>3. CASE CanLoad(a) /\ Load(a)
  BY <1>3 DEF CanLoad, FileUsable, Load, Inv, TypeOK, Loaded
<1>4. CASE CanStart(a) /\ Start(a)
  BY <1>4 DEF CanStart, IsLoaded, Start, Inv, TypeOK, Loaded
<1> QED
  BY <1>1, <1>2, <1>3, <1>4

\* handle_update_activate.
LEMMA ActivateLooksStep == ASSUME Inv, ActivateLooks PROVE Inv'
<1> DEFINE a == job.app
<1>1. /\ job \in Job /\ job.op = "activate" /\ job.step = "look"
      /\ job # Idle /\ a \in Apps
      /\ update[a] \in UpdateEntry /\ update[a].state = "ACTIVATING"
  BY JobFacts DEF ActivateLooks, At, Inv, EntryOK, StateAt
<1>2. PICK s \in {"unload", "load"} : Goto(s)
  BY DEF ActivateLooks
<1>3. MovesTo(s)
  BY <1>1, <1>2 DEF ActivateLooks, memory, MovesTo, StepsOf, StateAt
<1>4. TypeOK'
  BY <1>1, <1>2, <1>3, GotoFacts DEF ActivateLooks, memory, MovesTo, Inv, TypeOK
<1> QED
  BY <1>1, <1>3, <1>4, HandlerMoves, SeedKept DEF ActivateLooks

LEMMA ActivateUnloadsStep == ASSUME Inv, ActivateUnloads PROVE Inv'
<1> DEFINE a == job.app
<1>1. /\ job \in Job /\ job.op = "activate" /\ job.step = "unload"
      /\ job # Idle /\ a \in Apps
      /\ update[a] \in UpdateEntry /\ update[a].state = "ACTIVATING"
  BY JobFacts DEF ActivateUnloads, At, Inv, EntryOK, StateAt
<1>2. runtime' \in [Apps -> Loaded \cup {Absent}]
  <2>1. UNCHANGED runtime \/ Unload(a) \/ UnloadFails(a)
    BY DEF ActivateUnloads
  <2>2. CASE UNCHANGED runtime
    BY <2>2 DEF Inv, TypeOK
  <2>3. CASE Unload(a)
    BY <1>1, <2>3 DEF Unload, Inv, TypeOK
  <2>4. CASE UnloadFails(a)
    BY <1>1, <2>4 DEF UnloadFails, IsLoaded, Inv, TypeOK, Loaded
  <2> QED
    BY <2>1, <2>2, <2>3, <2>4
<1>3. CASE Goto("load") /\ UNCHANGED update
  <2>1. MovesTo("load")
    BY <1>1, <1>3 DEF ActivateUnloads, MovesTo, StepsOf, StateAt
  <2>2. TypeOK'
    BY <1>1, <1>2, <1>3, <2>1, GotoFacts
       DEF ActivateUnloads, MovesTo, Inv, TypeOK
  <2> QED
    BY <1>1, <2>1, <2>2, HandlerMoves, SeedKept DEF ActivateUnloads
<1>4. CASE FailThenPersist
  <2>1. /\ MovesTo("persist")
        /\ update' \in [Apps -> UpdateEntry \cup {Absent}] /\ job' \in Job
    BY <1>1, <1>4, FailFacts DEF ActivateUnloads
  <2>2. TypeOK'
    BY <1>2, <2>1 DEF ActivateUnloads, Inv, TypeOK
  <2> QED
    BY <1>1, <2>1, <2>2, HandlerMoves, SeedKept DEF ActivateUnloads
<1> QED
  BY <1>3, <1>4 DEF ActivateUnloads

LEMMA ActivateLoadsStep == ASSUME Inv, ActivateLoads PROVE Inv'
<1> DEFINE a == job.app
<1>1. /\ job \in Job /\ job.op = "activate" /\ job.step = "load"
      /\ job # Idle /\ a \in Apps
      /\ update[a] \in UpdateEntry /\ update[a].state = "ACTIVATING"
  BY JobFacts DEF ActivateLoads, At, Inv, EntryOK, StateAt
<1>2. runtime' \in [Apps -> Loaded \cup {Absent}]
  BY <1>1, RuntimeFacts DEF ActivateLoads, Inv, TypeOK
<1>3. CASE Goto("start") /\ UNCHANGED update
  <2>1. MovesTo("start")
    BY <1>1, <1>3 DEF ActivateLoads, MovesTo, StepsOf, StateAt
  <2>2. TypeOK'
    BY <1>1, <1>2, <1>3, <2>1, GotoFacts DEF ActivateLoads, MovesTo, Inv, TypeOK
  <2> QED
    BY <1>1, <2>1, <2>2, HandlerMoves, SeedKept DEF ActivateLoads
<1>4. CASE FailThenPersist
  <2>1. /\ MovesTo("persist")
        /\ update' \in [Apps -> UpdateEntry \cup {Absent}] /\ job' \in Job
    BY <1>1, <1>4, FailFacts DEF ActivateLoads
  <2>2. TypeOK'
    BY <1>2, <2>1 DEF ActivateLoads, Inv, TypeOK
  <2> QED
    BY <1>1, <2>1, <2>2, HandlerMoves, SeedKept DEF ActivateLoads
<1> QED
  BY <1>3, <1>4 DEF ActivateLoads

LEMMA ActivateStartsStep == ASSUME Inv, ActivateStarts PROVE Inv'
<1> DEFINE a == job.app
<1>1. /\ job \in Job /\ job.op = "activate" /\ job.step = "start"
      /\ job # Idle /\ a \in Apps /\ update[a] \in UpdateEntry
  BY JobFacts DEF ActivateStarts, At
<1>2. CASE CanStart(a) /\ Start(a) /\ set_artifact_state(a, "ACTIVE")
             /\ update' = [update EXCEPT ![a] =
                             [state |-> "ACTIVE", stable_ref |-> TRUE]]
             /\ Goto("persist")
  <2>1. /\ update' \in [Apps -> UpdateEntry \cup {Absent}]
        /\ update'[a] \in UpdateEntry /\ update'[a].state = "ACTIVE"
        /\ \A b \in Apps \ {a} : update'[b] = update[b]
    BY <1>1, <1>2 DEF Inv, TypeOK, UpdateEntry, UpdateState
  <2>2. /\ artifact' \in [Apps -> ArtifactMeta \cup {Absent}]
        /\ \A b \in Apps \ {a} : artifact'[b] = artifact[b]
        /\ runtime' \in [Apps -> Loaded \cup {Absent}]
    BY <1>1, <1>2, ArtifactStateFacts, RuntimeFacts
  <2>3. MovesTo("persist")
    BY <1>1, <1>2, <2>1, <2>2 DEF ActivateStarts, MovesTo, StepsOf, Transient
  <2>4. TypeOK'
    BY <1>1, <2>1, <2>2, <2>3, GotoFacts DEF ActivateStarts, MovesTo, Inv, TypeOK
  <2> QED
    BY <1>1, <2>3, <2>4, HandlerMoves, SeedKept DEF ActivateStarts
<1>3. CASE FailThenPersist /\ UNCHANGED <<artifact, runtime>>
  <2>1. /\ MovesTo("persist")
        /\ update' \in [Apps -> UpdateEntry \cup {Absent}] /\ job' \in Job
    BY <1>1, <1>3, FailFacts DEF ActivateStarts
  <2>2. TypeOK'
    BY <1>3, <2>1 DEF ActivateStarts, Inv, TypeOK
  <2> QED
    BY <1>1, <2>1, <2>2, HandlerMoves, SeedKept DEF ActivateStarts
<1> QED
  BY <1>2, <1>3 DEF ActivateStarts

-----------------------------------------------------------------------------
\* The seed that a successful save leaves is in order: it holds the tables,
\* which are.
LEMMA SaveFacts ==
    ASSUME Inv, NEW ok \in BOOLEAN, Save(ok)
    PROVE  /\ seed' \in [Apps -> SeedEntry] \cup {NoSeed}
           /\ SeedOK'
           /\ ok => /\ seed' # NoSeed
                    /\ \A a \in Apps : seed'[a].u = update[a]
<1>1. CASE ok
  <2>1. seed' = Snapshot
    BY <1>1 DEF Save
  <2>2. Snapshot \in [Apps -> SeedEntry]
    BY DEF Snapshot, SeedEntry, Inv, TypeOK
  <2>3. \A a \in Apps : Snapshot[a].u = update[a] /\ Snapshot[a].m = artifact[a]
    BY DEF Snapshot
  <2>4. {a \in Apps : Snapshot[a].u # Absent} = Used(update)
    BY <2>3 DEF Used
  <2> QED
    BY <2>1, <2>2, <2>3, <2>4, MarkersAssumption DEF SeedOK, Inv, TablesOK
<1>2. CASE ~ok
  BY <1>2 DEF Save, SeedOK, Inv, TypeOK
<1> QED
  BY <1>1, <1>2

\* handle_update_rollback.
LEMMA RollbackCheckpointsStep == ASSUME Inv, RollbackCheckpoints PROVE Inv'
<1> DEFINE a == job.app
<1>1. /\ job \in Job /\ job.op = "rollback" /\ job.step = "checkpoint"
      /\ job # Idle /\ a \in Apps /\ seeded
      /\ update[a] \in UpdateEntry /\ update[a].state = "ROLLBACK_PENDING"
  BY JobFacts DEF RollbackCheckpoints, At, Inv, EntryOK, StateAt
<1>2. CASE Save(TRUE) /\ SetState(a, "ROLLING_BACK") /\ Goto("stop")
  <2>1. /\ update' \in [Apps -> UpdateEntry \cup {Absent}]
        /\ update'[a] \in UpdateEntry /\ update'[a].state = "ROLLING_BACK"
        /\ \A b \in Apps \ {a} : update'[b] = update[b]
    BY <1>1, <1>2
       DEF SetState, Inv, TypeOK, UpdateEntry, UpdateState, Transient
  <2>2. MovesTo("stop")
    BY <1>1, <1>2, <2>1 DEF RollbackCheckpoints, MovesTo, StepsOf, StateAt
  <2>3. /\ seed' \in [Apps -> SeedEntry] \cup {NoSeed} /\ SeedOK'
        /\ seed' # NoSeed /\ seed'[a].u = update[a]
    BY <1>1, <1>2, SaveFacts
  <2>4. job' \in Job /\ job'.app = a
    BY <1>1, <2>2, GotoFacts DEF MovesTo
  <2>5. TypeOK'
    BY <2>1, <2>3, <2>4 DEF RollbackCheckpoints, Inv, TypeOK
  <2>6. IntentOK'
    BY <1>1, <2>3, <2>4, MarkersAssumption DEF IntentOK
  <2> QED
    BY <1>1, <2>2, <2>3, <2>5, <2>6, HandlerMoves
<1>3. CASE Save(FALSE) /\ SetState(a, "FAILED") /\ job' = Idle
  <2>1. /\ update' \in [Apps -> UpdateEntry \cup {Absent}]
        /\ update'[a] \in UpdateEntry /\ update'[a].state = "FAILED"
        /\ \A b \in Apps \ {a} : update'[b] = update[b]
    BY <1>1, <1>3 DEF SetState, Inv, TypeOK, UpdateEntry, UpdateState
  <2>2. seed' \in [Apps -> SeedEntry] \cup {NoSeed} /\ SeedOK'
    BY <1>3, SaveFacts
  <2>3. TypeOK'
    BY <1>3, <2>1, <2>2 DEF RollbackCheckpoints, Inv, TypeOK
  <2>4. OneTransient'
    BY <1>1, <2>1, MarkersAssumption
       DEF OneTransient, StateOf, Inv, Transient
  <2>5. Used(update') = Used(update)
    BY <1>1, <2>1, MarkersAssumption DEF Used
  <2>6. TablesOK'
    BY <1>1, <2>1, <2>5, MarkersAssumption
       DEF RollbackCheckpoints, Inv, TypeOK, TablesOK
  <2> QED
    BY <1>1, <1>3, <2>2, <2>3, <2>4, <2>6
       DEF RollbackCheckpoints, Inv, JobOK, EntryOK, IntentOK, EmptyBeforeBoot
<1> QED
  BY <1>2, <1>3 DEF RollbackCheckpoints

LEMMA RollbackStopsStep == ASSUME Inv, RollbackStops PROVE Inv'
<1> DEFINE a == job.app
<1>1. /\ job \in Job /\ job.op = "rollback" /\ job.step = "stop"
      /\ job # Idle /\ a \in Apps
      /\ update[a] \in UpdateEntry /\ update[a].state = "ROLLING_BACK"
  BY JobFacts DEF RollbackStops, At, Inv, EntryOK, StateAt
<1>2. runtime' \in [Apps -> Loaded \cup {Absent}]
  BY <1>1 DEF RollbackStops, IsLoaded, Inv, TypeOK, Loaded
<1>3. MovesTo("unload")
  BY <1>1 DEF RollbackStops, MovesTo, StepsOf, StateAt
<1>4. TypeOK'
  BY <1>1, <1>2, <1>3, GotoFacts DEF RollbackStops, MovesTo, Inv, TypeOK
<1> QED
  BY <1>1, <1>3, <1>4, HandlerMoves, SeedKept DEF RollbackStops

LEMMA RollbackUnloadsStep == ASSUME Inv, RollbackUnloads PROVE Inv'
<1> DEFINE a == job.app
<1>1. /\ job \in Job /\ job.op = "rollback" /\ job.step = "unload"
      /\ job # Idle /\ a \in Apps
      /\ update[a] \in UpdateEntry /\ update[a].state = "ROLLING_BACK"
  BY JobFacts DEF RollbackUnloads, At, Inv, EntryOK, StateAt
<1>2. runtime' \in [Apps -> Loaded \cup {Absent}]
  <2>1. UNCHANGED runtime \/ Unload(a) \/ UnloadFails(a)
    BY DEF RollbackUnloads
  <2>2. CASE UNCHANGED runtime
    BY <2>2 DEF Inv, TypeOK
  <2>3. CASE Unload(a)
    BY <1>1, <2>3 DEF Unload, Inv, TypeOK
  <2>4. CASE UnloadFails(a)
    BY <1>1, <2>4 DEF UnloadFails, IsLoaded, Inv, TypeOK, Loaded
  <2> QED
    BY <2>1, <2>2, <2>3, <2>4
<1>3. commands' \subseteq commands
  BY DEF RollbackUnloads
<1>4. CASE Goto("restore") /\ UNCHANGED update
  <2>1. MovesTo("restore")
    BY <1>1, <1>3, <1>4 DEF RollbackUnloads, MovesTo, StepsOf, StateAt
  <2>2. TypeOK'
    BY <1>1, <1>2, <1>3, <1>4, <2>1, GotoFacts
       DEF RollbackUnloads, MovesTo, Inv, TypeOK
  <2> QED
    BY <1>1, <2>1, <2>2, HandlerMoves, SeedKept DEF RollbackUnloads
<1>5. CASE FailThenPersist
  <2>1. /\ MovesTo("persist")
        /\ update' \in [Apps -> UpdateEntry \cup {Absent}] /\ job' \in Job
    BY <1>1, <1>3, <1>5, FailFacts DEF RollbackUnloads
  <2>2. TypeOK'
    BY <1>2, <1>3, <2>1 DEF RollbackUnloads, Inv, TypeOK
  <2> QED
    BY <1>1, <2>1, <2>2, HandlerMoves, SeedKept DEF RollbackUnloads
<1> QED
  BY <1>4, <1>5 DEF RollbackUnloads

LEMMA RollbackRestoresStep == ASSUME Inv, RollbackRestores PROVE Inv'
<1> DEFINE a == job.app
<1>1. /\ job \in Job /\ job.op = "rollback" /\ job.step = "restore"
      /\ job # Idle /\ a \in Apps
      /\ update[a] \in UpdateEntry /\ update[a].state = "ROLLING_BACK"
  BY JobFacts DEF RollbackRestores, At, Inv, EntryOK, StateAt
<1>2. CASE CanLoad(a) /\ Load(a) /\ Goto("restart")
             /\ UNCHANGED <<update, artifact>>
  <2>1. MovesTo("restart")
    BY <1>1, <1>2 DEF RollbackRestores, MovesTo, StepsOf, StateAt
  <2>2. runtime' \in [Apps -> Loaded \cup {Absent}]
    BY <1>1, <1>2, RuntimeFacts
  <2>3. TypeOK'
    BY <1>1, <1>2, <2>1, <2>2, GotoFacts
       DEF RollbackRestores, MovesTo, Inv, TypeOK
  <2> QED
    BY <1>1, <2>1, <2>3, HandlerMoves, SeedKept DEF RollbackRestores
<1>3. CASE FailThenPersist /\ UNCHANGED <<runtime, artifact>>
  <2>1. /\ MovesTo("persist")
        /\ update' \in [Apps -> UpdateEntry \cup {Absent}] /\ job' \in Job
    BY <1>1, <1>3, FailFacts DEF RollbackRestores
  <2>2. TypeOK'
    BY <1>3, <2>1 DEF RollbackRestores, Inv, TypeOK
  <2> QED
    BY <1>1, <2>1, <2>2, HandlerMoves, SeedKept DEF RollbackRestores
<1>4. CASE artifact' = [artifact EXCEPT ![a] = Absent]
             /\ SetState(a, "ROLLED_BACK") /\ Goto("persist")
             /\ UNCHANGED runtime
  <2>1. /\ update' \in [Apps -> UpdateEntry \cup {Absent}]
        /\ update'[a] \in UpdateEntry /\ update'[a].state = "ROLLED_BACK"
        /\ \A b \in Apps \ {a} : update'[b] = update[b]
    BY <1>1, <1>4 DEF SetState, Inv, TypeOK, UpdateEntry, UpdateState
  <2>2. /\ artifact' \in [Apps -> ArtifactMeta \cup {Absent}]
        /\ \A b \in Apps \ {a} : artifact'[b] = artifact[b]
    BY <1>1, <1>4 DEF Inv, TypeOK
  <2>3. MovesTo("persist")
    BY <1>1, <1>4, <2>1, <2>2 DEF RollbackRestores, MovesTo, StepsOf, Transient
  <2>4. TypeOK'
    BY <1>1, <1>4, <2>1, <2>2, <2>3, GotoFacts
       DEF RollbackRestores, MovesTo, Inv, TypeOK
  <2> QED
    BY <1>1, <2>3, <2>4, HandlerMoves, SeedKept DEF RollbackRestores
<1> QED
  BY <1>2, <1>3, <1>4 DEF RollbackRestores

LEMMA RollbackRestartsStep == ASSUME Inv, RollbackRestarts PROVE Inv'
<1> DEFINE a == job.app
<1>1. /\ job \in Job /\ job.op = "rollback" /\ job.step = "restart"
      /\ job # Idle /\ a \in Apps /\ update[a] \in UpdateEntry
  BY JobFacts DEF RollbackRestarts, At
<1>2. CASE CanStart(a) /\ Start(a) /\ register_callback(a)
             /\ set_artifact_state(a, "ACTIVE")
             /\ SetState(a, "ROLLED_BACK") /\ Goto("persist")
  <2>1. /\ update' \in [Apps -> UpdateEntry \cup {Absent}]
        /\ update'[a] \in UpdateEntry /\ update'[a].state = "ROLLED_BACK"
        /\ \A b \in Apps \ {a} : update'[b] = update[b]
    BY <1>1, <1>2 DEF SetState, Inv, TypeOK, UpdateEntry, UpdateState
  <2>2. /\ artifact' \in [Apps -> ArtifactMeta \cup {Absent}]
        /\ \A b \in Apps \ {a} : artifact'[b] = artifact[b]
        /\ runtime' \in [Apps -> Loaded \cup {Absent}]
    BY <1>1, <1>2, ArtifactStateFacts, RuntimeFacts
  <2>3. commands' \subseteq commands \cup {a}
    BY <1>2 DEF register_callback
  <2>4. MovesTo("persist")
    BY <1>1, <1>2, <2>1, <2>2, <2>3
       DEF RollbackRestarts, MovesTo, StepsOf, Transient
  <2>5. TypeOK'
    BY <1>1, <2>1, <2>2, <2>3, <2>4, GotoFacts
       DEF RollbackRestarts, MovesTo, Inv, TypeOK
  <2> QED
    BY <1>1, <2>4, <2>5, HandlerMoves, SeedKept DEF RollbackRestarts
<1>3. CASE FailThenPersist /\ UNCHANGED <<runtime, commands, artifact>>
  <2>1. /\ MovesTo("persist")
        /\ update' \in [Apps -> UpdateEntry \cup {Absent}] /\ job' \in Job
    BY <1>1, <1>3, FailFacts DEF RollbackRestarts
  <2>2. TypeOK'
    BY <1>3, <2>1 DEF RollbackRestarts, Inv, TypeOK
  <2> QED
    BY <1>1, <2>1, <2>2, HandlerMoves, SeedKept DEF RollbackRestarts
<1> QED
  BY <1>2, <1>3 DEF RollbackRestarts

-----------------------------------------------------------------------------
\* handle_update_delete.
LEMMA DeleteRemovesStep == ASSUME Inv, DeleteRemoves PROVE Inv'
<1> DEFINE a == job.app
<1>1. /\ job \in Job /\ job.op = "delete" /\ job.step = "remove"
      /\ job # Idle /\ a \in Apps /\ seeded
  BY JobFacts DEF DeleteRemoves, At
<1>2. \A b \in Apps : StateOf(b) \notin Transient
  BY <1>1 DEF Inv, OneTransient
<1>3. CASE /\ file' = [file EXCEPT ![a] = NoFile]
           /\ artifact' = [artifact EXCEPT ![a] = Absent]
           /\ update' = [update EXCEPT ![a] = Absent]
           /\ commands' = commands \ {a}
           /\ checked' = [checked EXCEPT ![a] = None]
           /\ Goto("persist")
  <2>1. /\ job' \in Job /\ job' # Idle /\ job'.step = "persist"
        /\ job'.op = "delete" /\ job'.app = a
    BY <1>1, <1>3, GotoFacts DEF StepsOf
  <2>2. TypeOK'
    BY <1>3, <2>1 DEF DeleteRemoves, Inv, TypeOK
  <2>3. JobOK' /\ EntryOK' /\ IntentOK' /\ EmptyBeforeBoot' /\ SeedOK'
    BY <1>1, <2>1 DEF DeleteRemoves, JobOK, EntryOK, IntentOK, EmptyBeforeBoot,
                      SeedOK, Inv, StepsOf
  <2>4. OneTransient'
    BY <1>2, <1>3 DEF OneTransient, StateOf, Inv, TypeOK, Transient
  <2>5. TablesOK'
    <3>1. Used(update') \subseteq Used(update)
      BY <1>3 DEF Used, Inv, TypeOK
    <3>2. IsFiniteSet(Used(update))
      BY AppsAssumption, FS_Subset DEF Used
    <3>3. Cardinality(Used(update')) <= Cardinality(Used(update))
          /\ Cardinality(Used(update')) \in Nat
          /\ Cardinality(Used(update)) \in Nat
      BY <3>1, <3>2, FS_Subset, FS_CardinalityType
    <3>4. Cardinality(Used(update')) <= MaxEntries
      BY <3>3, EntriesAssumption DEF Inv, TablesOK
    <3> QED
      BY <1>3, <3>4 DEF Inv, TypeOK, TablesOK
  <2> QED
    BY <2>2, <2>3, <2>4, <2>5 DEF Inv
<1>4. CASE job' = Idle /\ UNCHANGED <<update, artifact, commands, file, checked>>
  BY <1>1, <1>2, <1>4
     DEF DeleteRemoves, Inv, TypeOK, JobOK, EntryOK, OneTransient, StateOf,
         IntentOK, EmptyBeforeBoot, TablesOK, Used, SeedOK
<1> QED
  BY <1>3, <1>4 DEF DeleteRemoves

\* The last step of a request: the snapshot and, after an activation, the
\* command of an app that has an entry.
LEMMA PersistAndReplyStep == ASSUME Inv, PersistAndReply PROVE Inv'
<1>1. job \in Job /\ job # Idle /\ job.step = "persist" /\ seeded
  BY DEF PersistAndReply, Inv, TypeOK, JobOK
<1>2. seed' \in [Apps -> SeedEntry] \cup {NoSeed} /\ SeedOK'
  BY SaveFacts DEF PersistAndReply
<1>3. commands' \subseteq Apps /\ \A b \in commands' : update[b] # Absent
  <2>1. CASE job.op = "activate" /\ StateOf(job.app) = "ACTIVE"
    <3>1. update[job.app] # Absent
      BY <2>1, <1>1 DEF Inv, EntryOK
    <3> QED
      BY <1>1, <2>1, <3>1, JobFacts
         DEF PersistAndReply, register_callback, Inv, TypeOK, TablesOK
  <2>2. CASE ~(job.op = "activate" /\ StateOf(job.app) = "ACTIVE")
    BY <2>2 DEF PersistAndReply, Inv, TypeOK, TablesOK
  <2> QED
    BY <2>1, <2>2
<1>4. TypeOK'
  BY <1>2, <1>3 DEF PersistAndReply, Inv, TypeOK
<1>5. OneTransient'
  BY <1>1 DEF PersistAndReply, Inv, OneTransient, StateOf
<1>6. TablesOK'
  BY <1>3 DEF PersistAndReply, Inv, TablesOK, Used
<1> QED
  BY <1>1, <1>2, <1>4, <1>5, <1>6
     DEF PersistAndReply, Inv, JobOK, EntryOK, IntentOK, EmptyBeforeBoot

-----------------------------------------------------------------------------
\* The boot from the seed: every entry it makes is past its transition.
LEMMA ReconcileFacts ==
    ASSUME NEW u \in UpdateEntry, NEW x \in BOOLEAN, NEW y \in BOOLEAN
    PROVE  /\ reconcile_after_boot(u, x, y) \in UpdateEntry
           /\ reconcile_after_boot(u, x, y).state \notin Transient
BY DEF reconcile_after_boot, UpdateEntry, UpdateState, Transient

LEMMA BootWithoutSeedStep == ASSUME Inv, BootWithoutSeed PROVE Inv'
BY DEF BootWithoutSeed, Inv, TypeOK, JobOK, EntryOK, OneTransient, StateOf,
       IntentOK, EmptyBeforeBoot, TablesOK, Used, SeedOK

LEMMA BootFromSeedStep == ASSUME Inv, BootFromSeed PROVE Inv'
<1>1. seed \in [Apps -> SeedEntry] /\ commands = {} /\ job = Idle
  BY DEF BootFromSeed, Inv, TypeOK, EmptyBeforeBoot
<1>2. ASSUME NEW a \in Apps
      PROVE  /\ update'[a] \in UpdateEntry \cup {Absent}
             /\ update'[a] # Absent <=> seed[a].u # Absent
             /\ update'[a] # Absent => update'[a].state \notin Transient
  <2> DEFINE x == runtime[a] # Absent /\ runtime[a].state = "RUNNING"
             y == seed[a].m # Absent /\ FileUsable(a)
  <2>1. seed[a].u \in UpdateEntry \cup {Absent}
    BY <1>1 DEF SeedEntry
  <2>2. x \in BOOLEAN /\ y \in BOOLEAN
    OBVIOUS
  <2>3. update'[a] = IF seed[a].u = Absent THEN Absent
                     ELSE reconcile_after_boot(seed[a].u, x, y)
    BY DEF BootFromSeed
  <2> HIDE DEF x, y
  <2> QED
    BY <2>1, <2>2, <2>3, ReconcileFacts, MarkersAssumption
<1>3. update' \in [Apps -> UpdateEntry \cup {Absent}]
  <2>1. DOMAIN update' = Apps /\ update' = [a \in Apps |-> update'[a]]
    BY DEF BootFromSeed
  <2> QED
    BY <1>2, <2>1
<1>4. artifact' \in [Apps -> ArtifactMeta \cup {Absent}]
  BY <1>1 DEF BootFromSeed, SeedEntry
<1>5. job' \in Job /\ job' # Idle /\ job'.op = "boot" /\ job'.step = "persist"
  BY MarkersAssumption DEF BootFromSeed, Begin, Job
<1>6. TypeOK'
  BY <1>3, <1>4, <1>5 DEF BootFromSeed, Inv, TypeOK
<1>7. JobOK' /\ EntryOK' /\ IntentOK' /\ EmptyBeforeBoot' /\ SeedOK'
  BY <1>5 DEF BootFromSeed, Inv, JobOK, EntryOK, IntentOK, EmptyBeforeBoot,
              SeedOK, StepsOf
<1>8. OneTransient'
  BY <1>2 DEF OneTransient, StateOf, Transient
<1>9. TablesOK'
  <2>1. Used(update') = {a \in Apps : seed[a].u # Absent}
    BY <1>2 DEF Used
  <2>2. \A a \in Apps : artifact'[a] = seed[a].m
    BY DEF BootFromSeed
  <2> QED
    BY <1>1, <1>2, <2>1, <2>2 DEF BootFromSeed, Inv, SeedOK, TablesOK
<1> QED
  BY <1>6, <1>7, <1>8, <1>9 DEF Inv

-----------------------------------------------------------------------------
\* The requests that begin when none is in progress.

\* No entry is transient then.
LEMMA NothingTransient ==
    ASSUME Inv, job = Idle
    PROVE  /\ \A b \in Apps : StateOf(b) \notin Transient
           /\ \A b \in Apps : update[b] # Absent => update[b].state \notin Transient
BY DEF Inv, OneTransient, StateOf

\* A request that begins makes or moves the entry of its app only.
Starts(op, a, step, v) ==
    /\ Serving /\ Begin(op, a, step, v)
    /\ step = "open" => v \in Images
    /\ \A b \in Apps \ {a} : update'[b] = update[b]
    /\ update' \in [Apps -> UpdateEntry \cup {Absent}]
    /\ update'[a] \in UpdateEntry
    /\ IF step = "persist" THEN update'[a].state \notin Transient
       ELSE update'[a].state = StateAt(op, step)
    /\ update[a] # Absent \/ Cardinality(Used(update)) < MaxEntries
    /\ checked' \in [Apps -> Content \cup {None}]
    /\ UNCHANGED <<artifact, runtime, commands, seeded, file, seed>>

\* The first steps of the handlers.
FirstSteps == {<<"prepare", "open">>, <<"prepare", "stage">>,
               <<"prepare", "persist">>, <<"verify", "check">>,
               <<"activate", "look">>, <<"rollback", "checkpoint">>}

LEMMA StartsStep ==
    ASSUME Inv, NEW a \in Apps, NEW op, NEW step, NEW v \in Images \cup {None},
           <<op, step>> \in FirstSteps, Starts(op, a, step, v)
    PROVE  Inv'
<1>1. /\ job'.op = op /\ job'.app = a /\ job'.step = step /\ job'.image = v
      /\ job' \in Job /\ job' # Idle
  BY MarkersAssumption DEF Starts, Begin, Job, FirstSteps
<1>2. job = Idle /\ seeded /\ update'[a] # Absent
  BY MarkersAssumption DEF Starts, Serving
<1>3. TypeOK'
  BY <1>1 DEF Starts, Inv, TypeOK
<1>4. JobOK'
  BY <1>1, <1>2 DEF Starts, JobOK, StepsOf, FirstSteps
<1>5. EntryOK'
  BY <1>1, <1>2 DEF Starts, EntryOK
<1>6. OneTransient'
  BY <1>1, <1>2, NothingTransient DEF Starts, OneTransient, StateOf, FirstSteps,
                                      Transient
<1>7. IntentOK' /\ EmptyBeforeBoot' /\ SeedOK'
  BY <1>1, <1>2 DEF Starts, IntentOK, EmptyBeforeBoot, SeedOK, Inv, FirstSteps
<1>8. TablesOK'
  <2>1. IsFiniteSet(Used(update)) /\ Cardinality(Used(update)) \in Nat
    BY AppsAssumption, FS_Subset, FS_CardinalityType DEF Used
  <2>2. Used(update') = Used(update) \cup {a}
    BY <1>2 DEF Starts, Used
  <2>3. Cardinality(Used(update')) <= MaxEntries
    <3>1. CASE update[a] # Absent
      <4>1. Used(update') = Used(update)
        BY <2>2, <3>1 DEF Used
      <4> QED
        BY <4>1 DEF Inv, TablesOK
    <3>2. CASE update[a] = Absent
      <4>1. a \notin Used(update)
        BY <3>2 DEF Used
      <4>2. Cardinality(Used(update')) = Cardinality(Used(update)) + 1
        BY <2>1, <2>2, <4>1, FS_AddElement
      <4> QED
        BY <2>1, <3>2, <4>2, EntriesAssumption DEF Starts
    <3> QED
      BY <3>1, <3>2
  <2>4. \A b \in Apps : update[b] # Absent => update'[b] # Absent
    BY <1>2 DEF Starts
  <2> QED
    BY <2>3, <2>4 DEF Starts, Inv, TypeOK, TablesOK
<1> QED
  BY <1>3, <1>4, <1>5, <1>6, <1>7, <1>8 DEF Inv

LEMMA RequestStep == ASSUME Inv, NEW a \in Apps, Request(a) PROVE Inv'
<1> USE DEF Starts
<1>1. /\ update \in [Apps -> UpdateEntry \cup {Absent}]
      /\ checked \in [Apps -> Content \cup {None}]
  BY DEF Inv, TypeOK
<1>2. None \in Images \cup {None}
  OBVIOUS
<1>3. PrepareAdmits(a) =>
          update[a] # Absent \/ Cardinality(Used(update)) < MaxEntries
  BY DEF PrepareAdmits, Used
<1>4. ASSUME NEW v \in Images, PrepareDownload(a, v) PROVE Inv'
  <2>1. Starts("prepare", a, "open", v)
    BY <1>1, <1>3, <1>4 DEF PrepareDownload, prepare_begin, StateAt, UpdateEntry,
                            UpdateState, Transient
  <2> QED
    BY <2>1, StartsStep DEF FirstSteps
<1>5. ASSUME NEW v \in Images \cup {None}, PrepareLocal(a, v) PROVE Inv'
  <2>1. Starts("prepare", a, "stage", v)
    BY <1>1, <1>3, <1>5 DEF PrepareLocal, prepare_begin, StateAt, UpdateEntry,
                            UpdateState, Transient
  <2> QED
    BY <2>1, StartsStep DEF FirstSteps
<1>6. CASE PrepareContractInvalid(a)
  <2>1. Starts("prepare", a, "persist", None)
    BY <1>1, <1>3, <1>6 DEF PrepareContractInvalid, UpdateEntry, UpdateState,
                            Transient
  <2> QED
    BY <1>2, <2>1, StartsStep DEF FirstSteps
<1>7. CASE VerifyBegins(a)
  <2>1. Starts("verify", a, "check", None)
    BY <1>1, <1>7 DEF VerifyBegins, SetState, StateOf, StateAt, UpdateEntry,
                      UpdateState, Transient
  <2> QED
    BY <1>2, <2>1, StartsStep DEF FirstSteps
<1>8. CASE ActivateBegins(a)
  <2>1. Starts("activate", a, "look", None)
    BY <1>1, <1>8 DEF ActivateBegins, SetState, StateOf, StateAt, UpdateEntry,
                      UpdateState, Transient
  <2> QED
    BY <1>2, <2>1, StartsStep DEF FirstSteps
<1>9. CASE RollbackBegins(a)
  <2>1. Starts("rollback", a, "checkpoint", None)
    BY <1>1, <1>9 DEF RollbackBegins, RollbackAdmits, SetState, StateOf, StateAt,
                      UpdateEntry, UpdateState, Transient
  <2> QED
    BY <1>2, <2>1, StartsStep DEF FirstSteps
<1>10. CASE DeleteBegins(a)
  <2>1. /\ job' \in Job /\ job' # Idle /\ job'.op = "delete" /\ job'.app = a
        /\ job'.step = "remove" /\ job = Idle /\ seeded
    BY <1>10, MarkersAssumption DEF DeleteBegins, Begin, Job, Serving
  <2> QED
    BY <1>10, <2>1, NothingTransient
       DEF DeleteBegins, memory, Inv, TypeOK, JobOK, EntryOK, OneTransient,
           StateOf, IntentOK, EmptyBeforeBoot, TablesOK, Used, SeedOK, StepsOf
<1> QED
  BY <1>4, <1>5, <1>6, <1>7, <1>8, <1>9, <1>10 DEF Request

-----------------------------------------------------------------------------
\* The shell thread changes the runtime only, and Inv says nothing of that
\* beyond its type.
LEMMA ShellStep ==
    ASSUME Inv, NEW a \in Apps, NEW from \in {"RUNNING", "SUSPENDED"},
           NEW to \in {"INITIALIZED", "SUSPENDED", "RUNNING"},
           \/ ShellLoads(a) \/ ShellStarts(a) \/ ShellMoves(a, from, to)
           \/ ShellUnloads(a)
    PROVE  Inv'
<1>1. /\ runtime' \in [Apps -> Loaded \cup {Absent}]
      /\ UNCHANGED <<update, artifact, commands, seeded, file, seed, job, checked>>
  <2>1. CASE ShellLoads(a)
    BY <2>1 DEF ShellLoads, CanLoad, FileUsable, Load, Inv, TypeOK, Loaded
  <2>2. CASE ShellStarts(a)
    BY <2>2 DEF ShellStarts, CanStart, IsLoaded, Start, Inv, TypeOK, Loaded
  <2>3. CASE ShellMoves(a, from, to)
    BY <2>3 DEF ShellMoves, IsLoaded, Inv, TypeOK, Loaded
  <2>4. CASE ShellUnloads(a)
    BY <2>4 DEF ShellUnloads, Unload, Inv, TypeOK
  <2> QED
    BY <2>1, <2>2, <2>3, <2>4
<1> QED
  BY <1>1 DEF Inv, TypeOK, JobOK, EntryOK, OneTransient, StateOf, IntentOK,
              EmptyBeforeBoot, TablesOK, Used, SeedOK

LEMMA NoEntries ==
    ASSUME update' = [a \in Apps |-> Absent],
           artifact' = [a \in Apps |-> Absent], commands' = {}
    PROVE  TablesOK' /\ \A a \in Apps : StateOf(a)' \notin Transient
<1>1. Used(update') = {}
  BY DEF Used
<1>2. Cardinality(Used(update')) = 0
  BY <1>1, FS_EmptySet
<1> QED
  BY <1>2, EntriesAssumption DEF TablesOK, StateOf, Transient

LEMMA CrashStep == ASSUME Inv, Crash PROVE Inv'
<1>1. TypeOK'
  BY DEF Crash, Inv, TypeOK
<1> QED
  BY <1>1, NoEntries DEF Crash, Inv, JobOK, EntryOK, OneTransient, IntentOK,
                         EmptyBeforeBoot, SeedOK

-----------------------------------------------------------------------------
LEMMA InitInv == Init => Inv
<1> SUFFICES ASSUME Init PROVE Inv
  OBVIOUS
<1>1. TypeOK
  <2>1. \A v \in Images : [image |-> v, len |-> ImageSize[v]] \in Content
    BY SizesAssumption DEF Content
  <2>2. file \in [Apps -> Content \cup {NoFile}]
    BY <2>1 DEF Init
  <2> QED
    BY <2>2 DEF Init, TypeOK
<1>2. TablesOK
  <2>1. Used(update) = {}
    BY DEF Init, Used
  <2>2. Cardinality(Used(update)) = 0
    BY <2>1, FS_EmptySet
  <2> QED
    BY <2>2, EntriesAssumption DEF Init, TablesOK
<1> QED
  BY <1>1, <1>2 DEF Init, Inv, JobOK, EntryOK, OneTransient, StateOf, IntentOK,
                    EmptyBeforeBoot, SeedOK, Transient

LEMMA NextInv == Inv /\ [Next]_vars => Inv'
<1> SUFFICES ASSUME Inv, [Next]_vars PROVE Inv'
  OBVIOUS
<1>1. CASE HandlerStep
  BY <1>1, DownloadOpensStep, DownloadFetchesStep, DownloadCompletesStep,
     DownloadFailsStep, PrepareStagesStep, VerifyChecksStep,
     ActivateLooksStep, ActivateUnloadsStep, ActivateLoadsStep,
     ActivateStartsStep, RollbackCheckpointsStep, RollbackStopsStep,
     RollbackUnloadsStep, RollbackRestoresStep,
     RollbackRestartsStep, DeleteRemovesStep, PersistAndReplyStep
     DEF HandlerStep
<1>2. ASSUME NEW a \in Apps, Request(a) PROVE Inv'
  BY <1>2, RequestStep
<1>3. ASSUME NEW a \in Apps,
             \/ ShellLoads(a)
             \/ ShellStarts(a)
             \/ ShellMoves(a, "RUNNING", "INITIALIZED")
             \/ ShellMoves(a, "RUNNING", "SUSPENDED")
             \/ ShellMoves(a, "SUSPENDED", "RUNNING")
             \/ ShellMoves(a, "SUSPENDED", "INITIALIZED")
             \/ ShellUnloads(a)
      PROVE  Inv'
  BY <1>3, ShellStep
<1>4. CASE UNCHANGED vars
  BY <1>4 DEF vars, memory, Inv, TypeOK, JobOK, EntryOK, OneTransient, StateOf,
              IntentOK, EmptyBeforeBoot, TablesOK, Used, SeedOK
<1> QED
  BY <1>1, <1>2, <1>3, <1>4, BootWithoutSeedStep, BootFromSeedStep, CrashStep
     DEF Next

\* The service's tables, files, runtime and seed keep their types, and the
\* request in progress accounts for every transient entry.
THEOREM ServiceInvariant == Spec => []Inv
BY InitInv, NextInv, PTL DEF Spec

\* Whatever fails, whenever power is lost and whatever the seed held then, no
\* entry is left in a transient state when no request is being served: every
\* failure path and the boot reconciliation lead out of it.
THEOREM NothingStaysInTransition == Spec => []NoStuckTransition
<1>1. Inv => NoStuckTransition
  BY DEF Inv, OneTransient, NoStuckTransition
<1> QED
  BY <1>1, ServiceInvariant, PTL

\* A rollback that unloads anything has its intent on disk, so that a power
\* failure in the middle of it is seen by the boot that follows.
THEOREM RollbackIntentIsOnDisk == Spec => []RollbackIntentDurable
<1>1. Inv => RollbackIntentDurable
  <2> SUFFICES ASSUME Inv, job # Idle, job.op = "rollback",
                      job.step # "checkpoint",
                      StateOf(job.app) = "ROLLING_BACK"
               PROVE  seed # NoSeed /\ seed[job.app].u.state = "ROLLBACK_PENDING"
    BY DEF RollbackIntentDurable
  <2>1. job.app \in Apps
    BY JobFacts
  <2>2. job.step # "persist"
    BY <2>1 DEF Inv, OneTransient, Transient
  <2>3. job.step \in {"stop", "unload", "restore", "restart"}
    BY <2>2 DEF Inv, JobOK, StepsOf
  <2> QED
    BY <2>3 DEF Inv, IntentOK
<1> QED
  BY <1>1, ServiceInvariant, PTL

\* Artifact metadata and commands never outlive the entry of their app, and
\* the merged snapshot of both tables always fits the seed: a checkpoint can
\* fail for want of storage, never for want of room in the image.
THEOREM TablesStayTogether == Spec => []NothingOutlivesItsEntry
<1>1. Inv => NothingOutlivesItsEntry
  <2> SUFFICES ASSUME Inv PROVE NothingOutlivesItsEntry
    OBVIOUS
  <2>1. Used(artifact) \subseteq Used(update) /\ commands \subseteq Used(update)
    BY DEF Inv, TypeOK, TablesOK, Used
  <2>2. Used(update) \cup Used(artifact) = Used(update)
    BY <2>1
  <2> QED
    BY <2>1, <2>2 DEF NothingOutlivesItsEntry, SnapshotFits, Inv, TablesOK
<1> QED
  BY <1>1, ServiceInvariant, PTL

-----------------------------------------------------------------------------
\* What an activation loads is what verify accepted, as long as power does not
\* fail.  (When it does, the seed may call VERIFIED an artifact that a later
\* prepare has overwritten: see NoPartialVerified.)

\* Nothing is on disk before the first boot, and the file of an entry that
\* counts as verified is the one that verify saw.
VerifiedIsChecked ==
    /\ ~seeded => seed = NoSeed
    /\ \A a \in Apps : StateOf(a) \in {"VERIFIED", "ACTIVATING"} =>
                          checked[a] = file[a]

\* A step that changes one app's entry only, and not to VERIFIED or ACTIVATING,
\* and what is at that app's path only.
LEMMA OneEntryMoves ==
    ASSUME Inv, VerifiedIsChecked, NEW a \in Apps,
           \A b \in Apps \ {a} : /\ update'[b] = update[b]
                                 /\ checked'[b] = checked[b]
                                 /\ file'[b] = file[b],
           update'[a] # Absent =>
              update'[a].state \notin {"VERIFIED", "ACTIVATING"},
           seeded' = TRUE
    PROVE  VerifiedIsChecked'
BY DEF VerifiedIsChecked, StateOf

LEMMA VerifiedHandlerStep ==
    ASSUME Inv, VerifiedIsChecked, HandlerStep
    PROVE  VerifiedIsChecked'
<1> DEFINE a == job.app
<1>1. /\ job # Idle /\ job \in Job /\ seeded /\ seeded' = TRUE
      /\ update \in [Apps -> UpdateEntry \cup {Absent}]
      /\ file \in [Apps -> Content \cup {NoFile}]
      /\ checked \in [Apps -> Content \cup {None}]
  BY DEF HandlerStep, DownloadOpens, DownloadFetches, DownloadCompletes,
         DownloadFails, PrepareStages, VerifyChecks, ActivateLooks, ActivateUnloads,
         ActivateLoads, ActivateStarts, RollbackCheckpoints, RollbackStops, RollbackUnloads,
         RollbackRestores, RollbackRestarts, DeleteRemoves, PersistAndReply,
         At, memory, Inv, TypeOK, JobOK
<1>2. ASSUME UNCHANGED <<update, checked, file>>
      PROVE  VerifiedIsChecked'
  BY <1>1, <1>2 DEF VerifiedIsChecked, StateOf
<1>3. CASE DownloadCompletes \/ PersistAndReply
  BY <1>2, <1>3 DEF DownloadCompletes, PersistAndReply, memory
<1>4. CASE job.op \notin {"boot", "delete"}
  <2>1. /\ a \in Apps /\ update[a] \in UpdateEntry
        /\ job.step # "persist" => update[a].state = StateAt(job.op, job.step)
    BY <1>1, <1>4, JobFacts DEF Inv, EntryOK
  <2>2. ASSUME NEW s \in UpdateState \ {"VERIFIED", "ACTIVATING"},
               SetState(a, s), UNCHANGED checked,
               \A b \in Apps \ {a} : file'[b] = file[b]
        PROVE  VerifiedIsChecked'
    <3>1. update'[a].state = s /\ \A b \in Apps \ {a} : update'[b] = update[b]
      BY <1>1, <2>1, <2>2 DEF SetState, UpdateEntry
    <3> QED
      BY <1>1, <2>1, <2>2, <3>1, OneEntryMoves
  <2>3. ASSUME FailThenPersist, UNCHANGED checked,
               \A b \in Apps \ {a} : file'[b] = file[b]
        PROVE  VerifiedIsChecked'
    BY <2>2, <2>3 DEF FailThenPersist, UpdateState
  <2>4. CASE DownloadOpens \/ DownloadFetches
    <3>1. update[a].state = "PREPARING"
      BY <2>1, <2>4 DEF DownloadOpens, DownloadFetches, At, StateAt
    <3>2. UNCHANGED update /\ UNCHANGED checked
      BY <2>4 DEF DownloadOpens, DownloadFetches, memory
    <3>3. \A b \in Apps \ {a} : file'[b] = file[b]
      BY <1>1, <2>1, <2>4 DEF DownloadOpens, DownloadFetches
    <3> QED
      BY <1>1, <2>1, <3>1, <3>2, <3>3, OneEntryMoves
  <2>5. CASE DownloadFails
    BY <1>1, <2>1, <2>3, <2>5 DEF DownloadFails
  <2>6. CASE PrepareStages
    BY <2>2, <2>6 DEF PrepareStages, UpdateState
  <2>7. CASE VerifyChecks
    <3>1. CASE SetState(a, "VERIFIED") /\ UNCHANGED file
               /\ checked' = [checked EXCEPT ![a] = file[a]]
      <4>1. \A b \in Apps \ {a} : update'[b] = update[b] /\ checked'[b] = checked[b]
        BY <1>1, <2>1, <3>1 DEF SetState
      <4>2. checked'[a] = file'[a]
        BY <1>1, <2>1, <3>1
      <4> QED
        BY <1>1, <3>1, <4>1, <4>2 DEF VerifiedIsChecked, StateOf
    <3> QED
      BY <2>3, <2>7, <3>1 DEF VerifyChecks
  <2>8. CASE ActivateLooks \/ ActivateUnloads
    BY <1>2, <2>3, <2>8 DEF ActivateLooks, ActivateUnloads, memory
  <2>9. CASE ActivateLoads
    BY <1>2, <2>3, <2>9 DEF ActivateLoads
  <2>10. CASE ActivateStarts
    <3>1. CASE update' = [update EXCEPT ![a] =
                            [state |-> "ACTIVE", stable_ref |-> TRUE]]
               /\ UNCHANGED <<file, checked>>
      BY <1>1, <2>1, <3>1, OneEntryMoves
    <3> QED
      BY <2>3, <2>10, <3>1 DEF ActivateStarts
  <2>11. CASE RollbackCheckpoints
    BY <2>2, <2>11 DEF RollbackCheckpoints, UpdateState, Transient
  <2>12. CASE RollbackStops \/ RollbackUnloads
    BY <1>2, <2>3, <2>12 DEF RollbackStops, RollbackUnloads
  <2>13. CASE RollbackRestores
    BY <1>2, <2>2, <2>3, <2>13 DEF RollbackRestores, UpdateState
  <2>14. CASE RollbackRestarts
    BY <2>2, <2>3, <2>14 DEF RollbackRestarts, UpdateState
  <2> QED
    BY <1>3, <1>4, <2>4, <2>5, <2>6, <2>7, <2>8, <2>9, <2>10, <2>11, <2>12,
       <2>13, <2>14 DEF HandlerStep, DeleteRemoves, At
<1>5. CASE DeleteRemoves
  <2>1. a \in Apps
    BY <1>1, <1>5, JobFacts DEF DeleteRemoves, At
  <2>2. CASE /\ file' = [file EXCEPT ![a] = NoFile]
             /\ update' = [update EXCEPT ![a] = Absent]
             /\ checked' = [checked EXCEPT ![a] = None]
    BY <1>1, <2>1, <2>2, OneEntryMoves
  <2> QED
    BY <1>2, <1>5, <2>2 DEF DeleteRemoves
<1> QED
  BY <1>3, <1>4, <1>5
     DEF HandlerStep, DownloadOpens, DownloadFetches, DownloadFails,
         PrepareStages, VerifyChecks, ActivateLooks, ActivateUnloads, ActivateLoads,
         ActivateStarts, RollbackCheckpoints, RollbackStops, RollbackUnloads,
         RollbackRestores, RollbackRestarts, At

LEMMA VerifiedStep ==
    ASSUME Inv, VerifiedIsChecked, "crash" \notin Faults, [Next]_vars
    PROVE  VerifiedIsChecked'
<1>1. ASSUME UNCHANGED <<update, checked, file, seed>>,
             seeded' = seeded \/ seeded' = TRUE
      PROVE  VerifiedIsChecked'
  BY <1>1 DEF VerifiedIsChecked, StateOf
<1>2. CASE BootFromSeed \/ Crash
  BY <1>2 DEF BootFromSeed, Crash, VerifiedIsChecked
<1>3. ASSUME NEW a \in Apps, Request(a)
      PROVE  VerifiedIsChecked'
  <2>1. /\ update \in [Apps -> UpdateEntry \cup {Absent}]
        /\ checked \in [Apps -> Content \cup {None}]
    BY DEF Inv, TypeOK
  <2>2. /\ job = Idle /\ seeded /\ UNCHANGED <<file, seed>> /\ seeded' = TRUE
    BY <1>3 DEF Request, PrepareDownload, PrepareContractInvalid, PrepareLocal,
                VerifyBegins, ActivateBegins, RollbackBegins, DeleteBegins,
                Serving, memory
  <2>3. \A b \in Apps \ {a} : update'[b] = update[b] /\ checked'[b] = checked[b]
    BY <1>3, <2>1
       DEF Request, PrepareDownload, PrepareContractInvalid, PrepareLocal,
           VerifyBegins, ActivateBegins, RollbackBegins, DeleteBegins,
           prepare_begin, SetState, memory
  <2>4. CASE ActivateBegins(a)
    BY <2>1, <2>2, <2>3, <2>4 DEF ActivateBegins, StateOf, VerifiedIsChecked
  <2>5. CASE DeleteBegins(a)
    BY <1>1, <2>5 DEF DeleteBegins, memory
  <2>6. CASE ~ActivateBegins(a) /\ ~DeleteBegins(a)
    <3>1. update'[a].state \in {"PREPARING", "FAILED", "VERIFYING",
                                "ROLLBACK_PENDING"}
      BY <1>3, <2>1, <2>6
         DEF Request, PrepareDownload, PrepareContractInvalid, PrepareLocal,
             VerifyBegins, RollbackBegins, RollbackAdmits, StateOf,
             prepare_begin, SetState, UpdateEntry
    <3> QED
      BY <2>2, <2>3, <3>1, OneEntryMoves
  <2> QED
    BY <2>4, <2>5, <2>6
<1>4. CASE HandlerStep
  BY <1>4, VerifiedHandlerStep
<1> QED
  BY <1>1, <1>2, <1>3, <1>4
     DEF Next, BootWithoutSeed, ShellLoads, ShellStarts, ShellMoves,
         ShellUnloads, vars, memory

\* As long as power does not fail, what an activation puts into the runtime is
\* exactly the content that verify accepted at the path, whatever the console
\* does between the steps of the handler and whichever other request fails.
THEOREM ActivationLoadsTheVerified ==
    ASSUME "crash" \notin Faults
    PROVE  Spec => ActivatesWhatWasVerified
<1> DEFINE Step ==
      \A a \in Apps :
          (At("activate", "load") /\ job.app = a /\ runtime'[a] # runtime[a]
              /\ job' # job /\ job' # Idle) =>
             runtime'[a].content = checked[a]
<1>1. Init => VerifiedIsChecked
  BY DEF Init, VerifiedIsChecked, StateOf
<1>2. Inv /\ VerifiedIsChecked /\ [Next]_vars => VerifiedIsChecked'
  BY VerifiedStep
<1>3. Inv /\ VerifiedIsChecked /\ [Next]_vars => [Step]_vars
  <2> SUFFICES ASSUME Inv, VerifiedIsChecked, Next, NEW a \in Apps,
                      At("activate", "load"), job.app = a,
                      runtime'[a] # runtime[a], job' # job, job' # Idle
               PROVE  runtime'[a].content = checked[a]
    OBVIOUS
  <2>1. ActivateLoads
    BY DEF Next, BootWithoutSeed, BootFromSeed, Request, Serving,
           PrepareDownload, PrepareContractInvalid, PrepareLocal, VerifyBegins,
           ActivateBegins, RollbackBegins, DeleteBegins, HandlerStep,
           DownloadOpens, DownloadFetches, DownloadCompletes, DownloadFails,
           PrepareStages, VerifyChecks, ActivateLooks, ActivateUnloads, ActivateStarts,
           RollbackCheckpoints, RollbackStops, RollbackUnloads, RollbackRestores,
           RollbackRestarts, DeleteRemoves, PersistAndReply, ShellLoads,
           ShellStarts, ShellMoves, ShellUnloads, Crash, At
  <2>2. StateOf(a) = "ACTIVATING"
    BY DEF Inv, EntryOK, StateAt, StateOf, At
  <2>3. Load(a)
    BY <2>1 DEF ActivateLoads
  <2> QED
    BY <2>2, <2>3 DEF Load, Inv, TypeOK, VerifiedIsChecked
<1> QED
  BY <1>1, <1>2, <1>3, ServiceInvariant, PTL DEF Spec, ActivatesWhatWasVerified

-----------------------------------------------------------------------------
\* Every request is bounded.  A download writes the image it was asked for and
\* never past its size, so it is either complete or has a chunk to fetch.
DownloadOK ==
    At("prepare", "fetch") =>
        /\ file[job.app].image = job.image
        /\ file[job.app].len <= ImageSize[job.image]

\* How many steps of its handler a request has left at most.
Rank(step) ==
    CASE step = "persist" -> 1
      [] step \in {"stage", "check", "start", "restart", "remove"} -> 2
      [] step \in {"fetch", "load", "restore"} -> 3
      [] step \in {"open", "unload"} -> 4
      [] step \in {"look", "stop"} -> 5
      [] step = "checkpoint" -> 6

ChunksLeft ==
    IF job.step = "open" THEN ImageSize[job.image]
    ELSE IF job.step = "fetch" THEN ImageSize[job.image] - file[job.app].len
    ELSE 0

StepsLeft == IF job = Idle THEN 0 ELSE Rank(job.step) + ChunksLeft

LEMMA RankIs ==
    ASSUME NEW j \in Job
    PROVE  Rank(j.step) \in 1 .. 6
BY DEF Job, Rank

\* The measure is a number of steps.
LEMMA StepsAreCounted ==
    ASSUME Inv, DownloadOK
    PROVE  StepsLeft \in Nat /\ (job # Idle => ChunksLeft \in Nat /\ StepsLeft > 0)
<1>1. CASE job = Idle
  BY <1>1 DEF StepsLeft
<1>2. CASE job # Idle
  <2>1. job \in Job /\ Rank(job.step) \in 1 .. 6
    BY <1>2, RankIs DEF Inv, TypeOK
  <2>2. ChunksLeft \in Nat
    <3>1. CASE job.step = "open"
      BY <1>2, <3>1, SizesAssumption DEF ChunksLeft, Inv, JobOK
    <3>2. CASE job.step = "fetch"
      <4>1. job.op = "prepare"
        BY <1>2, <2>1, <3>2 DEF Inv, JobOK, StepsOf, Job
      <4>2. /\ job.image \in Images /\ file[job.app] \in Content
        BY <1>2, <3>2 DEF Inv, JobOK
      <4>3. ImageSize[job.image] \in Nat /\ file[job.app].len \in Nat
        BY <4>2, SizesAssumption DEF Content
      <4>4. file[job.app].len <= ImageSize[job.image]
        BY <1>2, <3>2, <4>1 DEF DownloadOK, At
      <4> QED
        BY <3>2, <4>3, <4>4 DEF ChunksLeft
    <3>3. CASE job.step \notin {"open", "fetch"}
      BY <3>3 DEF ChunksLeft
    <3> QED
      BY <3>1, <3>2, <3>3
  <2> QED
    BY <1>2, <2>1, <2>2 DEF StepsLeft
<1> QED
  BY <1>1, <1>2

\* A step to a later one, and the last step.
LEMMA LaterStep ==
    ASSUME Inv, DownloadOK, job # Idle, NEW s, Goto(s),
           s \in StepsOf(job.op) \ {"open", "fetch"}, Rank(s) < Rank(job.step)
    PROVE  DownloadOK' /\ StepsLeft' \in 0 .. StepsLeft - 1
<1>1. job \in Job
  BY DEF Inv, TypeOK
<1>2. job' \in Job /\ job' # Idle /\ job'.step = s
  BY <1>1, GotoFacts
<1>3. Rank(s) \in 1 .. 6 /\ Rank(job.step) \in 1 .. 6 /\ ChunksLeft \in Nat
  BY <1>1, <1>2, RankIs, StepsAreCounted
<1>4. StepsLeft' = Rank(s)
  BY <1>2, <1>3 DEF StepsLeft, ChunksLeft
<1>5. DownloadOK'
  BY <1>2 DEF DownloadOK, At
<1> QED
  BY <1>3, <1>4, <1>5 DEF StepsLeft

LEMMA LastStep ==
    ASSUME Inv, DownloadOK, job # Idle, job' = Idle
    PROVE  DownloadOK' /\ StepsLeft' \in 0 .. StepsLeft - 1
<1>1. StepsLeft \in Nat /\ StepsLeft > 0
  BY StepsAreCounted
<1>2. StepsLeft' = 0
  BY DEF StepsLeft
<1> QED
  BY <1>1, <1>2 DEF DownloadOK, At

\* The handler is never asked to wait for itself: whichever step it takes, and
\* whatever fails in it, one step fewer is left.
LEMMA HandlerAdvances ==
    ASSUME Inv, DownloadOK, HandlerStep
    PROVE  DownloadOK' /\ StepsLeft' \in 0 .. StepsLeft - 1
<1>1. CASE DownloadOpens
  <2>1. /\ job \in Job /\ job # Idle /\ job.app \in Apps
        /\ job.image \in Images /\ job.step = "open" /\ job.op = "prepare"
    BY <1>1, JobFacts DEF DownloadOpens, At, Inv, JobOK
  <2>2. /\ job'.step = "fetch" /\ job' # Idle /\ job'.op = "prepare"
        /\ job'.app = job.app /\ job'.image = job.image
    BY <1>1, <2>1, GotoFacts DEF DownloadOpens, StepsOf
  <2>3. /\ file'[job.app].image = job.image /\ file'[job.app].len = 0
    BY <1>1, <2>1 DEF DownloadOpens, Inv, TypeOK
  <2>4. ImageSize[job.image] \in Nat
    BY <2>1, SizesAssumption
  <2>5. DownloadOK'
    BY <2>2, <2>3, <2>4 DEF DownloadOK
  <2>6. StepsLeft = 4 + ImageSize[job.image]
    BY <2>1 DEF StepsLeft, ChunksLeft, Rank
  <2>7. StepsLeft' = 3 + (ImageSize[job.image] - 0)
    BY <2>2, <2>3 DEF StepsLeft, ChunksLeft, Rank
  <2> QED
    BY <2>4, <2>5, <2>6, <2>7
<1>2. CASE DownloadFetches
  <2>1. /\ job # Idle /\ job.app \in Apps /\ job.image \in Images
        /\ job.step = "fetch" /\ job.op = "prepare"
        /\ file[job.app] \in Content /\ job' = job
    BY <1>2, JobFacts DEF DownloadFetches, At, Inv, JobOK
  <2>2. /\ file'[job.app].image = file[job.app].image
        /\ file'[job.app].len = file[job.app].len + 1
    BY <1>2, <2>1 DEF DownloadFetches, Inv, TypeOK, Content
  <2>3. ImageSize[job.image] \in Nat /\ file[job.app].len \in Nat
    BY <2>1, SizesAssumption DEF Content
  <2>4. file[job.app].len < ImageSize[job.image]
    BY <1>2 DEF DownloadFetches
  <2>5. DownloadOK'
    BY <2>1, <2>2, <2>3, <2>4 DEF DownloadOK, At
  <2>6. StepsLeft = 3 + (ImageSize[job.image] - file[job.app].len)
    BY <2>1 DEF StepsLeft, ChunksLeft, Rank
  <2>7. StepsLeft' = 3 + (ImageSize[job.image] - (file[job.app].len + 1))
    BY <2>1, <2>2 DEF StepsLeft, ChunksLeft, Rank
  <2> QED
    BY <2>3, <2>4, <2>5, <2>6, <2>7
<1>3. CASE DownloadCompletes
  <2>1. job # Idle /\ Goto("stage") /\ job.op = "prepare" /\ job.step = "fetch"
    BY <1>3 DEF DownloadCompletes, At
  <2> QED
    BY <2>1, LaterStep DEF StepsOf, Rank
<1>4. ASSUME FailThenPersist, job # Idle, job.step # "persist"
      PROVE  DownloadOK' /\ StepsLeft' \in 0 .. StepsLeft - 1
  <2>1. job \in Job
    BY <1>4 DEF Inv, TypeOK
  <2>2. "persist" \in StepsOf(job.op) \ {"open", "fetch"}
    BY <2>1 DEF Job, StepsOf
  <2>3. Rank("persist") < Rank(job.step)
    BY <1>4, <2>1 DEF Job, Rank
  <2> QED
    BY <1>4, <2>2, <2>3, LaterStep DEF FailThenPersist
<1>5. CASE DownloadFails
  BY <1>4, <1>5 DEF DownloadFails
<1>6. CASE PrepareStages
  <2>1. job # Idle /\ Goto("persist") /\ job.op = "prepare" /\ job.step = "stage"
    BY <1>6 DEF PrepareStages, At
  <2> QED
    BY <2>1, LaterStep DEF StepsOf, Rank
<1>7. CASE VerifyChecks
  <2>1. job # Idle /\ Goto("persist") /\ job.op = "verify" /\ job.step = "check"
    BY <1>7 DEF VerifyChecks, At, FailThenPersist
  <2> QED
    BY <2>1, LaterStep DEF StepsOf, Rank
<1>17. CASE ActivateLooks
  <2>1. /\ job # Idle /\ job.op = "activate" /\ job.step = "look"
        /\ Goto("unload") \/ Goto("load")
    BY <1>17 DEF ActivateLooks, At
  <2> QED
    BY <2>1, LaterStep DEF StepsOf, Rank
<1>8. CASE ActivateUnloads
  <2>1. /\ job # Idle /\ job.op = "activate" /\ job.step = "unload"
        /\ Goto("load") \/ FailThenPersist
    BY <1>8 DEF ActivateUnloads, At
  <2> QED
    BY <1>4, <2>1, LaterStep DEF StepsOf, Rank
<1>9. CASE ActivateLoads
  <2>1. /\ job # Idle /\ job.op = "activate" /\ job.step = "load"
        /\ Goto("start") \/ FailThenPersist
    BY <1>9 DEF ActivateLoads, At
  <2> QED
    BY <1>4, <2>1, LaterStep DEF StepsOf, Rank
<1>10. CASE ActivateStarts
  <2>1. /\ job # Idle /\ job.op = "activate" /\ job.step = "start"
        /\ Goto("persist")
    BY <1>10 DEF ActivateStarts, At, FailThenPersist
  <2> QED
    BY <2>1, LaterStep DEF StepsOf, Rank
<1>11. CASE RollbackCheckpoints
  <2>1. /\ job # Idle /\ job.op = "rollback" /\ job.step = "checkpoint"
        /\ Goto("stop") \/ job' = Idle
    BY <1>11 DEF RollbackCheckpoints, At
  <2> QED
    BY <2>1, LaterStep, LastStep DEF StepsOf, Rank
<1>18. CASE RollbackStops
  <2>1. /\ job # Idle /\ job.op = "rollback" /\ job.step = "stop"
        /\ Goto("unload")
    BY <1>18 DEF RollbackStops, At
  <2> QED
    BY <2>1, LaterStep DEF StepsOf, Rank
<1>12. CASE RollbackUnloads
  <2>1. /\ job # Idle /\ job.op = "rollback" /\ job.step = "unload"
        /\ Goto("restore") \/ FailThenPersist
    BY <1>12 DEF RollbackUnloads, At
  <2> QED
    BY <1>4, <2>1, LaterStep DEF StepsOf, Rank
<1>13. CASE RollbackRestores
  <2>1. /\ job # Idle /\ job.op = "rollback" /\ job.step = "restore"
        /\ Goto("restart") \/ Goto("persist")
    BY <1>13 DEF RollbackRestores, At, FailThenPersist
  <2> QED
    BY <2>1, LaterStep DEF StepsOf, Rank
<1>14. CASE RollbackRestarts
  <2>1. /\ job # Idle /\ job.op = "rollback" /\ job.step = "restart"
        /\ Goto("persist")
    BY <1>14 DEF RollbackRestarts, At, FailThenPersist
  <2> QED
    BY <2>1, LaterStep DEF StepsOf, Rank
<1>15. CASE DeleteRemoves
  <2>1. /\ job # Idle /\ job.op = "delete" /\ job.step = "remove"
        /\ Goto("persist") \/ job' = Idle
    BY <1>15 DEF DeleteRemoves, At
  <2> QED
    BY <2>1, LaterStep, LastStep DEF StepsOf, Rank
<1>16. CASE PersistAndReply
  BY <1>16, LastStep DEF PersistAndReply
<1> QED
  BY <1>1, <1>2, <1>3, <1>5, <1>6, <1>7, <1>8, <1>9, <1>10, <1>11, <1>12,
     <1>13, <1>14, <1>15, <1>16, <1>17, <1>18 DEF HandlerStep

\* Nobody else delays a request: the console leaves it alone, a power failure
\* ends it, and no other request is taken up.
LEMMA OthersDoNotDelay ==
    ASSUME Inv, DownloadOK, [Next]_vars, ~HandlerStep
    PROVE  DownloadOK' /\ (job # Idle => StepsLeft' <= StepsLeft)
<1>1. CASE job' = job /\ file' = file
  <2>1. DownloadOK'
    BY <1>1 DEF DownloadOK, At
  <2>2. StepsLeft' = StepsLeft
    BY <1>1 DEF StepsLeft, ChunksLeft
  <2> QED
    BY <2>1, <2>2, StepsAreCounted
<1>2. CASE job' = Idle
  <2>1. StepsLeft \in Nat /\ StepsLeft' = 0
    BY <1>2, StepsAreCounted DEF StepsLeft
  <2> QED
    BY <1>2, <2>1 DEF DownloadOK, At
<1>3. CASE job = Idle /\ job' # Idle /\ job'.step # "fetch"
  BY <1>3 DEF DownloadOK, At
<1>4. ASSUME NEW a \in Apps, Request(a)
      PROVE  job = Idle /\ job' # Idle /\ job'.step # "fetch"
  <2>1. job = Idle
    BY <1>4 DEF Request, Serving, PrepareDownload, PrepareContractInvalid,
                PrepareLocal, VerifyBegins, ActivateBegins, RollbackBegins,
                DeleteBegins
  <2>2. \E op, s, v : /\ Begin(op, a, s, v) /\ s # "fetch"
                      /\ op \in {"prepare", "verify", "activate", "rollback",
                                 "delete"}
                      /\ v \in Images \cup {None}
                      /\ s \in {"open", "persist", "stage", "check", "look",
                                "checkpoint", "remove"}
    BY <1>4 DEF Request, PrepareDownload, PrepareContractInvalid,
                PrepareLocal, VerifyBegins, ActivateBegins, RollbackBegins,
                DeleteBegins
  <2>3. job' \in Job /\ job'.step # "fetch"
    BY <2>2 DEF Begin, Job
  <2> QED
    BY <2>1, <2>3, MarkersAssumption
<1>5. CASE BootFromSeed
  <2>1. job = Idle /\ job'.step = "persist" /\ job' \in Job
    BY <1>5 DEF BootFromSeed, Begin, Job
  <2> QED
    BY <1>3, <2>1, MarkersAssumption
<1>6. CASE BootWithoutSeed
  BY <1>1, <1>6 DEF BootWithoutSeed
<1>7. CASE Crash
  BY <1>2, <1>7 DEF Crash
<1>8. ASSUME NEW a \in Apps,
             \/ ShellLoads(a) \/ ShellStarts(a) \/ ShellUnloads(a)
             \/ \E from, to : ShellMoves(a, from, to)
      PROVE  job' = job /\ file' = file
  BY <1>8 DEF ShellLoads, ShellStarts, ShellUnloads, ShellMoves
<1>9. CASE UNCHANGED vars
  BY <1>1, <1>9 DEF vars
<1> QED
  BY <1>1, <1>3, <1>4, <1>5, <1>6, <1>7, <1>8, <1>9 DEF Next

\* A request takes a bounded number of steps: every step of its handler leaves
\* fewer of them, and nothing the console does or power failing adds one.  With
\* a handler that keeps running this is why every request is answered.
RequestsAdvance ==
    [][ /\ HandlerStep => StepsLeft' < StepsLeft
        /\ job # Idle => StepsLeft' <= StepsLeft ]_vars

\* For every size of the images, every fault and with or without the console:
\* a request in progress has a number of steps left that each step of the
\* handlers in neuro_unit_update_service.c lowers and nothing else raises.
THEOREM RequestsAreBounded ==
    Spec => [](StepsLeft \in Nat) /\ RequestsAdvance
<1>1. Init => DownloadOK
  BY DEF Init, DownloadOK, At
<1>2. ASSUME Inv, DownloadOK, [Next]_vars
      PROVE  /\ DownloadOK'
             /\ HandlerStep => StepsLeft' < StepsLeft
             /\ job # Idle => StepsLeft' <= StepsLeft
  <2>1. CASE HandlerStep
    <3>1. DownloadOK' /\ StepsLeft' \in 0 .. StepsLeft - 1
      BY <1>2, <2>1, HandlerAdvances
    <3>2. StepsLeft \in Nat
      BY <1>2, StepsAreCounted
    <3> QED
      BY <3>1, <3>2
  <2>2. CASE ~HandlerStep
    BY <1>2, <2>2, OthersDoNotDelay
  <2> QED
    BY <2>1, <2>2
<1>3. Inv /\ DownloadOK => StepsLeft \in Nat
  BY StepsAreCounted
<1> QED
  BY <1>1, <1>2, <1>3, ServiceInvariant, PTL DEF Spec, RequestsAdvance

-----------------------------------------------------------------------------
\* The seed store, one file system call at a time.

\* Snapshot numbers: nothing on disk is newer than the last attempt, and a
\* save in progress is newer than anything acknowledged.
Numbered ==
    /\ acked <= seq
    /\ path # NoSeedFile => path.snap <= seq
    /\ tmp # NoSeedFile => tmp.snap <= seq
    /\ legacy # NoSeedFile => legacy.snap <= seq
    /\ (call # NoCall /\ call.op = "save") => call.snap = seq /\ acked < seq

\* From the sync on, the .tmp file holds the snapshot being saved.
Staged ==
    (call # NoCall /\ call.op = "save"
        /\ call.step \in {"close", "rename", "unlink", "rename_again"}) =>
        tmp = [snap |-> call.snap, state |-> "whole"]

\* Saves run after the load of their boot, and nothing else does.
Phases == call # NoCall => (ready <=> call.op = "save")

\* A legacy file is there only until the first load has migrated it.
LegacyFirst ==
    legacy # NoSeedFile =>
        path = NoSeedFile /\ ~ready /\ (call = NoCall \/ InCall("load", "migrate"))

\* The seed is never behind, and between the steps that replace it it is
\* exactly what was acknowledged.
SeedCurrent ==
    /\ path # NoSeedFile => path.snap >= acked
    /\ (ready /\ acked > 0 /\ ~InCall("save", "rename_again")) =>
           path # NoSeedFile /\ path.snap = acked

\* Where there is no seed, another file stands in, and no step that would
\* destroy it can be taken.
StandIn ==
    (path = NoSeedFile /\ acked > 0) =>
        \/ legacy # NoSeedFile /\ legacy.snap >= acked
        \/ /\ legacy = NoSeedFile
           /\ tmp # NoSeedFile /\ tmp.state = "whole" /\ tmp.snap >= acked
           /\ \/ InCall("save", "rename_again")
              \/ ~ready /\ call = NoCall
              \/ InCall("load", "migrate")
              \/ InCall("load", "recover")

SeedIInv ==
    /\ SeedTypeOK
    /\ Numbered
    /\ Staged
    /\ Phases
    /\ LegacyFirst
    /\ SeedCurrent
    /\ StandIn

\* The files and the history of the store start consistent.
LEMMA SeedInitIInv == SeedInit => SeedIInv
<1> SUFFICES ASSUME SeedInit PROVE SeedIInv
  OBVIOUS
<1> DEFINE first == [snap |-> 1, state |-> "whole"]
<1>1. first \in Whole /\ first.snap = 1 /\ first # NoSeedFile
  BY SeedMarkersAssumption DEF Whole, File
<1>2. \/ path = NoSeedFile /\ legacy = NoSeedFile /\ acked = 0
      \/ path = first /\ legacy = NoSeedFile /\ acked = 1
      \/ path = NoSeedFile /\ legacy = first /\ acked = 1
  BY <1>1 DEF SeedInit
<1>3. tmp = NoSeedFile /\ call = NoCall /\ ready = FALSE /\ seq = 1 /\ harmed = FALSE
  BY DEF SeedInit
<1> HIDE DEF first
<1>4. SeedTypeOK
  <2>1. path \in Whole \cup {NoSeedFile} /\ legacy \in Whole \cup {NoSeedFile}
    BY <1>1, <1>2
  <2>2. acked \in Nat /\ seq \in Nat
    BY <1>2, <1>3
  <2>3. QED
    BY <1>3, <2>1, <2>2 DEF SeedTypeOK
<1>5. Numbered /\ Staged /\ Phases /\ LegacyFirst
  BY <1>1, <1>2, <1>3 DEF Numbered, Staged, Phases, LegacyFirst
<1>6. SeedCurrent /\ StandIn
  BY <1>1, <1>2, <1>3 DEF SeedCurrent, StandIn, InCall
<1>7. QED
  BY <1>4, <1>5, <1>6 DEF SeedIInv

\* The steps of a save.
SaveSteps == {"open", "write", "sync", "close", "rename", "unlink",
              "rename_again"}

\* Moving on inside a save or a load changes the step and nothing else.
LEMMA GotoInSave ==
  ASSUME SeedTypeOK, call # NoCall, call.op = "save",
         NEW s \in SaveSteps, NextCall(s)
  PROVE  /\ call' \in Call /\ call' # NoCall
         /\ call'.op = "save" /\ call'.step = s /\ call'.snap = call.snap
<1>1. call \in [op : {"save"}, snap : Nat, step : SaveSteps]
  BY DEF SeedTypeOK, Call, SaveSteps
<1>2. call' \in [op : {"save"}, snap : Nat, step : SaveSteps]
  BY <1>1 DEF NextCall
<1>3. QED
  BY <1>1, <1>2, SeedMarkersAssumption DEF Call, SaveSteps, NextCall

\* The same inside a load.
LEMMA GotoInLoad ==
  ASSUME SeedTypeOK, call # NoCall, call.op = "load",
         NEW s \in {"migrate", "recover", "read"}, NextCall(s)
  PROVE  /\ call' \in Call /\ call' # NoCall
         /\ call'.op = "load" /\ call'.step = s /\ call'.snap = call.snap
<1>1. call \in [op : {"load"}, snap : Nat, step : {"migrate", "recover", "read"}]
  BY DEF SeedTypeOK, Call
<1>2. call' \in [op : {"load"}, snap : Nat, step : {"migrate", "recover", "read"}]
  BY <1>1 DEF NextCall
<1>3. QED
  BY <1>1, <1>2, SeedMarkersAssumption DEF Call, NextCall

\* A file as a save writes it.
LEMMA WrittenFile ==
  ASSUME SeedTypeOK, call # NoCall, NEW s \in {"whole", "torn", "unsynced"}
  PROVE  /\ Written(s) \in File /\ Written(s) # NoSeedFile
         /\ Written(s).snap = call.snap /\ Written(s).state = s
         /\ Written(s) = [snap |-> call.snap, state |-> s]
<1>1. call.snap \in Nat
  BY DEF SeedTypeOK, Call
<1>2. QED
  BY <1>1, SeedMarkersAssumption DEF Written, File

\* A save that fails before the seed is unlinked keeps the invariant.
LEMMA SaveFailsIInv ==
  ASSUME SeedIInv, call # NoCall, call.op = "save", call.step # "rename_again",
         SaveFails, UNCHANGED harmed
  PROVE  SeedIInv'
BY DEF SaveFails, SeedIInv, SeedTypeOK, Numbered, Staged, Phases, LegacyFirst,
       SeedCurrent, StandIn, InCall

\* The rename that completes a save keeps it.
LEMMA TmpReplacesSeedIInv ==
  ASSUME SeedIInv, call # NoCall, call.op = "save",
         call.step \in {"rename", "rename_again"}, TmpReplacesSeed
  PROVE  SeedIInv'
<1>1. tmp = [snap |-> call.snap, state |-> "whole"] /\ call.snap = seq
  BY DEF SeedIInv, Staged, Numbered
<1>2. seq \in Nat /\ acked \in Nat /\ acked < seq /\ ready /\ legacy = NoSeedFile
  BY DEF SeedIInv, SeedTypeOK, Numbered, Phases, LegacyFirst, InCall
<1>3. /\ path' \in Whole /\ path' # NoSeedFile /\ path'.snap = seq
      /\ tmp' = NoSeedFile /\ acked' = seq /\ call' = NoCall
      /\ UNCHANGED <<legacy, ready, seq, harmed>>
  BY <1>1, <1>2, SeedMarkersAssumption DEF TmpReplacesSeed, Whole, File
<1>4. QED
  BY <1>2, <1>3 DEF SeedIInv, SeedTypeOK, Numbered, Staged, Phases, LegacyFirst,
                    SeedCurrent, StandIn, InCall

\* Every step of a save, a load or a power failure keeps the invariant.
LEMMA SeedNextIInv ==
  ASSUME SeedIInv, [SeedNext]_seedvars, harmed' = FALSE
  PROVE  SeedIInv'
<1> USE DEF SeedIInv, SeedTypeOK, Numbered, Staged, Phases, LegacyFirst, SeedCurrent,
            StandIn, InCall, files
<1>1. CASE SaveBegins
  <2>1. call' \in Call /\ call' # NoCall /\ call'.op = "save" /\ call'.snap = seq'
        /\ call'.step = "open"
    BY <1>1, SeedMarkersAssumption DEF SaveBegins, Call
  <2>2. /\ call = NoCall /\ ready /\ legacy = NoSeedFile /\ seq' = seq + 1
        /\ UNCHANGED <<path, tmp, legacy, ready, acked, harmed>>
    BY <1>1 DEF SaveBegins
  <2>3. acked < seq'
    BY <2>2
  <2>4. Numbered'
    BY <2>1, <2>2, <2>3 DEF Whole, File
  <2>5. QED
    BY <2>1, <2>2, <2>4
<1>2. CASE OpenTmp
  <2>1. CASE tmp' = Written("torn") /\ NextCall("write")
    BY <1>2, <2>1, WrittenFile, GotoInSave DEF OpenTmp, SaveSteps
  <2>2. CASE call' = NoCall /\ UNCHANGED tmp
    BY <1>2, <2>2 DEF OpenTmp
  <2>3. QED
    BY <1>2, <2>1, <2>2 DEF OpenTmp
<1>3. CASE WriteTmp
  <2>1. CASE tmp' = Written("unsynced") /\ NextCall("sync")
             /\ UNCHANGED <<path, legacy, ready, acked, seq, harmed>>
    BY <1>3, <2>1, WrittenFile, GotoInSave DEF WriteTmp, SaveSteps
  <2>2. QED
    BY <1>3, <2>1, SaveFailsIInv DEF WriteTmp
<1>4. CASE SyncTmp
  <2>1. CASE tmp' = Written("whole") /\ NextCall("close")
             /\ UNCHANGED <<path, legacy, ready, acked, seq, harmed>>
    BY <1>4, <2>1, WrittenFile, GotoInSave DEF SyncTmp, SaveSteps
  <2>2. QED
    BY <1>4, <2>1, SaveFailsIInv DEF SyncTmp
<1>5. CASE CloseTmp
  <2>1. CASE NextCall("rename") /\ UNCHANGED <<files, ready, acked, seq, harmed>>
    BY <1>5, <2>1, GotoInSave DEF CloseTmp, SaveSteps
  <2>2. QED
    BY <1>5, <2>1, SaveFailsIInv DEF CloseTmp
<1>6. CASE RenameTmp
  <2>1. CASE NextCall("unlink") /\ UNCHANGED <<files, ready, acked, seq, harmed>>
    BY <1>6, <2>1, GotoInSave DEF RenameTmp, SaveSteps
  <2>2. QED
    BY <1>6, <2>1, SaveFailsIInv, TmpReplacesSeedIInv DEF RenameTmp
<1>7. CASE UnlinkSeed
  <2>1. CASE path' = NoSeedFile /\ NextCall("rename_again")
             /\ UNCHANGED <<tmp, legacy, ready, acked, seq, harmed>>
    <3>1. tmp = [snap |-> call.snap, state |-> "whole"] /\ tmp # NoSeedFile
      BY <1>7, SeedMarkersAssumption DEF UnlinkSeed, Call, File
    <3>2. tmp.state = "whole" /\ tmp.snap = call.snap /\ call.snap = seq
      BY <1>7, <3>1 DEF UnlinkSeed
    <3>3. QED
      BY <1>7, <2>1, <3>1, <3>2, GotoInSave DEF UnlinkSeed, SaveSteps
  <2>2. QED
    BY <1>7, <2>1, SaveFailsIInv DEF UnlinkSeed
<1>8. CASE RenameTmpAgain
  BY <1>8, TmpReplacesSeedIInv DEF RenameTmpAgain
<1>9. CASE LoadBegins
  <2>1. call' \in Call /\ call' # NoCall /\ call'.op = "load"
        /\ call'.step = "migrate"
    BY <1>9, SeedMarkersAssumption DEF LoadBegins, Call
  <2>2. QED
    BY <1>9, <2>1 DEF LoadBegins
<1>10. CASE migrate_legacy_seed_if_needed
  <2>1. /\ call # NoCall /\ call.op = "load" /\ call.step = "migrate"
        /\ NextCall("recover") /\ ~ready
        /\ UNCHANGED <<tmp, ready, acked, seq, harmed>>
    BY <1>10 DEF migrate_legacy_seed_if_needed
  <2>2. /\ call' \in Call /\ call' # NoCall /\ call'.op = "load"
        /\ call'.step = "recover"
    BY <2>1, GotoInLoad
  <2>3. CASE path = NoSeedFile /\ legacy # NoSeedFile
    <3>1. path' = legacy /\ legacy' = NoSeedFile
      BY <1>10, <2>3 DEF migrate_legacy_seed_if_needed
    <3>2. legacy \in Whole /\ legacy.snap >= acked /\ legacy.snap <= seq
      BY <2>3 DEF Whole
    <3>3. QED
      BY <2>1, <2>2, <2>3, <3>1, <3>2
  <2>4. CASE path # NoSeedFile \/ legacy = NoSeedFile
    BY <1>10, <2>1, <2>2, <2>4 DEF migrate_legacy_seed_if_needed
  <2>5. QED
    BY <2>3, <2>4
<1>11. CASE recover_tmp_seed_if_needed
  <2>1. CASE path = NoSeedFile /\ tmp # NoSeedFile /\ tmp.state = "whole"
             /\ path' = tmp /\ tmp' = NoSeedFile /\ NextCall("read")
             /\ UNCHANGED <<legacy, ready, acked, seq, harmed>>
    <3>1. tmp \in Whole /\ legacy = NoSeedFile /\ tmp.snap >= acked
      BY <1>11, <2>1 DEF recover_tmp_seed_if_needed, Whole, File
    <3>2. QED
      BY <1>11, <2>1, <3>1, GotoInLoad DEF recover_tmp_seed_if_needed
  <2>2. CASE path = NoSeedFile /\ tmp # NoSeedFile /\ tmp.state # "whole"
             /\ tmp' = NoSeedFile /\ LoadFails
    BY <1>11, <2>2 DEF recover_tmp_seed_if_needed, LoadFails
  <2>3. CASE (path # NoSeedFile \/ tmp = NoSeedFile) /\ NextCall("read")
             /\ UNCHANGED <<files, ready, acked, seq, harmed>>
    BY <1>11, <2>3, GotoInLoad DEF recover_tmp_seed_if_needed
  <2>4. QED
    BY <1>11, <2>1, <2>2, <2>3 DEF recover_tmp_seed_if_needed
<1>12. CASE read_snapshot_file
  <2>1. CASE path # NoSeedFile
    <3>1. /\ acked' = path.snap /\ call' = NoCall /\ ready' = TRUE
          /\ UNCHANGED <<path, tmp, legacy, seq, harmed>>
      BY <1>12, <2>1 DEF read_snapshot_file
    <3>2. path.snap \in Nat /\ legacy = NoSeedFile
      BY <2>1 DEF Whole
    <3>3. QED
      BY <2>1, <3>1, <3>2
  <2>2. CASE path = NoSeedFile
    <3>1. /\ call' = NoCall /\ ready' = TRUE
          /\ UNCHANGED <<path, tmp, legacy, acked, seq, harmed>>
      BY <1>12, <2>2 DEF read_snapshot_file, LoadFails
    <3>2. acked = 0 /\ legacy = NoSeedFile
      BY <1>12, <2>2 DEF read_snapshot_file
    <3>3. QED
      BY <2>2, <3>1, <3>2
  <2>3. QED
    BY <2>1, <2>2
<1>13. CASE PowerFails
  <2>1. CASE tmp # NoSeedFile /\ tmp.state = "unsynced"
    <3>1. PICK t \in {"whole", "torn"} : tmp' = [tmp EXCEPT !.state = t]
      BY <1>13, <2>1 DEF PowerFails
    <3>2. tmp' \in File /\ tmp' # NoSeedFile /\ tmp'.snap = tmp.snap
      BY <2>1, <3>1, SeedMarkersAssumption DEF File
    <3>3. QED
      BY <1>13, <2>1, <3>2 DEF PowerFails
  <2>2. CASE UNCHANGED tmp
    <3>1. InCall("save", "rename_again") =>
             tmp # NoSeedFile /\ tmp.state = "whole" /\ tmp.snap >= acked
      BY SeedMarkersAssumption DEF File, Call
    <3>2. QED
      BY <1>13, <2>2, <3>1 DEF PowerFails
  <2>3. QED
    BY <1>13, <2>1, <2>2 DEF PowerFails
<1>14. CASE UNCHANGED seedvars
  BY <1>14 DEF seedvars
<1>15. QED
  BY <1>1, <1>2, <1>3, <1>4, <1>5, <1>6, <1>7, <1>8, <1>9, <1>10, <1>11,
     <1>12, <1>13, <1>14 DEF SeedNext

\* A harm is never undone, so before the first one there was none.
LEMMA HarmStays ==
  ASSUME harmed \in BOOLEAN, [SeedNext]_seedvars
  PROVE  harmed' \in BOOLEAN /\ (harmed' = FALSE => harmed = FALSE)
<1>1. harmed' = harmed \/ harmed' = TRUE
  BY DEF SeedNext, seedvars, SaveBegins, OpenTmp, WriteTmp, SyncTmp, CloseTmp,
         RenameTmp, UnlinkSeed, RenameTmpAgain, TmpReplacesSeed, LoadBegins,
         migrate_legacy_seed_if_needed, recover_tmp_seed_if_needed,
         read_snapshot_file, PowerFails
<1>2. QED
  BY <1>1

\* What holds until the first harm.
UntilHarmed == harmed \in BOOLEAN /\ (harmed = FALSE => SeedIInv)

\* The store's steps keep the invariant until the first harm.
LEMMA Invariance == SeedSpec => []UntilHarmed
<1>1. SeedInit => UntilHarmed
  BY SeedInitIInv DEF UntilHarmed, SeedInit
<1>2. UntilHarmed /\ [SeedNext]_seedvars => UntilHarmed'
  BY SeedNextIInv, HarmStays DEF UntilHarmed
<1>3. QED
  BY <1>1, <1>2, PTL DEF SeedSpec

\* neuro_recovery_seed_store_save and _load: whenever power fails, the next
\* load finds a whole snapshot that is not older than the last acknowledged
\* one.
THEOREM SeedIsRecoverable == SeedSpec => []Recoverable
<1>1. UntilHarmed => Recoverable
  BY DEF UntilHarmed, SeedIInv, SeedTypeOK, SeedCurrent, StandIn, Recoverable,
         Readable, Survivor, Whole
<1>2. QED
  BY Invariance, <1>1, PTL

\* A failed save leaves the seed at the snapshot last acknowledged.
THEOREM SeedIsSettled == SeedSpec => []SettledIsLastSaved
<1>1. UntilHarmed => SettledIsLastSaved
  BY DEF UntilHarmed, SeedIInv, SeedCurrent, SettledIsLastSaved, InCall
<1>2. QED
  BY Invariance, <1>1, PTL

-----------------------------------------------------------------------------
\* The seed store implements a seed that is saved at one instant.

\* A save before its second rename: what is stored was acknowledged.
LEMMA StoredBefore ==
  ASSUME SeedIInv, ready, ~InCall("save", "rename_again")
  PROVE  Stored = acked
BY DEF SeedIInv, SeedTypeOK, SeedCurrent, Stored, Survivor, Whole

LEMMA SavingIs ==
  ASSUME SeedIInv
  PROVE  /\ call = NoCall \/ call.op = "load" => Saving = 0
         /\ call # NoCall /\ call.op = "save" =>
                Saving = seq /\ acked < seq /\ seq \in Nat /\ acked \in Nat /\ ready
BY DEF SeedIInv, SeedTypeOK, Numbered, Phases, Saving

LEMMA SaveGivesUp ==
  ASSUME SeedIInv, SeedIInv', call # NoCall, call.op = "save", call.step # "rename_again",
         call' = NoCall, UNCHANGED <<ready, acked, seq, harmed>>
  PROVE  Atomic!Fail
<1>1. Stored = acked /\ Saving = seq /\ acked < seq /\ acked \in Nat /\ seq \in Nat /\ ready
  BY StoredBefore, SavingIs DEF InCall
<1>2. Saving' = 0
  BY DEF Saving
<1>3. Stored' = acked'
  BY <1>1 DEF SeedIInv, SeedTypeOK, SeedCurrent, Stored, Survivor, Whole, InCall
<1> QED
  BY <1>1, <1>2, <1>3 DEF Atomic!Fail

\* A step of a save that only works on the .tmp file.
LEMMA SaveGoesOn ==
  ASSUME SeedIInv, SeedIInv', call # NoCall, call.op = "save", call.step # "rename_again",
         NEW step \in {"write", "sync", "close", "rename", "unlink"}, NextCall(step),
         UNCHANGED <<ready, acked, seq, harmed>>
  PROVE  UNCHANGED <<ready, Stored, acked, Saving, harmed>>
<1>1. call \in Call
  BY DEF SeedIInv, SeedTypeOK
<1>2. call' # NoCall /\ call'.op = "save" /\ call'.step = step
  <2>1. call' \in Call \cup {NoCall}
    BY DEF SeedIInv, SeedTypeOK
  <2>2. call'.op = "save" /\ call'.step = step /\ call' = [call EXCEPT !.step = step]
    BY <1>1 DEF NextCall, Call
  <2>3. call' \in Call
    BY <1>1 DEF NextCall, Call
  <2> QED
    BY <2>2, <2>3, SeedMarkersAssumption
<1>3. Stored = acked /\ Saving = seq /\ ready
  BY StoredBefore, SavingIs DEF InCall
<1>4. Saving' = seq'
  BY <1>2 DEF Saving, SeedIInv, Numbered
<1>5. Stored' = acked'
  BY <1>2, <1>3 DEF SeedIInv, SeedTypeOK, SeedCurrent, Stored, Survivor, Whole, InCall
<1> QED
  BY <1>3, <1>4, <1>5

LEMMA SaveSucceeds ==
  ASSUME SeedIInv, SeedIInv', call # NoCall, call.op = "save",
         call.step \in {"rename", "rename_again"}, TmpReplacesSeed
  PROVE  Atomic!Succeed
<1>1. Saving = seq /\ acked < seq /\ acked \in Nat /\ seq \in Nat /\ ready /\ call.snap = seq
  BY SavingIs DEF SeedIInv, Numbered
<1>2. /\ tmp = [snap |-> call.snap, state |-> "whole"]
      /\ path' = tmp /\ acked' = seq /\ call' = NoCall /\ UNCHANGED <<ready, harmed>>
  BY <1>1 DEF TmpReplacesSeed, SeedIInv, Staged
<1>3. tmp \in Whole /\ path' # NoSeedFile /\ path'.snap = seq
  BY <1>1, <1>2, SeedMarkersAssumption DEF Whole, File
<1>4. Saving' = 0 /\ Stored' = seq
  BY <1>1, <1>2, <1>3 DEF Saving, Stored, Survivor
<1> QED
  BY <1>1, <1>2, <1>4 DEF Atomic!Succeed

\* The one instant of a save whose file system does not replace files.
LEMMA UnlinkReplaces ==
  ASSUME SeedIInv, SeedIInv', UnlinkSeed, path' = NoSeedFile, NextCall("rename_again"),
         UNCHANGED <<tmp, legacy, ready, acked, seq, harmed>>
  PROVE  Atomic!Replace \/ UNCHANGED <<ready, Stored, acked, Saving, harmed>>
<1>1. call # NoCall /\ call.op = "save" /\ call.step = "unlink" /\ call \in Call
  BY DEF UnlinkSeed, InCall, SeedIInv, SeedTypeOK
<1>2. Saving = seq /\ acked < seq /\ acked \in Nat /\ seq \in Nat /\ ready /\ Stored = acked
  BY <1>1, SavingIs, StoredBefore DEF InCall
<1>3. tmp = [snap |-> seq, state |-> "whole"] /\ legacy = NoSeedFile
  BY <1>1, <1>2 DEF SeedIInv, Staged, Numbered, LegacyFirst
<1>4. call' # NoCall /\ call'.op = "save"
  <2>1. call' \in Call /\ call'.op = "save"
    BY <1>1 DEF NextCall, Call
  <2> QED
    BY <2>1, SeedMarkersAssumption
<1>5. Saving' = seq
  BY <1>4 DEF Saving, SeedIInv, Numbered
<1>6. Stored' = IF acked = 0 THEN 0 ELSE seq
  BY <1>3 DEF Stored, Survivor
<1> QED
  BY <1>2, <1>5, <1>6 DEF Atomic!Replace

\* Power takes the save with it and leaves what is stored.
LEMMA PowerLeaves ==
  ASSUME SeedIInv, PowerFails
  PROVE  Atomic!PowerFails
<1>1. tmp = NoSeedFile => tmp' = tmp
  BY DEF PowerFails
<1>2. tmp # NoSeedFile => tmp'.snap = tmp.snap
  BY DEF PowerFails, SeedIInv, SeedTypeOK, File
<1>3. Stored' = Stored
  BY <1>1, <1>2 DEF Stored, Survivor, PowerFails
<1> QED
  BY <1>3 DEF Atomic!PowerFails, PowerFails, Saving

\* A load moves files until it has read one; then the boot is over.
LEMMA LoadBoots ==
  ASSUME SeedIInv, SeedIInv', harmed' = FALSE, harmed = FALSE,
         \/ migrate_legacy_seed_if_needed \/ recover_tmp_seed_if_needed
         \/ read_snapshot_file
  PROVE  Atomic!Boot \/ UNCHANGED <<ready, Stored, acked, Saving, harmed>>
<1>1. call # NoCall /\ call.op = "load" /\ call \in Call /\ ready = FALSE
  BY DEF migrate_legacy_seed_if_needed, recover_tmp_seed_if_needed, read_snapshot_file,
         InCall, SeedIInv, SeedTypeOK, Phases
<1>2. Saving = 0
  BY <1>1, SavingIs
<1>3. ASSUME NEW step \in {"recover", "read"}, NextCall(step) PROVE Saving' = 0
  <2>1. call'.op = "load"
    BY <1>1, <1>3 DEF NextCall, Call
  <2> QED
    BY <2>1 DEF Saving
<1>4. CASE migrate_legacy_seed_if_needed
  <2>1. NextCall("recover") /\ UNCHANGED <<tmp, ready, acked, harmed>>
        /\ \/ /\ path = NoSeedFile /\ legacy # NoSeedFile
              /\ path' = legacy /\ legacy' = NoSeedFile
           \/ UNCHANGED <<path, legacy>>
    BY <1>4 DEF migrate_legacy_seed_if_needed, files
  <2>2. Stored' = Stored
    BY <2>1 DEF Stored, Survivor
  <2> QED
    BY <1>2, <1>3, <2>1, <2>2
<1>5. CASE recover_tmp_seed_if_needed
  <2>1. legacy = NoSeedFile /\ UNCHANGED legacy
    BY <1>5 DEF recover_tmp_seed_if_needed, LoadFails, files, InCall, SeedIInv, LegacyFirst
  <2>2. CASE NextCall("read") /\ UNCHANGED <<ready, acked, harmed>>
             /\ \/ /\ path = NoSeedFile /\ tmp # NoSeedFile
                   /\ path' = tmp /\ tmp' = NoSeedFile
                \/ UNCHANGED <<path, tmp>>
    <3>1. Stored' = Stored
      BY <2>1, <2>2 DEF Stored, Survivor
    <3> QED
      BY <1>2, <1>3, <2>2, <3>1
  <2>3. CASE /\ path = NoSeedFile /\ tmp # NoSeedFile /\ tmp.state # "whole"
             /\ tmp' = NoSeedFile /\ LoadFails
    <3>1. acked = 0
      BY <2>1, <2>3 DEF SeedIInv, SeedTypeOK, StandIn
    <3>2. acked' = 0 /\ call' = NoCall /\ ready' = TRUE
      BY <2>3, <3>1 DEF LoadFails
    <3> QED
      BY <1>1, <1>2, <3>1, <3>2 DEF Atomic!Boot, Stored, Saving
  <2> QED
    BY <1>5, <2>2, <2>3 DEF recover_tmp_seed_if_needed, files
<1>6. CASE read_snapshot_file
  <2>1. call' = NoCall /\ ready' = TRUE /\ UNCHANGED <<path, legacy>>
    BY <1>6 DEF read_snapshot_file, LoadFails, files
  <2>2. Saving' = 0
    BY <2>1 DEF Saving
  <2>3. CASE path # NoSeedFile
    <3>1. acked' = path.snap /\ path.snap \in Nat
      BY <1>6, <2>3 DEF read_snapshot_file, SeedIInv, SeedTypeOK, Whole
    <3>2. Stored' = path.snap /\ (acked # 0 => Stored = path.snap)
      BY <2>1, <2>3, <3>1 DEF Stored, Survivor
    <3>3. acked = 0 => Stored = 0
      BY DEF Stored
    <3> QED
      BY <1>1, <1>2, <2>1, <2>2, <3>1, <3>2, <3>3 DEF Atomic!Boot
  <2>4. CASE path = NoSeedFile
    <3>1. acked = 0
      BY <1>6, <2>4 DEF read_snapshot_file, InCall, SeedIInv, SeedTypeOK, StandIn, LegacyFirst
    <3>2. acked' = 0
      BY <1>6, <2>4, <3>1 DEF read_snapshot_file, LoadFails
    <3> QED
      BY <1>1, <1>2, <2>1, <2>2, <3>1, <3>2 DEF Atomic!Boot, Stored
  <2> QED
    BY <2>3, <2>4
<1> QED
  BY <1>4, <1>5, <1>6

\* Every step of the store is a step of the atomic seed, or none.
LEMMA StoreSteps ==
  ASSUME SeedIInv, SeedIInv', harmed = FALSE, harmed' = FALSE, [SeedNext]_seedvars
  PROVE  \/ Atomic!Begin \/ Atomic!Replace \/ Atomic!Succeed \/ Atomic!Fail
         \/ Atomic!PowerFails \/ Atomic!Boot
         \/ UNCHANGED <<ready, Stored, acked, Saving, harmed>>
<1>1. CASE SaveBegins
  <2>1. /\ call = NoCall /\ ready /\ seq' = seq + 1 /\ UNCHANGED <<ready, acked, harmed>>
        /\ UNCHANGED <<path, tmp, legacy>>
        /\ call' = [op |-> "save", step |-> "open", snap |-> seq + 1]
    BY <1>1 DEF SaveBegins, files
  <2>2. acked \in Nat /\ seq \in Nat /\ acked <= seq
    BY DEF SeedIInv, SeedTypeOK, Numbered
  <2>3. Stored = acked /\ Stored' = Stored /\ Saving = 0
    BY <2>1, StoredBefore, SavingIs DEF InCall, Stored, Survivor
  <2>4. Saving' = seq + 1
    <3>1. call' \in Call
      BY <2>1, <2>2 DEF Call
    <3> QED
      BY <2>1, <3>1, SeedMarkersAssumption DEF Saving
  <2> QED
    BY <2>1, <2>2, <2>3, <2>4 DEF Atomic!Begin
<1>2. CASE OpenTmp
  <2>1. /\ call # NoCall /\ call.op = "save" /\ call.step = "open"
        /\ UNCHANGED <<ready, acked, seq, harmed>>
        /\ NextCall("write") \/ call' = NoCall
    BY <1>2 DEF OpenTmp, InCall
  <2> QED
    BY <2>1, SaveGoesOn, SaveGivesUp
<1>3. CASE WriteTmp
  <2>1. /\ call # NoCall /\ call.op = "save" /\ call.step = "write"
        /\ UNCHANGED <<ready, acked, seq, harmed>>
        /\ NextCall("sync") \/ call' = NoCall
    BY <1>3 DEF WriteTmp, InCall, SaveFails
  <2> QED
    BY <2>1, SaveGoesOn, SaveGivesUp
<1>4. CASE SyncTmp
  <2>1. /\ call # NoCall /\ call.op = "save" /\ call.step = "sync"
        /\ UNCHANGED <<ready, acked, seq, harmed>>
        /\ NextCall("close") \/ call' = NoCall
    BY <1>4 DEF SyncTmp, InCall, SaveFails
  <2> QED
    BY <2>1, SaveGoesOn, SaveGivesUp
<1>5. CASE CloseTmp
  <2>1. /\ call # NoCall /\ call.op = "save" /\ call.step = "close"
        /\ UNCHANGED <<ready, acked, seq, harmed>>
        /\ NextCall("rename") \/ call' = NoCall
    BY <1>5 DEF CloseTmp, InCall, SaveFails
  <2> QED
    BY <2>1, SaveGoesOn, SaveGivesUp
<1>6. CASE RenameTmp
  <2>1. /\ call # NoCall /\ call.op = "save" /\ call.step = "rename"
        /\ \/ TmpReplacesSeed
           \/ /\ UNCHANGED <<ready, acked, seq, harmed>>
              /\ NextCall("unlink") \/ call' = NoCall
    BY <1>6 DEF RenameTmp, InCall, SaveFails
  <2> QED
    BY <2>1, SaveGoesOn, SaveGivesUp, SaveSucceeds
<1>7. CASE UnlinkSeed
  <2>1. call # NoCall /\ call.op = "save" /\ call.step = "unlink"
    BY <1>7 DEF UnlinkSeed, InCall
  <2>2. \/ /\ path' = NoSeedFile /\ NextCall("rename_again")
           /\ UNCHANGED <<tmp, legacy, ready, acked, seq, harmed>>
        \/ call' = NoCall /\ UNCHANGED <<ready, acked, seq, harmed>>
    BY <1>7 DEF UnlinkSeed, SaveFails
  <2> QED
    BY <1>7, <2>1, <2>2, UnlinkReplaces, SaveGivesUp
<1>8. CASE RenameTmpAgain
  BY <1>8, SaveSucceeds DEF RenameTmpAgain, InCall
<1>9. CASE LoadBegins
  <2>1. /\ call = NoCall /\ call'.op = "load" /\ UNCHANGED <<ready, acked, harmed>>
        /\ UNCHANGED <<path, tmp, legacy>>
    BY <1>9 DEF LoadBegins, files
  <2> QED
    BY <2>1 DEF Saving, Stored, Survivor
<1>10. CASE migrate_legacy_seed_if_needed \/ recover_tmp_seed_if_needed
            \/ read_snapshot_file
  BY <1>10, LoadBoots, Zenon
<1>11. CASE PowerFails
  BY <1>11, PowerLeaves
<1>12. CASE UNCHANGED seedvars
  BY <1>12 DEF seedvars, files, Stored, Survivor, Saving
<1> QED
  BY <1>1, <1>2, <1>3, <1>4, <1>5, <1>6, <1>7, <1>8, <1>9, <1>10, <1>11, <1>12
     DEF SeedNext

\* neuro_recovery_seed_store_save and _load implement a seed that a save
\* replaces at one instant or leaves, whichever file system calls fail and
\* whenever power does, until a second rename or a load has failed.
THEOREM SavesAreAtomic == SeedSpec => ImplementsAtomicSeed
<1>1. SeedInit => Atomic!Init
  BY SeedMarkersAssumption DEF SeedInit, Atomic!Init, Stored, Saving, Survivor, File
<1>2. UntilHarmed /\ UntilHarmed' /\ [SeedNext]_seedvars =>
          [Atomic!Next]_(Atomic!atomicVars)
  <2>1. SUFFICES ASSUME UntilHarmed, UntilHarmed', [SeedNext]_seedvars
                 PROVE  [Atomic!Next]_(Atomic!atomicVars)
    OBVIOUS
  <2>2. CASE harmed'
    BY <2>2 DEF Atomic!Next
  <2>3. CASE ~harmed'
    <3>1. harmed = FALSE /\ harmed' = FALSE /\ SeedIInv /\ SeedIInv'
      BY <2>1, <2>3, HarmStays DEF UntilHarmed
    <3>2. \/ Atomic!Begin \/ Atomic!Replace \/ Atomic!Succeed \/ Atomic!Fail
          \/ Atomic!PowerFails \/ Atomic!Boot
          \/ UNCHANGED <<ready, Stored, acked, Saving, harmed>>
      BY <2>1, <3>1, StoreSteps, Zenon
    <3> QED
      BY <3>1, <3>2 DEF Atomic!Next, Atomic!atomicVars
  <2> QED
    BY <2>2, <2>3
<1> QED
  BY <1>1, <1>2, Invariance, PTL DEF SeedSpec, ImplementsAtomicSeed, Atomic!Spec
=============================================================================
