------------------------------- MODULE Deploy -------------------------------
(***************************************************************************)
(* Deploy orchestration of the Core: the commands                          *)
(* app-deploy-prepare-verify, app-deploy-activate and app-deploy-rollback. *)
(* Each command is a process that walks through the steps of a plan; every *)
(* step is one run of neuro_cli, which sends one request to the Unit and   *)
(* repeats it while no reply comes.  The Unit is a record changed by its   *)
(* request handlers; several processes, of one agent or of several, work   *)
(* on the same application.                                                *)
(*                                                                         *)
(* A request that got no reply may have been carried out, may have been    *)
(* lost, or may still be on its way ("late").  The activation lease id is  *)
(* computed from the application id, so every process asks for the same.   *)
(***************************************************************************)
EXTENDS Naturals, Sequences, FiniteSets

Commands == {"prepare_verify", "activate", "rollback"}

CONSTANTS
    Procs,          \* processes, each of which runs one command
    Agents,         \* source agents of the requests
    AgentOf,        \* the agent of each process
    Operators,      \* agents whose operators take the rollback lease
    MayRun,         \* the commands each process may run
    MaxAttempts,    \* query_retries of neuro_cli
    MaxLate,        \* bound on requests that are on their way
    LateOps,        \* the requests that may be late
    UnitFails,      \* TRUE: downloads, checks, loads and starts may fail
    None, Other, Idle, Done

ASSUME ProcsAssumption == IsFiniteSet(Procs) /\ AgentOf \in [Procs -> Agents]
ASSUME OperatorsAssumption == Operators \subseteq Agents
ASSUME BoundsAssumption == MaxAttempts \in Nat \ {0} /\ MaxLate \in Nat
ASSUME LateAssumption ==
    LateOps \subseteq {"acquire", "prepare", "verify", "activate", "release",
                       "rollback"}
ASSUME SwitchAssumption == UnitFails \in BOOLEAN
ASSUME MayRunAssumption == MayRun \in [Procs -> SUBSET Commands]

VARIABLES
    job,        \* what each process is doing
    unit,       \* the Unit
    late        \* requests given up that the Unit may still receive
vars == <<job, unit, late>>

Query == {"preflight", "acquire", "prepare", "verify", "activate", "health",
          "observe", "apps", "release", "leases", "resolve", "rollback"}
\* The last three fields are history: a reply about the lease was missed,
\* another command of the agent overlapped, and some command, while this one
\* ran, lost its lease or shared it.
Job == [cmd : Commands, step : Query \cup {"answer"},
        tries : 0..(MaxAttempts - 1),   \* attempts of this query without reply
        failed : BOOLEAN,               \* failure_status is set
        deaf : BOOLEAN, shared : BOOLEAN, lapsed : BOOLEAN]
Unit == [act : Agents \cup {None},      \* holder of update/app/<id>/activate
         rb : Agents \cup {None},       \* holder of update/app/<id>/rollback
         state : {"NONE", "PREPARED", "VERIFIED", "ACTIVE", "FAILED",
                  "ROLLED_BACK"},
         staged : Procs \cup {None, Other},  \* whose admitted artifact
         stable : BOOLEAN,
         app : {"absent", "loaded", "running"}]
Request == [op : LateOps, proc : Procs]

ASSUME MarkersAssumption ==
    None \notin Agents /\ {None, Other} \cap Procs = {} /\ None # Other
    /\ {Idle, Done} \cap Job = {} /\ Idle # Done

TypeOK ==
    /\ job \in [Procs -> Job \cup {Idle, Done}]
    /\ unit \in Unit
    /\ late \subseteq Request /\ Cardinality(late) <= MaxLate

Init ==
    /\ job = [p \in Procs |-> Idle]
    /\ unit = [act |-> None, rb |-> None, state |-> "NONE", staged |-> None,
               stable |-> FALSE, app |-> "absent"]
    /\ late = {}

-----------------------------------------------------------------------------
\* The Unit's handlers.  Each gives the set of outcomes [unit, ok].

Outcome(u, ok) == [unit |-> u, ok |-> ok]
May(outcomes) == IF UnitFails THEN outcomes ELSE {}

\* handle_lease_acquire for the activation lease: the same holder with the
\* same lease id renews it; all clients send the default priority.
lease_acquire(u, a) ==
    IF u.act \in {None, a} THEN {Outcome([u EXCEPT !.act = a], TRUE)}
    ELSE {Outcome(u, FALSE)}

\* handle_lease_release: an unknown lease and one of another holder are both
\* error replies.
lease_release(u, a) ==
    IF u.act = a THEN {Outcome([u EXCEPT !.act = None], TRUE)}
    ELSE {Outcome(u, FALSE)}

\* handle_update_prepare, which needs no lease.  The artifact is fetched from
\* the neuro_cli process, so a late request finds none.
update_prepare(u, image) ==
    LET failed == Outcome([u EXCEPT !.state = "FAILED"], FALSE)
    IN  IF image = None THEN {failed}
        ELSE {Outcome([u EXCEPT !.state = "PREPARED", !.staged = image], TRUE)}
             \cup May({failed})

\* handle_update_verify, which needs none either.
update_verify(u) ==
    IF u.state # "PREPARED" THEN {Outcome(u, FALSE)}
    ELSE {Outcome([u EXCEPT !.state = "VERIFIED"], TRUE)}
         \cup May({Outcome([u EXCEPT !.state = "FAILED"], FALSE)})

\* handle_update_activate, for the holder of the lease.
update_activate(u, a) ==
    IF u.act # a \/ u.state # "VERIFIED" THEN {Outcome(u, FALSE)}
    ELSE {Outcome([u EXCEPT !.state = "ACTIVE", !.stable = TRUE,
                            !.app = "running"], TRUE)}
         \cup May({Outcome([u EXCEPT !.state = "FAILED", !.app = "loaded"],
                           FALSE)})

\* handle_update_rollback, for the holder of the lease: with a stable
\* reference the app is started again, without one it stays unloaded.
update_rollback(u, a) ==
    IF u.rb # a \/ u.state \notin {"ACTIVE", "FAILED"} THEN {Outcome(u, FALSE)}
    ELSE IF u.app = "absent"
    THEN {Outcome([u EXCEPT !.state = "FAILED"], FALSE)}
    ELSE {Outcome([u EXCEPT !.state = "ROLLED_BACK",
                            !.app = IF u.stable THEN "running" ELSE "absent"],
                  TRUE)}
         \cup May({Outcome([u EXCEPT !.state = "FAILED", !.app = "absent"],
                           FALSE)})

\* What the Unit may do with a request.  Queries change nothing.
Handle(u, op, p, image) ==
    CASE op = "acquire"  -> lease_acquire(u, AgentOf[p])
      [] op = "release"  -> lease_release(u, AgentOf[p])
      [] op = "prepare"  -> update_prepare(u, image)
      [] op = "verify"   -> update_verify(u)
      [] op = "activate" -> update_activate(u, AgentOf[p])
      [] op = "rollback" -> update_rollback(u, AgentOf[p])
      [] OTHER           -> {Outcome(u, TRUE)}

-----------------------------------------------------------------------------
\* Admission and plan.

Busy == {p \in Procs : job[p] \notin {Idle, Done}}
Querying(p) == p \in Busy /\ job[p].step \in Query

\* build_app_deploy_plan gives the argument vectors of all steps; each command
\* walks through its own part of them.
VerifyPlan == <<"preflight", "acquire", "prepare", "verify">>
CleanupPlan == <<"release", "leases">>
RollbackPlan == <<"resolve", "rollback", "apps", "leases">>
Plan ==
    [prepare_verify |-> VerifyPlan \o CleanupPlan,
     activate |-> VerifyPlan \o <<"activate", "health", "apps">> \o CleanupPlan,
     rollback |-> RollbackPlan]

\* A command that is not approved records its decision and does nothing else.
FirstStep(c, approved) ==
    IF c = "prepare_verify" \/ approved THEN Head(Plan[c]) ELSE "answer"

\* What a process remembers when commands of an agent share its lease, or a
\* lease is lost: every command that runs may meet what those still do.
Upset(p, sharers, lost) ==
    IF p \notin Busy THEN job[p]
    ELSE [job[p] EXCEPT !.shared = @ \/ p \in sharers,
                        !.lapsed = @ \/ lost \/ sharers # {}]

\* The artifact file is admitted.
Begin(p, c, approved) ==
    LET same == {q \in Busy : AgentOf[q] = AgentOf[p]}
        new == [cmd |-> c, step |-> FirstStep(c, approved), tries |-> 0,
                failed |-> c # "prepare_verify" /\ ~approved, deaf |-> FALSE,
                shared |-> same # {},
                lapsed |-> same # {} \/ \E q \in Busy : job[q].lapsed]
    IN  /\ job[p] = Idle
        /\ job' = [q \in Procs |-> IF q = p THEN new ELSE Upset(q, same, FALSE)]
        /\ UNCHANGED <<unit, late>>

\* build_app_artifact_admission refuses the file: the command ends before its
\* first step and records nothing.
NotAdmitted(p) ==
    /\ job[p] = Idle
    /\ job' = [job EXCEPT ![p] = Done]
    /\ UNCHANGED <<unit, late>>

-----------------------------------------------------------------------------
\* run_app_deploy_prepare_verify, run_app_deploy_activate and
\* run_app_deploy_rollback.

AfterGood(j) ==
    LET plan == Plan[j.cmd]
        i == CHOOSE n \in DOMAIN plan : plan[n] = j.step
    IN  IF i = Len(plan) THEN "answer" ELSE plan[i + 1]

\* A failed rollback is not followed by observations.
AfterBadRollback(step) == IF step = "apps" THEN "leases" ELSE "answer"

\* Mutant: a failed activation is not followed by the release of the lease.
AfterBadDeploy_Mutant(step) ==
    CASE step \in {"prepare", "verify", "apps", "observe"} -> "release"
      [] step = "health"  -> "observe"
      [] step = "release" -> "leases"
      [] OTHER            -> "answer"

\* Mutant: the command goes on although the lease was not given.
AfterBadDeploy_Ungated(step) ==
    CASE step = "acquire" -> "prepare"
      [] step \in {"prepare", "verify", "activate", "apps", "observe"} -> "release"
      [] step = "health"  -> "observe"
      [] step = "release" -> "leases"
      [] OTHER            -> "answer"

\* Once the lease is acquired every failure leads to its release; a failed
\* health guard first looks at the leases for its recovery summary.
AfterBadDeploy(step) ==
    CASE step \in {"prepare", "verify", "activate", "apps", "observe"} -> "release"
      [] step = "health"  -> "observe"
      [] step = "release" -> "leases"
      [] OTHER            -> "answer"

AfterBad(j) == IF j.cmd = "rollback" THEN AfterBadRollback(j.step)
               ELSE AfterBadDeploy(j.step)

\* What the Core makes of a reply: the Unit's verdict, and for the queries
\* what they show.  A deployment wants the app running and no lease left on
\* the Unit, a rollback the app stopped and none left on its own resource.
Healthy(u) == u.app = "running"
AppAsWanted(j, u) == (u.app = "running") = (j.cmd = "activate")
LeasesAsWanted(j, u) == u.rb = None /\ (j.cmd = "rollback" \/ u.act = None)
LeaseResolved(u) == u.rb # None

Satisfies(j, u, ok) ==
    CASE j.step = "health"  -> Healthy(u)
      [] j.step = "observe" -> FALSE
      [] j.step = "apps"    -> AppAsWanted(j, u)
      [] j.step = "leases"  -> LeasesAsWanted(j, u)
      [] j.step = "resolve" -> LeaseResolved(u)
      [] OTHER              -> ok

AboutLease(p) == job[p].step \in {"acquire", "release"}

\* The first step that failed decides the answer.
Advance(p, good, heard) ==
    LET j == job[p]
    IN  job' = [job EXCEPT ![p] =
            [j EXCEPT !.step = IF good THEN AfterGood(j) ELSE AfterBad(j),
                      !.tries = 0,
                      !.failed = @ \/ ~good,
                      !.deaf = @ \/ (~heard /\ AboutLease(p))]]

-----------------------------------------------------------------------------
\* One attempt of a query of neuro_cli (collect_query_result_with_retry).

\* neuro_cli reads the artifact file again when it prepares: a build may have
\* replaced what the Core admitted.
Sends(p) ==
    UNION {Handle(unit, job[p].step, p, image) :
              image \in IF job[p].step = "prepare" THEN {p, Other} ELSE {None}}

\* A reply comes and can be read.
Replied(p) ==
    /\ Querying(p)
    /\ \E o \in Sends(p) :
          /\ unit' = o.unit
          /\ Advance(p, Satisfies(job[p], o.unit, o.ok), TRUE)
    /\ UNCHANGED late

\* The device or its network is not ready, a script or a local call fails, a
\* reply cannot be read: the step fails whatever the Unit did, and is not
\* repeated.
Unusable(p) ==
    /\ Querying(p)
    /\ \E o \in Sends(p) : unit' = o.unit
    /\ Advance(p, FALSE, FALSE)
    /\ UNCHANGED late

Unanswered(p) ==
    /\ Querying(p)
    /\ \/ UNCHANGED <<unit, late>>
       \/ (\E o \in Sends(p) : unit' = o.unit) /\ UNCHANGED late
       \/ /\ job[p].step \in LateOps /\ Cardinality(late) < MaxLate
          /\ late' = late \cup {[op |-> job[p].step, proc |-> p]}
          /\ UNCHANGED unit

\* Mutant: attempts are not counted.
NoReply_Mutant(p) ==
    Unanswered(p) /\ job' = [job EXCEPT ![p].deaf = TRUE]

\* No reply within the timeout: the request is lost, or carried out, or late.
\* It is sent again, at most MaxAttempts times in all.
NoReply(p) ==
    /\ Unanswered(p)
    /\ IF job[p].tries + 1 < MaxAttempts
       THEN job' = [job EXCEPT ![p].tries = @ + 1, ![p].deaf = @ \/ AboutLease(p)]
       ELSE Advance(p, FALSE, FALSE)

\* The process timeout of neuro_cli ends, the tool manifest the health guard
\* needs is not to be had, or the guard's query fails and leaves its result
\* unbound: the exception passes through the command, which neither cleans up
\* nor records anything.
Raises(p) ==
    /\ Querying(p)
    /\ \/ UNCHANGED unit
       \/ \E o \in Sends(p) : unit' = o.unit
    /\ job' = [job EXCEPT ![p] = Done]
    /\ UNCHANGED late

\* _persist_release_gate_command_result, for the commands that have it, and
\* the answer.
Answer(p) ==
    /\ p \in Busy /\ job[p].step = "answer"
    /\ job' = [job EXCEPT ![p] = Done]
    /\ UNCHANGED <<unit, late>>

-----------------------------------------------------------------------------
\* A request that comes late, or the clock, changes the Unit; a lease may go
\* while a command of its holder is at work.
Lapse(u, sharers) ==
    LET lost == \E p \in Busy : unit.act = AgentOf[p] /\ u.act # unit.act
    IN  /\ unit' = u
        /\ job' = [p \in Procs |-> Upset(p, sharers, lost)]

\* The Unit receives a request whose sender has given up.
UnitReceivesLate ==
    \E r \in late :
        LET sharers == {p \in Busy \ {r.proc} : AgentOf[p] = AgentOf[r.proc]}
        IN  /\ \E o \in Handle(unit, r.op, r.proc, None) : Lapse(o.unit, sharers)
            /\ late' = late \ {r}

\* A lease runs out.
LeaseExpires ==
    /\ unit.act # None
    /\ Lapse([unit EXCEPT !.act = None], {})
    /\ UNCHANGED late

\* An operator takes or returns the rollback lease.
OperatorLeases(a) ==
    /\ unit.rb # a /\ (unit.rb = None \/ a = None)
    /\ unit' = [unit EXCEPT !.rb = a]
    /\ UNCHANGED <<job, late>>

Work(p) == Replied(p) \/ Unusable(p) \/ NoReply(p) \/ Raises(p) \/ Answer(p)

Next ==
    \/ \E p \in Procs :
          \/ Work(p) \/ NotAdmitted(p)
          \/ \E c \in MayRun[p], approved \in BOOLEAN : Begin(p, c, approved)
    \/ UnitReceivesLate \/ LeaseExpires
    \/ \E a \in Operators \cup {None} : OperatorLeases(a)

Spec == Init /\ [][Next]_vars
FairSpec == Spec /\ \A p \in Procs : WF_vars(Work(p))

-----------------------------------------------------------------------------
\* What a process activates is its own artifact (the one it admitted, or what
\* a build has put in its place), unless some process has outlived or shared
\* its lease: app-deploy-activate relies on the lease to keep others from staging
\* another artifact between its steps, although prepare and verify need none,
\* and although requests given up arrive late.
ActivatesAdmitted ==
    [][\A p \in Busy :
         (/\ job[p].step = "activate" /\ job'[p] # job[p]
          /\ unit.state = "VERIFIED" /\ unit'.state = "ACTIVE"
          /\ ~job[p].lapsed)
         => unit.staged \in {p, Other}]_vars

\* A command that has asked for the activation lease and comes to its answer
\* has given it back, whichever step failed, unless a reply to its acquire or
\* release was missed, or a process of the same agent shared the lease; and one
\* that is about to answer ok always has.  (An earlier command may have left the
\* agent a lease; one that fails in its preflight has not touched it.)
LeaseGivenBack ==
    [][\A p \in Busy :
         (/\ job'[p] # job[p] /\ job'[p] # Done /\ job'[p].step = "answer"
          /\ job[p].cmd # "rollback" /\ job[p].step \notin {"preflight", "answer"}
          /\ ~job'[p].shared
          /\ (job'[p].failed => ~job'[p].deaf))
         => unit'.act # AgentOf[p]]_vars

\* Every command ends: retries are bounded and no step waits for another
\* process (app-deploy-* has no loop of its own).
CommandsEnd == Busy # {} ~> Busy = {}
=============================================================================
