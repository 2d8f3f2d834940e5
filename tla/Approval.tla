------------------------------ MODULE Approval ------------------------------
(***************************************************************************)
(* Approval-gated tools of the Core: the tool stage of a workflow run      *)
(* (NoModelCoreWorkflow.run), which leaves a pending request in the        *)
(* database for a tool that needs an operator, and the decision on it      *)
(* (apply_approval_decision), which gates on the Unit's leases, runs the   *)
(* tool through neuro_cli and records what it did.                         *)
(*                                                                         *)
(* Every decision is a process of its own (the approval-decision and       *)
(* social-approval-decision commands) on one SQLite file.  Each            *)
(* persist_... call commits by itself, so other processes see the database *)
(* between any two of them.  The rows of execution_spans, which bracket    *)
(* the tool result and the audit record, say nothing more and are left     *)
(* out.                                                                    *)
(***************************************************************************)
EXTENDS Naturals, FiniteSets

CONSTANTS
    Requests,       \* approval request ids
    Operators,      \* processes deciding on them
    Contracts,      \* contracts of the tools a plan may ask for
    LeaseIds,       \* ids of leases of the Unit
    Unreliable,     \* TRUE: replies get lost and calls time out
    Crashes,        \* TRUE: a deciding process may be killed
    MaxTries,       \* bound on the decisions begun on a request
    NoRequest, NoLease, Idle

Level == {"observe_only", "read_only", "suggest_only", "low_risk_execute",
          "approval_required", "destructive"}
Resource == {"app_control", "update_rollback"}
\* A tool is one command to the Unit, or two (restart: stop, then start), all
\* under a lease of one resource.
Contract == [level : Level, approval_required : BOOLEAN,
             resource : Resource, commands : {1, 2}]
Status == {"pending", "approved", "denied", "expired"}
Decision == {"approve", "deny", "expire"}

ASSUME ContractsAssumption == Contracts \subseteq Contract
ASSUME SwitchesAssumption == {Unreliable, Crashes} \subseteq BOOLEAN
ASSUME TriesAssumption == MaxTries \in Nat

VARIABLES
    request,    \* table approval_requests: contract and status
    results,    \* per request, the statuses in table tool_results
    audits,     \* per request, the rows of table audit_records
    decisions,  \* per request, the decisions in table approval_decisions
    job,        \* what each operator's process is doing
    lease,      \* the Unit: the lease held on each resource
    runs,       \* the Unit: per request, decisions that ran a command of it
    tries,      \* decisions begun on each request
    clean       \* requests decided by one process at a time, none cut off

db == <<request, results, audits, decisions>>
vars == <<db, job, lease, runs, tries, clean>>

Request == [contract : Contracts, status : Status]
Job == [step : {"gate", "block", "keep", "execute", "result", "audit",
                "decide", "settle"},
        request : Requests, decision : Decision,
        lease : LeaseIds \cup {NoLease},    \* the lease id found at the gate
        done : 0..2,                        \* commands the Unit confirmed
        outcome : {"none", "ok", "error"}]

ASSUME MarkersAssumption ==
    Idle \notin Job /\ NoRequest \notin Request /\ NoLease \notin LeaseIds

TypeOK ==
    /\ request \in [Requests -> Request \cup {NoRequest}]
    /\ results \in [Requests -> SUBSET {"ok", "error"}]
    /\ audits \in [Requests -> Nat]
    /\ decisions \in [Requests -> SUBSET (Decision \cup {"blocked"})]
    /\ job \in [Operators -> Job \cup {Idle}]
    /\ lease \in [Resource -> LeaseIds \cup {NoLease}]
    /\ runs \in [Requests -> Nat]
    /\ tries \in [Requests -> 0..MaxTries]
    /\ clean \subseteq Requests

-----------------------------------------------------------------------------
At(o, step) == job[o] # Idle /\ job[o].step = step
Goto(o, step) == job' = [job EXCEPT ![o].step = step]
Deciding(r) == {o \in Operators : job[o] # Idle /\ job[o].request = r}
TheLease(o) == lease[request[job[o].request].contract.resource]

Init ==
    /\ request = [r \in Requests |-> NoRequest]
    /\ results = [r \in Requests |-> {}]
    /\ audits = [r \in Requests |-> 0]
    /\ decisions = [r \in Requests |-> {}]
    /\ job = [o \in Operators |-> Idle]
    /\ lease = [x \in Resource |-> NoLease]
    /\ runs = [r \in Requests |-> 0]
    /\ tries = [r \in Requests |-> 0]
    /\ clean = Requests

\* ReadOnlyToolPolicy.evaluate_contract.
evaluate_contract(c) ==
    IF c.approval_required THEN "approval"
    ELSE IF c.level \in {"observe_only", "read_only", "suggest_only"}
         THEN "allowed" ELSE "blocked"

\* The tool stage of a run: a tool that needs approval is not run but left as
\* a pending request.  (Tools that are allowed only read; blocked ones leave
\* a failed result.)  A guarded rollback is proposed in the same way.
Propose(r, c) ==
    /\ request[r] = NoRequest
    /\ evaluate_contract(c) = "approval"
    /\ request' = [request EXCEPT ![r] = [contract |-> c, status |-> "pending"]]
    /\ UNCHANGED <<results, audits, decisions, job, lease, runs, tries, clean>>

\* A client of the Unit acquires the lease, or it is released or runs out.
LeaseChanges(x) ==
    /\ \/ /\ lease[x] = NoLease
          /\ \E l \in LeaseIds : lease' = [lease EXCEPT ![x] = l]
       \/ lease[x] # NoLease /\ lease' = [lease EXCEPT ![x] = NoLease]
    /\ UNCHANGED <<db, job, runs, tries, clean>>

-----------------------------------------------------------------------------
\* apply_approval_decision.

PendingIn_Mutant(r) == request[r] # NoRequest

PendingIn(r) == request[r] # NoRequest /\ request[r].status = "pending"

\* A request that is not pending is refused and nothing changes.
Decide(o, r, d) ==
    /\ job[o] = Idle
    /\ tries[r] < MaxTries
    /\ PendingIn(r)
    /\ job' = [job EXCEPT ![o] =
                 [step |-> IF d = "approve" THEN "gate" ELSE "decide",
                  request |-> r, decision |-> d, lease |-> NoLease,
                  done |-> 0, outcome |-> "none"]]
    /\ tries' = [tries EXCEPT ![r] = @ + 1]
    /\ clean' = IF Deciding(r) = {} THEN clean ELSE clean \ {r}
    /\ UNCHANGED <<db, lease, runs>>

\* subprocess.run raises TimeoutExpired, or the gate cannot read the tool
\* manifest, and nothing in the decision catches it: the process ends with
\* nothing more recorded.
Aborts(o) ==
    /\ job' = [job EXCEPT ![o] = Idle]
    /\ clean' = clean \ {job[o].request}

\* _build_operator_requirements: the lease is looked up by its resource.  A
\* query that fails looks like a Unit without leases, and so does an app that
\* the query of the apps does not tell.
Gate(o) ==
    /\ At(o, "gate")
    /\ \/ /\ TheLease(o) # NoLease
          /\ job' = [job EXCEPT ![o].step = "execute", ![o].lease = TheLease(o)]
          /\ UNCHANGED clean
       \/ /\ TheLease(o) = NoLease \/ Unreliable
          /\ Goto(o, "block") /\ UNCHANGED clean
       \/ Unreliable /\ Aborts(o)
    /\ UNCHANGED <<db, lease, runs, tries>>

\* blocked_resource_gate: a decision row with that outcome, here "blocked",
\* then the request as it was read.
Block(o) ==
    /\ At(o, "block")
    /\ decisions' = [decisions EXCEPT ![job[o].request] = @ \cup {"blocked"}]
    /\ Goto(o, "keep")
    /\ UNCHANGED <<request, results, audits, lease, runs, tries, clean>>

KeepPending(o) ==
    /\ At(o, "keep")
    /\ request' = [request EXCEPT ![job[o].request].status = "pending"]
    /\ job' = [job EXCEPT ![o] = Idle]
    /\ UNCHANGED <<results, audits, decisions, lease, runs, tries, clean>>

-----------------------------------------------------------------------------
\* NeuroCliToolAdapter.execute: the commands of the tool, one process each.

\* The Unit has done the command: the first one marks the request as run.
Performed(o) ==
    /\ TheLease(o) = job[o].lease
    /\ runs' = IF job[o].done = 0
               THEN [runs EXCEPT ![job[o].request] = @ + 1] ELSE runs

Ends_Mutant(o, outcome) ==
    /\ job' = [job EXCEPT ![o].step = "decide", ![o].outcome = outcome]
    /\ UNCHANGED clean

Ends(o, outcome) ==
    /\ job' = [job EXCEPT ![o].step = "result", ![o].outcome = outcome]
    /\ UNCHANGED clean

CommandConfirmed_Mutant(o) ==
    /\ Performed(o)
    /\ job' = [job EXCEPT ![o].done = @ + 1, ![o].outcome = "ok",
                          ![o].step = "result"]
    /\ UNCHANGED clean

\* The reply says ok; after the last command the tool has succeeded.
CommandConfirmed(o) ==
    LET last == job[o].done + 1 = request[job[o].request].contract.commands
    IN  /\ Performed(o)
        /\ job' = [job EXCEPT ![o].done = @ + 1,
                              ![o].outcome = IF last THEN "ok" ELSE @,
                              ![o].step = IF last THEN "result" ELSE @]
        /\ UNCHANGED clean

\* The Unit refuses a lease id that is gone, or the command fails.
CommandFails(o) ==
    /\ TheLease(o) # job[o].lease \/ Unreliable
    /\ Ends(o, "error")
    /\ UNCHANGED runs

\* The Unit has done the command and the reply is lost (no_reply).
ReplyLost(o) ==
    /\ Unreliable
    /\ Performed(o)
    /\ Ends(o, "error")

\* The process timeout ends first, before or after the Unit has acted.
CommandTimesOut(o) ==
    /\ Unreliable
    /\ Performed(o) \/ UNCHANGED runs
    /\ Aborts(o)

Execute(o) ==
    /\ At(o, "execute")
    /\ \/ CommandConfirmed(o) \/ CommandFails(o)
       \/ ReplyLost(o) \/ CommandTimesOut(o)
    /\ UNCHANGED <<db, lease, tries>>

-----------------------------------------------------------------------------
\* The records, each committed by itself, and last of all the status.

PersistToolResult(o) ==
    /\ At(o, "result")
    /\ results' = [results EXCEPT ![job[o].request] = @ \cup {job[o].outcome}]
    /\ Goto(o, "audit")
    /\ UNCHANGED <<request, audits, decisions, lease, runs, tries, clean>>

PersistAudit(o) ==
    /\ At(o, "audit")
    /\ audits' = [audits EXCEPT ![job[o].request] = @ + 1]
    /\ Goto(o, "decide")
    /\ UNCHANGED <<request, results, decisions, lease, runs, tries, clean>>

PersistDecision(o) ==
    /\ At(o, "decide")
    /\ decisions' = [decisions EXCEPT ![job[o].request] =
                                          @ \cup {job[o].decision}]
    /\ Goto(o, "settle")
    /\ UNCHANGED <<request, results, audits, lease, runs, tries, clean>>

StatusOf(d) == CASE d = "approve" -> "approved"
                 [] d = "deny" -> "denied"
                 [] d = "expire" -> "expired"

\* INSERT OR REPLACE: whatever the status has become in the meantime.
Settle(o) ==
    /\ At(o, "settle")
    /\ request' = [request EXCEPT ![job[o].request].status =
                                      StatusOf(job[o].decision)]
    /\ job' = [job EXCEPT ![o] = Idle]
    /\ UNCHANGED <<results, audits, decisions, lease, runs, tries, clean>>

Crash(o) ==
    /\ Crashes
    /\ job[o] # Idle
    /\ Aborts(o)
    /\ UNCHANGED <<db, lease, runs, tries>>

Step(o) ==
    \/ Gate(o) \/ Block(o) \/ KeepPending(o) \/ Execute(o)
    \/ PersistToolResult(o) \/ PersistAudit(o) \/ PersistDecision(o)
    \/ Settle(o)

Next ==
    \/ \E r \in Requests, c \in Contracts : Propose(r, c)
    \/ \E x \in Resource : LeaseChanges(x)
    \/ \E o \in Operators, r \in Requests, d \in Decision : Decide(o, r, d)
    \/ \E o \in Operators : Step(o) \/ Crash(o)

Spec == Init /\ [][Next]_vars

-----------------------------------------------------------------------------
\* While decisions on a request neither overlap nor are cut off, the database
\* tells exactly what happened to the Unit: a request that is not approved has
\* never run, an approved one has run at most once and has one audit record,
\* through blocked attempts, lost replies and leases that change under a
\* decision.
ExactWhenClean ==
    \A r \in clean :
        (Deciding(r) = {} /\ request[r] # NoRequest) =>
            IF request[r].status = "approved"
            THEN runs[r] <= 1 /\ audits[r] = 1
            ELSE runs[r] = 0 /\ audits[r] = 0

\* Whatever processes overlap or die: nobody ever reads the status approved
\* before the tool result, the audit record and the decision are in the
\* database.
ApprovedIsRecorded ==
    \A r \in Requests :
        (request[r] # NoRequest /\ request[r].status = "approved") =>
            /\ results[r] # {} /\ audits[r] > 0
            /\ "approve" \in decisions[r]

\* A decision that reports ok has run every command of the tool on the Unit:
\* a lease that is lost after the gate, or between the stop and the start of a
\* restart, and a reply that is lost are reported as errors.
OkMeansDone ==
    \A o \in Operators :
        (job[o] # Idle /\ job[o].outcome = "ok") =>
            /\ job[o].done = request[job[o].request].contract.commands
            /\ runs[job[o].request] > 0
=============================================================================
