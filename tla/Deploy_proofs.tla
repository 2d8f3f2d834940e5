---------------------------- MODULE Deploy_proofs ----------------------------
(***************************************************************************)
(* Proofs about the deploy commands, for any number of processes and       *)
(* agents, any assignment of processes to agents, and any retries.         *)
(***************************************************************************)
EXTENDS Deploy, TLAPS

-----------------------------------------------------------------------------
\* The plans, step by step.
LEMMA PrepareVerifyPlanIs ==
    ASSUME NEW plan, plan = Plan["prepare_verify"]
    PROVE  /\ DOMAIN plan = 1..6 /\ Len(plan) = 6
           /\ plan[1] = "preflight" /\ plan[2] = "acquire" /\ plan[3] = "prepare"
           /\ plan[4] = "verify" /\ plan[5] = "release" /\ plan[6] = "leases"
<1>1. plan = VerifyPlan \o CleanupPlan
  BY DEF Plan
<1> QED
  BY <1>1 DEF VerifyPlan, CleanupPlan

LEMMA ActivatePlanIs ==
    ASSUME NEW plan, plan = Plan["activate"]
    PROVE  /\ DOMAIN plan = 1..9 /\ Len(plan) = 9
           /\ plan[1] = "preflight" /\ plan[2] = "acquire" /\ plan[3] = "prepare"
           /\ plan[4] = "verify" /\ plan[5] = "activate" /\ plan[6] = "health"
           /\ plan[7] = "apps" /\ plan[8] = "release" /\ plan[9] = "leases"
<1>1. plan = VerifyPlan \o <<"activate", "health", "apps">> \o CleanupPlan
  BY DEF Plan
<1> QED
  BY <1>1 DEF VerifyPlan, CleanupPlan

LEMMA RollbackPlanIs ==
    ASSUME NEW plan, plan = Plan["rollback"]
    PROVE  /\ DOMAIN plan = 1..4 /\ Len(plan) = 4
           /\ plan[1] = "resolve" /\ plan[2] = "rollback" /\ plan[3] = "apps"
           /\ plan[4] = "leases"
BY DEF Plan, RollbackPlan

\* The steps each command can be at.
StepsOf ==
    [prepare_verify |-> {"preflight", "acquire", "prepare", "verify", "release",
                         "leases", "answer"},
     activate |-> {"preflight", "acquire", "prepare", "verify", "activate",
                   "health", "observe", "apps", "release", "leases", "answer"},
     rollback |-> {"resolve", "rollback", "apps", "leases", "answer"}]

\* The step of a plan after one that went well.
NextStep(c, step) ==
    CASE c = "rollback" ->
            (CASE step = "resolve"  -> "rollback"
               [] step = "rollback" -> "apps"
               [] step = "apps"     -> "leases"
               [] step = "leases"   -> "answer")
      [] c = "prepare_verify" /\ step = "verify" -> "release"
      [] c # "rollback" /\ ~(c = "prepare_verify" /\ step = "verify") ->
            (CASE step = "preflight" -> "acquire"
               [] step = "acquire"   -> "prepare"
               [] step = "prepare"   -> "verify"
               [] step = "verify"    -> "activate"
               [] step = "activate"  -> "health"
               [] step = "health"    -> "apps"
               [] step = "apps"      -> "release"
               [] step = "release"   -> "leases"
               [] step = "leases"    -> "answer")

\* The search of a step in its plan finds its place.
LEMMA AfterGoodIs ==
    ASSUME NEW j \in Job, NEW n \in DOMAIN Plan[j.cmd], Plan[j.cmd][n] = j.step
    PROVE  \E i \in DOMAIN Plan[j.cmd] :
              /\ Plan[j.cmd][i] = j.step
              /\ AfterGood(j) = IF i = Len(Plan[j.cmd]) THEN "answer"
                                ELSE Plan[j.cmd][i + 1]
<1> DEFINE i == CHOOSE m \in DOMAIN Plan[j.cmd] : Plan[j.cmd][m] = j.step
<1>1. i \in DOMAIN Plan[j.cmd] /\ Plan[j.cmd][i] = j.step
  BY Zenon
<1>2. AfterGood(j) = IF i = Len(Plan[j.cmd]) THEN "answer" ELSE Plan[j.cmd][i + 1]
  BY DEF AfterGood
<1> QED
  BY <1>1, <1>2

LEMMA AfterGoodNext ==
    ASSUME NEW j \in Job, j.step \in StepsOf[j.cmd] \ {"observe", "answer"}
    PROVE  AfterGood(j) = NextStep(j.cmd, j.step)
<1>1. j.cmd \in {"prepare_verify", "activate", "rollback"}
  BY DEF Job, Commands
<1>2. CASE j.cmd = "prepare_verify"
  <2> DEFINE plan == Plan[j.cmd]
  <2>1. /\ DOMAIN plan = 1..6 /\ Len(plan) = 6
        /\ plan[1] = "preflight" /\ plan[2] = "acquire" /\ plan[3] = "prepare"
        /\ plan[4] = "verify" /\ plan[5] = "release" /\ plan[6] = "leases"
    BY <1>2, PrepareVerifyPlanIs
  <2>2. j.step \in {"preflight", "acquire", "prepare", "verify", "release", "leases"}
    BY <1>2 DEF StepsOf
  <2>3. \E n \in DOMAIN plan : plan[n] = j.step
    BY <2>1, <2>2
  <2>4. PICK i \in DOMAIN plan :
            /\ plan[i] = j.step
            /\ AfterGood(j) = IF i = Len(plan) THEN "answer" ELSE plan[i + 1]
    BY <2>3, AfterGoodIs
  <2> HIDE DEF plan
  <2> QED
    BY <1>2, <2>1, <2>2, <2>4 DEF NextStep
<1>3. CASE j.cmd = "activate"
  <2> DEFINE plan == Plan[j.cmd]
  <2>1. /\ DOMAIN plan = 1..9 /\ Len(plan) = 9
        /\ plan[1] = "preflight" /\ plan[2] = "acquire" /\ plan[3] = "prepare"
        /\ plan[4] = "verify" /\ plan[5] = "activate" /\ plan[6] = "health"
        /\ plan[7] = "apps" /\ plan[8] = "release" /\ plan[9] = "leases"
    BY <1>3, ActivatePlanIs
  <2>2. j.step \in {"preflight", "acquire", "prepare", "verify", "activate",
                    "health", "apps", "release", "leases"}
    BY <1>3 DEF StepsOf
  <2>3. \E n \in DOMAIN plan : plan[n] = j.step
    BY <2>1, <2>2
  <2>4. PICK i \in DOMAIN plan :
            /\ plan[i] = j.step
            /\ AfterGood(j) = IF i = Len(plan) THEN "answer" ELSE plan[i + 1]
    BY <2>3, AfterGoodIs
  <2> HIDE DEF plan
  <2> QED
    BY <1>3, <2>1, <2>2, <2>4 DEF NextStep
<1>4. CASE j.cmd = "rollback"
  <2> DEFINE plan == Plan[j.cmd]
  <2>1. /\ DOMAIN plan = 1..4 /\ Len(plan) = 4
        /\ plan[1] = "resolve" /\ plan[2] = "rollback" /\ plan[3] = "apps"
        /\ plan[4] = "leases"
    BY <1>4, RollbackPlanIs
  <2>2. j.step \in {"resolve", "rollback", "apps", "leases"}
    BY <1>4 DEF StepsOf
  <2>3. \E n \in DOMAIN plan : plan[n] = j.step
    BY <2>1, <2>2
  <2>4. PICK i \in DOMAIN plan :
            /\ plan[i] = j.step
            /\ AfterGood(j) = IF i = Len(plan) THEN "answer" ELSE plan[i + 1]
    BY <2>3, AfterGoodIs
  <2> HIDE DEF plan
  <2> QED
    BY <1>4, <2>1, <2>2, <2>4 DEF NextStep
<1> QED
  BY <1>1, <1>2, <1>3, <1>4

\* The steps at which a deployment works under its lease.
HeldSteps == {"prepare", "verify", "activate", "health", "observe", "apps"}

\* Where a command may go from a step: it comes to the steps under the lease
\* only through a granted acquire, and leaves them only through the release.
LEMMA StepFacts ==
    ASSUME NEW j \in Job, j.step \in StepsOf[j.cmd] \ {"answer"},
           NEW good \in BOOLEAN, j.step = "observe" => ~good,
           NEW s, s = IF good THEN AfterGood(j) ELSE AfterBad(j)
    PROVE  /\ s \in StepsOf[j.cmd]
           /\ j.cmd # "rollback" =>
                /\ s = "prepare" => j.step = "acquire" /\ good
                /\ s = "verify" => j.step = "prepare" /\ good
                /\ s = "activate" => j.step = "verify" /\ good
                /\ s \in {"health", "observe", "apps"} => j.step \in HeldSteps
                /\ s = "leases" => j.step = "release"
                /\ s = "answer" => \/ j.step = "preflight"
                                   \/ j.step = "acquire" /\ ~good
                                   \/ j.step = "leases"
                /\ j.step \in {"release", "leases"} => s \in {"leases", "answer"}
           /\ s = "answer" /\ good => j.step = "leases"
<1>1. j.cmd \in {"prepare_verify", "activate", "rollback"}
  BY DEF Job, Commands
<1>2. good => s = NextStep(j.cmd, j.step)
  BY AfterGoodNext
<1>3. ~good => s = IF j.cmd = "rollback" THEN AfterBadRollback(j.step)
                   ELSE AfterBadDeploy(j.step)
  BY DEF AfterBad
<1>4. CASE j.cmd = "prepare_verify"
  <2>1. j.step \in {"preflight", "acquire", "prepare", "verify", "release", "leases"}
    BY <1>4 DEF StepsOf
  <2>2. CASE good
    BY <1>2, <1>4, <2>1, <2>2 DEF StepsOf, NextStep, HeldSteps
  <2>3. CASE ~good
    BY <1>3, <1>4, <2>1, <2>3 DEF StepsOf, AfterBadDeploy, HeldSteps
  <2> QED
    BY <2>2, <2>3
<1>5. CASE j.cmd = "activate"
  <2>1. j.step \in {"preflight", "acquire", "prepare", "verify", "activate",
                    "health", "observe", "apps", "release", "leases"}
    BY <1>5 DEF StepsOf
  <2>2. CASE good
    BY <1>2, <1>5, <2>1, <2>2 DEF StepsOf, NextStep, HeldSteps
  <2>3. CASE ~good
    BY <1>3, <1>5, <2>1, <2>3 DEF StepsOf, AfterBadDeploy, HeldSteps
  <2> QED
    BY <2>2, <2>3
<1>6. CASE j.cmd = "rollback"
  <2>1. j.step \in {"resolve", "rollback", "apps", "leases"}
    BY <1>6 DEF StepsOf
  <2>2. CASE good
    BY <1>2, <1>6, <2>1, <2>2 DEF StepsOf, NextStep
  <2>3. CASE ~good
    BY <1>3, <1>6, <2>1, <2>3 DEF StepsOf, AfterBadRollback
  <2> QED
    BY <2>2, <2>3
<1> QED
  BY <1>1, <1>4, <1>5, <1>6

-----------------------------------------------------------------------------
\* What the Unit's handlers may do to the leases and to the staged artifact.
Effect(u, op, a, image, o) ==
    /\ o.unit \in Unit /\ o.ok \in BOOLEAN
    /\ op = "acquire" => /\ o.ok => o.unit.act = a
                         /\ ~o.ok => o.unit.act # a
                         /\ o.unit.act = u.act \/ (u.act = None /\ o.unit.act = a)
    /\ op = "release" => /\ o.unit.act # a
                         /\ o.unit.act = u.act \/ (u.act = a /\ o.unit.act = None)
    /\ op \notin {"acquire", "release"} => o.unit.act = u.act
    /\ \/ o.unit.staged = u.staged
       \/ op = "prepare" /\ image # None /\ o.unit.staged = image
    /\ op = "prepare" /\ o.ok => image # None /\ o.unit.staged = image
    /\ op = "leases" => o.unit = u

LEMMA HandleEffect ==
    ASSUME NEW u \in Unit, NEW op \in Query, NEW p \in Procs,
           NEW image \in Procs \cup {None, Other},
           NEW o \in Handle(u, op, p, image)
    PROVE  Effect(u, op, AgentOf[p], image, o)
<1>a. AgentOf[p] \in Agents /\ AgentOf[p] # None
  BY ProcsAssumption, MarkersAssumption
<1>1. CASE op = "acquire"
  <2>1. o \in lease_acquire(u, AgentOf[p])
    BY <1>1 DEF Handle
  <2>2. CASE u.act \in {None, AgentOf[p]}
    <3>1. o.unit = [u EXCEPT !.act = AgentOf[p]] /\ o.ok = TRUE
      BY <2>1, <2>2 DEF lease_acquire, Outcome
    <3>2. o.unit.act = AgentOf[p] /\ o.unit.staged = u.staged
      BY <3>1 DEF Unit
    <3>3. o.unit \in Unit
      BY <1>a, <3>1 DEF Unit
    <3> QED
      BY <1>1, <2>2, <3>1, <3>2, <3>3 DEF Effect
  <2>3. CASE u.act \notin {None, AgentOf[p]}
    <3>1. o.unit = u /\ o.ok = FALSE
      BY <2>1, <2>3 DEF lease_acquire, Outcome
    <3> QED
      BY <1>1, <2>3, <3>1 DEF Effect
  <2> QED
    BY <2>2, <2>3
<1>2. CASE op = "release"
  <2>1. o \in lease_release(u, AgentOf[p])
    BY <1>2 DEF Handle
  <2>2. CASE u.act = AgentOf[p]
    <3>1. o.unit = [u EXCEPT !.act = None] /\ o.ok = TRUE
      BY <2>1, <2>2 DEF lease_release, Outcome
    <3>2. o.unit.act = None /\ o.unit.staged = u.staged
      BY <3>1 DEF Unit
    <3>3. o.unit \in Unit
      BY <3>1 DEF Unit
    <3> QED
      BY <1>a, <1>2, <2>2, <3>1, <3>2, <3>3 DEF Effect
  <2>3. CASE u.act # AgentOf[p]
    <3>1. o.unit = u /\ o.ok = FALSE
      BY <2>1, <2>3 DEF lease_release, Outcome
    <3> QED
      BY <1>2, <2>3, <3>1 DEF Effect
  <2> QED
    BY <2>2, <2>3
<1>3. CASE op = "prepare"
  <2>1. o \in update_prepare(u, image)
    BY <1>3 DEF Handle
  <2>2. \/ o.unit = [u EXCEPT !.state = "FAILED"] /\ o.ok = FALSE
        \/ /\ image # None /\ o.ok = TRUE
           /\ o.unit = [u EXCEPT !.state = "PREPARED", !.staged = image]
    BY <2>1 DEF update_prepare, Outcome, May
  <2>3. CASE o.unit = [u EXCEPT !.state = "FAILED"] /\ o.ok = FALSE
    <3>1. o.unit \in Unit /\ o.unit.act = u.act /\ o.unit.staged = u.staged
      BY <2>3 DEF Unit
    <3> QED
      BY <1>3, <2>3, <3>1 DEF Effect
  <2>4. CASE /\ image # None /\ o.ok = TRUE
             /\ o.unit = [u EXCEPT !.state = "PREPARED", !.staged = image]
    <3>1. o.unit \in Unit /\ o.unit.act = u.act /\ o.unit.staged = image
      BY <2>4 DEF Unit
    <3> QED
      BY <1>3, <2>4, <3>1 DEF Effect
  <2> QED
    BY <2>2, <2>3, <2>4
<1>4. CASE op = "verify"
  <2>1. o \in update_verify(u)
    BY <1>4 DEF Handle
  <2>2. \/ o = Outcome(u, FALSE)
        \/ o = Outcome([u EXCEPT !.state = "VERIFIED"], TRUE)
        \/ o = Outcome([u EXCEPT !.state = "FAILED"], FALSE)
    BY <2>1 DEF update_verify, May
  <2>4. CASE o = Outcome(u, FALSE)
    <3>1. o.unit = u /\ o.ok = FALSE
      BY <2>4 DEF Outcome
    <3>2. o.unit.act = u.act /\ o.unit.staged = u.staged
      BY <3>1 DEF Unit
    <3>3. o.unit \in Unit
      BY <3>1 DEF Unit
    <3> QED
      BY <1>4, <3>1, <3>2, <3>3 DEF Effect
  <2>5. CASE o = Outcome([u EXCEPT !.state = "VERIFIED"], TRUE)
    <3>1. o.unit = [u EXCEPT !.state = "VERIFIED"] /\ o.ok = TRUE
      BY <2>5 DEF Outcome
    <3>2. o.unit.act = u.act /\ o.unit.staged = u.staged
      BY <3>1 DEF Unit
    <3>3. o.unit \in Unit
      BY <3>1 DEF Unit
    <3> QED
      BY <1>4, <3>1, <3>2, <3>3 DEF Effect
  <2>6. CASE o = Outcome([u EXCEPT !.state = "FAILED"], FALSE)
    <3>1. o.unit = [u EXCEPT !.state = "FAILED"] /\ o.ok = FALSE
      BY <2>6 DEF Outcome
    <3>2. o.unit.act = u.act /\ o.unit.staged = u.staged
      BY <3>1 DEF Unit
    <3>3. o.unit \in Unit
      BY <3>1 DEF Unit
    <3> QED
      BY <1>4, <3>1, <3>2, <3>3 DEF Effect
  <2> QED
    BY <2>2, <2>4, <2>5, <2>6
<1>5. CASE op = "activate"
  <2>1. o \in update_activate(u, AgentOf[p])
    BY <1>5 DEF Handle
  <2>2. \/ o = Outcome(u, FALSE)
        \/ o = Outcome([u EXCEPT !.state = "ACTIVE", !.stable = TRUE,
                                   !.app = "running"], TRUE)
        \/ o = Outcome([u EXCEPT !.state = "FAILED", !.app = "loaded"], FALSE)
    BY <2>1 DEF update_activate, May
  <2>4. CASE o = Outcome(u, FALSE)
    <3>1. o.unit = u /\ o.ok = FALSE
      BY <2>4 DEF Outcome
    <3>2. o.unit.act = u.act /\ o.unit.staged = u.staged
      BY <3>1 DEF Unit
    <3>3. o.unit \in Unit
      BY <3>1 DEF Unit
    <3> QED
      BY <1>5, <3>1, <3>2, <3>3 DEF Effect
  <2>5. CASE o = Outcome([u EXCEPT !.state = "ACTIVE", !.stable = TRUE,
                                   !.app = "running"], TRUE)
    <3>1. o.unit = [u EXCEPT !.state = "ACTIVE", !.stable = TRUE,
                                   !.app = "running"] /\ o.ok = TRUE
      BY <2>5 DEF Outcome
    <3>2. o.unit.act = u.act /\ o.unit.staged = u.staged
      BY <3>1 DEF Unit
    <3>3. o.unit \in Unit
      BY <3>1 DEF Unit
    <3> QED
      BY <1>5, <3>1, <3>2, <3>3 DEF Effect
  <2>6. CASE o = Outcome([u EXCEPT !.state = "FAILED", !.app = "loaded"], FALSE)
    <3>1. o.unit = [u EXCEPT !.state = "FAILED", !.app = "loaded"] /\ o.ok = FALSE
      BY <2>6 DEF Outcome
    <3>2. o.unit.act = u.act /\ o.unit.staged = u.staged
      BY <3>1 DEF Unit
    <3>3. o.unit \in Unit
      BY <3>1 DEF Unit
    <3> QED
      BY <1>5, <3>1, <3>2, <3>3 DEF Effect
  <2> QED
    BY <2>2, <2>4, <2>5, <2>6
<1>6. CASE op = "rollback"
  <2> DEFINE again == IF u.stable THEN "running" ELSE "absent"
  <2>1. o \in update_rollback(u, AgentOf[p])
    BY <1>6 DEF Handle
  <2>2. \/ o = Outcome(u, FALSE)
        \/ o = Outcome([u EXCEPT !.state = "FAILED"], FALSE)
        \/ o = Outcome([u EXCEPT !.state = "ROLLED_BACK", !.app = again], TRUE)
        \/ o = Outcome([u EXCEPT !.state = "FAILED", !.app = "absent"], FALSE)
    BY <2>1 DEF update_rollback, May
  <2>3. again \in {"running", "absent"}
    OBVIOUS
  <2> HIDE DEF again
  <2>4. CASE o = Outcome(u, FALSE)
    <3>1. o.unit = u /\ o.ok = FALSE
      BY <2>4 DEF Outcome
    <3>2. o.unit.act = u.act /\ o.unit.staged = u.staged
      BY <3>1 DEF Unit
    <3>3. o.unit \in Unit
      BY <2>3, <3>1 DEF Unit
    <3> QED
      BY <1>6, <3>1, <3>2, <3>3 DEF Effect
  <2>5. CASE o = Outcome([u EXCEPT !.state = "FAILED"], FALSE)
    <3>1. o.unit = [u EXCEPT !.state = "FAILED"] /\ o.ok = FALSE
      BY <2>5 DEF Outcome
    <3>2. o.unit.act = u.act /\ o.unit.staged = u.staged
      BY <3>1 DEF Unit
    <3>3. o.unit \in Unit
      BY <2>3, <3>1 DEF Unit
    <3> QED
      BY <1>6, <3>1, <3>2, <3>3 DEF Effect
  <2>6. CASE o = Outcome([u EXCEPT !.state = "ROLLED_BACK", !.app = again], TRUE)
    <3>1. o.unit = [u EXCEPT !.state = "ROLLED_BACK", !.app = again] /\ o.ok = TRUE
      BY <2>6 DEF Outcome
    <3>2. o.unit.act = u.act /\ o.unit.staged = u.staged
      BY <3>1 DEF Unit
    <3>3. o.unit \in Unit
      BY <2>3, <3>1 DEF Unit
    <3> QED
      BY <1>6, <3>1, <3>2, <3>3 DEF Effect
  <2>7. CASE o = Outcome([u EXCEPT !.state = "FAILED", !.app = "absent"], FALSE)
    <3>1. o.unit = [u EXCEPT !.state = "FAILED", !.app = "absent"] /\ o.ok = FALSE
      BY <2>7 DEF Outcome
    <3>2. o.unit.act = u.act /\ o.unit.staged = u.staged
      BY <3>1 DEF Unit
    <3>3. o.unit \in Unit
      BY <2>3, <3>1 DEF Unit
    <3> QED
      BY <1>6, <3>1, <3>2, <3>3 DEF Effect
  <2> QED
    BY <2>2, <2>4, <2>5, <2>6, <2>7
<1>7. CASE op \notin {"acquire", "release", "prepare", "verify", "activate", "rollback"}
  <2>1. o = Outcome(u, TRUE)
    BY <1>7 DEF Handle
  <2> QED
    BY <1>7, <2>1 DEF Effect, Outcome
<1> QED
  BY <1>1, <1>2, <1>3, <1>4, <1>5, <1>6, <1>7

-----------------------------------------------------------------------------
\* The invariant.  Each part speaks of the commands that run.

\* Every command is at a step of its own plan or cleanup.
ShapeOK ==
    /\ job \in [Procs -> Job \cup {Idle, Done}]
    /\ unit \in Unit
    /\ late \subseteq Request
    /\ \A p \in Busy : job[p].step \in StepsOf[job[p].cmd]

\* A lost or shared lease is remembered by all commands that run, and commands
\* of one agent know that they share its lease.
AlikeOK ==
    /\ \A p, q \in Busy : job[p].lapsed = job[q].lapsed
    /\ \A p \in Busy : job[p].shared => job[p].lapsed
    /\ \A p, q \in Busy : p # q /\ AgentOf[p] = AgentOf[q] => job[p].shared

\* An acquire that is still on its way was sent by a command that has run, and
\* a command that still runs knows that it missed the reply.
LateOK ==
    \A r \in late : r.op = "acquire" =>
        /\ job[r.proc] # Idle
        /\ r.proc \in Busy => job[r.proc].deaf

\* As long as no lease was lost or shared, a deployment at work holds its own.
HeldOK ==
    \A p \in Busy :
        (/\ job[p].cmd # "rollback" /\ job[p].step \in HeldSteps
         /\ ~job[p].lapsed)
        => unit.act = AgentOf[p]

\* So nobody else stages an artifact between its prepare and its activate.
StagedOK ==
    \A p \in Busy :
        (/\ job[p].cmd # "rollback" /\ job[p].step \in {"verify", "activate"}
         /\ ~job[p].lapsed)
        => unit.staged \in {p, Other}

\* And after its release the lease does not come back.
GivenOK ==
    \A p \in Busy :
        (/\ job[p].cmd # "rollback" /\ job[p].step = "leases"
         /\ ~job[p].shared /\ ~job[p].deaf)
        => unit.act # AgentOf[p]

Inv == ShapeOK /\ AlikeOK /\ LateOK /\ HeldOK /\ StagedOK /\ GivenOK

-----------------------------------------------------------------------------
\* What an attempt of a query does to the Unit and to the process.

LEMMA BusyJob ==
    ASSUME ShapeOK, NEW p \in Busy
    PROVE  /\ p \in Procs /\ job[p] \in Job /\ job[p] \notin {Idle, Done}
           /\ AgentOf[p] \in Agents /\ AgentOf[p] # None
<1>1. p \in Procs /\ job[p] \notin {Idle, Done}
  BY DEF Busy
<1>2. job[p] \in Job \cup {Idle, Done}
  BY <1>1 DEF ShapeOK
<1> QED
  BY <1>1, <1>2, ProcsAssumption, MarkersAssumption

LEMMA SendsEffect ==
    ASSUME ShapeOK, NEW p \in Busy, job[p].step \in Query, NEW o \in Sends(p)
    PROVE  \E image \in {p, Other, None} :
              /\ job[p].step = "prepare" => image # None
              /\ Effect(unit, job[p].step, AgentOf[p], image, o)
<1>1. p \in Procs /\ unit \in Unit
  BY BusyJob DEF ShapeOK
<1>2. PICK image \in {p, Other, None} :
          /\ job[p].step = "prepare" => image \in {p, Other}
          /\ o \in Handle(unit, job[p].step, p, image)
  BY DEF Sends
<1>3. Effect(unit, job[p].step, AgentOf[p], image, o)
  BY <1>1, <1>2, HandleEffect
<1>4. job[p].step = "prepare" => image # None
  BY <1>1, <1>2, MarkersAssumption
<1> QED
  BY <1>3, <1>4

\* The Unit changes its activation lease only for an acquire or a release, and
\* what is staged only for a prepare.
UnitMoves(p) ==
    LET step == job[p].step
    IN  /\ unit' \in Unit
        /\ \/ unit'.act = unit.act
           \/ step = "acquire" /\ unit.act = None /\ unit'.act = AgentOf[p]
           \/ step = "release" /\ unit.act = AgentOf[p] /\ unit'.act = None
        /\ \/ unit'.staged = unit.staged
           \/ step = "prepare" /\ unit'.staged \in {p, Other}
        /\ step = "leases" => unit'.act = unit.act

LEMMA EffectMoves ==
    ASSUME ShapeOK, NEW p \in Busy, job[p].step \in Query,
           NEW o \in Sends(p), unit' = o.unit
    PROVE  UnitMoves(p)
<1>1. PICK image \in {p, Other, None} :
          /\ job[p].step = "prepare" => image # None
          /\ Effect(unit, job[p].step, AgentOf[p], image, o)
  BY SendsEffect
<1> QED
  BY <1>1 DEF Effect, UnitMoves

LEMMA StillMoves ==
    ASSUME ShapeOK, NEW p \in Busy, unit' = unit
    PROVE  UnitMoves(p)
BY DEF ShapeOK, UnitMoves

LEMMA WorkMovesUnit ==
    ASSUME ShapeOK, NEW p \in Procs, Work(p)
    PROVE  p \in Busy /\ UnitMoves(p)
<1>1. CASE Answer(p)
  BY <1>1, StillMoves DEF Answer
<1>2. CASE Replied(p) \/ Unusable(p) \/ NoReply(p) \/ Raises(p)
  <2>1. Querying(p)
    BY <1>2 DEF Replied, Unusable, NoReply, Raises, Unanswered
  <2>2. p \in Busy /\ job[p].step \in Query
    BY <2>1 DEF Querying
  <2>3. unit' = unit \/ \E o \in Sends(p) : unit' = o.unit
    BY <1>2 DEF Replied, Unusable, NoReply, Raises, Unanswered
  <2> QED
    BY <2>2, <2>3, EffectMoves, StillMoves
<1> QED
  BY <1>1, <1>2 DEF Work

\* The process after a step that ended.
LEMMA AdvanceGives ==
    ASSUME ShapeOK, NEW p \in Busy, job[p].step \in Query,
           NEW good \in BOOLEAN, NEW heard \in BOOLEAN, Advance(p, good, heard),
           job[p].step = "observe" => ~good
    PROVE  \E n \in Job :
              /\ job' = [job EXCEPT ![p] = n]
              /\ n.cmd = job[p].cmd /\ n.shared = job[p].shared
              /\ n.lapsed = job[p].lapsed
              /\ n.step = IF good THEN AfterGood(job[p]) ELSE AfterBad(job[p])
              /\ n.step \in StepsOf[n.cmd]
              /\ n.failed = (job[p].failed \/ ~good)
              /\ n.deaf = (job[p].deaf \/ (~heard /\ AboutLease(p)))
<1> DEFINE j == job[p]
           s == IF good THEN AfterGood(j) ELSE AfterBad(j)
           f == j.failed \/ ~good
           d == j.deaf \/ (~heard /\ AboutLease(p))
           n == [j EXCEPT !.step = s, !.tries = 0, !.failed = f, !.deaf = d]
<1>1. j \in Job
  BY BusyJob
<1>2. job' = [job EXCEPT ![p] = n]
  BY DEF Advance
<1>3. "answer" \notin Query /\ j.step \in StepsOf[j.cmd]
  BY DEF ShapeOK, Query
<1>4. j.step \in StepsOf[j.cmd] \ {"answer"}
  BY <1>3
<1>5. s \in StepsOf[j.cmd]
  BY <1>1, <1>4, StepFacts
<1>6. j.cmd \in {"prepare_verify", "activate", "rollback"}
  BY <1>1 DEF Job, Commands
<1>7. s \in Query \cup {"answer"}
  BY <1>5, <1>6 DEF StepsOf, Query
<1>8. f \in BOOLEAN /\ d \in BOOLEAN
  BY <1>1 DEF Job, AboutLease
<1>9. 0 \in 0..(MaxAttempts - 1)
  BY BoundsAssumption
<1> HIDE DEF j, s, f, d
<1>10. n \in Job
  BY <1>1, <1>7, <1>8, <1>9 DEF Job
<1>11. /\ n.cmd = j.cmd /\ n.shared = j.shared /\ n.lapsed = j.lapsed
       /\ n.step = s /\ n.failed = f /\ n.deaf = d
  BY <1>1 DEF Job
<1> HIDE DEF n
<1> QED
  BY <1>2, <1>5, <1>10, <1>11 DEF j, s, f, d

LEMMA SatisfiesIsBoolean ==
    ASSUME NEW j, NEW u, NEW ok \in BOOLEAN
    PROVE  Satisfies(j, u, ok) \in BOOLEAN
BY DEF Satisfies, Healthy, AppAsWanted, LeasesAsWanted, LeaseResolved

\* The process after an attempt of a query, other than by an exception.
JobMoves(p, n) ==
    LET j == job[p]
        a == AgentOf[p]
    IN  /\ n \in Job /\ job' = [job EXCEPT ![p] = n]
        /\ n.cmd = j.cmd /\ n.shared = j.shared /\ n.lapsed = j.lapsed
        /\ n.step \in StepsOf[n.cmd]
        /\ j.deaf => n.deaf
        /\ j.cmd # "rollback" =>
             /\ n.step = "prepare" => \/ j.step = "prepare"
                                      \/ j.step = "acquire" /\ unit'.act = a
             /\ n.step = "verify" => \/ j.step = "verify"
                                     \/ /\ j.step = "prepare"
                                        /\ unit'.staged \in {p, Other}
             /\ n.step = "activate" => j.step \in {"verify", "activate"}
             /\ n.step \in HeldSteps => j.step \in HeldSteps \cup {"acquire"}
             /\ n.step \in HeldSteps \ {"prepare"} => j.step \in HeldSteps
             /\ n.step = "leases" => \/ j.step = "leases"
                                     \/ /\ j.step = "release"
                                        /\ ~n.deaf => unit'.act # a
             /\ n.step = "answer" =>
                   \/ j.step = "preflight"
                   \/ j.step = "acquire" /\ n.failed /\ (~n.deaf => unit'.act # a)
                   \/ /\ j.step = "leases" /\ unit'.act = unit.act
                      /\ n.failed \/ unit'.act = None
        /\ \/ late' = late
           \/ /\ j.step \in LateOps
              /\ late' = late \cup {[op |-> j.step, proc |-> p]}
              /\ j.step = "acquire" => n.deaf

LEMMA AdvanceMoves ==
    ASSUME ShapeOK, NEW p \in Busy, job[p].step \in Query, UnitMoves(p),
           NEW good \in BOOLEAN, NEW heard \in BOOLEAN, Advance(p, good, heard),
           job[p].step = "observe" => ~good,
           good /\ job[p].step = "acquire" => unit'.act = AgentOf[p],
           good /\ job[p].step = "prepare" => unit'.staged \in {p, Other},
           ~good /\ heard /\ job[p].step = "acquire" => unit'.act # AgentOf[p],
           heard /\ job[p].step = "release" => unit'.act # AgentOf[p],
           good /\ job[p].step = "leases" /\ job[p].cmd # "rollback"
              => unit'.act = None,
           \/ late' = late
           \/ /\ job[p].step \in LateOps /\ ~heard
              /\ late' = late \cup {[op |-> job[p].step, proc |-> p]}
    PROVE  \E n : JobMoves(p, n)
<1> DEFINE j == job[p]
<1>1. PICK n \in Job :
          /\ job' = [job EXCEPT ![p] = n]
          /\ n.cmd = j.cmd /\ n.shared = j.shared /\ n.lapsed = j.lapsed
          /\ n.step = IF good THEN AfterGood(j) ELSE AfterBad(j)
          /\ n.step \in StepsOf[n.cmd]
          /\ n.failed = (j.failed \/ ~good)
          /\ n.deaf = (j.deaf \/ (~heard /\ AboutLease(p)))
  BY AdvanceGives
<1>2. j \in Job
  BY BusyJob
<1>3. j.step \in StepsOf[j.cmd] \ {"answer"}
  BY DEF ShapeOK, Query
<1> DEFINE s == n.step
<1>4. /\ j.cmd # "rollback" =>
           /\ s = "prepare" => j.step = "acquire" /\ good
           /\ s = "verify" => j.step = "prepare" /\ good
           /\ s = "activate" => j.step = "verify" /\ good
           /\ s \in {"health", "observe", "apps"} => j.step \in HeldSteps
           /\ s = "leases" => j.step = "release"
           /\ s = "answer" => \/ j.step = "preflight"
                              \/ j.step = "acquire" /\ ~good
                              \/ j.step = "leases"
  BY <1>1, <1>2, <1>3, StepFacts
<1>5. AboutLease(p) <=> j.step \in {"acquire", "release"}
  BY DEF AboutLease
<1>6. j.deaf \in BOOLEAN /\ j.failed \in BOOLEAN
  BY <1>2 DEF Job
<1>7. j.step = "leases" => unit'.act = unit.act
  BY DEF UnitMoves
<1> HIDE DEF j
<1>8. j.deaf => n.deaf
  BY <1>1, <1>6
<1>9. ~heard /\ j.step \in {"acquire", "release"} => n.deaf
  BY <1>1, <1>5, <1>6
<1>10. ~good => n.failed
  BY <1>1, <1>6
<1>11. ASSUME j.cmd # "rollback", s = "prepare"
       PROVE  j.step = "acquire" /\ unit'.act = AgentOf[p]
  BY <1>4, <1>11 DEF j
<1>12. ASSUME j.cmd # "rollback", s = "verify"
       PROVE  j.step = "prepare" /\ unit'.staged \in {p, Other}
  BY <1>4, <1>12 DEF j
<1>13. ASSUME j.cmd # "rollback", s = "leases"
       PROVE  j.step = "release" /\ (~n.deaf => unit'.act # AgentOf[p])
  BY <1>4, <1>9, <1>13 DEF j
<1>14. ASSUME j.cmd # "rollback", s = "answer"
       PROVE  \/ j.step = "preflight"
              \/ j.step = "acquire" /\ n.failed /\ (~n.deaf => unit'.act # AgentOf[p])
              \/ /\ j.step = "leases" /\ unit'.act = unit.act
                 /\ n.failed \/ unit'.act = None
  BY <1>4, <1>7, <1>9, <1>10, <1>14 DEF j
<1>15. ASSUME j.cmd # "rollback"
       PROVE  /\ s \in HeldSteps => j.step \in HeldSteps \cup {"acquire"}
              /\ s \in HeldSteps \ {"prepare"} => j.step \in HeldSteps
              /\ s = "activate" => j.step \in {"verify", "activate"}
  BY <1>4, <1>15 DEF HeldSteps
<1>16. \/ late' = late
       \/ /\ j.step \in LateOps
          /\ late' = late \cup {[op |-> j.step, proc |-> p]}
          /\ j.step = "acquire" => n.deaf
  BY <1>9 DEF j
<1>17. n.step \in StepsOf[n.cmd] /\ n.cmd = j.cmd /\ n.shared = j.shared
       /\ n.lapsed = j.lapsed /\ job' = [job EXCEPT ![p] = n]
  BY <1>1
<1>18. JobMoves(p, n)
  BY <1>8, <1>11, <1>12, <1>13, <1>14, <1>15, <1>16, <1>17 DEF JobMoves, j
<1> QED
  BY <1>18

LEMMA RepliedMoves ==
    ASSUME ShapeOK, NEW p \in Procs, Replied(p)
    PROVE  \E n : JobMoves(p, n)
<1>1. p \in Busy /\ job[p].step \in Query /\ late' = late
  BY DEF Replied, Querying
<1>2. PICK o \in Sends(p) :
          unit' = o.unit /\ Advance(p, Satisfies(job[p], o.unit, o.ok), TRUE)
  BY DEF Replied
<1>3. UnitMoves(p)
  BY <1>1, <1>2, EffectMoves
<1>4. PICK image \in {p, Other, None} :
          /\ job[p].step = "prepare" => image # None
          /\ Effect(unit, job[p].step, AgentOf[p], image, o)
  BY <1>1, SendsEffect
<1>5. o.ok \in BOOLEAN
  BY <1>4 DEF Effect
<1> DEFINE good == Satisfies(job[p], o.unit, o.ok)
<1>6. good \in BOOLEAN
  BY <1>5, SatisfiesIsBoolean
<1>7. /\ job[p].step = "observe" => ~good
      /\ job[p].step \in {"acquire", "prepare", "release"} => good = o.ok
      /\ job[p].step = "leases" /\ job[p].cmd # "rollback" /\ good
            => o.unit.act = None
  BY <1>5 DEF Satisfies, LeasesAsWanted
<1> HIDE DEF good
<1>8. /\ good /\ job[p].step = "acquire" => unit'.act = AgentOf[p]
      /\ good /\ job[p].step = "prepare" => unit'.staged \in {p, Other}
      /\ ~good /\ job[p].step = "acquire" => unit'.act # AgentOf[p]
      /\ job[p].step = "release" => unit'.act # AgentOf[p]
      /\ good /\ job[p].step = "leases" /\ job[p].cmd # "rollback"
            => unit'.act = None
  BY <1>2, <1>4, <1>6, <1>7 DEF Effect
<1>9. Advance(p, good, TRUE)
  BY <1>2 DEF good
<1> QED
  BY <1>1, <1>3, <1>6, <1>7, <1>8, <1>9, AdvanceMoves

LEMMA BadMoves ==
    ASSUME ShapeOK, NEW p \in Busy, job[p].step \in Query, UnitMoves(p),
           Advance(p, FALSE, FALSE),
           \/ late' = late
           \/ /\ job[p].step \in LateOps
              /\ late' = late \cup {[op |-> job[p].step, proc |-> p]}
    PROVE  \E n : JobMoves(p, n)
BY AdvanceMoves

\* An attempt that will be repeated leaves the process where it is.
LEMMA RetryMoves ==
    ASSUME ShapeOK, NEW p \in Busy, job[p].step \in Query, UnitMoves(p),
           job[p].tries + 1 < MaxAttempts,
           job' = [job EXCEPT ![p].tries = @ + 1, ![p].deaf = @ \/ AboutLease(p)],
           \/ late' = late
           \/ /\ job[p].step \in LateOps
              /\ late' = late \cup {[op |-> job[p].step, proc |-> p]}
    PROVE  \E n : JobMoves(p, n)
<1> DEFINE j == job[p]
           d == j.deaf \/ AboutLease(p)
           n == [j EXCEPT !.tries = j.tries + 1, !.deaf = d]
<1>1. p \in Procs /\ j \in Job
  BY BusyJob
<1>2. job' = [job EXCEPT ![p] = n]
  BY <1>1 DEF ShapeOK
<1>3. d \in BOOLEAN /\ j.tries + 1 \in 0..(MaxAttempts - 1)
  BY <1>1, BoundsAssumption DEF Job, AboutLease
<1>4. j.step \in StepsOf[j.cmd] /\ j.step # "answer"
  BY DEF ShapeOK, Query
<1>5. /\ j.deaf => d
      /\ j.step = "acquire" => d
  BY DEF AboutLease
<1>6. \/ late' = late
      \/ /\ j.step \in LateOps
         /\ late' = late \cup {[op |-> j.step, proc |-> p]}
  OBVIOUS
<1> HIDE DEF j, d
<1>7. n \in Job
  BY <1>1, <1>3 DEF Job
<1>8. /\ n.cmd = j.cmd /\ n.shared = j.shared /\ n.lapsed = j.lapsed
      /\ n.step = j.step /\ n.deaf = d
  BY <1>1 DEF Job
<1> HIDE DEF n
<1>9. JobMoves(p, n)
  BY <1>2, <1>4, <1>5, <1>6, <1>7, <1>8 DEF JobMoves, j, HeldSteps
<1> QED
  BY <1>9

\* A step of a command moves it on, or ends it.
LEMMA WorkMovesJob ==
    ASSUME ShapeOK, NEW p \in Procs, Work(p)
    PROVE  \/ job' = [job EXCEPT ![p] = Done] /\ late' = late
           \/ job[p].step # "answer" /\ \E n : JobMoves(p, n)
<1>a. p \in Busy /\ UnitMoves(p)
  BY WorkMovesUnit
<1>b. "answer" \notin Query
  BY DEF Query
<1>1. CASE Replied(p)
  BY <1>1, <1>b, RepliedMoves DEF Replied, Querying
<1>2. CASE Unusable(p)
  BY <1>2, <1>a, <1>b, BadMoves DEF Unusable, Querying
<1>3. CASE NoReply(p)
  <2>1. /\ job[p].step \in Query
        /\ \/ late' = late
           \/ /\ job[p].step \in LateOps
              /\ late' = late \cup {[op |-> job[p].step, proc |-> p]}
    BY <1>3 DEF NoReply, Unanswered, Querying
  <2>2. CASE job[p].tries + 1 < MaxAttempts
    <3>1. job' = [job EXCEPT ![p].tries = @ + 1, ![p].deaf = @ \/ AboutLease(p)]
      BY <1>3, <2>2 DEF NoReply
    <3> QED
      BY <1>a, <1>b, <2>1, <2>2, <3>1, RetryMoves
  <2>3. CASE ~(job[p].tries + 1 < MaxAttempts)
    <3>1. Advance(p, FALSE, FALSE)
      BY <1>3, <2>3 DEF NoReply
    <3> QED
      BY <1>a, <1>b, <2>1, <3>1, BadMoves
  <2> QED
    BY <2>2, <2>3
<1>4. CASE Raises(p)
  BY <1>4 DEF Raises
<1>5. CASE Answer(p)
  BY <1>5 DEF Answer
<1> QED
  BY <1>1, <1>2, <1>3, <1>4, <1>5 DEF Work

-----------------------------------------------------------------------------
\* The invariant is kept.

\* What a process does to the Unit leaves the claims of the others in place.
LEMMA OthersKeep ==
    ASSUME Inv, NEW p \in Busy, UnitMoves(p), NEW q \in Busy, q # p,
           job[q].cmd # "rollback"
    PROVE  /\ job[q].step \in HeldSteps /\ ~job[q].lapsed => unit'.act = AgentOf[q]
           /\ job[q].step \in {"verify", "activate"} /\ ~job[q].lapsed
                => unit'.staged \in {q, Other}
           /\ job[q].step = "leases" /\ ~job[q].shared /\ ~job[q].deaf
                => unit'.act # AgentOf[q]
<1>1. job[p] \in Job /\ job[q] \in Job /\ AgentOf[q] # None
  BY BusyJob DEF Inv
<1>2. /\ job[q].shared => job[q].lapsed
      /\ AgentOf[p] = AgentOf[q] => job[q].shared
      /\ job[p].lapsed = job[q].lapsed
  BY DEF Inv, AlikeOK
<1>3. ASSUME job[q].step \in HeldSteps, ~job[q].lapsed
      PROVE  unit'.act = AgentOf[q]
  <2>1. unit.act = AgentOf[q]
    BY <1>3 DEF Inv, HeldOK
  <2> QED
    BY <1>1, <1>2, <1>3, <2>1 DEF UnitMoves
<1>4. ASSUME job[q].step \in {"verify", "activate"}, ~job[q].lapsed
      PROVE  unit'.staged \in {q, Other}
  <2>1. unit.staged \in {q, Other} /\ unit.act = AgentOf[q]
    BY <1>4 DEF Inv, HeldOK, StagedOK, HeldSteps
  <2>2. job[p].step # "prepare"
    <3> SUFFICES ASSUME job[p].step = "prepare" PROVE FALSE
      OBVIOUS
    <3>1. job[p].cmd # "rollback"
      BY <1>1 DEF Inv, ShapeOK, StepsOf, Job, Commands
    <3>2. unit.act = AgentOf[p]
      BY <1>2, <1>4, <3>1 DEF Inv, HeldOK, HeldSteps
    <3> QED
      BY <1>2, <1>4, <2>1, <3>2
  <2> QED
    BY <2>1, <2>2 DEF UnitMoves
<1>5. ASSUME job[q].step = "leases", ~job[q].shared, ~job[q].deaf
      PROVE  unit'.act # AgentOf[q]
  <2>1. unit.act # AgentOf[q]
    BY <1>5 DEF Inv, GivenOK
  <2> QED
    BY <1>1, <1>2, <1>5, <2>1 DEF UnitMoves
<1> QED
  BY <1>3, <1>4, <1>5

LEMMA EndKeepsInv ==
    ASSUME Inv, NEW p \in Busy, UnitMoves(p), late' = late,
           job' = [job EXCEPT ![p] = Done]
    PROVE  Inv'
<1>1. ShapeOK /\ AlikeOK /\ LateOK
  BY DEF Inv
<1>2. p \in Procs /\ job \in [Procs -> Job \cup {Idle, Done}]
  BY BusyJob, <1>1 DEF ShapeOK
<1>3. job'[p] = Done /\ \A q \in Procs \ {p} : job'[q] = job[q]
  BY <1>2
<1>4. \A q \in Busy' : q \in Busy /\ q # p /\ job'[q] = job[q]
  BY <1>3 DEF Busy
<1>5. ShapeOK'
  <2>1. job' \in [Procs -> Job \cup {Idle, Done}]
    BY <1>2
  <2>2. unit' \in Unit /\ late' \subseteq Request
    BY <1>1 DEF UnitMoves, ShapeOK
  <2> QED
    BY <1>1, <1>4, <2>1, <2>2 DEF ShapeOK
<1>6. AlikeOK'
  BY <1>1, <1>4 DEF AlikeOK
<1>7. LateOK'
  <2> SUFFICES ASSUME NEW r \in late', r.op = "acquire"
               PROVE  job'[r.proc] # Idle /\ (r.proc \in Busy' => job'[r.proc].deaf)
    BY DEF LateOK
  <2>1. r \in late /\ r.proc \in Procs
    BY <1>1 DEF ShapeOK, Request
  <2>2. job[r.proc] # Idle /\ (r.proc \in Busy => job[r.proc].deaf)
    BY <1>1, <2>1 DEF LateOK
  <2> QED
    BY <1>3, <1>4, <2>1, <2>2, MarkersAssumption
<1>8. HeldOK'
  BY <1>4, OthersKeep DEF HeldOK
<1>9. StagedOK'
  BY <1>4, OthersKeep DEF StagedOK
<1>10. GivenOK'
  BY <1>4, OthersKeep DEF GivenOK
<1> QED
  BY <1>5, <1>6, <1>7, <1>8, <1>9, <1>10 DEF Inv

LEMMA MoveKeepsInv ==
    ASSUME Inv, NEW p \in Busy, UnitMoves(p), NEW n, JobMoves(p, n)
    PROVE  Inv'
<1>1. ShapeOK /\ AlikeOK /\ LateOK /\ HeldOK /\ StagedOK /\ GivenOK
  BY DEF Inv
<1>2. p \in Procs /\ job \in [Procs -> Job \cup {Idle, Done}] /\ job[p] \in Job
  BY BusyJob, <1>1 DEF ShapeOK
<1>3. n \in Job /\ job' = [job EXCEPT ![p] = n]
  BY DEF JobMoves
<1>4. n \notin {Idle, Done}
  BY <1>3, MarkersAssumption
<1>5. job'[p] = n /\ \A q \in Procs \ {p} : job'[q] = job[q]
  BY <1>2, <1>3
<1>6. Busy' = Busy
  BY <1>4, <1>5 DEF Busy
<1>7. /\ n.cmd = job[p].cmd /\ n.shared = job[p].shared /\ n.lapsed = job[p].lapsed
      /\ n.step \in StepsOf[n.cmd] /\ (job[p].deaf => n.deaf)
  BY DEF JobMoves
<1>8. Busy \subseteq Procs
  BY DEF Busy
<1>9. ShapeOK'
  <2>1. job' \in [Procs -> Job \cup {Idle, Done}]
    BY <1>2, <1>3
  <2>2. unit' \in Unit
    BY DEF UnitMoves
  <2>3. late' \subseteq Request
    BY <1>1, <1>2 DEF JobMoves, ShapeOK, Request
  <2>4. \A q \in Busy' : job'[q].step \in StepsOf[job'[q].cmd]
    BY <1>1, <1>5, <1>6, <1>7, <1>8 DEF ShapeOK
  <2> QED
    BY <2>1, <2>2, <2>3, <2>4 DEF ShapeOK
<1>10. \A q \in Busy : job'[q].shared = job[q].shared /\ job'[q].lapsed = job[q].lapsed
  BY <1>5, <1>7, <1>8
<1>11. AlikeOK'
  BY <1>1, <1>6, <1>10 DEF AlikeOK
<1>12. LateOK'
  <2> SUFFICES ASSUME NEW r \in late', r.op = "acquire"
               PROVE  job'[r.proc] # Idle /\ (r.proc \in Busy' => job'[r.proc].deaf)
    BY DEF LateOK
  <2>1. \/ r \in late
        \/ r = [op |-> job[p].step, proc |-> p] /\ (job[p].step = "acquire" => n.deaf)
    BY DEF JobMoves
  <2>2. CASE r \in late
    <3>1. job[r.proc] # Idle /\ (r.proc \in Busy => job[r.proc].deaf)
      BY <1>1, <2>2 DEF LateOK
    <3>2. r.proc \in Procs
      BY <1>1, <2>2 DEF ShapeOK, Request
    <3> QED
      BY <1>4, <1>5, <1>6, <1>7, <3>1, <3>2
  <2>3. CASE r = [op |-> job[p].step, proc |-> p] /\ (job[p].step = "acquire" => n.deaf)
    BY <1>4, <1>5, <2>3
  <2> QED
    BY <2>1, <2>2, <2>3
<1>13. HeldOK'
  <2> SUFFICES ASSUME NEW q \in Busy, job'[q].cmd # "rollback",
                      job'[q].step \in HeldSteps, ~job'[q].lapsed
               PROVE  unit'.act = AgentOf[q]
    BY <1>6 DEF HeldOK
  <2>1. CASE q # p
    BY <1>5, <1>8, <2>1, OthersKeep
  <2>2. CASE q = p
    <3>1. n.cmd # "rollback" /\ n.step \in HeldSteps /\ ~job[p].lapsed
      BY <1>5, <1>7, <2>2
    <3>2. CASE job[p].step \in HeldSteps
      <4>1. unit.act = AgentOf[p]
        BY <1>1, <1>7, <3>1, <3>2 DEF HeldOK
      <4> QED
        BY <2>2, <3>2, <4>1 DEF UnitMoves, HeldSteps
    <3>3. CASE job[p].step \notin HeldSteps
      BY <1>7, <2>2, <3>1, <3>3 DEF JobMoves, HeldSteps
    <3> QED
      BY <3>2, <3>3
  <2> QED
    BY <2>1, <2>2
<1>14. StagedOK'
  <2> SUFFICES ASSUME NEW q \in Busy, job'[q].cmd # "rollback",
                      job'[q].step \in {"verify", "activate"}, ~job'[q].lapsed
               PROVE  unit'.staged \in {q, Other}
    BY <1>6 DEF StagedOK
  <2>1. CASE q # p
    BY <1>5, <1>8, <2>1, OthersKeep
  <2>2. CASE q = p
    <3>1. n.cmd # "rollback" /\ n.step \in {"verify", "activate"} /\ ~job[p].lapsed
      BY <1>5, <1>7, <2>2
    <3>2. \/ job[p].step \in {"verify", "activate"}
          \/ job[p].step = "prepare" /\ unit'.staged \in {p, Other}
      BY <1>7, <3>1 DEF JobMoves
    <3>3. CASE job[p].step \in {"verify", "activate"}
      <4>1. unit.staged \in {p, Other}
        BY <1>1, <1>7, <3>1, <3>3 DEF StagedOK
      <4> QED
        BY <2>2, <3>3, <4>1 DEF UnitMoves
    <3> QED
      BY <2>2, <3>2, <3>3
  <2> QED
    BY <2>1, <2>2
<1>15. GivenOK'
  <2> SUFFICES ASSUME NEW q \in Busy, job'[q].cmd # "rollback",
                      job'[q].step = "leases", ~job'[q].shared, ~job'[q].deaf
               PROVE  unit'.act # AgentOf[q]
    BY <1>6 DEF GivenOK
  <2>1. CASE q # p
    BY <1>5, <1>8, <2>1, OthersKeep
  <2>2. CASE q = p
    <3>1. n.cmd # "rollback" /\ n.step = "leases" /\ ~n.deaf /\ ~n.shared
      BY <1>5, <2>2
    <3>2. job[p].step = "leases" \/ unit'.act # AgentOf[p]
      BY <1>7, <3>1 DEF JobMoves
    <3>3. CASE job[p].step = "leases"
      <4>1. unit.act # AgentOf[p]
        BY <1>1, <1>7, <3>1, <3>3 DEF GivenOK
      <4> QED
        BY <2>2, <3>3, <4>1 DEF UnitMoves
    <3> QED
      BY <2>2, <3>2, <3>3
  <2> QED
    BY <2>1, <2>2
<1> QED
  BY <1>9, <1>11, <1>12, <1>13, <1>14, <1>15 DEF Inv

LEMMA WorkKeepsInv ==
    ASSUME Inv, NEW p \in Procs, Work(p)
    PROVE  Inv'
<1>1. ShapeOK
  BY DEF Inv
<1>2. p \in Busy /\ UnitMoves(p)
  BY <1>1, WorkMovesUnit
<1> QED
  BY <1>1, <1>2, WorkMovesJob, EndKeepsInv, MoveKeepsInv

\* What a process remembers of a lost or shared lease, and nothing else.
LEMMA UpsetGives ==
    ASSUME ShapeOK, NEW q \in Busy, NEW sharers, NEW lost \in BOOLEAN
    PROVE  /\ Upset(q, sharers, lost) \in Job
           /\ Upset(q, sharers, lost).cmd = job[q].cmd
           /\ Upset(q, sharers, lost).step = job[q].step
           /\ Upset(q, sharers, lost).deaf = job[q].deaf
           /\ Upset(q, sharers, lost).shared = (job[q].shared \/ q \in sharers)
           /\ Upset(q, sharers, lost).lapsed
                 = (job[q].lapsed \/ lost \/ sharers # {})
<1> DEFINE j == job[q]
           s == j.shared \/ q \in sharers
           l == j.lapsed \/ lost \/ sharers # {}
           n == [j EXCEPT !.shared = s, !.lapsed = l]
<1>1. j \in Job
  BY BusyJob
<1>2. Upset(q, sharers, lost) = n
  BY DEF Upset
<1>3. s \in BOOLEAN /\ l \in BOOLEAN
  BY <1>1 DEF Job
<1> HIDE DEF j, s, l
<1>4. n \in Job
  BY <1>1, <1>3 DEF Job
<1>5. /\ n.cmd = j.cmd /\ n.step = j.step /\ n.deaf = j.deaf
      /\ n.shared = s /\ n.lapsed = l
  BY <1>1 DEF Job
<1> HIDE DEF n
<1> QED
  BY <1>2, <1>4, <1>5 DEF j, s, l

\* The Unit changes without a command's doing: a deployment that loses its
\* lease thereby knows it, and no lease comes back that was given up.
LEMMA LapseKeepsInv ==
    ASSUME Inv, NEW u \in Unit, NEW sharers, Lapse(u, sharers), late' \subseteq late,
           u.staged = unit.staged,
           \A q \in Busy \ sharers :
              ~job[q].deaf /\ u.act = AgentOf[q] => unit.act = AgentOf[q]
    PROVE  Inv'
<1> DEFINE lost == \E p \in Busy : unit.act = AgentOf[p] /\ u.act # unit.act
<1>1. ShapeOK /\ AlikeOK /\ LateOK /\ HeldOK /\ StagedOK /\ GivenOK
  BY DEF Inv
<1>2. unit' = u /\ job' = [p \in Procs |-> Upset(p, sharers, lost)] /\ lost \in BOOLEAN
  BY DEF Lapse
<1>3. Busy \subseteq Procs
  BY DEF Busy
<1>4. \A q \in Busy :
          /\ job'[q] \in Job
          /\ job'[q].cmd = job[q].cmd /\ job'[q].step = job[q].step
          /\ job'[q].deaf = job[q].deaf
          /\ job'[q].shared = (job[q].shared \/ q \in sharers)
          /\ job'[q].lapsed = (job[q].lapsed \/ lost \/ sharers # {})
  <2> HIDE DEF lost
  <2> SUFFICES ASSUME NEW q \in Busy
               PROVE  /\ job'[q] \in Job
                      /\ job'[q].cmd = job[q].cmd /\ job'[q].step = job[q].step
                      /\ job'[q].deaf = job[q].deaf
                      /\ job'[q].shared = (job[q].shared \/ q \in sharers)
                      /\ job'[q].lapsed = (job[q].lapsed \/ lost \/ sharers # {})
    OBVIOUS
  <2>1. job'[q] = Upset(q, sharers, lost)
    BY <1>2, <1>3
  <2> QED
    BY <1>1, <1>2, <2>1, UpsetGives
<1>5. \A q \in Procs \ Busy : job'[q] = job[q]
  <2> HIDE DEF lost
  <2> QED
    BY <1>2 DEF Upset
<1>6. \A q \in Busy : job[q] \in Job /\ AgentOf[q] # None
  BY <1>1, BusyJob
<1>7. Busy' = Busy
  BY <1>3, <1>4, <1>5, MarkersAssumption DEF Busy
<1>8. ASSUME NEW q \in Busy, unit.act = AgentOf[q], u.act # AgentOf[q]
      PROVE  lost
  BY <1>8
<1> HIDE DEF lost
<1>9. ShapeOK'
  <2>1. job' \in [Procs -> Job \cup {Idle, Done}]
    <3>1. job' = [p \in Procs |-> job'[p]]
      BY <1>2
    <3>2. \A q \in Procs : job'[q] \in Job \cup {Idle, Done}
      BY <1>1, <1>4, <1>5 DEF ShapeOK
    <3> QED
      BY <3>1, <3>2
  <2> QED
    BY <1>1, <1>2, <1>4, <1>7, <2>1 DEF ShapeOK
<1>10. AlikeOK'
  <2>1. ASSUME NEW p \in Busy, NEW q \in Busy
        PROVE  job'[p].lapsed = job'[q].lapsed
    <3>1. job[p].lapsed = job[q].lapsed
      BY <1>1 DEF AlikeOK
    <3> QED
      BY <1>4, <3>1
  <2>2. ASSUME NEW p \in Busy, job'[p].shared PROVE job'[p].lapsed
    <3>1. job[p].shared => job[p].lapsed
      BY <1>1 DEF AlikeOK
    <3>2. job[p].shared \/ p \in sharers
      BY <1>4, <2>2
    <3>3. job[p].lapsed \/ lost \/ sharers # {}
      BY <3>1, <3>2
    <3> QED
      BY <1>4, <3>3
  <2>3. ASSUME NEW p \in Busy, NEW q \in Busy, p # q, AgentOf[p] = AgentOf[q]
        PROVE  job'[p].shared
    <3>1. job[p].shared
      BY <1>1, <2>3 DEF AlikeOK
    <3> QED
      BY <1>4, <3>1
  <2> QED
    BY <1>7, <2>1, <2>2, <2>3 DEF AlikeOK
<1>11. LateOK'
  <2> SUFFICES ASSUME NEW r \in late', r.op = "acquire"
               PROVE  job'[r.proc] # Idle /\ (r.proc \in Busy' => job'[r.proc].deaf)
    BY DEF LateOK
  <2>1. r \in late /\ r.proc \in Procs
    BY <1>1 DEF ShapeOK, Request
  <2>2. job[r.proc] # Idle /\ (r.proc \in Busy => job[r.proc].deaf)
    BY <1>1, <2>1 DEF LateOK
  <2> QED
    BY <1>4, <1>5, <1>7, <2>1, <2>2, MarkersAssumption
<1>12. HeldOK'
  <2> SUFFICES ASSUME NEW q \in Busy, job'[q].cmd # "rollback",
                      job'[q].step \in HeldSteps, ~job'[q].lapsed
               PROVE  u.act = AgentOf[q]
    BY <1>2, <1>7 DEF HeldOK
  <2>1. ~job[q].lapsed /\ ~lost
    BY <1>4
  <2>2. unit.act = AgentOf[q]
    BY <1>1, <1>4, <2>1 DEF HeldOK
  <2> QED
    BY <1>8, <2>1, <2>2
<1>13. StagedOK'
  BY <1>1, <1>2, <1>4, <1>7 DEF StagedOK
<1>14. GivenOK'
  <2> SUFFICES ASSUME NEW q \in Busy, job'[q].cmd # "rollback",
                      job'[q].step = "leases", ~job'[q].shared, ~job'[q].deaf
               PROVE  u.act # AgentOf[q]
    BY <1>2, <1>7 DEF GivenOK
  <2>1. ~job[q].shared /\ q \notin sharers /\ ~job[q].deaf
    BY <1>4
  <2>2. unit.act # AgentOf[q]
    BY <1>1, <1>4, <2>1 DEF GivenOK
  <2> QED
    BY <2>1, <2>2
<1> QED
  BY <1>9, <1>10, <1>11, <1>12, <1>13, <1>14 DEF Inv

LEMMA ExpiryKeepsInv ==
    ASSUME Inv, LeaseExpires
    PROVE  Inv'
<1> DEFINE u == [unit EXCEPT !.act = None]
<1>1. ShapeOK /\ unit \in Unit
  BY DEF Inv, ShapeOK
<1>2. u \in Unit /\ u.act = None /\ u.staged = unit.staged
  BY <1>1 DEF Unit
<1>3. Lapse(u, {}) /\ late' = late
  BY DEF LeaseExpires
<1>4. \A q \in Busy : AgentOf[q] # None
  BY <1>1, BusyJob
<1> HIDE DEF u
<1> QED
  BY <1>2, <1>3, <1>4, LapseKeepsInv

LEMMA LateKeepsInv ==
    ASSUME Inv, UnitReceivesLate
    PROVE  Inv'
<1>1. ShapeOK /\ LateOK /\ unit \in Unit /\ late \subseteq Request
  BY DEF Inv, ShapeOK
<1>2. PICK r \in late :
          /\ \E o \in Handle(unit, r.op, r.proc, None) :
                Lapse(o.unit, {p \in Busy \ {r.proc} : AgentOf[p] = AgentOf[r.proc]})
          /\ late' = late \ {r}
  BY DEF UnitReceivesLate
<1> DEFINE sharers == {p \in Busy \ {r.proc} : AgentOf[p] = AgentOf[r.proc]}
<1>3. PICK o \in Handle(unit, r.op, r.proc, None) : Lapse(o.unit, sharers)
  BY <1>2
<1>4. r.proc \in Procs /\ r.op \in Query
  BY <1>1, LateAssumption DEF Request, Query
<1>5. Effect(unit, r.op, AgentOf[r.proc], None, o)
  BY <1>1, <1>4, HandleEffect
<1>6. o.unit \in Unit /\ o.unit.staged = unit.staged
  BY <1>5 DEF Effect
<1>7. ASSUME NEW q \in Busy \ sharers, ~job[q].deaf, o.unit.act = AgentOf[q]
      PROVE  unit.act = AgentOf[q]
  <2> SUFFICES ASSUME unit.act # AgentOf[q] PROVE FALSE
    OBVIOUS
  <2>1. AgentOf[q] # None
    BY <1>1, BusyJob
  <2>2. r.op = "acquire" /\ AgentOf[q] = AgentOf[r.proc]
    BY <1>5, <1>7, <2>1 DEF Effect
  <2>3. q = r.proc
    BY <1>7, <2>2
  <2> QED
    BY <1>1, <1>7, <2>2, <2>3 DEF LateOK
<1> HIDE DEF sharers
<1> QED
  BY <1>2, <1>3, <1>6, <1>7, LapseKeepsInv

LEMMA OperatorKeepsInv ==
    ASSUME Inv, NEW a \in Operators \cup {None}, OperatorLeases(a)
    PROVE  Inv'
<1>1. unit \in Unit /\ unit' = [unit EXCEPT !.rb = a] /\ job' = job /\ late' = late
  BY DEF Inv, ShapeOK, OperatorLeases
<1>2. a \in Agents \cup {None}
  BY OperatorsAssumption
<1>3. unit' \in Unit /\ unit'.act = unit.act /\ unit'.staged = unit.staged
  BY <1>1, <1>2 DEF Unit
<1>4. Busy' = Busy
  BY <1>1 DEF Busy
<1> QED
  BY <1>1, <1>3, <1>4 DEF Inv, ShapeOK, AlikeOK, LateOK, HeldOK, StagedOK, GivenOK

LEMMA RefusedKeepsInv ==
    ASSUME Inv, NEW p \in Procs, NotAdmitted(p)
    PROVE  Inv'
<1>1. /\ job[p] = Idle /\ job' = [job EXCEPT ![p] = Done]
      /\ unit' = unit /\ late' = late
  BY DEF NotAdmitted
<1>2. job \in [Procs -> Job \cup {Idle, Done}] /\ late \subseteq Request
  BY DEF Inv, ShapeOK
<1>3. job'[p] = Done /\ \A q \in Procs \ {p} : job'[q] = job[q]
  BY <1>1, <1>2
<1>4. Busy' = Busy /\ \A q \in Busy : q # p /\ job'[q] = job[q]
  BY <1>1, <1>3 DEF Busy
<1>5. ShapeOK'
  <2>1. job' \in [Procs -> Job \cup {Idle, Done}]
    BY <1>1, <1>2
  <2> QED
    BY <1>1, <1>4, <2>1 DEF Inv, ShapeOK
<1>6. AlikeOK'
  BY <1>4 DEF Inv, AlikeOK
<1>7. LateOK'
  <2> SUFFICES ASSUME NEW r \in late, r.op = "acquire"
               PROVE  job'[r.proc] # Idle /\ (r.proc \in Busy => job'[r.proc].deaf)
    BY <1>1, <1>4 DEF LateOK
  <2>1. job[r.proc] # Idle /\ (r.proc \in Busy => job[r.proc].deaf)
    BY DEF Inv, LateOK
  <2>2. r.proc \in Procs /\ r.proc # p
    BY <1>1, <1>2, <2>1 DEF Request
  <2> QED
    BY <1>3, <2>1, <2>2
<1>8. HeldOK' /\ StagedOK' /\ GivenOK'
  BY <1>1, <1>4 DEF Inv, HeldOK, StagedOK, GivenOK
<1> QED
  BY <1>5, <1>6, <1>7, <1>8 DEF Inv

\* A command begins: it works under no lease yet, and if it will share one, all
\* commands of its agent know.
LEMMA BeginKeepsInv ==
    ASSUME Inv, NEW p \in Procs, NEW c \in MayRun[p], NEW approved \in BOOLEAN,
           Begin(p, c, approved)
    PROVE  Inv'
<1> DEFINE same == {q \in Busy : AgentOf[q] = AgentOf[p]}
           known == \E q \in Busy : job[q].lapsed
           new == [cmd |-> c, step |-> FirstStep(c, approved), tries |-> 0,
                   failed |-> c # "prepare_verify" /\ ~approved, deaf |-> FALSE,
                   shared |-> same # {}, lapsed |-> same # {} \/ known]
<1>1. ShapeOK /\ AlikeOK /\ LateOK /\ HeldOK /\ StagedOK /\ GivenOK
  BY DEF Inv
<1>2. /\ job[p] = Idle /\ unit' = unit /\ late' = late
      /\ job' = [q \in Procs |-> IF q = p THEN new ELSE Upset(q, same, FALSE)]
  BY DEF Begin
<1>3. c \in {"prepare_verify", "activate", "rollback"}
  BY MayRunAssumption DEF Commands
<1>4. /\ FirstStep(c, approved) \in {"preflight", "resolve", "answer"}
      /\ FirstStep(c, approved) \in StepsOf[c]
  <2>1. Head(Plan["prepare_verify"]) = "preflight"
    BY DEF Plan, VerifyPlan, CleanupPlan
  <2>2. Head(Plan["activate"]) = "preflight"
    BY DEF Plan, VerifyPlan, CleanupPlan
  <2>3. Head(Plan["rollback"]) = "resolve"
    BY DEF Plan, RollbackPlan
  <2> QED
    BY <1>3, <2>1, <2>2, <2>3 DEF FirstStep, StepsOf
<1>5. /\ new \in Job /\ new.cmd = c /\ new.step = FirstStep(c, approved)
      /\ new.shared = (same # {}) /\ new.lapsed = (same # {} \/ known)
  <2>1. 0 \in 0..(MaxAttempts - 1)
    BY BoundsAssumption
  <2>2. FirstStep(c, approved) \in Query \cup {"answer"}
    BY <1>4 DEF Query
  <2>3. known \in BOOLEAN /\ (same # {}) \in BOOLEAN
    OBVIOUS
  <2> HIDE DEF same, known
  <2> QED
    BY <1>3, <2>1, <2>2, <2>3 DEF Job, Commands
<1>6. Busy \subseteq Procs /\ p \notin Busy
  BY <1>2 DEF Busy
<1>7. same \subseteq Busy /\ \A q \in Busy : AgentOf[q] = AgentOf[p] => q \in same
  OBVIOUS
<1>8. ASSUME NEW q \in Busy PROVE known = job[q].lapsed
  <2>1. job[q].lapsed \in BOOLEAN
    BY <1>1, BusyJob DEF Job
  <2>2. \A r \in Busy : job[r].lapsed = job[q].lapsed
    BY <1>1 DEF AlikeOK
  <2> QED
    BY <2>1, <2>2
<1>9. known \in BOOLEAN
  OBVIOUS
<1> HIDE DEF same, known, new
<1>10. job'[p] = new
  BY <1>2
<1>11. ASSUME NEW q \in Busy
       PROVE  /\ job'[q] \in Job
              /\ job'[q].cmd = job[q].cmd /\ job'[q].step = job[q].step
              /\ job'[q].deaf = job[q].deaf
              /\ job'[q].shared = (job[q].shared \/ q \in same)
              /\ job'[q].lapsed = (job[q].lapsed \/ same # {})
  <2> DEFINE lost == FALSE
             n == Upset(q, same, lost)
  <2>1. job'[q] = n /\ lost \in BOOLEAN
    BY <1>2, <1>6
  <2> HIDE DEF lost
  <2>2. /\ n \in Job /\ n.cmd = job[q].cmd /\ n.step = job[q].step
        /\ n.deaf = job[q].deaf /\ n.shared = (job[q].shared \/ q \in same)
        /\ n.lapsed = (job[q].lapsed \/ lost \/ same # {})
    BY <1>1, <2>1, UpsetGives
  <2> HIDE DEF n
  <2> QED
    BY <2>1, <2>2 DEF lost
<1>12. \A q \in Procs \ (Busy \cup {p}) : job'[q] = job[q]
  BY <1>2 DEF Upset
<1>13. Busy' = Busy \cup {p}
  BY <1>5, <1>6, <1>10, <1>11, <1>12, MarkersAssumption DEF Busy
<1>14. ShapeOK'
  <2>1. job' \in [Procs -> Job \cup {Idle, Done}]
    <3>1. job' = [q \in Procs |-> job'[q]]
      BY <1>2
    <3>2. \A q \in Procs : job'[q] \in Job \cup {Idle, Done}
      BY <1>1, <1>5, <1>10, <1>11, <1>12 DEF ShapeOK
    <3> QED
      BY <3>1, <3>2
  <2>2. \A q \in Busy' : job'[q].step \in StepsOf[job'[q].cmd]
    BY <1>1, <1>4, <1>5, <1>10, <1>11, <1>13 DEF ShapeOK
  <2> QED
    BY <1>1, <1>2, <2>1, <2>2 DEF ShapeOK
<1>15. AlikeOK'
  <2>1. ASSUME NEW q \in Busy' PROVE job'[q].lapsed = (known \/ same # {})
    <3>1. CASE q = p
      BY <1>5, <1>9, <1>10, <3>1
    <3>2. CASE q \in Busy
      BY <1>8, <1>11, <3>2
    <3> QED
      BY <1>13, <3>1, <3>2
  <2>2. ASSUME NEW q \in Busy', job'[q].shared PROVE job'[q].lapsed
    <3>1. CASE q = p
      BY <1>5, <1>10, <2>2, <3>1
    <3>2. CASE q \in Busy
      <4>1. job[q].shared => job[q].lapsed
        BY <1>1, <3>2 DEF AlikeOK
      <4>2. job[q].shared \/ q \in same
        BY <1>11, <2>2, <3>2
      <4>3. job[q].lapsed \/ same # {}
        BY <4>1, <4>2
      <4> QED
        BY <1>11, <3>2, <4>3
    <3> QED
      BY <1>13, <3>1, <3>2
  <2>3. ASSUME NEW q \in Busy', NEW r \in Busy', q # r, AgentOf[q] = AgentOf[r]
        PROVE  job'[q].shared
    <3>1. CASE q = p
      <4>1. r \in same
        BY <1>7, <1>13, <2>3, <3>1
      <4> QED
        BY <1>5, <1>10, <3>1, <4>1
    <3>2. CASE q # p /\ r = p
      <4>1. q \in Busy /\ q \in same
        BY <1>7, <1>13, <2>3, <3>2
      <4> QED
        BY <1>11, <4>1
    <3>3. CASE q # p /\ r # p
      <4>1. q \in Busy /\ r \in Busy
        BY <1>13, <3>3
      <4>2. job[q].shared
        BY <1>1, <2>3, <4>1 DEF AlikeOK
      <4> QED
        BY <1>11, <4>1, <4>2
    <3> QED
      BY <3>1, <3>2, <3>3
  <2> QED
    BY <2>1, <2>2, <2>3 DEF AlikeOK
<1>16. LateOK'
  <2> SUFFICES ASSUME NEW r \in late, r.op = "acquire"
               PROVE  job'[r.proc] # Idle /\ (r.proc \in Busy' => job'[r.proc].deaf)
    BY <1>2 DEF LateOK
  <2>1. job[r.proc] # Idle /\ (r.proc \in Busy => job[r.proc].deaf)
    BY <1>1 DEF LateOK
  <2>2. r.proc \in Procs /\ r.proc # p
    BY <1>1, <1>2, <2>1 DEF ShapeOK, Request
  <2>3. CASE r.proc \in Busy
    BY <1>11, <2>1, <2>3, MarkersAssumption
  <2>4. CASE r.proc \notin Busy
    BY <1>12, <1>13, <2>1, <2>2, <2>4
  <2> QED
    BY <2>3, <2>4
<1>17. job'[p].step \notin HeldSteps \cup {"leases"}
  BY <1>4, <1>5, <1>10 DEF HeldSteps
<1>18. HeldOK'
  <2> SUFFICES ASSUME NEW q \in Busy', job'[q].cmd # "rollback",
                      job'[q].step \in HeldSteps, ~job'[q].lapsed
               PROVE  unit.act = AgentOf[q]
    BY <1>2 DEF HeldOK
  <2>1. q \in Busy
    BY <1>13, <1>17
  <2> QED
    BY <1>1, <1>11, <2>1 DEF HeldOK
<1>19. StagedOK'
  <2> SUFFICES ASSUME NEW q \in Busy', job'[q].cmd # "rollback",
                      job'[q].step \in {"verify", "activate"}, ~job'[q].lapsed
               PROVE  unit.staged \in {q, Other}
    BY <1>2 DEF StagedOK
  <2>1. q \in Busy
    BY <1>13, <1>17 DEF HeldSteps
  <2> QED
    BY <1>1, <1>11, <2>1 DEF StagedOK
<1>20. GivenOK'
  <2> SUFFICES ASSUME NEW q \in Busy', job'[q].cmd # "rollback",
                      job'[q].step = "leases", ~job'[q].shared, ~job'[q].deaf
               PROVE  unit.act # AgentOf[q]
    BY <1>2 DEF GivenOK
  <2>1. q \in Busy
    BY <1>13, <1>17
  <2> QED
    BY <1>1, <1>11, <2>1 DEF GivenOK
<1> QED
  BY <1>14, <1>15, <1>16, <1>18, <1>19, <1>20 DEF Inv

LEMMA InitInv == Init => Inv
<1> SUFFICES ASSUME Init PROVE Inv
  OBVIOUS
<1>1. Busy = {} /\ late = {}
  BY DEF Init, Busy
<1>2. unit \in Unit
  BY DEF Init, Unit
<1>3. job \in [Procs -> Job \cup {Idle, Done}]
  BY DEF Init
<1> QED
  BY <1>1, <1>2, <1>3
  DEF Inv, ShapeOK, AlikeOK, LateOK, HeldOK, StagedOK, GivenOK

LEMMA NextInv == Inv /\ [Next]_vars => Inv'
<1> SUFFICES ASSUME Inv, [Next]_vars PROVE Inv'
  OBVIOUS
<1>1. CASE UNCHANGED vars
  <2>1. Busy' = Busy
    BY <1>1 DEF vars, Busy
  <2> QED
    BY <1>1, <2>1
    DEF vars, Inv, ShapeOK, AlikeOK, LateOK, HeldOK, StagedOK, GivenOK
<1>2. CASE \E p \in Procs : Work(p)
  BY <1>2, WorkKeepsInv
<1>3. CASE \E p \in Procs : NotAdmitted(p)
  BY <1>3, RefusedKeepsInv
<1>4. CASE \E p \in Procs, approved \in BOOLEAN :
              \E c \in MayRun[p] : Begin(p, c, approved)
  BY <1>4, BeginKeepsInv
<1>5. CASE UnitReceivesLate
  BY <1>5, LateKeepsInv
<1>6. CASE LeaseExpires
  BY <1>6, ExpiryKeepsInv
<1>7. CASE \E a \in Operators \cup {None} : OperatorLeases(a)
  BY <1>7, OperatorKeepsInv
<1> QED
  BY <1>1, <1>2, <1>3, <1>4, <1>5, <1>6, <1>7 DEF Next

-----------------------------------------------------------------------------
\* What the invariant is for: while no lease is lost or shared, the lease keeps
\* every artifact but the command's own out of what it activates.
THEOREM OwnArtifactIsActivated == Spec => ActivatesAdmitted
<1>1. Spec => []Inv
  BY InitInv, NextInv, PTL DEF Spec
<1>2. Inv => [\A p \in Busy :
                 (/\ job[p].step = "activate" /\ job'[p] # job[p]
                  /\ unit.state = "VERIFIED" /\ unit'.state = "ACTIVE"
                  /\ ~job[p].lapsed)
                 => unit.staged \in {p, Other}]_vars
  <2> SUFFICES ASSUME Inv, NEW p \in Busy, job[p].step = "activate", ~job[p].lapsed
               PROVE  unit.staged \in {p, Other}
    OBVIOUS
  <2>1. job[p] \in Job /\ job[p].step \in StepsOf[job[p].cmd]
    BY BusyJob DEF Inv, ShapeOK
  <2>2. job[p].cmd # "rollback"
    BY <2>1 DEF StepsOf
  <2> QED
    BY <2>2 DEF Inv, StagedOK
<1> QED
  BY <1>1, <1>2, PTL DEF ActivatesAdmitted

\* Only a command's own step takes it to its answer.
LEMMA AnswerIsOwnStep ==
    ASSUME Inv, [Next]_vars, NEW p \in Busy, job[p].step # "answer",
           job'[p] # Done, job'[p].step = "answer"
    PROVE  Work(p)
<1>1. ShapeOK /\ p \in Procs /\ job[p] # Idle
  BY BusyJob DEF Inv
<1>2. CASE UNCHANGED vars
  BY <1>2 DEF vars
<1>3. CASE \E q \in Procs : Work(q)
  <2>1. PICK q \in Procs : Work(q)
    BY <1>3
  <2>2. \/ job' = [job EXCEPT ![q] = Done]
        \/ \E n : job' = [job EXCEPT ![q] = n]
    BY <1>1, <2>1, WorkMovesJob DEF JobMoves
  <2>3. q # p => job'[p] = job[p]
    BY <1>1, <2>2 DEF ShapeOK
  <2> QED
    BY <2>1, <2>3
<1>4. CASE \E q \in Procs : NotAdmitted(q)
  <2>1. PICK q \in Procs : job[q] = Idle /\ job' = [job EXCEPT ![q] = Done]
    BY <1>4 DEF NotAdmitted
  <2> QED
    BY <1>1, <2>1 DEF ShapeOK
<1>5. CASE \E q \in Procs, approved \in BOOLEAN :
              \E c \in MayRun[q] : Begin(q, c, approved)
  <2>a. PICK q \in Procs, approved \in BOOLEAN :
            \E c \in MayRun[q] : Begin(q, c, approved)
    BY <1>5
  <2>1. PICK c \in MayRun[q] : Begin(q, c, approved)
    BY <2>a
  <2> DEFINE same == {r \in Busy : AgentOf[r] = AgentOf[q]}
             lost == FALSE
  <2>2. job[q] = Idle /\ job'[p] = IF q = p THEN job'[p] ELSE Upset(p, same, lost)
    BY <1>1, <2>1 DEF Begin
  <2>3. lost \in BOOLEAN
    OBVIOUS
  <2> HIDE DEF lost, same
  <2>4. Upset(p, same, lost).step = job[p].step
    BY <1>1, <2>3, UpsetGives
  <2> QED
    BY <1>1, <2>2, <2>4
<1>6. CASE UnitReceivesLate \/ LeaseExpires
  <2>1. PICK u, sharers : Lapse(u, sharers)
    BY <1>6 DEF UnitReceivesLate, LeaseExpires
  <2> DEFINE lost == \E q \in Busy : unit.act = AgentOf[q] /\ u.act # unit.act
  <2>2. job'[p] = Upset(p, sharers, lost) /\ lost \in BOOLEAN
    BY <1>1, <2>1 DEF Lapse
  <2> HIDE DEF lost
  <2>3. Upset(p, sharers, lost).step = job[p].step
    BY <1>1, <2>2, UpsetGives
  <2> QED
    BY <2>2, <2>3
<1>7. CASE \E a \in Operators \cup {None} : OperatorLeases(a)
  BY <1>7 DEF OperatorLeases
<1> QED
  BY <1>2, <1>3, <1>4, <1>5, <1>6, <1>7 DEF Next

\* Every path of a deployment from its acquire to its answer gives the lease
\* back, unless a reply was missed or the lease was shared; an ok always does.
THEOREM LeaseIsGivenBack == Spec => LeaseGivenBack
<1>1. Spec => []Inv
  BY InitInv, NextInv, PTL DEF Spec
<1>2. Inv /\ [Next]_vars =>
         [\A p \in Busy :
            (/\ job'[p] # job[p] /\ job'[p] # Done /\ job'[p].step = "answer"
             /\ job[p].cmd # "rollback" /\ job[p].step \notin {"preflight", "answer"}
             /\ ~job'[p].shared
             /\ (job'[p].failed => ~job'[p].deaf))
            => unit'.act # AgentOf[p]]_vars
  <2> SUFFICES ASSUME Inv, [Next]_vars, NEW p \in Busy, job'[p] # Done,
                      job'[p].step = "answer", job[p].cmd # "rollback",
                      job[p].step \notin {"preflight", "answer"},
                      ~job'[p].shared, job'[p].failed => ~job'[p].deaf
               PROVE  unit'.act # AgentOf[p]
    OBVIOUS
  <2>1. ShapeOK /\ p \in Procs /\ AgentOf[p] # None /\ Work(p)
    BY BusyJob, AnswerIsOwnStep DEF Inv
  <2>2. job' # [job EXCEPT ![p] = Done]
    BY <2>1 DEF ShapeOK
  <2>3. PICK n : JobMoves(p, n)
    BY <2>1, <2>2, WorkMovesJob
  <2>4. job'[p] = n
    BY <2>1, <2>3 DEF JobMoves, ShapeOK
  <2>5. /\ n.shared = job[p].shared /\ (job[p].deaf => n.deaf)
        /\ \/ job[p].step = "acquire" /\ n.failed /\ (~n.deaf => unit'.act # AgentOf[p])
           \/ /\ job[p].step = "leases" /\ unit'.act = unit.act
              /\ n.failed \/ unit'.act = None
    BY <2>3, <2>4 DEF JobMoves
  <2>6. CASE job[p].step = "leases" /\ unit'.act = unit.act /\ n.failed
    BY <2>4, <2>5, <2>6 DEF Inv, GivenOK
  <2> QED
    BY <2>1, <2>4, <2>5, <2>6
<1> QED
  BY <1>1, <1>2, PTL DEF Spec, LeaseGivenBack

-----------------------------------------------------------------------------
\* Every command is bounded.  How many queries of its plan and cleanup are ahead
\* of a command, at most.
Place(c, step) ==
    CASE c = "rollback" ->
            (CASE step = "resolve"  -> 4
               [] step = "rollback" -> 3
               [] step = "apps"     -> 2
               [] step = "leases"   -> 1
               [] OTHER             -> 0)
      [] c # "rollback" ->
            (CASE step = "preflight"           -> 9
               [] step = "acquire"             -> 8
               [] step = "prepare"             -> 7
               [] step = "verify"              -> 6
               [] step = "activate"            -> 5
               [] step = "health"              -> 4
               [] step \in {"observe", "apps"} -> 3
               [] step = "release"             -> 2
               [] step = "leases"              -> 1
               [] OTHER                        -> 0)

\* A process has ended, has fewer queries ahead, or has used one more of the
\* attempts of its query.
Advances(p) ==
    \/ job'[p] = Done
    \/ /\ job'[p] \in Job /\ job'[p].cmd = job[p].cmd
       /\ \/ Place(job[p].cmd, job'[p].step) < Place(job[p].cmd, job[p].step)
          \/ job'[p].step = job[p].step /\ job'[p].tries = job[p].tries + 1

Stays(p) ==
    /\ job'[p].cmd = job[p].cmd /\ job'[p].step = job[p].step
    /\ job'[p].tries = job[p].tries

\* A command has at most nine queries ahead, each of at most MaxAttempts attempts.
Bounded ==
    \A p \in Busy : /\ Place(job[p].cmd, job[p].step) \in 0 .. 9
                    /\ job[p].tries \in 0 .. MaxAttempts - 1

\* Whatever the answers, a command never returns to a query it has left.
LEMMA PlaceFalls ==
    ASSUME NEW j \in Job, j.step \in StepsOf[j.cmd] \ {"answer"},
           NEW good \in BOOLEAN, j.step = "observe" => ~good,
           NEW s, s = IF good THEN AfterGood(j) ELSE AfterBad(j)
    PROVE  Place(j.cmd, s) < Place(j.cmd, j.step)
<1>1. j.cmd \in {"prepare_verify", "activate", "rollback"}
  BY DEF Job, Commands
<1>2. good => s = NextStep(j.cmd, j.step)
  BY AfterGoodNext
<1>3. ~good => s = IF j.cmd = "rollback" THEN AfterBadRollback(j.step)
                   ELSE AfterBadDeploy(j.step)
  BY DEF AfterBad
<1>4. CASE j.cmd = "prepare_verify"
  <2>1. j.step \in {"preflight", "acquire", "prepare", "verify", "release", "leases"}
    BY <1>4 DEF StepsOf
  <2>2. CASE good
    BY <1>2, <1>4, <2>1, <2>2 DEF NextStep, Place
  <2>3. CASE ~good
    BY <1>3, <1>4, <2>1, <2>3 DEF AfterBadDeploy, Place
  <2> QED
    BY <2>2, <2>3
<1>5. CASE j.cmd = "activate"
  <2>1. j.step \in {"preflight", "acquire", "prepare", "verify", "activate",
                    "health", "observe", "apps", "release", "leases"}
    BY <1>5 DEF StepsOf
  <2>2. CASE good
    BY <1>2, <1>5, <2>1, <2>2 DEF NextStep, Place
  <2>3. CASE ~good
    BY <1>3, <1>5, <2>1, <2>3 DEF AfterBadDeploy, Place
  <2> QED
    BY <2>2, <2>3
<1>6. CASE j.cmd = "rollback"
  <2>1. j.step \in {"resolve", "rollback", "apps", "leases"}
    BY <1>6 DEF StepsOf
  <2>2. CASE good
    BY <1>2, <1>6, <2>1, <2>2 DEF NextStep, Place
  <2>3. CASE ~good
    BY <1>3, <1>6, <2>1, <2>3 DEF AfterBadRollback, Place
  <2> QED
    BY <2>2, <2>3
<1> QED
  BY <1>1, <1>4, <1>5, <1>6

LEMMA BoundedIs == Inv => Bounded
<1> SUFFICES ASSUME Inv, NEW p \in Busy
             PROVE  /\ Place(job[p].cmd, job[p].step) \in 0 .. 9
                    /\ job[p].tries \in 0 .. MaxAttempts - 1
  BY DEF Bounded
<1>1. job[p] \in Job
  BY BusyJob DEF Inv
<1>2. Place(job[p].cmd, job[p].step) \in 0 .. 9
  BY DEF Place
<1> QED
  BY <1>1, <1>2 DEF Job

LEMMA AdvanceAdvances ==
    ASSUME ShapeOK, NEW p \in Busy, job[p].step \in Query,
           NEW good \in BOOLEAN, NEW heard \in BOOLEAN, Advance(p, good, heard),
           job[p].step = "observe" => ~good
    PROVE  Advances(p)
<1>1. PICK n \in Job :
          /\ job' = [job EXCEPT ![p] = n] /\ n.cmd = job[p].cmd
          /\ n.step = IF good THEN AfterGood(job[p]) ELSE AfterBad(job[p])
  BY AdvanceGives
<1>2. job[p] \in Job /\ p \in Procs
  BY BusyJob
<1>3. job[p].step \in StepsOf[job[p].cmd] \ {"answer"}
  BY DEF ShapeOK, Query
<1>4. Place(job[p].cmd, n.step) < Place(job[p].cmd, job[p].step)
  BY <1>1, <1>2, <1>3, PlaceFalls
<1>5. job'[p] = n
  BY <1>1, <1>2 DEF ShapeOK
<1> QED
  BY <1>1, <1>4, <1>5 DEF Advances

LEMMA WorkAdvances ==
    ASSUME ShapeOK, NEW p \in Procs, Work(p)
    PROVE  Advances(p)
<1>a. p \in Busy /\ job[p] \in Job
  BY WorkMovesUnit, BusyJob
<1>1. CASE Replied(p)
  <2>1. job[p].step \in Query
    BY <1>1 DEF Replied, Querying
  <2>2. PICK o \in Sends(p) : Advance(p, Satisfies(job[p], o.unit, o.ok), TRUE)
    BY <1>1 DEF Replied
  <2>3. PICK image \in {p, Other, None} :
            Effect(unit, job[p].step, AgentOf[p], image, o)
    BY <1>a, <2>1, SendsEffect
  <2>4. o.ok \in BOOLEAN
    BY <2>3 DEF Effect
  <2>5. PICK good : good = Satisfies(job[p], o.unit, o.ok)
    OBVIOUS
  <2>6. good \in BOOLEAN
    BY <2>4, <2>5, SatisfiesIsBoolean
  <2>7. job[p].step = "observe" => ~good
    BY <2>5 DEF Satisfies
  <2>8. Advance(p, good, TRUE)
    BY <2>2, <2>5
  <2> QED
    BY <1>a, <2>1, <2>6, <2>7, <2>8, AdvanceAdvances
<1>2. CASE Unusable(p)
  BY <1>2, <1>a, AdvanceAdvances DEF Unusable, Querying
<1>3. CASE NoReply(p)
  <2>1. job[p].step \in Query
    BY <1>3 DEF NoReply, Unanswered, Querying
  <2>2. CASE job[p].tries + 1 < MaxAttempts
    <3>1. job' = [job EXCEPT ![p].tries = @ + 1, ![p].deaf = @ \/ AboutLease(p)]
      BY <1>3, <2>2 DEF NoReply
    <3>2. PICK d : d = (job[p].deaf \/ AboutLease(p))
      OBVIOUS
    <3>3. d \in BOOLEAN
      BY <1>a, <3>2 DEF Job, AboutLease
    <3>4. job'[p] = [job[p] EXCEPT !.tries = job[p].tries + 1, !.deaf = d]
      BY <3>1, <3>2 DEF ShapeOK
    <3>5. job[p].tries + 1 \in 0..(MaxAttempts - 1)
      BY <1>a, <2>2, BoundsAssumption DEF Job
    <3>6. /\ job'[p] \in Job /\ job'[p].cmd = job[p].cmd
          /\ job'[p].step = job[p].step /\ job'[p].tries = job[p].tries + 1
      BY <1>a, <3>3, <3>4, <3>5 DEF Job
    <3> QED
      BY <3>6 DEF Advances
  <2>3. CASE ~(job[p].tries + 1 < MaxAttempts)
    <3>1. Advance(p, FALSE, FALSE)
      BY <1>3, <2>3 DEF NoReply
    <3> QED
      BY <1>a, <2>1, <3>1, AdvanceAdvances
  <2> QED
    BY <2>2, <2>3
<1>4. CASE Raises(p) \/ Answer(p)
  BY <1>4 DEF Raises, Answer, Advances, ShapeOK
<1> QED
  BY <1>1, <1>2, <1>3, <1>4 DEF Work

\* What others do, or the Unit, leaves a command where it is.
LEMMA UpsetStays ==
    ASSUME ShapeOK, NEW p \in Busy, NEW sharers, NEW lost \in BOOLEAN,
           job'[p] = Upset(p, sharers, lost)
    PROVE  Stays(p)
<1>1. job[p] \in Job
  BY BusyJob
<1>2. PICK s, l : job'[p] = [job[p] EXCEPT !.shared = s, !.lapsed = l]
  BY DEF Upset
<1> QED
  BY <1>1, <1>2 DEF Stays, Job

LEMMA OthersLeaveIt ==
    ASSUME Inv, [Next]_vars, NEW p \in Busy
    PROVE  Advances(p) \/ Stays(p)
<1>1. ShapeOK /\ p \in Procs /\ job[p] # Idle
  BY BusyJob DEF Inv
<1>a. job'[p] = job[p] => Stays(p)
  BY DEF Stays
<1>2. CASE UNCHANGED vars
  BY <1>2, <1>a DEF vars
<1>3. CASE \E q \in Procs : Work(q)
  <2>1. PICK q \in Procs : Work(q)
    BY <1>3
  <2>2. \/ job' = [job EXCEPT ![q] = Done]
        \/ \E n : job' = [job EXCEPT ![q] = n]
    BY <1>1, <2>1, WorkMovesJob DEF JobMoves
  <2>3. q # p => job'[p] = job[p]
    BY <1>1, <2>2 DEF ShapeOK
  <2> QED
    BY <1>1, <1>a, <2>1, <2>3, WorkAdvances
<1>4. CASE \E q \in Procs : NotAdmitted(q)
  <2>1. PICK q \in Procs : job[q] = Idle /\ job' = [job EXCEPT ![q] = Done]
    BY <1>4 DEF NotAdmitted
  <2> QED
    BY <1>1, <1>a, <2>1 DEF ShapeOK
<1>5. CASE \E q \in Procs, approved \in BOOLEAN :
              \E c \in MayRun[q] : Begin(q, c, approved)
  <2>a. PICK q \in Procs, approved \in BOOLEAN :
            \E c \in MayRun[q] : Begin(q, c, approved)
    BY <1>5
  <2>1. PICK c \in MayRun[q] : Begin(q, c, approved)
    BY <2>a
  <2>2. PICK same : same = {r \in Busy : AgentOf[r] = AgentOf[q]}
    OBVIOUS
  <2>3. job[q] = Idle /\ (q # p => job'[p] = Upset(p, same, FALSE))
    BY <1>1, <2>1, <2>2 DEF Begin
  <2> QED
    BY <1>1, <2>3, UpsetStays
<1>6. CASE UnitReceivesLate \/ LeaseExpires
  <2>1. PICK u, sharers : Lapse(u, sharers)
    BY <1>6 DEF UnitReceivesLate, LeaseExpires
  <2>2. PICK lost : lost = \E q \in Busy : unit.act = AgentOf[q] /\ u.act # unit.act
    OBVIOUS
  <2>3. job'[p] = Upset(p, sharers, lost) /\ lost \in BOOLEAN
    BY <1>1, <2>1, <2>2 DEF Lapse
  <2> QED
    BY <1>1, <2>3, UpsetStays
<1>7. CASE \E a \in Operators \cup {None} : OperatorLeases(a)
  BY <1>7, <1>a DEF OperatorLeases
<1> QED
  BY <1>2, <1>3, <1>4, <1>5, <1>6, <1>7 DEF Next

\* A command never goes back: each of its own steps ends it, takes it to a later
\* query or counts an attempt, and nothing that other commands, the operators,
\* the clock or a late request do moves it.
CommandsAdvance ==
    [][\A p \in Procs : /\ Work(p) => Advances(p)
                        /\ p \in Busy => Advances(p) \/ Stays(p)]_vars

\* For any number of processes and any number of retries: a deploy command makes
\* at most nine queries, each at most MaxAttempts times, whatever the Unit and
\* the other commands do.  With processes that keep running this is why every
\* command ends.
THEOREM CommandsAreBounded == Spec => []Bounded /\ CommandsAdvance
<1>1. Spec => []Inv
  BY InitInv, NextInv, PTL DEF Spec
<1>2. Inv /\ [Next]_vars =>
         [\A p \in Procs : /\ Work(p) => Advances(p)
                           /\ p \in Busy => Advances(p) \/ Stays(p)]_vars
  BY WorkAdvances, OthersLeaveIt DEF Inv
<1> QED
  BY <1>1, <1>2, BoundedIs, PTL DEF Spec, CommandsAdvance
=============================================================================
