-------------------------- MODULE Approval_proofs ---------------------------
(***************************************************************************)
(* Decisions on approval requests, for any number of requests, operators   *)
(* and leases: what the database says of a request is what happened.       *)
(***************************************************************************)
EXTENDS Approval, TLAPS

\* The types the other parts need.
RowTypeOK ==
    /\ request \in [Requests -> Request \cup {NoRequest}]
    /\ results \in [Requests -> SUBSET {"ok", "error"}]
    /\ audits \in [Requests -> Nat]
    /\ decisions \in [Requests -> SUBSET (Decision \cup {"blocked"})]
    /\ job \in [Operators -> Job \cup {Idle}]
    /\ lease \in [Resource -> LeaseIds \cup {NoLease}]
    /\ runs \in [Requests -> Nat]

Before == {"gate", "block", "keep", "execute", "result", "audit"}

\* What a process has committed by the time it reaches a step.
Committed(o, j) ==
    LET r == j.request
    IN  /\ request[r] # NoRequest
        /\ j.step \in Before => j.decision = "approve"
        /\ j.step = "result" => j.outcome \in {"ok", "error"}
        /\ j.step = "audit" => results[r] # {}
        /\ j.step \in {"decide", "settle"} /\ j.decision = "approve" =>
              results[r] # {} /\ audits[r] > 0
        /\ j.step = "settle" => j.decision \in decisions[r]

\* How far a process has come with the commands of its tool.
Progress(j) ==
    LET r == j.request
    IN  /\ j.done > 0 => runs[r] > 0
        /\ j.step = "gate" => j.done = 0
        /\ j.step \in {"gate", "execute"} => j.outcome = "none"
        /\ j.step = "execute" => j.done < request[r].contract.commands
        /\ j.outcome = "ok" => j.done = request[r].contract.commands

\* A process alone with a clean request: the request is still pending, and
\* what it has done to the Unit follows from its step.
Alone(o, j) ==
    LET r == j.request
    IN  /\ request[r].status = "pending"
        /\ j.step \in {"gate", "block", "keep"} =>
              j.done = 0 /\ runs[r] = 0 /\ audits[r] = 0
        /\ j.step = "execute" =>
              audits[r] = 0 /\ runs[r] = IF j.done = 0 THEN 0 ELSE 1
        /\ j.step \in {"result", "audit"} => audits[r] = 0 /\ runs[r] <= 1
        /\ j.step \in {"decide", "settle"} =>
              IF j.decision = "approve" THEN audits[r] = 1 /\ runs[r] <= 1
                                        ELSE audits[r] = 0 /\ runs[r] = 0

\* Two processes on a clean request are the same.
Single ==
    \A o, p \in Operators :
        (/\ job[o] # Idle /\ job[p] # Idle
         /\ job[o].request = job[p].request
         /\ job[o].request \in clean) => o = p

\* Nothing has happened to a request that has not been made.
Untouched ==
    \A r \in Requests :
        request[r] = NoRequest => runs[r] = 0 /\ audits[r] = 0

AllCommitted == \A o \in Operators : job[o] # Idle => Committed(o, job[o])
AllProgress == \A o \in Operators : job[o] # Idle => Progress(job[o])
AllAlone ==
    \A o \in Operators :
        (job[o] # Idle /\ job[o].request \in clean) => Alone(o, job[o])

IInv ==
    /\ RowTypeOK
    /\ clean \subseteq Requests
    /\ Untouched
    /\ AllCommitted
    /\ AllProgress
    /\ Single
    /\ AllAlone
    /\ ApprovedIsRecorded
    /\ ExactWhenClean

\* The empty database and the idle Unit.
LEMMA InitIInv == Init => IInv
<1> SUFFICES ASSUME Init PROVE IInv
  OBVIOUS
<1>1. RowTypeOK /\ clean \subseteq Requests
  BY DEF Init, RowTypeOK
<1>2. Untouched /\ AllCommitted /\ AllProgress /\ Single /\ AllAlone
  BY DEF Init, Untouched, AllCommitted, AllProgress, Single, AllAlone
<1>3. ApprovedIsRecorded /\ ExactWhenClean
  BY DEF Init, ApprovedIsRecorded, ExactWhenClean
<1>4. QED
  BY <1>1, <1>2, <1>3 DEF IInv

\* A new request is pending, and nothing has happened to it.
LEMMA ProposeIInv ==
  ASSUME IInv, NEW r \in Requests, NEW c \in Contracts, Propose(r, c)
  PROVE  IInv'
<1> USE DEF IInv, Propose
<1>1. [contract |-> c, status |-> "pending"] \in Request
  BY DEF Request, Status
<1>2. RowTypeOK' /\ clean' \subseteq Requests
  BY <1>1 DEF RowTypeOK
<1>3. request'[r] # NoRequest /\ request'[r].status = "pending"
  BY <1>1, MarkersAssumption DEF RowTypeOK
<1>4. \A s \in Requests : s # r => request'[s] = request[s]
  BY DEF RowTypeOK
<1>5. \A o \in Operators : job[o] # Idle => job[o].request # r
  BY DEF AllCommitted, Committed
<1>6. \A o \in Operators : job[o] # Idle => job[o].request \in Requests
  BY DEF RowTypeOK, Job
<1>7. Untouched' /\ Single'
  BY <1>3, <1>4 DEF Untouched, Single
<1>8. AllCommitted' /\ AllProgress' /\ AllAlone'
  BY <1>4, <1>5, <1>6
     DEF AllCommitted, AllProgress, AllAlone, Committed, Progress, Alone
<1>9. ApprovedIsRecorded'
  BY <1>3, <1>4 DEF ApprovedIsRecorded
<1>10. ExactWhenClean'
  BY <1>3, <1>4 DEF ExactWhenClean, Untouched, Deciding
<1>11. QED
  BY <1>2, <1>7, <1>8, <1>9, <1>10

\* Leases say nothing of requests.
LEMMA LeaseIInv ==
  ASSUME IInv, NEW x \in Resource, LeaseChanges(x)
  PROVE  IInv'
<1> USE DEF IInv, LeaseChanges, db
<1>1. RowTypeOK' /\ clean' \subseteq Requests
  BY DEF RowTypeOK
<1>2. QED
  BY <1>1 DEF Untouched, AllCommitted, AllProgress, Single, AllAlone,
              Committed, Progress, Alone, ApprovedIsRecorded, ExactWhenClean,
              Deciding

\* The steps of one process: what it becomes, and that the others stay.
LEMMA OneJob ==
  ASSUME IInv, NEW o \in Operators, NEW j \in Job \cup {Idle},
         job' = [job EXCEPT ![o] = j]
  PROVE  /\ job' \in [Operators -> Job \cup {Idle}]
         /\ job'[o] = j
         /\ \A p \in Operators : p # o => job'[p] = job[p]
         /\ \A p \in Operators : job[p] # Idle =>
               job[p] \in Job /\ job[p].request \in Requests
BY DEF IInv, RowTypeOK, Job

\* A process begins: alone, or the request is clean no longer.
LEMMA DecideIInv ==
  ASSUME IInv, NEW o \in Operators, NEW r \in Requests, NEW d \in Decision,
         Decide(o, r, d)
  PROVE  IInv'
<1> DEFINE j == [step |-> IF d = "approve" THEN "gate" ELSE "decide",
                 request |-> r, decision |-> d, lease |-> NoLease,
                 done |-> 0, outcome |-> "none"]
<1>1. j \in Job
  BY DEF Job
<1>2. /\ j.request = r /\ j.decision = d /\ j.done = 0 /\ j.outcome = "none"
      /\ j.step = IF d = "approve" THEN "gate" ELSE "decide"
  OBVIOUS
<1>3. job[o] = Idle /\ job' = [job EXCEPT ![o] = j]
  BY DEF Decide
<1>4. j # Idle
  BY <1>1, MarkersAssumption
<1> HIDE DEF j
<1>5. /\ job' \in [Operators -> Job \cup {Idle}] /\ job'[o] = j
      /\ \A p \in Operators : p # o => job'[p] = job[p]
      /\ \A p \in Operators : job[p] # Idle =>
            job[p] \in Job /\ job[p].request \in Requests
  BY <1>1, <1>3, OneJob
<1>6. /\ request[r] # NoRequest /\ request[r].status = "pending"
      /\ UNCHANGED <<request, results, audits, decisions, lease, runs>>
  BY DEF Decide, PendingIn, db
<1>7. clean' \subseteq clean /\ (r \in clean' => Deciding(r) = {})
  BY DEF Decide
<1>8. RowTypeOK' /\ clean' \subseteq Requests
  BY <1>5, <1>6, <1>7 DEF IInv, RowTypeOK
<1>9. Untouched' /\ ApprovedIsRecorded'
  BY <1>6 DEF IInv, Untouched, ApprovedIsRecorded
<1>10. AllCommitted'
  BY <1>2, <1>5, <1>6 DEF IInv, AllCommitted, Committed, Before
<1>11. Single'
  BY <1>2, <1>4, <1>5, <1>7 DEF IInv, Single, Deciding
<1>12. AllProgress'
  <2>1. Progress(j)'
    BY <1>2, <1>5, <1>6 DEF Progress
  <2>2. QED
    BY <1>2, <1>5, <1>6, <2>1 DEF IInv, AllProgress, Progress
<1>13. r \in clean' => runs[r] = 0 /\ audits[r] = 0
  BY <1>6, <1>7 DEF IInv, ExactWhenClean
<1>14. AllAlone'
  BY <1>2, <1>5, <1>6, <1>7, <1>13 DEF IInv, AllAlone, Alone
<1>15. ExactWhenClean'
  <2>1. \A s \in Requests : Deciding(s)' = {} => Deciding(s) = {}
    BY <1>3, <1>5 DEF Deciding
  <2>2. QED
    BY <1>6, <1>7, <1>8, <2>1 DEF IInv, ExactWhenClean
<1>16. QED
  BY <1>8, <1>9, <1>10, <1>11, <1>14, <1>15, <1>12 DEF IInv

\* A step of a process that works on r: it is enough to look at r and at what
\* the process becomes, for rows are only added and other requests are left
\* alone.
LEMMA StepIInv ==
  ASSUME IInv, NEW o \in Operators, NEW r \in Requests,
         job[o] # Idle, job[o].request = r,
         NEW j \in Job \cup {Idle}, job' = [job EXCEPT ![o] = j],
         j # Idle => j.request = r,
         RowTypeOK', clean' \subseteq clean,
         \A s \in Requests : s # r => /\ request'[s] = request[s]
                                      /\ audits'[s] = audits[s]
                                      /\ runs'[s] = runs[s],
         \A s \in Requests : /\ results[s] \subseteq results'[s]
                             /\ decisions[s] \subseteq decisions'[s],
         audits'[r] >= audits[r], runs'[r] >= runs[r],
         request'[r] # NoRequest, request'[r].contract = request[r].contract,
         request'[r].status = "approved" =>
             \/ request[r].status = "approved"
             \/ /\ results[r] # {} /\ audits[r] > 0
                /\ "approve" \in decisions[r],
         j # Idle => Committed(o, j)', j # Idle => Progress(j)',
         (j # Idle /\ r \in clean') => Alone(o, j)',
         (j = Idle /\ r \in clean') =>
             IF request'[r].status = "approved"
             THEN runs'[r] <= 1 /\ audits'[r] = 1
             ELSE runs'[r] = 0 /\ audits'[r] = 0
  PROVE  IInv'
<1>1. /\ job'[o] = j
      /\ \A p \in Operators : p # o => job'[p] = job[p]
      /\ \A p \in Operators : job[p] # Idle =>
            job[p] \in Job /\ job[p].request \in Requests
  BY OneJob
<1>2. clean' \subseteq Requests /\ r \in Requests
  BY DEF IInv
<1>3. request[r] # NoRequest
  BY DEF IInv, AllCommitted, Committed
<1>4. Untouched'
  BY <1>3 DEF IInv, Untouched
<1>5. AllCommitted'
  <2>1. job'[o] # Idle => Committed(o, job[o])'
    BY <1>1 DEF Committed
  <2> SUFFICES ASSUME NEW p \in Operators, p # o, job[p] # Idle
               PROVE  Committed(p, job[p])'
    BY <1>1, <2>1 DEF AllCommitted
  <2>2. Committed(p, job[p]) /\ job[p].request \in Requests /\ job'[p] = job[p]
    BY <1>1 DEF IInv, AllCommitted
  <2>3. audits[job[p].request] \in Nat /\ audits'[job[p].request] \in Nat
        /\ audits'[job[p].request] >= audits[job[p].request]
    BY <2>2 DEF IInv, RowTypeOK
  <2>4. QED
    BY <2>2, <2>3 DEF Committed
<1>6. Single'
  BY <1>1 DEF IInv, Single
<1>7. AllAlone'
  <2> SUFFICES ASSUME NEW p \in Operators, p # o, job[p] # Idle,
                      job[p].request \in clean'
               PROVE  Alone(p, job[p])'
    BY <1>1 DEF AllAlone, Alone
  <2>1. job[p].request # r /\ job[p].request \in Requests /\ job'[p] = job[p]
    BY <1>1 DEF IInv, Single
  <2>2. Alone(p, job[p])
    BY DEF IInv, AllAlone
  <2>3. QED
    BY <2>1, <2>2 DEF Alone
<1>8. ApprovedIsRecorded'
  <2> SUFFICES ASSUME NEW s \in Requests, request'[s] # NoRequest,
                      request'[s].status = "approved"
               PROVE  /\ results'[s] # {} /\ audits'[s] > 0
                      /\ "approve" \in decisions'[s]
    BY DEF ApprovedIsRecorded
  <2>1. results[s] # {} /\ audits[s] > 0 /\ "approve" \in decisions[s]
    BY <1>3 DEF IInv, ApprovedIsRecorded
  <2>2. audits'[s] >= audits[s] /\ audits[s] \in Nat /\ audits'[s] \in Nat
    BY DEF IInv, RowTypeOK
  <2>3. QED
    BY <2>1, <2>2
<1>9. ExactWhenClean'
  <2> SUFFICES ASSUME NEW s \in clean', Deciding(s)' = {},
                      request'[s] # NoRequest
               PROVE  IF request'[s].status = "approved"
                      THEN runs'[s] <= 1 /\ audits'[s] = 1
                      ELSE runs'[s] = 0 /\ audits'[s] = 0
    BY DEF ExactWhenClean
  <2>1. CASE s = r
    BY <1>1, <2>1 DEF Deciding
  <2>2. CASE s # r
    <3>1. Deciding(s) = {}
      BY <1>1, <2>2 DEF Deciding
    <3>2. s \in Requests /\ s \in clean
      BY <1>2
    <3>3. QED
      BY <2>2, <3>1, <3>2 DEF IInv, ExactWhenClean
  <2>3. QED
    BY <2>1, <2>2
<1>10. AllProgress'
  <2> SUFFICES ASSUME NEW p \in Operators, p # o, job[p] # Idle
               PROVE  Progress(job[p])'
    BY <1>1 DEF AllProgress, Progress
  <2>1. Progress(job[p]) /\ job[p].request \in Requests /\ job'[p] = job[p]
    BY <1>1 DEF IInv, AllProgress
  <2>2. runs[job[p].request] \in Nat /\ runs'[job[p].request] \in Nat
        /\ runs'[job[p].request] >= runs[job[p].request]
        /\ request'[job[p].request].contract = request[job[p].request].contract
    BY <2>1 DEF IInv, RowTypeOK
  <2>3. QED
    BY <2>1, <2>2 DEF Progress
<1>11. QED
  BY <1>2, <1>4, <1>5, <1>6, <1>7, <1>8, <1>9, <1>10 DEF IInv

\* The process o, its request and what the invariant says of them.
LEMMA Worker ==
  ASSUME IInv, NEW o \in Operators, job[o] # Idle
  PROVE  \E r \in Requests :
            /\ r = job[o].request /\ job[o] \in Job
            /\ request[r] \in Request /\ request[r] # NoRequest
            /\ audits[r] \in Nat /\ runs[r] \in Nat
            /\ Committed(o, job[o]) /\ Progress(job[o])
            /\ r \in clean => Alone(o, job[o])
BY DEF IInv, RowTypeOK, Job, AllCommitted, AllProgress, AllAlone, Committed

\* Moving to another step changes nothing else of a process.
LEMMA Moved ==
  ASSUME IInv, NEW o \in Operators, job[o] # Idle,
         NEW s \in Before \cup {"decide", "settle"}, Goto(o, s)
  PROVE  \E j \in Job :
            /\ j # Idle /\ job' = [job EXCEPT ![o] = j]
            /\ j.step = s /\ j.request = job[o].request
            /\ j.decision = job[o].decision /\ j.done = job[o].done
            /\ j.outcome = job[o].outcome
<1>1. job[o] \in Job
  BY DEF IInv, RowTypeOK
<1>2. [job[o] EXCEPT !.step = s] \in Job
  BY <1>1 DEF Job, Before
<1>3. PICK j \in Job : j = [job[o] EXCEPT !.step = s]
  BY <1>2
<1>4. job' = [job EXCEPT ![o] = j]
  BY <1>3 DEF Goto, IInv, RowTypeOK
<1>5. QED
  BY <1>1, <1>3, <1>4, MarkersAssumption DEF Job

\* A process that gives up: its request is clean no longer.
LEMMA AbortsIInv ==
  ASSUME IInv, NEW o \in Operators, job[o] # Idle, Aborts(o),
         UNCHANGED <<db, lease>>, runs' \in [Requests -> Nat],
         \A s \in Requests : s # job[o].request => runs'[s] = runs[s],
         runs'[job[o].request] >= runs[job[o].request]
  PROVE  IInv'
<1>1. PICK r \in Requests :
         r = job[o].request /\ request[r] # NoRequest /\ audits[r] \in Nat
  BY Worker
<1>2. job' = [job EXCEPT ![o] = Idle] /\ clean' = clean \ {r}
  BY <1>1 DEF Aborts
<1>3. UNCHANGED <<request, results, audits, decisions, lease>>
  BY DEF db
<1>4. RowTypeOK'
  BY <1>2, <1>3 DEF IInv, RowTypeOK
<1>5. audits'[r] >= audits[r]
  BY <1>1, <1>3
<1>6. QED
  BY <1>1, <1>2, <1>3, <1>4, <1>5, StepIInv

\* The gate lets the process through, sends it to block, or it gives up.
LEMMA GateIInv == ASSUME IInv, NEW o \in Operators, Gate(o) PROVE IInv'
<1>1. job[o] # Idle /\ job[o].step = "gate"
      /\ UNCHANGED <<request, results, audits, decisions, lease, runs>>
  BY DEF Gate, At, db
<1>2. PICK r \in Requests :
         /\ r = job[o].request /\ job[o] \in Job
         /\ request[r] \in Request /\ request[r] # NoRequest
         /\ audits[r] \in Nat /\ runs[r] \in Nat
         /\ Committed(o, job[o]) /\ Progress(job[o])
         /\ r \in clean => Alone(o, job[o])
  BY <1>1, Worker
<1>3. job[o].decision = "approve"
  BY <1>1, <1>2 DEF Committed, Before
<1>4. ASSUME NEW j \in Job, j # Idle, job' = [job EXCEPT ![o] = j],
             j.request = r, j.step \in {"execute", "block"},
             j.done = job[o].done, j.outcome = job[o].outcome,
             j.decision = "approve", UNCHANGED clean
      PROVE  IInv'
  <2>1. RowTypeOK'
    BY <1>1, <1>4 DEF IInv, RowTypeOK
  <2>2. Committed(o, j)'
    BY <1>1, <1>2, <1>4 DEF Committed, Before
  <2>3. r \in clean => Alone(o, j)'
    BY <1>1, <1>2, <1>4 DEF Alone
  <2>4. audits'[r] >= audits[r] /\ clean' \subseteq clean
    BY <1>1, <1>2, <1>4
  <2>5. (r \in clean') => Alone(o, j)'
    BY <1>4, <2>3
  <2>6. request[r].contract.commands \in {1, 2}
    BY <1>2, ContractsAssumption DEF Request, Contract
  <2>7. Progress(j)'
    BY <1>1, <1>2, <1>4, <2>6 DEF Progress
  <2>8. runs'[r] >= runs[r]
    BY <1>1, <1>2
  <2>9. QED
    BY <1>1, <1>2, <1>4, <2>1, <2>2, <2>4, <2>5, <2>7, <2>8, StepIInv
<1>5. CASE TheLease(o) # NoLease /\ UNCHANGED clean
           /\ job' = [job EXCEPT ![o].step = "execute",
                                 ![o].lease = TheLease(o)]
  <2>1. TheLease(o) \in LeaseIds
    <3>1. request[r].contract.resource \in Resource
      BY <1>2, ContractsAssumption DEF Request, Contract
    <3>2. QED
      BY <1>2, <1>5, <3>1 DEF TheLease, IInv, RowTypeOK
  <2>2. PICK j \in Job :
           j = [job[o] EXCEPT !.step = "execute", !.lease = TheLease(o)]
    BY <1>2, <2>1 DEF Job
  <2>3. job' = [job EXCEPT ![o] = j]
    BY <1>5, <2>2 DEF IInv, RowTypeOK
  <2>4. j.request = r /\ j.step = "execute" /\ j.done = job[o].done
        /\ j.outcome = job[o].outcome
        /\ j.decision = "approve" /\ j # Idle
    BY <1>2, <1>3, <2>2, MarkersAssumption DEF Job
  <2>5. QED
    BY <1>4, <1>5, <2>3, <2>4
<1>6. CASE Goto(o, "block") /\ UNCHANGED clean
  <2>1. PICK j \in Job :
           /\ j # Idle /\ job' = [job EXCEPT ![o] = j]
           /\ j.step = "block" /\ j.request = job[o].request
           /\ j.decision = job[o].decision /\ j.done = job[o].done
           /\ j.outcome = job[o].outcome
    BY <1>1, <1>6, Moved DEF Before
  <2>2. QED
    BY <1>2, <1>3, <1>4, <1>6, <2>1
<1>7. CASE Aborts(o)
  <2>1. runs'[r] >= runs[r]
    BY <1>1, <1>2
  <2>2. QED
    BY <1>1, <1>2, <1>7, <2>1, AbortsIInv DEF db, IInv, RowTypeOK
<1>8. QED
  BY <1>5, <1>6, <1>7 DEF Gate

\* The decision row of a blocked attempt.
LEMMA BlockIInv ==
  ASSUME IInv, NEW o \in Operators, Block(o)
  PROVE  IInv'
<1>1. /\ job[o] # Idle /\ job[o].step = "block" /\ Goto(o, "keep")
      /\ UNCHANGED <<request, results, audits, lease, runs, clean>>
  BY DEF Block, At
<1>2. PICK r \in Requests :
         /\ r = job[o].request /\ job[o] \in Job
         /\ request[r] \in Request /\ request[r] # NoRequest
         /\ audits[r] \in Nat /\ runs[r] \in Nat
         /\ Committed(o, job[o]) /\ Progress(job[o])
         /\ r \in clean => Alone(o, job[o])
  BY <1>1, Worker
<1>3. PICK j \in Job :
         /\ j # Idle /\ job' = [job EXCEPT ![o] = j]
         /\ j.step = "keep" /\ j.request = r
         /\ j.decision = job[o].decision /\ j.done = job[o].done
         /\ j.outcome = job[o].outcome
  BY <1>1, <1>2, Moved DEF Before
<1>4. /\ decisions' = [decisions EXCEPT ![r] = @ \cup {"blocked"}]
      /\ job[o].step = "block"
  BY <1>1, <1>2 DEF Block, Committed, Job
<1>5. RowTypeOK'
  BY <1>1, <1>2, <1>3, <1>4 DEF IInv, RowTypeOK
<1>6. /\ \A s \in Requests : s # r => audits'[s] = audits[s]
      /\ \A s \in Requests : /\ results[s] \subseteq results'[s]
                             /\ decisions[s] \subseteq decisions'[s]
      /\ audits'[r] >= audits[r]
  BY <1>1, <1>2, <1>4 DEF IInv, RowTypeOK
<1>7. Committed(o, j)'
  BY <1>1, <1>2, <1>3, <1>4 DEF Committed, Before, IInv, RowTypeOK
<1>8. r \in clean' => Alone(o, j)'
  BY <1>1, <1>2, <1>3, <1>4 DEF Alone, Committed, Before, IInv, RowTypeOK
<1>9. Progress(j)' /\ runs'[r] >= runs[r]
  BY <1>1, <1>2, <1>3 DEF Progress
<1>10. QED
  BY <1>1, <1>2, <1>3, <1>5, <1>6, <1>7, <1>8, <1>9, StepIInv

\* The tool result.
LEMMA PersistToolResultIInv ==
  ASSUME IInv, NEW o \in Operators, PersistToolResult(o)
  PROVE  IInv'
<1>1. /\ job[o] # Idle /\ job[o].step = "result" /\ Goto(o, "audit")
      /\ UNCHANGED <<request, audits, decisions, lease, runs, clean>>
  BY DEF PersistToolResult, At
<1>2. PICK r \in Requests :
         /\ r = job[o].request /\ job[o] \in Job
         /\ request[r] \in Request /\ request[r] # NoRequest
         /\ audits[r] \in Nat /\ runs[r] \in Nat
         /\ Committed(o, job[o]) /\ Progress(job[o])
         /\ r \in clean => Alone(o, job[o])
  BY <1>1, Worker
<1>3. PICK j \in Job :
         /\ j # Idle /\ job' = [job EXCEPT ![o] = j]
         /\ j.step = "audit" /\ j.request = r
         /\ j.decision = job[o].decision /\ j.done = job[o].done
         /\ j.outcome = job[o].outcome
  BY <1>1, <1>2, Moved DEF Before
<1>4. /\ results' = [results EXCEPT ![r] = @ \cup {job[o].outcome}]
      /\ job[o].outcome \in {"ok", "error"}
  BY <1>1, <1>2 DEF PersistToolResult, Committed, Job
<1>5. RowTypeOK'
  BY <1>1, <1>2, <1>3, <1>4 DEF IInv, RowTypeOK
<1>6. /\ \A s \in Requests : s # r => audits'[s] = audits[s]
      /\ \A s \in Requests : /\ results[s] \subseteq results'[s]
                             /\ decisions[s] \subseteq decisions'[s]
      /\ audits'[r] >= audits[r]
  BY <1>1, <1>2, <1>4 DEF IInv, RowTypeOK
<1>7. Committed(o, j)'
  <2>1. results'[r] # {}
    BY <1>2, <1>4 DEF IInv, RowTypeOK
  <2>2. QED
    BY <1>1, <1>2, <1>3, <1>4, <2>1 DEF Committed, Before
<1>8. r \in clean' => Alone(o, j)'
  BY <1>1, <1>2, <1>3, <1>4 DEF Alone, Committed, Before, IInv, RowTypeOK
<1>9. Progress(j)' /\ runs'[r] >= runs[r]
  BY <1>1, <1>2, <1>3 DEF Progress
<1>10. QED
  BY <1>1, <1>2, <1>3, <1>5, <1>6, <1>7, <1>8, <1>9, StepIInv

\* The audit record.
LEMMA PersistAuditIInv ==
  ASSUME IInv, NEW o \in Operators, PersistAudit(o)
  PROVE  IInv'
<1>1. /\ job[o] # Idle /\ job[o].step = "audit" /\ Goto(o, "decide")
      /\ UNCHANGED <<request, results, decisions, lease, runs, clean>>
  BY DEF PersistAudit, At
<1>2. PICK r \in Requests :
         /\ r = job[o].request /\ job[o] \in Job
         /\ request[r] \in Request /\ request[r] # NoRequest
         /\ audits[r] \in Nat /\ runs[r] \in Nat
         /\ Committed(o, job[o]) /\ Progress(job[o])
         /\ r \in clean => Alone(o, job[o])
  BY <1>1, Worker
<1>3. PICK j \in Job :
         /\ j # Idle /\ job' = [job EXCEPT ![o] = j]
         /\ j.step = "decide" /\ j.request = r
         /\ j.decision = job[o].decision /\ j.done = job[o].done
         /\ j.outcome = job[o].outcome
  BY <1>1, <1>2, Moved DEF Before
<1>4. /\ audits' = [audits EXCEPT ![r] = @ + 1]
      /\ job[o].decision = "approve"
  BY <1>1, <1>2 DEF PersistAudit, Committed, Before
<1>5. RowTypeOK'
  BY <1>1, <1>2, <1>3, <1>4 DEF IInv, RowTypeOK
<1>6. /\ \A s \in Requests : s # r => audits'[s] = audits[s]
      /\ \A s \in Requests : /\ results[s] \subseteq results'[s]
                             /\ decisions[s] \subseteq decisions'[s]
      /\ audits'[r] >= audits[r]
  BY <1>1, <1>2, <1>4 DEF IInv, RowTypeOK
<1>7. Committed(o, j)'
  BY <1>1, <1>2, <1>3, <1>4 DEF Committed, Before, IInv, RowTypeOK
<1>8. r \in clean' => Alone(o, j)'
  BY <1>1, <1>2, <1>3, <1>4 DEF Alone, Committed, Before, IInv, RowTypeOK
<1>9. Progress(j)' /\ runs'[r] >= runs[r]
  BY <1>1, <1>2, <1>3 DEF Progress
<1>10. QED
  BY <1>1, <1>2, <1>3, <1>5, <1>6, <1>7, <1>8, <1>9, StepIInv

\* The decision row.
LEMMA PersistDecisionIInv ==
  ASSUME IInv, NEW o \in Operators, PersistDecision(o)
  PROVE  IInv'
<1>1. /\ job[o] # Idle /\ job[o].step = "decide" /\ Goto(o, "settle")
      /\ UNCHANGED <<request, results, audits, lease, runs, clean>>
  BY DEF PersistDecision, At
<1>2. PICK r \in Requests :
         /\ r = job[o].request /\ job[o] \in Job
         /\ request[r] \in Request /\ request[r] # NoRequest
         /\ audits[r] \in Nat /\ runs[r] \in Nat
         /\ Committed(o, job[o]) /\ Progress(job[o])
         /\ r \in clean => Alone(o, job[o])
  BY <1>1, Worker
<1>3. PICK j \in Job :
         /\ j # Idle /\ job' = [job EXCEPT ![o] = j]
         /\ j.step = "settle" /\ j.request = r
         /\ j.decision = job[o].decision /\ j.done = job[o].done
         /\ j.outcome = job[o].outcome
  BY <1>1, <1>2, Moved DEF Before
<1>4. /\ decisions' = [decisions EXCEPT ![r] = @ \cup {job[o].decision}]
      /\ job[o].decision \in Decision
  BY <1>1, <1>2 DEF PersistDecision, Committed, Job
<1>5. RowTypeOK'
  BY <1>1, <1>2, <1>3, <1>4 DEF IInv, RowTypeOK
<1>6. /\ \A s \in Requests : s # r => audits'[s] = audits[s]
      /\ \A s \in Requests : /\ results[s] \subseteq results'[s]
                             /\ decisions[s] \subseteq decisions'[s]
      /\ audits'[r] >= audits[r]
  BY <1>1, <1>2, <1>4 DEF IInv, RowTypeOK
<1>7. Committed(o, j)'
  BY <1>1, <1>2, <1>3, <1>4 DEF Committed, Before, IInv, RowTypeOK
<1>8. r \in clean' => Alone(o, j)'
  BY <1>1, <1>2, <1>3, <1>4 DEF Alone, Committed, Before, IInv, RowTypeOK
<1>9. Progress(j)' /\ runs'[r] >= runs[r]
  BY <1>1, <1>2, <1>3 DEF Progress
<1>10. QED
  BY <1>1, <1>2, <1>3, <1>5, <1>6, <1>7, <1>8, <1>9, StepIInv

\* A blocked attempt leaves the request pending.
LEMMA KeepPendingIInv ==
  ASSUME IInv, NEW o \in Operators, KeepPending(o)
  PROVE  IInv'
<1>1. /\ job[o] # Idle /\ job[o].step = "keep"
      /\ job' = [job EXCEPT ![o] = Idle]
      /\ UNCHANGED <<results, audits, decisions, lease, runs, clean>>
  BY DEF KeepPending, At
<1>2. PICK r \in Requests :
         /\ r = job[o].request /\ job[o] \in Job
         /\ request[r] \in Request /\ request[r] # NoRequest
         /\ audits[r] \in Nat /\ runs[r] \in Nat
         /\ Committed(o, job[o]) /\ Progress(job[o])
         /\ r \in clean => Alone(o, job[o])
  BY <1>1, Worker
<1>3. "pending" \in Status
  BY <1>2 DEF Status, StatusOf, Job, Decision
<1>4. PICK status \in Status :
         /\ status = "pending"
         /\ request' = [request EXCEPT ![r] = [@ EXCEPT !.status = status]]
  BY <1>2, <1>3 DEF KeepPending, IInv, RowTypeOK
<1>5. /\ request'[r] \in Request /\ request'[r].status = status
      /\ request'[r].contract = request[r].contract
      /\ \A s \in Requests : s # r => request'[s] = request[s]
  BY <1>2, <1>4 DEF IInv, RowTypeOK, Request
<1>6. RowTypeOK' /\ request'[r] # NoRequest
  BY <1>1, <1>2, <1>4, <1>5, MarkersAssumption DEF IInv, RowTypeOK
<1>7. status = "approved" =>
         results[r] # {} /\ audits[r] > 0 /\ "approve" \in decisions[r]
  BY <1>1, <1>2, <1>4 DEF Committed, StatusOf, Job, Decision
<1>8. r \in clean => IF status = "approved"
                     THEN runs[r] <= 1 /\ audits[r] = 1
                     ELSE runs[r] = 0 /\ audits[r] = 0
  BY <1>1, <1>2, <1>4 DEF Alone, StatusOf, Job, Decision
<1>9. audits'[r] >= audits[r] /\ runs'[r] >= runs[r]
  BY <1>1, <1>2
<1>10. QED
  BY <1>1, <1>2, <1>5, <1>6, <1>7, <1>8, <1>9, StepIInv

\* The status, last of all.
LEMMA SettleIInv ==
  ASSUME IInv, NEW o \in Operators, Settle(o)
  PROVE  IInv'
<1>1. /\ job[o] # Idle /\ job[o].step = "settle"
      /\ job' = [job EXCEPT ![o] = Idle]
      /\ UNCHANGED <<results, audits, decisions, lease, runs, clean>>
  BY DEF Settle, At
<1>2. PICK r \in Requests :
         /\ r = job[o].request /\ job[o] \in Job
         /\ request[r] \in Request /\ request[r] # NoRequest
         /\ audits[r] \in Nat /\ runs[r] \in Nat
         /\ Committed(o, job[o]) /\ Progress(job[o])
         /\ r \in clean => Alone(o, job[o])
  BY <1>1, Worker
<1>3. StatusOf(job[o].decision) \in Status
  BY <1>2 DEF Status, StatusOf, Job, Decision
<1>4. PICK status \in Status :
         /\ status = StatusOf(job[o].decision)
         /\ request' = [request EXCEPT ![r] = [@ EXCEPT !.status = status]]
  BY <1>2, <1>3 DEF Settle, IInv, RowTypeOK
<1>5. /\ request'[r] \in Request /\ request'[r].status = status
      /\ request'[r].contract = request[r].contract
      /\ \A s \in Requests : s # r => request'[s] = request[s]
  BY <1>2, <1>4 DEF IInv, RowTypeOK, Request
<1>6. RowTypeOK' /\ request'[r] # NoRequest
  BY <1>1, <1>2, <1>4, <1>5, MarkersAssumption DEF IInv, RowTypeOK
<1>7. status = "approved" =>
         results[r] # {} /\ audits[r] > 0 /\ "approve" \in decisions[r]
  BY <1>1, <1>2, <1>4 DEF Committed, StatusOf, Job, Decision
<1>8. r \in clean => IF status = "approved"
                     THEN runs[r] <= 1 /\ audits[r] = 1
                     ELSE runs[r] = 0 /\ audits[r] = 0
  BY <1>1, <1>2, <1>4 DEF Alone, StatusOf, Job, Decision
<1>9. audits'[r] >= audits[r] /\ runs'[r] >= runs[r]
  BY <1>1, <1>2
<1>10. QED
  BY <1>1, <1>2, <1>5, <1>6, <1>7, <1>8, <1>9, StepIInv

\* A command of the tool: the Unit does it for the first command only once,
\* so a process alone with a clean request leaves at most one run behind.
LEMMA ExecuteIInv == ASSUME IInv, NEW o \in Operators, Execute(o) PROVE IInv'
<1>1. /\ job[o] # Idle /\ job[o].step = "execute"
      /\ UNCHANGED <<request, results, audits, decisions, lease>>
  BY DEF Execute, At, db
<1>2. PICK r \in Requests :
         /\ r = job[o].request /\ job[o] \in Job
         /\ request[r] \in Request /\ request[r] # NoRequest
         /\ audits[r] \in Nat /\ runs[r] \in Nat
         /\ Committed(o, job[o]) /\ Progress(job[o])
         /\ r \in clean => Alone(o, job[o])
  BY <1>1, Worker
<1>3. job[o].decision = "approve" /\ job[o].done \in 0..2
  BY <1>1, <1>2 DEF Committed, Before, Job
<1>4. ASSUME UNCHANGED runs \/ Performed(o)
      PROVE  /\ runs' \in [Requests -> Nat] /\ runs'[r] >= runs[r]
             /\ \A s \in Requests : s # r => runs'[s] = runs[s]
             /\ r \in clean => runs'[r] <= 1
             /\ Performed(o) => runs'[r] > 0
  <2>1. CASE UNCHANGED runs /\ ~ Performed(o)
    BY <1>1, <1>2, <2>1 DEF Alone, IInv, RowTypeOK
  <2>2. CASE Performed(o) /\ job[o].done = 0
    <3>1. runs' = [runs EXCEPT ![r] = @ + 1]
      BY <1>2, <2>2 DEF Performed
    <3>2. r \in clean => runs[r] = 0
      BY <1>1, <1>2, <2>2 DEF Alone
    <3>3. QED
      BY <1>2, <2>2, <3>1, <3>2 DEF IInv, RowTypeOK
  <2>3. CASE Performed(o) /\ job[o].done # 0
    <3>1. runs' = runs
      BY <2>3 DEF Performed
    <3>2. runs[r] > 0
      BY <1>2, <1>3, <2>3 DEF Progress
    <3>3. QED
      BY <1>1, <1>2, <2>3, <3>1, <3>2 DEF Alone, IInv, RowTypeOK
  <2>4. QED
    BY <1>4, <2>1, <2>2, <2>3
<1>5. ASSUME NEW j \in Job, j # Idle, job' = [job EXCEPT ![o] = j],
             j.request = r, j.decision = "approve", UNCHANGED clean,
             UNCHANGED runs \/ Performed(o), Progress(j)',
             \/ j.step = "result" /\ j.outcome \in {"ok", "error"}
             \/ j.step = "execute" /\ j.done # 0 /\ Performed(o)
      PROVE  IInv'
  <2>1. RowTypeOK'
    BY <1>1, <1>4, <1>5 DEF IInv, RowTypeOK
  <2>2. Committed(o, j)'
    BY <1>1, <1>2, <1>5 DEF Committed, Before
  <2>3. r \in clean => runs'[r] <= 1 /\ audits'[r] = 0
                       /\ request'[r].status = "pending"
    BY <1>1, <1>2, <1>4, <1>5 DEF Alone
  <2>4. r \in clean /\ Performed(o) => runs'[r] = 1
    <3>1. CASE job[o].done = 0
      BY <1>1, <1>2, <3>1 DEF Alone, Performed, IInv, RowTypeOK
    <3>2. CASE job[o].done # 0
      BY <1>1, <1>2, <3>2 DEF Alone, Performed
    <3>3. QED
      BY <3>1, <3>2
  <2>5. (r \in clean') => Alone(o, j)'
    BY <1>5, <2>3, <2>4 DEF Alone
  <2>6. audits'[r] >= audits[r] /\ clean' \subseteq clean
    BY <1>1, <1>2, <1>5
  <2>7. /\ \A s \in Requests : s # r => runs'[s] = runs[s]
        /\ runs'[r] >= runs[r]
    BY <1>4, <1>5
  <2>8. QED
    BY <1>1, <1>2, <1>5, <2>1, <2>2, <2>5, <2>6, <2>7, StepIInv
<1>6. ASSUME Ends(o, "error"), UNCHANGED runs \/ Performed(o)
      PROVE  IInv'
  <2>1. PICK j \in Job :
           j = [job[o] EXCEPT !.step = "result", !.outcome = "error"]
    BY <1>2 DEF Job
  <2>2. job' = [job EXCEPT ![o] = j]
    BY <1>6, <2>1 DEF Ends, IInv, RowTypeOK
  <2>3. /\ j.request = r /\ j.decision = "approve" /\ j.step = "result"
        /\ j.outcome = "error" /\ j.done = job[o].done /\ j # Idle
    BY <1>2, <1>3, <2>1, MarkersAssumption DEF Job
  <2>4. Progress(j)'
    BY <1>2, <1>3, <1>4, <1>6, <2>3 DEF Progress
  <2>5. QED
    BY <1>5, <1>6, <2>2, <2>3, <2>4 DEF Ends
<1>7. CASE CommandConfirmed(o)
  <2> DEFINE last == job[o].done + 1 = request[r].contract.commands
  <2>1. request[r].contract.commands \in {1, 2}
    BY <1>2, ContractsAssumption DEF Request, Contract
  <2>2. job[o].done + 1 \in 1..2 /\ job[o].done + 1 <= request[r].contract.commands
        /\ job[o].outcome = "none"
    BY <1>1, <1>2, <1>3, <2>1 DEF Progress
  <2>3. PICK n \in 0..2 : n = job[o].done + 1
    BY <2>2
  <2>4. Performed(o) /\ UNCHANGED clean
    BY <1>7 DEF CommandConfirmed
  <2>5. runs'[r] > 0
    BY <1>4, <2>4
  <2>6. CASE last
    <3>1. PICK j \in Job : j = [job[o] EXCEPT !.done = n, !.outcome = "ok",
                                             !.step = "result"]
      BY <1>2 DEF Job
    <3>2. job' = [job EXCEPT ![o] = j]
      BY <1>2, <1>7, <2>6, <2>3, <3>1 DEF CommandConfirmed, IInv, RowTypeOK
    <3>3. /\ j.request = r /\ j.decision = "approve" /\ j # Idle
          /\ j.done = request[r].contract.commands
          /\ j.outcome = "ok" /\ j.step = "result"
      BY <1>2, <1>3, <2>6, <2>3, <3>1, MarkersAssumption DEF Job
    <3>4. Progress(j)'
      BY <1>1, <2>5, <3>3 DEF Progress
    <3>5. QED
      BY <1>5, <2>4, <3>2, <3>3, <3>4
  <2>7. CASE ~ last
    <3>1. PICK j \in Job : j = [job[o] EXCEPT !.done = n]
      BY <1>2 DEF Job
    <3>2. job' = [job EXCEPT ![o] = j]
      BY <1>2, <1>7, <2>7, <2>3, <3>1 DEF CommandConfirmed, IInv, RowTypeOK, Job
    <3>3. /\ j.request = r /\ j.decision = "approve" /\ j # Idle
          /\ j.done = job[o].done + 1
          /\ j.outcome = "none" /\ j.step = "execute"
      BY <1>1, <1>2, <1>3, <2>2, <2>3, <3>1, MarkersAssumption DEF Job
    <3>4. Progress(j)'
      BY <1>1, <1>3, <2>1, <2>2, <2>5, <2>7, <3>3 DEF Progress
    <3>5. j.done # 0
      BY <1>3, <3>3
    <3>6. QED
      BY <1>5, <2>4, <3>2, <3>3, <3>4, <3>5
  <2>8. QED
    BY <2>6, <2>7
<1>8. CASE CommandFails(o)
  BY <1>6, <1>8 DEF CommandFails
<1>9. CASE ReplyLost(o)
  BY <1>6, <1>9 DEF ReplyLost
<1>10. CASE CommandTimesOut(o)
  <2>1. Aborts(o) /\ (UNCHANGED runs \/ Performed(o))
    BY <1>10 DEF CommandTimesOut
  <2>2. QED
    BY <1>1, <1>2, <1>4, <2>1, AbortsIInv DEF db
<1>11. QED
  BY <1>7, <1>8, <1>9, <1>10 DEF Execute

\* The process is killed.
LEMMA CrashIInv == ASSUME IInv, NEW o \in Operators, Crash(o) PROVE IInv'
<1>1. job[o] # Idle /\ Aborts(o) /\ UNCHANGED <<db, lease, runs>>
  BY DEF Crash
<1>2. runs \in [Requests -> Nat] /\ job[o].request \in Requests
  BY <1>1 DEF IInv, RowTypeOK, Job
<1>3. runs'[job[o].request] >= runs[job[o].request]
  BY <1>1, <1>2
<1>4. QED
  BY <1>1, <1>2, <1>3, AbortsIInv

LEMMA NextIInv == IInv /\ [Next]_vars => IInv'
<1> SUFFICES ASSUME IInv, [Next]_vars PROVE IInv'
  OBVIOUS
<1>1. CASE UNCHANGED vars
  BY <1>1 DEF vars, db, IInv, RowTypeOK, Untouched, AllCommitted,
              AllProgress, Single, AllAlone, Committed, Progress, Alone,
              ApprovedIsRecorded, ExactWhenClean, Deciding
<1>2. CASE \E r \in Requests, c \in Contracts : Propose(r, c)
  BY <1>2, ProposeIInv
<1>3. CASE \E x \in Resource : LeaseChanges(x)
  BY <1>3, LeaseIInv
<1>4. CASE \E o \in Operators, r \in Requests, d \in Decision : Decide(o, r, d)
  BY <1>4, DecideIInv
<1>5. CASE \E o \in Operators : Step(o)
  BY <1>5, GateIInv, BlockIInv, KeepPendingIInv, ExecuteIInv,
     PersistToolResultIInv, PersistAuditIInv, PersistDecisionIInv, SettleIInv
     DEF Step
<1>6. CASE \E o \in Operators : Crash(o)
  BY <1>6, CrashIInv
<1>7. QED
  BY <1>1, <1>2, <1>3, <1>4, <1>5, <1>6 DEF Next

LEMMA Invariance == Spec => []IInv
BY InitIInv, NextIInv, PTL DEF Spec

\* However many processes decide, overlap and die: the status approved is
\* never in the database before the tool result, the audit record and the
\* decision are (the order of the persist_... calls in
\* apply_approval_decision).
THEOREM ApprovalsAreRecorded == Spec => []ApprovedIsRecorded
<1>1. IInv => ApprovedIsRecorded
  BY DEF IInv
<1>2. QED
  BY <1>1, Invariance, PTL

\* For a request whose decisions neither overlap nor are cut off, the database
\* tells what happened to the Unit: not approved means never run, approved
\* means run at most once and audited once.
THEOREM CleanRequestsAreExact == Spec => []ExactWhenClean
<1>1. IInv => ExactWhenClean
  BY DEF IInv
<1>2. QED
  BY <1>1, Invariance, PTL

\* A decision that reports ok has run every command of its tool on the Unit,
\* whatever leases change and whatever replies are lost in between
\* (_execute_restart_app and _execute_rollback_app).
THEOREM OkIsDone == Spec => []OkMeansDone
<1>1. IInv => OkMeansDone
  <2> SUFFICES ASSUME IInv, NEW o \in Operators, job[o] # Idle,
                      job[o].outcome = "ok"
               PROVE  /\ job[o].done = request[job[o].request].contract.commands
                      /\ runs[job[o].request] > 0
    BY DEF OkMeansDone
  <2>1. PICK r \in Requests :
           /\ r = job[o].request /\ job[o] \in Job /\ Progress(job[o])
           /\ request[r] \in Request
    BY Worker
  <2>2. request[r].contract.commands \in {1, 2}
    BY <2>1, ContractsAssumption DEF Request, Contract
  <2>3. QED
    BY <2>1, <2>2 DEF Progress
<1>2. QED
  BY <1>1, Invariance, PTL
=============================================================================
