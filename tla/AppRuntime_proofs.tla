-------------------------- MODULE AppRuntime_proofs --------------------------
(***************************************************************************)
(* Proofs about the application runtime, for any set of applications, any  *)
(* priorities and any policies, and about the requests and console calls   *)
(* that share it (AppControl).                                             *)
(***************************************************************************)
EXTENDS AppControl, FiniteSetTheorems, TLAPS

\* The inductive invariant: the types of the table, the policy and the buffer
\* flag, and the two properties.
IInv == TableTypeOK /\ RunningWithinLimit /\ StaticBufferOwned

\* A clamped priority is a number a record can hold.
LEMMA PriorityType ==
    ASSUME NEW symbol \in PrioritySymbols \cup {NoSymbol}
    PROVE  read_priority(symbol) \in 0 .. 255
BY SymbolsAssumption DEF read_priority

\* The running applications are finitely many.
LEMMA RunningFinite ==
    IsFiniteSet(Running) /\ Cardinality(Running) \in Nat
<1>1. Running \subseteq Apps
  BY DEF Running
<1>2. IsFiniteSet(Running)
  BY <1>1, AppsAssumption, FS_Subset
<1> QED
  BY <1>2, FS_CardinalityType

\* ensure_running_slot either finds a slot free or suspends one candidate.
LEMMA SlotCases ==
    ASSUME NEW a \in Apps, NEW table \in ensure_running_slot(a)
    PROVE  \/ SlotFree /\ table = app
           \/ /\ ~SlotFree
              /\ \E v \in Candidate(a) : table = Suspended(v, TRUE)
BY DEF ensure_running_slot

\* A candidate runs, is not the requester, and is less important than it.
LEMMA CandidateRuns ==
    ASSUME TableTypeOK, NEW a \in Apps, NEW v \in Candidate(a)
    PROVE  /\ v \in Running /\ v # a /\ v \in Apps
           /\ app[v] \in AppRecord /\ IsLoaded(v)
           /\ app[v].priority > app[a].priority
BY DEF Candidate, Preemptable, Running, StateOf, IsLoaded, TableTypeOK

\* A record in another state is a record.
LEMMA InStateType ==
    ASSUME NEW r \in AppRecord, NEW auto \in BOOLEAN,
           NEW s \in {"INITIALIZED", "RUNNING", "SUSPENDED"}
    PROVE  InState(r, s, auto) \in AppRecord
BY DEF InState, AppRecord

\* Suspending an application that runs.
LEMMA SuspendedTable ==
    ASSUME TableTypeOK, NEW v \in Running, NEW auto \in BOOLEAN
    PROVE  /\ Suspended(v, auto) \in [Apps -> AppRecord \cup {NotLoaded}]
           /\ Suspended(v, auto)[v] = InState(app[v], "SUSPENDED", auto)
           /\ Suspended(v, auto)[v] \in AppRecord
           /\ \A b \in Apps \ {v} : Suspended(v, auto)[b] = app[b]
<1>1. v \in Apps /\ app[v] \in AppRecord
  BY DEF Running, StateOf, IsLoaded, TableTypeOK
<1>2. InState(app[v], "SUSPENDED", auto) \in AppRecord
  BY <1>1, InStateType
<1> QED
  BY <1>1, <1>2 DEF Suspended, TableTypeOK

\* Letting an application run in a table in which it is loaded.
LEMMA ResumedTable ==
    ASSUME NEW table \in [Apps -> AppRecord \cup {NotLoaded}],
           NEW a \in Apps, table[a] \in AppRecord
    PROVE  /\ Resumed(table, a) \in [Apps -> AppRecord \cup {NotLoaded}]
           /\ Resumed(table, a)[a] = InState(table[a], "RUNNING", FALSE)
           /\ Resumed(table, a)[a] \in AppRecord
           /\ \A b \in Apps \ {a} : Resumed(table, a)[b] = table[b]
<1>1. InState(table[a], "RUNNING", FALSE) \in AppRecord
  BY InStateType
<1> QED
  BY <1>1 DEF Resumed

\* An operation that keeps who is loaded, and from where, keeps the buffer.
LEMMA BufferKept ==
    ASSUME TableTypeOK, StaticBufferOwned,
           UNCHANGED static_in_use,
           \A b \in Apps : /\ app'[b] = NotLoaded <=> app[b] = NotLoaded
                           /\ IsLoaded(b) => app'[b].elf_buf_source = app[b].elf_buf_source
    PROVE  StaticBufferOwned'
BY DEF StaticBufferOwned, Loaded, IsLoaded

-----------------------------------------------------------------------------
\* The applications that run according to a table.
RunningIn(table) ==
    {b \in Apps : table[b] # NotLoaded /\ table[b].state = "RUNNING"}

\* The table with a slot for a: the records it had, one of them perhaps
\* suspended, and room for one more application to run.
LEMMA SlotTable ==
    ASSUME IInv, NEW a \in Apps, IsLoaded(a), a \notin Running,
           NEW table \in ensure_running_slot(a)
    PROVE  /\ table \in [Apps -> AppRecord \cup {NotLoaded}]
           /\ table[a] = app[a]
           /\ \A b \in Apps :
                 /\ table[b] = NotLoaded <=> app[b] = NotLoaded
                 /\ IsLoaded(b) => table[b].elf_buf_source = app[b].elf_buf_source
           /\ RunningIn(table) \subseteq Running
           /\ Cardinality(RunningIn(table)) < policy.max_running_apps
<1> USE DEF IInv
<1>t. policy.max_running_apps \in Nat
  BY DEF TableTypeOK, Policy
<1>1. CASE SlotFree /\ table = app
  <2>1. RunningIn(table) = Running
    BY <1>1 DEF RunningIn, Running, StateOf, IsLoaded
  <2> QED
    BY <1>1, <2>1 DEF SlotFree, TableTypeOK
<1>2. CASE ~SlotFree /\ \E v \in Candidate(a) : table = Suspended(v, TRUE)
  <2>1. PICK v \in Candidate(a) : table = Suspended(v, TRUE)
    BY <1>2
  <2>2. v \in Running /\ v # a /\ v \in Apps /\ app[v] \in AppRecord /\ IsLoaded(v)
    BY CandidateRuns
  <2>3. /\ table \in [Apps -> AppRecord \cup {NotLoaded}]
        /\ table[v] = InState(app[v], "SUSPENDED", TRUE)
        /\ table[v] \in AppRecord
        /\ \A b \in Apps \ {v} : table[b] = app[b]
    BY <2>1, <2>2, SuspendedTable
  <2>4. /\ table[v].state = "SUSPENDED"
        /\ table[v].elf_buf_source = app[v].elf_buf_source
    BY <2>2, <2>3 DEF InState
  <2>5. RunningIn(table) = Running \ {v}
    BY <2>2, <2>3, <2>4, NotLoadedAssumption DEF RunningIn, Running, StateOf, IsLoaded
  <2>6. Cardinality(RunningIn(table)) = Cardinality(Running) - 1
    BY <2>2, <2>5, RunningFinite, FS_RemoveElement
  <2>7. Cardinality(RunningIn(table)) < policy.max_running_apps
    BY <2>6, <1>t, RunningFinite DEF RunningWithinLimit
  <2> QED
    BY <2>2, <2>3, <2>4, <2>5, <2>7, NotLoadedAssumption DEF IsLoaded
<1> QED
  BY <1>1, <1>2, SlotCases

\* A start or resume whose callback fails once the slot is free.
LEMMA SlotTakenIInv ==
    ASSUME IInv, NEW a \in Apps, IsLoaded(a), a \notin Running,
           app' \in ensure_running_slot(a),
           UNCHANGED <<list, policy, static_in_use>>
    PROVE  IInv'
<1>1. /\ app' \in [Apps -> AppRecord \cup {NotLoaded}]
      /\ \A b \in Apps :
            /\ app'[b] = NotLoaded <=> app[b] = NotLoaded
            /\ IsLoaded(b) => app'[b].elf_buf_source = app[b].elf_buf_source
      /\ Cardinality(RunningIn(app')) < policy.max_running_apps
  BY SlotTable
<1>2. Running' = RunningIn(app')
  BY DEF Running, RunningIn, StateOf, IsLoaded
<1>3. TableTypeOK'
  BY <1>1 DEF TableTypeOK, IInv
<1>4. StaticBufferOwned'
  BY <1>1, BufferKept DEF IInv
<1>5. Cardinality(Running') \in Nat
  <2>1. Running' \subseteq Apps
    BY DEF Running
  <2> QED
    BY <2>1, AppsAssumption, FS_Subset, FS_CardinalityType
<1>6. RunningWithinLimit'
  BY <1>1, <1>2, <1>5 DEF RunningWithinLimit, IInv, TableTypeOK, Policy
<1> QED
  BY <1>3, <1>4, <1>6 DEF IInv

\* A start or resume that succeeds: one more runs than the table with the
\* slot says, and that table had room for it.
LEMMA SlotFilledIInv ==
    ASSUME IInv, NEW a \in Apps, IsLoaded(a), a \notin Running,
           NEW table \in ensure_running_slot(a), app' = Resumed(table, a),
           UNCHANGED <<list, policy, static_in_use>>
    PROVE  IInv'
<1>1. /\ table \in [Apps -> AppRecord \cup {NotLoaded}]
      /\ table[a] = app[a]
      /\ \A b \in Apps :
            /\ table[b] = NotLoaded <=> app[b] = NotLoaded
            /\ IsLoaded(b) => table[b].elf_buf_source = app[b].elf_buf_source
      /\ RunningIn(table) \subseteq Running
      /\ Cardinality(RunningIn(table)) < policy.max_running_apps
  BY SlotTable
<1>2. table[a] \in AppRecord
  BY <1>1 DEF IsLoaded
<1>3. /\ app' \in [Apps -> AppRecord \cup {NotLoaded}]
      /\ app'[a] = InState(table[a], "RUNNING", FALSE)
      /\ app'[a] \in AppRecord
      /\ \A b \in Apps \ {a} : app'[b] = table[b]
  BY <1>1, <1>2, ResumedTable
<1>4. app'[a].state = "RUNNING" /\ app'[a].elf_buf_source = app[a].elf_buf_source
  BY <1>1, <1>3 DEF InState
<1>5. Running' = RunningIn(table) \cup {a}
  BY <1>3, <1>4, NotLoadedAssumption DEF Running, RunningIn, StateOf, IsLoaded
<1>6. IsFiniteSet(RunningIn(table)) /\ Cardinality(RunningIn(table)) \in Nat
  BY <1>1, RunningFinite, FS_Subset, FS_CardinalityType
<1>7. Cardinality(Running') <= Cardinality(RunningIn(table)) + 1
  <2>1. Cardinality(RunningIn(table) \cup {a}) =
           IF a \in RunningIn(table) THEN Cardinality(RunningIn(table))
                                     ELSE Cardinality(RunningIn(table)) + 1
    BY <1>6, FS_AddElement
  <2> QED
    BY <1>5, <1>6, <2>1
<1>8. TableTypeOK'
  BY <1>3 DEF TableTypeOK, IInv
<1>9. StaticBufferOwned'
  BY <1>1, <1>3, <1>4, BufferKept, NotLoadedAssumption DEF IInv, IsLoaded
<1>10. Cardinality(Running') \in Nat
  BY <1>5, <1>6, FS_AddElement, FS_CardinalityType
<1>11. RunningWithinLimit'
  BY <1>1, <1>6, <1>7, <1>10 DEF RunningWithinLimit, IInv, TableTypeOK, Policy
<1> QED
  BY <1>8, <1>9, <1>11 DEF IInv

\* A step after which no more applications run than before, under the same
\* policy, keeps the limit.
LEMMA FewerRun ==
    ASSUME IInv, Running' \subseteq Running, UNCHANGED policy
    PROVE  RunningWithinLimit'
<1>1. Cardinality(Running') <= Cardinality(Running) /\ Cardinality(Running') \in Nat
  BY RunningFinite, FS_Subset, FS_CardinalityType
<1> QED
  BY <1>1, RunningFinite DEF RunningWithinLimit, IInv, TableTypeOK, Policy

\* Putting one loaded application in a state in which it does not run.
LEMMA HaltedIInv ==
    ASSUME IInv, NEW a \in Apps, IsLoaded(a), NEW auto \in BOOLEAN,
           NEW s \in {"INITIALIZED", "SUSPENDED"},
           app' = [app EXCEPT ![a] = InState(app[a], s, auto)],
           UNCHANGED <<list, policy, static_in_use>>
    PROVE  IInv'
<1>1. app[a] \in AppRecord
  BY DEF IInv, TableTypeOK, IsLoaded
<1>2. InState(app[a], s, auto) \in AppRecord
  BY <1>1, InStateType
<1>3. /\ app' \in [Apps -> AppRecord \cup {NotLoaded}]
      /\ app'[a] = InState(app[a], s, auto)
      /\ \A b \in Apps \ {a} : app'[b] = app[b]
  BY <1>2 DEF IInv, TableTypeOK
<1>4. app'[a].state = s /\ app'[a].elf_buf_source = app[a].elf_buf_source
  BY <1>3 DEF InState
<1>5. TableTypeOK'
  BY <1>3 DEF IInv, TableTypeOK
<1>6. StaticBufferOwned'
  BY <1>2, <1>3, <1>4, BufferKept, NotLoadedAssumption DEF IInv, IsLoaded
<1>7. Running' \subseteq Running
  BY <1>2, <1>3, <1>4, NotLoadedAssumption DEF Running, StateOf, IsLoaded
<1> QED
  BY <1>5, <1>6, <1>7, FewerRun DEF IInv

\* stop, and with it an unload whose deinit fails.
LEMMA StopIInv ==
    ASSUME IInv, NEW a \in Apps, stop(a)
    PROVE  IInv'
<1>1. CASE StateOf(a) = "INITIALIZED"
  <2>1. UNCHANGED rtvars
    BY <1>1 DEF stop, rtvars
  <2> QED
    BY <2>1 DEF IInv, rtvars, TableTypeOK, RunningWithinLimit, Running, StateOf,
                IsLoaded, StaticBufferOwned, Loaded
<1>2. CASE StateOf(a) # "INITIALIZED"
  BY <1>2, HaltedIInv DEF stop
<1> QED
  BY <1>1, <1>2

\* load: the new record does not run, and takes the static buffer only when
\* no other record has it.
LEMMA LoadIInv ==
    ASSUME IInv, NEW a \in Apps, NEW symbol \in PrioritySymbols \cup {NoSymbol},
           NEW fits \in BOOLEAN, load(a, symbol, fits)
    PROVE  IInv'
<1> DEFINE source == staging_alloc(fits)
           record == [state |-> "INITIALIZED", priority |-> read_priority(symbol),
                      auto_suspended |-> FALSE, elf_buf_source |-> source]
<1>1. source \in {"static", "malloc"} /\ (source = "static" => ~static_in_use)
  BY DEF staging_alloc
<1>2. record \in AppRecord
  BY <1>1, PriorityType DEF AppRecord
<1>3. /\ app' = [app EXCEPT ![a] = record]
      /\ static_in_use' = (static_in_use \/ source = "static")
      /\ policy' = policy /\ ~IsLoaded(a)
  BY DEF load, LoadAdmits
<1>4. /\ app' \in [Apps -> AppRecord \cup {NotLoaded}]
      /\ app'[a] = record /\ \A b \in Apps \ {a} : app'[b] = app[b]
  BY <1>2, <1>3 DEF IInv, TableTypeOK
<1>5. static_in_use' \in BOOLEAN
  BY <1>3
<1>6. TableTypeOK'
  BY <1>3, <1>4, <1>5 DEF IInv, TableTypeOK
<1>7. Running' \subseteq Running
  BY <1>2, <1>4, NotLoadedAssumption DEF Running, StateOf, IsLoaded
<1>8. Loaded' = Loaded \cup {a}
  BY <1>2, <1>4, NotLoadedAssumption DEF Loaded, IsLoaded
<1>9. StaticBufferOwned'
  <2>1. CASE source = "static"
    <3>1. \A b \in Loaded : app[b].elf_buf_source # "static"
      BY <1>1, <2>1 DEF IInv, StaticBufferOwned
    <3>2. \A b \in Loaded : b \in Apps /\ b # a
      BY <1>3 DEF Loaded
    <3>3. \A b \in Loaded' : app'[b].elf_buf_source = "static" <=> b = a
      BY <1>4, <1>8, <2>1, <3>1, <3>2
    <3>4. static_in_use' = TRUE
      BY <1>3, <2>1
    <3> QED
      BY <1>8, <3>3, <3>4 DEF StaticBufferOwned
  <2>2. CASE source # "static"
    <3>1. \A b \in Loaded : b \in Apps /\ b # a
      BY <1>3 DEF Loaded
    <3>2. /\ app'[a].elf_buf_source # "static"
          /\ \A b \in Loaded : app'[b].elf_buf_source = app[b].elf_buf_source
      BY <1>4, <2>2, <3>1
    <3>3. static_in_use' <=> static_in_use
      BY <1>3, <2>2
    <3> QED
      BY <1>8, <3>2, <3>3 DEF StaticBufferOwned, IInv
  <2> QED
    BY <2>1, <2>2
<1> QED
  BY <1>3, <1>6, <1>7, <1>9, FewerRun DEF IInv

\* A load that fails gives back the buffer it took.
LEMMA LoadFailsIInv ==
    ASSUME IInv, NEW a \in Apps, NEW fits \in BOOLEAN, load_fails(a, fits)
    PROVE  IInv'
<1>1. static_in_use' = static_in_use
  BY DEF load_fails, staging_alloc, staging_release, IInv, TableTypeOK
<1>2. UNCHANGED rtvars
  BY <1>1 DEF load_fails, rtvars
<1> QED
  BY <1>2 DEF IInv, rtvars, TableTypeOK, RunningWithinLimit, Running, StateOf,
              IsLoaded, StaticBufferOwned, Loaded

\* unload frees the static buffer exactly when the app had it.
LEMMA UnloadIInv ==
    ASSUME IInv, NEW a \in Apps, unload(a)
    PROVE  IInv'
<1>1. /\ IsLoaded(a)
      /\ app' = [app EXCEPT ![a] = NotLoaded] /\ policy' = policy
      /\ static_in_use' = (static_in_use /\ app[a].elf_buf_source # "static")
  BY DEF unload, staging_release
<1>2. /\ app' \in [Apps -> AppRecord \cup {NotLoaded}]
      /\ app'[a] = NotLoaded /\ \A b \in Apps \ {a} : app'[b] = app[b]
  BY <1>1 DEF IInv, TableTypeOK
<1>4. static_in_use' \in BOOLEAN
  BY <1>1
<1>5. TableTypeOK'
  BY <1>1, <1>2, <1>4 DEF IInv, TableTypeOK
<1>6. Running' \subseteq Running
  BY <1>2 DEF Running, StateOf, IsLoaded
<1>7. Loaded' = Loaded \ {a} /\ a \in Loaded
  BY <1>1, <1>2 DEF Loaded, IsLoaded
<1>8. \A b \in Loaded' : app'[b].elf_buf_source = app[b].elf_buf_source
  BY <1>2, <1>7 DEF Loaded
<1>9. StaticBufferOwned'
  <2>1. CASE app[a].elf_buf_source = "static"
    <3>1. static_in_use' = FALSE
      BY <1>1, <2>1
    <3>2. \A b \in Loaded' : app'[b].elf_buf_source # "static"
      BY <1>7, <1>8, <2>1 DEF IInv, StaticBufferOwned
    <3> QED
      BY <3>1, <3>2 DEF StaticBufferOwned
  <2>2. CASE app[a].elf_buf_source # "static"
    <3>1. static_in_use' <=> static_in_use
      BY <1>1, <2>2
    <3> QED
      BY <1>7, <1>8, <2>2, <3>1 DEF IInv, StaticBufferOwned
  <2> QED
    BY <2>1, <2>2
<1> QED
  BY <1>1, <1>5, <1>6, <1>9, FewerRun DEF IInv

\* set_policy refuses a limit below what runs.
LEMMA PolicyIInv ==
    ASSUME IInv, NEW p \in Policies, set_policy(p)
    PROVE  IInv'
<1>1. p \in Policy
  BY PoliciesAssumption
<1>2. TableTypeOK'
  BY <1>1 DEF set_policy, IInv, TableTypeOK
<1>3. Running' = Running
  BY DEF set_policy, Running, StateOf, IsLoaded
<1>4. RunningWithinLimit'
  BY <1>3 DEF set_policy, RunningWithinLimit
<1>5. StaticBufferOwned'
  BY BufferKept DEF set_policy, IInv
<1> QED
  BY <1>2, <1>4, <1>5 DEF IInv

-----------------------------------------------------------------------------
\* The runtime starts with nothing loaded and no limits.
LEMMA InitIInv == Init => IInv
<1> SUFFICES ASSUME Init PROVE IInv
  OBVIOUS
<1>1. \A a \in Apps : ~IsLoaded(a)
  BY DEF Init, IsLoaded
<1>2. TableTypeOK
  BY NoLimitAssumption DEF Init, TableTypeOK, Policy
<1>3. Running = {}
  BY <1>1 DEF Running, StateOf
<1>4. RunningWithinLimit
  BY <1>3, FS_EmptySet, NoLimitAssumption DEF RunningWithinLimit, Init
<1>5. Loaded = {}
  BY <1>1 DEF Loaded
<1>6. StaticBufferOwned
  BY <1>5 DEF StaticBufferOwned, Init
<1> QED
  BY <1>2, <1>4, <1>6 DEF IInv

\* Every call keeps the inductive invariant.
LEMMA NextIInv == IInv /\ [Next]_rtvars => IInv'
<1> SUFFICES ASSUME IInv, [Next]_rtvars PROVE IInv'
  OBVIOUS
<1>1. CASE UNCHANGED rtvars
  BY <1>1 DEF IInv, rtvars, TableTypeOK, RunningWithinLimit, Running, StateOf,
              IsLoaded, StaticBufferOwned, Loaded
<1>2. ASSUME NEW p \in Policies, set_policy(p) PROVE IInv'
  BY <1>2, PolicyIInv
<1>3. ASSUME NEW a \in Apps, ConsoleCall(a) PROVE IInv'
  <2>1. ASSUME NEW symbol \in PrioritySymbols \cup {NoSymbol},
               NEW fits \in BOOLEAN, load(a, symbol, fits)
        PROVE  IInv'
    BY <2>1, LoadIInv
  <2>2. ASSUME NEW fits \in BOOLEAN, load_fails(a, fits) PROVE IInv'
    BY <2>2, LoadFailsIInv
  <2>3. CASE start(a)
    <3>1. IsLoaded(a) /\ a \notin Running
      BY <2>3 DEF start, StateOf, Running
    <3>2. PICK table \in ensure_running_slot(a) : app' = Resumed(table, a)
      BY <2>3 DEF start
    <3> QED
      BY <2>3, <3>1, <3>2, SlotFilledIInv DEF start
  <2>4. CASE start_fails(a)
    <3>1. IsLoaded(a) /\ a \notin Running
      BY <2>4 DEF start_fails, StateOf, Running
    <3> QED
      BY <2>4, <3>1, SlotTakenIInv DEF start_fails
  <2>5. CASE suspend(a)
    <3>1. IsLoaded(a)
      BY <2>5 DEF suspend, StateOf
    <3> QED
      BY <2>5, <3>1, HaltedIInv DEF suspend, Suspended
  <2>6. CASE resume(a)
    <3>1. IsLoaded(a) /\ a \notin Running
      BY <2>6 DEF resume, StateOf, Running
    <3>2. PICK table \in ensure_running_slot(a) : app' = Resumed(table, a)
      BY <2>6 DEF resume
    <3> QED
      BY <2>6, <3>1, <3>2, SlotFilledIInv DEF resume
  <2>7. CASE resume_fails(a)
    <3>1. IsLoaded(a) /\ a \notin Running
      BY <2>7 DEF resume_fails, StateOf, Running
    <3> QED
      BY <2>7, <3>1, SlotTakenIInv DEF resume_fails
  <2>8. CASE stop(a)
    BY <2>8, StopIInv
  <2>9. CASE unload(a)
    BY <2>9, UnloadIInv
  <2>10. CASE unload_fails(a)
    BY <2>10, StopIInv DEF unload_fails
  <2> QED
    BY <1>3, <2>1, <2>2, <2>3, <2>4, <2>5, <2>6, <2>7, <2>8, <2>9, <2>10
       DEF ConsoleCall
<1> QED
  BY <1>1, <1>2, <1>3 DEF Next

\* The inductive invariant holds throughout.
LEMMA Invariance == Spec => []IInv
BY InitIInv, NextIInv, PTL DEF Spec

\* app_runtime_start, _resume and _set_policy together never let more
\* applications run than the policy in force allows.
THEOREM RunsWithinLimit == Spec => []RunningWithinLimit
<1>1. IInv => RunningWithinLimit
  BY DEF IInv
<1> QED
  BY <1>1, Invariance, PTL

\* app_runtime_elf_staging_alloc hands the static buffer to one application at
\* a time, and every path of app_runtime_load and _unload gives it back.
THEOREM StaticBufferIsOwned == Spec => []StaticBufferOwned
<1>1. IInv => StaticBufferOwned
  BY DEF IInv
<1> QED
  BY <1>1, Invariance, PTL

-----------------------------------------------------------------------------
\* A call that looks for a slot suspends the right victim, whether the app
\* that asked for the slot then runs or not.
LEMMA SlotVictim ==
    ASSUME IInv, NEW a \in Apps, IsLoaded(a), a \notin Running,
           NEW table \in ensure_running_slot(a),
           app' = table \/ app' = Resumed(table, a),
           NEW v \in Apps, Preempted(v)
    PROVE  IsRightVictim(v)
<1> USE DEF IInv
<1>1. app[a] \in AppRecord
  BY DEF IsLoaded, TableTypeOK
<1>2. /\ table \in [Apps -> AppRecord \cup {NotLoaded}] /\ table[a] = app[a]
  BY SlotTable
<1>3. \A b \in Apps \ {a} : app'[b] = table[b]
  <2>1. table[a] \in AppRecord
    BY <1>1, <1>2
  <2>2. \A b \in Apps \ {a} : Resumed(table, a)[b] = table[b]
    BY <1>2, <2>1, ResumedTable
  <2> QED
    BY <2>2
<1>4. v # a /\ v \in Running /\ IsLoaded(v)
  BY DEF Preempted, Running, StateOf
<1>5. app'[v] = table[v] /\ app'[v].state = "SUSPENDED"
  BY <1>3, <1>4 DEF Preempted, StateOf
<1>6. app[v].state = "RUNNING"
  BY <1>4 DEF Running, StateOf
<1>7. ~SlotFree /\ \E w \in Candidate(a) : table = Suspended(w, TRUE)
  BY <1>5, <1>6, SlotCases
<1>8. PICK w \in Candidate(a) : table = Suspended(w, TRUE)
  BY <1>7
<1>9. w \in Running /\ w # a /\ app[w].priority > app[a].priority
  BY CandidateRuns
<1>10. \A b \in Apps \ {w} : table[b] = app[b]
  BY <1>8, <1>9, SuspendedTable
<1>11. v = w
  BY <1>5, <1>6, <1>10
<1>12. \A b \in Running \ {v} : b # a /\ b \in Apps /\ app'[b] = app[b]
  BY <1>3, <1>10, <1>11 DEF Running
<1>13. Running \ {v} \subseteq Running'
  BY <1>12 DEF Running, StateOf, IsLoaded
<1>14. \A b \in Apps : b \in Running => app[b].priority \in Int
  BY DEF Running, StateOf, IsLoaded, TableTypeOK, AppRecord
<1>15. app[a].priority \in Int
  BY <1>1 DEF AppRecord
<1>16. ASSUME NEW b \in Running', b \in Running
       PROVE  app[b].priority <= app[v].priority
  <2>1. b \in Apps /\ b # a
    BY <1>16 DEF Running
  <2>2. CASE b = v
    BY <2>2, <1>14, <1>16, <2>1
  <2>3. CASE b # v /\ app[b].priority > app[a].priority
    <3>1. b \in Preemptable(a) \ {w}
      BY <1>11, <1>16, <2>1, <2>3 DEF Preemptable
    <3>2. \/ app[b].priority < app[w].priority
          \/ app[b].priority = app[w].priority
      BY <3>1 DEF Candidate
    <3> QED
      BY <3>2, <1>11, <1>14, <1>16, <1>4, <2>1
  <2>4. CASE ~(app[b].priority > app[a].priority)
    BY <2>4, <1>9, <1>11, <1>14, <1>15, <1>16, <1>4, <2>1
  <2> QED
    BY <2>2, <2>3, <2>4
<1>17. ASSUME NEW b \in Running', b \notin Running
       PROVE  app[b].priority < app[v].priority
  <2>1. b = a
    <3>1. b \in Apps
      BY DEF Running
    <3>2. b # v
      BY <1>4, <1>17
    <3>3. CASE b # a
      <4>1. app'[b] = app[b]
        BY <3>1, <3>2, <3>3, <1>3, <1>10, <1>11
      <4> QED
        BY <4>1, <3>1, <1>17 DEF Running, StateOf, IsLoaded
    <3> QED
      BY <3>3
  <2> QED
    BY <2>1, <1>9, <1>11, <1>14, <1>15, <1>4
<1> QED
  BY <1>7, <1>13, <1>16, <1>17 DEF IsRightVictim

\* Only a call that looks for a slot preempts.
LEMMA NextVictim ==
    ASSUME IInv, Next, NEW v \in Apps, Preempted(v)
    PROVE  IsRightVictim(v)
<1> USE DEF IInv
<1>1. /\ IsLoaded(v) /\ app[v] \in AppRecord /\ app[v].state = "RUNNING"
      /\ app'[v] # NotLoaded /\ app'[v].state = "SUSPENDED"
      /\ app'[v].auto_suspended
  BY DEF Preempted, StateOf, IsLoaded, TableTypeOK
<1>2. app' # app
  BY <1>1
<1>3. PICK a \in Apps : ConsoleCall(a)
  BY <1>2 DEF Next, set_policy
<1>4. \A r \in AppRecord, auto \in BOOLEAN, s \in {"INITIALIZED", "SUSPENDED"} :
         app' = [app EXCEPT ![a] = InState(r, s, auto)] =>
            a = v /\ s = "SUSPENDED" /\ auto
  BY <1>1 DEF InState, TableTypeOK
<1>5. CASE start(a)
  <2>1. IsLoaded(a) /\ a \notin Running
    BY <1>5 DEF start, StateOf, Running
  <2> QED
    BY <1>5, <2>1, SlotVictim DEF start
<1>6. CASE start_fails(a)
  <2>1. IsLoaded(a) /\ a \notin Running
    BY <1>6 DEF start_fails, StateOf, Running
  <2> QED
    BY <1>6, <2>1, SlotVictim DEF start_fails
<1>7. CASE resume(a)
  <2>1. IsLoaded(a) /\ a \notin Running
    BY <1>7 DEF resume, StateOf, Running
  <2> QED
    BY <1>7, <2>1, SlotVictim DEF resume
<1>8. CASE resume_fails(a)
  <2>1. IsLoaded(a) /\ a \notin Running
    BY <1>8 DEF resume_fails, StateOf, Running
  <2> QED
    BY <1>8, <2>1, SlotVictim DEF resume_fails
<1>9. ~suspend(a)
  <2>1. SUFFICES ASSUME suspend(a) PROVE FALSE
    OBVIOUS
  <2>2. app[a] \in AppRecord /\ app' = [app EXCEPT ![a] = InState(app[a], "SUSPENDED", FALSE)]
    BY <2>1 DEF suspend, Suspended, StateOf, IsLoaded, TableTypeOK
  <2> QED
    BY <1>4, <2>2
<1>10. ~stop(a)
  <2>1. SUFFICES ASSUME stop(a) PROVE FALSE
    OBVIOUS
  <2>2. app[a] \in AppRecord /\ app' = [app EXCEPT ![a] = InState(app[a], "INITIALIZED", FALSE)]
    BY <2>1, <1>2 DEF stop, StateOf, IsLoaded, TableTypeOK
  <2> QED
    BY <1>4, <2>2
<1>11. ~unload(a) /\ ~unload_fails(a)
  BY <1>1, <1>10 DEF unload, unload_fails, TableTypeOK
<1>12. \A fits \in BOOLEAN : ~load_fails(a, fits)
  BY <1>2 DEF load_fails
<1>13. \A symbol \in PrioritySymbols \cup {NoSymbol}, fits \in BOOLEAN :
          ~load(a, symbol, fits)
  BY <1>1 DEF load, LoadAdmits, TableTypeOK
<1> QED
  BY <1>3, <1>5, <1>6, <1>7, <1>8, <1>9, <1>10, <1>11, <1>12, <1>13
     DEF ConsoleCall

\* app_runtime_ensure_running_slot_locked preempts only when it must, and then
\* the least important application that runs.
THEOREM PreemptionIsRight == Spec => PreemptsLeastImportant
<1>1. IInv /\ [Next]_rtvars =>
         [\A v \in Apps : Preempted(v) => IsRightVictim(v)]_rtvars
  BY NextVictim
<1> QED
  BY <1>1, Invariance, PTL DEF Spec, PreemptsLeastImportant

-----------------------------------------------------------------------------
\* Requests and the console (AppControl).  Whatever a handler or the console
\* does to the runtime is one of the runtime's own calls.
LEMMA ControlCallsRuntime ==
    ASSUME [ControlNext]_vars
    PROVE  [Next]_rtvars
<1>1. ASSUME NEW a \in Apps, ConsoleCall(a) PROVE Next
  BY <1>1 DEF Next
<1>2. CASE UNCHANGED rtvars
  BY <1>2
<1>3. ASSUME NEW a \in Apps,
             start(a) \/ start_fails(a) \/ stop(a) \/ unload(a) \/ unload_fails(a)
      PROVE  Next
  BY <1>1, <1>3 DEF ConsoleCall
<1>4. ASSUME NEW a \in Apps, DeployLoads(a) PROVE [Next]_rtvars
  BY <1>1, <1>4 DEF DeployLoads, ConsoleCall
<1>5. ASSUME NEW a \in Apps, ConsoleActs(a) PROVE Next
  BY <1>1, <1>5 DEF ConsoleActs
<1>6. ASSUME NEW a \in Apps,
             CommandStart(a) \/ CommandStop(a) \/ CommandUnload(a) \/ Activate(a)
             \/ Rollback(a) \/ DeployStarts(a)
      PROVE  [Next]_rtvars
  BY <1>3, <1>6 DEF CommandStart, CommandStop, CommandUnload, Activate,
     Rollback, DeployStarts
<1>7. ASSUME NEW a \in Apps,
             RegistryFollows(a) \/ Dispatch(a) \/ RollbackForgets(a)
             \/ DeployRegisters(a) \/ CommandInvoke(a) \/ Delete(a)
      PROVE  UNCHANGED rtvars
  BY <1>7 DEF RegistryFollows, Dispatch, RollbackForgets, DeployRegisters,
     CommandInvoke, Delete
<1>8. CASE UNCHANGED vars
  BY <1>8 DEF vars
<1> QED
  BY <1>4, <1>5, <1>6, <1>7, <1>8 DEF ControlNext, HandlerStep

\* The Unit starts with nothing loaded, under a policy that main() may set.
LEMMA ControlInitIInv == ControlInit => IInv
<1> SUFFICES ASSUME ControlInit PROVE IInv
  OBVIOUS
<1>1. \A a \in Apps : ~IsLoaded(a)
  BY DEF ControlInit, IsLoaded
<1>2. policy \in Policy
  BY BootsAssumption DEF ControlInit
<1>3. TableTypeOK
  BY <1>2 DEF ControlInit, TableTypeOK
<1>4. Running = {} /\ Loaded = {}
  BY <1>1 DEF Running, Loaded, StateOf
<1>5. RunningWithinLimit
  BY <1>2, <1>4, FS_EmptySet DEF RunningWithinLimit, Policy
<1>6. StaticBufferOwned
  BY <1>4 DEF StaticBufferOwned, ControlInit
<1> QED
  BY <1>3, <1>5, <1>6 DEF IInv

\* The runtime's invariant holds under requests and console together.
LEMMA ControlIInv == ControlSpec => []IInv
<1>1. IInv /\ [ControlNext]_vars => IInv'
  BY ControlCallsRuntime, NextIInv
<1> QED
  BY <1>1, ControlInitIInv, PTL DEF ControlSpec

\* Requests of the query callback thread and calls of the console thread,
\* interleaved in any way, never run more applications than the policy
\* allows, never hand the static buffer to two, and preempt only the
\* least important application.
THEOREM SharedRuntimeIsSafe ==
    ControlSpec => /\ [](RunningWithinLimit /\ StaticBufferOwned)
                   /\ PreemptsLeastImportant
<1>1. IInv => RunningWithinLimit /\ StaticBufferOwned
  BY DEF IInv
<1>2. IInv /\ [ControlNext]_vars =>
         [\A v \in Apps : Preempted(v) => IsRightVictim(v)]_rtvars
  BY ControlCallsRuntime, NextVictim
<1> QED
  BY <1>1, <1>2, ControlIInv, PTL DEF ControlSpec, PreemptsLeastImportant

-----------------------------------------------------------------------------
\* The registry and the request in progress are well typed.
RegistryTypeOK ==
    /\ registry \in [Apps -> CommandState]
    /\ job \in Job \cup {Idle}
    /\ clean \in BOOLEAN

\* The steps of a request that has stopped, or will replace, its app and has
\* yet to tell the registry or to start the app again.
Unsettled == {"disable", "remove", "forget", "load", "start"}

\* While nothing disturbs the requests, an enabled command belongs to an app
\* that runs or to the app of the request in progress, which will settle it;
\* and a request about to enable a command has its app running.
SettledOK ==
    clean => /\ \A a \in Apps : registry[a] = "ENABLED" =>
                   \/ a \in Running
                   \/ job # Idle /\ job.app = a /\ job.step \in Unsettled
             /\ job # Idle /\ job.step \in {"enable", "register"} =>
                   job.app \in Running

ControlInv == IInv /\ RegistryTypeOK /\ SettledOK

\* A request in progress has its app and its step.
LEMMA ServesFacts ==
    ASSUME NEW a \in Apps,
           NEW step \in {"enable", "disable", "remove", "dispatch", "forget",
                         "load", "start", "register"},
           Serves(a, step)
    PROVE  job \in Job /\ job # Idle /\ job.app = a /\ job.step = step
<1>1. job = [step |-> step, app |-> a] /\ job \in Job
  BY DEF Serves, Job
<1> QED
  BY <1>1, IdleAssumption

\* A request goes on to a next step, or ends, with a well-typed job.
LEMMA GotoFacts ==
    ASSUME RegistryTypeOK, NEW a \in Apps,
           NEW step \in {"enable", "disable", "remove", "dispatch", "forget",
                         "load", "start", "register"},
           Goto(a, step)
    PROVE  /\ job' \in Job /\ job' # Idle /\ job'.app = a /\ job'.step = step
           /\ clean' \in BOOLEAN
           /\ clean' => clean /\ \A b \in Apps \ {a} : app'[b] = app[b]
<1>1. job' = [step |-> step, app |-> a]
  BY DEF Goto
<1>2. job' \in Job
  BY <1>1 DEF Job
<1>3. clean' = (clean /\ \A b \in Apps \ {a} : app'[b] = app[b])
  BY DEF Goto
<1> QED
  BY <1>1, <1>2, <1>3, IdleAssumption

\* A request that leaves the registry alone and goes on to a next step keeps
\* the commands of the other apps: they ran and still do.
LEMMA GotoSettled ==
    ASSUME ControlInv, NEW a \in Apps,
           NEW step \in {"enable", "disable", "remove", "dispatch", "forget",
                         "load", "start", "register"},
           Goto(a, step), UNCHANGED registry,
           job = Idle \/ (job.app = a),
           \/ step \in Unsettled
           \/ step \in {"enable", "register"} /\ a \in Running'
           \/ step = "dispatch" /\ job = Idle /\ app' = app
    PROVE  RegistryTypeOK' /\ SettledOK'
<1>1. /\ job' \in Job /\ job' # Idle /\ job'.app = a /\ job'.step = step
      /\ clean' \in BOOLEAN
      /\ clean' => clean /\ \A b \in Apps \ {a} : app'[b] = app[b]
  BY GotoFacts DEF ControlInv
<1>2. RegistryTypeOK'
  BY <1>1 DEF ControlInv, RegistryTypeOK
<1>3. SUFFICES ASSUME clean' PROVE SettledOK'
  BY <1>2 DEF SettledOK
<1>4. clean /\ \A b \in Apps \ {a} : app'[b] = app[b]
  BY <1>1, <1>3
<1>5. \A b \in Apps \ {a} : b \in Running' <=> b \in Running
  BY <1>4 DEF Running, StateOf, IsLoaded
<1>6. \A b \in Apps \ {a} : registry[b] = "ENABLED" => b \in Running
  BY <1>4 DEF ControlInv, SettledOK
<1>7. CASE step \in Unsettled
  BY <1>1, <1>5, <1>6, <1>7 DEF SettledOK, Unsettled
<1>8. CASE step \in {"enable", "register"} /\ a \in Running'
  BY <1>1, <1>5, <1>6, <1>8 DEF SettledOK
<1>9. CASE step = "dispatch" /\ job = Idle /\ app' = app
  <2>1. Running' = Running
    BY <1>9 DEF Running, StateOf, IsLoaded
  <2>2. \A b \in Apps : registry[b] = "ENABLED" => b \in Running
    BY <1>4, <1>9 DEF ControlInv, SettledOK
  <2> QED
    BY <1>1, <1>9, <2>1, <2>2 DEF SettledOK
<1> QED
  BY <1>7, <1>8, <1>9

\* A step that only settles the registry of its own app, and what may enable
\* it has the app running.
LEMMA DoneSettled ==
    ASSUME ControlInv, NEW a \in Apps, job' \in Job \cup {Idle},
           UNCHANGED rtvars, UNCHANGED clean,
           registry' \in [Apps -> CommandState],
           \A b \in Apps \ {a} : registry'[b] = registry[b],
           job = Idle \/ job.app = a,
           clean /\ registry'[a] = "ENABLED" => a \in Running,
           \/ job' = Idle
           \/ job' # Idle /\ job'.app = a /\ job'.step \in Unsettled
    PROVE  RegistryTypeOK' /\ SettledOK'
<1>1. RegistryTypeOK'
  BY DEF ControlInv, RegistryTypeOK
<1>2. Running' = Running
  BY DEF rtvars, Running, StateOf, IsLoaded
<1>3. SUFFICES ASSUME clean PROVE SettledOK'
  BY <1>1 DEF SettledOK
<1>4. \A b \in Apps \ {a} : registry[b] = "ENABLED" => b \in Running
  BY <1>3 DEF ControlInv, SettledOK
<1>5. \A b \in Apps : registry'[b] = "ENABLED" => b \in Running
  BY <1>3, <1>4
<1> QED
  BY <1>2, <1>5 DEF SettledOK, Unsettled

\* A request that fails, or the console, leaves the ghost unset and only the
\* types to keep.
LEMMA Disturbed ==
    ASSUME RegistryTypeOK, UNCHANGED registry, job' \in Job \cup {Idle},
           clean' = FALSE
    PROVE  RegistryTypeOK' /\ SettledOK'
BY DEF RegistryTypeOK, SettledOK

\* An app that start reports as started runs.
LEMMA StartedRuns ==
    ASSUME IInv, NEW a \in Apps, start(a)
    PROVE  a \in Running'
<1>1. IsLoaded(a) /\ a \notin Running
  BY DEF start, StateOf, Running
<1>2. PICK table \in ensure_running_slot(a) : app' = Resumed(table, a)
  BY DEF start
<1>3. /\ table \in [Apps -> AppRecord \cup {NotLoaded}] /\ table[a] = app[a]
  BY <1>1, SlotTable
<1>4. table[a] \in AppRecord
  BY <1>1, <1>3 DEF IInv, TableTypeOK, IsLoaded
<1>5. app'[a] \in AppRecord /\ app'[a] = InState(table[a], "RUNNING", FALSE)
  BY <1>2, <1>3, <1>4, ResumedTable
<1>6. app'[a].state = "RUNNING"
  BY <1>5 DEF InState
<1> QED
  BY <1>5, <1>6, NotLoadedAssumption DEF Running, StateOf, IsLoaded

\* The commands a request leaves as they are when its step is not one that
\* keeps a command unsettled.
LEMMA SettledRuns ==
    ASSUME ControlInv, clean, NEW b \in Apps, registry[b] = "ENABLED",
           job = Idle \/ job.step \notin Unsettled
    PROVE  b \in Running
BY DEF ControlInv, SettledOK

\* Requests that begin: the runtime's part of start, stop, unload, activate and
\* rollback, and the lookup of a callback command.
LEMMA RequestBegins ==
    ASSUME ControlInv, NEW a \in Apps,
           \/ CommandStart(a) \/ CommandStop(a) \/ CommandUnload(a)
           \/ CommandInvoke(a) \/ Activate(a) \/ Rollback(a) \/ Delete(a)
    PROVE  RegistryTypeOK' /\ SettledOK'
<1>t. IInv /\ RegistryTypeOK
  BY DEF ControlInv
<1>0. job = Idle
  BY DEF CommandStart, CommandStop, CommandUnload, CommandInvoke, Activate,
         Rollback, Delete
<1>f. ASSUME Fails, UNCHANGED registry PROVE RegistryTypeOK' /\ SettledOK'
  BY <1>t, <1>f, Disturbed DEF Fails
<1>g. ASSUME NEW step \in Unsettled, Goto(a, step), UNCHANGED registry
      PROVE  RegistryTypeOK' /\ SettledOK'
  <2>1. step \in {"enable", "disable", "remove", "dispatch", "forget",
                  "load", "start", "register"}
    BY DEF Unsettled
  <2> QED
    BY <1>0, <1>g, <2>1, GotoSettled
<1>u. "disable" \in Unsettled /\ "remove" \in Unsettled /\ "load" \in Unsettled
      /\ "forget" \in Unsettled
  BY DEF Unsettled
<1>1. CASE CommandStart(a)
  <2>1. CASE start(a) /\ Goto(a, "enable")
    <3>1. a \in Running'
      BY <1>t, <2>1, StartedRuns
    <3>2. UNCHANGED registry
      BY <1>1 DEF CommandStart
    <3> QED
      BY <1>0, <2>1, <3>1, <3>2, GotoSettled
  <2> QED
    BY <1>1, <1>f, <2>1 DEF CommandStart
<1>2. CASE CommandStop(a)
  BY <1>2, <1>g, <1>u DEF CommandStop
<1>3. CASE CommandUnload(a)
  BY <1>3, <1>f, <1>g, <1>u DEF CommandUnload
<1>4. CASE CommandInvoke(a)
  <2>1. UNCHANGED rtvars /\ UNCHANGED registry /\ app' = app
    BY <1>4 DEF CommandInvoke, rtvars
  <2>2. CASE Goto(a, "dispatch")
    BY <1>0, <2>1, <2>2, GotoSettled
  <2>3. CASE Done
    <3>1. job' = Idle /\ UNCHANGED clean
      BY <2>3 DEF Done
    <3>2. registry' \in [Apps -> CommandState]
      BY <1>t, <2>1 DEF RegistryTypeOK
    <3>3. clean /\ registry'[a] = "ENABLED" => a \in Running
      BY <1>0, <2>1, SettledRuns
    <3> QED
      BY <1>0, <2>1, <3>1, <3>2, <3>3, DoneSettled
  <2> QED
    BY <1>4, <2>2, <2>3 DEF CommandInvoke
<1>5. CASE Activate(a)
  BY <1>5, <1>f, <1>g, <1>u DEF Activate
<1>6. CASE Rollback(a)
  BY <1>6, <1>f, <1>g, <1>u DEF Rollback
<1>7. CASE Delete(a)
  <2>1. UNCHANGED rtvars /\ UNCHANGED clean /\ job' = Idle
    BY <1>0, <1>7 DEF Delete
  <2>2. /\ registry' \in [Apps -> CommandState] /\ registry'[a] = "UNREGISTERED"
        /\ \A b \in Apps \ {a} : registry'[b] = registry[b]
    BY <1>t, <1>7 DEF Delete, remove_app, RegistryTypeOK, CommandState
  <2> QED
    BY <1>0, <2>1, <2>2, DoneSettled
<1> QED
  BY <1>1, <1>2, <1>3, <1>4, <1>5, <1>6, <1>7

\* The steps with which a request goes on: the registry follows, the callback
\* is called, the deployment loads, starts and registers.
LEMMA RequestGoesOn ==
    ASSUME ControlInv, HandlerStep
    PROVE  RegistryTypeOK' /\ SettledOK'
<1>t. IInv /\ RegistryTypeOK /\ registry \in [Apps -> CommandState]
  BY DEF ControlInv, RegistryTypeOK
<1>f. ASSUME Fails, UNCHANGED registry PROVE RegistryTypeOK' /\ SettledOK'
  BY <1>t, <1>f, Disturbed DEF Fails
<1>d. ASSUME NEW a \in Apps, Done, UNCHANGED rtvars, job.app = a,
             registry' \in [Apps -> CommandState],
             \A b \in Apps \ {a} : registry'[b] = registry[b],
             clean /\ registry'[a] = "ENABLED" => a \in Running
      PROVE  RegistryTypeOK' /\ SettledOK'
  BY <1>d, DoneSettled DEF Done
<1>1. ASSUME NEW a \in Apps, RegistryFollows(a)
      PROVE  RegistryTypeOK' /\ SettledOK'
  <2>0. Done /\ UNCHANGED rtvars
    BY <1>1 DEF RegistryFollows
  <2>1. CASE Serves(a, "enable") /\ set_app_enabled(a, TRUE)
    <3>1. job # Idle /\ job.app = a /\ job.step = "enable"
      BY <2>1, ServesFacts
    <3>2. clean => a \in Running
      BY <3>1 DEF ControlInv, SettledOK
    <3>3. /\ registry' \in [Apps -> CommandState]
          /\ \A b \in Apps \ {a} : registry'[b] = registry[b]
      BY <1>t, <2>1 DEF set_app_enabled, CommandState
    <3> QED
      BY <1>d, <2>0, <3>1, <3>2, <3>3
  <2>2. CASE Serves(a, "disable") /\ set_app_enabled(a, FALSE)
    <3>1. job.app = a
      BY <2>2, ServesFacts
    <3>2. /\ registry' \in [Apps -> CommandState] /\ registry'[a] # "ENABLED"
          /\ \A b \in Apps \ {a} : registry'[b] = registry[b]
      BY <1>t, <2>2 DEF set_app_enabled, CommandState, Registered
    <3> QED
      BY <1>d, <2>0, <3>1, <3>2
  <2>3. CASE Serves(a, "remove") /\ remove_app(a)
    <3>1. job.app = a
      BY <2>3, ServesFacts
    <3>2. /\ registry' \in [Apps -> CommandState] /\ registry'[a] # "ENABLED"
          /\ \A b \in Apps \ {a} : registry'[b] = registry[b]
      BY <1>t, <2>3 DEF remove_app, CommandState
    <3> QED
      BY <1>d, <2>0, <3>1, <3>2
  <2> QED
    BY <1>1, <2>1, <2>2, <2>3 DEF RegistryFollows
<1>2. ASSUME NEW a \in Apps, Dispatch(a)
      PROVE  RegistryTypeOK' /\ SettledOK'
  <2>1. Done /\ UNCHANGED rtvars /\ registry' = registry /\ Serves(a, "dispatch")
    BY <1>2 DEF Dispatch
  <2>2. job.app = a /\ job.step \notin Unsettled
    BY <2>1, ServesFacts DEF Unsettled
  <2>3. clean /\ registry'[a] = "ENABLED" => a \in Running
    BY <2>1, <2>2, SettledRuns
  <2> QED
    BY <1>d, <1>t, <2>1, <2>2, <2>3
<1>3. ASSUME NEW a \in Apps, RollbackForgets(a)
      PROVE  RegistryTypeOK' /\ SettledOK'
  <2>1. /\ UNCHANGED rtvars /\ app' = app /\ remove_app(a)
        /\ Serves(a, "forget") /\ (Goto(a, "load") \/ Done)
    BY <1>3 DEF RollbackForgets, rtvars
  <2>2. job.app = a
    BY <2>1, ServesFacts
  <2>3. /\ registry' \in [Apps -> CommandState] /\ registry'[a] # "ENABLED"
        /\ \A b \in Apps \ {a} : registry'[b] = registry[b]
    BY <1>t, <2>1 DEF remove_app, CommandState
  <2>4. CASE Done
    BY <1>d, <2>1, <2>2, <2>3, <2>4
  <2>5. CASE Goto(a, "load")
    <3>1. job' \in Job /\ job' # Idle /\ job'.app = a /\ job'.step = "load"
      BY <1>t, <2>5, GotoFacts
    <3>2. UNCHANGED clean
      BY <1>t, <2>1, <2>5 DEF Goto, RegistryTypeOK
    <3> QED
      BY <2>1, <2>2, <2>3, <3>1, <3>2, DoneSettled DEF Unsettled
  <2> QED
    BY <2>1, <2>4, <2>5
<1>4. ASSUME NEW a \in Apps, DeployLoads(a)
      PROVE  RegistryTypeOK' /\ SettledOK'
  <2>1. UNCHANGED registry /\ Serves(a, "load")
    BY <1>4 DEF DeployLoads
  <2>2. job.app = a
    BY <2>1, ServesFacts
  <2>3. CASE Goto(a, "start")
    BY <2>1, <2>2, <2>3, GotoSettled DEF Unsettled
  <2> QED
    BY <1>4, <1>f, <2>1, <2>3 DEF DeployLoads
<1>5. ASSUME NEW a \in Apps, DeployStarts(a)
      PROVE  RegistryTypeOK' /\ SettledOK'
  <2>1. UNCHANGED registry /\ Serves(a, "start")
    BY <1>5 DEF DeployStarts
  <2>2. job.app = a
    BY <2>1, ServesFacts
  <2>3. CASE start(a) /\ Goto(a, "register")
    <3>1. a \in Running'
      BY <1>t, <2>3, StartedRuns
    <3> QED
      BY <2>1, <2>2, <2>3, <3>1, GotoSettled
  <2> QED
    BY <1>5, <1>f, <2>1, <2>3 DEF DeployStarts
<1>6. ASSUME NEW a \in Apps, DeployRegisters(a)
      PROVE  RegistryTypeOK' /\ SettledOK'
  <2>1. /\ Done /\ UNCHANGED rtvars /\ register_callback_command(a)
        /\ Serves(a, "register")
    BY <1>6 DEF DeployRegisters
  <2>2. job # Idle /\ job.app = a /\ job.step = "register"
    BY <2>1, ServesFacts
  <2>3. clean => a \in Running
    BY <2>2 DEF ControlInv, SettledOK
  <2>4. /\ registry' \in [Apps -> CommandState]
        /\ \A b \in Apps \ {a} : registry'[b] = registry[b]
    BY <1>t, <2>1 DEF register_callback_command, CommandState
  <2> QED
    BY <1>d, <2>1, <2>2, <2>3, <2>4
<1> QED
  BY <1>1, <1>2, <1>3, <1>4, <1>5, <1>6 DEF HandlerStep

\* Every step of the handlers and the console keeps the invariant.
LEMMA ControlNextInv == ControlInv /\ [ControlNext]_vars => ControlInv'
<1> SUFFICES ASSUME ControlInv, [ControlNext]_vars
             PROVE  RegistryTypeOK' /\ SettledOK'
  BY ControlCallsRuntime, NextIInv DEF ControlInv
<1>1. ASSUME NEW a \in Apps, ConsoleActs(a) PROVE RegistryTypeOK' /\ SettledOK'
  BY <1>1, Disturbed DEF ConsoleActs, ControlInv, RegistryTypeOK
<1>2. CASE UNCHANGED vars
  BY <1>2 DEF vars, rtvars, ControlInv, RegistryTypeOK, SettledOK, Running,
              StateOf, IsLoaded
<1> QED
  BY <1>1, <1>2, RequestBegins, RequestGoesOn DEF ControlNext

\* As long as only requests act and all succeed, the command registry and the
\* runtime agree between requests, though each request updates them in
\* separate steps: neuro_unit_app_command.c and the update service leave no
\* command enabled whose app does not run.
THEOREM EnabledCommandsRun == ControlSpec => []EnabledIsRunning
<1>1. ControlInit => ControlInv
  <2>1. SUFFICES ASSUME ControlInit PROVE RegistryTypeOK /\ SettledOK
    BY ControlInitIInv DEF ControlInv
  <2> QED
    BY <2>1 DEF ControlInit, RegistryTypeOK, SettledOK, CommandState
<1>2. ControlInv => EnabledIsRunning
  BY DEF ControlInv, SettledOK, EnabledIsRunning
<1> QED
  BY <1>1, <1>2, ControlNextInv, PTL DEF ControlSpec
-----------------------------------------------------------------------------
\* A request in progress is bounded.

\* How many steps the callback thread has left in a request at this step.
LeftAt(step) ==
    CASE step = "forget" -> 4
      [] step = "load" -> 3
      [] step = "start" -> 2
      [] OTHER -> 1
StepsLeft == IF job = Idle THEN 0 ELSE LeftAt(job.step)

\* Each step of a handler leaves fewer of them, the console adds none, no
\* other request begins in between, and all steps are about the same app.
RequestsWindDown ==
    [][ job # Idle =>
          /\ HandlerStep => StepsLeft' < StepsLeft
          /\ ~HandlerStep => UNCHANGED <<job, registry, answer>>
          /\ job' = Idle \/ job'.app = job.app ]_vars

LEMMA HandlerWindsDown ==
    ASSUME HandlerStep
    PROVE  /\ StepsLeft' < StepsLeft
           /\ job' = Idle \/ job'.app = job.app
<1>1. ASSUME NEW a \in Apps, NEW step \in {"enable", "disable", "remove",
               "dispatch", "forget", "load", "start", "register"},
             Serves(a, step), job' = Idle
      PROVE  /\ StepsLeft' < StepsLeft
             /\ job' = Idle \/ job'.app = job.app
  <2>1. job # Idle /\ job.step = step
    BY <1>1, ServesFacts
  <2>2. StepsLeft \in 1 .. 4
    BY <2>1 DEF StepsLeft, LeftAt
  <2>3. StepsLeft' = 0
    BY <1>1 DEF StepsLeft
  <2> QED
    BY <1>1, <2>2, <2>3
<1>2. ASSUME NEW a \in Apps, NEW from, NEW to, Serves(a, from), Goto(a, to),
             <<from, to>> \in {<<"forget", "load">>, <<"load", "start">>,
                               <<"start", "register">>}
      PROVE  /\ StepsLeft' < StepsLeft
             /\ job' = Idle \/ job'.app = job.app
  <2>1. /\ from \in {"forget", "load", "start"}
        /\ to \in {"load", "start", "register"}
        /\ LeftAt(to) < LeftAt(from)
    BY <1>2 DEF LeftAt
  <2>2. job # Idle /\ job.step = from /\ job.app = a
    BY <1>2, <2>1, ServesFacts
  <2>3. job' # Idle /\ job'.step = to /\ job'.app = a
    BY <1>2, <2>1, IdleAssumption DEF Goto, Job
  <2>4. StepsLeft = LeftAt(from) /\ StepsLeft' = LeftAt(to)
    BY <2>2, <2>3 DEF StepsLeft, LeftAt
  <2> QED
    BY <2>1, <2>2, <2>3, <2>4
<1>3. PICK a \in Apps :
        \/ RegistryFollows(a) \/ Dispatch(a) \/ RollbackForgets(a)
        \/ DeployLoads(a) \/ DeployStarts(a) \/ DeployRegisters(a)
  BY DEF HandlerStep
<1>4. CASE RegistryFollows(a) \/ Dispatch(a) \/ DeployRegisters(a)
  BY <1>1, <1>4 DEF RegistryFollows, Dispatch, DeployRegisters, Done
<1>5. CASE RollbackForgets(a)
  BY <1>1, <1>2, <1>5 DEF RollbackForgets, Done
<1>6. CASE DeployLoads(a)
  BY <1>1, <1>2, <1>6 DEF DeployLoads, Fails
<1>7. CASE DeployStarts(a)
  BY <1>1, <1>2, <1>7 DEF DeployStarts, Fails
<1> QED
  BY <1>3, <1>4, <1>5, <1>6, <1>7

\* For any apps, limits and faults, and whatever the console does in between:
\* a request that the callback thread has begun (neuro_unit_app_command.c, and
\* activate and rollback of the update service) takes at most four
\* more steps, all about its own app, and no other request enters before its
\* reply.  With a callback thread that is scheduled this is why requests end.
THEOREM AppRequestsAreBounded == ControlSpec => RequestsWindDown
<1>1. [ControlNext]_vars =>
        [ job # Idle =>
            /\ HandlerStep => StepsLeft' < StepsLeft
            /\ ~HandlerStep => UNCHANGED <<job, registry, answer>>
            /\ job' = Idle \/ job'.app = job.app ]_vars
  <2> SUFFICES ASSUME [ControlNext]_vars, job # Idle
               PROVE  /\ HandlerStep => StepsLeft' < StepsLeft
                      /\ ~HandlerStep => UNCHANGED <<job, registry, answer>>
                      /\ job' = Idle \/ job'.app = job.app
    OBVIOUS
  <2>1. CASE HandlerStep
    BY <2>1, HandlerWindsDown
  <2>2. CASE ~HandlerStep
    <3>1. UNCHANGED <<job, registry, answer>>
      BY <2>2 DEF ControlNext, CommandStart, CommandStop, CommandUnload,
                  CommandInvoke, Activate, Rollback, Delete, ConsoleActs, vars
    <3> QED
      BY <2>2, <3>1
  <2> QED
    BY <2>1, <2>2
<1> QED
  BY <1>1, PTL DEF ControlSpec, RequestsWindDown
=============================================================================
