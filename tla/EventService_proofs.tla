------------------------ MODULE EventService_proofs -------------------------
(***************************************************************************)
(* Theorems about the event service for any number of processes of any     *)
(* kind, which overlap and end at any step, any events, any number of      *)
(* cycles and any limit of the keys read back.                             *)
(***************************************************************************)
EXTENDS EventService, FiniteSetTheorems, TLAPS

\* What holds of one run, of the memory j of its process and its row r, when
\* the events ev and the memories mem are stored.

\* The steps after the batch is stored, before the span is closed.
Inside == {"remember", "commit", "think", "judge", "execute", "request",
           "result", "audit", "close"}

\* Everything in the frame is stored before it is looked at, and memories come
\* from candidates, which come from the frame.
StoredOK(j, r, ev) ==
    /\ j.step = "store" => j.frame \subseteq ev \cup j.todo
    /\ j.step \in Inside => j.todo = {} /\ j.frame \subseteq ev
    /\ j.step \in {"store", "remember"} => r.memories = {}
    /\ r.memories \subseteq r.candidates
    /\ r.candidates \subseteq TopicsOf(ev)

\* A tool that is about to run, and one that ran, was judged and needs no
\* approval; a request that waits was judged.
JudgedOK(j, r) ==
    /\ j.step \in {"judge", "execute", "request", "result"} => j.tool \in Tools
    /\ j.step \in {"execute", "request"} => j.tool \in r.policy
    /\ j.step = "execute" => ~contract[j.tool].approval
    /\ j.step = "result" /\ j.status = "pending"
          => j.tool \in r.approval /\ j.tool \in r.policy
    /\ \A t \in r.ran : t \in r.policy /\ ~contract[t].approval
    /\ \A t \in Tools : <<t, "pending">> \in r.results
                           => t \in r.approval /\ t \in r.policy

\* What ran and what waits has its result, or is about to get it.
ResultsOK(j, r) ==
    /\ \A t \in r.ran :
          \/ \E s \in {"ok", "error"} : <<t, s>> \in r.results
          \/ j.step = "result" /\ j.tool = t /\ j.status \in {"ok", "error"}
    /\ \A t \in r.approval :
          \/ <<t, "pending">> \in r.results
          \/ j.step = "result" /\ j.tool = t /\ j.status = "pending"
    /\ j.step = "close" => r.audit
    /\ r.span = "ok" => r.audit /\ j.step \in {"collect", "route", "finish"}

\* What the router has seen is stored, or is about to be.
SeenOK(j, ev) ==
    j.seen \subseteq ev \cup IF j.step = "store" THEN j.todo ELSE {}

RunOK(j, r, ev, mem) ==
    /\ StoredOK(j, r, ev)
    /\ JudgedOK(j, r)
    /\ ResultsOK(j, r)
    /\ SeenOK(j, ev)
    /\ j.recall \subseteq mem

\* The inductive invariant of the runs.
RunInv ==
    /\ TypeOK
    /\ \A p \in Procs : IF p \in Live
                        THEN RunOK(proc[p], row[p], events, memory.sqlite)
                        ELSE row[p] = NoRow

-----------------------------------------------------------------------------
\* What holds between processes.

\* The steps of a run at which its first tool has not been called.
Unacted == {"store", "remember", "commit", "think", "judge", "execute",
            "request"}

\* A process that did not overlap and was started with all keys knows every
\* stored event; until its run acts, no event of the frame was acted on, and a
\* service has counted what it added.  ev are the events stored, acted how
\* often each was acted on, added the rows that the process has added.
AloneOK(j, ev, acted, added) ==
    /\ j.kind # "replay"
    /\ ev \subseteq j.seen
    /\ j.step \in Inside \cup {"store"} => j.frame \subseteq j.seen
    /\ j.step = "store" => j.todo \subseteq j.frame /\ j.todo \cap ev = {}
    /\ j.step \in Unacted /\ ~j.recovering => \A e \in j.frame : acted[e] = 0
    /\ j.kind = "service" =>
          /\ j.batch \subseteq Sources
          /\ IF j.step \in Inside \cup {"store"}
             THEN added + Cardinality(j.todo) = j.stored + Cardinality(j.batch)
             ELSE added = j.stored

SharedInv ==
    /\ \A e \in Known : hist.acted[e] > 0 => e \in events
    /\ ActedOnce
    /\ \A p \in Procs : proc[p] = Idle => service[p].added = 0
    /\ \A p \in Procs : service[p].span = "completed" => proc[p] = Done
    /\ CheckpointExact
    /\ \A p \in Live \ hist.shared :
          Live = {p} /\ AloneOK(proc[p], events, hist.acted, service[p].added)

\* The inductive invariant.
Inv == RunInv /\ SharedInv

-----------------------------------------------------------------------------
\* Lemmas about the model's operators.

LEMMA LiveFacts ==
    ASSUME TypeOK, NEW p \in Live
    PROVE  p \in Procs /\ proc[p] \in Proc /\ row[p] \in Row
BY DEF TypeOK, Live

\* A step of p that gives its process the memory k.
LEMMA Becomes ==
    ASSUME TypeOK, NEW p \in Procs, NEW k \in Proc,
           proc' = [proc EXCEPT ![p] = k]
    PROVE  /\ proc' \in [Procs -> Proc \cup {Idle, Done}]
           /\ proc'[p] = k /\ Live' = Live \cup {p}
           /\ \A q \in Procs \ {p} : proc'[q] = proc[q]
<1>1. /\ proc' \in [Procs -> Proc \cup {Idle, Done}]
      /\ proc'[p] = k
      /\ \A q \in Procs \ {p} : proc'[q] = proc[q]
  BY DEF TypeOK
<1>2. k \notin {Idle, Done}
  BY MarkersAssumption
<1> QED
  BY <1>1, <1>2 DEF Live

\* Finitely many events can be known.
LEMMA KnownFinite == IsFiniteSet(Known)
<1> DEFINE T(t) == {[topic |-> t, n |-> i] : i \in 1..Cycles}
<1>1. IsFiniteSet(1..Cycles)
  BY BoundsAssumption, FS_Interval
<1>2. ASSUME NEW t
      PROVE  IsFiniteSet(T(t))
  <2> DEFINE f == [i \in 1..Cycles |-> [topic |-> t, n |-> i]]
  <2>1. f \in Surjection(1..Cycles, T(t))
    BY DEF Surjection
  <2> QED
    BY <1>1, <2>1, FS_Surjection
<1>3. Known = Sources \cup T("time.tick") \cup T("core.maintenance.tick")
  BY DEF Known, Topics, External
<1> HIDE DEF T
<1> QED
  BY <1>2, <1>3, SourcesAssumption, FS_Union

LEMMA TopicsGrow ==
    ASSUME NEW S, NEW T, S \subseteq T
    PROVE  TopicsOf(S) \subseteq TopicsOf(T)
BY DEF TopicsOf

LEMMA TopicsType ==
    ASSUME NEW S \in SUBSET Known
    PROVE  TopicsOf(S) \subseteq Topics
BY SourcesAssumption DEF TopicsOf, Known, Topics

LEMMA AcceptedTopics ==
    ASSUME NEW S
    PROVE  Accepted(S) \subseteq TopicsOf(S)
BY DEF Accepted

LEMMA ShownIsCommitted ==
    ASSUME NEW p, NEW frame
    PROVE  Shown(p, frame) \subseteq memory.sqlite
BY DEF Shown, Items, Recalled

\* A query of the database finds stored events only.
LEMMA FoundIsStored ==
    ASSUME NEW p, NEW frame \in Frames(p)
    PROVE  frame = proc[p].frame \/ (proc[p].kind = "replay" /\ frame \subseteq events)
<1>1. ASSUME NEW q, NEW f \in query_events(q)
      PROVE  f \subseteq events
  BY DEF query_events, Newest
<1> QED
  BY <1>1 DEF Frames

LEMMA TicksKnown ==
    ASSUME NEW j \in Proc
    PROVE  Ticks(j) \subseteq Known
BY DEF Ticks, Known, Proc, Topics, External

\* The process after a cycle, which is one more or the end.
LEMMA AfterCycleFacts ==
    ASSUME NEW j \in Proc
    PROVE  /\ AfterCycle(j) \in Proc
           /\ AfterCycle(j).step \in {"collect", "finish"}
           /\ AfterCycle(j).cycle = IF AfterCycle(j).step = "collect"
                                    THEN j.cycle + 1 ELSE j.cycle
           /\ AfterCycle(j).kind = j.kind /\ AfterCycle(j).seen = j.seen
           /\ AfterCycle(j).batch = j.batch /\ AfterCycle(j).recall = j.recall
           /\ AfterCycle(j).stored = j.stored /\ AfterCycle(j).last = j.last
<1>1. CASE j.kind = "replay" \/ j.cycle = Cycles
  BY <1>1 DEF AfterCycle, Proc, Steps
<1>2. CASE ~(j.kind = "replay" \/ j.cycle = Cycles)
  <2>1. j.cycle + 1 \in 1..Cycles
    BY <1>2, BoundsAssumption DEF Proc
  <2> QED
    BY <1>2, <2>1 DEF AfterCycle, Proc, Steps
<1> QED
  BY <1>1, <1>2

LEMMA NoRowFacts == NoRow \in Row /\ [NoRow EXCEPT !.span = "running"] \in Row
BY DEF NoRow, Row

-----------------------------------------------------------------------------
\* The runs.

\* More events and more memories harm no run.
LEMMA RunGrows ==
    ASSUME NEW j, NEW r, NEW ev1, NEW ev2, NEW m1, NEW m2,
           RunOK(j, r, ev1, m1), ev1 \subseteq ev2, m1 \subseteq m2
    PROVE  RunOK(j, r, ev2, m2)
<1>1. TopicsOf(ev1) \subseteq TopicsOf(ev2)
  BY TopicsGrow
<1>2. StoredOK(j, r, ev2)
  BY <1>1 DEF RunOK, StoredOK
<1>3. SeenOK(j, ev2)
  BY DEF RunOK, SeenOK
<1> QED
  BY <1>2, <1>3 DEF RunOK

\* A step of a live process: it is enough to look at its own memory and row.
LEMMA LocalStep ==
    ASSUME RunInv, NEW p \in Procs, NEW k \in Proc, NEW r \in Row,
           proc' = [proc EXCEPT ![p] = k], row' = [row EXCEPT ![p] = r],
           service' \in [Procs -> Service], hist' \in Hist,
           events' \subseteq Known, events \subseteq events',
           memory' \in [sqlite : SUBSET Topics, sidecar : SUBSET Topics],
           memory.sqlite \subseteq memory'.sqlite,
           RunOK(k, r, events', memory'.sqlite)
    PROVE  RunInv'
<1>1. /\ proc' \in [Procs -> Proc \cup {Idle, Done}]
      /\ proc'[p] = k /\ Live' = Live \cup {p}
      /\ \A q \in Procs \ {p} : proc'[q] = proc[q]
  BY Becomes DEF RunInv
<1>2. /\ row' \in [Procs -> Row] /\ row'[p] = r
      /\ \A q \in Procs \ {p} : row'[q] = row[q]
  BY DEF RunInv, TypeOK
<1>3. TypeOK'
  BY <1>1, <1>2 DEF TypeOK
<1>4. ASSUME NEW q \in Procs
      PROVE  IF q \in Live' THEN RunOK(proc'[q], row'[q], events', memory'.sqlite)
             ELSE row'[q] = NoRow
  <2>1. CASE q = p
    BY <1>1, <1>2, <2>1
  <2>2. CASE q # p
    <3>1. q \in Live' <=> q \in Live
      BY <1>1, <2>2
    <3>2. CASE q \in Live
      <4>1. RunOK(proc[q], row[q], events, memory.sqlite)
        BY <3>2 DEF RunInv
      <4>2. RunOK(proc[q], row[q], events', memory'.sqlite)
        BY <4>1, RunGrows
      <4> QED
        BY <1>1, <1>2, <2>2, <3>1, <3>2, <4>2
    <3>3. CASE q \notin Live
      BY <1>2, <2>2, <3>1, <3>3 DEF RunInv
    <3> QED
      BY <3>2, <3>3
  <2> QED
    BY <2>1, <2>2
<1> QED
  BY <1>3, <1>4 DEF RunInv

\* A process that ends leaves nothing behind.
LEMMA EndsStep ==
    ASSUME RunInv, NEW p \in Procs, Ends(p), service' \in [Procs -> Service],
           UNCHANGED <<events, memory, hist>>
    PROVE  RunInv'
<1>1. /\ proc' \in [Procs -> Proc \cup {Idle, Done}]
      /\ proc'[p] = Done /\ Live' = Live \ {p}
      /\ \A q \in Procs \ {p} : proc'[q] = proc[q]
  BY DEF RunInv, TypeOK, Ends, Live
<1>2. /\ row' \in [Procs -> Row] /\ row'[p] = NoRow
      /\ \A q \in Procs \ {p} : row'[q] = row[q]
  BY NoRowFacts DEF RunInv, TypeOK, Ends
<1>3. TypeOK'
  BY <1>1, <1>2 DEF RunInv, TypeOK
<1> QED
  BY <1>1, <1>2, <1>3 DEF RunInv

\* What is known at a step of a live process.
LEMMA Current ==
    ASSUME RunInv, NEW p \in Live
    PROVE  /\ p \in Procs /\ proc[p] \in Proc /\ row[p] \in Row
           /\ RunOK(proc[p], row[p], events, memory.sqlite)
           /\ proc = [proc EXCEPT ![p] = proc[p]]
           /\ row = [row EXCEPT ![p] = row[p]]
           /\ service \in [Procs -> Service] /\ hist \in Hist
           /\ events \subseteq Known
           /\ memory \in [sqlite : SUBSET Topics, sidecar : SUBSET Topics]
BY LiveFacts DEF RunInv, TypeOK

\* Starting, collecting and planning.
LEMMA OpenStep ==
    ASSUME RunInv, NEW p \in Procs, NEW kind \in Kinds, NEW low \in BOOLEAN,
           Open(p, kind, low)
    PROVE  RunInv'
<1>1. PICK seed \in Seed(kind) :
        proc' = [proc EXCEPT ![p] =
             [kind |-> kind, step |-> "collect", cycle |-> 1, seen |-> seed,
              batch |-> {}, todo |-> {}, frame |-> {}, recall |-> {}, tool |-> "none",
              status |-> "ok", recovering |-> FALSE, stored |-> 0,
              low |-> low, last |-> 0]]
  BY DEF Open
<1> DEFINE k == [kind |-> kind, step |-> "collect", cycle |-> 1, seen |-> seed,
              batch |-> {}, todo |-> {}, frame |-> {}, recall |-> {}, tool |-> "none",
              status |-> "ok", recovering |-> FALSE, stored |-> 0,
              low |-> low, last |-> 0]
<1>2. seed \subseteq events /\ events \subseteq Known
  BY DEF Seed, RecentKeys, Newest, RunInv, TypeOK
<1>3. 1 \in 1..Cycles /\ 0 \in 0..Cycles
  BY BoundsAssumption
<1>4. k \in Proc
  BY <1>2, <1>3 DEF Proc, Steps
<1>5. row[p] = NoRow /\ row' = [row EXCEPT ![p] = NoRow]
  BY DEF Open, RunInv, Live, TypeOK
<1>6. RunOK(k, NoRow, events, memory.sqlite)
  BY <1>2 DEF RunOK, StoredOK, JudgedOK, ResultsOK, SeenOK, NoRow, Inside
<1>7. service' \in [Procs -> Service]
  BY DEF Open, RunInv, TypeOK, Service
<1>8. hist' \in Hist
  <2>1. Live \subseteq Procs
    BY DEF Live
  <2> QED
    BY <2>1 DEF Open, RunInv, TypeOK, Hist
<1> HIDE DEF k
<1>9. /\ proc' = [proc EXCEPT ![p] = k]
      /\ UNCHANGED <<events, memory>>
  BY <1>1 DEF Open, k
<1> QED
  BY <1>4, <1>5, <1>6, <1>7, <1>8, <1>9, NoRowFacts, LocalStep DEF RunInv, TypeOK

LEMMA CollectStep ==
    ASSUME RunInv, NEW p \in Procs, Collect(p)
    PROVE  RunInv'
<1>1. p \in Live /\ proc[p].step = "collect" /\ proc[p].kind # "daemon"
  BY DEF Collect, At
<1>2. PICK batch \in SUBSET Sources :
        proc' = [proc EXCEPT ![p].step = "route", ![p].batch = batch]
  BY DEF Collect
<1> DEFINE k == [proc[p] EXCEPT !.step = "route", !.batch = batch]
<1>3. batch \subseteq Known
  BY DEF Known
<1>4. k \in Proc
  <2>1. proc[p] \in Proc
    BY <1>1, Current
  <2> QED
    BY <2>1, <1>3 DEF Proc, Steps
<1>5. proc' = [proc EXCEPT ![p] = k]
  BY <1>2
<1>6. RunOK(k, row[p], events, memory.sqlite)
  <2>1. /\ proc[p] \in Proc
        /\ RunOK(proc[p], row[p], events, memory.sqlite)
    BY <1>1, Current
  <2>2. k.step = "route" /\ k.recall = proc[p].recall /\ k.seen = proc[p].seen
    BY <1>1, <2>1 DEF Proc
  <2> HIDE DEF k
  <2> QED
    BY <1>1, <2>1, <2>2
       DEF RunOK, StoredOK, JudgedOK, ResultsOK, SeenOK, Inside
<1> HIDE DEF k
<1> QED
  BY <1>1, <1>4, <1>5, <1>6, Current, LocalStep DEF Collect

LEMMA PlanCycleStep ==
    ASSUME RunInv, NEW p \in Procs, PlanCycle(p)
    PROVE  RunInv'
<1> DEFINE j == proc[p]
<1>1. p \in Live /\ j.step = "collect" /\ j.kind = "daemon"
  BY DEF PlanCycle, At
<1>2. j \in Proc /\ RunOK(j, row[p], events, memory.sqlite)
  BY <1>1, Current
<1>3. /\ j.cycle \in 1..Cycles /\ j.last \in 0..Cycles
      /\ Cycles \in Nat \ {0}
  BY <1>2, BoundsAssumption DEF Proc
<1>4. PICK batch \in SUBSET Sources :
        proc' = [proc EXCEPT ![p] =
          LET planned == [j EXCEPT !.batch = batch \cup Ticks(j),
                                   !.last = IF MaintenanceDue(j) THEN j.cycle ELSE @]
          IN  IF Wakes(j, batch) THEN [planned EXCEPT !.step = "route"]
              ELSE [AfterCycle(planned) EXCEPT !.batch = {}]]
  BY DEF PlanCycle
<1> DEFINE planned == [j EXCEPT !.batch = batch \cup Ticks(j),
                                !.last = IF MaintenanceDue(j) THEN j.cycle ELSE @]
           k == IF Wakes(j, batch) THEN [planned EXCEPT !.step = "route"]
                ELSE [AfterCycle(planned) EXCEPT !.batch = {}]
<1>5. batch \cup Ticks(j) \subseteq Known
  BY <1>2, TicksKnown DEF Known
<1>6. /\ planned \in Proc /\ planned.kind = "daemon" /\ planned.cycle = j.cycle
      /\ planned.recall = j.recall /\ planned.step = "collect"
      /\ planned.seen = j.seen
  <2>1. (IF MaintenanceDue(j) THEN j.cycle ELSE j.last) \in 0..Cycles
    BY <1>3
  <2>2. planned = [j EXCEPT !.batch = batch \cup Ticks(j),
                            !.last = IF MaintenanceDue(j) THEN j.cycle ELSE j.last]
    BY <1>2 DEF Proc
  <2> QED
    BY <1>1, <1>2, <1>5, <2>1, <2>2 DEF Proc
<1> HIDE DEF planned
<1>8. /\ k \in Proc /\ k.step \in {"route", "collect", "finish"}
      /\ k.recall = j.recall /\ k.seen = j.seen
  <2>1. CASE Wakes(j, batch)
    BY <1>6, <2>1 DEF Proc, Steps
  <2>2. CASE ~Wakes(j, batch)
    <3>1. AfterCycle(planned) \in Proc
      BY <1>6, AfterCycleFacts
    <3>2. k = [AfterCycle(planned) EXCEPT !.batch = {}]
      BY <2>2
    <3>3. /\ k \in Proc /\ k.step = AfterCycle(planned).step
          /\ k.recall = AfterCycle(planned).recall
          /\ k.seen = AfterCycle(planned).seen
      BY <3>1, <3>2 DEF Proc
    <3> QED
      BY <1>6, <3>3, AfterCycleFacts
  <2> QED
    BY <2>1, <2>2
<1>9. proc' = [proc EXCEPT ![p] = k]
  BY <1>4 DEF planned
<1> HIDE DEF k
<1>10. SeenOK(k, events)
  BY <1>1, <1>2, <1>8 DEF RunOK, SeenOK
<1>11. RunOK(k, row[p], events, memory.sqlite)
  BY <1>1, <1>2, <1>8, <1>10
     DEF RunOK, StoredOK, JudgedOK, ResultsOK, Inside
<1> QED
  BY <1>1, <1>8, <1>9, <1>11, Current, LocalStep DEF PlanCycle

\* Only Route changes what has been seen.
LEMMA SameSeen ==
    ASSUME NEW j, NEW k, NEW ev, SeenOK(j, ev), j.step # "store",
           k.step # "store", k.seen = j.seen
    PROVE  SeenOK(k, ev)
BY DEF SeenOK

\* NoModelCoreWorkflow.run: routing and storing.
LEMMA RouteStep ==
    ASSUME RunInv, NEW p \in Procs, Route(p)
    PROVE  RunInv'
<1> DEFINE j == proc[p]
           new == j.batch \ j.seen
           r == [NoRow EXCEPT !.span = "running"]
<1>1. p \in Live /\ j.step = "route"
  BY DEF Route, At
<1>2. j \in Proc /\ RunOK(j, row[p], events, memory.sqlite)
  BY <1>1, Current
<1> DEFINE k == [j EXCEPT !.step = IF new = {} THEN "remember" ELSE "store",
                        !.seen = @ \cup j.batch, !.batch = new, !.todo = new,
                        !.frame = new, !.recall = {}, !.tool = "none",
                        !.status = "ok",
                        !.recovering = FALSE]
<1>3. proc' = [proc EXCEPT ![p] = k] /\ row' = [row EXCEPT ![p] = r]
  BY DEF Route
<1>4. /\ k \in Proc
      /\ k.step = IF new = {} THEN "remember" ELSE "store"
      /\ k.todo = new /\ k.frame = new /\ k.recall = {} /\ k.tool = "none"
      /\ k.seen = j.seen \cup j.batch
  BY <1>2 DEF Proc, Steps
<1>5. /\ r \in Row /\ r.span = "running" /\ r.memories = {} /\ r.candidates = {}
      /\ r.ran = {} /\ r.results = {} /\ r.approval = {}
  BY DEF NoRow, Row
<1> HIDE DEF k, r
<1>6. SeenOK(k, events)
  BY <1>1, <1>2, <1>4 DEF RunOK, SeenOK
<1>7. RunOK(k, r, events, memory.sqlite)
  BY <1>4, <1>5, <1>6 DEF RunOK, StoredOK, JudgedOK, ResultsOK, Inside
<1>8. UNCHANGED <<service, events, memory, hist>>
  BY DEF Route
<1> QED
  BY <1>1, <1>3, <1>4, <1>5, <1>7, <1>8, Current, LocalStep

LEMMA StoreStep ==
    ASSUME RunInv, NEW p \in Procs, Store(p)
    PROVE  RunInv'
<1> DEFINE j == proc[p]
<1>1. p \in Live /\ j.step = "store"
  BY DEF Store, At
<1>2. j \in Proc /\ RunOK(j, row[p], events, memory.sqlite)
  BY <1>1, Current
<1>3. PICK e \in j.todo :
        /\ events' = events \cup {e}
        /\ service' = IF e \in events THEN service
                      ELSE [service EXCEPT ![p].added = @ + 1]
        /\ proc' = [proc EXCEPT ![p].todo = j.todo \ {e},
                     ![p].step = IF j.todo \ {e} = {} THEN "remember" ELSE @]
  BY DEF Store
<1> DEFINE left == j.todo \ {e}
           k == [j EXCEPT !.todo = left,
                          !.step = IF left = {} THEN "remember" ELSE "store"]
<1>4. proc' = [proc EXCEPT ![p] = k]
  BY <1>1, <1>2, <1>3 DEF Proc
<1>5. /\ k \in Proc /\ k.todo = left /\ k.frame = j.frame
      /\ k.step = IF left = {} THEN "remember" ELSE "store"
      /\ k.seen = j.seen
      /\ k.recall = j.recall
  BY <1>2 DEF Proc, Steps
<1>6. service' \in [Procs -> Service]
  BY <1>1, <1>3, Current DEF Service
<1>7. events' \subseteq Known
  BY <1>1, <1>2, <1>3, Current DEF Proc
<1> HIDE DEF k
<1>8. SeenOK(k, events')
  BY <1>1, <1>2, <1>3, <1>5 DEF RunOK, SeenOK
<1>9. StoredOK(k, row[p], events')
  <2>1. TopicsOf(events) \subseteq TopicsOf(events')
    BY <1>3, TopicsGrow
  <2> QED
    BY <1>1, <1>2, <1>3, <1>5, <2>1 DEF RunOK, StoredOK, Inside
<1>10. RunOK(k, row[p], events', memory.sqlite)
  BY <1>1, <1>2, <1>5, <1>8, <1>9 DEF RunOK, JudgedOK, ResultsOK
<1>11. events \subseteq events' /\ UNCHANGED <<row, memory, hist>>
  BY <1>3 DEF Store
<1> QED
  BY <1>1, <1>4, <1>5, <1>6, <1>7, <1>10, <1>11, Current, LocalStep

\* Memory: candidates and what the agents are shown, then the commits.
LEMMA RememberStep ==
    ASSUME RunInv, NEW p \in Procs, Remember(p)
    PROVE  RunInv'
<1> DEFINE j == proc[p]
<1>1. p \in Live /\ j.step = "remember"
  BY DEF Remember, At
<1>2. j \in Proc /\ row[p] \in Row /\ RunOK(j, row[p], events, memory.sqlite)
  BY <1>1, Current
<1>3. PICK frame \in Frames(p) :
        /\ row' = [row EXCEPT ![p].candidates = Accepted(frame)]
        /\ proc' = [proc EXCEPT ![p].frame = frame,
                ![p].recall = Shown(p, frame),
                ![p].step = IF MemoryOf[p] = "fake" \/ Accepted(frame) = {}
                            THEN "think" ELSE "commit"]
  BY DEF Remember
<1> DEFINE s == IF MemoryOf[p] = "fake" \/ Accepted(frame) = {}
                THEN "think" ELSE "commit"
           k == [j EXCEPT !.frame = frame, !.recall = Shown(p, frame), !.step = s]
           r == [row[p] EXCEPT !.candidates = Accepted(frame)]
<1>4. proc' = [proc EXCEPT ![p] = k] /\ row' = [row EXCEPT ![p] = r]
  BY <1>3
<1>5. frame \subseteq events /\ j.todo = {} /\ row[p].memories = {}
  BY <1>1, <1>2, FoundIsStored DEF RunOK, StoredOK, Inside
<1>6. frame \subseteq Known /\ memory.sqlite \subseteq Topics
  BY <1>1, <1>5, Current
<1>7. Accepted(frame) \subseteq Topics /\ Accepted(frame) \subseteq TopicsOf(events)
  BY <1>5, <1>6, AcceptedTopics, TopicsGrow, TopicsType
<1>8. Shown(p, frame) \subseteq memory.sqlite /\ Shown(p, frame) \subseteq Topics
  BY <1>6, ShownIsCommitted
<1>9. /\ k \in Proc /\ k.step \in {"think", "commit"} /\ k.frame = frame
      /\ k.recall = Shown(p, frame) /\ k.todo = j.todo
      /\ k.seen = j.seen
  <2>1. s \in {"think", "commit"}
    OBVIOUS
  <2> HIDE DEF s
  <2> QED
    BY <1>2, <1>6, <1>8, <2>1 DEF Proc, Steps
<1>10. /\ r \in Row /\ r.candidates = Accepted(frame) /\ r.memories = {}
       /\ r.ran = row[p].ran /\ r.results = row[p].results
       /\ r.policy = row[p].policy /\ r.approval = row[p].approval
       /\ r.span = row[p].span /\ r.audit = row[p].audit
  BY <1>2, <1>5, <1>7 DEF Row
<1> HIDE DEF k, r
<1>11. SeenOK(k, events)
  BY <1>1, <1>2, <1>9, SameSeen DEF RunOK
<1>12. StoredOK(k, r, events)
  BY <1>5, <1>7, <1>9, <1>10 DEF StoredOK
<1>13. JudgedOK(k, r) /\ ResultsOK(k, r)
  BY <1>1, <1>2, <1>9, <1>10 DEF RunOK, JudgedOK, ResultsOK
<1>14. RunOK(k, r, events, memory.sqlite)
  BY <1>8, <1>9, <1>11, <1>12, <1>13 DEF RunOK
<1> QED
  BY <1>1, <1>4, <1>9, <1>10, <1>14, Current, LocalStep DEF Remember

\* A step that goes on inside the run and touches memories only.
LEMMA CommitStep ==
    ASSUME RunInv, NEW p \in Procs, Commit(p)
    PROVE  RunInv'
<1> DEFINE j == proc[p]
<1>1. p \in Live /\ j.step = "commit"
  BY DEF Commit, At
<1>2. /\ j \in Proc /\ row[p] \in Row
      /\ RunOK(j, row[p], events, memory.sqlite)
      /\ memory \in [sqlite : SUBSET Topics, sidecar : SUBSET Topics]
  BY <1>1, Current
<1>3. PICK t \in row[p].candidates :
        /\ row' = [row EXCEPT ![p].memories = @ \cup {t}]
        /\ IF row[p].memories \cup {t} = row[p].candidates
           THEN Go(p, "think") ELSE UNCHANGED proc
        /\ memory' = [sqlite |-> memory.sqlite \cup {t},
                      sidecar |-> IF MemoryOf[p] = "mem0"
                                  THEN memory.sidecar \cup row[p].candidates
                                  ELSE memory.sidecar]
  BY DEF Commit, Commits
<1>4. t \in Topics /\ row[p].candidates \subseteq Topics
  BY <1>2 DEF Row
<1>5. /\ memory' \in [sqlite : SUBSET Topics, sidecar : SUBSET Topics]
      /\ memory.sqlite \subseteq memory'.sqlite
  BY <1>2, <1>3, <1>4
<1> DEFINE s == IF row[p].memories \cup {t} = row[p].candidates
                THEN "think" ELSE "commit"
           k == [j EXCEPT !.step = s]
           r == [row[p] EXCEPT !.memories = @ \cup {t}]
<1>6. proc' = [proc EXCEPT ![p] = k]
  <2>1. proc = [proc EXCEPT ![p] = j] /\ j = [j EXCEPT !.step = "commit"]
    BY <1>1, <1>2, Current DEF Proc
  <2> QED
    BY <1>3, <2>1 DEF Go
<1>7. row' = [row EXCEPT ![p] = r]
  BY <1>3
<1>8. /\ k \in Proc /\ k.step \in {"think", "commit"} /\ k.frame = j.frame
      /\ k.recall = j.recall /\ k.todo = j.todo
      /\ k.seen = j.seen
  BY <1>2 DEF Proc, Steps
<1>9. /\ r \in Row /\ r.candidates = row[p].candidates
      /\ r.memories = row[p].memories \cup {t}
      /\ r.ran = row[p].ran /\ r.results = row[p].results
      /\ r.policy = row[p].policy /\ r.approval = row[p].approval
      /\ r.span = row[p].span /\ r.audit = row[p].audit
  BY <1>2, <1>4 DEF Row
<1> HIDE DEF k, r
<1>10. SeenOK(k, events)
  BY <1>1, <1>2, <1>8, SameSeen DEF RunOK
<1>11. StoredOK(k, r, events)
  BY <1>1, <1>2, <1>3, <1>8, <1>9 DEF RunOK, StoredOK, Inside
<1>12. JudgedOK(k, r) /\ ResultsOK(k, r)
  BY <1>1, <1>2, <1>8, <1>9 DEF RunOK, JudgedOK, ResultsOK
<1>13. RunOK(k, r, events, memory'.sqlite)
  BY <1>2, <1>5, <1>8, <1>10, <1>11, <1>12 DEF RunOK
<1>14. UNCHANGED <<service, events, hist>>
  BY DEF Commit
<1> QED
  BY <1>1, <1>5, <1>6, <1>7, <1>8, <1>9, <1>13, <1>14, Current, LocalStep

LEMMA SidecarFailsStep ==
    ASSUME RunInv, NEW p \in Procs, SidecarFails(p)
    PROVE  RunInv'
<1> DEFINE j == proc[p]
           k == [j EXCEPT !.step = "think"]
<1>1. p \in Live /\ j.step = "commit"
  BY DEF SidecarFails, At
<1>2. /\ j \in Proc /\ row[p] \in Row
      /\ RunOK(j, row[p], events, memory.sqlite)
      /\ memory \in [sqlite : SUBSET Topics, sidecar : SUBSET Topics]
  BY <1>1, Current
<1>3. /\ memory' \in [sqlite : SUBSET Topics, sidecar : SUBSET Topics]
      /\ memory'.sqlite = memory.sqlite
  BY <1>2 DEF SidecarFails, Commits, Row
<1>4. /\ k \in Proc /\ k.step = "think" /\ k.frame = j.frame
      /\ k.recall = j.recall /\ k.todo = j.todo
      /\ k.seen = j.seen
  BY <1>2 DEF Proc, Steps
<1>5. proc' = [proc EXCEPT ![p] = k] /\ UNCHANGED <<row, service, events, hist>>
  BY DEF SidecarFails, Go
<1> HIDE DEF k
<1>6. SeenOK(k, events)
  BY <1>1, <1>2, <1>4, SameSeen DEF RunOK
<1>7. RunOK(k, row[p], events, memory'.sqlite)
  BY <1>1, <1>2, <1>3, <1>4, <1>6
     DEF RunOK, StoredOK, JudgedOK, ResultsOK, Inside
<1> QED
  BY <1>1, <1>3, <1>4, <1>5, <1>7, Current, LocalStep

\* The agents, the policy and the tools.
LEMMA PlansAreTools ==
    ASSUME NEW p \in Procs
    PROVE  Plans(p) \subseteq Tools \cup {"none"}
<1>1. plan(proc[p].frame) \in Tools
  BY DEF plan, Tools, ReadOnlyTools, ApprovalTools
<1> QED
  BY <1>1, ModelToolsAssumption DEF Plans

LEMMA ThinkStep ==
    ASSUME RunInv, NEW p \in Procs, Think(p)
    PROVE  RunInv'
<1> DEFINE j == proc[p]
<1>1. p \in Live /\ j.step = "think"
  BY DEF Think, At
<1>2. j \in Proc /\ row[p] \in Row /\ RunOK(j, row[p], events, memory.sqlite)
  BY <1>1, Current
<1>3. PICK tool \in Plans(p), s \in {"audit", "judge", "result"} :
        /\ proc' = [proc EXCEPT ![p].tool = tool, ![p].step = s,
                                ![p].status = "error"]
        /\ tool = "none" => s = "audit"
  <2>1. PICK tool \in Plans(p), listed \in BOOLEAN, missing \in Missing :
          proc' = [proc EXCEPT ![p].tool = tool,
             ![p].step = IF tool = "none" THEN "audit"
                         ELSE IF PlanValid(tool, listed, missing)
                         THEN "judge" ELSE "result",
             ![p].status = "error"]
    BY DEF Think
  <2> DEFINE s == IF tool = "none" THEN "audit"
                  ELSE IF PlanValid(tool, listed, missing)
                  THEN "judge" ELSE "result"
  <2>2. s \in {"audit", "judge", "result"} /\ (tool = "none" => s = "audit")
    OBVIOUS
  <2>3. proc' = [proc EXCEPT ![p].tool = tool, ![p].step = s,
                             ![p].status = "error"]
    BY <2>1
  <2> QED
    BY <2>2, <2>3
<1> DEFINE k == [j EXCEPT !.tool = tool, !.step = s, !.status = "error"]
<1>4. proc' = [proc EXCEPT ![p] = k]
  BY <1>3
<1>5. tool \in Tools \cup {"none"}
  BY PlansAreTools
<1>6. /\ k \in Proc /\ k.step = s /\ k.tool = tool /\ k.status = "error"
      /\ k.frame = j.frame /\ k.recall = j.recall /\ k.todo = j.todo
      /\ k.seen = j.seen
  BY <1>2, <1>5 DEF Proc, Steps
<1> HIDE DEF k
<1>7. SeenOK(k, events)
  BY <1>1, <1>2, <1>6, SameSeen DEF RunOK
<1>8. RunOK(k, row[p], events, memory.sqlite)
  BY <1>1, <1>2, <1>3, <1>5, <1>6, <1>7
     DEF RunOK, StoredOK, JudgedOK, ResultsOK, Inside
<1>9. UNCHANGED <<row, service, events, memory, hist>>
  BY DEF Think
<1> QED
  BY <1>1, <1>4, <1>6, <1>8, <1>9, Current, LocalStep

LEMMA AllowedNeedsNoApproval ==
    ASSUME NEW c, evaluate_contract(c) = "allowed"
    PROVE  ~c.approval
BY DEF evaluate_contract

LEMMA JudgeStep ==
    ASSUME RunInv, NEW p \in Procs, Judge(p)
    PROVE  RunInv'
<1> DEFINE j == proc[p]
           verdict == evaluate_contract(contract[j.tool])
           s == CASE verdict = "allowed" /\ (j.recovering => j.tool = "query_leases")
                        -> "execute"
                [] verdict = "approval_required"
                   /\ (j.recovering => j.tool = "rollback_app") -> "request"
                [] OTHER -> IF j.recovering THEN "audit" ELSE "result"
           k == [j EXCEPT !.step = s, !.status = "blocked"]
           r == [row[p] EXCEPT !.policy = @ \cup {j.tool}]
<1>1. p \in Live /\ j.step = "judge"
  BY DEF Judge, At
<1>2. j \in Proc /\ row[p] \in Row /\ RunOK(j, row[p], events, memory.sqlite)
  BY <1>1, Current
<1>3. /\ proc' = [proc EXCEPT ![p] = k] /\ row' = [row EXCEPT ![p] = r]
      /\ UNCHANGED <<service, events, memory, hist>>
  BY DEF Judge
<1>4. s \in {"execute", "request", "audit", "result"}
      /\ (s = "execute" => verdict = "allowed")
  OBVIOUS
<1>5. s = "execute" => ~contract[j.tool].approval
  BY <1>4, AllowedNeedsNoApproval
<1>6. j.tool \in Tools
  BY <1>1, <1>2 DEF RunOK, JudgedOK
<1> HIDE DEF s
<1>7. /\ k \in Proc /\ k.step = s /\ k.tool = j.tool /\ k.status = "blocked"
      /\ k.frame = j.frame /\ k.recall = j.recall /\ k.todo = j.todo
      /\ k.seen = j.seen
  BY <1>2, <1>4 DEF Proc, Steps
<1>8. /\ r \in Row /\ r.policy = row[p].policy \cup {j.tool}
      /\ r.candidates = row[p].candidates /\ r.memories = row[p].memories
      /\ r.ran = row[p].ran /\ r.results = row[p].results
      /\ r.approval = row[p].approval
      /\ r.span = row[p].span /\ r.audit = row[p].audit
  BY <1>2, <1>6 DEF Row
<1> HIDE DEF k, r
<1>9. SeenOK(k, events)
  BY <1>1, <1>2, <1>4, <1>7, SameSeen DEF RunOK
<1>10. StoredOK(k, r, events)
  BY <1>1, <1>2, <1>4, <1>7, <1>8 DEF RunOK, StoredOK, Inside
<1>11. JudgedOK(k, r)
  BY <1>1, <1>2, <1>4, <1>5, <1>6, <1>7, <1>8 DEF RunOK, JudgedOK
<1>12. ResultsOK(k, r)
  BY <1>1, <1>2, <1>4, <1>7, <1>8 DEF RunOK, ResultsOK
<1>13. RunOK(k, r, events, memory.sqlite)
  BY <1>2, <1>7, <1>9, <1>10, <1>11, <1>12 DEF RunOK
<1> QED
  BY <1>1, <1>3, <1>7, <1>8, <1>13, Current, LocalStep

\* The history of what was acted on keeps its type.
LEMMA ActsType ==
    ASSUME RunInv, NEW p \in Live, Acts(p)
    PROVE  hist' \in Hist
<1>1. hist \in Hist /\ proc[p].frame \subseteq Known
  BY Current DEF Proc
<1>2. CASE proc[p].recovering
  BY <1>1, <1>2 DEF Acts
<1>3. CASE ~proc[p].recovering
  <2> DEFINE acted == [e \in Known |-> IF e \in proc[p].frame /\ hist.acted[e] < 2
                                       THEN hist.acted[e] + 1 ELSE hist.acted[e]]
             more == IF p \in hist.shared THEN proc[p].frame ELSE {}
  <2>1. hist' = [hist EXCEPT !.acted = acted, !.unclaimed = @ \cup more]
    BY <1>3 DEF Acts
  <2>2. \A e \in Known : hist.acted[e] \in 0..2
    BY <1>1 DEF Hist
  <2>3. acted \in [Known -> 0..2]
    BY <2>2
  <2>4. more \subseteq Known
    BY <1>1
  <2> HIDE DEF acted, more
  <2> QED
    BY <1>1, <2>1, <2>3, <2>4 DEF Hist
<1> QED
  BY <1>2, <1>3

LEMMA ExecuteStep ==
    ASSUME RunInv, NEW p \in Procs, Execute(p)
    PROVE  RunInv'
<1> DEFINE j == proc[p]
<1>1. p \in Live /\ j.step = "execute"
  BY DEF Execute, At
<1>2. j \in Proc /\ row[p] \in Row /\ RunOK(j, row[p], events, memory.sqlite)
  BY <1>1, Current
<1>3. PICK status \in {"ok", "error"} :
        proc' = [proc EXCEPT ![p].step = "result", ![p].status = status]
  BY DEF Execute
<1> DEFINE k == [j EXCEPT !.step = "result", !.status = status]
           r == [row[p] EXCEPT !.ran = @ \cup {j.tool}]
<1>4. /\ proc' = [proc EXCEPT ![p] = k] /\ row' = [row EXCEPT ![p] = r]
      /\ UNCHANGED <<service, events, memory>>
  BY <1>3 DEF Execute
<1>5. j.tool \in Tools
  BY <1>1, <1>2 DEF RunOK, JudgedOK
<1>6. /\ k \in Proc /\ k.step = "result" /\ k.tool = j.tool /\ k.status = status
      /\ k.frame = j.frame /\ k.recall = j.recall /\ k.todo = j.todo
      /\ k.seen = j.seen
  BY <1>2 DEF Proc, Steps
<1>7. /\ r \in Row /\ r.ran = row[p].ran \cup {j.tool}
      /\ r.candidates = row[p].candidates /\ r.memories = row[p].memories
      /\ r.policy = row[p].policy /\ r.results = row[p].results
      /\ r.approval = row[p].approval
      /\ r.span = row[p].span /\ r.audit = row[p].audit
  BY <1>2, <1>5 DEF Row
<1> HIDE DEF k, r
<1>8. SeenOK(k, events)
  BY <1>1, <1>2, <1>6, SameSeen DEF RunOK
<1>9. StoredOK(k, r, events)
  BY <1>1, <1>2, <1>6, <1>7 DEF RunOK, StoredOK, Inside
<1>10. JudgedOK(k, r)
  BY <1>1, <1>2, <1>5, <1>6, <1>7 DEF RunOK, JudgedOK
<1>11. ResultsOK(k, r)
  BY <1>1, <1>2, <1>6, <1>7 DEF RunOK, ResultsOK
<1>12. RunOK(k, r, events, memory.sqlite)
  BY <1>2, <1>6, <1>8, <1>9, <1>10, <1>11 DEF RunOK
<1>13. hist' \in Hist
  BY <1>1, ActsType DEF Execute
<1> QED
  BY <1>1, <1>4, <1>6, <1>7, <1>12, <1>13, Current, LocalStep

LEMMA RequestStep ==
    ASSUME RunInv, NEW p \in Procs, Request(p)
    PROVE  RunInv'
<1> DEFINE j == proc[p]
           k == [j EXCEPT !.step = "result", !.status = "pending"]
           r == [row[p] EXCEPT !.approval = @ \cup {j.tool}]
<1>1. p \in Live /\ j.step = "request"
  BY DEF Request, At
<1>2. j \in Proc /\ row[p] \in Row /\ RunOK(j, row[p], events, memory.sqlite)
  BY <1>1, Current
<1>3. /\ proc' = [proc EXCEPT ![p] = k] /\ row' = [row EXCEPT ![p] = r]
      /\ UNCHANGED <<service, events, memory>>
  BY DEF Request
<1>4. j.tool \in Tools
  BY <1>1, <1>2 DEF RunOK, JudgedOK
<1>5. /\ k \in Proc /\ k.step = "result" /\ k.tool = j.tool
      /\ k.status = "pending"
      /\ k.frame = j.frame /\ k.recall = j.recall /\ k.todo = j.todo
      /\ k.seen = j.seen
  BY <1>2 DEF Proc, Steps
<1>6. /\ r \in Row /\ r.approval = row[p].approval \cup {j.tool}
      /\ r.candidates = row[p].candidates /\ r.memories = row[p].memories
      /\ r.policy = row[p].policy /\ r.results = row[p].results
      /\ r.ran = row[p].ran
      /\ r.span = row[p].span /\ r.audit = row[p].audit
  BY <1>2, <1>4 DEF Row
<1> HIDE DEF k, r
<1>7. SeenOK(k, events)
  BY <1>1, <1>2, <1>5, SameSeen DEF RunOK
<1>8. StoredOK(k, r, events)
  BY <1>1, <1>2, <1>5, <1>6 DEF RunOK, StoredOK, Inside
<1>9. JudgedOK(k, r)
  BY <1>1, <1>2, <1>4, <1>5, <1>6 DEF RunOK, JudgedOK
<1>10. ResultsOK(k, r)
  BY <1>1, <1>2, <1>5, <1>6 DEF RunOK, ResultsOK
<1>11. RunOK(k, r, events, memory.sqlite)
  BY <1>2, <1>5, <1>7, <1>8, <1>9, <1>10 DEF RunOK
<1>12. hist' \in Hist
  BY <1>1, ActsType DEF Request
<1> QED
  BY <1>1, <1>3, <1>5, <1>6, <1>11, <1>12, Current, LocalStep

LEMMA ResultStep ==
    ASSUME RunInv, NEW p \in Procs, Result(p)
    PROVE  RunInv'
<1> DEFINE j == proc[p]
           r == [row[p] EXCEPT !.results = @ \cup {<<j.tool, j.status>>}]
<1>1. p \in Live /\ j.step = "result"
  BY DEF Result, At
<1>2. j \in Proc /\ row[p] \in Row /\ RunOK(j, row[p], events, memory.sqlite)
  BY <1>1, Current
<1>3. /\ row' = [row EXCEPT ![p] = r]
      /\ UNCHANGED <<service, events, memory, hist>>
  BY DEF Result
<1>4. j.tool \in Tools /\ <<j.tool, j.status>> \in
                            Tools \X {"ok", "error", "pending", "blocked"}
  BY <1>1, <1>2 DEF RunOK, JudgedOK, Proc
<1>5. /\ r \in Row /\ r.results = row[p].results \cup {<<j.tool, j.status>>}
      /\ r.candidates = row[p].candidates /\ r.memories = row[p].memories
      /\ r.policy = row[p].policy /\ r.approval = row[p].approval
      /\ r.ran = row[p].ran
      /\ r.span = row[p].span /\ r.audit = row[p].audit
  BY <1>2, <1>4 DEF Row
<1>6. PICK k \in Proc :
        /\ proc' = [proc EXCEPT ![p] = k]
        /\ k.step \in {"audit", "judge"} /\ k.tool \in Tools
        /\ k.frame = j.frame /\ k.recall = j.recall /\ k.todo = j.todo
        /\ k.seen = j.seen
  <2> DEFINE k1 == [j EXCEPT !.step = "audit"]
             k2 == [j EXCEPT !.step = "judge", !.tool = "query_leases",
                             !.recovering = TRUE]
             k3 == [j EXCEPT !.step = "judge", !.tool = "rollback_app"]
  <2>1. \/ proc' = [proc EXCEPT ![p] = k1]
        \/ proc' = [proc EXCEPT ![p] = k2]
        \/ proc' = [proc EXCEPT ![p] = k3]
    BY DEF Result, Go
  <2>2. {"query_leases", "rollback_app"} \subseteq Tools
    BY DEF Tools, ReadOnlyTools, ApprovalTools
  <2>3. /\ k1 \in Proc /\ k1.step = "audit" /\ k1.tool \in Tools
        /\ k1.frame = j.frame /\ k1.recall = j.recall /\ k1.todo = j.todo
        /\ k1.seen = j.seen
    BY <1>2, <1>4 DEF Proc, Steps
  <2>4. /\ k2 \in Proc /\ k2.step = "judge" /\ k2.tool \in Tools
        /\ k2.frame = j.frame /\ k2.recall = j.recall /\ k2.todo = j.todo
        /\ k2.seen = j.seen
    BY <1>2, <2>2 DEF Proc, Steps
  <2>5. /\ k3 \in Proc /\ k3.step = "judge" /\ k3.tool \in Tools
        /\ k3.frame = j.frame /\ k3.recall = j.recall /\ k3.todo = j.todo
        /\ k3.seen = j.seen
    BY <1>2, <2>2 DEF Proc, Steps
  <2> HIDE DEF k1, k2, k3
  <2> QED
    BY <2>1, <2>3, <2>4, <2>5
<1> HIDE DEF r
<1>7. SeenOK(k, events)
  BY <1>1, <1>2, <1>6, SameSeen DEF RunOK
<1>8. StoredOK(k, r, events)
  BY <1>1, <1>2, <1>5, <1>6 DEF RunOK, StoredOK, Inside
<1>9. JudgedOK(k, r)
  <2>1. \A t \in Tools : <<t, "pending">> \in r.results =>
           \/ <<t, "pending">> \in row[p].results
           \/ t = j.tool /\ j.status = "pending"
    BY <1>5
  <2> QED
    BY <1>1, <1>2, <1>5, <1>6, <2>1 DEF RunOK, JudgedOK
<1>10. ResultsOK(k, r)
  BY <1>1, <1>2, <1>5, <1>6 DEF RunOK, ResultsOK
<1>11. RunOK(k, r, events, memory.sqlite)
  BY <1>2, <1>6, <1>7, <1>8, <1>9, <1>10 DEF RunOK
<1> QED
  BY <1>1, <1>3, <1>5, <1>6, <1>11, Current, LocalStep

LEMMA AuditStep ==
    ASSUME RunInv, NEW p \in Procs, Audit(p)
    PROVE  RunInv'
<1> DEFINE j == proc[p]
           k == [j EXCEPT !.step = "close"]
           r == [row[p] EXCEPT !.audit = TRUE]
<1>1. p \in Live /\ j.step = "audit"
  BY DEF Audit, At
<1>2. j \in Proc /\ row[p] \in Row /\ RunOK(j, row[p], events, memory.sqlite)
  BY <1>1, Current
<1>3. /\ proc' = [proc EXCEPT ![p] = k] /\ row' = [row EXCEPT ![p] = r]
      /\ UNCHANGED <<service, events, memory, hist>>
  BY DEF Audit, Go
<1>4. /\ k \in Proc /\ k.step = "close"
      /\ k.frame = j.frame /\ k.recall = j.recall /\ k.todo = j.todo
      /\ k.seen = j.seen
  BY <1>2 DEF Proc, Steps
<1>5. /\ r \in Row /\ r.audit = TRUE
      /\ r.candidates = row[p].candidates /\ r.memories = row[p].memories
      /\ r.policy = row[p].policy /\ r.approval = row[p].approval
      /\ r.ran = row[p].ran /\ r.results = row[p].results
      /\ r.span = row[p].span
  BY <1>2 DEF Row
<1> HIDE DEF k, r
<1>6. SeenOK(k, events)
  BY <1>1, <1>2, <1>4, SameSeen DEF RunOK
<1>7. RunOK(k, r, events, memory.sqlite)
  BY <1>1, <1>2, <1>4, <1>5, <1>6
     DEF RunOK, StoredOK, JudgedOK, ResultsOK, Inside
<1> QED
  BY <1>1, <1>3, <1>4, <1>5, <1>7, Current, LocalStep

LEMMA CloseStep ==
    ASSUME RunInv, NEW p \in Procs, Close(p)
    PROVE  RunInv'
<1> DEFINE j == proc[p]
           c == [j EXCEPT !.stored = @ + Cardinality(j.batch)]
           k == AfterCycle(c)
           r == [row[p] EXCEPT !.span = "ok"]
<1>1. p \in Live /\ j.step = "close"
  BY DEF Close, At
<1>2. j \in Proc /\ row[p] \in Row /\ RunOK(j, row[p], events, memory.sqlite)
  BY <1>1, Current
<1>3. /\ proc' = [proc EXCEPT ![p] = k] /\ row' = [row EXCEPT ![p] = r]
      /\ UNCHANGED <<service, events, memory, hist>>
  BY DEF Close
<1>4. Cardinality(j.batch) \in Nat
  BY <1>2, KnownFinite, FS_Subset, FS_CardinalityType DEF Proc
<1>5. /\ c \in Proc /\ c.seen = j.seen
      /\ c.recall = j.recall
  BY <1>2, <1>4 DEF Proc
<1> HIDE DEF c
<1>6. /\ k \in Proc /\ k.step \in {"collect", "finish"}
      /\ k.recall = j.recall /\ k.seen = j.seen
  BY <1>5, AfterCycleFacts
<1>7. /\ r \in Row /\ r.span = "ok" /\ r.audit = row[p].audit
      /\ r.candidates = row[p].candidates /\ r.memories = row[p].memories
      /\ r.policy = row[p].policy /\ r.approval = row[p].approval
      /\ r.ran = row[p].ran /\ r.results = row[p].results
  BY <1>2 DEF Row
<1> HIDE DEF k, r
<1>8. SeenOK(k, events)
  BY <1>1, <1>2, <1>6, SameSeen DEF RunOK
<1>9. RunOK(k, r, events, memory.sqlite)
  BY <1>1, <1>2, <1>6, <1>7, <1>8
     DEF RunOK, StoredOK, JudgedOK, ResultsOK, Inside
<1> QED
  BY <1>1, <1>3, <1>6, <1>7, <1>9, Current, LocalStep

\* The steps that end a process.
Ending(p) ==
    \/ CollectFails(p) \/ CollectsNothing(p) \/ Paused(p) \/ Finish(p)
    \/ RouteUnavailable(p) \/ ModelFails(p) \/ Crash(p) \/ Refused(p)

LEMMA EndingFacts ==
    ASSUME RunInv, NEW p \in Procs, Ending(p)
    PROVE  /\ Ends(p) /\ UNCHANGED <<events, memory, hist>>
           /\ service' \in [Procs -> Service]
           /\ \A q \in Procs \ {p} : service'[q] = service[q]
<1>1. Ends(p) /\ UNCHANGED <<events, memory, hist>>
  BY DEF Ending, CollectFails, CollectsNothing, FailService, Paused, Finish,
         RouteUnavailable, ModelFails, Crash, Refused
<1>2. service \in [Procs -> Service]
  BY DEF RunInv, TypeOK
<1>3. CASE FailService(p)
  BY <1>1, <1>2, <1>3 DEF FailService, Service
<1>4. CASE Finish(p)
  <2>1. p \in Live
    BY <1>4 DEF Finish, At
  <2>2. proc[p].stored \in Nat
    BY <2>1, Current DEF Proc
  <2> QED
    BY <1>1, <1>2, <1>4, <2>2 DEF Finish, Service
<1>5. CASE UNCHANGED service
  BY <1>1, <1>2, <1>5
<1> QED
  BY <1>3, <1>4, <1>5 DEF Ending, CollectFails, CollectsNothing, Paused,
                          RouteUnavailable, ModelFails, Crash, Refused

LEMMA NextRunInv == RunInv /\ [Next]_vars => RunInv'
<1> SUFFICES ASSUME RunInv, [Next]_vars PROVE RunInv'
  OBVIOUS
<1>1. ASSUME NEW p \in Procs, Ending(p) PROVE RunInv'
  BY <1>1, EndingFacts, EndsStep
<1>2. ASSUME NEW p \in Procs, Step(p) PROVE RunInv'
  BY <1>1, <1>2, CollectStep, PlanCycleStep, RouteStep, StoreStep,
     RememberStep, CommitStep, SidecarFailsStep, ThinkStep, JudgeStep,
     ExecuteStep, RequestStep, ResultStep, AuditStep, CloseStep
     DEF Step, Ending
<1>3. ASSUME NEW p \in Procs, NEW kind \in MayBe[p], NEW low \in BOOLEAN,
             Open(p, kind, low)
      PROVE  RunInv'
  <2>1. kind \in Kinds
    BY ProcsAssumption
  <2> QED
    BY <1>3, <2>1, OpenStep
<1>4. CASE UNCHANGED vars
  BY <1>4 DEF vars, RunInv, TypeOK, Live
<1> QED
  BY <1>1, <1>2, <1>3, <1>4 DEF Next, Ending

LEMMA InitRunInv == Init => RunInv
<1> SUFFICES ASSUME Init PROVE RunInv
  OBVIOUS
<1>1. TypeOK
  <2>1. hist \in Hist
    BY DEF Init, Hist
  <2>2. service \in [Procs -> Service] /\ memory.sqlite = {}
        /\ memory \in [sqlite : SUBSET Topics, sidecar : SUBSET Topics]
    BY DEF Init, Service
  <2> QED
    BY <2>1, <2>2, NoRowFacts DEF Init, TypeOK
<1> QED
  BY <1>1 DEF Init, RunInv, Live

\* The rows and the memory of every process keep their types, and every run
\* is in order at every point where it may be cut off.
THEOREM RunsAreInOrder == Spec => []RunInv
BY InitRunInv, NextRunInv, PTL DEF Spec

\* Whichever step a run is cut off at: what it did to the Unit is covered by a
\* policy decision already written and needed no approval, and a result that
\* waits for an approval has its request.
THEOREM EvidenceComesFirst == Spec => []EvidenceFirst
<1>1. RunInv => EvidenceFirst
  <2> SUFFICES ASSUME RunInv, NEW p \in Procs
               PROVE  /\ \A t \in row[p].ran : t \in row[p].policy
                                               /\ ~contract[t].approval
                      /\ \A t \in Tools : <<t, "pending">> \in row[p].results
                            => t \in row[p].approval /\ t \in row[p].policy
    BY DEF EvidenceFirst
  <2>1. CASE p \in Live
    BY <2>1 DEF RunInv, RunOK, JudgedOK
  <2>2. CASE p \notin Live
    BY <2>2 DEF RunInv, NoRow
  <2> QED
    BY <2>1, <2>2
<1> QED
  BY <1>1, RunsAreInOrder, PTL

\* A span that says ok has its audit record and a result for everything that
\* ran or waits, and memories stem from candidates of stored events.
THEOREM OkSpansAreComplete == Spec => []OkIsComplete
<1>1. RunInv => OkIsComplete
  <2> SUFFICES ASSUME RunInv, NEW p \in Procs
               PROVE  /\ row[p].span = "ok" =>
                          /\ row[p].audit
                          /\ \A t \in row[p].ran :
                               \E s \in {"ok", "error"} : <<t, s>> \in row[p].results
                          /\ \A t \in row[p].approval :
                               <<t, "pending">> \in row[p].results
                      /\ row[p].memories \subseteq row[p].candidates
                      /\ row[p].candidates \subseteq TopicsOf(events)
    BY DEF OkIsComplete
  <2>1. CASE p \in Live
    BY <2>1 DEF RunInv, RunOK, ResultsOK, StoredOK
  <2>2. CASE p \notin Live
    BY <2>2 DEF RunInv, NoRow
  <2> QED
    BY <2>1, <2>2
<1> QED
  BY <1>1, RunsAreInOrder, PTL

\* The agents are shown only memories that a run has committed to SQLite.
THEOREM RecallStaysGoverned == Spec => []RecallIsGoverned
<1>1. RunInv => RecallIsGoverned
  BY LiveFacts DEF RunInv, RunOK, RecallIsGoverned
<1> QED
  BY <1>1, RunsAreInOrder, PTL

\* What a router drops as a duplicate is stored: seen_dedupe_keys holds only
\* stored keys whenever no batch is being stored.
THEOREM DuplicatesAreStored == Spec => []DroppedIsStored
<1>1. RunInv => DroppedIsStored
  <2> SUFFICES ASSUME RunInv, NEW p \in Procs, At(p, "route")
               PROVE  proc[p].batch \cap proc[p].seen \subseteq events
    BY DEF DroppedIsStored
  <2>1. RunOK(proc[p], row[p], events, memory.sqlite)
    BY Current DEF At
  <2> QED
    BY <2>1 DEF RunOK, SeenOK, At
<1> QED
  BY <1>1, RunsAreInOrder, PTL

-----------------------------------------------------------------------------
\* Between processes: what is acted on once, and what a service counts.

\* A step of a live process that goes on: it is enough to look at the process
\* itself, since one that is not shared is alone.
LEMMA AloneStep ==
    ASSUME RunInv, SharedInv, NEW p \in Live, NEW k \in Proc,
           proc' = [proc EXCEPT ![p] = k], hist'.shared = hist.shared,
           \A q \in Procs \ {p} : service'[q] = service[q],
           service'[p].span = service[p].span,
           \A e \in Known : hist'.acted[e] > 0 => e \in events',
           ActedOnce',
           p \notin hist.shared =>
              AloneOK(k, events', hist'.acted, service'[p].added)
    PROVE  SharedInv'
<1>1. p \in Procs
  BY DEF Live
<1>2. /\ proc'[p] = k /\ Live' = Live
      /\ \A q \in Procs \ {p} : proc'[q] = proc[q]
  <2>1. Live \cup {p} = Live
    OBVIOUS
  <2> QED
    BY <1>1, <2>1, Becomes DEF RunInv
<1>3. proc[p] \notin {Idle, Done} /\ k \notin {Idle, Done}
  BY MarkersAssumption DEF Live
<1>4. \A q \in Procs : proc'[q] = Idle => service'[q].added = 0
  BY <1>2, <1>3 DEF SharedInv
<1>5. \A q \in Procs : service'[q].span = "completed" =>
         q # p /\ service'[q] = service[q] /\ proc'[q] = Done
  BY <1>2, <1>3 DEF SharedInv
<1>6. CheckpointExact'
  BY <1>5 DEF SharedInv, CheckpointExact
<1>7. ASSUME NEW q \in Live' \ hist'.shared
      PROVE  Live' = {q} /\ AloneOK(proc'[q], events', hist'.acted, service'[q].added)
  <2>1. Live = {q}
    BY <1>2 DEF SharedInv
  <2>2. q = p
    BY <2>1
  <2> QED
    BY <1>2, <2>1, <2>2
<1> QED
  BY <1>4, <1>5, <1>6, <1>7 DEF SharedInv

\* A step inside a run that changes neither the database of events nor the
\* history, and does not come back before the first tool call.
InnerStep(p, k) ==
    /\ proc' = [proc EXCEPT ![p] = k]
    /\ proc[p].step \in Inside /\ k.step \in Inside
    /\ k.kind = proc[p].kind /\ k.seen = proc[p].seen
    /\ k.batch = proc[p].batch /\ k.stored = proc[p].stored
    /\ k.todo = proc[p].todo
    /\ proc[p].kind # "replay" => k.frame = proc[p].frame
    /\ k.step \in Unacted /\ ~k.recovering =>
          proc[p].step \in Unacted /\ ~proc[p].recovering
    /\ UNCHANGED <<service, events, hist>>

LEMMA InnerAlone ==
    ASSUME RunInv, SharedInv, NEW p \in Live, NEW k \in Proc, InnerStep(p, k)
    PROVE  SharedInv'
<1>1. p \notin hist.shared => AloneOK(k, events, hist.acted, service[p].added)
  BY DEF SharedInv, AloneOK, InnerStep, Inside
<1>2. ActedOnce' /\ \A e \in Known : hist'.acted[e] > 0 => e \in events'
  BY DEF InnerStep, SharedInv, ActedOnce
<1> QED
  BY <1>1, <1>2, AloneStep DEF InnerStep

\* The steps that are such.
LEMMA InnerSteps ==
    ASSUME RunInv, NEW p \in Procs,
           \/ Remember(p) \/ Commit(p) \/ SidecarFails(p) \/ Think(p)
           \/ Judge(p) \/ Result(p) \/ Audit(p)
    PROVE  \E k \in Proc : p \in Live /\ InnerStep(p, k)
<1> DEFINE j == proc[p]
<1>1. p \in Live
  BY DEF Remember, Commit, SidecarFails, Think, Judge, Result, Audit, At
<1>2. j \in Proc /\ proc = [proc EXCEPT ![p] = j]
  BY <1>1, Current
<1>3. ASSUME NEW s \in Inside, NEW t \in Inside, j.step = s, Go(p, t),
             t \in Unacted => s \in Unacted, UNCHANGED <<service, events, hist>>
      PROVE  \E k \in Proc : p \in Live /\ InnerStep(p, k)
  <2> DEFINE k == [j EXCEPT !.step = t]
  <2>1. /\ k \in Proc /\ k.step = t /\ k.kind = j.kind /\ k.seen = j.seen
        /\ k.batch = j.batch /\ k.stored = j.stored /\ k.todo = j.todo
        /\ k.frame = j.frame /\ k.recovering = j.recovering
    BY <1>2 DEF Proc, Steps, Inside
  <2>2. proc' = [proc EXCEPT ![p] = k]
    BY <1>3 DEF Go
  <2> HIDE DEF k
  <2> QED
    BY <1>1, <1>3, <2>1, <2>2 DEF InnerStep
<1>4. CASE SidecarFails(p)
  BY <1>3, <1>4 DEF SidecarFails, At, Inside, Unacted
<1>5. CASE Audit(p)
  BY <1>3, <1>5 DEF Audit, At, Inside, Unacted
<1>6. CASE Commit(p)
  <2>1. j.step = "commit" /\ UNCHANGED <<service, events, hist>>
        /\ (Go(p, "think") \/ UNCHANGED proc)
    BY <1>6 DEF Commit, At
  <2>2. CASE UNCHANGED proc
    BY <1>1, <1>2, <2>1, <2>2 DEF InnerStep, Inside
  <2>3. CASE Go(p, "think")
    BY <1>3, <2>1, <2>3 DEF Inside, Unacted
  <2> QED
    BY <2>1, <2>2, <2>3
<1>7. CASE Remember(p)
  <2>1. PICK frame \in Frames(p), recall \in SUBSET Topics,
             s \in {"think", "commit"} :
          proc' = [proc EXCEPT ![p].frame = frame, ![p].recall = recall,
                               ![p].step = s]
    <3>1. PICK frame \in Frames(p) :
            proc' = [proc EXCEPT ![p].frame = frame,
                ![p].recall = Shown(p, frame),
                ![p].step = IF MemoryOf[p] = "fake" \/ Accepted(frame) = {}
                            THEN "think" ELSE "commit"]
      BY <1>7 DEF Remember
    <3>2. Shown(p, frame) \in SUBSET Topics
      BY ShownIsCommitted DEF RunInv, TypeOK
    <3> QED
      BY <3>1, <3>2
  <2>2. frame \subseteq Known /\ (j.kind # "replay" => frame = j.frame)
    BY <1>2, FoundIsStored DEF Proc, RunInv, TypeOK
  <2> DEFINE k == [j EXCEPT !.frame = frame, !.recall = recall, !.step = s]
  <2>3. /\ k \in Proc /\ k.step = s /\ k.kind = j.kind /\ k.seen = j.seen
        /\ k.batch = j.batch /\ k.stored = j.stored /\ k.todo = j.todo
        /\ k.frame = frame /\ k.recovering = j.recovering
    BY <1>2, <2>2 DEF Proc, Steps
  <2>4. /\ proc' = [proc EXCEPT ![p] = k] /\ j.step = "remember"
        /\ UNCHANGED <<service, events, hist>>
    BY <1>7, <2>1 DEF Remember, At
  <2> HIDE DEF k
  <2> QED
    BY <1>1, <2>2, <2>3, <2>4 DEF InnerStep, Inside, Unacted
<1>8. CASE Think(p)
  <2>1. PICK tool \in Plans(p), s \in {"audit", "judge", "result"} :
          proc' = [proc EXCEPT ![p].tool = tool, ![p].step = s,
                               ![p].status = "error"]
    BY <1>8 DEF Think
  <2> DEFINE k == [j EXCEPT !.tool = tool, !.step = s, !.status = "error"]
  <2>2. tool \in Tools \cup {"none"}
    BY PlansAreTools
  <2>3. /\ k \in Proc /\ k.step = s /\ k.kind = j.kind /\ k.seen = j.seen
        /\ k.batch = j.batch /\ k.stored = j.stored /\ k.todo = j.todo
        /\ k.frame = j.frame /\ k.recovering = j.recovering
    BY <1>2, <2>2 DEF Proc, Steps
  <2>4. /\ proc' = [proc EXCEPT ![p] = k] /\ j.step = "think"
        /\ UNCHANGED <<service, events, hist>>
    BY <1>8, <2>1 DEF Think, At
  <2> HIDE DEF k
  <2> QED
    BY <1>1, <2>3, <2>4 DEF InnerStep, Inside, Unacted
<1>9. CASE Judge(p)
  <2>1. PICK s \in {"execute", "request", "audit", "result"} :
          proc' = [proc EXCEPT ![p].step = s, ![p].status = "blocked"]
    BY <1>9 DEF Judge
  <2> DEFINE k == [j EXCEPT !.step = s, !.status = "blocked"]
  <2>2. /\ k \in Proc /\ k.step = s /\ k.kind = j.kind /\ k.seen = j.seen
        /\ k.batch = j.batch /\ k.stored = j.stored /\ k.todo = j.todo
        /\ k.frame = j.frame /\ k.recovering = j.recovering
    BY <1>2 DEF Proc, Steps
  <2>3. /\ proc' = [proc EXCEPT ![p] = k] /\ j.step = "judge"
        /\ UNCHANGED <<service, events, hist>>
    BY <1>9, <2>1 DEF Judge, At
  <2> HIDE DEF k
  <2> QED
    BY <1>1, <2>2, <2>3 DEF InnerStep, Inside, Unacted
<1>10. CASE Result(p)
  <2>1. j.step = "result" /\ UNCHANGED <<service, events, hist>>
    BY <1>10 DEF Result, At
  <2>2. CASE Go(p, "audit")
    BY <1>3, <2>1, <2>2 DEF Inside, Unacted
  <2>3. ASSUME NEW t \in Tools,
               proc' = [proc EXCEPT ![p] =
                          [j EXCEPT !.step = "judge", !.tool = t,
                                    !.recovering = TRUE]]
        PROVE  \E k \in Proc : p \in Live /\ InnerStep(p, k)
    <3> DEFINE k == [j EXCEPT !.step = "judge", !.tool = t, !.recovering = TRUE]
    <3>1. /\ k \in Proc /\ k.step = "judge" /\ k.kind = j.kind
          /\ k.seen = j.seen
          /\ k.batch = j.batch /\ k.stored = j.stored /\ k.todo = j.todo
          /\ k.frame = j.frame /\ k.recovering = TRUE
      BY <1>2 DEF Proc, Steps
    <3>2. proc' = [proc EXCEPT ![p] = k]
      BY <2>3
    <3> HIDE DEF k
    <3> QED
      BY <1>1, <2>1, <3>1, <3>2 DEF InnerStep, Inside
  <2>4. CASE j.recovering /\ proc' = [proc EXCEPT ![p].step = "judge",
                                                  ![p].tool = "rollback_app"]
    <3>1. [j EXCEPT !.step = "judge", !.tool = "rollback_app"]
            = [j EXCEPT !.step = "judge", !.tool = "rollback_app",
                        !.recovering = TRUE]
      BY <1>2, <2>4 DEF Proc
    <3>2. proc' = [proc EXCEPT ![p] =
                     [j EXCEPT !.step = "judge", !.tool = "rollback_app",
                               !.recovering = TRUE]]
      BY <2>4, <3>1
    <3> QED
      BY <2>3, <3>2 DEF Tools, ApprovalTools
  <2>5. CASE proc' = [proc EXCEPT ![p].step = "judge", ![p].tool = "query_leases",
                                  ![p].recovering = TRUE]
    BY <2>3, <2>5 DEF Tools, ReadOnlyTools
  <2> QED
    BY <1>10, <2>2, <2>4, <2>5 DEF Result
<1> QED
  BY <1>4, <1>5, <1>6, <1>7, <1>8, <1>9, <1>10

\* Acting: a process that is alone acts on events not acted on before.
LEMMA ActingAlone ==
    ASSUME RunInv, SharedInv, NEW p \in Procs, Execute(p) \/ Request(p)
    PROVE  SharedInv'
<1> DEFINE j == proc[p]
<1>1. p \in Live /\ j.step \in {"execute", "request"}
  BY DEF Execute, Request, At
<1>2. /\ j \in Proc /\ RunOK(j, row[p], events, memory.sqlite)
      /\ hist \in Hist
  BY <1>1, Current
<1>3. PICK status \in {"ok", "error", "pending"} :
        proc' = [proc EXCEPT ![p].step = "result", ![p].status = status]
  BY DEF Execute, Request
<1> DEFINE k == [j EXCEPT !.step = "result", !.status = status]
<1>4. /\ k \in Proc /\ k.step = "result" /\ k.kind = j.kind /\ k.seen = j.seen
      /\ k.batch = j.batch /\ k.stored = j.stored /\ k.todo = j.todo
      /\ k.frame = j.frame
  BY <1>2 DEF Proc, Steps
<1>5. proc' = [proc EXCEPT ![p] = k] /\ Acts(p) /\ UNCHANGED <<service, events>>
  BY <1>3 DEF Execute, Request
<1> HIDE DEF k
<1>6. j.frame \subseteq events
  BY <1>1, <1>2 DEF RunOK, StoredOK, Inside
<1>7. hist.acted \in [Known -> 0..2]
  BY <1>2 DEF Hist
<1>8. /\ hist'.shared = hist.shared
      /\ \A e \in Known : hist'.acted[e] > 0 => e \in events'
      /\ ActedOnce'
  <2>1. CASE j.recovering
    BY <1>5, <2>1 DEF Acts, SharedInv, ActedOnce
  <2>2. CASE ~j.recovering
    <3> DEFINE acted == [e \in Known |-> IF e \in j.frame /\ hist.acted[e] < 2
                                         THEN hist.acted[e] + 1 ELSE hist.acted[e]]
               more == IF p \in hist.shared THEN j.frame ELSE {}
    <3>1. hist' = [hist EXCEPT !.acted = acted, !.unclaimed = @ \cup more]
      BY <1>5, <2>2 DEF Acts
    <3>2. /\ hist'.shared = hist.shared /\ hist'.acted = acted
          /\ hist'.unclaimed = hist.unclaimed \cup more
      <4> HIDE DEF acted, more
      <4> QED
        BY <1>2, <3>1 DEF Hist
    <3>3. \A e \in Known : acted[e] > 0 => e \in events
      BY <1>6, <1>7 DEF SharedInv
    <3>4. \A e \in Known : hist.acted[e] > 1 => e \in hist.unclaimed
      BY DEF SharedInv, ActedOnce
    <3>5. CASE p \in hist.shared
      BY <1>7, <3>2, <3>3, <3>4, <3>5, <1>5 DEF ActedOnce
    <3>6. CASE p \notin hist.shared
      <4>1. \A e \in j.frame : hist.acted[e] = 0
        BY <1>1, <2>2, <3>6 DEF SharedInv, AloneOK, Unacted
      <4>2. \A e \in Known : acted[e] > 1 => hist.acted[e] > 1
        BY <1>7, <4>1
      <4> QED
        BY <3>2, <3>3, <3>4, <4>2, <1>5 DEF ActedOnce
    <3> QED
      BY <3>5, <3>6
  <2> QED
    BY <2>1, <2>2
<1>9. p \notin hist.shared => AloneOK(k, events, hist'.acted, service[p].added)
  BY <1>1, <1>4 DEF SharedInv, AloneOK, Inside, Unacted
<1> QED
  BY <1>1, <1>4, <1>5, <1>8, <1>9, AloneStep

\* Collecting, planning and routing.
LEMMA CollectAlone ==
    ASSUME RunInv, SharedInv, NEW p \in Procs, Collect(p) \/ PlanCycle(p)
    PROVE  SharedInv'
<1> DEFINE j == proc[p]
<1>1. p \in Live /\ j.step = "collect" /\ UNCHANGED <<service, events, hist>>
  BY DEF Collect, PlanCycle, At
<1>2. j \in Proc
  BY <1>1, Current
<1>3. PICK k \in Proc :
        /\ proc' = [proc EXCEPT ![p] = k]
        /\ k.step \in {"route", "collect", "finish"} /\ k.kind = j.kind
        /\ k.seen = j.seen /\ k.stored = j.stored
        /\ j.kind = "service" => k.batch \subseteq Sources
  <2>1. CASE Collect(p)
    <3>1. PICK batch \in SUBSET Sources :
            proc' = [proc EXCEPT ![p].step = "route", ![p].batch = batch]
      BY <2>1 DEF Collect
    <3> DEFINE k == [j EXCEPT !.step = "route", !.batch = batch]
    <3>2. batch \subseteq Known
      BY DEF Known
    <3>3. /\ k \in Proc /\ k.step = "route" /\ k.kind = j.kind
          /\ k.seen = j.seen /\ k.stored = j.stored /\ k.batch = batch
      BY <1>2, <3>2 DEF Proc, Steps
    <3>4. proc' = [proc EXCEPT ![p] = k]
      BY <3>1
    <3> HIDE DEF k
    <3> QED
      BY <3>3, <3>4
  <2>2. CASE PlanCycle(p)
    <3>1. PICK batch \in SUBSET Sources :
            proc' = [proc EXCEPT ![p] =
              LET planned == [j EXCEPT !.batch = batch \cup Ticks(j),
                                !.last = IF MaintenanceDue(j) THEN j.cycle ELSE @]
              IN  IF Wakes(j, batch) THEN [planned EXCEPT !.step = "route"]
                  ELSE [AfterCycle(planned) EXCEPT !.batch = {}]]
      BY <2>2 DEF PlanCycle
    <3> DEFINE planned == [j EXCEPT !.batch = batch \cup Ticks(j),
                             !.last = IF MaintenanceDue(j) THEN j.cycle ELSE @]
               k1 == [planned EXCEPT !.step = "route"]
               k2 == [AfterCycle(planned) EXCEPT !.batch = {}]
    <3>2. batch \cup Ticks(j) \subseteq Known
      BY <1>2, TicksKnown DEF Known
    <3>3. /\ planned \in Proc /\ planned.kind = j.kind /\ planned.seen = j.seen
          /\ planned.stored = j.stored
      <4>1. (IF MaintenanceDue(j) THEN j.cycle ELSE j.last) \in 0..Cycles
        BY <1>2, BoundsAssumption DEF Proc
      <4>2. planned = [j EXCEPT !.batch = batch \cup Ticks(j),
                         !.last = IF MaintenanceDue(j) THEN j.cycle ELSE j.last]
        BY <1>2 DEF Proc
      <4> QED
        BY <1>2, <3>2, <4>1, <4>2 DEF Proc
    <3>4. proc' = [proc EXCEPT ![p] = k1] \/ proc' = [proc EXCEPT ![p] = k2]
      BY <3>1
    <3> HIDE DEF planned
    <3>5. /\ k1 \in Proc /\ k1.step = "route" /\ k1.kind = j.kind
          /\ k1.seen = j.seen /\ k1.stored = j.stored
      BY <3>3 DEF Proc, Steps
    <3>6. /\ AfterCycle(planned) \in Proc
          /\ AfterCycle(planned).step \in {"collect", "finish"}
          /\ AfterCycle(planned).kind = j.kind
          /\ AfterCycle(planned).seen = j.seen
          /\ AfterCycle(planned).stored = j.stored
      BY <3>3, AfterCycleFacts
    <3>7. /\ k2 \in Proc /\ k2.step \in {"collect", "finish"} /\ k2.kind = j.kind
          /\ k2.seen = j.seen /\ k2.stored = j.stored
      BY <3>6 DEF Proc
    <3>8. j.kind # "service"
      BY <2>2 DEF PlanCycle
    <3> HIDE DEF k1, k2
    <3> QED
      BY <3>4, <3>5, <3>7, <3>8
  <2> QED
    BY <2>1, <2>2
<1>4. p \notin hist.shared => AloneOK(k, events, hist.acted, service[p].added)
  BY <1>1, <1>3 DEF SharedInv, AloneOK, Inside, Unacted
<1>5. ActedOnce' /\ \A e \in Known : hist'.acted[e] > 0 => e \in events'
  BY <1>1 DEF SharedInv, ActedOnce
<1> QED
  BY <1>1, <1>3, <1>4, <1>5, AloneStep

LEMMA RouteAlone ==
    ASSUME RunInv, SharedInv, NEW p \in Procs, Route(p)
    PROVE  SharedInv'
<1> DEFINE j == proc[p]
           new == j.batch \ j.seen
           k == [j EXCEPT !.step = IF new = {} THEN "remember" ELSE "store",
                        !.seen = @ \cup j.batch, !.batch = new, !.todo = new,
                        !.frame = new, !.recall = {}, !.tool = "none",
                        !.status = "ok",
                        !.recovering = FALSE]
<1>1. p \in Live /\ j.step = "route" /\ UNCHANGED <<service, events, hist>>
  BY DEF Route, At
<1>2. j \in Proc /\ hist \in Hist
  BY <1>1, Current
<1>3. proc' = [proc EXCEPT ![p] = k]
  BY DEF Route
<1>4. /\ k \in Proc
      /\ k.step = IF new = {} THEN "remember" ELSE "store"
      /\ k.todo = new /\ k.frame = new /\ k.batch = new /\ k.kind = j.kind
      /\ k.seen = j.seen \cup j.batch /\ k.stored = j.stored
  BY <1>2 DEF Proc, Steps
<1>5. new \subseteq Known /\ \A e \in Known : hist.acted[e] \in 0..2
  BY <1>2 DEF Proc, Hist
<1> HIDE DEF k
<1>6. ASSUME p \notin hist.shared
      PROVE  AloneOK(k, events, hist.acted, service[p].added)
  <2>1. AloneOK(j, events, hist.acted, service[p].added)
    BY <1>1, <1>6 DEF SharedInv
  <2>2. \A e \in new : e \notin events /\ hist.acted[e] = 0
    BY <1>5, <2>1 DEF AloneOK, SharedInv
  <2> QED
    BY <1>1, <1>4, <2>1, <2>2 DEF AloneOK, Inside, Unacted
<1>7. ActedOnce' /\ \A e \in Known : hist'.acted[e] > 0 => e \in events'
  BY <1>1 DEF SharedInv, ActedOnce
<1> QED
  BY <1>1, <1>3, <1>4, <1>6, <1>7, AloneStep

\* Storing: what a process that is alone stores is new, and is counted.
LEMMA StoreAlone ==
    ASSUME RunInv, SharedInv, NEW p \in Procs, Store(p)
    PROVE  SharedInv'
<1> DEFINE j == proc[p]
<1>1. p \in Live /\ j.step = "store" /\ UNCHANGED hist
  BY DEF Store, At
<1>2. j \in Proc /\ service \in [Procs -> Service]
  BY <1>1, Current
<1>3. PICK e \in j.todo :
        /\ events' = events \cup {e}
        /\ service' = IF e \in events THEN service
                      ELSE [service EXCEPT ![p].added = @ + 1]
        /\ proc' = [proc EXCEPT ![p].todo = j.todo \ {e},
                     ![p].step = IF j.todo \ {e} = {} THEN "remember" ELSE @]
  BY DEF Store
<1> DEFINE left == j.todo \ {e}
           k == [j EXCEPT !.todo = left,
                          !.step = IF left = {} THEN "remember" ELSE "store"]
<1>4. proc' = [proc EXCEPT ![p] = k]
  BY <1>1, <1>2, <1>3 DEF Proc
<1>5. /\ k \in Proc /\ k.todo = left /\ k.frame = j.frame
      /\ k.step = IF left = {} THEN "remember" ELSE "store"
      /\ k.kind = j.kind /\ k.seen = j.seen /\ k.batch = j.batch
      /\ k.stored = j.stored /\ k.recovering = j.recovering
  BY <1>2 DEF Proc, Steps
<1>6. /\ \A q \in Procs \ {p} : service'[q] = service[q]
      /\ service'[p].span = service[p].span
      /\ service[p].added \in Nat
      /\ service'[p].added = IF e \in events THEN service[p].added
                             ELSE service[p].added + 1
  BY <1>2, <1>3 DEF Service
<1>7. /\ Cardinality(j.todo) \in Nat /\ Cardinality(left) = Cardinality(j.todo) - 1
      /\ Cardinality(j.batch) \in Nat /\ j.stored \in Nat
  <2>1. IsFiniteSet(j.todo) /\ IsFiniteSet(j.batch)
    BY <1>2, KnownFinite, FS_Subset DEF Proc
  <2> QED
    BY <1>2, <2>1, FS_RemoveElement, FS_CardinalityType DEF Proc
<1> HIDE DEF k
<1>8. ASSUME p \notin hist.shared
      PROVE  AloneOK(k, events', hist'.acted, service'[p].added)
  <2>1. AloneOK(j, events, hist.acted, service[p].added)
    BY <1>1, <1>8 DEF SharedInv
  <2>2. /\ e \notin events /\ j.todo \subseteq j.frame /\ j.frame \subseteq j.seen
        /\ left \cap events' = {}
    BY <1>1, <1>3, <2>1 DEF AloneOK
  <2>3. j.kind = "service" =>
          /\ j.batch \subseteq Sources
          /\ service'[p].added + Cardinality(left)
                = j.stored + Cardinality(j.batch)
    BY <1>1, <1>6, <1>7, <2>1, <2>2 DEF AloneOK
  <2>4. hist'.acted = hist.acted
    BY <1>1
  <2> QED
    BY <1>1, <1>3, <1>5, <2>1, <2>2, <2>3, <2>4 DEF AloneOK, Inside, Unacted
<1>9. ActedOnce' /\ \A f \in Known : hist'.acted[f] > 0 => f \in events'
  BY <1>1, <1>3 DEF SharedInv, ActedOnce
<1> QED
  BY <1>1, <1>4, <1>5, <1>6, <1>8, <1>9, AloneStep

\* Closing: the batch is counted once all of it is stored.
LEMMA CloseAlone ==
    ASSUME RunInv, SharedInv, NEW p \in Procs, Close(p)
    PROVE  SharedInv'
<1> DEFINE j == proc[p]
           c == [j EXCEPT !.stored = @ + Cardinality(j.batch)]
           k == AfterCycle(c)
<1>1. p \in Live /\ j.step = "close" /\ UNCHANGED <<service, events, hist>>
  BY DEF Close, At
<1>2. /\ j \in Proc /\ RunOK(j, row[p], events, memory.sqlite)
      /\ service \in [Procs -> Service]
  BY <1>1, Current
<1>3. proc' = [proc EXCEPT ![p] = k]
  BY DEF Close
<1>4. Cardinality(j.batch) \in Nat
  BY <1>2, KnownFinite, FS_Subset, FS_CardinalityType DEF Proc
<1>5. /\ c \in Proc /\ c.kind = j.kind /\ c.seen = j.seen /\ c.batch = j.batch
      /\ c.stored = j.stored + Cardinality(j.batch)
  BY <1>2, <1>4 DEF Proc
<1> HIDE DEF c
<1>6. /\ k \in Proc /\ k.step \in {"collect", "finish"} /\ k.kind = j.kind
      /\ k.seen = j.seen /\ k.batch = j.batch
      /\ k.stored = j.stored + Cardinality(j.batch)
  BY <1>5, AfterCycleFacts
<1> HIDE DEF k
<1>7. j.todo = {} /\ Cardinality(j.todo) = 0 /\ service[p].added \in Nat
  BY <1>1, <1>2, FS_EmptySet DEF RunOK, StoredOK, Inside, Service
<1>8. ASSUME p \notin hist.shared
      PROVE  AloneOK(k, events, hist.acted, service[p].added)
  <2>1. AloneOK(j, events, hist.acted, service[p].added)
    BY <1>1, <1>8 DEF SharedInv
  <2>2. j.kind = "service" => j.batch \subseteq Sources
                              /\ service[p].added = k.stored
    BY <1>1, <1>6, <1>7, <2>1 DEF AloneOK, Inside
  <2> QED
    BY <1>6, <2>1, <2>2 DEF AloneOK, Inside, Unacted
<1>9. ActedOnce' /\ \A e \in Known : hist'.acted[e] > 0 => e \in events'
  BY <1>1 DEF SharedInv, ActedOnce
<1> QED
  BY <1>1, <1>3, <1>6, <1>8, <1>9, AloneStep

\* Starting: a process that starts alone and reads all keys knows all events;
\* one that starts beside others makes all of them shared.
LEMMA OpenAlone ==
    ASSUME RunInv, SharedInv, NEW p \in Procs, NEW kind \in Kinds,
           NEW low \in BOOLEAN, Open(p, kind, low)
    PROVE  SharedInv'
<1>1. PICK seed \in Seed(kind) :
        proc' = [proc EXCEPT ![p] =
             [kind |-> kind, step |-> "collect", cycle |-> 1, seen |-> seed,
              batch |-> {}, todo |-> {}, frame |-> {}, recall |-> {}, tool |-> "none",
              status |-> "ok", recovering |-> FALSE, stored |-> 0,
              low |-> low, last |-> 0]]
  BY DEF Open
<1> DEFINE k == [kind |-> kind, step |-> "collect", cycle |-> 1, seen |-> seed,
              batch |-> {}, todo |-> {}, frame |-> {}, recall |-> {}, tool |-> "none",
              status |-> "ok", recovering |-> FALSE, stored |-> 0,
              low |-> low, last |-> 0]
           more == IF Live # {} THEN Live \cup {p}
                   ELSE IF kind = "replay" \/ Cardinality(events) > SeedLimit
                   THEN {p} ELSE {}
<1>2. seed \subseteq events /\ events \subseteq Known
  BY DEF Seed, RecentKeys, Newest, RunInv, TypeOK
<1>3. 1 \in 1..Cycles /\ 0 \in 0..Cycles
  BY BoundsAssumption
<1>4. k \in Proc
  BY <1>2, <1>3 DEF Proc, Steps
<1>5. /\ k.kind = kind /\ k.step = "collect" /\ k.seen = seed
      /\ k.batch = {} /\ k.stored = 0
  OBVIOUS
<1> HIDE DEF k
<1>6. /\ proc'[p] = k /\ Live' = Live \cup {p}
      /\ \A q \in Procs \ {p} : proc'[q] = proc[q]
  BY <1>1, <1>4, Becomes DEF RunInv, k
<1>7. proc[p] = Idle /\ p \notin Live /\ UNCHANGED events
  BY DEF Open, Live
<1>8. /\ hist'.shared = hist.shared \cup more /\ hist'.acted = hist.acted
      /\ hist'.unclaimed = hist.unclaimed
  BY DEF Open, RunInv, TypeOK, Hist
<1>9. /\ \A q \in Procs \ {p} : service'[q] = service[q]
      /\ service'[p].added = service[p].added
      /\ service'[p].span \in {service[p].span, "running"}
  BY DEF Open, RunInv, TypeOK, Service
<1>10. service[p].added = 0 /\ service'[p].span # "completed"
  BY <1>7, <1>9, MarkersAssumption DEF SharedInv
<1>11. ActedOnce' /\ \A e \in Known : hist'.acted[e] > 0 => e \in events'
  BY <1>7, <1>8 DEF SharedInv, ActedOnce
<1>12. \A q \in Procs : proc'[q] = Idle => service'[q].added = 0
  BY <1>6, <1>9, <1>10 DEF SharedInv
<1>13. \A q \in Procs : service'[q].span = "completed" =>
          q # p /\ service'[q] = service[q] /\ proc'[q] = Done
  BY <1>6, <1>9, <1>10 DEF SharedInv
<1>14. CheckpointExact'
  BY <1>8, <1>13 DEF SharedInv, CheckpointExact
<1>15. ASSUME NEW q \in Live' \ hist'.shared
       PROVE  Live' = {q} /\ AloneOK(proc'[q], events', hist'.acted, service'[q].added)
  <2>1. Live = {} /\ q = p /\ kind # "replay" /\ ~(Cardinality(events) > SeedLimit)
    BY <1>6, <1>8
  <2>2. seed = events
    <3>1. IsFiniteSet(events) /\ Cardinality(events) \in Nat /\ SeedLimit \in Nat
      BY KnownFinite, FS_Subset, FS_CardinalityType, BoundsAssumption
         DEF RunInv, TypeOK
    <3>2. seed \subseteq events
          /\ Cardinality(seed) = IF Cardinality(events) < SeedLimit
                                 THEN Cardinality(events) ELSE SeedLimit
      BY <2>1 DEF Seed, RecentKeys, Newest
    <3>3. Cardinality(seed) = Cardinality(events)
      BY <2>1, <3>1, <3>2
    <3> QED
      BY <3>1, <3>2, <3>3, FS_Subset
  <2>3. AloneOK(k, events, hist.acted, 0)
    BY <1>5, <2>1, <2>2 DEF AloneOK, Inside, Unacted
  <2> QED
    BY <1>6, <1>7, <1>8, <1>9, <1>10, <2>1, <2>3
<1> QED
  BY <1>11, <1>12, <1>13, <1>14, <1>15 DEF SharedInv

\* Ending: the checkpoint of a service that was alone is what it has added.
LEMMA EndingAlone ==
    ASSUME RunInv, SharedInv, NEW p \in Procs, Ending(p)
    PROVE  SharedInv'
<1>1. /\ Ends(p) /\ UNCHANGED <<events, memory, hist>>
      /\ service' \in [Procs -> Service]
      /\ \A q \in Procs \ {p} : service'[q] = service[q]
  BY EndingFacts
<1>2. /\ proc'[p] = Done /\ Live' = Live \ {p}
      /\ \A q \in Procs \ {p} : proc'[q] = proc[q]
  BY <1>1 DEF RunInv, TypeOK, Ends, Live
<1>3. proc[p] # Done
  <2>1. p \in Live \/ proc[p] = Idle
    BY DEF Ending, CollectFails, CollectsNothing, Paused, Finish,
           RouteUnavailable, ModelFails, Crash, Refused, At
  <2> QED
    BY <2>1, MarkersAssumption DEF Live
<1>4. service[p].span # "completed"
  BY <1>3 DEF SharedInv
<1>5. p \notin hist.shared /\ service'[p].span = "completed"
         => service'[p].checkpoint = service'[p].added
  <2>1. service \in [Procs -> Service]
    BY DEF RunInv, TypeOK
  <2>2. CASE FailService(p)
    BY <2>1, <2>2 DEF FailService, Service
  <2>3. CASE Finish(p)
    <3>1. p \in Live /\ proc[p].step = "finish"
      BY <2>3 DEF Finish, At
    <3>2. CASE proc[p].kind # "service"
      BY <1>4, <2>3, <3>2 DEF Finish
    <3>3. CASE proc[p].kind = "service"
      <4>1. p \notin hist.shared => service[p].added = proc[p].stored
        BY <3>1, <3>3 DEF SharedInv, AloneOK, Inside
      <4>2. service'[p].checkpoint = proc[p].stored
            /\ service'[p].added = service[p].added
        BY <2>1, <2>3, <3>3 DEF Finish, Service
      <4> QED
        BY <4>1, <4>2
    <3> QED
      BY <3>2, <3>3
  <2>4. CASE UNCHANGED service
    BY <1>4, <2>4
  <2> QED
    BY <2>2, <2>3, <2>4 DEF Ending, CollectFails, CollectsNothing, Paused,
                            RouteUnavailable, ModelFails, Crash, Refused
<1>6. ActedOnce' /\ \A e \in Known : hist'.acted[e] > 0 => e \in events'
  BY <1>1 DEF SharedInv, ActedOnce
<1>7. \A q \in Procs : proc'[q] = Idle => service'[q].added = 0
  BY <1>1, <1>2, MarkersAssumption DEF SharedInv
<1>8. \A q \in Procs : service'[q].span = "completed" => proc'[q] = Done
  BY <1>1, <1>2 DEF SharedInv
<1>9. CheckpointExact'
  BY <1>1, <1>5 DEF SharedInv, CheckpointExact
<1>10. ASSUME NEW q \in Live' \ hist'.shared
       PROVE  Live' = {q} /\ AloneOK(proc'[q], events', hist'.acted, service'[q].added)
  <2>1. q \in Live \ hist.shared /\ q # p /\ q \in Procs
    BY <1>1, <1>2 DEF Live
  <2>2. Live = {q} /\ AloneOK(proc[q], events, hist.acted, service[q].added)
    BY <2>1 DEF SharedInv
  <2> QED
    BY <1>1, <1>2, <2>1, <2>2
<1> QED
  BY <1>6, <1>7, <1>8, <1>9, <1>10 DEF SharedInv

LEMMA NextSharedInv == RunInv /\ SharedInv /\ [Next]_vars => SharedInv'
<1> SUFFICES ASSUME RunInv, SharedInv, [Next]_vars PROVE SharedInv'
  OBVIOUS
<1>1. ASSUME NEW p \in Procs, Ending(p) PROVE SharedInv'
  BY <1>1, EndingAlone
<1>2. ASSUME NEW p \in Procs,
             \/ Remember(p) \/ Commit(p) \/ SidecarFails(p) \/ Think(p)
             \/ Judge(p) \/ Result(p) \/ Audit(p)
      PROVE  SharedInv'
  BY <1>2, InnerSteps, InnerAlone
<1>3. ASSUME NEW p \in Procs, Step(p) PROVE SharedInv'
  BY <1>1, <1>2, <1>3, CollectAlone, RouteAlone, StoreAlone, ActingAlone,
     CloseAlone DEF Step, Ending
<1>4. ASSUME NEW p \in Procs, NEW kind \in MayBe[p], NEW low \in BOOLEAN,
             Open(p, kind, low)
      PROVE  SharedInv'
  <2>1. kind \in Kinds
    BY ProcsAssumption
  <2> QED
    BY <1>4, <2>1, OpenAlone
<1>5. CASE UNCHANGED vars
  BY <1>5 DEF vars, SharedInv, ActedOnce, CheckpointExact, Live
<1> QED
  BY <1>1, <1>3, <1>4, <1>5 DEF Next, Ending

LEMMA InitSharedInv == Init => SharedInv
BY DEF Init, SharedInv, ActedOnce, CheckpointExact, Live

\* The runs stay in order, and a process that is alone stays apart from all
\* others: the two halves of the inductive invariant.
THEOREM ServiceInvariant == Spec => []Inv
<1>1. Init => Inv
  BY InitRunInv, InitSharedInv DEF Inv
<1>2. Inv /\ [Next]_vars => Inv'
  BY NextRunInv, NextSharedInv DEF Inv
<1> QED
  BY <1>1, <1>2, PTL DEF Spec

\* However often an event is delivered, across restarts and crashes, it leads
\* to an action once, unless a process that handled it overlapped with another
\* or was not given all the stored keys.
THEOREM EventsAreActedOnOnce == Spec => []ActedOnce
<1>1. Inv => ActedOnce
  BY DEF Inv, SharedInv
<1> QED
  BY <1>1, ServiceInvariant, PTL

\* The checkpoint of a completed service that was alone and fully seeded is
\* the number of events it added to the database, over all its cycles.
THEOREM CheckpointsAreExact == Spec => []CheckpointExact
<1>1. Inv => CheckpointExact
  BY DEF Inv, SharedInv
<1> QED
  BY <1>1, ServiceInvariant, PTL

-----------------------------------------------------------------------------
\* Every process is bounded.

\* A run judges a tool at most three times: the first is followed by the two of
\* the recovery that a health guard asks for, the leases and the rollback.
Turn(j) == IF ~j.recovering THEN 0 ELSE IF j.tool = "query_leases" THEN 3 ELSE 6

\* The place of a process in its cycle.
StepNo(j) ==
    CASE j.step = "collect"  -> 1
      [] j.step = "route"    -> 2
      [] j.step = "store"    -> 3
      [] j.step = "remember" -> 4
      [] j.step = "commit"   -> 5
      [] j.step = "think"    -> 6
      [] j.step = "judge"    -> 7 + Turn(j)
      [] j.step \in {"execute", "request"} -> 8 + Turn(j)
      [] j.step = "result"   -> 9 + Turn(j)
      [] j.step = "audit"    -> 16
      [] j.step = "close"    -> 17
      [] j.step = "finish"   -> 18

\* A recovery starts after a first tool, with the leases.
RecoveryOK(j) ==
    /\ j.step \in {"store", "remember", "commit", "think"} => ~j.recovering
    /\ j.step \in {"judge", "execute", "request", "result"} /\ j.recovering
          => j.tool \in {"query_leases", "rollback_app"}

RecoveryInv == \A p \in Live : RecoveryOK(proc[p])

Later(j, k) == \/ k.cycle > j.cycle
               \/ k.cycle = j.cycle /\ StepNo(k) > StepNo(j)

\* A process has ended, is further in its cycles, or has one event fewer to
\* store, or one memory more committed, of those of its batch.
GoesOn(p) ==
    \/ proc'[p] = Done
    \/ Later(proc[p], proc'[p])
    \/ /\ proc[p].step = "store" /\ proc'[p].step = "store"
       /\ proc'[p].cycle = proc[p].cycle
       /\ proc'[p].todo \subseteq proc[p].todo /\ proc'[p].todo # proc[p].todo
    \/ /\ proc[p].step = "commit" /\ proc'[p] = proc[p]
       /\ row[p].memories \subseteq row'[p].memories
       /\ row'[p].memories # row[p].memories

\* The cycles, the steps of one, the events and the memories are limited.
WithinBounds ==
    \A p \in Live : /\ proc[p].cycle \in 1 .. Cycles
                    /\ StepNo(proc[p]) \in 1 .. 18
                    /\ IsFiniteSet(proc[p].todo) /\ row[p].memories \subseteq Topics

LEMMA StepNoIs ==
    ASSUME NEW j \in Proc
    PROVE  StepNo(j) \in 1 .. 18
<1>1. Turn(j) \in {0, 3, 6}
  BY DEF Turn
<1> QED
  BY <1>1 DEF StepNo, Proc, Steps

LEMMA BoundsHold == RunInv => WithinBounds
<1> SUFFICES ASSUME RunInv, NEW p \in Live
             PROVE  /\ proc[p].cycle \in 1 .. Cycles /\ StepNo(proc[p]) \in 1 .. 18
                    /\ IsFiniteSet(proc[p].todo) /\ row[p].memories \subseteq Topics
  BY DEF WithinBounds
<1>1. proc[p] \in Proc /\ row[p] \in Row
  BY Current
<1>2. proc[p].todo \subseteq Known
  BY <1>1 DEF Proc
<1>3. IsFiniteSet(proc[p].todo)
  BY <1>2, KnownFinite, FS_Subset
<1> QED
  BY <1>1, <1>3, StepNoIs DEF Proc, Row

\* What a step of a process shows of it.
Moves(p) ==
    /\ GoesOn(p)
    /\ proc'[p] = Done \/ RecoveryOK(proc'[p])
    /\ \A q \in Procs \ {p} : proc'[q] = proc[q]

\* A step within the cycle, to the memory k.
LEMMA Onward ==
    ASSUME RunInv, NEW p \in Live, NEW k, proc' = [proc EXCEPT ![p] = k],
           k.cycle = proc[p].cycle, StepNo(k) > StepNo(proc[p]), RecoveryOK(k)
    PROVE  Moves(p)
<1>1. proc'[p] = k /\ \A q \in Procs \ {p} : proc'[q] = proc[q]
  BY Current DEF RunInv, TypeOK
<1> QED
  BY <1>1 DEF Moves, GoesOn, Later

\* A step that only goes to another one.
LEMMA OnlyStep ==
    ASSUME RunInv, RecoveryInv, NEW p \in Live, NEW s, Go(p, s),
           \/ proc[p].step = "commit" /\ s = "think"
           \/ proc[p].step = "result" /\ s = "audit"
           \/ proc[p].step = "audit" /\ s = "close"
    PROVE  Moves(p)
<1>1. PICK j : j = proc[p]
  OBVIOUS
<1>2. j \in Proc /\ RecoveryOK(j) /\ Turn(j) \in {0, 3, 6}
  BY <1>1, Current DEF RecoveryInv, Turn
<1>3. PICK k : k = [j EXCEPT !.step = s]
  OBVIOUS
<1>4. proc' = [proc EXCEPT ![p] = k]
  BY <1>1, <1>3 DEF Go
<1>5. k.cycle = j.cycle /\ k.step = s /\ k.recovering = j.recovering
  BY <1>2, <1>3 DEF Proc
<1>6. StepNo(k) > StepNo(j)
  BY <1>1, <1>2, <1>5 DEF StepNo
<1>7. RecoveryOK(k)
  BY <1>1, <1>2, <1>5 DEF RecoveryOK
<1> QED
  BY <1>1, <1>4, <1>5, <1>6, <1>7, Onward

\* The end of a cycle.
LEMMA CycleMoves ==
    ASSUME RunInv, NEW p \in Live, NEW m \in Proc, NEW k,
           m.cycle = proc[p].cycle, proc[p].step \in {"collect", "close"},
           proc' = [proc EXCEPT ![p] = k],
           k.step = AfterCycle(m).step, k.cycle = AfterCycle(m).cycle
    PROVE  Moves(p)
<1>1. /\ AfterCycle(m).step \in {"collect", "finish"}
      /\ AfterCycle(m).cycle = IF AfterCycle(m).step = "collect"
                               THEN m.cycle + 1 ELSE m.cycle
  BY AfterCycleFacts
<1>2. proc'[p] = k /\ \A q \in Procs \ {p} : proc'[q] = proc[q]
  BY Current DEF RunInv, TypeOK
<1>3. m.cycle \in Nat
  BY BoundsAssumption DEF Proc
<1>4. Later(proc[p], k)
  BY <1>1, <1>3 DEF Later, StepNo
<1>5. RecoveryOK(k)
  BY <1>1 DEF RecoveryOK
<1> QED
  BY <1>2, <1>4, <1>5 DEF Moves, GoesOn

LEMMA StepMoves ==
    ASSUME RunInv, RecoveryInv, NEW p \in Procs, Step(p)
    PROVE  Moves(p)
<1>1. CASE Ending(p)
  <2>1. Ends(p)
    BY <1>1, EndingFacts
  <2>2. proc'[p] = Done /\ \A q \in Procs \ {p} : proc'[q] = proc[q]
    BY <2>1 DEF Ends, RunInv, TypeOK
  <2> QED
    BY <2>2 DEF Moves, GoesOn
<1>2. CASE ~Ending(p)
  <2>1. p \in Live
    BY <1>2 DEF Step, Ending, Collect, PlanCycle, Route, Store, Remember, Commit,
                SidecarFails, Think, Judge, Execute, Request, Result, Audit,
                Close, At
  <2>2. PICK j : j = proc[p]
    OBVIOUS
  <2>3. /\ j \in Proc /\ RecoveryOK(j) /\ Turn(j) \in {0, 3, 6}
        /\ j.cycle \in Nat
        /\ StoredOK(j, row[p], events) /\ JudgedOK(j, row[p])
    BY <2>1, <2>2, Current, BoundsAssumption DEF RecoveryInv, Turn, RunOK, Proc
  <2>4. CASE Collect(p)
    <3>1. PICK batch : proc' = [proc EXCEPT ![p].step = "route", ![p].batch = batch]
      BY <2>4 DEF Collect
    <3>2. PICK k : k = [j EXCEPT !.step = "route", !.batch = batch]
      OBVIOUS
    <3>3. proc' = [proc EXCEPT ![p] = k] /\ j.step = "collect"
      BY <2>2, <2>4, <3>1, <3>2 DEF Collect, At
    <3>4. k.cycle = j.cycle /\ k.step = "route"
      BY <2>3, <3>2 DEF Proc
    <3>5. StepNo(k) > StepNo(j) /\ RecoveryOK(k)
      BY <3>3, <3>4 DEF StepNo, RecoveryOK
    <3> QED
      BY <2>1, <2>2, <3>3, <3>4, <3>5, Onward
  <2>5. CASE PlanCycle(p)
    <3>1. PICK batch \in SUBSET Sources :
            proc' = [proc EXCEPT ![p] =
               LET planned == [j EXCEPT !.batch = batch \cup Ticks(j),
                                 !.last = IF MaintenanceDue(j) THEN j.cycle ELSE @]
               IN  IF Wakes(j, batch) THEN [planned EXCEPT !.step = "route"]
                   ELSE [AfterCycle(planned) EXCEPT !.batch = {}]]
      BY <2>2, <2>5 DEF PlanCycle
    <3>2. PICK l : l = IF MaintenanceDue(j) THEN j.cycle ELSE j.last
      OBVIOUS
    <3>3. PICK b : b = batch \cup Ticks(j)
      OBVIOUS
    <3>4. PICK m : m = [j EXCEPT !.batch = b, !.last = l]
      OBVIOUS
    <3>5. proc' = [proc EXCEPT ![p] =
             IF Wakes(j, batch) THEN [m EXCEPT !.step = "route"]
             ELSE [AfterCycle(m) EXCEPT !.batch = {}]]
      BY <2>3, <3>1, <3>2, <3>3, <3>4
    <3>6. b \subseteq Known /\ l \in 0 .. Cycles
      <4>1. Sources \subseteq Known
        BY DEF Known
      <4>2. Ticks(j) \subseteq Known
        BY <2>3, TicksKnown
      <4>3. j.cycle \in 0 .. Cycles /\ j.last \in 0 .. Cycles
        BY <2>3 DEF Proc
      <4> QED
        BY <3>2, <3>3, <4>1, <4>2, <4>3
    <3>7. m \in Proc /\ m.cycle = j.cycle /\ j.step = "collect"
      BY <2>2, <2>3, <2>5, <3>4, <3>6 DEF Proc, PlanCycle, At
    <3>8. CASE Wakes(j, batch)
      <4>1. PICK k : k = [m EXCEPT !.step = "route"]
        OBVIOUS
      <4>2. proc' = [proc EXCEPT ![p] = k]
        BY <3>5, <3>8, <4>1
      <4>3. k.cycle = j.cycle /\ k.step = "route"
        BY <3>7, <4>1 DEF Proc
      <4>4. StepNo(k) > StepNo(j) /\ RecoveryOK(k)
        BY <3>7, <4>3 DEF StepNo, RecoveryOK
      <4> QED
        BY <2>1, <2>2, <4>2, <4>3, <4>4, Onward
    <3>9. CASE ~Wakes(j, batch)
      <4>1. PICK k : k = [AfterCycle(m) EXCEPT !.batch = {}]
        OBVIOUS
      <4>2. proc' = [proc EXCEPT ![p] = k]
        BY <3>5, <3>9, <4>1
      <4>3. AfterCycle(m) \in Proc
        BY <3>7, AfterCycleFacts
      <4>4. k.step = AfterCycle(m).step /\ k.cycle = AfterCycle(m).cycle
        BY <4>1, <4>3 DEF Proc
      <4> QED
        BY <2>1, <2>2, <3>7, <4>2, <4>4, CycleMoves
    <3> QED
      BY <3>8, <3>9
  <2>6. CASE Route(p)
    <3>1. PICK k : proc' = [proc EXCEPT ![p] = k]
                   /\ k.cycle = j.cycle /\ k.step \in {"remember", "store"}
                   /\ k.recovering = FALSE
      <4>1. PICK new : new = j.batch \ j.seen
        OBVIOUS
      <4>2. PICK k :
              k = [j EXCEPT !.step = IF new = {} THEN "remember" ELSE "store",
                        !.seen = @ \cup j.batch, !.batch = new, !.todo = new,
                        !.frame = new, !.recall = {}, !.tool = "none",
                        !.status = "ok",
                        !.recovering = FALSE]
        OBVIOUS
      <4>3. proc' = [proc EXCEPT ![p] = k]
        BY <2>2, <2>6, <4>1, <4>2 DEF Route
      <4>4. /\ k.cycle = j.cycle /\ k.step \in {"remember", "store"}
            /\ k.recovering = FALSE
        BY <2>3, <4>2 DEF Proc
      <4> QED
        BY <4>3, <4>4
    <3>2. j.step = "route"
      BY <2>2, <2>6 DEF Route, At
    <3>3. StepNo(k) > StepNo(j) /\ RecoveryOK(k)
      BY <3>1, <3>2 DEF StepNo, RecoveryOK
    <3> QED
      BY <2>1, <2>2, <3>1, <3>3, Onward
  <2>7. CASE Store(p)
    <3>1. PICK e \in j.todo :
            proc' = [proc EXCEPT ![p].todo = j.todo \ {e},
                       ![p].step = IF j.todo \ {e} = {} THEN "remember" ELSE @]
      BY <2>2, <2>7 DEF Store
    <3>2. PICK left : left = j.todo \ {e}
      OBVIOUS
    <3>3. j.step = "store"
      BY <2>2, <2>7 DEF Store, At
    <3>4. PICK s : s = IF left = {} THEN "remember" ELSE j.step
      OBVIOUS
    <3>5. PICK k : k = [j EXCEPT !.todo = left, !.step = s]
      OBVIOUS
    <3>6. proc' = [proc EXCEPT ![p] = k]
      BY <2>1, <2>2, <3>1, <3>2, <3>4, <3>5, Current DEF RunInv, TypeOK
    <3>7. /\ k.cycle = j.cycle /\ k.step = s /\ k.todo = left
          /\ k.recovering = j.recovering
      BY <2>3, <3>5 DEF Proc
    <3>8. RecoveryOK(k)
      BY <2>3, <3>3, <3>4, <3>7 DEF RecoveryOK
    <3>9. CASE left = {}
      <4>1. StepNo(k) > StepNo(j)
        BY <3>3, <3>4, <3>7, <3>9 DEF StepNo
      <4> QED
        BY <2>1, <2>2, <3>6, <3>7, <3>8, <4>1, Onward
    <3>10. CASE left # {}
      <4>1. proc'[p] = k /\ \A q \in Procs \ {p} : proc'[q] = proc[q]
        BY <2>1, <3>6, Current DEF RunInv, TypeOK
      <4>2. left \subseteq j.todo /\ left # j.todo /\ k.step = "store"
        BY <3>1, <3>2, <3>3, <3>4, <3>7, <3>10
      <4> QED
        BY <2>2, <3>3, <3>7, <3>8, <4>1, <4>2 DEF Moves, GoesOn
    <3> QED
      BY <3>9, <3>10
  <2>8. CASE Remember(p)
    <3>1. PICK frame \in Frames(p), recall \in SUBSET Topics,
               s \in {"think", "commit"} :
            proc' = [proc EXCEPT ![p].frame = frame, ![p].recall = recall,
                                 ![p].step = s]
      <4>1. PICK frame \in Frames(p) :
              proc' = [proc EXCEPT ![p].frame = frame,
                ![p].recall = Shown(p, frame),
                ![p].step = IF MemoryOf[p] = "fake" \/ Accepted(frame) = {}
                            THEN "think" ELSE "commit"]
        BY <2>8 DEF Remember
      <4>2. Shown(p, frame) \in SUBSET Topics
        BY ShownIsCommitted DEF RunInv, TypeOK
      <4> QED
        BY <4>1, <4>2
    <3>2. PICK k : k = [j EXCEPT !.frame = frame, !.recall = recall, !.step = s]
      OBVIOUS
    <3>3. proc' = [proc EXCEPT ![p] = k] /\ j.step = "remember"
      BY <2>2, <2>8, <3>1, <3>2 DEF Remember, At
    <3>4. k.cycle = j.cycle /\ k.step = s /\ k.recovering = j.recovering
      BY <2>3, <3>2 DEF Proc
    <3>5. StepNo(k) > StepNo(j)
      BY <3>3, <3>4 DEF StepNo
    <3>6. RecoveryOK(k)
      BY <2>3, <3>3, <3>4 DEF RecoveryOK
    <3> QED
      BY <2>1, <2>2, <3>3, <3>4, <3>5, <3>6, Onward
  <2>9. CASE Commit(p)
    <3>1. PICK t : /\ t \notin row[p].memories
                   /\ row' = [row EXCEPT ![p].memories = row[p].memories \cup {t}]
                   /\ Go(p, "think") \/ UNCHANGED proc
      BY <2>9 DEF Commit
    <3>2. j.step = "commit"
      BY <2>2, <2>9 DEF Commit, At
    <3>3. CASE Go(p, "think")
      BY <2>1, <2>2, <3>2, <3>3, OnlyStep
    <3>4. CASE UNCHANGED proc
      <4>1. row'[p].memories = row[p].memories \cup {t}
        BY <2>1, <3>1, Current DEF RunInv, TypeOK, Row
      <4>2. /\ row[p].memories \subseteq row'[p].memories
            /\ row'[p].memories # row[p].memories
        BY <3>1, <4>1
      <4> QED
        BY <2>2, <2>3, <3>2, <3>4, <4>2 DEF Moves, GoesOn
    <3> QED
      BY <3>1, <3>3, <3>4
  <2>10. CASE SidecarFails(p)
    BY <2>1, <2>10, OnlyStep DEF SidecarFails, At
  <2>11. CASE Think(p)
    <3>1. PICK tool \in Plans(p), s \in {"audit", "judge", "result"} :
            proc' = [proc EXCEPT ![p].tool = tool, ![p].step = s,
                                 ![p].status = "error"]
      BY <2>11 DEF Think
    <3>2. PICK k : k = [j EXCEPT !.tool = tool, !.step = s, !.status = "error"]
      OBVIOUS
    <3>3. proc' = [proc EXCEPT ![p] = k] /\ j.step = "think"
      BY <2>2, <2>11, <3>1, <3>2 DEF Think, At
    <3>4. k.cycle = j.cycle /\ k.step = s /\ k.recovering = j.recovering
      BY <2>3, <3>2 DEF Proc
    <3>5. ~k.recovering
      BY <2>3, <3>3, <3>4 DEF RecoveryOK
    <3>6. StepNo(k) > StepNo(j)
      BY <3>3, <3>4, <3>5 DEF StepNo, Turn
    <3>7. RecoveryOK(k)
      BY <3>5 DEF RecoveryOK
    <3> QED
      BY <2>1, <2>2, <3>3, <3>4, <3>6, <3>7, Onward
  <2>12. ASSUME NEW s \in {"execute", "request", "audit", "result"}, NEW status,
                proc' = [proc EXCEPT ![p].step = s, ![p].status = status],
                \/ j.step = "judge"
                \/ j.step \in {"execute", "request"} /\ s = "result"
         PROVE  Moves(p)
    <3>1. PICK k : k = [j EXCEPT !.step = s, !.status = status]
      OBVIOUS
    <3>2. proc' = [proc EXCEPT ![p] = k]
      BY <2>2, <2>12, <3>1
    <3>3. /\ k.cycle = j.cycle /\ k.step = s /\ k.recovering = j.recovering
          /\ k.tool = j.tool
      BY <2>3, <3>1 DEF Proc
    <3>4. Turn(k) = Turn(j)
      BY <3>3 DEF Turn
    <3>5. StepNo(k) > StepNo(j)
      BY <2>3, <2>12, <3>3, <3>4 DEF StepNo
    <3>6. RecoveryOK(k)
      BY <2>3, <2>12, <3>3 DEF RecoveryOK
    <3> QED
      BY <2>1, <2>2, <3>2, <3>3, <3>5, <3>6, Onward
  <2>13. CASE Judge(p)
    <3>1. PICK s \in {"execute", "request", "audit", "result"} :
            proc' = [proc EXCEPT ![p].step = s, ![p].status = "blocked"]
      BY <2>13 DEF Judge
    <3> QED
      BY <2>2, <2>12, <2>13, <3>1 DEF Judge, At
  <2>14. CASE Execute(p)
    <3>1. PICK status :
            proc' = [proc EXCEPT ![p].step = "result", ![p].status = status]
      BY <2>14 DEF Execute
    <3> QED
      BY <2>2, <2>12, <2>14, <3>1 DEF Execute, At
  <2>15. CASE Request(p)
    BY <2>2, <2>12, <2>15 DEF Request, At
  <2>16. CASE Result(p)
    <3>1. j.step = "result"
      BY <2>2, <2>16 DEF Result, At
    <3>2. CASE Go(p, "audit")
      BY <2>1, <2>2, <3>1, <3>2, OnlyStep
    <3>3. ASSUME NEW k, proc' = [proc EXCEPT ![p] = k], k.cycle = j.cycle,
                 k.step = "judge", k.recovering = TRUE,
                 \/ ~j.recovering /\ k.tool = "query_leases"
                 \/ /\ j.recovering /\ j.tool = "query_leases"
                    /\ k.tool = "rollback_app"
          PROVE  Moves(p)
      <4>1. StepNo(k) > StepNo(j)
        BY <3>1, <3>3 DEF StepNo, Turn
      <4>2. RecoveryOK(k)
        BY <3>3 DEF RecoveryOK
      <4> QED
        BY <2>1, <2>2, <3>3, <4>1, <4>2, Onward
    <3>4. CASE /\ j.tool = "activation_health_guard"
               /\ proc' = [proc EXCEPT ![p].step = "judge",
                             ![p].tool = "query_leases", ![p].recovering = TRUE]
      <4>1. PICK k : k = [j EXCEPT !.step = "judge", !.tool = "query_leases",
                                   !.recovering = TRUE]
        OBVIOUS
      <4>2. proc' = [proc EXCEPT ![p] = k]
        BY <2>2, <3>4, <4>1
      <4>3. /\ k.cycle = j.cycle /\ k.step = "judge" /\ k.recovering = TRUE
            /\ k.tool = "query_leases"
        BY <2>3, <4>1 DEF Proc
      <4>4. ~j.recovering
        BY <2>3, <3>1, <3>4 DEF RecoveryOK
      <4> QED
        BY <3>3, <4>2, <4>3, <4>4
    <3>5. CASE /\ j.recovering /\ j.tool = "query_leases"
               /\ proc' = [proc EXCEPT ![p].step = "judge",
                                       ![p].tool = "rollback_app"]
      <4>1. PICK k : k = [j EXCEPT !.step = "judge", !.tool = "rollback_app"]
        OBVIOUS
      <4>2. proc' = [proc EXCEPT ![p] = k]
        BY <2>2, <3>5, <4>1
      <4>3. /\ k.cycle = j.cycle /\ k.step = "judge"
            /\ k.recovering = j.recovering /\ k.tool = "rollback_app"
        BY <2>3, <4>1 DEF Proc
      <4>4. k.recovering = TRUE
        BY <2>3, <3>5, <4>3 DEF Proc
      <4> QED
        BY <3>3, <3>5, <4>2, <4>3, <4>4
    <3> QED
      BY <2>2, <2>16, <3>2, <3>4, <3>5 DEF Result
  <2>17. CASE Audit(p)
    BY <2>1, <2>17, OnlyStep DEF Audit, At
  <2>18. CASE Close(p)
    <3>1. PICK n : n = j.stored + Cardinality(j.batch)
      OBVIOUS
    <3>2. PICK m : m = [j EXCEPT !.stored = n]
      OBVIOUS
    <3>3. /\ proc' = [proc EXCEPT ![p] = AfterCycle(m)] /\ j.step = "close"
      BY <2>2, <2>18, <3>1, <3>2 DEF Close, At
    <3>4. n \in Nat
      <4>1. IsFiniteSet(j.batch) /\ j.stored \in Nat
        BY <2>3, KnownFinite, FS_Subset DEF Proc
      <4> QED
        BY <3>1, <4>1, FS_CardinalityType
    <3>5. m \in Proc /\ m.cycle = j.cycle
      BY <2>3, <3>2, <3>4 DEF Proc
    <3> QED
      BY <2>1, <2>2, <3>3, <3>5, CycleMoves
  <2> QED
    BY <1>2, <2>4, <2>5, <2>6, <2>7, <2>8, <2>9, <2>10, <2>11, <2>13, <2>14,
       <2>15, <2>16, <2>17, <2>18 DEF Step, Ending
<1> QED
  BY <1>1, <1>2

\* A step of a process, or of another one, keeps the order of recoveries and
\* moves a process only forward.
LEMMA ProcessesMove ==
    ASSUME RunInv, RecoveryInv, [Next]_vars
    PROVE  /\ RecoveryInv'
           /\ \A p \in Procs : Step(p) => GoesOn(p)
           /\ \A p \in Live : GoesOn(p) \/ proc'[p] = proc[p]
<1>1. \A p \in Procs : Step(p) => GoesOn(p)
  BY StepMoves DEF Moves
<1>2. ASSUME NEW p \in Procs, Moves(p)
      PROVE  /\ RecoveryInv'
             /\ \A q \in Live : GoesOn(q) \/ proc'[q] = proc[q]
  <2>1. \A q \in Procs \ {p} : proc'[q] = proc[q]
    BY <1>2 DEF Moves
  <2>2. ASSUME NEW q \in Live' PROVE RecoveryOK(proc'[q])
    <3>1. q \in Procs /\ proc'[q] \notin {Idle, Done}
      BY <2>2 DEF Live
    <3>2. CASE q = p
      BY <1>2, <3>1, <3>2 DEF Moves
    <3>3. CASE q # p
      BY <2>1, <3>1, <3>3 DEF RecoveryInv, Live
    <3> QED
      BY <3>2, <3>3
  <2>3. \A q \in Live : GoesOn(q) \/ proc'[q] = proc[q]
    BY <1>2, <2>1 DEF Moves, Live
  <2> QED
    BY <2>2, <2>3 DEF RecoveryInv
<1>3. ASSUME NEW p \in Procs, Step(p)
      PROVE  /\ RecoveryInv'
             /\ \A q \in Live : GoesOn(q) \/ proc'[q] = proc[q]
  BY <1>2, <1>3, StepMoves
<1>4. ASSUME NEW p \in Procs, Crash(p) \/ Refused(p)
      PROVE  /\ RecoveryInv'
             /\ \A q \in Live : GoesOn(q) \/ proc'[q] = proc[q]
  <2>1. proc'[p] = Done /\ \A q \in Procs \ {p} : proc'[q] = proc[q]
    BY <1>4 DEF Crash, Refused, Ends, RunInv, TypeOK
  <2> QED
    BY <1>2, <2>1 DEF Moves, GoesOn
<1>5. ASSUME NEW p \in Procs, NEW kind, NEW low, Open(p, kind, low)
      PROVE  /\ RecoveryInv'
             /\ \A q \in Live : GoesOn(q) \/ proc'[q] = proc[q]
  <2>1. PICK k : proc' = [proc EXCEPT ![p] = k] /\ k.step = "collect"
    <3>1. PICK seed \in Seed(kind) :
            proc' = [proc EXCEPT ![p] =
               [kind |-> kind, step |-> "collect", cycle |-> 1, seen |-> seed,
                batch |-> {}, todo |-> {}, frame |-> {}, recall |-> {},
                tool |-> "none", status |-> "ok", recovering |-> FALSE,
                stored |-> 0, low |-> low, last |-> 0]]
      BY <1>5 DEF Open
    <3>2. PICK k :
            k = [kind |-> kind, step |-> "collect", cycle |-> 1, seen |-> seed,
                 batch |-> {}, todo |-> {}, frame |-> {}, recall |-> {},
                 tool |-> "none", status |-> "ok", recovering |-> FALSE,
                 stored |-> 0, low |-> low, last |-> 0]
      OBVIOUS
    <3>3. proc' = [proc EXCEPT ![p] = k]
      BY <3>1, <3>2
    <3>4. k.step = "collect"
      BY <3>2
    <3> QED
      BY <3>3, <3>4
  <2>2. proc[p] = Idle /\ proc'[p] = k /\ \A q \in Procs \ {p} : proc'[q] = proc[q]
    BY <1>5, <2>1 DEF Open, RunInv, TypeOK
  <2>3. RecoveryOK(k)
    BY <2>1 DEF RecoveryOK
  <2>4. RecoveryInv'
    BY <2>2, <2>3 DEF RecoveryInv, Live
  <2> QED
    BY <2>2, <2>4 DEF Live
<1>6. CASE UNCHANGED vars
  BY <1>1, <1>6 DEF vars, RecoveryInv, Live
<1> QED
  BY <1>1, <1>3, <1>4, <1>5, <1>6 DEF Next

\* A process never goes back: each of its steps ends it, takes it on in its
\* cycles, or stores one of the events or memories of its batch, and no other
\* process moves it.
ProcessesAdvance ==
    [][ /\ \A p \in Procs : Step(p) => GoesOn(p)
        /\ \A p \in Live : GoesOn(p) \/ proc'[p] = proc[p] ]_vars

\* For any number of processes and cycles, and whatever the models answer: a
\* process of run_event_service, the daemon or a replay takes a bounded number
\* of steps, and a health guard leads to one recovery, not to another guard.
\* With processes that keep running this is why every one of them ends.
THEOREM ProcessesAreBounded == Spec => []WithinBounds /\ ProcessesAdvance
<1>1. Init => RecoveryInv
  BY DEF Init, RecoveryInv, Live
<1>2. RunInv /\ RecoveryInv /\ [Next]_vars =>
         /\ RecoveryInv'
         /\ \A p \in Procs : Step(p) => GoesOn(p)
         /\ \A p \in Live : GoesOn(p) \/ proc'[p] = proc[p]
  BY ProcessesMove
<1> QED
  BY <1>1, <1>2, BoundsHold, RunsAreInOrder, PTL DEF Spec, ProcessesAdvance
=============================================================================
