-------------------------- MODULE MCEventService --------------------------
(* A service and a process of any kind, which runs beside it if it is a   *)
(* replay, and two events to send.                                       *)
EXTENDS EventService
CONSTANTS p1, p2
MCMayBe == [p \in Procs |-> IF p = p1 THEN {"service"} ELSE Kinds]
MCMemoryOf == [p \in Procs |-> IF p = p1 THEN "local" ELSE "mem0"]
MCMaxBatch == [k \in Kinds |-> IF k = "daemon" THEN 2 ELSE 1]
MCSources == {[topic |-> "unit.lifecycle.activate_failed", n |-> 1],
              [topic |-> "unit.info", n |-> 2]}
=============================================================================
