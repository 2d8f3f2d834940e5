------------------------------ MODULE MCDeploy ------------------------------
(* Deploy for TLC: an activation, and a command of another agent.          *)
EXTENDS Deploy
CONSTANTS p1, a1, a2
MCAgentOf == [p \in Procs |-> IF p = p1 THEN a1 ELSE a2]
MCMayRun == [p \in Procs |-> IF p = p1 THEN {"activate"}
                               ELSE {"prepare_verify", "rollback"}]
=============================================================================
