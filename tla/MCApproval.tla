----------------------------- MODULE MCApproval -----------------------------
\* Instances of approval-gated tools for model checking.
EXTENDS Approval, TLC

Restart == [level |-> "approval_required", approval_required |-> TRUE,
            resource |-> "app_control", commands |-> 2]
Rollback == [level |-> "approval_required", approval_required |-> TRUE,
             resource |-> "update_rollback", commands |-> 1]
Query == [level |-> "read_only", approval_required |-> FALSE,
          resource |-> "app_control", commands |-> 1]

MCContracts == {Restart, Rollback, Query}
Symmetry == Permutations(Operators) \cup Permutations(LeaseIds)
=============================================================================
