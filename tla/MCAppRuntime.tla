---------------------------- MODULE MCAppRuntime ----------------------------
\* Instances of the application runtime for model checking.
EXTENDS AppRuntime, TLC

\* Priorities below, inside and above the range a record can hold, so that
\* two artifacts may tie after the clamp.
MCSymbols == {-1, 300}

MCPolicies ==
    {[max_loaded_apps |-> l, max_running_apps |-> r,
      allow_preemptive_suspend |-> p] :
        l \in {2, 3}, r \in {1, 2}, p \in BOOLEAN}

Symmetry == Permutations(Apps)
=============================================================================
