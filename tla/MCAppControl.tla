---------------------------- MODULE MCAppControl ----------------------------
\* Instances of the remote control of applications for model checking.
EXTENDS AppControl, TLC

\* Room for every application, and room for one to run.
Roomy == [max_loaded_apps |-> 2, max_running_apps |-> 2,
          allow_preemptive_suspend |-> TRUE]
Tight == [max_loaded_apps |-> 2, max_running_apps |-> 1,
          allow_preemptive_suspend |-> TRUE]

MCSymbols == {0}
NoPolicies == {}
MCBoots == {Roomy, Tight}
=============================================================================
