----------------------------- MODULE AtomicSeed -----------------------------
(***************************************************************************)
(* What the seed store promises the update service, without files: a save  *)
(* replaces what the next boot finds at one instant or leaves it, and the  *)
(* service is told which, unless power fails first.  The promise ends with *)
(* a failure the store does not survive.                                   *)
(***************************************************************************)
EXTENDS Naturals

VARIABLES
    up,      \* the boot has loaded the seed
    stored,  \* the snapshot the next boot finds, 0 if none
    told,    \* the snapshot the service was last told is stored
    saving,  \* the snapshot being saved, 0 if none
    lost     \* the promise has ended

atomicVars == <<up, stored, told, saving, lost>>

Init ==
    /\ stored \in Nat /\ told = stored
    /\ up = FALSE /\ saving = 0 /\ lost = FALSE

Begin ==
    /\ up /\ saving = 0
    /\ saving' \in Nat /\ saving' > stored
    /\ UNCHANGED <<up, stored, told, lost>>

\* The one instant; the service is told then or later, or power fails.
Replace ==
    /\ saving # 0
    /\ stored' = saving
    /\ UNCHANGED <<up, told, saving, lost>>

Succeed ==
    /\ saving # 0
    /\ stored' = saving /\ told' = saving /\ saving' = 0
    /\ UNCHANGED <<up, lost>>

\* A save that fails has not replaced anything.
Fail ==
    /\ saving # 0 /\ stored # saving
    /\ saving' = 0
    /\ UNCHANGED <<up, stored, told, lost>>

PowerFails ==
    /\ up' = FALSE /\ saving' = 0
    /\ UNCHANGED <<stored, told, lost>>

\* A boot finds what is stored.  Before anything was, it may find a first
\* save that nobody was told of.
Boot ==
    /\ ~up /\ up' = TRUE
    /\ stored' \in Nat /\ (stored # 0 => stored' = stored)
    /\ told' = stored'
    /\ UNCHANGED <<saving, lost>>

Next ==
    \/ lost'
    \/ ~lost /\ (Begin \/ Replace \/ Succeed \/ Fail \/ PowerFails \/ Boot)

Spec == Init /\ [][Next]_atomicVars
=============================================================================
