----------------------------- MODULE LeaseTable -----------------------------
(***************************************************************************)
(* What the lease manager promises its clients, without slots, searches or *)
(* prunes: a set of leases and a clock.  A request may first drop leases   *)
(* that have expired; then it changes at most one lease, and a running     *)
(* lease is replaced only by its own holder or by a higher priority.       *)
(***************************************************************************)
EXTENDS Integers

VARIABLES leases, clock

tableVars == <<leases, clock>>

Expired == {l \in leases : l.expires_at_ms <= clock}

Init == leases = {} /\ clock = 0

\* kept: the leases left once the request has dropped the expired ones in D.
Grant(kept, l) ==
    /\ \A o \in kept : o.resource # l.resource
    /\ leases' = kept \cup {l}

Replace(kept, o, l) ==
    /\ o.resource = l.resource
    /\ \/ o.holder = l.holder /\ o.lease_id = l.lease_id
       \/ l.priority > o.priority
    /\ leases' = (kept \ {o}) \cup {l}

Serve(D) ==
    LET kept == leases \ D
    IN  \/ leases' = kept
        \/ \E o \in kept : leases' = kept \ {o}
        \/ \E l \in leases' : Grant(kept, l)
        \/ \E o \in kept, l \in leases' : Replace(kept, o, l)

Request == clock' = clock /\ \E D \in SUBSET Expired : Serve(D)

Advance == clock' = clock + 1 /\ leases' = leases

Restart == leases' = {} /\ clock' = 0

Next == Request \/ Advance \/ Restart

Spec == Init /\ [][Next]_tableVars
=============================================================================
