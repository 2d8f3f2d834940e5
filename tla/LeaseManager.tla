---------------------------- MODULE LeaseManager ----------------------------
(***************************************************************************)
(* The resource lease table of a Unit: neuro_lease_manager.c and the three *)
(* handlers of neuro_unit.c that drive it, acquire, release and query,     *)
(* with the check that guards every protected request.                     *)
(*                                                                         *)
(* The table is an array of MaxEntries slots, searched from slot 1 up.     *)
(* Nothing in an inactive entry is ever read, so an inactive slot is just  *)
(* Free.  A holder stands for the pair (source_core, source_agent).        *)
(***************************************************************************)
EXTENDS Integers, FiniteSets

CONSTANTS
    MaxEntries,     \* NEURO_LEASE_MANAGER_MAX_ENTRIES
    Resources,      \* resource names a request can carry
    Holders,        \* (source_core, source_agent) pairs
    Priorities,     \* request priorities
    Ttls,           \* ttl_ms after the handler's default is applied
    ClientIds,      \* lease ids that clients choose themselves
    NoId,           \* the empty lease_id
    Free,           \* an inactive slot
    None,           \* no request in progress, no entry reported
    MaxUptime       \* bound on the clock

ASSUME SlotsAssumption == MaxEntries \in Nat \ {0}
ASSUME TimeAssumption == MaxUptime \in Nat /\ Ttls \subseteq Nat \ {0}
ASSUME PriorityAssumption == Priorities \subseteq Int

VARIABLES
    entries,    \* the slots: Free or an active lease
    uptime,     \* k_uptime_get()
    acquiring,  \* an acquire that has read the clock and waits for the lock
    reply       \* what the last handler answered and reported

vars == <<entries, uptime, acquiring, reply>>

Slots == 1 .. MaxEntries
Times == 0 .. MaxUptime

\* ensure_generated_lease_id: an empty id becomes "lease-<now_ms>".  Clients
\* learn a generated id from the reply and send it back like any other.
GeneratedId(t) == <<"lease", t>>
LeaseIds == ClientIds \cup {GeneratedId(t) : t \in Times}
ensure_generated_lease_id(id, t) == IF id = NoId THEN GeneratedId(t) ELSE id

Lease == [lease_id : LeaseIds, resource : Resources, holder : Holders,
          priority : Priorities, expires_at_ms : Nat]

Metadata == [lease_id : LeaseIds \cup {NoId}, holder : Holders,
             priority : Priorities]

\* The handlers' answers, as the codes neuro_lease_manager returns, with the
\* request they answer and the lease an acquire reports as preempted.
Answer == [op : {"acquire", "release", "require"},
           code : {"OK", "EACCES", "EEXIST", "ENOSPC", "ENOENT", "EINVAL",
                   "EPERM"},
           holder : Holders, lease_id : LeaseIds \cup {NoId},
           resource : Resources \cup {None}, preempted : Lease \cup {None}]

\* An acquire between its k_uptime_get and the lock.
Pending == [m : Metadata, resource : Resources, ttl_ms : Ttls, now_ms : Times]

\* An inactive slot is no lease, a missing reply no answer, and the empty id no
\* id a lease carries.
ASSUME MarkersAssumption ==
    Free \notin Lease /\ None \notin Answer /\ NoId \notin LeaseIds

TypeOK ==
    /\ entries \in [Slots -> Lease \cup {Free}]
    /\ uptime \in Times
    /\ acquiring \in Pending \cup {None}
    /\ reply \in Answer \cup {None}

-----------------------------------------------------------------------------
\* The table operations.

Active(es) == {s \in Slots : es[s] # Free}

\* The lowest slot of S, as a set with at most one element.
Lowest(S) == {s \in S : \A t \in S : s <= t}

prune_expired_Mutant(es, t) ==
    [s \in Slots |->
        IF es[s] # Free /\ es[s].expires_at_ms < t THEN Free ELSE es[s]]

prune_expired(es, t) ==
    [s \in Slots |->
        IF es[s] # Free /\ es[s].expires_at_ms <= t THEN Free ELSE es[s]]

find_lease_by_id_Mutant(es, id) ==
    Lowest({s \in Active(es) : s < MaxEntries /\ es[s].lease_id = id})

find_lease_by_id(es, id) ==
    Lowest({s \in Active(es) : es[s].lease_id = id})

find_lease_by_resource_Mutant(es, r) ==
    Lowest({s \in Active(es) : s < MaxEntries /\ es[s].resource = r})

find_lease_by_resource(es, r) ==
    Lowest({s \in Active(es) : es[s].resource = r})

find_free_lease(es) == Lowest(Slots \ Active(es))

\* A request takes over another one's lease only with a higher priority.
Preempts_Mutant(m, lease) == m.priority >= lease.priority
Preempts(m, lease) == m.priority > lease.priority

lease_holder_matches_request(lease, m) == lease.holder = m.holder

NewLease(id, r, m, ttl, t) ==
    [lease_id |-> id, resource |-> r, holder |-> m.holder,
     priority |-> m.priority, expires_at_ms |-> t + ttl]

Reply(o, c, m, r, p) ==
    reply' = [op |-> o, code |-> c, holder |-> m.holder,
              lease_id |-> m.lease_id, resource |-> r, preempted |-> p]

\* neuro_lease_manager_acquire on the table es already pruned at time t.
acquire(es, r, m, ttl, t) ==
    LET id    == ensure_generated_lease_id(m.lease_id, t)
        lease == NewLease(id, r, m, ttl, t)
        Keep(code) == entries' = es /\ Reply("acquire", code, m, r, None)
        Write(s, p) == /\ entries' = [es EXCEPT ![s] = lease]
                       /\ Reply("acquire", "OK", m, r, p)
    IN  \/ \E s \in find_lease_by_resource(es, r) :
             \/ /\ es[s].lease_id = id
                /\ lease_holder_matches_request(es[s], m)
                /\ Write(s, None)
             \/ /\ es[s].lease_id = id
                /\ ~lease_holder_matches_request(es[s], m)
                /\ Keep("EACCES")
             \/ /\ es[s].lease_id # id
                /\ Preempts(m, es[s])
                /\ Write(s, es[s])
             \/ /\ es[s].lease_id # id
                /\ ~Preempts(m, es[s])
                /\ Keep("EEXIST")
        \/ /\ find_lease_by_resource(es, r) = {}
           /\ \/ \E s \in find_free_lease(es) : Write(s, None)
              \/ find_free_lease(es) = {} /\ Keep("ENOSPC")

-----------------------------------------------------------------------------
Init ==
    /\ entries = [s \in Slots |-> Free]
    /\ uptime = 0
    /\ acquiring = None
    /\ reply = None

\* handle_lease_acquire up to its k_uptime_get: the clock is read before
\* g_demo.lock is taken and may have moved on when the lock is granted.
AcquireReadsClock(r, m, ttl) ==
    /\ acquiring = None
    /\ acquiring' = [m |-> m, resource |-> r, ttl_ms |-> ttl, now_ms |-> uptime]
    /\ reply' = None
    /\ UNCHANGED <<entries, uptime>>

\* The rest of handle_lease_acquire: prune and acquire under the lock.
AcquireUnderLock ==
    /\ acquiring # None
    /\ acquire(prune_expired(entries, acquiring.now_ms), acquiring.resource,
               acquiring.m, acquiring.ttl_ms, acquiring.now_ms)
    /\ acquiring' = None
    /\ UNCHANGED uptime

\* handle_lease_release, which reads the clock under the lock.
handle_lease_release(m) ==
    LET es == prune_expired(entries, uptime)
        Done(table, code) ==
            entries' = table /\ Reply("release", code, m, None, None)
    IN  /\ acquiring = None
        /\ \/ m.lease_id = NoId /\ Done(entries, "EINVAL")
           \/ /\ m.lease_id # NoId
              /\ \/ \E s \in find_lease_by_id(es, m.lease_id) :
                      \/ /\ lease_holder_matches_request(es[s], m)
                         /\ Done([es EXCEPT ![s] = Free], "OK")
                      \/ /\ ~lease_holder_matches_request(es[s], m)
                         /\ Done(es, "EACCES")
                 \/ /\ find_lease_by_id(es, m.lease_id) = {}
                    /\ Done(es, "ENOENT")
        /\ UNCHANGED <<uptime, acquiring>>

\* require_resource_lease_or_reply, the check in front of a protected request.
require_resource_lease(r, m) ==
    LET es == prune_expired(entries, uptime)
        Held == {s \in find_lease_by_resource(es, r) :
                    es[s].lease_id = m.lease_id}
    IN  /\ acquiring = None
        /\ \/ Held = {} /\ Reply("require", "EPERM", m, r, None)
           \/ \E s \in Held :
                \/ /\ lease_holder_matches_request(es[s], m)
                   /\ Reply("require", "OK", m, r, None)
                \/ /\ ~lease_holder_matches_request(es[s], m)
                   /\ Reply("require", "EACCES", m, r, None)
        /\ entries' = es
        /\ UNCHANGED <<uptime, acquiring>>

\* handle_query_leases prunes the table before it lists it.
handle_query_leases ==
    /\ acquiring = None
    /\ entries' = prune_expired(entries, uptime)
    /\ reply' = None
    /\ UNCHANGED <<uptime, acquiring>>

\* Time passes, between requests and inside one.
Tick ==
    /\ uptime < MaxUptime
    /\ uptime' = uptime + 1
    /\ reply' = None
    /\ UNCHANGED <<entries, acquiring>>

\* neuro_unit_start after a reset: the table is cleared and the clock starts
\* again from zero; an unanswered request is lost.
Reboot ==
    /\ entries' = [s \in Slots |-> Free]
    /\ uptime' = 0
    /\ acquiring' = None
    /\ reply' = None

Next ==
    \/ \E r \in Resources, m \in Metadata, ttl \in Ttls :
            AcquireReadsClock(r, m, ttl)
    \/ AcquireUnderLock
    \/ \E m \in Metadata : handle_lease_release(m)
    \/ \E r \in Resources, m \in Metadata : require_resource_lease(r, m)
    \/ handle_query_leases
    \/ Tick
    \/ Reboot

Spec == Init /\ [][Next]_vars

-----------------------------------------------------------------------------
\* Properties.

\* However requests, renewals, preemptions and expiries follow each other, no
\* resource is ever covered by two active slots: the lookup by resource that
\* every check relies on is unambiguous.
OneLeasePerResource ==
    \A s, t \in Active(entries) :
        entries[s].resource = entries[t].resource => s = t

\* A holder whose lease has not expired loses it only to its own release, to
\* a request of strictly higher priority, which is reported as its preemption,
\* or to a reset.  The stale clock of an acquire never takes a lease early.
LosesOnlyByRelease(l) ==
    /\ reply' # None
    /\ reply'.op = "release" /\ reply'.code = "OK"
    /\ reply'.holder = l.holder /\ reply'.lease_id = l.lease_id

LosesOnlyByPreemption(l) ==
    /\ reply' # None
    /\ reply'.op = "acquire" /\ reply'.preempted = l
    /\ \E t \in Active(entries') :
          /\ entries'[t].resource = l.resource
          /\ entries'[t].priority > l.priority

StillHeld(l) ==
    \E t \in Active(entries') :
        /\ entries'[t].resource = l.resource
        /\ entries'[t].holder = l.holder
        /\ entries'[t].lease_id = l.lease_id

HeldUntilExpiry ==
    [][\A s \in Active(entries) :
          entries[s].expires_at_ms > uptime =>
             \/ StillHeld(entries[s])
             \/ LosesOnlyByRelease(entries[s])
             \/ LosesOnlyByPreemption(entries[s])
             \/ Reboot]_vars

\* A request passes the lease check only if the latest grant of the resource
\* went to this very holder and has not expired on the clock: nobody else's
\* unexpired lease covers the resource.
AuthorisedIsExclusive ==
    (reply # None /\ reply.op = "require" /\ reply.code = "OK") =>
        /\ \E s \in Active(entries) :
              /\ entries[s].resource = reply.resource
              /\ entries[s].holder = reply.holder
              /\ entries[s].expires_at_ms > uptime
        /\ \A s \in Active(entries) :
              entries[s].resource = reply.resource =>
                  entries[s].holder = reply.holder

\* The lease manager implements the abstract lease table, whose leases are
\* those of the active slots: each request replaces, adds or drops at most one
\* lease besides the expired ones, and displaces a running one only for its
\* holder or a higher priority.
HeldLeases == {entries[s] : s \in Active(entries)}
Table == INSTANCE LeaseTable WITH leases <- HeldLeases, clock <- uptime
ImplementsLeaseTable == Table!Spec

\* "lease table full" is answered only when every slot is taken by a lease of
\* another resource that was still running when the request read the clock:
\* expired leases never use up the table.
FullOnlyWhenAllRunning ==
    [][(reply' # None /\ reply'.code = "ENOSPC") =>
          /\ Active(entries) = Slots
          /\ \A s \in Slots :
                /\ entries[s].expires_at_ms > acquiring.now_ms
                /\ entries[s].resource # reply'.resource]_vars

\* The holder of an unexpired lease releases it, unless another lease carries
\* the same id: generated ids are the millisecond of the acquire and clients
\* choose theirs freely, so an id need not be unique, and the search by id stops
\* at the first.  Only then is a rightful holder refused.
HolderCanRelease ==
    [][\A s \in Active(entries) :
          ( /\ reply' # None /\ reply'.op = "release"
            /\ reply'.holder = entries[s].holder
            /\ reply'.lease_id = entries[s].lease_id
            /\ entries[s].expires_at_ms > uptime )
          => \/ reply'.code = "OK"
             \/ \E t \in Active(entries) \ {s} :
                   entries[t].lease_id = entries[s].lease_id]_vars
=============================================================================
