------------------------ MODULE LeaseManager_proofs -------------------------
(***************************************************************************)
(* Theorems about the lease table for every table size, every set of       *)
(* resources, holders and lease ids, and every clock bound.                *)
(***************************************************************************)
EXTENDS LeaseManager, WellFoundedInduction, TLAPS

\* Free is no lease, None no request, reply or lease, and NoId no lease id:
\* in the code an inactive flag, a null result and an empty string.
LEMMA LeaseIdsOfRequests ==
    ASSUME NEW t \in Times, NEW id \in LeaseIds \cup {NoId}
    PROVE  ensure_generated_lease_id(id, t) \in LeaseIds
BY DEF ensure_generated_lease_id, LeaseIds

\* A new lease is a lease.
LEMMA NewLeaseType ==
    ASSUME NEW t \in Times, NEW m \in Metadata, NEW r \in Resources,
           NEW ttl \in Ttls
    PROVE  NewLease(ensure_generated_lease_id(m.lease_id, t), r, m, ttl, t)
              \in Lease
<1>1. ensure_generated_lease_id(m.lease_id, t) \in LeaseIds
  BY LeaseIdsOfRequests DEF Metadata
<1>2. t + ttl \in Nat
  BY TimeAssumption DEF Times
<1> QED
  BY <1>1, <1>2 DEF NewLease, Lease, Metadata

\* Pruning frees slots and changes no lease that it keeps.
LEMMA PruneFacts ==
    ASSUME NEW es \in [Slots -> Lease \cup {Free}], NEW t \in Times
    PROVE  /\ prune_expired(es, t) \in [Slots -> Lease \cup {Free}]
           /\ \A s \in Slots : \/ prune_expired(es, t)[s] = es[s]
                               \/ prune_expired(es, t)[s] = Free
BY DEF prune_expired

\* At most one active slot per resource, for any table.
Unique(es) ==
    \A s, u \in Active(es) : es[s].resource = es[u].resource => s = u

\* Pruning and freeing a slot keep a table unambiguous.
LEMMA FreeingKeepsUnique ==
    ASSUME NEW es \in [Slots -> Lease \cup {Free}],
           NEW fs \in [Slots -> Lease \cup {Free}],
           \A s \in Slots : fs[s] = es[s] \/ fs[s] = Free,
           Unique(es)
    PROVE  Unique(fs)
BY DEF Unique, Active

\* A non-empty set of slots has a lowest one, so the searches of the code,
\* which stop at the first match, find a slot whenever there is one.
LEMMA LowestExists ==
    ASSUME NEW S \in SUBSET Slots, S # {}
    PROVE  Lowest(S) # {}
<1>1. S \subseteq Nat
  BY SlotsAssumption DEF Slots
<1> DEFINE R == {p \in Nat \X Nat : p[1] < p[2]}
<1>2. IsWellFoundedOn(R, Nat)
  BY NatLessThanWellFounded, Zenon DEF OpToRel
<1> HIDE DEF R
<1>3. PICK x \in S : \A y \in S : ~(<<y, x>> \in R)
  BY <1>1, <1>2, WFMin
<1>4. ASSUME NEW y \in S, y < x
      PROVE  <<y, x>> \in R
  BY <1>1, <1>4 DEF R
<1>5. \A y \in S : ~(y < x)
  BY <1>3, <1>4
<1>6. \A y \in S : x \in Nat /\ y \in Nat
  BY <1>1
<1>7. \A y \in S : x <= y
  BY <1>5, <1>6
<1> QED
  BY <1>7 DEF Lowest

\* If the lookup by resource finds nothing, no active slot has the resource.
LEMMA NotFoundMeansAbsent ==
    ASSUME NEW es, NEW r, find_lease_by_resource(es, r) = {}
    PROVE  \A s \in Active(es) : es[s].resource # r
<1> DEFINE S == {s \in Active(es) : es[s].resource = r}
<1>1. S \in SUBSET Slots
  BY DEF Active
<1>2. S = {}
  BY <1>1, LowestExists DEF find_lease_by_resource
<1> QED
  BY <1>2

\* Writing a lease into the slot that holds its resource, or into any slot
\* when none does, keeps a table unambiguous.
LEMMA WriteKeepsUnique ==
    ASSUME NEW es \in [Slots -> Lease \cup {Free}], Unique(es),
           NEW s \in Slots, NEW lease \in Lease,
           \A u \in Active(es) : es[u].resource = lease.resource => u = s
    PROVE  Unique([es EXCEPT ![s] = lease])
BY DEF Unique, Active

-----------------------------------------------------------------------------
Inv == TypeOK /\ Unique(entries)

\* What one acquire does to the table, case by case.
LEMMA AcquireStep ==
    ASSUME Inv, AcquireUnderLock
    PROVE  Inv'
<1> DEFINE m   == acquiring.m
           r   == acquiring.resource
           ttl == acquiring.ttl_ms
           t   == acquiring.now_ms
           es  == prune_expired(entries, t)
           id  == ensure_generated_lease_id(m.lease_id, t)
           lease == NewLease(id, r, m, ttl, t)
<1>1. acquiring \in Pending
  BY DEF Inv, TypeOK, AcquireUnderLock
<1>2. /\ m \in Metadata /\ r \in Resources /\ ttl \in Ttls /\ t \in Times
  BY <1>1 DEF Pending
<1>3. es \in [Slots -> Lease \cup {Free}] /\ Unique(es)
  BY <1>2, PruneFacts, FreeingKeepsUnique DEF Inv, TypeOK
<1>4. lease \in Lease /\ lease.resource = r
  BY <1>2, NewLeaseType DEF NewLease
<1>5. uptime' \in Times /\ acquiring' \in Pending \cup {None}
  BY DEF Inv, TypeOK, AcquireUnderLock
<1>6. acquire(es, r, m, ttl, t)
  BY DEF AcquireUnderLock
<1> HIDE DEF es, lease, m, r, ttl, t, id
<1>7. reply' \in Answer
  <2>1. ASSUME NEW c \in {"OK", "EACCES", "EEXIST", "ENOSPC"},
               NEW p \in Lease \cup {None}, Reply("acquire", c, m, r, p)
        PROVE  reply' \in Answer
    BY <1>2, <2>1 DEF Reply, Answer, Metadata
  <2>2. \A s \in find_lease_by_resource(es, r) : es[s] \in Lease
    BY <1>3 DEF find_lease_by_resource, Lowest, Active
  <2> QED
    BY <1>6, <2>1, <2>2 DEF acquire
<1>8. CASE entries' = es
  BY <1>3, <1>5, <1>7, <1>8 DEF Inv, TypeOK
<1>9. CASE \E s \in Slots :
              /\ entries' = [es EXCEPT ![s] = lease]
              /\ \A u \in Active(es) : es[u].resource = r => u = s
  BY <1>3, <1>4, <1>5, <1>7, <1>9, WriteKeepsUnique DEF Inv, TypeOK
<1>10. (\E s \in find_lease_by_resource(es, r) :
            entries' = [es EXCEPT ![s] = lease])
        => \E s \in Slots :
              /\ entries' = [es EXCEPT ![s] = lease]
              /\ \A u \in Active(es) : es[u].resource = r => u = s
  BY <1>3 DEF find_lease_by_resource, Lowest, Active, Unique
<1>11. ( /\ find_lease_by_resource(es, r) = {}
         /\ \E s \in find_free_lease(es) : entries' = [es EXCEPT ![s] = lease] )
        => \E s \in Slots :
              /\ entries' = [es EXCEPT ![s] = lease]
              /\ \A u \in Active(es) : es[u].resource = r => u = s
  BY NotFoundMeansAbsent DEF find_free_lease, Lowest
<1> QED
  BY <1>6, <1>8, <1>9, <1>10, <1>11 DEF acquire, lease, id

\* Every other action keeps the invariant: it frees slots or touches none.
LEMMA ReleaseStep ==
    ASSUME Inv, NEW m \in Metadata, handle_lease_release(m)
    PROVE  Inv'
<1> DEFINE es == prune_expired(entries, uptime)
<1>1. /\ es \in [Slots -> Lease \cup {Free}] /\ Unique(es)
      /\ entries \in [Slots -> Lease \cup {Free}]
  BY PruneFacts, FreeingKeepsUnique DEF Inv, TypeOK
<1> HIDE DEF es
<1>2. reply' \in Answer
  BY DEF handle_lease_release, Reply, Answer, Metadata
<1>3. /\ entries' \in [Slots -> Lease \cup {Free}]
      /\ Unique(entries')
  <2>1. ASSUME NEW s \in Slots
        PROVE  /\ [es EXCEPT ![s] = Free] \in [Slots -> Lease \cup {Free}]
               /\ Unique([es EXCEPT ![s] = Free])
    BY <1>1 DEF Unique, Active
  <2>2. \/ entries' = entries
        \/ entries' = es
        \/ \E s \in Slots : entries' = [es EXCEPT ![s] = Free]
    BY DEF handle_lease_release, find_lease_by_id, Lowest, Active, es
  <2> QED
    BY <1>1, <2>1, <2>2 DEF Inv
<1> QED
  BY <1>2, <1>3 DEF Inv, TypeOK, handle_lease_release

LEMMA RequireStep ==
    ASSUME Inv, NEW r \in Resources, NEW m \in Metadata,
           require_resource_lease(r, m)
    PROVE  Inv'
<1>1. /\ entries' = prune_expired(entries, uptime)
      /\ UNCHANGED <<uptime, acquiring>>
  BY DEF require_resource_lease
<1>2. reply' \in Answer
  BY DEF require_resource_lease, Reply, Answer, Metadata
<1> QED
  BY <1>1, <1>2, PruneFacts, FreeingKeepsUnique DEF Inv, TypeOK

LEMMA InitInv == Init => Inv
<1> SUFFICES ASSUME Init PROVE Inv
  OBVIOUS
<1>1. 0 \in Times
  BY TimeAssumption DEF Times
<1> QED
  BY <1>1 DEF Init, Inv, TypeOK, Unique, Active

LEMMA NextInv == Inv /\ [Next]_vars => Inv'
<1> SUFFICES ASSUME Inv, [Next]_vars PROVE Inv'
  OBVIOUS
<1>1. ASSUME NEW r \in Resources, NEW m \in Metadata, NEW ttl \in Ttls,
             AcquireReadsClock(r, m, ttl)
      PROVE  Inv'
  BY <1>1 DEF Inv, TypeOK, AcquireReadsClock, Pending, Unique, Active
<1>2. CASE AcquireUnderLock
  BY <1>2, AcquireStep
<1>3. ASSUME NEW m \in Metadata, handle_lease_release(m) PROVE Inv'
  BY <1>3, ReleaseStep
<1>4. ASSUME NEW r \in Resources, NEW m \in Metadata,
             require_resource_lease(r, m)
      PROVE  Inv'
  BY <1>4, RequireStep
<1>5. CASE handle_query_leases
  BY <1>5, PruneFacts, FreeingKeepsUnique DEF handle_query_leases, Inv, TypeOK
<1>6. CASE Tick
  <2>1. uptime + 1 \in Times
    BY <1>6, TimeAssumption DEF Tick, Inv, TypeOK, Times
  <2> QED
    BY <1>6, <2>1 DEF Tick, Inv, TypeOK, Unique, Active
<1>7. CASE Reboot
  BY <1>7, TimeAssumption DEF Reboot, Inv, TypeOK, Unique, Active, Times
<1>8. CASE UNCHANGED vars
  BY <1>8 DEF vars, Inv, TypeOK, Unique, Active
<1> QED
  BY <1>1, <1>2, <1>3, <1>4, <1>5, <1>6, <1>7, <1>8 DEF Next

\* In every behaviour of the lease manager the table is well typed: whatever
\* requests, ticks and resets happen, a slot is free or a complete lease.
THEOREM TypeCorrect == Spec => []TypeOK
<1>1. Inv => TypeOK
  BY DEF Inv
<1> QED
  BY <1>1, InitInv, NextInv, PTL DEF Spec

\* No resource is ever held by two slots, so find_lease_by_resource, which
\* stops at the first match, never hides a second holder.
THEOREM LeasesAreExclusive == Spec => []OneLeasePerResource
<1>1. Inv => OneLeasePerResource
  BY DEF Inv, Unique, OneLeasePerResource
<1> QED
  BY <1>1, InitInv, NextInv, PTL DEF Spec

\* A step answers OK to a lease check only from the pruned table, where the one
\* slot of the resource belongs to the caller; no other step leaves the answer
\* standing while the table or the clock changes.
LEMMA AuthorisedStep ==
    ASSUME Inv, AuthorisedIsExclusive, [Next]_vars
    PROVE  AuthorisedIsExclusive'
<1>1. ASSUME NEW r \in Resources, NEW m \in Metadata,
             require_resource_lease(r, m),
             reply'.code = "OK"
      PROVE  AuthorisedIsExclusive'
  <2> DEFINE es == prune_expired(entries, uptime)
  <2>1. /\ entries' = es /\ uptime' = uptime
        /\ es \in [Slots -> Lease \cup {Free}] /\ Unique(es)
    BY <1>1, PruneFacts, FreeingKeepsUnique DEF require_resource_lease, Inv, TypeOK
  <2>2. PICK s \in find_lease_by_resource(es, r) :
               /\ lease_holder_matches_request(es[s], m)
               /\ Reply("require", "OK", m, r, None)
    BY <1>1 DEF require_resource_lease, Reply
  <2>3. reply'.resource = r /\ reply'.holder = m.holder
    BY <2>2 DEF Reply
  <2>4. s \in Active(es) /\ es[s].resource = r /\ es[s].holder = m.holder
    BY <2>2 DEF find_lease_by_resource, Lowest, lease_holder_matches_request
  <2>5. es[s].expires_at_ms > uptime
    <3>1. s \in Slots /\ es[s] # Free
      BY <2>4 DEF Active
    <3>2. es[s] = entries[s] /\ ~(entries[s].expires_at_ms <= uptime)
      BY <3>1 DEF prune_expired
    <3>3. es[s].expires_at_ms \in Nat /\ uptime \in Nat
      BY <2>1, <3>1, TimeAssumption DEF Lease, Inv, TypeOK, Times
    <3> QED
      BY <3>2, <3>3
  <2>6. \A u \in Active(es) : es[u].resource = r => es[u].holder = m.holder
    BY <2>1, <2>4 DEF Unique
  <2> QED
    BY <2>1, <2>3, <2>4, <2>5, <2>6 DEF AuthorisedIsExclusive
<1>2. ASSUME reply' = None \/ reply'.op # "require" \/ reply'.code # "OK"
      PROVE  AuthorisedIsExclusive'
  BY <1>2 DEF AuthorisedIsExclusive
<1>3. CASE AcquireUnderLock
  <2>1. reply'.op = "acquire"
    BY <1>3 DEF AcquireUnderLock, acquire, Reply
  <2> QED
    BY <1>2, <2>1
<1>4. ASSUME NEW m \in Metadata, handle_lease_release(m)
      PROVE  AuthorisedIsExclusive'
  <2>1. reply'.op = "release"
    BY <1>4 DEF handle_lease_release, Reply
  <2> QED
    BY <1>2, <2>1
<1>5. CASE UNCHANGED vars
  BY <1>5 DEF vars, AuthorisedIsExclusive, Active
<1>6. CASE reply' = None
  BY <1>2, <1>6
<1> QED
  BY <1>1, <1>2, <1>3, <1>4, <1>5, <1>6
     DEF Next, AcquireReadsClock, handle_query_leases, Tick, Reboot

\* A protected request that passes require_resource_lease_or_reply is the
\* unexpired holder's, and no other holder has a lease on the resource.
THEOREM AuthorisedRequestsAreExclusive == Spec => []AuthorisedIsExclusive
<1>1. Init => Inv /\ AuthorisedIsExclusive
  BY InitInv DEF Init, AuthorisedIsExclusive
<1>2. Inv /\ AuthorisedIsExclusive /\ [Next]_vars
        => (Inv /\ AuthorisedIsExclusive)'
  BY NextInv, AuthorisedStep
<1> QED
  BY <1>1, <1>2, PTL DEF Spec

-----------------------------------------------------------------------------
\* An acquire in progress has read a clock that has not run ahead since: the
\* table it prunes is pruned at a time that has passed.
ClockOK == acquiring # None => acquiring.now_ms <= uptime

FullInv == Inv /\ ClockOK

\* Only a reset sets the clock back, and it drops the acquire as well.
LEMMA NextFullInv == FullInv /\ [Next]_vars => FullInv'
<1> SUFFICES ASSUME FullInv, [Next]_vars PROVE ClockOK'
  BY NextInv DEF FullInv
<1>1. uptime \in Nat
  BY TimeAssumption DEF FullInv, Inv, TypeOK, Times
<1>2. acquiring # None => acquiring.now_ms \in Nat
  BY TimeAssumption DEF FullInv, Inv, TypeOK, Pending, Times
<1>3. ASSUME NEW r \in Resources, NEW m \in Metadata, NEW ttl \in Ttls,
             AcquireReadsClock(r, m, ttl)
      PROVE  ClockOK'
  BY <1>1, <1>3 DEF AcquireReadsClock, ClockOK
<1>4. CASE Tick
  BY <1>1, <1>2, <1>4 DEF Tick, ClockOK, FullInv
<1>5. CASE UNCHANGED <<uptime, acquiring>>
  BY <1>5 DEF ClockOK, FullInv
<1>6. CASE acquiring' = None
  BY <1>6 DEF ClockOK
<1> QED
  BY <1>3, <1>4, <1>5, <1>6 DEF Next, vars, AcquireUnderLock,
     handle_lease_release, require_resource_lease, handle_query_leases, Reboot

\* The invariant with the clock holds throughout.
LEMMA FullInvariance == Spec => []FullInv
<1>1. Init => FullInv
  BY InitInv DEF Init, FullInv, ClockOK
<1> QED
  BY <1>1, NextFullInv, PTL DEF Spec

\* What an acquire does to the pruned table: it keeps it, renews the caller's
\* own lease, takes over one of a lower priority, or fills a free slot; it says
\* that the table is full only when it is.
LEMMA AcquireCases ==
    ASSUME FullInv, AcquireUnderLock
    PROVE  \E es \in [Slots -> Lease \cup {Free}], lease \in Lease, t \in Times :
              /\ t = acquiring.now_ms /\ t <= uptime
              /\ es = prune_expired(entries, t)
              /\ reply' # None /\ reply'.op = "acquire"
              /\ reply'.resource = lease.resource
              /\ \/ entries' = es /\ reply'.code # "ENOSPC"
                 \/ /\ entries' = es
                    /\ find_free_lease(es) = {}
                    /\ find_lease_by_resource(es, lease.resource) = {}
                 \/ \E s \in find_lease_by_resource(es, lease.resource) :
                       /\ entries' = [es EXCEPT ![s] = lease]
                       /\ \/ /\ es[s].lease_id = lease.lease_id
                             /\ es[s].holder = lease.holder
                          \/ /\ lease.priority > es[s].priority
                             /\ reply'.preempted = es[s]
                       /\ reply'.code = "OK"
                 \/ \E s \in find_free_lease(es) :
                       /\ find_lease_by_resource(es, lease.resource) = {}
                       /\ entries' = [es EXCEPT ![s] = lease]
                       /\ reply'.code = "OK"
<1> DEFINE m   == acquiring.m
           r   == acquiring.resource
           ttl == acquiring.ttl_ms
           t   == acquiring.now_ms
           es  == prune_expired(entries, t)
           id  == ensure_generated_lease_id(m.lease_id, t)
           lease == NewLease(id, r, m, ttl, t)
<1>1. acquiring \in Pending /\ acquiring # None
  BY DEF FullInv, Inv, TypeOK, AcquireUnderLock
<1>2. m \in Metadata /\ r \in Resources /\ ttl \in Ttls /\ t \in Times
  BY <1>1 DEF Pending
<1>3. es \in [Slots -> Lease \cup {Free}]
  BY <1>2, PruneFacts DEF FullInv, Inv, TypeOK
<1>4. /\ lease \in Lease /\ lease.resource = r /\ lease.lease_id = id
      /\ lease.holder = m.holder /\ lease.priority = m.priority
  BY <1>2, NewLeaseType DEF NewLease
<1>5. t <= uptime
  BY <1>1 DEF FullInv, ClockOK
<1>6. acquire(es, r, m, ttl, t)
  BY DEF AcquireUnderLock
<1>7. reply' # None /\ reply'.op = "acquire" /\ reply'.resource = r
  <2>1. reply' \in Answer
    <3>1. ASSUME NEW c \in {"OK", "EACCES", "EEXIST", "ENOSPC"},
                 NEW p \in Lease \cup {None}, Reply("acquire", c, m, r, p)
          PROVE  reply' \in Answer
      BY <1>2, <3>1 DEF Reply, Answer, Metadata
    <3>2. \A s \in find_lease_by_resource(es, r) : es[s] \in Lease
      BY <1>3 DEF find_lease_by_resource, Lowest, Active
    <3> HIDE DEF es, m, r, ttl, t
    <3> QED
      BY <1>6, <3>1, <3>2 DEF acquire
  <2>2. reply'.op = "acquire" /\ reply'.resource = r
    <3> HIDE DEF es, m, r, ttl, t
    <3> QED
      BY <1>6 DEF acquire, Reply
  <2> QED
    BY <2>1, <2>2, MarkersAssumption
<1> HIDE DEF es, m, r, ttl, t, id
<1>8. \/ entries' = es /\ reply'.code # "ENOSPC"
      \/ entries' = es /\ find_free_lease(es) = {} /\ find_lease_by_resource(es, r) = {}
      \/ \E s \in find_lease_by_resource(es, r) :
            /\ entries' = [es EXCEPT ![s] = lease]
            /\ \/ es[s].lease_id = id /\ es[s].holder = m.holder
               \/ m.priority > es[s].priority /\ reply'.preempted = es[s]
            /\ reply'.code = "OK"
      \/ \E s \in find_free_lease(es) :
            /\ find_lease_by_resource(es, r) = {}
            /\ entries' = [es EXCEPT ![s] = lease]
            /\ reply'.code = "OK"
  BY <1>6 DEF acquire, Reply, Preempts, lease_holder_matches_request, id
<1> HIDE DEF lease
<1>9. t = acquiring.now_ms /\ es = prune_expired(entries, t)
  BY DEF t, es
<1> QED
  BY <1>2, <1>3, <1>4, <1>5, <1>7, <1>8, <1>9

\* A lease that runs on the clock survives a prune at that time or before it.
LEMMA RunningLeaseKept ==
    ASSUME FullInv, NEW s \in Active(entries), NEW t \in Times, t <= uptime,
           entries[s].expires_at_ms > uptime
    PROVE  prune_expired(entries, t)[s] = entries[s] /\ s \in Slots
<1>1. s \in Slots /\ entries[s] \in Lease
  BY DEF Active, FullInv, Inv, TypeOK
<1>2. entries[s].expires_at_ms \in Nat /\ uptime \in Nat /\ t \in Nat
  BY <1>1, TimeAssumption DEF Lease, FullInv, Inv, TypeOK, Times
<1>3. ~(entries[s].expires_at_ms <= t)
  BY <1>2
<1> QED
  BY <1>1, <1>3 DEF prune_expired

\* What a release does: nothing without an id; with one it prunes, and frees
\* the first slot with the id when the caller holds it.
LEMMA ReleaseCases ==
    ASSUME FullInv, NEW m \in Metadata, handle_lease_release(m)
    PROVE  \E es \in [Slots -> Lease \cup {Free}] :
              /\ es = prune_expired(entries, uptime)
              /\ reply' # None /\ reply'.op = "release"
              /\ reply'.holder = m.holder /\ reply'.lease_id = m.lease_id
              /\ uptime' = uptime /\ reply'.code # "ENOSPC"
              /\ \/ entries' = entries /\ m.lease_id = NoId
                 \/ \E s \in find_lease_by_id(es, m.lease_id) :
                       /\ es[s].holder = m.holder
                       /\ entries' = [es EXCEPT ![s] = Free]
                       /\ reply'.code = "OK"
                 \/ \E s \in find_lease_by_id(es, m.lease_id) :
                       es[s].holder # m.holder /\ entries' = es
                 \/ find_lease_by_id(es, m.lease_id) = {} /\ entries' = es
<1> DEFINE es == prune_expired(entries, uptime)
<1>1. es \in [Slots -> Lease \cup {Free}]
  BY PruneFacts DEF FullInv, Inv, TypeOK
<1> HIDE DEF es
<1>2. reply' \in Answer
  BY DEF handle_lease_release, Reply, Answer, Metadata
<1>3. /\ reply'.op = "release" /\ reply'.holder = m.holder
      /\ reply'.lease_id = m.lease_id /\ uptime' = uptime
      /\ reply'.code # "ENOSPC"
  BY DEF handle_lease_release, Reply
<1>4. \/ entries' = entries /\ m.lease_id = NoId
      \/ \E s \in find_lease_by_id(es, m.lease_id) :
            /\ es[s].holder = m.holder
            /\ entries' = [es EXCEPT ![s] = Free]
            /\ reply'.code = "OK"
      \/ \E s \in find_lease_by_id(es, m.lease_id) :
            es[s].holder # m.holder /\ entries' = es
      \/ find_lease_by_id(es, m.lease_id) = {} /\ entries' = es
  BY DEF handle_lease_release, Reply, lease_holder_matches_request, es
<1>5. es = prune_expired(entries, uptime)
  BY DEF es
<1> QED
  BY <1>1, <1>2, <1>3, <1>4, <1>5, MarkersAssumption

\* A lease in its slot afterwards is still held.
LEMMA SameSlotHeld ==
    ASSUME NEW s \in Active(entries), entries'[s] = entries[s]
    PROVE  StillHeld(entries[s])
BY DEF StillHeld, Active

\* The acquire's case: only the slot it writes can lose its lease, and it
\* writes over a running lease to renew it or to preempt it.
LEMMA AcquireKeepsRunning ==
    ASSUME FullInv, AcquireUnderLock, NEW s \in Active(entries),
           entries[s].expires_at_ms > uptime
    PROVE  StillHeld(entries[s]) \/ LosesOnlyByPreemption(entries[s])
<1>1. PICK es \in [Slots -> Lease \cup {Free}], lease \in Lease, t \in Times :
              /\ t = acquiring.now_ms /\ t <= uptime
              /\ es = prune_expired(entries, t)
              /\ reply' # None /\ reply'.op = "acquire"
              /\ reply'.resource = lease.resource
              /\ \/ entries' = es
                 \/ \E u \in find_lease_by_resource(es, lease.resource) :
                       /\ entries' = [es EXCEPT ![u] = lease]
                       /\ \/ /\ es[u].lease_id = lease.lease_id
                             /\ es[u].holder = lease.holder
                          \/ /\ lease.priority > es[u].priority
                             /\ reply'.preempted = es[u]
                 \/ \E u \in find_free_lease(es) :
                       entries' = [es EXCEPT ![u] = lease]
  BY AcquireCases
<1>2. es[s] = entries[s] /\ s \in Slots /\ entries[s] # Free
  BY <1>1, RunningLeaseKept DEF Active
<1>3. CASE entries'[s] = es[s]
  BY <1>2, <1>3, SameSlotHeld
<1>4. ASSUME NEW u \in Slots, entries' = [es EXCEPT ![u] = lease], u # s
      PROVE  entries'[s] = es[s]
  BY <1>2, <1>4
<1>5. \A u \in find_free_lease(es) : u \in Slots /\ u # s
  BY <1>2 DEF find_free_lease, Lowest, Active
<1>6. \A u \in find_lease_by_resource(es, lease.resource) :
         u \in Slots /\ es[u].resource = lease.resource
  BY DEF find_lease_by_resource, Lowest, Active
<1>7. ASSUME entries' = [es EXCEPT ![s] = lease],
             es[s].resource = lease.resource,
             \/ es[s].lease_id = lease.lease_id /\ es[s].holder = lease.holder
             \/ lease.priority > es[s].priority /\ reply'.preempted = es[s]
      PROVE  StillHeld(entries[s]) \/ LosesOnlyByPreemption(entries[s])
  <2>1. entries'[s] = lease /\ s \in Active(entries')
    BY <1>2, <1>7, MarkersAssumption DEF Active
  <2> QED
    BY <1>1, <1>2, <1>7, <2>1 DEF StillHeld, LosesOnlyByPreemption
<1> QED
  BY <1>1, <1>3, <1>4, <1>5, <1>6, <1>7

\* The release's case: only the slot it frees loses its lease, to its holder.
LEMMA ReleaseKeepsRunning ==
    ASSUME FullInv, NEW m \in Metadata, handle_lease_release(m),
           NEW s \in Active(entries), entries[s].expires_at_ms > uptime
    PROVE  StillHeld(entries[s]) \/ LosesOnlyByRelease(entries[s])
<1>1. PICK es \in [Slots -> Lease \cup {Free}] :
              /\ es = prune_expired(entries, uptime)
              /\ reply' # None /\ reply'.op = "release"
              /\ reply'.holder = m.holder /\ reply'.lease_id = m.lease_id
              /\ \/ entries' = entries
                 \/ entries' = es
                 \/ \E u \in find_lease_by_id(es, m.lease_id) :
                       /\ es[u].holder = m.holder
                       /\ entries' = [es EXCEPT ![u] = Free]
                       /\ reply'.code = "OK"
  BY ReleaseCases
<1>2. uptime \in Times /\ uptime <= uptime
  BY TimeAssumption DEF FullInv, Inv, TypeOK, Times
<1>3. es[s] = entries[s] /\ s \in Slots
  BY <1>1, <1>2, RunningLeaseKept
<1>4. CASE entries'[s] = entries[s]
  BY <1>4, SameSlotHeld
<1>5. ASSUME NEW u \in find_lease_by_id(es, m.lease_id),
             es[u].holder = m.holder, entries' = [es EXCEPT ![u] = Free],
             reply'.code = "OK"
      PROVE  StillHeld(entries[s]) \/ LosesOnlyByRelease(entries[s])
  <2>1. u \in Slots /\ es[u].lease_id = m.lease_id
    BY DEF find_lease_by_id, Lowest, Active
  <2>2. CASE u # s
    BY <1>3, <1>4, <1>5, <2>1, <2>2
  <2>3. CASE u = s
    BY <1>1, <1>3, <1>5, <2>1, <2>3 DEF LosesOnlyByRelease
  <2> QED
    BY <2>2, <2>3
<1> QED
  BY <1>1, <1>3, <1>4, <1>5

\* neuro_lease_manager_prune_expired, _acquire and _release never take a lease
\* from its holder before it expires, except for the holder's own release, a
\* strictly higher priority or a reset, though an acquire prunes with a clock
\* read before it had the lock.
THEOREM LeasesAreHeldUntilExpiry == Spec => HeldUntilExpiry
<1>1. ASSUME FullInv, [Next]_vars
      PROVE  [\A s \in Active(entries) :
                 entries[s].expires_at_ms > uptime =>
                    \/ StillHeld(entries[s])
                    \/ LosesOnlyByRelease(entries[s])
                    \/ LosesOnlyByPreemption(entries[s])
                    \/ Reboot]_vars
  <2>1. SUFFICES ASSUME Next, ~Reboot, NEW s \in Active(entries),
                        entries[s].expires_at_ms > uptime
                 PROVE  \/ StillHeld(entries[s])
                        \/ LosesOnlyByRelease(entries[s])
                        \/ LosesOnlyByPreemption(entries[s])
    BY <1>1
  <2>2. CASE AcquireUnderLock
    BY <1>1, <2>1, <2>2, AcquireKeepsRunning
  <2>3. ASSUME NEW m \in Metadata, handle_lease_release(m)
        PROVE  StillHeld(entries[s]) \/ LosesOnlyByRelease(entries[s])
    BY <1>1, <2>1, <2>3, ReleaseKeepsRunning
  <2>4. CASE entries' = entries
    BY <2>4, SameSlotHeld
  <2>5. CASE entries' = prune_expired(entries, uptime)
    <3>1. uptime \in Times /\ uptime <= uptime
      BY <1>1, TimeAssumption DEF FullInv, Inv, TypeOK, Times
    <3>2. prune_expired(entries, uptime)[s] = entries[s]
      BY <1>1, <2>1, <3>1, RunningLeaseKept
    <3> QED
      BY <2>5, <3>2, SameSlotHeld
  <2> QED
    BY <2>1, <2>2, <2>3, <2>4, <2>5
       DEF Next, AcquireReadsClock, require_resource_lease, handle_query_leases, Tick
<1> QED
  BY <1>1, FullInvariance, PTL DEF Spec, HeldUntilExpiry

-----------------------------------------------------------------------------
\* neuro_lease_manager_acquire answers -ENOSPC only when every slot holds a
\* lease of another resource that was running on the clock the request read.
THEOREM FullMeansAllRunning == Spec => FullOnlyWhenAllRunning
<1>1. ASSUME FullInv, Next, reply' # None, reply'.code = "ENOSPC"
      PROVE  /\ Active(entries) = Slots
             /\ \A s \in Slots :
                   /\ entries[s].expires_at_ms > acquiring.now_ms
                   /\ entries[s].resource # reply'.resource
  <2>1. \A m \in Metadata : ~handle_lease_release(m)
    BY <1>1, ReleaseCases
  <2>2. \A r \in Resources, m \in Metadata : ~require_resource_lease(r, m)
    BY <1>1 DEF require_resource_lease, Reply
  <2>3. AcquireUnderLock
    BY <1>1, <2>1, <2>2
       DEF Next, AcquireReadsClock, handle_query_leases, Tick, Reboot
  <2>4. PICK es \in [Slots -> Lease \cup {Free}], lease \in Lease, t \in Times :
              /\ t = acquiring.now_ms
              /\ es = prune_expired(entries, t)
              /\ reply'.resource = lease.resource
              /\ find_free_lease(es) = {}
              /\ find_lease_by_resource(es, lease.resource) = {}
    <3>1. \A es, lease : ~ \/ entries' = es /\ reply'.code # "ENOSPC"
                           \/ \E s \in find_lease_by_resource(es, lease.resource) :
                                 reply'.code = "OK"
                           \/ \E s \in find_free_lease(es) : reply'.code = "OK"
      BY <1>1
    <3> QED
      BY <1>1, <2>3, <3>1, AcquireCases
  <2>5. Active(es) = Slots
    <3>1. Slots \ Active(es) \in SUBSET Slots
      OBVIOUS
    <3>2. Slots \ Active(es) = {}
      BY <2>4, <3>1, LowestExists DEF find_free_lease
    <3> QED
      BY <3>2 DEF Active
  <2>6. ASSUME NEW s \in Slots
        PROVE  /\ s \in Active(entries)
               /\ entries[s].expires_at_ms > acquiring.now_ms
               /\ entries[s].resource # reply'.resource
    <3>1. es[s] # Free
      BY <2>5 DEF Active
    <3>2. es[s] = entries[s] /\ ~(entries[s].expires_at_ms <= t)
      BY <2>4, <3>1 DEF prune_expired
    <3>3. entries[s] \in Lease
      BY <3>1, <3>2 DEF FullInv, Inv, TypeOK
    <3>4. entries[s].expires_at_ms \in Nat /\ t \in Nat
      BY <3>3, TimeAssumption DEF Lease, Times
    <3>5. es[s].resource # lease.resource
      BY <2>4, <2>5, NotFoundMeansAbsent
    <3> QED
      BY <2>4, <3>1, <3>2, <3>4, <3>5 DEF Active
  <2> QED
    BY <2>6 DEF Active
<1>2. FullInv /\ [Next]_vars =>
        [(reply' # None /\ reply'.code = "ENOSPC") =>
            /\ Active(entries) = Slots
            /\ \A s \in Slots :
                  /\ entries[s].expires_at_ms > acquiring.now_ms
                  /\ entries[s].resource # reply'.resource]_vars
  BY <1>1
<1> QED
  BY <1>2, FullInvariance, PTL DEF Spec, FullOnlyWhenAllRunning

\* neuro_lease_manager_release finds the running lease of its holder, unless
\* its search by id meets another lease with the same id.
THEOREM HoldersCanRelease == Spec => HolderCanRelease
<1>1. ASSUME FullInv, Next, NEW s \in Active(entries),
             reply' # None, reply'.op = "release",
             reply'.holder = entries[s].holder,
             reply'.lease_id = entries[s].lease_id,
             entries[s].expires_at_ms > uptime
      PROVE  \/ reply'.code = "OK"
             \/ \E t \in Active(entries) \ {s} :
                   entries[t].lease_id = entries[s].lease_id
  <2>1. ~AcquireUnderLock
    BY <1>1, AcquireCases
  <2>2. \A r \in Resources, m \in Metadata : ~require_resource_lease(r, m)
    BY <1>1 DEF require_resource_lease, Reply
  <2>3. PICK m \in Metadata : handle_lease_release(m)
    BY <1>1, <2>1, <2>2
       DEF Next, AcquireReadsClock, handle_query_leases, Tick, Reboot
  <2>4. PICK es \in [Slots -> Lease \cup {Free}] :
              /\ es = prune_expired(entries, uptime)
              /\ reply'.holder = m.holder /\ reply'.lease_id = m.lease_id
              /\ \/ m.lease_id = NoId
                 \/ reply'.code = "OK"
                 \/ \E u \in find_lease_by_id(es, m.lease_id) :
                       es[u].holder # m.holder
                 \/ find_lease_by_id(es, m.lease_id) = {}
    BY <1>1, <2>3, ReleaseCases
  <2>5. s \in Slots /\ entries[s] \in Lease
    BY <1>1 DEF Active, FullInv, Inv, TypeOK
  <2>6. m.lease_id # NoId
    BY <1>1, <2>4, <2>5, MarkersAssumption DEF Lease
  <2>7. es[s] = entries[s] /\ s \in Active(es)
    <3>1. uptime \in Times /\ uptime <= uptime
      BY <1>1, TimeAssumption DEF FullInv, Inv, TypeOK, Times
    <3> QED
      BY <1>1, <2>4, <3>1, RunningLeaseKept DEF Active
  <2>8. find_lease_by_id(es, m.lease_id) # {}
    <3> DEFINE S == {u \in Active(es) : es[u].lease_id = m.lease_id}
    <3>1. S \in SUBSET Slots /\ S # {}
      BY <1>1, <2>4, <2>7 DEF Active
    <3> QED
      BY <3>1, LowestExists DEF find_lease_by_id
  <2>9. ASSUME NEW u \in find_lease_by_id(es, m.lease_id),
               es[u].holder # m.holder
        PROVE  \E t \in Active(entries) \ {s} :
                  entries[t].lease_id = entries[s].lease_id
    <3>1. u \in Slots /\ es[u] # Free /\ es[u].lease_id = m.lease_id
      BY DEF find_lease_by_id, Lowest, Active
    <3>2. es[u] = entries[u]
      BY <2>4, <3>1 DEF prune_expired
    <3>3. u # s
      BY <1>1, <2>4, <2>7, <2>9
    <3> QED
      BY <1>1, <2>4, <3>1, <3>2, <3>3 DEF Active
  <2> QED
    BY <2>4, <2>6, <2>8, <2>9
<1>2. FullInv /\ [Next]_vars =>
        [\A s \in Active(entries) :
            ( /\ reply' # None /\ reply'.op = "release"
              /\ reply'.holder = entries[s].holder
              /\ reply'.lease_id = entries[s].lease_id
              /\ entries[s].expires_at_ms > uptime )
            => \/ reply'.code = "OK"
               \/ \E t \in Active(entries) \ {s} :
                     entries[t].lease_id = entries[s].lease_id]_vars
  BY <1>1
<1> QED
  BY <1>2, FullInvariance, PTL DEF Spec, HolderCanRelease

-----------------------------------------------------------------------------
\* The refinement of the abstract lease table.  The leases of a table are a
\* set; the slots they are in are what the abstract table leaves out.
LeasesOf(es) == {es[s] : s \in Active(es)}

\* The leases a prune at time t drops.
DroppedAt(t) == {l \in HeldLeases : l.expires_at_ms <= t}

\* A prune at a time that has passed drops expired leases and no other.
LEMMA PruneRefines ==
    ASSUME FullInv, NEW t \in Times, t <= uptime
    PROVE  /\ DroppedAt(t) \in SUBSET Table!Expired
           /\ LeasesOf(prune_expired(entries, t)) = HeldLeases \ DroppedAt(t)
<1>1. \A s \in Active(entries) : s \in Slots /\ entries[s] \in Lease
  BY DEF Active, FullInv, Inv, TypeOK
<1>2. \A l \in HeldLeases : l \in Lease
  BY <1>1 DEF HeldLeases
<1>3. \A l \in HeldLeases : l.expires_at_ms <= t => l.expires_at_ms <= uptime
  BY <1>2, TimeAssumption DEF Lease, FullInv, Inv, TypeOK, Times
<1>4. DroppedAt(t) \in SUBSET Table!Expired
  BY <1>3 DEF DroppedAt, Table!Expired
<1> DEFINE es == prune_expired(entries, t)
<1>5. \A s \in Slots :
         es[s] = IF entries[s] # Free /\ entries[s].expires_at_ms <= t
                 THEN Free ELSE entries[s]
  BY DEF prune_expired
<1> HIDE DEF es
<1>6. \A s \in Active(es) :
         s \in Active(entries) /\ es[s] = entries[s] /\ ~(es[s].expires_at_ms <= t)
  BY <1>5 DEF Active
<1>7. \A s \in Active(entries) :
         ~(entries[s].expires_at_ms <= t) => s \in Active(es) /\ es[s] = entries[s]
  BY <1>5 DEF Active
<1>8. LeasesOf(es) = HeldLeases \ DroppedAt(t)
  BY <1>6, <1>7 DEF LeasesOf, HeldLeases, DroppedAt
<1> QED
  BY <1>4, <1>8 DEF es

\* Writing into a slot that is taken replaces its lease, clearing it drops it.
LEMMA SlotWritten ==
    ASSUME NEW es \in [Slots -> Lease \cup {Free}], Unique(es),
           NEW s \in Active(es), NEW lease \in Lease
    PROVE  /\ LeasesOf([es EXCEPT ![s] = lease])
                 = (LeasesOf(es) \ {es[s]}) \cup {lease}
           /\ LeasesOf([es EXCEPT ![s] = Free]) = LeasesOf(es) \ {es[s]}
<1> DEFINE ws == [es EXCEPT ![s] = lease]
           cs == [es EXCEPT ![s] = Free]
<1>1. /\ s \in Slots /\ ws[s] = lease /\ cs[s] = Free
      /\ \A u \in Slots \ {s} : ws[u] = es[u] /\ cs[u] = es[u]
  BY DEF Active
<1> HIDE DEF ws, cs
<1>2. Active(ws) = Active(es) \cup {s} /\ Active(cs) = Active(es) \ {s}
  BY <1>1, MarkersAssumption DEF Active
<1>3. \A u \in Active(es) : u \in Slots
  BY DEF Active
<1>4. \A u \in Active(es) : u # s => es[u] # es[s]
  BY DEF Unique
<1>5. {es[u] : u \in Active(es) \ {s}} = LeasesOf(es) \ {es[s]}
  BY <1>4 DEF LeasesOf
<1>6. LeasesOf(ws) = (LeasesOf(es) \ {es[s]}) \cup {lease}
  BY <1>1, <1>2, <1>3, <1>5 DEF LeasesOf
<1>7. LeasesOf(cs) = LeasesOf(es) \ {es[s]}
  BY <1>1, <1>2, <1>3, <1>5 DEF LeasesOf
<1> QED
  BY <1>6, <1>7 DEF ws, cs

\* Writing a lease into a free slot adds it.
LEMMA SlotFilled ==
    ASSUME NEW es \in [Slots -> Lease \cup {Free}], NEW s \in Slots,
           s \notin Active(es), NEW lease \in Lease
    PROVE  LeasesOf([es EXCEPT ![s] = lease]) = LeasesOf(es) \cup {lease}
<1> DEFINE ws == [es EXCEPT ![s] = lease]
<1>1. ws[s] = lease /\ \A u \in Slots \ {s} : ws[u] = es[u]
  OBVIOUS
<1> HIDE DEF ws
<1>2. Active(ws) = Active(es) \cup {s}
  BY <1>1, MarkersAssumption DEF Active
<1>3. \A u \in Active(es) : u \in Slots \ {s}
  BY DEF Active
<1>4. LeasesOf(ws) = LeasesOf(es) \cup {lease}
  BY <1>1, <1>2, <1>3 DEF LeasesOf
<1> QED
  BY <1>4 DEF ws

\* An acquire is a request of the abstract table.
LEMMA AcquireRefines ==
    ASSUME FullInv, AcquireUnderLock
    PROVE  Table!Request
<1>1. PICK es \in [Slots -> Lease \cup {Free}], lease \in Lease, t \in Times :
              /\ t <= uptime
              /\ es = prune_expired(entries, t)
              /\ \/ entries' = es
                 \/ \E s \in find_lease_by_resource(es, lease.resource) :
                       /\ entries' = [es EXCEPT ![s] = lease]
                       /\ \/ /\ es[s].lease_id = lease.lease_id
                             /\ es[s].holder = lease.holder
                          \/ lease.priority > es[s].priority
                 \/ \E s \in find_free_lease(es) :
                       /\ find_lease_by_resource(es, lease.resource) = {}
                       /\ entries' = [es EXCEPT ![s] = lease]
  BY AcquireCases
<1>2. Unique(es)
  BY <1>1, PruneFacts, FreeingKeepsUnique DEF FullInv, Inv, TypeOK
<1> DEFINE D == DroppedAt(t)
           kept == HeldLeases \ D
<1>3. D \in SUBSET Table!Expired /\ LeasesOf(es) = kept
  BY <1>1, PruneRefines
<1>4. HeldLeases' = LeasesOf(entries')
  BY DEF HeldLeases, LeasesOf
<1> HIDE DEF D
<1>5. ASSUME entries' = es PROVE Table!Serve(D)
  BY <1>3, <1>4, <1>5 DEF Table!Serve
<1>6. ASSUME NEW s \in find_lease_by_resource(es, lease.resource),
             entries' = [es EXCEPT ![s] = lease],
             \/ es[s].lease_id = lease.lease_id /\ es[s].holder = lease.holder
             \/ lease.priority > es[s].priority
      PROVE  Table!Serve(D)
  <2>1. s \in Slots /\ s \in Active(es) /\ es[s].resource = lease.resource
    BY DEF find_lease_by_resource, Lowest, Active
  <2>2. es[s] \in kept
    BY <1>3, <2>1 DEF LeasesOf
  <2>3. HeldLeases' = (kept \ {es[s]}) \cup {lease}
    <3>1. LeasesOf([es EXCEPT ![s] = lease]) = (LeasesOf(es) \ {es[s]}) \cup {lease}
      BY <1>2, <2>1, SlotWritten
    <3> QED
      BY <1>3, <1>4, <1>6, <3>1
  <2>4. lease \in HeldLeases'
    BY <2>3
  <2>5. Table!Replace(kept, es[s], lease)
    BY <1>6, <2>1, <2>3 DEF Table!Replace
  <2> QED
    BY <2>2, <2>4, <2>5 DEF Table!Serve
<1>7. ASSUME NEW s \in find_free_lease(es),
             find_lease_by_resource(es, lease.resource) = {},
             entries' = [es EXCEPT ![s] = lease]
      PROVE  Table!Serve(D)
  <2>1. s \in Slots /\ s \notin Active(es)
    BY DEF find_free_lease, Lowest
  <2>2. HeldLeases' = kept \cup {lease}
    <3>1. LeasesOf([es EXCEPT ![s] = lease]) = LeasesOf(es) \cup {lease}
      BY <1>2, <2>1, SlotFilled
    <3> QED
      BY <1>3, <1>4, <1>7, <3>1
  <2>3. \A o \in kept : o.resource # lease.resource
    BY <1>3, <1>7, NotFoundMeansAbsent DEF LeasesOf
  <2>4. Table!Grant(kept, lease)
    BY <2>2, <2>3 DEF Table!Grant
  <2> QED
    BY <2>2, <2>4 DEF Table!Serve
<1>8. Table!Serve(D)
  BY <1>1, <1>5, <1>6, <1>7
<1>9. uptime' = uptime
  BY DEF AcquireUnderLock
<1> QED
  BY <1>3, <1>8, <1>9 DEF Table!Request

\* A release is a request that drops at most one lease.
LEMMA ReleaseRefines ==
    ASSUME FullInv, NEW m \in Metadata, handle_lease_release(m)
    PROVE  Table!Request
<1>1. PICK es \in [Slots -> Lease \cup {Free}] :
              /\ es = prune_expired(entries, uptime)
              /\ uptime' = uptime
              /\ \/ entries' = entries
                 \/ entries' = es
                 \/ \E s \in find_lease_by_id(es, m.lease_id) :
                       entries' = [es EXCEPT ![s] = Free]
  BY ReleaseCases
<1>2. Unique(es)
  BY <1>1, PruneFacts, FreeingKeepsUnique DEF FullInv, Inv, TypeOK
<1>3. uptime \in Times /\ uptime <= uptime
  BY TimeAssumption DEF FullInv, Inv, TypeOK, Times
<1> DEFINE D == DroppedAt(uptime)
<1>4. D \in SUBSET Table!Expired /\ LeasesOf(es) = HeldLeases \ D
  BY <1>1, <1>3, PruneRefines
<1>5. HeldLeases' = LeasesOf(entries') /\ HeldLeases = LeasesOf(entries)
  BY DEF HeldLeases, LeasesOf
<1> HIDE DEF D
<1>6. CASE entries' = entries
  <2>1. HeldLeases' = HeldLeases \ {}
    BY <1>5, <1>6
  <2>2. Table!Serve({}) /\ {} \in SUBSET Table!Expired
    BY <2>1 DEF Table!Serve
  <2> QED
    BY <1>1, <2>2 DEF Table!Request
<1>7. CASE entries' = es
  BY <1>1, <1>4, <1>5, <1>7 DEF Table!Serve, Table!Request
<1>8. ASSUME NEW s \in find_lease_by_id(es, m.lease_id),
             entries' = [es EXCEPT ![s] = Free]
      PROVE  Table!Request
  <2>1. s \in Slots /\ s \in Active(es) /\ es[s] \in Lease
    BY DEF find_lease_by_id, Lowest, Active
  <2>2. HeldLeases' = (HeldLeases \ D) \ {es[s]}
    BY <1>2, <1>4, <1>5, <1>8, <2>1, SlotWritten
  <2>3. es[s] \in HeldLeases \ D
    BY <1>4, <2>1 DEF LeasesOf
  <2> QED
    BY <1>1, <1>4, <2>2, <2>3 DEF Table!Serve, Table!Request
<1> QED
  BY <1>1, <1>6, <1>7, <1>8

\* Every step of the lease manager is a step of the abstract table or leaves
\* it as it is.
LEMMA StepRefines ==
    ASSUME FullInv, [Next]_vars
    PROVE  [Table!Next]_(Table!tableVars)
<1>1. CASE AcquireUnderLock
  BY <1>1, AcquireRefines DEF Table!Next
<1>2. ASSUME NEW m \in Metadata, handle_lease_release(m)
      PROVE  Table!Next
  BY <1>2, ReleaseRefines DEF Table!Next
<1>3. ASSUME entries' = prune_expired(entries, uptime), uptime' = uptime
      PROVE  Table!Next
  <2>1. uptime \in Times /\ uptime <= uptime
    BY TimeAssumption DEF FullInv, Inv, TypeOK, Times
  <2>2. HeldLeases' = LeasesOf(entries')
    BY DEF HeldLeases, LeasesOf
  <2> QED
    BY <1>3, <2>1, <2>2, PruneRefines
       DEF Table!Serve, Table!Request, Table!Next
<1>4. CASE entries' = entries /\ uptime' = uptime
  BY <1>4 DEF Table!tableVars, HeldLeases, Active
<1>5. CASE Tick
  BY <1>5 DEF Tick, Table!Advance, Table!Next, HeldLeases, Active
<1>6. CASE Reboot
  BY <1>6 DEF Reboot, Table!Restart, Table!Next, HeldLeases, Active
<1> QED
  BY <1>1, <1>2, <1>3, <1>4, <1>5, <1>6
     DEF Next, vars, AcquireReadsClock, require_resource_lease, handle_query_leases

\* The slots, searches and prunes of neuro_lease_manager.c implement the
\* abstract lease table: at most one lease changes per request, besides expired
\* ones, and a running lease yields only to its holder or a higher priority.
THEOREM LeaseTableIsImplemented == Spec => ImplementsLeaseTable
<1>1. Init => Table!Init
  BY DEF Init, Table!Init, HeldLeases, Active
<1>2. FullInv /\ [Next]_vars => [Table!Next]_(Table!tableVars)
  BY StepRefines
<1> QED
  BY <1>1, <1>2, FullInvariance, PTL
     DEF Spec, ImplementsLeaseTable, Table!Spec
=============================================================================
