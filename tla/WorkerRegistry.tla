--------------------------- MODULE WorkerRegistry ---------------------------
(***************************************************************************)
(* The in-process worker registry of crates/nxr-core/src/                  *)
(* worker_schedule.rs and the attempts that use it.  An attempt takes a    *)
(* worker either in one call (select_and_reserve) or in two (select_worker *)
(* and then reserve_worker) and gives it back when it has finished, early  *)
(* or late, or never.  A descriptor is reduced to a capacity, the least    *)
(* that requirements can ask for.  Nothing under src/ calls the registry   *)
(* but its tests, so the attempts are any callers.                         *)
(***************************************************************************)
EXTENDS Naturals, Sequences

CONSTANTS
    WorkerIds,
    Attempts,
    Capacities,    \* what a worker offers, and what an attempt requires
    TTLs,          \* reservation lengths, in seconds
    MaxTime        \* u64::MAX, and where the clock stops

ASSUME WorkerAssumption ==
    /\ MaxTime \in Nat
    /\ TTLs \subseteq Nat
    /\ Capacities \subseteq Nat

VARIABLES
    workers,       \* Vec<WorkerDescriptor>, in registration order
    reservations,  \* BTreeMap: worker id -> expires_at, for some ids
    clock,
    attempt        \* what each attempt knows

worker_vars == <<workers, reservations, clock, attempt>>

NoAttempt == [pc |-> "idle"]

(* Ghost `robbed`: a release that came too late has let the worker go.     *)
Holding(id, until) == [pc |-> "holding", id |-> id, until |-> until, robbed |-> FALSE]

WorkerInit ==
    /\ workers = <<>>
    /\ reservations = {}
    /\ clock = 0
    /\ attempt = [a \in Attempts |-> NoAttempt]

Registered == {workers[i].id : i \in 1..Len(workers)}

reservation_active(res, id, now) == \E r \in res : r[1] = id /\ r[2] > now

worker_satisfies(w, need) == w.capacity >= need

prune_expired(res, now) == {r \in res : r[2] > now}

(* now.saturating_add(ttl_secs)                                            *)
Expiry(now, ttl) == IF now + ttl > MaxTime THEN MaxTime ELSE now + ttl

register_worker(id, capacity) ==
    /\ LET w == [id |-> id, capacity |-> capacity]
       IN  workers' = IF id \in Registered
                      THEN [i \in 1..Len(workers) |->
                              IF workers[i].id = id THEN w ELSE workers[i]]
                      ELSE Append(workers, w)
    /\ UNCHANGED <<reservations, clock, attempt>>

(* The first free worker, in registration order, that is good enough.      *)
Free(res, need, i) == /\ ~ reservation_active(res, workers[i].id, clock)
                      /\ worker_satisfies(workers[i], need)

Eligible(res, need, i) == /\ Free(res, need, i)
                          /\ \A j \in 1..(i - 1) : ~ Free(res, need, j)

(* select_worker: looks, and takes nothing.                                *)
select_worker(a, need) ==
    /\ attempt[a].pc = "idle"
    /\ \E i \in 1..Len(workers) :
          /\ Eligible(reservations, need, i)
          /\ attempt' = [attempt EXCEPT ![a] =
                           [pc |-> "selected", id |-> workers[i].id]]
    /\ UNCHANGED <<workers, reservations, clock>>

Held(res, id, ttl) == prune_expired(res, clock) \cup {<<id, Expiry(clock, ttl)>>}

(* Fault: the caller selected a free worker, so nothing is checked again.  *)
MayReserve_unchecked(id) == id \in Registered

MayReserve(id) ==
    id \in Registered /\ ~ reservation_active(prune_expired(reservations, clock), id, clock)

(* reserve_worker for the worker that select_worker named some time ago.   *)
reserve_worker(a, ttl) ==
    /\ attempt[a].pc = "selected"
    /\ LET id == attempt[a].id
       IN  \/ /\ MayReserve(id)
              /\ reservations' = Held(reservations, id, ttl)
              /\ attempt' = [attempt EXCEPT ![a] = Holding(id, Expiry(clock, ttl))]
           \/ /\ ~ MayReserve(id)
              /\ reservations' = prune_expired(reservations, clock)
              /\ attempt' = [attempt EXCEPT ![a] = NoAttempt]
    /\ UNCHANGED <<workers, clock>>

select_and_reserve(a, need, ttl) ==
    /\ attempt[a].pc = "idle"
    /\ \E i \in 1..Len(workers) :
          /\ Eligible(prune_expired(reservations, clock), need, i)
          /\ reservations' = Held(reservations, workers[i].id, ttl)
          /\ attempt' = [attempt EXCEPT ![a] = Holding(workers[i].id, Expiry(clock, ttl))]
    /\ UNCHANGED <<workers, clock>>

InLease(a) == attempt[a].pc = "holding" /\ attempt[a].until > clock

(* The attempt has finished, within its lease or long after it, and gives  *)
(* the worker back: whatever reservation the id has is removed, and it may *)
(* be that of an attempt that came later.  For the ghost: that attempt is  *)
(* robbed by a release after the lease, and by the release of an attempt   *)
(* that was itself robbed.                                                 *)
release_worker(a) ==
    /\ attempt[a].pc = "holding"
    /\ reservations' = {r \in reservations : r[1] # attempt[a].id}
    /\ LET Robs(b) == /\ InLease(b) /\ attempt[b].id = attempt[a].id
                      /\ InLease(a) => attempt[a].robbed
       IN  attempt' = [b \in Attempts |->
              IF b = a THEN NoAttempt
              ELSE IF Robs(b) THEN [attempt[b] EXCEPT !.robbed = TRUE]
              ELSE attempt[b]]
    /\ UNCHANGED <<workers, clock>>

(* The lease is over: the attempt stops without a release.                 *)
LeaseOver(a) ==
    /\ attempt[a].pc = "holding"
    /\ attempt[a].until <= clock
    /\ attempt' = [attempt EXCEPT ![a] = NoAttempt]
    /\ UNCHANGED <<workers, reservations, clock>>

WorkerTick ==
    /\ clock < MaxTime
    /\ clock' = clock + 1
    /\ UNCHANGED <<workers, reservations, attempt>>

WorkerNext ==
    \/ \E id \in WorkerIds, capacity \in Capacities : register_worker(id, capacity)
    \/ \E a \in Attempts :
          \/ \E need \in Capacities : select_worker(a, need)
          \/ \E ttl \in TTLs : reserve_worker(a, ttl)
          \/ \E need \in Capacities, ttl \in TTLs : select_and_reserve(a, need, ttl)
          \/ release_worker(a)
          \/ LeaseOver(a)
    \/ WorkerTick

WorkerSpec == WorkerInit /\ [][WorkerNext]_worker_vars

-----------------------------------------------------------------------------

(* Two attempts that are within their leases hold the same worker only if  *)
(* one of them lost it to a release that came after its own lease, or to   *)
(* an attempt that had lost it so: neither the gap between select_worker   *)
(* and reserve_worker, nor an expiry, nor a worker that registers again,   *)
(* nor a release in time lets a second attempt in.                         *)
WorkerExclusive ==
    \A a, b \in Attempts :
        a # b /\ InLease(a) /\ InLease(b) /\ attempt[a].id = attempt[b].id =>
           attempt[a].robbed \/ attempt[b].robbed

=============================================================================
