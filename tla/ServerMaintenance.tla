--------------------------- MODULE ServerMaintenance ---------------------------
(***************************************************************************)
(* The maintenance lease of the scheduler                                  *)
(* (backend/src/scheduled-tasks/server-maintenance.ts) and the part of     *)
(* ScheduledTaskRuntime it pauses: the pass that claims runs, and the      *)
(* executions it started.  A server update acquires the lease, learns from *)
(* it which runs a restart would hit, and keeps it while it decides.       *)
(***************************************************************************)
EXTENDS Integers, FiniteSets

CONSTANTS
  Owners,     \* callers of the maintenance API
  Runs,       \* runs that may be queued
  Limit,      \* limits.maxConcurrentRuns
  LeaseTime,  \* LEASE_MS
  MaxClock, MaxLeases  \* bounds

ASSUME MaintenanceAssumption ==
  /\ LeaseTime \in Nat \ {0} /\ Limit \in Nat
  /\ MaxClock \in Nat /\ MaxLeases \in Nat

VARIABLES
  clock,
  lease,       \* the lease, or the record None
  timer,       \* when the armed timer fires, or Never
  issued,      \* leases issued so far: ids are fresh
  acquiring,   \* per owner: the id it waits to be granted, or 0
  draining,    \* per owner: the pass its drainClaims() awaits is unfinished
  held,        \* per owner: the id of the lease it was granted, or 0
  until,       \* per owner: the expiresAt of its last answer
  reported,    \* per owner: the affectedRuns of its last answer
  pass,        \* the scheduler pass
  executions,  \* runs being executed
  queued,      \* runs that may be claimed
  disposed     \* the runtime was disposed

leaseVars == <<lease, timer, issued, acquiring, draining, held, until, reported>>
runtime   == <<pass, executions, queued, disposed>>
vars      == <<clock, leaseVars, runtime>>

Never == -1
None == [id |-> 0, owner |-> "nobody", expires |-> Never]

Paused == lease # None /\ lease.expires > clock

Init ==
  /\ clock = 0
  /\ lease = None /\ timer = Never /\ issued = 0
  /\ acquiring = [o \in Owners |-> 0]
  /\ draining = [o \in Owners |-> FALSE]
  /\ held = [o \in Owners |-> 0]
  /\ until = [o \in Owners |-> 0]
  /\ reported = [o \in Owners |-> {}]
  /\ pass = "idle" /\ executions = {} /\ queued = Runs
  /\ disposed = FALSE

-----------------------------------------------------------------------------
(* The scheduler pass.  drainClaims() awaits the pass that is in flight    *)
(* when it is called: the end of a pass lets every such owner proceed.     *)

PassEnds ==
  /\ pass' = "idle"
  /\ draining' = [o \in Owners |-> FALSE]

\* runPass: a paused pass ends at once; any other one recovers, advances and
\* dispatches before its claims.
Wake ==
  /\ pass = "idle" /\ ~disposed /\ ~Paused
  /\ pass' = "scan"
  /\ UNCHANGED <<clock, leaseVars, executions, queued, disposed>>

Scanned ==
  /\ pass = "scan"
  /\ pass' = "claim"
  /\ UNCHANGED <<clock, leaseVars, executions, queued, disposed>>

MayClaim == ~disposed /\ ~Paused /\ Cardinality(executions) < Limit

ClaimRequested ==
  /\ pass = "claim" /\ MayClaim
  /\ pass' = "claiming"
  /\ UNCHANGED <<clock, leaseVars, executions, queued, disposed>>

PassOver ==
  /\ pass = "claim" /\ ~MayClaim
  /\ PassEnds
  /\ UNCHANGED <<clock, lease, timer, issued, acquiring, held, until, reported,
                 executions, queued, disposed>>

\* The claim answers: its run starts unless the runtime was disposed.
ClaimReturned(r) ==
  /\ pass = "claiming" /\ r \in queued
  /\ queued' = queued \ {r}
  /\ \/ /\ ~disposed
        /\ executions' = executions \cup {r}
        /\ pass' = "claim"
        /\ UNCHANGED draining
     \/ /\ disposed
        /\ PassEnds
        /\ UNCHANGED executions
  /\ UNCHANGED <<clock, lease, timer, issued, acquiring, held, until, reported, disposed>>

NothingQueued ==
  /\ pass = "claiming" /\ queued = {}
  /\ PassEnds
  /\ UNCHANGED <<clock, lease, timer, issued, acquiring, held, until, reported,
                 executions, queued, disposed>>

ExecutionDone(r) ==
  /\ r \in executions
  /\ executions' = executions \ {r}
  /\ UNCHANGED <<clock, leaseVars, pass, queued, disposed>>

\* A run is queued again: a user or its schedule starts it.
Enqueue(r) ==
  /\ r \notin queued \cup executions
  /\ queued' = queued \cup {r}
  /\ UNCHANGED <<clock, leaseVars, pass, executions, disposed>>

RuntimeDisposed ==
  /\ ~disposed /\ disposed' = TRUE
  /\ lease' = None /\ timer' = Never
  /\ UNCHANGED <<clock, issued, acquiring, draining, held, until, reported,
                 pass, executions, queued>>

-----------------------------------------------------------------------------
(* The lease.                                                              *)

\* Mutant: the pass in flight is not awaited.
AcquireUndrained(o) ==
  /\ ~Paused /\ acquiring[o] = 0 /\ issued < MaxLeases
  /\ issued' = issued + 1
  /\ lease' = [id |-> issued + 1, owner |-> o, expires |-> clock + LeaseTime]
  /\ timer' = clock + LeaseTime
  /\ acquiring' = [acquiring EXCEPT ![o] = issued + 1]
  /\ UNCHANGED <<clock, draining, held, until, reported, runtime>>

\* The pause takes effect before the pass in flight is awaited.
Acquire(o) ==
  /\ ~Paused /\ acquiring[o] = 0 /\ issued < MaxLeases
  /\ issued' = issued + 1
  /\ lease' = [id |-> issued + 1, owner |-> o, expires |-> clock + LeaseTime]
  /\ timer' = clock + LeaseTime
  /\ acquiring' = [acquiring EXCEPT ![o] = issued + 1]
  /\ draining' = [draining EXCEPT ![o] = pass # "idle"]
  /\ UNCHANGED <<clock, held, until, reported, runtime>>

\* Mutant: the current lease is not compared with the caller's.
ValidForAnyone(o, id) == Paused

Valid(o, id) == Paused /\ lease.id = id /\ lease.owner = o

\* renew(): the lease is extended, and the affected runs are read again.
Extend(o, id) ==
  /\ Valid(o, id)
  /\ lease' = [lease EXCEPT !.expires = clock + LeaseTime]
  /\ timer' = clock + LeaseTime
  /\ held' = [held EXCEPT ![o] = id]
  /\ until' = [until EXCEPT ![o] = clock + LeaseTime]
  /\ reported' = [reported EXCEPT ![o] = executions]

Granted(o) ==
  /\ acquiring[o] # 0 /\ ~draining[o]
  /\ Extend(o, acquiring[o])
  /\ acquiring' = [acquiring EXCEPT ![o] = 0]
  /\ UNCHANGED <<clock, issued, draining, runtime>>

\* The lease ran out while the pass was awaited.
NotGranted(o) ==
  /\ acquiring[o] # 0 /\ ~draining[o] /\ ~Valid(o, acquiring[o])
  /\ acquiring' = [acquiring EXCEPT ![o] = 0]
  /\ UNCHANGED <<clock, lease, timer, issued, draining, held, until, reported, runtime>>

Renew(o) ==
  /\ held[o] # 0 /\ Extend(o, held[o])
  /\ UNCHANGED <<clock, issued, acquiring, draining, runtime>>

Release(o) ==
  /\ held[o] # 0 /\ Valid(o, held[o])
  /\ lease' = None /\ timer' = Never
  /\ held' = [held EXCEPT ![o] = 0]
  /\ UNCHANGED <<clock, issued, acquiring, draining, until, reported, runtime>>

TimerFires ==
  /\ timer # Never /\ clock >= timer
  /\ lease' = None /\ timer' = Never
  /\ UNCHANGED <<clock, issued, acquiring, draining, held, until, reported, runtime>>

Tick ==
  /\ clock < MaxClock /\ clock' = clock + 1
  /\ UNCHANGED <<leaseVars, runtime>>

Next ==
  \/ Wake \/ Scanned \/ ClaimRequested \/ PassOver \/ NothingQueued
  \/ \E r \in Runs : ClaimReturned(r) \/ ExecutionDone(r) \/ Enqueue(r)
  \/ RuntimeDisposed \/ TimerFires \/ Tick
  \/ \E o \in Owners :
       Acquire(o) \/ Granted(o) \/ NotGranted(o) \/ Renew(o) \/ Release(o)

Spec == Init /\ [][Next]_vars

-----------------------------------------------------------------------------
(* Properties.                                                             *)

\* The type invariant of the lease and of the scheduler it pauses.
TypeOK ==
  /\ clock \in Nat /\ issued \in Nat
  /\ lease \in [id : Nat, owner : Owners \cup {"nobody"}, expires : Nat \cup {Never}]
  /\ timer \in Nat \cup {Never}
  /\ acquiring \in [Owners -> Nat] /\ held \in [Owners -> Nat]
  /\ draining \in [Owners -> BOOLEAN] /\ until \in [Owners -> Nat]
  /\ reported \in [Owners -> SUBSET Runs]
  /\ pass \in {"idle", "scan", "claim", "claiming"}
  /\ executions \in SUBSET Runs /\ queued \in SUBSET Runs
  /\ disposed \in BOOLEAN

\* An owner that was told its lease lasts until some time, and that has not
\* released it, can rely on it: up to that time no run executes that its last
\* answer did not report.  A claim requested before the pause was waited for,
\* none is requested during it, and nothing ends the pause early.
Promised(o) == held[o] # 0 /\ clock < until[o] /\ ~disposed

NothingStartsUnderLease ==
  \A o \in Owners : Promised(o) => executions \subseteq reported[o]

\* Two owners are never promised the pause at the same time, even when a
\* lease runs out while it is being granted.
OnePromise ==
  \A o, p \in Owners : Promised(o) /\ Promised(p) => o = p

-----------------------------------------------------------------------------
(* The inductive invariant.                                                *)

\* Ids grow: what an owner holds or waits for has been issued.
IdsIssued ==
  /\ lease.id <= issued /\ (lease # None => lease.id # 0)
  /\ \A o \in Owners : held[o] <= issued /\ acquiring[o] <= issued

\* The timer is armed for the end of the lease.
TimerArmed == lease # None => timer = lease.expires

\* The lease bears out the promise, and a run that executes was reported.
PromiseKept ==
  \A o \in Owners : Promised(o) =>
    /\ lease # None /\ lease.owner = o /\ lease.id = held[o] /\ lease.expires = until[o]
    /\ executions \subseteq reported[o]

\* Under a lease that was granted no claim is on its way; under one that is
\* being granted, its owner waits for the pass that has one.
ClaimsDrained ==
  \A o \in Owners :
    /\ Valid(o, held[o]) => pass # "claiming"
    /\ Valid(o, acquiring[o]) => draining[o] \/ pass # "claiming"

\* Together, and preserved by each step: what the lease and the pass leave to
\* each other (server-maintenance.ts, runtime.ts).
IInv == TypeOK /\ IdsIssued /\ TimerArmed /\ PromiseKept /\ ClaimsDrained
=============================================================================
