------------------------ MODULE ServerMaintenance_proofs ------------------------
(***************************************************************************)
(* Proofs about ServerMaintenance, for every set of owners and runs, every *)
(* length of the lease and every limit.                                    *)
(***************************************************************************)
EXTENDS ServerMaintenance, TLAPS

\* Nobody holds or awaits a lease, and nothing runs.
LEMMA InitOK == Init => IInv
<1> SUFFICES ASSUME Init PROVE IInv
  OBVIOUS
<1>1. TypeOK
  BY DEF Init, TypeOK, None, Never
<1>2. IdsIssued /\ TimerArmed /\ PromiseKept
  BY DEF Init, IdsIssued, TimerArmed, PromiseKept, Promised, None
<1>3. ClaimsDrained
  BY DEF Init, ClaimsDrained
<1> QED
  BY <1>1, <1>2, <1>3 DEF IInv

\* Each step keeps the types: times and ids only grow, and a pass that ends
\* wakes every owner.
LEMMA TypeStep == IInv /\ [Next]_vars => TypeOK'
<1> SUFFICES ASSUME TypeOK, [Next]_vars PROVE TypeOK'
  BY DEF IInv
<1>1. CASE Wake \/ Scanned \/ ClaimRequested \/ PassOver \/ NothingQueued
  BY <1>1
  DEF TypeOK, Wake, Scanned, ClaimRequested, PassOver, NothingQueued, PassEnds, leaseVars
<1>2. ASSUME NEW r \in Runs, ClaimReturned(r) \/ ExecutionDone(r) \/ Enqueue(r)
      PROVE  TypeOK'
  BY <1>2 DEF TypeOK, ClaimReturned, ExecutionDone, Enqueue, PassEnds, leaseVars
<1>3. CASE RuntimeDisposed \/ TimerFires \/ Tick
  <2>1. None \in [id : Nat, owner : Owners \cup {"nobody"}, expires : Nat \cup {Never}]
    BY DEF None
  <2>2. CASE Tick
    BY <2>2 DEF TypeOK, Tick, leaseVars, runtime
  <2>3. CASE RuntimeDisposed
    BY <2>1, <2>3 DEF TypeOK, RuntimeDisposed
  <2>4. CASE TimerFires
    BY <2>1, <2>4 DEF TypeOK, TimerFires, runtime
  <2> QED
    BY <1>3, <2>2, <2>3, <2>4
<1>4. ASSUME NEW o \in Owners, Acquire(o)
      PROVE  TypeOK'
  BY <1>4, MaintenanceAssumption DEF TypeOK, Acquire, runtime
<1>5. ASSUME NEW o \in Owners, NEW id \in Nat, Extend(o, id),
             UNCHANGED <<clock, issued, draining, runtime>>, acquiring' \in [Owners -> Nat]
      PROVE  TypeOK'
  <2> DEFINE end == clock + LeaseTime
  <2>1. end \in Nat
    BY MaintenanceAssumption DEF TypeOK
  <2> HIDE DEF end
  <2>2. lease' = [lease EXCEPT !.expires = end] /\ timer' = end
        /\ until' = [until EXCEPT ![o] = end]
    BY <1>5 DEF Extend, end
  <2>3. lease' \in [id : Nat, owner : Owners \cup {"nobody"}, expires : Nat \cup {Never}]
    BY <2>1, <2>2 DEF TypeOK
  <2>4. held' \in [Owners -> Nat] /\ reported' \in [Owners -> SUBSET Runs]
    BY <1>5 DEF Extend, TypeOK
  <2> QED
    BY <1>5, <2>1, <2>2, <2>3, <2>4 DEF TypeOK, runtime
<1>6. ASSUME NEW o \in Owners, Granted(o) \/ Renew(o)
      PROVE  TypeOK'
  BY <1>5, <1>6 DEF TypeOK, Granted, Renew
<1>7. ASSUME NEW o \in Owners, NotGranted(o) \/ Release(o)
      PROVE  TypeOK'
  BY <1>7 DEF TypeOK, NotGranted, Release, None, Never, runtime
<1>8. CASE UNCHANGED vars
  BY <1>8 DEF TypeOK, vars, leaseVars, runtime
<1> QED
  BY <1>1, <1>2, <1>3, <1>4, <1>6, <1>7, <1>8 DEF Next

\* Ids are handed out in order.
LEMMA IdsStep == IInv /\ [Next]_vars => IdsIssued'
<1> SUFFICES ASSUME TypeOK, IdsIssued, [Next]_vars PROVE IdsIssued'
  BY DEF IInv
<1>1. CASE UNCHANGED <<lease, issued, held, acquiring>>
  BY <1>1 DEF IdsIssued
<1>2. CASE RuntimeDisposed \/ TimerFires
  BY <1>2 DEF RuntimeDisposed, TimerFires, IdsIssued, TypeOK, None
<1>3. ASSUME NEW o \in Owners, Acquire(o)
      PROVE  IdsIssued'
  BY <1>3 DEF Acquire, IdsIssued, TypeOK
<1>4. ASSUME NEW o \in Owners, Granted(o) \/ Renew(o)
      PROVE  IdsIssued'
  <2>1. PICK id \in Nat : Extend(o, id) /\ id <= issued /\ issued' = issued
    BY <1>4 DEF Granted, Renew, IdsIssued, TypeOK
  <2>2. lease'.id = lease.id /\ lease.id # 0
    BY <2>1 DEF Extend, Valid, Paused, IdsIssued, TypeOK
  <2>3. \A p \in Owners : held'[p] <= issued
    BY <2>1 DEF Extend, IdsIssued, TypeOK
  <2>4. \A p \in Owners : acquiring'[p] <= issued
    BY <1>4 DEF Granted, Renew, IdsIssued, TypeOK
  <2> QED
    BY <2>1, <2>2, <2>3, <2>4 DEF IdsIssued
<1>5. ASSUME NEW o \in Owners, NotGranted(o) \/ Release(o)
      PROVE  IdsIssued'
  BY <1>5 DEF NotGranted, Release, IdsIssued, TypeOK, None
<1>6. CASE Wake \/ Scanned \/ ClaimRequested \/ PassOver \/ NothingQueued \/ Tick
           \/ \E r \in Runs : ClaimReturned(r) \/ ExecutionDone(r) \/ Enqueue(r)
  BY <1>1, <1>6
  DEF Wake, Scanned, ClaimRequested, PassOver, NothingQueued, Tick, ClaimReturned,
      ExecutionDone, Enqueue, leaseVars
<1> QED
  BY <1>1, <1>2, <1>3, <1>4, <1>5, <1>6 DEF Next, vars, leaseVars

\* Whoever changes the lease arms the timer anew.
LEMMA TimerStep == IInv /\ [Next]_vars => TimerArmed'
<1> SUFFICES ASSUME TypeOK, TimerArmed, [Next]_vars PROVE TimerArmed'
  BY DEF IInv
<1>1. CASE UNCHANGED <<lease, timer>>
  BY <1>1 DEF TimerArmed
<1>2. ASSUME NEW o \in Owners, NEW id \in Nat, Extend(o, id)
      PROVE  TimerArmed'
  BY <1>2 DEF Extend, TimerArmed, TypeOK
<1>3. ASSUME NEW o \in Owners, Acquire(o) \/ Granted(o) \/ Renew(o)
      PROVE  TimerArmed'
  BY <1>2, <1>3 DEF Acquire, Granted, Renew, TimerArmed, TypeOK
<1>4. CASE RuntimeDisposed \/ TimerFires \/ \E o \in Owners : Release(o)
  BY <1>4 DEF RuntimeDisposed, TimerFires, Release, TimerArmed
<1>5. CASE Wake \/ Scanned \/ ClaimRequested \/ PassOver \/ NothingQueued \/ Tick
           \/ (\E r \in Runs : ClaimReturned(r) \/ ExecutionDone(r) \/ Enqueue(r))
           \/ \E o \in Owners : NotGranted(o)
  BY <1>1, <1>5
  DEF Wake, Scanned, ClaimRequested, PassOver, NothingQueued, Tick, ClaimReturned,
      ExecutionDone, Enqueue, NotGranted, leaseVars
<1> QED
  BY <1>1, <1>3, <1>4, <1>5 DEF Next, vars, leaseVars

\* A promise is in force only while the lease pauses the scheduler.
LEMMA PromisePauses ==
  ASSUME TypeOK, PromiseKept, NEW o \in Owners, Promised(o)
  PROVE  Paused
BY DEF PromiseKept, Promised, Paused

\* What was promised is kept: no other lease is issued meanwhile, none ends
\* early, and no claim is on its way that was not reported.
LEMMA PromiseStep == IInv /\ [Next]_vars => PromiseKept'
<1> SUFFICES ASSUME IInv, [Next]_vars, NEW o \in Owners, Promised(o)'
             PROVE  /\ lease' # None /\ lease'.owner = o /\ lease'.id = held'[o]
                    /\ lease'.expires = until'[o] /\ executions' \subseteq reported'[o]
  BY DEF PromiseKept
<1> DEFINE Goal == /\ lease' # None /\ lease'.owner = o /\ lease'.id = held'[o]
                   /\ lease'.expires = until'[o] /\ executions' \subseteq reported'[o]
<1> USE DEF IInv
<1>1. ASSUME clock' >= clock, clock' \in Nat, UNCHANGED <<held, until, disposed>>
      PROVE  Promised(o)
  <2>1. held[o] # 0 /\ ~disposed /\ clock' < until[o]
    BY <1>1 DEF Promised
  <2>2. clock \in Nat /\ until[o] \in Nat
    BY DEF TypeOK
  <2>3. clock < until[o]
    BY <1>1, <2>1, <2>2
  <2> QED
    BY <2>1, <2>3 DEF Promised
<1>2. ASSUME UNCHANGED <<held, until, reported, disposed, lease>>, executions' \subseteq executions,
             clock' >= clock, clock' \in Nat
      PROVE  Goal
  BY <1>1, <1>2 DEF PromiseKept
<1>3. clock \in Nat /\ clock >= clock /\ clock + 1 \in Nat /\ clock + 1 >= clock
  BY DEF TypeOK
<1>4. CASE UNCHANGED vars
  BY <1>2, <1>3, <1>4 DEF vars, leaseVars, runtime
<1>5. CASE Wake \/ Scanned \/ ClaimRequested \/ PassOver \/ NothingQueued
  BY <1>2, <1>3, <1>5
  DEF Wake, Scanned, ClaimRequested, PassOver, NothingQueued, leaseVars
<1>6. ASSUME NEW r \in Runs, ExecutionDone(r) \/ Enqueue(r)
      PROVE  Goal
  BY <1>2, <1>3, <1>6 DEF ExecutionDone, Enqueue, leaseVars
<1>7. ASSUME NEW r \in Runs, ClaimReturned(r)
      PROVE  Goal
  <2>1. Promised(o)
    BY <1>1, <1>3, <1>7 DEF ClaimReturned
  <2>2. Valid(o, held[o])
    BY <2>1, PromisePauses DEF PromiseKept, Valid
  <2> QED
    BY <1>7, <2>2 DEF ClaimReturned, ClaimsDrained
<1>8. CASE Tick
  BY <1>2, <1>3, <1>8 DEF Tick, leaseVars, runtime
<1>9. CASE RuntimeDisposed
  BY <1>9 DEF RuntimeDisposed, Promised
<1>10. CASE TimerFires
  <2>1. Promised(o)
    BY <1>1, <1>3, <1>10 DEF TimerFires, runtime
  <2>2. clock < timer
    BY <2>1 DEF PromiseKept, TimerArmed, Promised
  <2>3. timer \in Nat \cup {Never} /\ clock \in Nat
    BY DEF TypeOK
  <2> QED
    BY <1>10, <2>2, <2>3 DEF TimerFires, Never
<1>11. ASSUME NEW p \in Owners, Acquire(p) \/ NotGranted(p)
      PROVE  Goal
  <2>1. Promised(o)
    BY <1>1, <1>3, <1>11 DEF Acquire, NotGranted, runtime
  <2> QED
    BY <1>2, <1>3, <1>11, <2>1, PromisePauses DEF Acquire, NotGranted, runtime
<1>12. ASSUME NEW p \in Owners, Granted(p) \/ Renew(p)
      PROVE  Goal
  <2>1. PICK id \in Nat : Extend(p, id) /\ UNCHANGED <<clock, executions, disposed>>
    BY <1>12 DEF Granted, Renew, TypeOK, runtime
  <2>2. CASE p = o
    <3>1. /\ lease' = [lease EXCEPT !.expires = clock + LeaseTime]
          /\ held'[o] = id /\ until'[o] = clock + LeaseTime /\ reported'[o] = executions
      BY <2>1, <2>2 DEF Extend, TypeOK
    <3>2. lease.id = id /\ lease.owner = o /\ lease.id # 0
      BY <2>1, <2>2 DEF Extend, Valid, Paused, IdsIssued
    <3>3. lease'.id = id /\ lease'.owner = o /\ lease'.expires = clock + LeaseTime
      BY <3>1, <3>2 DEF TypeOK
    <3> QED
      BY <2>1, <3>1, <3>2, <3>3 DEF None
  <2>3. CASE p # o
    <3>1. held'[o] = held[o] /\ until'[o] = until[o] /\ lease.owner = p
      BY <2>1, <2>3 DEF Extend, Valid, TypeOK
    <3>2. Promised(o)
      BY <2>1, <3>1 DEF Promised
    <3> QED
      BY <2>3, <3>1, <3>2 DEF PromiseKept
  <2> QED
    BY <2>2, <2>3
<1>13. ASSUME NEW p \in Owners, Release(p)
      PROVE  Goal
  <2>1. CASE p = o
    BY <1>13, <2>1 DEF Release, Promised, TypeOK
  <2>2. CASE p # o
    <3>1. held'[o] = held[o] /\ lease.owner = p
      BY <1>13, <2>2 DEF Release, Valid, TypeOK
    <3>2. Promised(o)
      BY <1>13, <3>1 DEF Release, Promised, runtime
    <3> QED
      BY <2>2, <3>1, <3>2 DEF PromiseKept
  <2> QED
    BY <2>1, <2>2
<1> QED
  BY <1>4, <1>5, <1>6, <1>7, <1>8, <1>9, <1>10, <1>11, <1>12, <1>13 DEF Next

\* Nothing lets a claim start under a lease that is granted, or slip past the
\* owner that waits for the pass.
LEMMA DrainedStep == IInv /\ [Next]_vars => ClaimsDrained'
<1> SUFFICES ASSUME IInv, [Next]_vars, NEW o \in Owners
             PROVE  /\ Valid(o, held[o])' => pass' # "claiming"
                    /\ Valid(o, acquiring[o])' => draining'[o] \/ pass' # "claiming"
  BY DEF ClaimsDrained
<1> DEFINE Goal == /\ Valid(o, held[o])' => pass' # "claiming"
                   /\ Valid(o, acquiring[o])' => draining'[o] \/ pass' # "claiming"
<1> USE DEF IInv
<1>1. CASE pass' # "claiming"
  BY <1>1
<1>2. CASE UNCHANGED <<clock, lease, held, acquiring, draining, pass>>
  BY <1>2 DEF ClaimsDrained, Valid, Paused
<1>3. CASE Wake \/ Scanned \/ PassOver \/ NothingQueued \/ \E r \in Runs : ClaimReturned(r)
  BY <1>1, <1>3 DEF Wake, Scanned, PassOver, NothingQueued, ClaimReturned, PassEnds
<1>4. CASE ClaimRequested
  <2>1. ~Paused'
    BY <1>4 DEF ClaimRequested, MayClaim, Paused, leaseVars
  <2> QED
    BY <2>1 DEF Valid
<1>5. CASE \E r \in Runs : ExecutionDone(r) \/ Enqueue(r)
  BY <1>2, <1>5 DEF ExecutionDone, Enqueue, leaseVars
<1>6. CASE RuntimeDisposed \/ TimerFires \/ \E p \in Owners : Release(p)
  BY <1>6 DEF RuntimeDisposed, TimerFires, Release, Valid, Paused
<1>7. CASE Tick
  <2>1. Paused' => Paused
    BY <1>7 DEF Tick, Paused, leaseVars, TypeOK, Never
  <2> QED
    BY <1>7, <2>1 DEF Tick, Valid, ClaimsDrained, leaseVars, runtime
<1>8. ASSUME NEW p \in Owners, Acquire(p)
      PROVE  Goal
  <2>1. lease'.id = issued + 1 /\ held' = held /\ held[o] < issued + 1
    BY <1>8 DEF Acquire, IdsIssued, TypeOK
  <2>2. held[o] \in Nat /\ issued \in Nat
    BY DEF TypeOK
  <2>3. ~Valid(o, held[o])'
    BY <2>1, <2>2 DEF Valid
  <2>4. CASE p = o
    BY <1>8, <2>3, <2>4 DEF Acquire, TypeOK, runtime
  <2>5. CASE p # o
    BY <1>8, <2>3, <2>5 DEF Acquire, TypeOK, Valid
  <2> QED
    BY <2>4, <2>5
<1>9. ASSUME NEW p \in Owners, Granted(p)
      PROVE  Goal
  <2>1. Valid(p, acquiring[p]) /\ ~draining[p] /\ pass' = pass
    BY <1>9 DEF Granted, Extend, runtime
  <2> QED
    BY <1>1, <2>1 DEF ClaimsDrained
<1>10. ASSUME NEW p \in Owners, Renew(p)
      PROVE  Goal
  <2>1. Valid(p, held[p]) /\ pass' = pass
    BY <1>10 DEF Renew, Extend, runtime
  <2> QED
    BY <1>1, <2>1 DEF ClaimsDrained
<1>11. ASSUME NEW p \in Owners, NotGranted(p)
      PROVE  Goal
  <2>1. UNCHANGED <<clock, lease, held, draining, pass>>
    BY <1>11 DEF NotGranted, runtime
  <2>2. Valid(o, acquiring[o])' => Valid(o, acquiring[o])
    BY <1>11, <2>1 DEF NotGranted, Valid, Paused, TypeOK, IdsIssued
  <2> QED
    BY <2>1, <2>2 DEF ClaimsDrained, Valid, Paused
<1> QED
  BY <1>2, <1>3, <1>4, <1>5, <1>6, <1>7, <1>8, <1>9, <1>10, <1>11
  DEF Next, vars, leaseVars, runtime

\* Every step keeps the inductive invariant.
LEMMA Step == IInv /\ [Next]_vars => IInv'
BY TypeStep, IdsStep, TimerStep, PromiseStep, DrainedStep DEF IInv

\* The inductive invariant holds of all behaviours: owners, timer, pass and
\* disposal in every order (server-maintenance.ts).
THEOREM MaintenanceSafety == Spec => []IInv
BY InitOK, Step, PTL DEF Spec

\* Under a lease an owner can rely on, no run executes that it was not told of.
THEOREM LeaseHolds == Spec => []NothingStartsUnderLease
<1>1. IInv => NothingStartsUnderLease
  BY DEF IInv, PromiseKept, NothingStartsUnderLease
<1> QED
  BY <1>1, MaintenanceSafety, PTL

\* The pause is never promised to two owners at once.
THEOREM PromisedOnce == Spec => []OnePromise
<1>1. IInv => OnePromise
  BY DEF IInv, PromiseKept, OnePromise
<1> QED
  BY <1>1, MaintenanceSafety, PTL
=============================================================================
