------------------------ MODULE ScheduledRuns_proofs ------------------------
(***************************************************************************)
(* Proofs about ScheduledRuns, for every set of runs and tasks and every   *)
(* value of the limits and the bounds.                                     *)
(***************************************************************************)
EXTENDS ScheduledRuns, TLAPS

-----------------------------------------------------------------------------
(* The operators on rows keep rows.                                        *)

LEMMA Constants ==
  /\ Never \in Time /\ \A n \in Nat : n \in Time
  /\ Finished \subseteq Statuses /\ Unfinished \subseteq Statuses
  /\ "absent" \in Statuses
BY DEF Time, Statuses

LEMMA NewRowType ==
  ASSUME NEW r \in Runs, NEW status \in Statuses
  PROVE  NewRow(r, status) \in Row
<1>1. (r \in BoundedRuns) \in BOOLEAN
  OBVIOUS
<1>2. Absent \in Row
  BY Constants DEF Absent, Row
<1> QED
  BY <1>1, <1>2, Zenon DEF NewRow, Row

LEMMA StoredType ==
  ASSUME NEW x \in Row
  PROVE  Stored(x) \in Row
BY DEF Stored, Row

LEMMA PutType ==
  ASSUME row \in [Runs -> Row], NEW r \in Runs, NEW x \in Row, Put(r, x)
  PROVE  row' \in [Runs -> Row]
BY StoredType DEF Put

LEMMA AdvancedType ==
  ASSUME NEW x \in Row
  PROVE  Advanced(x) \in Row
<1>1. [x EXCEPT !.status = "failed", !.nextAt = Never, !.resultRev = @ + 1] \in Row
  <2>1. x.resultRev + 1 \in Nat /\ "failed" \in Statuses
    BY DEF Row, Statuses, Finished
  <2> QED
    BY <2>1, Constants DEF Row
<1>2. [x EXCEPT !.status = "queued"] \in Row
  BY DEF Row, Statuses, Finished, Unfinished
<1> QED
  BY <1>1, <1>2, StoredType DEF Advanced

LEMMA ClaimedType ==
  ASSUME TypeOK, NEW r \in Runs, NEW x \in Row
  PROVE  Claimed(r, x) \in Row
<1> DEFINE n == x.count + (IF Continuing(x) /\ ~x.input THEN 1 ELSE 0)
<1>1. n \in Nat
  BY DEF Row
<1> HIDE DEF n
<1>2. attempts[r].n + 1 \in Nat /\ inc \in Nat /\ "running" \in Statuses
  BY DEF TypeOK, Statuses, Unfinished
<1> QED
  BY <1>1, <1>2, Constants DEF Claimed, n, Row

LEMMA InterruptedType ==
  ASSUME NEW x \in Row
  PROVE  Interrupted(x) \in Row
<1>1. x.resultRev + 1 \in Nat /\ "failed" \in Statuses
  BY DEF Row, Statuses, Finished
<1> QED
  BY <1>1, Constants DEF Interrupted, Row

LEMMA ContinueAtType ==
  ASSUME TypeOK, NEW x \in Row, NEW rec \in Recovery, x.count < MaxAttempts
  PROVE  ContinueAt(x, rec) \in Nat
<1> DEFINE wait == IF rec.kind = "continue" /\ ~rec.repeated THEN 0 ELSE Delay[x.count]
<1>1. wait \in Nat
  BY LimitAssumption DEF Row
<1>2. clock + wait \in Nat
  BY <1>1 DEF TypeOK
<1> HIDE DEF wait
<1>3. (IF clock + wait >= rec.notBefore THEN clock + wait ELSE rec.notBefore) \in Nat
  BY <1>2 DEF Recovery, Time, Never
<1> QED
  BY <1>3 DEF ContinueAt, wait

LEMMA ScheduleContinuationType ==
  ASSUME TypeOK, NEW r \in Runs, NEW x \in Row, NEW rec \in Recovery
  PROVE  ScheduleContinuation(r, x, rec) \in Row
<1>1. [x EXCEPT !.notBefore = rec.notBefore] \in Row
  BY DEF Row, Recovery
<1>2. ASSUME MayContinue(r, x, rec)
      PROVE  [x EXCEPT !.notBefore = rec.notBefore, !.deadline = DeadlineOf(x),
                 !.nextAt = IF ContinueAt(x, rec) < DeadlineOf(x)
                            THEN ContinueAt(x, rec) ELSE Never] \in Row
  <2>1. ContinueAt(x, rec) \in Nat
    BY <1>2, ContinueAtType DEF MayContinue
  <2>2. DeadlineOf(x) \in Time
    BY LimitAssumption DEF DeadlineOf, Row, TypeOK, Time
  <2> QED
    BY <2>1, <2>2 DEF Row, Recovery, Time
<1> QED
  BY <1>1, <1>2 DEF ScheduleContinuation

LEMMA FinishedRowType ==
  ASSUME TypeOK, NEW r \in Runs, NEW x \in Row, NEW res, NEW rec \in Recovery,
         NEW ms \in Nat, NEW aborted \in BOOLEAN
  PROVE  FinishedRow(r, x, res, rec, ms, aborted) \in Row
<1> DEFINE status == IF x.status = "stopping" \/ aborted THEN "cancelled"
                     ELSE IF res = "succeeded" THEN "completed" ELSE "failed"
           ended  == Ended(x, status, ms)
           next   == ScheduleContinuation(r, ended, rec)
<1>1. status \in Statuses
  BY DEF Statuses, Finished
<1> HIDE DEF status
<1>2. ended \in Row
  <2> DEFINE spent == IF x.cont THEN x.spent + ms ELSE x.spent
  <2>1. spent \in Nat
    BY DEF Row
  <2> HIDE DEF spent
  <2> QED
    BY <1>1, <2>1, Constants DEF Ended, spent, Row
<1> HIDE DEF ended
<1>3. next \in Row
  BY <1>2, ScheduleContinuationType
<1> HIDE DEF next
<1>4. ASSUME NEW y \in Row
      PROVE  Final(y) \in Row
  <2>1. y.resultRev + 1 \in Nat
    BY DEF Row
  <2> QED
    BY <2>1, Constants DEF Final, Row
<1>5. [next EXCEPT !.status = "waiting"] \in Row
  BY <1>3 DEF Row, Statuses, Unfinished
<1>6. [next EXCEPT !.nextAt = Never] \in Row
  BY <1>3 DEF Row, Time
<1> QED
  BY <1>2, <1>4, <1>5, <1>6 DEF FinishedRow, status, ended, next

-----------------------------------------------------------------------------
(* The type invariant.                                                     *)

LEMMA RecoverRunsType ==
  ASSUME TypeOK, NEW owner \in Nat, NEW reused \in SUBSET Runs,
         RecoverRuns(owner, reused)
  PROVE  row' \in [Runs -> Row] /\ attempts' \in [Runs -> [n : Nat, open : SUBSET Nat]]
<1> DEFINE dead == {r \in Runs : Abandoned(r, owner) /\ ~SeemsAlive(r, reused)}
<1>1. ASSUME NEW r \in Runs
      PROVE  /\ Stored(Interrupted(row[r])) \in Row
             /\ Stored([row[r] EXCEPT !.status = "waiting"]) \in Row
             /\ row[r] \in Row
  <2>1. row[r] \in Row
    BY DEF TypeOK
  <2>2. [row[r] EXCEPT !.status = "waiting"] \in Row
    BY <2>1 DEF Row, Statuses, Unfinished
  <2> QED
    BY <2>1, <2>2, StoredType, InterruptedType
<1>2. row' \in [Runs -> Row]
  BY <1>1, Zenon DEF RecoverRuns
<1>3. \A r \in Runs : [attempts[r] EXCEPT !.open = @ \ {row[r].active}]
                        \in [n : Nat, open : SUBSET Nat]
  BY DEF TypeOK
<1>4. attempts' \in [Runs -> [n : Nat, open : SUBSET Nat]]
  <2>1. \A r \in Runs : attempts[r] \in [n : Nat, open : SUBSET Nat]
    BY DEF TypeOK
  <2> QED
    BY <1>3, <2>1, Zenon DEF RecoverRuns
<1> QED
  BY <1>2, <1>4

LEMMA CloseAttemptType ==
  ASSUME TypeOK, NEW r \in Runs, CloseAttempt(r)
  PROVE  attempts' \in [Runs -> [n : Nat, open : SUBSET Nat]]
BY DEF CloseAttempt, TypeOK

LEMMA FinishExecutionType ==
  ASSUME TypeOK, NEW r \in Runs, NEW res, NEW rec \in Recovery, NEW ms \in Nat,
         NEW aborted \in BOOLEAN, FinishExecution(r, res, rec, ms, aborted)
  PROVE  row' \in [Runs -> Row] /\ attempts' \in [Runs -> [n : Nat, open : SUBSET Nat]]
<1>1. row \in [Runs -> Row] /\ row[r] \in Row
  BY DEF TypeOK
<1>2. FinishedRow(r, row[r], res, rec, ms, aborted) \in Row
  BY <1>1, FinishedRowType
<1> QED
  BY <1>1, <1>2, PutType, CloseAttemptType DEF FinishExecution

LEMMA RequestType ==
  ASSUME TypeOK, NEW r \in Runs, Request(r)
  PROVE  TypeOK'
<1>1. row \in [Runs -> Row] /\ row[r] \in Row /\ clock \in Time
  BY Constants DEF TypeOK
<1>2. {"queued", "cancelled", "stopping"} \subseteq Statuses
  BY DEF Statuses, Finished, Unfinished
<1>3. CASE CreateManualRun(r) \/ CreateQuickInputRun(r)
  <2>1. row' \in [Runs -> Row]
    BY <1>1, <1>2, <1>3, NewRowType, PutType DEF CreateManualRun, CreateQuickInputRun
  <2> QED
    BY <1>3, <2>1 DEF TypeOK, CreateManualRun, CreateQuickInputRun, process, world
<1>4. CASE ArchiveQuickInputRun(r)
  <2>1. [row[r] EXCEPT !.archived = TRUE] \in Row
    BY <1>1 DEF Row
  <2>2. row' \in [Runs -> Row]
    BY <1>1, <1>4, <2>1, PutType DEF ArchiveQuickInputRun
  <2> QED
    BY <1>4, <2>2 DEF TypeOK, ArchiveQuickInputRun, process, world
<1>5. CASE RequestRunStop(r)
  <2>1. [row[r] EXCEPT !.status = "cancelled", !.nextAt = Never] \in Row
    BY <1>1, <1>2, Constants DEF Row
  <2>2. [row[r] EXCEPT !.status = "stopping"] \in Row
    BY <1>1, <1>2 DEF Row
  <2>3. row' \in [Runs -> Row]
    BY <1>1, <1>5, <2>1, <2>2, PutType DEF RequestRunStop
  <2> QED
    BY <1>5, <2>3 DEF TypeOK, RequestRunStop, process, world
<1>6. CASE ContinueNow(r)
  <2>1. [row[r] EXCEPT !.nextAt = clock] \in Row
    BY <1>1 DEF Row
  <2>2. row' \in [Runs -> Row]
    BY <1>1, <1>6, <2>1, PutType DEF ContinueNow
  <2> QED
    BY <1>6, <2>2 DEF TypeOK, ContinueNow, process, world
<1>7. CASE ReplyRun(r)
  <2>1. [row[r] EXCEPT !.status = "queued", !.recoverable = FALSE,
                       !.input = TRUE, !.cont = TRUE, !.nextAt = Never] \in Row
    BY <1>1, <1>2, Constants DEF Row
  <2>2. row' \in [Runs -> Row]
    BY <1>1, <1>7, <2>1, PutType DEF ReplyRun
  <2>3. replies' \in [Runs -> Nat]
    BY <1>7 DEF ReplyRun, TypeOK
  <2> QED
    BY <1>7, <2>2, <2>3 DEF TypeOK, ReplyRun, process, world
<1> QED
  BY <1>3, <1>4, <1>5, <1>6, <1>7 DEF Request

LEMMA PassType ==
  ASSUME TypeOK, Pass
  PROVE  TypeOK'
<1>1. \A q \in Runs : row[q] \in Row /\ Advanced(row[q]) \in Row
  BY AdvancedType DEF TypeOK
<1>2. CASE PassStart
  <2>1. PICK reused \in SUBSET Runs : RecoverRuns(inc, reused)
    BY <1>2 DEF PassStart
  <2>2. row' \in [Runs -> Row] /\ attempts' \in [Runs -> [n : Nat, open : SUBSET Nat]]
    BY <2>1, RecoverRunsType DEF TypeOK
  <2> QED
    BY <1>2, <2>2 DEF TypeOK, PassStart, world
<1>3. CASE AdvanceContinuations
  <2>1. row' \in [Runs -> Row]
    BY <1>1, <1>3, Zenon DEF AdvanceContinuations
  <2> QED
    BY <1>3, <2>1 DEF TypeOK, AdvanceContinuations, world
<1>4. CASE DispatchDone
  BY <1>4 DEF TypeOK, DispatchDone, store, world
<1>5. CASE NothingToClaim
  <2>1. row' \in [Runs -> Row]
    BY <1>1, <1>5, Zenon DEF NothingToClaim
  <2> QED
    BY <1>5, <2>1 DEF TypeOK, NothingToClaim, world
<1>6. CASE PassDone
  BY <1>6 DEF TypeOK, PassDone, store, world
<1>7. CASE Execute
  BY <1>7 DEF TypeOK, Execute, ExecStates, store, world
<1>8. ASSUME NEW r \in Runs, ClaimNextRun(r)
      PROVE  TypeOK'
  <2>1. Claimed(r, Advanced(row[r])) \in Row
    BY <1>1, ClaimedType
  <2>2. row' \in [Runs -> Row]
    BY <1>1, <1>8, <2>1, Zenon DEF ClaimNextRun
  <2>3. attempts' \in [Runs -> [n : Nat, open : SUBSET Nat]]
    BY <1>8 DEF ClaimNextRun, TypeOK
  <2> QED
    BY <1>8, <2>2, <2>3 DEF TypeOK, ClaimNextRun, world
<1>9. ASSUME NEW r \in Runs, ClaimRefused(r)
      PROVE  TypeOK'
  BY <1>9 DEF TypeOK, ClaimRefused, store, world
<1> QED
  BY <1>2, <1>3, <1>4, <1>5, <1>6, <1>7, <1>8, <1>9 DEF Pass

LEMMA SetExecType ==
  ASSUME exec \in [Runs -> ExecStates], NEW r \in Runs, NEW state \in ExecStates,
         SetExec(r, state)
  PROVE  exec' \in [Runs -> ExecStates]
BY DEF SetExec

LEMMA FinishType ==
  ASSUME TypeOK, NEW r \in Runs, Finish(r)
  PROVE  TypeOK'
<1> DEFINE none == [kind |-> "none", repeated |-> FALSE, notBefore |-> Never]
<1>1. none \in Recovery
  BY Constants DEF Recovery
<1>2. Recoveries \subseteq Recovery
  <2>1. {Never, clock + 1} \subseteq Time
    BY Constants DEF TypeOK
  <2> QED
    BY <2>1 DEF Recoveries, Recovery
<1>3. abort[r] \in BOOLEAN
  BY DEF TypeOK
<1>4. row' \in [Runs -> Row] /\ attempts' \in [Runs -> [n : Nat, open : SUBSET Nat]]
  <2>1. CASE \E res \in {"succeeded", "blocked", "failed"}, rec \in Recoveries,
               ms \in {0, 1} : FinishExecution(r, res, rec, ms, abort[r])
    BY <1>2, <1>3, <2>1, FinishExecutionType
  <2>2. CASE \E ms \in {0, 1} : FinishExecution(r, "error", none, ms, abort[r])
    BY <1>1, <1>3, <2>2, FinishExecutionType
  <2> QED
    BY <2>1, <2>2 DEF Finish
<1>5. exec' \in [Runs -> ExecStates]
  BY SetExecType DEF Finish, TypeOK, ExecStates
<1>6. abort' \in [Runs -> BOOLEAN]
  BY DEF Finish, TypeOK
<1> QED
  BY <1>4, <1>5, <1>6 DEF TypeOK, Finish, world

LEMMA ExecutionType ==
  ASSUME TypeOK, NEW r \in Runs, Execution(r)
  PROVE  TypeOK'
<1>1. \A state \in ExecStates : SetExec(r, state) => exec' \in [Runs -> ExecStates]
  BY SetExecType DEF TypeOK
<1>2. {"none", "starting", "spawned", "registered", "prompted", "closing"} \subseteq ExecStates
  BY DEF ExecStates
<1>3. row[r] \in Row /\ row[r].active \in Nat
  BY DEF TypeOK, Row
<1>4. CASE StartFails(r)
  BY <1>1, <1>2, <1>4 DEF TypeOK, StartFails, store, world
<1>5. CASE Spawn(r)
  <2>1. live' \in [Runs -> SUBSET Nat]
    BY <1>3, <1>5 DEF Spawn, TypeOK
  <2> QED
    BY <1>1, <1>2, <1>5, <2>1 DEF TypeOK, Spawn, store
<1>6. CASE SetRunOwnerPid(r)
  <2>1. [row[r] EXCEPT !.pid = row[r].active] \in Row
    BY <1>3 DEF Row
  <2>2. row' = [row EXCEPT ![r] = [row[r] EXCEPT !.pid = row[r].active]]
    BY <1>6 DEF SetRunOwnerPid, TypeOK
  <2>3. row' \in [Runs -> Row]
    BY <2>1, <2>2 DEF TypeOK
  <2> QED
    BY <1>1, <1>2, <1>6, <2>3 DEF TypeOK, SetRunOwnerPid, world
<1>7. CASE SendPrompt(r)
  <2>1. prompted' \in [Runs -> SUBSET Nat]
    BY <1>3, <1>7 DEF SendPrompt, TypeOK
  <2> QED
    BY <1>1, <1>2, <1>7, <2>1 DEF TypeOK, SendPrompt, store
<1>8. CASE AbortedBeforePrompt(r)
  BY <1>1, <1>2, <1>8 DEF TypeOK, AbortedBeforePrompt, store, world
<1>9. CASE Abort(r)
  BY <1>9 DEF TypeOK, Abort, store, world
<1>10. CASE Finish(r)
  BY <1>10, FinishType
<1> QED
  BY <1>4, <1>5, <1>6, <1>7, <1>8, <1>9, <1>10 DEF Execution

LEMMA OtherStepsType ==
  ASSUME TypeOK, NEW r \in Runs,
         \/ MaterializeScheduledRun(r) \/ SetRunThread(r) \/ ProcessExit(r)
         \/ OwnerPidNotStored(r) \/ ResultNotStored(r)
  PROVE  TypeOK'
<1>1. row \in [Runs -> Row] /\ row[r] \in Row
  BY DEF TypeOK
<1>2. {"none", "closing"} \subseteq ExecStates
  BY DEF ExecStates
<1>3. CASE MaterializeScheduledRun(r)
  <2>1. {"queued", "skipped", "failed"} \subseteq Statuses
    BY DEF Statuses, Finished, Unfinished
  <2>2. row' \in [Runs -> Row]
    BY <1>1, <1>3, <2>1, NewRowType, PutType DEF MaterializeScheduledRun
  <2> QED
    BY <1>3, <2>2 DEF TypeOK, MaterializeScheduledRun, process, world
<1>4. CASE SetRunThread(r)
  <2>1. [row[r] EXCEPT !.thread = TRUE] \in Row
    BY <1>1 DEF Row
  <2>2. row' \in [Runs -> Row]
    BY <1>1, <1>4, <2>1, PutType DEF SetRunThread
  <2> QED
    BY <1>4, <2>2 DEF TypeOK, SetRunThread, process, world
<1>5. CASE ProcessExit(r)
  BY <1>5 DEF TypeOK, ProcessExit, store, process
<1>6. CASE OwnerPidNotStored(r)
  <2>1. exec' \in [Runs -> ExecStates]
    BY <1>2, <1>6, SetExecType DEF OwnerPidNotStored, TypeOK
  <2> QED
    BY <1>6, <2>1 DEF TypeOK, OwnerPidNotStored, store
<1>7. CASE ResultNotStored(r)
  <2>1. exec' \in [Runs -> ExecStates]
    BY <1>2, <1>7, SetExecType DEF ResultNotStored, TypeOK
  <2>2. abort' \in [Runs -> BOOLEAN]
    BY <1>7 DEF ResultNotStored, TypeOK
  <2>3. faults' \in Nat /\ UNCHANGED <<store, mode, inc, pass, claimed, clock, live, prompted>>
    BY <1>7 DEF ResultNotStored, TypeOK
  <2> QED
    BY <2>1, <2>2, <2>3 DEF TypeOK, store
<1> QED
  BY <1>3, <1>4, <1>5, <1>6, <1>7

LEMMA BackendType ==
  ASSUME TypeOK,
         Dispose \/ CancelClaimed \/ Disposed \/ Crash \/ Restart \/ Tick
  PROVE  TypeOK'
<1>1. CASE Dispose
  BY <1>1 DEF TypeOK, Dispose, store, world
<1>2. CASE CancelClaimed
  <2>1. claimed \in Runs /\ TRUE \in BOOLEAN /\ 0 \in Nat
    BY <1>2 DEF CancelClaimed, TypeOK
  <2>2. [kind |-> "none", repeated |-> FALSE, notBefore |-> Never] \in Recovery
    BY Constants DEF Recovery
  <2>3. row' \in [Runs -> Row] /\ attempts' \in [Runs -> [n : Nat, open : SUBSET Nat]]
    BY <1>2, <2>1, <2>2, FinishExecutionType DEF CancelClaimed
  <2> QED
    BY <1>2, <2>3 DEF TypeOK, CancelClaimed, world
<1>3. CASE Disposed \/ Crash
  <2>1. Down
    BY <1>3 DEF Disposed, Crash
  <2>2. exec' \in [Runs -> ExecStates] /\ abort' \in [Runs -> BOOLEAN]
    BY <2>1 DEF Down, ExecStates
  <2>3. claimed' \in Runs \cup {0} /\ mode' = "down" /\ pass' = "idle"
    BY <2>1 DEF Down
  <2> QED
    BY <2>1, <2>2, <2>3 DEF TypeOK, Down, store, world
<1>4. CASE Restart
  <2>1. PICK reused \in SUBSET Runs : RecoverRuns(inc + 1, reused)
    BY <1>4 DEF Restart
  <2>2. inc + 1 \in Nat \ {0}
    BY DEF TypeOK
  <2>3. row' \in [Runs -> Row] /\ attempts' \in [Runs -> [n : Nat, open : SUBSET Nat]]
    BY <2>1, <2>2, RecoverRunsType
  <2> QED
    BY <1>4, <2>2, <2>3 DEF TypeOK, Restart, world
<1>5. CASE Tick
  BY <1>5 DEF TypeOK, Tick, store, process
<1> QED
  BY <1>1, <1>2, <1>3, <1>4, <1>5

LEMMA PutBindingType ==
  ASSUME TypeOK, NEW r \in Runs, PutBinding(r)
  PROVE  TypeOK'
<1>1. row \in [Runs -> Row] /\ [row[r] EXCEPT !.bound = TRUE] \in Row
  <2>1. row \in [Runs -> Row] /\ row[r] \in Row
    BY DEF TypeOK
  <2> QED
    BY <2>1 DEF Row
<1>2. row' \in [Runs -> Row]
  BY <1>1, PutType DEF PutBinding
<1> QED
  BY <1>2 DEF TypeOK, PutBinding, process, world

LEMMA InitType == Init => TypeOK
<1> SUFFICES ASSUME Init PROVE TypeOK
  OBVIOUS
<1>1. Absent \in Row
  BY Constants DEF Absent, Row
<1> QED
  BY <1>1 DEF Init, TypeOK, ExecStates

LEMMA NextType == TypeOK /\ [Next]_vars => TypeOK'
<1> SUFFICES ASSUME TypeOK, [Next]_vars PROVE TypeOK'
  OBVIOUS
<1>1. CASE UNCHANGED vars
  BY <1>1 DEF TypeOK, vars, store, process, world
<1>2. CASE Next
  BY <1>2, KindAssumption, RequestType, PassType, ExecutionType, OtherStepsType,
     BackendType, PutBindingType
  DEF Next, RunStep
<1> QED
  BY <1>1, <1>2

\* The rows, the runtime and the provider processes keep their types.
THEOREM TypeCorrect == Spec => []TypeOK
BY InitType, NextType, PTL DEF Spec

(***************************************************************************)
(* The safety of the runs: the invariant Consistent, which says for        *)
(* each run that its row, its attempts, its execution and its processes    *)
(* agree, and what follows from it.                                        *)
(*                                                                         *)
(* A run is at rest when its row says that nobody executes it, and parked  *)
(* when indeed nobody does.  RunOK is the same as "at rest only if parked" *)
(* for those runs; the proofs use it in both directions, and have to look  *)
(* into RunOK for the steps of an execution only.                          *)
(***************************************************************************)
Resting(x) == x.status \notin {"running", "stopping"} /\ ~Unresolved(x)

Parked(r) ==
  /\ exec[r] = "none" /\ claimed # r /\ prompted[r] = {}
  /\ attempts[r].open = {} /\ row[r].active = 0

LEMMA RestingParked ==
  ASSUME NEW r \in Runs, RunOK(r), Resting(row[r])
  PROVE  Parked(r)
BY DEF RunOK, Resting, Parked, ExecutionOwned, ClaimOwned, WriterRecorded,
       AttemptAccounted, Owned

LEMMA ParkedOK ==
  ASSUME NEW r \in Runs, Parked(r)', Resting(row'[r])
  PROVE  RunOK(r)'
BY DEF RunOK, Resting, Parked, ExecutionOwned, ClaimOwned, WriterRecorded,
       AttemptAccounted, NoNextTime, Unresolved

\* A step that touches nothing of a run keeps RunOK.
LEMMA Untouched ==
  ASSUME NEW r \in Runs, RunOK(r),
         row'[r] = row[r], attempts'[r] = attempts[r], exec'[r] = exec[r],
         live'[r] = live[r], prompted'[r] = prompted[r],
         claimed' = r => claimed = r, inc' = inc, mode' = mode \/ mode' # "down"
  PROVE  RunOK(r)'
BY DEF RunOK, ExecutionOwned, ClaimOwned, WriterRecorded, AttemptAccounted,
       NoNextTime, Unresolved, Owned

\* A step that moves a run at rest to another row at rest keeps RunOK.
LEMMA Rested ==
  ASSUME NEW r \in Runs, RunOK(r), Resting(row[r]), Resting(row'[r]),
         row'[r].active = row[r].active, attempts'[r] = attempts[r],
         exec'[r] = exec[r] \/ exec'[r] = "none", prompted'[r] = prompted[r],
         claimed' = r => claimed = r
  PROVE  RunOK(r)'
<1>1. Parked(r)
  BY RestingParked
<1>2. Parked(r)'
  BY <1>1 DEF Parked
<1> QED
  BY <1>2, ParkedOK

\* The inductive invariant gives for each run ...
LEMMA ConsistentRun ==
  ASSUME Consistent, NEW r \in Runs
  PROVE  /\ RunOK(r) /\ row[r] \in Row /\ r # 0 /\ r \in Nat
         /\ row[r].owner \in Nat /\ row[r].active \in Nat
BY RunsAssumption DEF Consistent, TypeOK, Row

LEMMA StoredKeeps ==
  ASSUME NEW x \in Row
  PROVE  /\ Stored(x).status = x.status /\ Stored(x).active = x.active
         /\ Stored(x).nextAt = x.nextAt
         /\ Resting(Stored(x)) <=> Resting(x)
BY DEF Stored, Row, Resting, Unresolved

LEMMA PutKeeps ==
  ASSUME row \in [Runs -> Row], NEW r \in Runs, NEW x \in Row, Put(r, x)
  PROVE  /\ row'[r] = Stored(x) /\ row'[r].status = x.status
         /\ row'[r].active = x.active /\ row'[r].nextAt = x.nextAt
         /\ Resting(row'[r]) <=> Resting(x)
         /\ \A q \in Runs \ {r} : row'[q] = row[q]
<1>1. row'[r] = Stored(x) /\ \A q \in Runs \ {r} : row'[q] = row[q]
  BY DEF Put
<1> QED
  BY <1>1, StoredKeeps

LEMMA AdvancedRests ==
  ASSUME NEW x \in Row
  PROVE  /\ Advanced(x) \in Row
         /\ Advanced(x).active = x.active
         /\ Resting(x) => Resting(Advanced(x))
         /\ ~Resting(x) => Advanced(x) = x
         /\ Advanced(x).status \in Unfinished => x.status \in Unfinished
         /\ x.status = "stopping" => Advanced(x) = x
<1>1. Advanced(x) \in Row
  BY AdvancedType
<1>2. ASSUME NEW y \in Row
      PROVE  /\ Stored(y).status = y.status /\ Stored(y).active = y.active
             /\ Stored(y).nextAt = y.nextAt
  BY StoredKeeps
<1>3. CASE x.status \notin {"waiting", "queued"} \/ x.nextAt = Never
  BY <1>1, <1>3 DEF Advanced, Resting, Unresolved
<1>4. CASE ~(x.status \notin {"waiting", "queued"} \/ x.nextAt = Never)
  <2> DEFINE y == [x EXCEPT !.status = "failed", !.nextAt = Never, !.resultRev = @ + 1]
             z == [x EXCEPT !.status = "queued"]
  <2>1. y \in Row /\ y.status = "failed" /\ y.active = x.active
    <3>1. x.resultRev + 1 \in Nat /\ "failed" \in Statuses
      BY DEF Row, Statuses, Finished
    <3> QED
      BY <3>1, Constants DEF Row
  <2>2. z \in Row /\ z.status = "queued" /\ z.active = x.active
    BY DEF Row, Statuses, Finished, Unfinished
  <2>3. Advanced(x) \in {Stored(y), Stored(z), x}
    BY <1>4 DEF Advanced
  <2> HIDE DEF y, z
  <2> QED
    BY <1>1, <1>2, <1>4, <2>1, <2>2, <2>3 DEF Resting, Unresolved, Unfinished
<1> QED
  BY <1>3, <1>4

-----------------------------------------------------------------------------
(* RunOK, action by action.                                                *)

LEMMA RequestOK ==
  ASSUME Consistent, NEW r \in Runs, NEW q \in Runs, Request(r)
  PROVE  RunOK(q)'
<1> DEFINE x == row[r]
<1>1. row \in [Runs -> Row] /\ x \in Row /\ clock \in Nat
  BY DEF Consistent, TypeOK
<1>2. RunOK(q) /\ RunOK(r)
  BY ConsistentRun
<1>3. UNCHANGED <<attempts, process, world>>
  BY DEF Request, CreateManualRun, CreateQuickInputRun, ArchiveQuickInputRun,
         RequestRunStop, ContinueNow, ReplyRun
<1>4. ASSUME NEW y \in Row, Put(r, y), Resting(x), Resting(y), y.active = x.active
      PROVE  RunOK(q)'
  <2>1. CASE q = r
    BY <1>1, <1>2, <1>3, <1>4, <2>1, PutKeeps, Rested DEF process, world
  <2>2. CASE q # r
    BY <1>1, <1>2, <1>3, <1>4, <2>2, PutKeeps, Untouched DEF process, world
  <2> QED
    BY <2>1, <2>2
<1>5. CASE CreateManualRun(r) \/ CreateQuickInputRun(r)
  <2> DEFINE y == NewRow(r, "queued")
  <2>1. y \in Row /\ y.status = "queued" /\ y.active = 0
    BY NewRowType DEF Statuses, Unfinished, NewRow, Absent
  <2>2. x.status = "absent" /\ Put(r, y)
    BY <1>5 DEF CreateManualRun, CreateQuickInputRun
  <2>3. Resting(x) /\ Resting(y)
    BY <2>1, <2>2 DEF Resting, Unresolved
  <2>4. x.active = 0
    BY <1>2, <2>3, RestingParked DEF Parked
  <2> HIDE DEF x, y
  <2> QED
    BY <1>4, <2>1, <2>2, <2>3, <2>4
<1>6. CASE ArchiveQuickInputRun(r)
  <2> DEFINE y == [x EXCEPT !.archived = TRUE]
  <2>1. y \in Row /\ y.status = x.status /\ y.active = x.active
    BY <1>1 DEF Row
  <2>2. x.status \in Finished /\ Put(r, y)
    BY <1>6 DEF ArchiveQuickInputRun
  <2>3. Resting(x) /\ Resting(y)
    BY <2>1, <2>2 DEF Resting, Unresolved, Finished
  <2> HIDE DEF x, y
  <2> QED
    BY <1>4, <2>1, <2>2, <2>3
<1>7. CASE Stoppable(x) /\ Put(r, [x EXCEPT !.status = "cancelled", !.nextAt = Never])
  <2> DEFINE y == [x EXCEPT !.status = "cancelled", !.nextAt = Never]
  <2>1. y \in Row /\ y.status = "cancelled" /\ y.active = x.active
    BY <1>1, Constants DEF Row, Statuses, Finished
  <2>2. Resting(x) /\ Resting(y)
    BY <1>7, <2>1 DEF Resting, Unresolved, Stoppable
  <2> HIDE DEF x, y
  <2> QED
    BY <1>4, <1>7, <2>1, <2>2 DEF x, y
<1>8. CASE x.status = "running" /\ Put(r, [x EXCEPT !.status = "stopping"])
  <2> DEFINE y == [x EXCEPT !.status = "stopping"]
  <2>1. y \in Row /\ y.status = "stopping" /\ Put(r, y)
    BY <1>1, <1>8 DEF Row, Statuses, Unfinished
  <2>2. Stored(y) = y
    BY <2>1 DEF Stored, Finished
  <2>3. row'[r] = y /\ \A p \in Runs \ {r} : row'[p] = row[p]
    BY <1>1, <2>1, <2>2, PutKeeps
  <2>4. /\ y.active = x.active /\ y.pid = x.pid /\ y.nextAt = x.nextAt
        /\ y.owner = x.owner
    BY <1>1 DEF Row
  <2> HIDE DEF x, y
  <2>5. CASE q = r
    BY <1>2, <1>3, <1>8, <2>1, <2>3, <2>4, <2>5
    DEF x, process, world, RunOK, ExecutionOwned, ClaimOwned, WriterRecorded,
        AttemptAccounted, NoNextTime, Unresolved, Owned
  <2>6. CASE q # r
    BY <1>2, <1>3, <2>3, <2>6, Untouched DEF process, world
  <2> QED
    BY <2>5, <2>6
<1>9. CASE ContinueNow(r)
  <2> DEFINE y == [x EXCEPT !.nextAt = clock]
  <2>1. y \in Row /\ y.status = x.status /\ y.active = x.active /\ y.nextAt = clock
    BY <1>1, Constants DEF Row
  <2>2. x.status = "waiting" /\ x.nextAt # Never /\ Put(r, y)
    BY <1>9 DEF ContinueNow
  <2>3. Resting(x) /\ Resting(y)
    BY <1>1, <2>1, <2>2 DEF Resting, Unresolved, Never
  <2> HIDE DEF x, y
  <2> QED
    BY <1>4, <2>1, <2>2, <2>3
<1>10. CASE ReplyRun(r)
  <2> DEFINE y == [x EXCEPT !.status = "queued", !.recoverable = FALSE,
                            !.input = TRUE, !.cont = TRUE, !.nextAt = Never]
  <2>1. y \in Row /\ y.status = "queued" /\ y.active = x.active
    BY <1>1, Constants DEF Row, Statuses, Unfinished
  <2>2. x.status \in {"failed", "cancelled"} /\ Put(r, y)
    BY <1>10 DEF ReplyRun, Replyable
  <2>3. Resting(x) /\ Resting(y)
    BY <2>1, <2>2 DEF Resting, Unresolved
  <2> HIDE DEF x, y
  <2> QED
    BY <1>4, <2>1, <2>2, <2>3
<1> QED
  BY <1>5, <1>6, <1>7, <1>8, <1>9, <1>10 DEF Request, RequestRunStop

LEMMA MaterializeOK ==
  ASSUME Consistent, NEW r \in Runs, NEW q \in Runs, MaterializeScheduledRun(r)
  PROVE  RunOK(q)'
<1>1. row \in [Runs -> Row] /\ RunOK(q) /\ RunOK(r)
  BY ConsistentRun DEF Consistent, TypeOK
<1>2. UNCHANGED <<attempts, process, world>> /\ row[r].status = "absent"
  BY DEF MaterializeScheduledRun
<1>3. PICK status \in {"queued", "skipped", "failed"} : Put(r, NewRow(r, status))
  BY DEF MaterializeScheduledRun
<1> DEFINE y == NewRow(r, status)
<1>4. y \in Row /\ y.status = status /\ y.active = 0
  BY NewRowType DEF Statuses, Unfinished, Finished, NewRow, Absent
<1>5. Resting(row[r]) /\ Resting(y)
  BY <1>2, <1>4 DEF Resting, Unresolved
<1>6. row[r].active = 0
  BY <1>1, <1>5, RestingParked DEF Parked
<1> HIDE DEF y
<1>7. CASE q = r
  BY <1>1, <1>2, <1>3, <1>4, <1>5, <1>6, <1>7, PutKeeps, Rested DEF y, process, world
<1>8. CASE q # r
  BY <1>1, <1>2, <1>3, <1>4, <1>8, PutKeeps, Untouched DEF y, process, world
<1> QED
  BY <1>7, <1>8

LEMMA RecoverRunsOK ==
  ASSUME Consistent, NEW q \in Runs, NEW owner \in Nat, NEW reused \in SUBSET Runs,
         RecoverRuns(owner, reused),
         owner = inc \/ (exec[q] = "none" /\ claimed # q),
         inc' = owner, mode' # "down",
         UNCHANGED <<exec, live, prompted, claimed>>
  PROVE  RunOK(q)'
<1> DEFINE x    == row[q]
           dead == {r \in Runs : Abandoned(r, owner) /\ ~SeemsAlive(r, reused)}
           w    == [x EXCEPT !.status = "waiting"]
<1>1. x \in Row /\ RunOK(q)
  BY ConsistentRun
<1>2. CASE q \in dead
  <2>1. row'[q] = Stored(Interrupted(x)) /\ attempts'[q] = [attempts[q] EXCEPT !.open = @ \ {x.active}]
    BY <1>2 DEF RecoverRuns
  <2>2. Interrupted(x) \in Row /\ Interrupted(x).status = "failed" /\ Interrupted(x).active = 0
    <3>1. x.resultRev + 1 \in Nat /\ "failed" \in Statuses
      BY <1>1 DEF Row, Statuses, Finished
    <3> QED
      BY <1>1, <3>1, Constants, InterruptedType DEF Interrupted, Row
  <2>3. row'[q].active = 0 /\ Resting(row'[q])
    BY <2>1, <2>2, StoredKeeps DEF Resting, Unresolved
  <2>4. attempts'[q].open = {}
    <3>1. attempts[q].open = IF x.active = 0 THEN {} ELSE {x.active}
      BY <1>1 DEF RunOK, AttemptAccounted
    <3>2. attempts'[q].open = attempts[q].open \ {x.active}
      BY <2>1 DEF Consistent, TypeOK
    <3> QED
      BY <3>1, <3>2
  <2>5. prompted'[q] = {}
    BY <1>1, <1>2 DEF RunOK, WriterRecorded, SeemsAlive
  <2>6. exec'[q] = "none" /\ claimed' # q
    BY <1>1, <1>2 DEF RunOK, ExecutionOwned, ClaimOwned, Owned, Abandoned
  <2> QED
    BY <2>3, <2>4, <2>5, <2>6, ParkedOK DEF Parked
<1>3. CASE q \notin dead /\ Abandoned(q, owner)
  <2>1. row'[q] = Stored(w) /\ attempts'[q] = attempts[q]
    BY <1>3 DEF RecoverRuns
  <2>2. w \in Row /\ w.status = "waiting" /\ w.active = x.active /\ w.nextAt = x.nextAt
        /\ w.pid = x.pid
    BY <1>1 DEF Row, Statuses, Unfinished
  <2>3. exec'[q] = "none" /\ claimed' # q
    BY <1>1, <1>3 DEF RunOK, ExecutionOwned, ClaimOwned, Owned, Abandoned
  <2>4. CASE x.nextAt = Never
    <3>1. row'[q] = w /\ Unresolved(w)
      BY <2>1, <2>2, <2>4 DEF Stored, Finished, Unresolved
    <3>2. x.status \in {"running", "stopping"} \/ Unresolved(x)
      BY <1>3, <2>4 DEF Abandoned, Unresolved
    <3> HIDE DEF w, x, dead
    <3> QED
      BY <1>1, <2>1, <2>2, <2>3, <3>1, <3>2
      DEF x, RunOK, ExecutionOwned, ClaimOwned, WriterRecorded, AttemptAccounted,
          NoNextTime, Unresolved
  <2>5. CASE x.nextAt # Never
    <3>1. Resting(x)
      BY <1>1, <1>3, <2>5 DEF RunOK, NoNextTime, Abandoned, Resting, Unresolved
    <3>2. Resting(row'[q]) /\ row'[q].active = x.active
      BY <2>1, <2>2, <2>5, StoredKeeps DEF Resting, Unresolved
    <3> QED
      BY <1>1, <2>1, <2>3, <3>1, <3>2, Rested
  <2> QED
    BY <2>4, <2>5
<1>4. CASE q \notin dead /\ ~Abandoned(q, owner)
  <2>1. row'[q] = x /\ attempts'[q] = attempts[q]
    BY <1>4 DEF RecoverRuns
  <2> QED
    BY <1>1, <2>1
    DEF RunOK, ExecutionOwned, ClaimOwned, WriterRecorded, AttemptAccounted,
        NoNextTime, Unresolved, Owned
<1> QED
  BY <1>2, <1>3, <1>4

\* The rows of a pass at rest are advanced, the others stay.
LEMMA AdvancedOK ==
  ASSUME Consistent, NEW q \in Runs, row'[q] = Advanced(row[q]),
         attempts'[q] = attempts[q], claimed' = q => claimed = q,
         UNCHANGED <<mode, inc, exec, live, prompted>>
  PROVE  RunOK(q)'
<1>1. RunOK(q) /\ row[q] \in Row
  BY ConsistentRun
<1>2. CASE Resting(row[q])
  BY <1>1, <1>2, AdvancedRests, Rested
<1>3. CASE ~Resting(row[q])
  BY <1>1, <1>3, AdvancedRests, Untouched
<1> QED
  BY <1>2, <1>3

LEMMA ClaimOK ==
  ASSUME Consistent, NEW r \in Runs, NEW q \in Runs, ClaimNextRun(r)
  PROVE  RunOK(q)'
<1> DEFINE x == Advanced(row[r])
           n == attempts[r].n + 1
<1>1. /\ RunOK(r) /\ RunOK(q) /\ row[r] \in Row /\ attempts[r].n \in Nat
      /\ mode = "up" /\ r # 0
  BY ConsistentRun DEF Consistent, TypeOK, ClaimNextRun, MayClaim
<1>2. x.status = "queued"
  BY DEF ClaimNextRun, Oldest, Due
<1>3. Resting(row[r]) /\ x \in Row
  BY <1>1, <1>2, AdvancedRests DEF Resting, Unresolved
<1>4. Parked(r)
  BY <1>1, <1>3, RestingParked
<1>5. CASE q = r
  <2>1. row'[r] = Claimed(r, x) /\ attempts'[r] = [n |-> n, open |-> attempts[r].open \cup {n}]
    BY DEF ClaimNextRun, Consistent, TypeOK
  <2>2. /\ row'[r].status = "running" /\ row'[r].owner = inc /\ row'[r].active = n
        /\ row'[r].nextAt = Never
    <3> HIDE DEF x
    <3> QED
      BY <2>1, <1>3 DEF Claimed, Row
  <2>3. attempts'[r].open = {n} /\ n # 0
    BY <1>1, <1>4, <2>1 DEF Parked
  <2>4. exec'[r] = "none" /\ prompted'[r] = {} /\ inc' = inc /\ mode' = "up"
    BY <1>1, <1>4 DEF Parked, ClaimNextRun, world
  <2> HIDE DEF x, n
  <2> QED
    BY <1>5, <2>2, <2>3, <2>4
    DEF RunOK, ExecutionOwned, ClaimOwned, WriterRecorded, AttemptAccounted,
        NoNextTime, Owned
<1>6. CASE q # r
  <2>1. row'[q] = Advanced(row[q]) /\ attempts'[q] = attempts[q] /\ claimed' # q
    BY <1>6 DEF ClaimNextRun, Consistent, TypeOK
  <2> QED
    BY <2>1, AdvancedOK DEF ClaimNextRun, world
<1> QED
  BY <1>5, <1>6

LEMMA PassOK ==
  ASSUME Consistent, NEW q \in Runs, Pass
  PROVE  RunOK(q)'
<1>1. RunOK(q) /\ q # 0 /\ inc \in Nat
  BY ConsistentRun DEF Consistent, TypeOK
<1>2. CASE PassStart
  <2>1. PICK reused \in SUBSET Runs : RecoverRuns(inc, reused)
    BY <1>2 DEF PassStart
  <2> QED
    BY <1>1, <1>2, <2>1, RecoverRunsOK DEF PassStart, world
<1>3. CASE AdvanceContinuations
  BY <1>3, AdvancedOK DEF AdvanceContinuations, world
<1>4. CASE NothingToClaim
  BY <1>4, AdvancedOK DEF NothingToClaim, world
<1>5. CASE DispatchDone \/ PassDone
  BY <1>1, <1>5, Untouched DEF DispatchDone, PassDone, store, world
<1>6. CASE Execute
  <2>1. CASE q = claimed
    <3>1. exec'[q] = "starting" /\ claimed' # q
      BY <1>1, <1>6, <2>1 DEF Execute, Consistent, TypeOK
    <3> QED
      BY <1>1, <1>6, <2>1, <3>1
      DEF Execute, store, world, RunOK, ExecutionOwned, ClaimOwned,
          WriterRecorded, AttemptAccounted, NoNextTime, Unresolved, Owned
  <2>2. CASE q # claimed
    BY <1>1, <1>6, <2>2, Untouched DEF Execute, store, world
  <2> QED
    BY <2>1, <2>2
<1>7. ASSUME NEW r \in Runs, ClaimNextRun(r)
      PROVE  RunOK(q)'
  BY <1>7, ClaimOK
<1>8. ASSUME NEW r \in Runs, ClaimRefused(r)
      PROVE  RunOK(q)'
  BY <1>1, <1>8, Untouched DEF ClaimRefused, store, world
<1> QED
  BY <1>2, <1>3, <1>4, <1>5, <1>6, <1>7, <1>8 DEF Pass

\* The row that ends an execution is at rest; a stop that was stored, or an
\* abort, makes it cancelled.
LEMMA FinishedRowRests ==
  ASSUME TypeOK, NEW r \in Runs, NEW x \in Row, NEW res, NEW rec \in Recovery,
         NEW ms \in Nat, NEW aborted \in BOOLEAN
  PROVE  LET y == FinishedRow(r, x, res, rec, ms, aborted) IN
         /\ y.active = 0
         /\ y.status \in Finished \/ (y.status = "waiting" /\ y.nextAt # Never)
         /\ x.status = "stopping" => y.status = "cancelled"
<1> DEFINE status == IF x.status = "stopping" \/ aborted THEN "cancelled"
                     ELSE IF res = "succeeded" THEN "completed" ELSE "failed"
           ended  == Ended(x, status, ms)
           next   == ScheduleContinuation(r, ended, rec)
<1>1. status \in Finished /\ status \in Statuses
  BY DEF Statuses, Finished
<1> HIDE DEF status
<1>2. ended \in Row /\ ended.status = status /\ ended.active = 0
  <2> DEFINE spent == IF x.cont THEN x.spent + ms ELSE x.spent
  <2>1. spent \in Nat
    BY DEF Row
  <2> HIDE DEF spent
  <2> QED
    BY <1>1, <2>1, Constants DEF Ended, spent, Row
<1> HIDE DEF ended
<1>3. next \in Row /\ next.status = status /\ next.active = 0
  BY <1>2, ScheduleContinuationType DEF ScheduleContinuation, Row
<1> HIDE DEF next
<1>4. ASSUME NEW y \in Row
      PROVE  Final(y).status = y.status /\ Final(y).active = y.active
  BY DEF Final, Row
<1>5. LET y == [next EXCEPT !.status = "waiting"] IN
        y.status = "waiting" /\ y.active = 0 /\ y.nextAt = next.nextAt
  BY <1>3 DEF Row
<1>6. LET y == [next EXCEPT !.nextAt = Never] IN
        y \in Row /\ y.status = status /\ y.active = 0
  BY <1>3, Constants DEF Row
<1>7. x.status = "stopping" => status = "cancelled"
  BY DEF status
<1> DEFINE y == FinishedRow(r, x, res, rec, ms, aborted)
           w == [next EXCEPT !.status = "waiting"]
           f == [next EXCEPT !.nextAt = Never]
<1>8. \/ y = Final(ended)
      \/ status = "failed" /\ next.nextAt # Never /\ y = w
      \/ y = Final(f)
  BY DEF FinishedRow, status, ended, next
<1> HIDE DEF y, w, f
<1>9. Final(ended).status = status /\ Final(ended).active = 0
  BY <1>2, <1>4
<1>10. Final(f).status = status /\ Final(f).active = 0
  BY <1>4, <1>6 DEF f
<1>11. w.status = "waiting" /\ w.active = 0 /\ w.nextAt = next.nextAt
  BY <1>5 DEF w
<1>12. /\ y.active = 0
       /\ y.status \in Finished \/ (y.status = "waiting" /\ y.nextAt # Never)
       /\ x.status = "stopping" => y.status = "cancelled"
  BY <1>1, <1>7, <1>8, <1>9, <1>10, <1>11
<1> QED
  BY <1>12 DEF y

LEMMA FinishExecutionOK ==
  ASSUME Consistent, NEW r \in Runs, NEW q \in Runs, NEW res, NEW rec \in Recovery,
         NEW ms \in Nat, NEW aborted \in BOOLEAN,
         FinishExecution(r, res, rec, ms, aborted),
         prompted[r] = {}, exec'[r] = "none", claimed' # r,
         q # r => exec'[q] = exec[q] /\ (claimed' = q => claimed = q),
         UNCHANGED <<mode, inc, live, prompted>>
  PROVE  RunOK(q)'
<1> DEFINE y == FinishedRow(r, row[r], res, rec, ms, aborted)
<1>1. row \in [Runs -> Row] /\ row[r] \in Row /\ TypeOK /\ RunOK(r) /\ RunOK(q)
  BY ConsistentRun DEF Consistent, TypeOK
<1>2. y \in Row /\ y.active = 0
      /\ (y.status \in Finished \/ (y.status = "waiting" /\ y.nextAt # Never))
  BY <1>1, FinishedRowType, FinishedRowRests
<1>3. Put(r, y) /\ CloseAttempt(r)
  BY DEF FinishExecution
<1> HIDE DEF y
<1>4. CASE q = r
  <2>1. Resting(row'[r]) /\ row'[r].active = 0
    BY <1>1, <1>2, <1>3, PutKeeps DEF Resting, Unresolved, Finished
  <2>2. attempts'[r].open = {}
    <3>1. attempts'[r].open = attempts[r].open \ {row[r].active}
      BY <1>1, <1>3 DEF CloseAttempt, TypeOK
    <3>2. attempts[r].open = IF row[r].active = 0 THEN {} ELSE {row[r].active}
      BY <1>1 DEF RunOK, AttemptAccounted
    <3> QED
      BY <3>1, <3>2
  <2> QED
    BY <1>4, <2>1, <2>2, ParkedOK DEF Parked
<1>5. CASE q # r
  <2>1. row'[q] = row[q] /\ attempts'[q] = attempts[q]
    BY <1>1, <1>2, <1>3, <1>5, PutKeeps DEF CloseAttempt, TypeOK
  <2> QED
    BY <1>1, <1>5, <2>1, Untouched
<1> QED
  BY <1>4, <1>5

\* A settled execution has no process that was sent a prompt.
LEMMA SettledSilent ==
  ASSUME NEW r \in Runs, RunOK(r), Settled(r)
  PROVE  prompted[r] = {} /\ claimed # r
BY DEF Settled, RunOK, ExecutionOwned, ClaimOwned, WriterRecorded

\* What Finish stores is the result of one FinishExecution.
LEMMA FinishResult ==
  ASSUME Consistent, NEW r \in Runs, Finish(r)
  PROVE  \E res \in {"succeeded", "blocked", "failed", "error"}, rec \in Recovery,
            ms \in {0, 1} : FinishExecution(r, res, rec, ms, abort[r])
<1> DEFINE none == [kind |-> "none", repeated |-> FALSE, notBefore |-> Never]
<1>1. none \in Recovery
  BY Constants DEF Recovery
<1>2. Recoveries \subseteq Recovery
  <2>1. {Never, clock + 1} \subseteq Time
    BY Constants DEF Consistent, TypeOK
  <2> QED
    BY <2>1 DEF Recoveries, Recovery
<1> HIDE DEF none
<1>3. \/ \E res \in {"succeeded", "blocked", "failed"}, rec \in Recoveries,
           ms \in {0, 1} : FinishExecution(r, res, rec, ms, abort[r])
      \/ \E ms \in {0, 1} : FinishExecution(r, "error", none, ms, abort[r])
  BY DEF Finish, none
<1> QED
  BY <1>1, <1>2, <1>3

LEMMA FinishOK ==
  ASSUME Consistent, NEW r \in Runs, NEW q \in Runs, Finish(r)
  PROVE  RunOK(q)'
<1>1. PICK res \in {"succeeded", "blocked", "failed", "error"}, rec \in Recovery,
           ms \in {0, 1} : FinishExecution(r, res, rec, ms, abort[r])
  BY FinishResult
<1>2. prompted[r] = {} /\ claimed # r
  BY ConsistentRun, SettledSilent DEF Finish
<1>3. abort[r] \in BOOLEAN /\ ms \in Nat
  BY DEF Consistent, TypeOK
<1>4. exec'[r] = "none" /\ (q # r => exec'[q] = exec[q])
  BY DEF Finish, SetExec, Consistent, TypeOK
<1> QED
  BY <1>1, <1>2, <1>3, <1>4, FinishExecutionOK DEF Finish, world

LEMMA ExecutionOK ==
  ASSUME Consistent, NEW r \in Runs, NEW q \in Runs, Execution(r)
  PROVE  RunOK(q)'
<1>1. /\ RunOK(r) /\ RunOK(q) /\ row[r] \in Row /\ row \in [Runs -> Row]
      /\ exec \in [Runs -> ExecStates]
      /\ live \in [Runs -> SUBSET Nat] /\ prompted \in [Runs -> SUBSET Nat]
  BY ConsistentRun DEF Consistent, TypeOK
<1>2. ASSUME NEW state, SetExec(r, state)
      PROVE  exec'[r] = state /\ (q # r => exec'[q] = exec[q])
  BY <1>1, <1>2 DEF SetExec
<1>3. CASE StartFails(r) \/ AbortedBeforePrompt(r)
  <2>1. CASE q = r
    <3>1. exec'[r] = "closing"
      BY <1>2, <1>3 DEF StartFails, AbortedBeforePrompt
    <3> QED
      BY <1>1, <1>3, <2>1, <3>1
      DEF StartFails, AbortedBeforePrompt, store, world, RunOK, ExecutionOwned,
          ClaimOwned, WriterRecorded, AttemptAccounted, NoNextTime, Unresolved,
          Owned
  <2>2. CASE q # r
    BY <1>1, <1>2, <1>3, <2>2, Untouched
    DEF StartFails, AbortedBeforePrompt, store, world
  <2> QED
    BY <2>1, <2>2
<1>4. CASE Spawn(r)
  <2>1. CASE q = r
    <3>1. exec'[r] = "spawned" /\ live[r] \subseteq live'[r]
      BY <1>1, <1>2, <1>4 DEF Spawn
    <3> QED
      BY <1>1, <1>4, <2>1, <3>1
      DEF Spawn, store, RunOK, ExecutionOwned, ClaimOwned, WriterRecorded,
          AttemptAccounted, NoNextTime, Unresolved, Owned
  <2>2. CASE q # r
    BY <1>1, <1>2, <1>4, <2>2, Untouched DEF Spawn, store
  <2> QED
    BY <2>1, <2>2
<1>5. CASE SetRunOwnerPid(r)
  <2>1. CASE q = r
    <3>1. exec'[r] = "registered"
      BY <1>2, <1>5 DEF SetRunOwnerPid
    <3>2. row'[r] = [row[r] EXCEPT !.pid = row[r].active]
      BY <1>1, <1>5 DEF SetRunOwnerPid
    <3>3. /\ row'[r].pid = row[r].active /\ row'[r].active = row[r].active
          /\ row'[r].status = row[r].status /\ row'[r].nextAt = row[r].nextAt
          /\ row'[r].owner = row[r].owner
      BY <1>1, <3>2 DEF Row
    <3> QED
      BY <1>1, <1>5, <2>1, <3>1, <3>3
      DEF SetRunOwnerPid, world, RunOK, ExecutionOwned, ClaimOwned,
          WriterRecorded, AttemptAccounted, NoNextTime, Unresolved, Owned
  <2>2. CASE q # r
    BY <1>1, <1>2, <1>5, <2>2, Untouched DEF SetRunOwnerPid, world
  <2> QED
    BY <2>1, <2>2
<1>6. CASE SendPrompt(r)
  <2>1. CASE q = r
    <3>1. exec'[r] = "prompted" /\ prompted'[r] = {row[r].active} \cap live[r]
      BY <1>1, <1>2, <1>6 DEF SendPrompt, RunOK, ExecutionOwned
    <3>2. row[r].active # 0 /\ row[r].pid = row[r].active /\ Owned(r) /\ mode # "down"
      BY <1>1, <1>6 DEF SendPrompt, RunOK, ExecutionOwned, AttemptAccounted, Owned
    <3> QED
      BY <1>1, <1>6, <2>1, <3>1, <3>2
      DEF SendPrompt, store, RunOK, ExecutionOwned, ClaimOwned, WriterRecorded,
          AttemptAccounted, NoNextTime, Unresolved, Owned
  <2>2. CASE q # r
    BY <1>1, <1>2, <1>6, <2>2, Untouched DEF SendPrompt, store
  <2> QED
    BY <2>1, <2>2
<1>7. CASE Abort(r)
  BY <1>1, <1>7, Untouched DEF Abort, store, world
<1>8. CASE Finish(r)
  BY <1>8, FinishOK
<1> QED
  BY <1>3, <1>4, <1>5, <1>6, <1>7, <1>8 DEF Execution

LEMMA OtherStepsOK ==
  ASSUME Consistent, NEW r \in Runs, NEW q \in Runs,
         \/ SetRunThread(r) \/ ProcessExit(r)
         \/ OwnerPidNotStored(r) \/ ResultNotStored(r)
  PROVE  RunOK(q)'
<1>1. /\ RunOK(r) /\ RunOK(q) /\ row[r] \in Row /\ row \in [Runs -> Row]
      /\ exec \in [Runs -> ExecStates]
      /\ live \in [Runs -> SUBSET Nat] /\ prompted \in [Runs -> SUBSET Nat]
  BY ConsistentRun DEF Consistent, TypeOK
<1>2. CASE SetRunThread(r)
  <2> DEFINE y == [row[r] EXCEPT !.thread = TRUE]
  <2>1. /\ y \in Row /\ y.status = row[r].status /\ y.nextAt = row[r].nextAt
        /\ y.active = row[r].active /\ y.pid = row[r].pid /\ y.owner = row[r].owner
    BY <1>1 DEF Row
  <2>2. Put(r, y) /\ row[r].status \in {"running", "stopping"}
    BY <1>2 DEF SetRunThread, Owned
  <2> HIDE DEF y
  <2>3. row'[r] = y
    BY <1>1, <2>1, <2>2, PutKeeps DEF Stored, Finished
  <2>4. CASE q = r
    BY <1>1, <1>2, <2>1, <2>2, <2>3, <2>4
    DEF SetRunThread, process, world, RunOK, ExecutionOwned, ClaimOwned,
        WriterRecorded, AttemptAccounted, NoNextTime, Unresolved, Owned
  <2>5. CASE q # r
    BY <1>1, <1>2, <2>1, <2>2, <2>5, PutKeeps, Untouched
    DEF SetRunThread, process, world
  <2> QED
    BY <2>4, <2>5
<1>3. CASE ProcessExit(r)
  <2>1. PICK p \in live[r] : /\ live' = [live EXCEPT ![r] = @ \ {p}]
                             /\ prompted' = [prompted EXCEPT ![r] = @ \ {p}]
    BY <1>3 DEF ProcessExit
  <2>2. CASE q = r
    <3>1. live'[r] = live[r] \ {p} /\ prompted'[r] = prompted[r] \ {p}
      BY <1>1, <2>1
    <3> QED
      BY <1>1, <1>3, <2>2, <3>1
      DEF ProcessExit, store, process, RunOK, ExecutionOwned, ClaimOwned,
          WriterRecorded, AttemptAccounted, NoNextTime, Unresolved, Owned
  <2>3. CASE q # r
    BY <1>1, <1>3, <2>1, <2>3, Untouched DEF ProcessExit, store, process
  <2> QED
    BY <2>2, <2>3
<1>4. CASE OwnerPidNotStored(r)
  <2>1. exec'[r] = "closing" /\ (q # r => exec'[q] = exec[q])
    BY <1>1, <1>4 DEF OwnerPidNotStored, SetExec
  <2>2. CASE q = r
    BY <1>1, <1>4, <2>1, <2>2
    DEF OwnerPidNotStored, store, RunOK, ExecutionOwned, ClaimOwned,
        WriterRecorded, AttemptAccounted, NoNextTime, Unresolved, Owned
  <2>3. CASE q # r
    BY <1>1, <1>4, <2>1, <2>3, Untouched DEF OwnerPidNotStored, store
  <2> QED
    BY <2>2, <2>3
<1>5. CASE ResultNotStored(r)
  <2>1. exec'[r] = "none" /\ (q # r => exec'[q] = exec[q])
    BY <1>1, <1>5 DEF ResultNotStored, SetExec
  <2>2. CASE q = r
    BY <1>1, <1>5, <2>1, <2>2, SettledSilent
    DEF ResultNotStored, store, RunOK, ExecutionOwned, ClaimOwned,
        WriterRecorded, AttemptAccounted, NoNextTime, Unresolved, Owned
  <2>3. CASE q # r
    BY <1>1, <1>5, <2>1, <2>3, Untouched DEF ResultNotStored, store
  <2> QED
    BY <2>2, <2>3
<1> QED
  BY <1>2, <1>3, <1>4, <1>5

\* A binding changes nothing that RunOK looks at, except that the row of a run
\* at rest may give up its owner.
LEMMA PutBindingOK ==
  ASSUME Consistent, NEW r \in Runs, NEW q \in Runs, PutBinding(r)
  PROVE  RunOK(q)' /\ row'[q].status = row[q].status
<1> DEFINE y == [row[r] EXCEPT !.bound = TRUE]
<1>1. /\ RunOK(r) /\ RunOK(q) /\ row[r] \in Row /\ row \in [Runs -> Row]
  BY ConsistentRun DEF Consistent, TypeOK
<1>2. /\ y \in Row /\ y.status = row[r].status /\ y.nextAt = row[r].nextAt
      /\ y.active = row[r].active /\ y.pid = row[r].pid /\ y.owner = row[r].owner
  BY <1>1 DEF Row
<1>3. Put(r, y)
  BY DEF PutBinding
<1> HIDE DEF y
<1>4. CASE q # r
  BY <1>1, <1>2, <1>3, <1>4, PutKeeps, Untouched DEF PutBinding, process, world
<1>5. CASE q = r /\ Resting(row[r])
  <2>1. Resting(row'[r]) /\ row'[r].active = row[r].active
        /\ row'[r].status = row[r].status
    BY <1>1, <1>2, <1>3, <1>5, PutKeeps DEF Resting, Unresolved
  <2> QED
    BY <1>1, <1>5, <2>1, Rested DEF PutBinding, process, world
<1>6. CASE q = r /\ ~Resting(row[r])
  <2>1. row'[r] = y
    BY <1>1, <1>2, <1>3, <1>6, PutKeeps DEF Stored, Finished, Resting, Unresolved
  <2> QED
    BY <1>1, <1>2, <1>6, <2>1
    DEF PutBinding, process, world, RunOK, ExecutionOwned, ClaimOwned,
        WriterRecorded, AttemptAccounted, NoNextTime, Unresolved, Owned
<1> QED
  BY <1>4, <1>5, <1>6

LEMMA BackendOK ==
  ASSUME Consistent, NEW q \in Runs,
         Dispose \/ CancelClaimed \/ Disposed \/ Crash \/ Restart \/ Tick
  PROVE  RunOK(q)'
<1>1. RunOK(q) /\ q # 0
  BY ConsistentRun
<1>2. CASE Dispose \/ Tick
  BY <1>1, <1>2, Untouched DEF Dispose, Tick, store, process, world
<1>3. CASE CancelClaimed
  <2> DEFINE none == [kind |-> "none", repeated |-> FALSE, notBefore |-> Never]
  <2>1. claimed \in Runs /\ 0 \in Nat /\ TRUE \in BOOLEAN
    BY <1>3 DEF CancelClaimed, Consistent, TypeOK
  <2>2. none \in Recovery
    BY Constants DEF Recovery
  <2> HIDE DEF none
  <2>3. FinishExecution(claimed, "error", none, 0, TRUE)
    BY <1>3 DEF CancelClaimed, none
  <2>4. prompted[claimed] = {} /\ exec[claimed] = "none" /\ claimed # 0
    BY <2>1, ConsistentRun DEF RunOK, ClaimOwned
  <2>5. claimed' = 0 /\ UNCHANGED <<mode, inc, exec, live, prompted>>
    BY <1>3 DEF CancelClaimed, world
  <2> QED
    BY <1>1, <2>1, <2>2, <2>3, <2>4, <2>5, FinishExecutionOK
<1>4. CASE Disposed \/ Crash
  <2>1. Down
    BY <1>4 DEF Disposed, Crash
  <2>2. exec'[q] = "none" /\ claimed' # q
    BY <1>1, <2>1 DEF Down
  <2> QED
    BY <1>1, <2>1, <2>2
    DEF Down, store, world, RunOK, ExecutionOwned, ClaimOwned, WriterRecorded,
        AttemptAccounted, NoNextTime, Unresolved
<1>5. CASE Restart
  <2>1. PICK reused \in SUBSET Runs : RecoverRuns(inc + 1, reused)
    BY <1>5 DEF Restart
  <2>2. exec[q] = "none" /\ claimed # q
    BY <1>1, <1>5 DEF Restart, RunOK, ExecutionOwned, ClaimOwned
  <2>3. inc + 1 \in Nat
    BY DEF Consistent, TypeOK
  <2> QED
    BY <1>5, <2>1, <2>2, <2>3, RecoverRunsOK DEF Restart, world
<1> QED
  BY <1>2, <1>3, <1>4, <1>5

-----------------------------------------------------------------------------
(* What a step does to the status of a run: a stop is final, a run ends    *)
(* after its writer, and a run that starts finds its task free.            *)

Alone(q) ==
  \A p \in Runs \ {q} :
    TaskOf[p] = TaskOf[q] => row[p].status \notin Unfinished /\ row'[p] = row[p]

StopKept(q) ==
  row[q].status = "stopping" =>
    \/ row'[q].status \in {"stopping", "cancelled"}
    \/ row[q].owner # inc' /\ (row'[q].status = "failed" \/ Unresolved(row'[q]))

StatusOK(q) ==
  /\ StopKept(q)
  /\ row[q].status \in Unfinished /\ row'[q].status \in Finished
       => prompted[q] = {}
  /\ row'[q].status \in Unfinished => row[q].status \in Unfinished \/ Alone(q)

LEMMA SameStatus ==
  ASSUME NEW q \in Runs, row'[q].status = row[q].status
  PROVE  StatusOK(q)
BY DEF StatusOK, StopKept, Finished, Unfinished

LEMMA RestingStatus ==
  ASSUME NEW q \in Runs, RunOK(q), Resting(row[q]),
         row'[q].status \in Unfinished => row[q].status \in Unfinished \/ Alone(q)
  PROVE  StatusOK(q)
<1>1. prompted[q] = {} /\ row[q].status # "stopping"
  BY RestingParked DEF Parked, Resting
<1> QED
  BY <1>1 DEF StatusOK, StopKept

LEMMA RequestStatus ==
  ASSUME Consistent, NEW r \in Runs, NEW q \in Runs,
         Request(r) \/ MaterializeScheduledRun(r)
  PROVE  StatusOK(q)
<1> DEFINE x == row[r]
<1>1. row \in [Runs -> Row] /\ x \in Row /\ RunOK(r) /\ RunOK(q) /\ clock \in Nat
  BY ConsistentRun DEF Consistent, TypeOK
<1>2. ASSUME NEW y \in Row, Put(r, y),
             \/ y.status = x.status
             \/ Resting(x) /\ (\/ y.status \notin Unfinished
                               \/ x.status \in Unfinished
                               \/ \A p \in Runs \ {r} :
                                    TaskOf[p] = TaskOf[r] => row[p].status \notin Unfinished)
             \/ x.status = "running" /\ y.status = "stopping"
      PROVE  StatusOK(q)
  <2>1. row'[r].status = y.status /\ \A p \in Runs \ {r} : row'[p] = row[p]
    BY <1>1, <1>2, PutKeeps
  <2>2. CASE q # r
    BY <2>1, <2>2, SameStatus
  <2>3. CASE q = r /\ y.status = x.status
    BY <2>1, <2>3, SameStatus
  <2>4. CASE q = r /\ x.status = "running" /\ y.status = "stopping"
    BY <2>1, <2>4 DEF StatusOK, StopKept, Finished, Unfinished
  <2>5. CASE /\ q = r /\ Resting(x)
             /\ \/ y.status \notin Unfinished \/ x.status \in Unfinished
                \/ \A p \in Runs \ {r} :
                     TaskOf[p] = TaskOf[r] => row[p].status \notin Unfinished
    BY <1>1, <2>1, <2>5, RestingStatus DEF Alone
  <2> QED
    BY <1>2, <2>2, <2>3, <2>4, <2>5
<1>3. CASE CreateManualRun(r) \/ CreateQuickInputRun(r) \/ MaterializeScheduledRun(r)
  <2>1. PICK status \in {"queued", "skipped", "failed"} :
             Put(r, NewRow(r, status)) /\ (status = "queued" => ~Busy(TaskOf[r]))
    BY <1>3 DEF CreateManualRun, CreateQuickInputRun, MaterializeScheduledRun
  <2>2. NewRow(r, status) \in Row /\ NewRow(r, status).status = status
    BY NewRowType DEF Statuses, Finished, Unfinished, NewRow, Absent
  <2>3. Resting(x)
    BY <1>3 DEF CreateManualRun, CreateQuickInputRun, MaterializeScheduledRun,
                Resting, Unresolved
  <2>4. status # "queued" => status \notin Unfinished
    BY DEF Unfinished
  <2> HIDE DEF x
  <2> QED
    BY <1>2, <2>1, <2>2, <2>3, <2>4 DEF Busy
<1>4. CASE ArchiveQuickInputRun(r)
  <2>1. [x EXCEPT !.archived = TRUE] \in Row /\ [x EXCEPT !.archived = TRUE].status = x.status
    BY <1>1 DEF Row
  <2> QED
    BY <1>2, <1>4, <2>1 DEF ArchiveQuickInputRun
<1>5. CASE Stoppable(x) /\ Put(r, [x EXCEPT !.status = "cancelled", !.nextAt = Never])
  <2> DEFINE y == [x EXCEPT !.status = "cancelled", !.nextAt = Never]
  <2>1. y \in Row /\ y.status = "cancelled" /\ y.status \notin Unfinished /\ Put(r, y)
    BY <1>1, <1>5, Constants DEF Row, Statuses, Finished, Unfinished
  <2>2. Resting(x)
    BY <1>5 DEF Resting, Unresolved, Stoppable
  <2> HIDE DEF y
  <2> QED
    BY <1>2, <2>1, <2>2
<1>6. CASE x.status = "running" /\ Put(r, [x EXCEPT !.status = "stopping"])
  <2> DEFINE y == [x EXCEPT !.status = "stopping"]
  <2>1. y \in Row /\ y.status = "stopping" /\ Put(r, y)
    BY <1>1, <1>6 DEF Row, Statuses, Unfinished
  <2> HIDE DEF y
  <2> QED
    BY <1>2, <1>6, <2>1
<1>7. CASE ContinueNow(r)
  <2>1. [x EXCEPT !.nextAt = clock] \in Row /\ [x EXCEPT !.nextAt = clock].status = x.status
    BY <1>1, Constants DEF Row
  <2> QED
    BY <1>2, <1>7, <2>1 DEF ContinueNow
<1>8. CASE ReplyRun(r)
  <2> DEFINE y == [x EXCEPT !.status = "queued", !.recoverable = FALSE,
                            !.input = TRUE, !.cont = TRUE, !.nextAt = Never]
  <2>1. y \in Row
    BY <1>1, Constants DEF Row, Statuses, Unfinished
  <2>2. Resting(x) /\ Put(r, y)
        /\ \A p \in Runs \ {r} : TaskOf[p] = TaskOf[r] => row[p].status \notin Unfinished
    BY <1>8 DEF ReplyRun, Replyable, Resting, Unresolved
  <2> HIDE DEF y, x
  <2> QED
    BY <1>2, <2>1, <2>2
<1> QED
  BY <1>3, <1>4, <1>5, <1>6, <1>7, <1>8 DEF Request, RequestRunStop

LEMMA RecoverRunsStatus ==
  ASSUME Consistent, NEW q \in Runs, NEW owner \in Nat, NEW reused \in SUBSET Runs,
         RecoverRuns(owner, reused), inc' = owner
  PROVE  StatusOK(q)
<1> DEFINE dead == {r \in Runs : Abandoned(r, owner) /\ ~SeemsAlive(r, reused)}
           w    == [row[q] EXCEPT !.status = "waiting"]
<1>1. row[q] \in Row /\ RunOK(q)
  BY ConsistentRun
<1>2. CASE q \in dead
  <2>1. row'[q] = Stored(Interrupted(row[q]))
    BY <1>2 DEF RecoverRuns
  <2>2. Interrupted(row[q]) \in Row /\ Interrupted(row[q]).status = "failed"
    <3>1. row[q].resultRev + 1 \in Nat /\ "failed" \in Statuses
      BY <1>1 DEF Row, Statuses, Finished
    <3> QED
      BY <1>1, <3>1, InterruptedType DEF Interrupted, Row
  <2>3. row'[q].status = "failed"
    BY <2>1, <2>2, StoredKeeps
  <2>4. prompted[q] = {} /\ row[q].owner # owner
    BY <1>1, <1>2 DEF RunOK, WriterRecorded, SeemsAlive, Abandoned
  <2> QED
    BY <2>3, <2>4 DEF StatusOK, StopKept, Unfinished
<1>3. CASE q \notin dead /\ Abandoned(q, owner)
  <2>1. row'[q] = Stored(w) /\ row[q].owner # owner
    BY <1>3 DEF RecoverRuns, Abandoned
  <2>2. w \in Row /\ w.status = "waiting" /\ w.nextAt = row[q].nextAt
    BY <1>1 DEF Row, Statuses, Unfinished
  <2>3. row'[q].status = "waiting" /\ row'[q].nextAt = row[q].nextAt
    BY <2>1, <2>2, StoredKeeps
  <2>4. row[q].status \in Unfinished
    BY <1>3 DEF Abandoned, Unfinished
  <2>5. row[q].status = "stopping" => row[q].nextAt = Never
    BY <1>1 DEF RunOK, NoNextTime
  <2> QED
    BY <2>1, <2>3, <2>4, <2>5 DEF StatusOK, StopKept, Unresolved, Finished
<1>4. CASE q \notin dead /\ ~Abandoned(q, owner)
  <2>1. row'[q] = row[q]
    BY <1>4 DEF RecoverRuns
  <2> QED
    BY <2>1, SameStatus
<1> QED
  BY <1>2, <1>3, <1>4

LEMMA AdvancedStatus ==
  ASSUME Consistent, NEW q \in Runs, row'[q] = Advanced(row[q])
  PROVE  StatusOK(q)
<1>1. RunOK(q) /\ row[q] \in Row
  BY ConsistentRun
<1>2. CASE Resting(row[q])
  BY <1>1, <1>2, AdvancedRests, RestingStatus
<1>3. CASE ~Resting(row[q])
  BY <1>1, <1>3, AdvancedRests, SameStatus
<1> QED
  BY <1>2, <1>3

LEMMA PassStatus ==
  ASSUME Consistent, NEW q \in Runs, Pass
  PROVE  StatusOK(q)
<1>1. CASE PassStart
  BY <1>1, RecoverRunsStatus DEF PassStart, Consistent, TypeOK
<1>2. CASE AdvanceContinuations \/ NothingToClaim
  BY <1>2, AdvancedStatus DEF AdvanceContinuations, NothingToClaim
<1>3. CASE DispatchDone \/ PassDone \/ Execute \/ \E r \in Runs : ClaimRefused(r)
  BY <1>3, SameStatus DEF DispatchDone, PassDone, Execute, ClaimRefused, store
<1>4. ASSUME NEW r \in Runs, ClaimNextRun(r)
      PROVE  StatusOK(q)
  <2>1. CASE q # r
    BY <1>4, <2>1, AdvancedStatus DEF ClaimNextRun
  <2>2. CASE q = r
    <3>1. RunOK(q) /\ row[q] \in Row
      BY ConsistentRun
    <3>2. Advanced(row[q]).status = "queued"
      BY <1>4, <2>2 DEF ClaimNextRun, Oldest, Due
    <3>3. row[q].status \in Unfinished /\ Resting(row[q])
      BY <3>1, <3>2, AdvancedRests DEF Unfinished, Resting, Unresolved
    <3> QED
      BY <3>1, <3>3, RestingStatus
  <2> QED
    BY <2>1, <2>2
<1> QED
  BY <1>1, <1>2, <1>3, <1>4 DEF Pass

LEMMA FinishExecutionStatus ==
  ASSUME Consistent, NEW r \in Runs, NEW q \in Runs, NEW res, NEW rec \in Recovery,
         NEW ms \in Nat, NEW aborted \in BOOLEAN,
         FinishExecution(r, res, rec, ms, aborted), prompted[r] = {}
  PROVE  StatusOK(q)
<1> DEFINE y == FinishedRow(r, row[r], res, rec, ms, aborted)
<1>1. row \in [Runs -> Row] /\ row[r] \in Row /\ TypeOK
  BY DEF Consistent, TypeOK
<1>2. y \in Row /\ (row[r].status = "stopping" => y.status = "cancelled")
  BY <1>1, FinishedRowType, FinishedRowRests
<1>3. Put(r, y) /\ row[r].status \in Unfinished
  BY DEF FinishExecution, Owned, Unfinished
<1> HIDE DEF y
<1>4. row'[r].status = y.status /\ \A p \in Runs \ {r} : row'[p] = row[p]
  BY <1>1, <1>2, <1>3, PutKeeps
<1>5. CASE q = r
  BY <1>2, <1>3, <1>4, <1>5 DEF StatusOK, StopKept
<1>6. CASE q # r
  BY <1>4, <1>6, SameStatus
<1> QED
  BY <1>5, <1>6

LEMMA StatusStep ==
  ASSUME Consistent, NEW q \in Runs, [Next]_vars
  PROVE  StatusOK(q)
<1>1. ASSUME NEW r \in Runs, Request(r) \/ MaterializeScheduledRun(r)
      PROVE  StatusOK(q)
  BY <1>1, RequestStatus
<1>2. CASE Pass
  BY <1>2, PassStatus
<1>3. ASSUME NEW r \in Runs, Finish(r)
      PROVE  StatusOK(q)
  <2>1. PICK res \in {"succeeded", "blocked", "failed", "error"}, rec \in Recovery,
             ms \in {0, 1} : FinishExecution(r, res, rec, ms, abort[r])
    BY <1>3, FinishResult
  <2>2. prompted[r] = {} /\ abort[r] \in BOOLEAN
    BY <1>3, ConsistentRun, SettledSilent DEF Finish, Consistent, TypeOK
  <2> QED
    BY <2>1, <2>2, FinishExecutionStatus
<1>4. ASSUME NEW r \in Runs, SetRunOwnerPid(r)
      PROVE  StatusOK(q)
  <2>1. row' = [row EXCEPT ![r] = [row[r] EXCEPT !.pid = row[r].active]]
    BY <1>4 DEF SetRunOwnerPid, Consistent, TypeOK
  <2>2. row'[q].status = row[q].status
    BY <2>1, ConsistentRun DEF Consistent, TypeOK, Row
  <2> QED
    BY <2>2, SameStatus
<1>5. ASSUME NEW r \in Runs, SetRunThread(r)
      PROVE  StatusOK(q)
  <2> DEFINE y == [row[r] EXCEPT !.thread = TRUE]
  <2>1. y \in Row /\ y.status = row[r].status
    BY ConsistentRun DEF Row
  <2>2. Put(r, y)
    BY <1>5 DEF SetRunThread
  <2> HIDE DEF y
  <2>3. row'[q].status = row[q].status
    BY <2>1, <2>2, PutKeeps DEF Consistent, TypeOK
  <2> QED
    BY <2>3, SameStatus
<1>6. CASE CancelClaimed
  <2> DEFINE none == [kind |-> "none", repeated |-> FALSE, notBefore |-> Never]
  <2>1. claimed \in Runs /\ 0 \in Nat /\ TRUE \in BOOLEAN
    BY <1>6 DEF CancelClaimed, Consistent, TypeOK
  <2>2. none \in Recovery
    BY Constants DEF Recovery
  <2> HIDE DEF none
  <2>3. FinishExecution(claimed, "error", none, 0, TRUE)
    BY <1>6 DEF CancelClaimed, none
  <2>4. prompted[claimed] = {}
    BY <2>1, ConsistentRun DEF RunOK, ClaimOwned
  <2> QED
    BY <2>1, <2>2, <2>3, <2>4, FinishExecutionStatus
<1>7. CASE Restart
  BY <1>7, RecoverRunsStatus DEF Restart, Consistent, TypeOK
<1>8. CASE UNCHANGED row
  BY <1>8, SameStatus
<1>9. ASSUME NEW r \in Runs,
             \/ StartFails(r) \/ Spawn(r) \/ SendPrompt(r) \/ AbortedBeforePrompt(r)
             \/ Abort(r) \/ ProcessExit(r) \/ OwnerPidNotStored(r) \/ ResultNotStored(r)
      PROVE  StatusOK(q)
  BY <1>8, <1>9
  DEF StartFails, Spawn, SendPrompt, AbortedBeforePrompt, Abort, ProcessExit,
      OwnerPidNotStored, ResultNotStored, store
<1>10. CASE Dispose \/ Disposed \/ Crash \/ Tick \/ UNCHANGED vars
  BY <1>8, <1>10 DEF Dispose, Disposed, Crash, Down, Tick, store, vars
<1>11. ASSUME NEW r \in Runs, PutBinding(r)
       PROVE  StatusOK(q)
  BY <1>11, PutBindingOK, SameStatus
<1>12. CASE RunStep
  BY <1>1, <1>2, <1>3, <1>4, <1>5, <1>6, <1>7, <1>9, <1>10, <1>12
  DEF RunStep, Execution
<1> QED
  BY <1>10, <1>11, <1>12, KindAssumption DEF Next

-----------------------------------------------------------------------------
(* The theorems.                                                           *)

LEMMA InitConsistent == Init => Consistent
<1> SUFFICES ASSUME Init PROVE Consistent
  OBVIOUS
<1>1. TypeOK
  BY InitType
<1>2. ASSUME NEW q \in Runs
      PROVE  RunOK(q) /\ row[q].status \notin Unfinished
  <2>1. row[q] = Absent /\ q # 0
    BY RunsAssumption DEF Init
  <2> QED
    BY <2>1
    DEF Init, Absent, Unfinished, RunOK, ExecutionOwned, ClaimOwned,
        WriterRecorded, AttemptAccounted, NoNextTime, Unresolved
<1> QED
  BY <1>1, <1>2 DEF Consistent, OneUnfinishedRunPerTask

LEMMA NextConsistent == Consistent /\ [Next]_vars => Consistent'
<1> SUFFICES ASSUME Consistent, [Next]_vars PROVE Consistent'
  OBVIOUS
<1>1. TypeOK'
  BY NextType DEF Consistent
<1>2. ASSUME NEW q \in Runs
      PROVE  RunOK(q)'
  <2>1. CASE UNCHANGED vars
    BY <2>1, ConsistentRun, Untouched DEF vars, store, process, world
  <2>2. CASE Next
    BY <2>2, KindAssumption, RequestOK, MaterializeOK, PassOK, ExecutionOK,
       OtherStepsOK, BackendOK, PutBindingOK
    DEF Next, RunStep
  <2> QED
    BY <2>1, <2>2
<1>3. OneUnfinishedRunPerTask'
  <2>1. \A q \in Runs : row'[q].status \in Unfinished =>
                          row[q].status \in Unfinished \/ Alone(q)
    BY StatusStep DEF StatusOK
  <2> QED
    BY <2>1 DEF Consistent, OneUnfinishedRunPerTask, Alone
<1> QED
  BY <1>1, <1>2, <1>3 DEF Consistent

\* Rows, attempts, executions and processes agree in every reachable state.
THEOREM Safety == Spec => []Consistent
BY InitConsistent, NextConsistent, PTL DEF Spec

\* A task never has two unfinished runs.
THEOREM UniqueRun == Spec => []OneUnfinishedRunPerTask
<1>1. Consistent => OneUnfinishedRunPerTask
  BY DEF Consistent
<1> QED
  BY <1>1, Safety, PTL

\* closeAttempt never throws: the active attempt of a run is its only
\* unfinished one.
THEOREM AttemptsMatch == Spec => []AttemptsAccounted
<1>1. Consistent => AttemptsAccounted
  BY DEF Consistent, RunOK, AttemptsAccounted
<1> QED
  BY <1>1, Safety, PTL

\* The runs of a task never have two prompted processes alive, whatever
\* crashes and restarts happen between the steps of their executions.
THEOREM UniqueWriter == Spec => []OneWriterPerTask
<1>1. Consistent => OneWriterPerTask
  <2> SUFFICES ASSUME Consistent, NEW q \in Runs, NEW r \in Runs,
                      NEW p \in prompted[q], NEW s \in prompted[r],
                      TaskOf[q] = TaskOf[r]
               PROVE  q = r /\ p = s
    BY DEF OneWriterPerTask
  <2>1. /\ p = row[q].pid /\ row[q].status \in Unfinished
        /\ s = row[r].pid /\ row[r].status \in Unfinished
    BY ConsistentRun DEF RunOK, WriterRecorded, Unresolved, Unfinished
  <2> QED
    BY <2>1 DEF Consistent, OneUnfinishedRunPerTask
<1> QED
  BY <1>1, Safety, PTL

\* A stop that was stored is never overtaken by a result.
THEOREM StopWins == Spec => StopIsFinal
<1>1. Consistent /\ [Next]_vars =>
        [\A r \in Runs : row[r].status = "stopping" =>
           \/ row'[r].status \in {"stopping", "cancelled"}
           \/ row[r].owner # inc' /\ (row'[r].status = "failed" \/ Unresolved(row'[r]))]_vars
  BY StatusStep DEF StatusOK, StopKept
<1> QED
  BY <1>1, Safety, PTL DEF Spec, StopIsFinal

\* A run ends only when the process that was writing for it is gone.
THEOREM NoWriterLeft == Spec => EndsAfterExit
<1>1. Consistent /\ [Next]_vars =>
        [\A r \in Runs :
           row[r].status \in Unfinished /\ row'[r].status \in Finished
           => prompted[r] = {}]_vars
  BY StatusStep DEF StatusOK
<1> QED
  BY <1>1, Safety, PTL DEF Spec, EndsAfterExit

-----------------------------------------------------------------------------
(* How the row of a run may change in one step, and its counters with it.  *)

SameCounts(r) == attempts'[r].n = attempts[r].n /\ replies'[r] = replies[r]

RowCreated(r) ==
  /\ row[r].status = "absent"
  /\ \E status \in {"queued", "skipped", "failed"} : row'[r] = Stored(NewRow(r, status))

RowArchived(r) ==
  row[r].status \in Finished /\ row'[r] = Stored([row[r] EXCEPT !.archived = TRUE])

RowStopped(r) ==
  \/ /\ Stoppable(row[r])
     /\ row'[r] = Stored([row[r] EXCEPT !.status = "cancelled", !.nextAt = Never])
  \/ row[r].status = "running" /\ row'[r] = Stored([row[r] EXCEPT !.status = "stopping"])

RowContinued(r) ==
  /\ row[r].status = "waiting" /\ row[r].nextAt # Never
  /\ row[r].notBefore # Never => clock >= row[r].notBefore
  /\ row'[r] = Stored([row[r] EXCEPT !.nextAt = clock])

RowReplied(r) ==
  /\ Replyable(row[r])
  /\ row'[r] = Stored([row[r] EXCEPT !.status = "queued", !.recoverable = FALSE,
                                     !.input = TRUE, !.cont = TRUE, !.nextAt = Never])

RowRecovered(r) ==
  /\ row[r].status \in {"running", "stopping", "waiting"}
  /\ row'[r] \in {Stored(Interrupted(row[r])), Stored([row[r] EXCEPT !.status = "waiting"])}

RowAdvanced(r) == row'[r] = Advanced(row[r])

RowClaimed(r) ==
  /\ Advanced(row[r]).status = "queued" /\ ~ThreadBusy(Advanced(row[r]))
  /\ row'[r] = Claimed(r, Advanced(row[r]))

RowRegistered(r) == Owned(r) /\ row'[r] = [row[r] EXCEPT !.pid = row[r].active]

RowThread(r) == Owned(r) /\ row'[r] = Stored([row[r] EXCEPT !.thread = TRUE])

RowFinished(r) ==
  /\ Owned(r)
  /\ \E res \in {"succeeded", "blocked", "failed", "error"}, rec \in Recovery,
        ms \in Nat, aborted \in BOOLEAN :
       row'[r] = Stored(FinishedRow(r, row[r], res, rec, ms, aborted))

RowBound(r) ==
  row[r].status # "absent" /\ row'[r] = Stored([row[r] EXCEPT !.bound = TRUE])

\* What a step of the runtime and its requests, and what a binding, changes.
RunRowStep(r) ==
  \/ /\ SameCounts(r)
     /\ \/ row'[r] = row[r] \/ RowCreated(r) \/ RowArchived(r) \/ RowStopped(r)
        \/ RowContinued(r) \/ RowRecovered(r) \/ RowAdvanced(r) \/ RowRegistered(r)
        \/ RowThread(r) \/ RowFinished(r)
  \/ /\ RowReplied(r)
     /\ attempts'[r].n = attempts[r].n /\ replies'[r] = replies[r] + 1
  \/ /\ RowClaimed(r)
     /\ attempts'[r].n = attempts[r].n + 1 /\ replies'[r] = replies[r]

RowStep(r) == RunRowStep(r) \/ (SameCounts(r) /\ RowBound(r))

LEMMA KeptRowStep ==
  ASSUME NEW q \in Runs, row'[q] = row[q], SameCounts(q)
  PROVE  RunRowStep(q)
BY DEF RunRowStep

LEMMA PutRow ==
  ASSUME row \in [Runs -> Row], NEW r \in Runs, NEW x, Put(r, x)
  PROVE  row'[r] = Stored(x) /\ \A q \in Runs \ {r} : row'[q] = row[q]
BY DEF Put

LEMMA RequestRowStep ==
  ASSUME TypeOK, NEW r \in Runs, NEW q \in Runs, Request(r) \/ MaterializeScheduledRun(r)
  PROVE  RunRowStep(q)
<1>1. row \in [Runs -> Row] /\ replies \in [Runs -> Nat]
  BY DEF TypeOK
<1>2. attempts' = attempts
  BY DEF Request, CreateManualRun, CreateQuickInputRun, ArchiveQuickInputRun,
         RequestRunStop, ContinueNow, ReplyRun, MaterializeScheduledRun
<1>3. ASSUME ~ReplyRun(r) PROVE SameCounts(q)
  <2>1. replies' = replies
    BY <1>3 DEF Request, CreateManualRun, CreateQuickInputRun, ArchiveQuickInputRun,
       RequestRunStop, ContinueNow, MaterializeScheduledRun
  <2> QED
    BY <1>2, <2>1 DEF SameCounts
<1>4. CASE q # r
  <2>1. row'[q] = row[q]
    BY <1>1, <1>4, PutRow DEF Request, CreateManualRun, CreateQuickInputRun,
       ArchiveQuickInputRun, RequestRunStop, ContinueNow, ReplyRun, MaterializeScheduledRun
  <2>2. replies'[q] = replies[q]
    <3>1. CASE ReplyRun(r)
      BY <1>1, <1>4, <3>1 DEF ReplyRun
    <3> QED
      BY <1>3, <3>1 DEF SameCounts
  <2> QED
    BY <1>2, <2>1, <2>2, KeptRowStep DEF SameCounts
<1>5. CASE q = r
  <2>1. CASE CreateManualRun(r) \/ CreateQuickInputRun(r)
    <3>1. row[r].status = "absent" /\ Put(r, NewRow(r, "queued")) /\ SameCounts(r)
      BY <1>2, <2>1 DEF CreateManualRun, CreateQuickInputRun, SameCounts
    <3>2. RowCreated(r)
      BY <1>1, <3>1, PutRow DEF RowCreated
    <3> QED
      BY <1>5, <3>1, <3>2 DEF RunRowStep
  <2>2. CASE MaterializeScheduledRun(r)
    <3>1. PICK status \in {"queued", "skipped", "failed"} : Put(r, NewRow(r, status))
      BY <2>2 DEF MaterializeScheduledRun
    <3>2. RowCreated(r) /\ SameCounts(r)
      BY <1>1, <1>2, <2>2, <3>1, PutRow DEF RowCreated, MaterializeScheduledRun, SameCounts
    <3> QED
      BY <1>5, <3>2 DEF RunRowStep
  <2>3. CASE ArchiveQuickInputRun(r)
    <3>1. RowArchived(r) /\ SameCounts(r)
      BY <1>1, <1>2, <2>3, PutRow DEF RowArchived, ArchiveQuickInputRun, SameCounts
    <3> QED
      BY <1>5, <3>1 DEF RunRowStep
  <2>4. CASE RequestRunStop(r)
    <3>1. RowStopped(r) /\ SameCounts(r)
      BY <1>1, <1>2, <2>4, PutRow DEF RowStopped, RequestRunStop, SameCounts
    <3> QED
      BY <1>5, <3>1 DEF RunRowStep
  <2>5. CASE ContinueNow(r)
    <3>1. RowContinued(r) /\ SameCounts(r)
      BY <1>1, <1>2, <2>5, PutRow DEF RowContinued, ContinueNow, SameCounts
    <3> QED
      BY <1>5, <3>1 DEF RunRowStep
  <2>6. CASE ReplyRun(r)
    <3>1. RowReplied(r)
      BY <1>1, <2>6, PutRow DEF RowReplied, ReplyRun
    <3>2. replies'[r] = replies[r] + 1
      BY <1>1, <2>6 DEF ReplyRun
    <3> QED
      BY <1>2, <1>5, <3>1, <3>2 DEF RunRowStep
  <2> QED
    BY <2>1, <2>2, <2>3, <2>4, <2>5, <2>6 DEF Request
<1> QED
  BY <1>4, <1>5

LEMMA RecoverRowStep ==
  ASSUME TypeOK, NEW q \in Runs, NEW owner, NEW reused, RecoverRuns(owner, reused),
         replies' = replies
  PROVE  RunRowStep(q)
<1>1. SameCounts(q)
  <2>1. \/ attempts'[q] = attempts[q]
        \/ attempts'[q] = [attempts[q] EXCEPT !.open = @ \ {row[q].active}]
    BY DEF RecoverRuns
  <2> QED
    BY <2>1 DEF TypeOK, SameCounts
<1>2. CASE Abandoned(q, owner)
  <2>1. RowRecovered(q)
    BY <1>2 DEF RecoverRuns, RowRecovered, Abandoned
  <2> QED
    BY <1>1, <2>1 DEF RunRowStep
<1>3. CASE ~Abandoned(q, owner)
  <2>1. row'[q] = row[q]
    BY <1>3 DEF RecoverRuns
  <2> QED
    BY <1>1, <2>1, KeptRowStep
<1> QED
  BY <1>2, <1>3

LEMMA PassRowStep ==
  ASSUME TypeOK, NEW q \in Runs, Pass
  PROVE  RunRowStep(q)
<1>1. CASE PassStart
  BY <1>1, RecoverRowStep DEF PassStart
<1>2. CASE AdvanceContinuations \/ NothingToClaim
  <2>1. RowAdvanced(q) /\ SameCounts(q)
    BY <1>2 DEF AdvanceContinuations, NothingToClaim, RowAdvanced, SameCounts
  <2> QED
    BY <2>1 DEF RunRowStep
<1>3. CASE DispatchDone \/ PassDone \/ Execute \/ \E r \in Runs : ClaimRefused(r)
  <2>1. row' = row /\ attempts' = attempts /\ replies' = replies
    BY <1>3 DEF DispatchDone, PassDone, Execute, ClaimRefused, store
  <2> QED
    BY <2>1, KeptRowStep DEF SameCounts
<1>4. ASSUME NEW r \in Runs, ClaimNextRun(r)
      PROVE  RunRowStep(q)
  <2>1. replies' = replies
    BY <1>4 DEF ClaimNextRun
  <2>2. CASE q # r
    <3>1. row'[q] = Advanced(row[q]) /\ attempts'[q] = attempts[q]
      BY <1>4, <2>2 DEF ClaimNextRun, TypeOK
    <3> QED
      BY <2>1, <3>1 DEF RunRowStep, RowAdvanced, SameCounts
  <2>3. CASE q = r
    <3>1. RowClaimed(q)
      BY <1>4, <2>3 DEF ClaimNextRun, RowClaimed, Oldest, Due
    <3>2. attempts'[q].n = attempts[q].n + 1
      BY <1>4, <2>3 DEF ClaimNextRun, TypeOK
    <3> QED
      BY <2>1, <3>1, <3>2 DEF RunRowStep
  <2> QED
    BY <2>2, <2>3
<1> QED
  BY <1>1, <1>2, <1>3, <1>4 DEF Pass

LEMMA FinishRowStep ==
  ASSUME TypeOK, NEW r \in Runs, NEW q \in Runs,
         NEW res \in {"succeeded", "blocked", "failed", "error"},
         NEW rec \in Recovery, NEW ms \in Nat, NEW aborted \in BOOLEAN,
         FinishExecution(r, res, rec, ms, aborted), replies' = replies
  PROVE  RunRowStep(q)
<1>1. SameCounts(q)
  BY DEF FinishExecution, CloseAttempt, TypeOK, SameCounts
<1>2. /\ row'[r] = Stored(FinishedRow(r, row[r], res, rec, ms, aborted))
      /\ \A p \in Runs \ {r} : row'[p] = row[p]
  BY PutRow DEF FinishExecution, TypeOK
<1>3. CASE q = r
  <2>1. RowFinished(r)
    BY <1>2 DEF RowFinished, FinishExecution
  <2> QED
    BY <1>1, <1>3, <2>1 DEF RunRowStep
<1>4. CASE q # r
  BY <1>1, <1>2, <1>4, KeptRowStep
<1> QED
  BY <1>3, <1>4

LEMMA RunRowSteps ==
  ASSUME Consistent, NEW q \in Runs, RunStep \/ UNCHANGED vars
  PROVE  RunRowStep(q)
<1>0. TypeOK
  BY DEF Consistent
<1>1. ASSUME NEW r \in Runs, Request(r) \/ MaterializeScheduledRun(r)
      PROVE  RunRowStep(q)
  BY <1>0, <1>1, RequestRowStep
<1>2. CASE Pass
  BY <1>0, <1>2, PassRowStep
<1>3. ASSUME NEW r \in Runs, Finish(r)
      PROVE  RunRowStep(q)
  <2>1. PICK res \in {"succeeded", "blocked", "failed", "error"}, rec \in Recovery,
             ms \in {0, 1} : FinishExecution(r, res, rec, ms, abort[r])
    BY <1>3, FinishResult
  <2>2. abort[r] \in BOOLEAN /\ replies' = replies /\ ms \in Nat
    BY <1>0, <1>3 DEF Finish, TypeOK
  <2> QED
    BY <1>0, <2>1, <2>2, FinishRowStep
<1>4. ASSUME NEW r \in Runs, SetRunOwnerPid(r) \/ SetRunThread(r)
      PROVE  RunRowStep(q)
  <2>1. SameCounts(q)
    BY <1>4 DEF SetRunOwnerPid, SetRunThread, SameCounts
  <2>2. CASE q # r
    <3>1. row'[q] = row[q]
      BY <1>0, <1>4, <2>2, PutRow DEF SetRunOwnerPid, SetRunThread, TypeOK
    <3> QED
      BY <2>1, <3>1, KeptRowStep
  <2>3. CASE q = r
    <3>1. CASE SetRunOwnerPid(r)
      <4>1. row'[r] = [row[r] EXCEPT !.pid = row[r].active]
        BY <1>0, <3>1 DEF SetRunOwnerPid, TypeOK
      <4>2. RowRegistered(r)
        BY <3>1, <4>1 DEF RowRegistered, SetRunOwnerPid
      <4> QED
        BY <2>1, <2>3, <4>2 DEF RunRowStep
    <3>2. CASE SetRunThread(r)
      <4>1. RowThread(r)
        BY <1>0, <3>2, PutRow DEF RowThread, SetRunThread, TypeOK
      <4> QED
        BY <2>1, <2>3, <4>1 DEF RunRowStep
    <3> QED
      BY <1>4, <3>1, <3>2
  <2> QED
    BY <2>2, <2>3
<1>5. CASE CancelClaimed
  <2> DEFINE none == [kind |-> "none", repeated |-> FALSE, notBefore |-> Never]
  <2>1. claimed \in Runs /\ 0 \in Nat /\ TRUE \in BOOLEAN /\ replies' = replies
    BY <1>0, <1>5 DEF CancelClaimed, TypeOK
  <2>2. none \in Recovery
    BY Constants DEF Recovery
  <2> HIDE DEF none
  <2>3. FinishExecution(claimed, "error", none, 0, TRUE)
    BY <1>5 DEF CancelClaimed, none
  <2> QED
    BY <1>0, <2>1, <2>2, <2>3, FinishRowStep
<1>6. CASE Restart
  BY <1>0, <1>6, RecoverRowStep DEF Restart
<1>7. CASE UNCHANGED store
  <2>1. row' = row /\ attempts' = attempts /\ replies' = replies
    BY <1>7 DEF store
  <2> QED
    BY <2>1, KeptRowStep DEF SameCounts
<1>8. ASSUME NEW r \in Runs,
             \/ StartFails(r) \/ Spawn(r) \/ SendPrompt(r) \/ AbortedBeforePrompt(r)
             \/ Abort(r) \/ ProcessExit(r) \/ OwnerPidNotStored(r) \/ ResultNotStored(r)
      PROVE  RunRowStep(q)
  BY <1>7, <1>8
  DEF StartFails, Spawn, SendPrompt, AbortedBeforePrompt, Abort, ProcessExit,
      OwnerPidNotStored, ResultNotStored
<1>9. CASE Dispose \/ Disposed \/ Crash \/ Tick \/ UNCHANGED vars
  BY <1>7, <1>9 DEF Dispose, Disposed, Crash, Down, Tick, vars
<1>10. CASE RunStep
  BY <1>1, <1>2, <1>3, <1>4, <1>5, <1>6, <1>8, <1>9, <1>10 DEF RunStep, Execution
<1> QED
  BY <1>9, <1>10

LEMMA RowSteps ==
  ASSUME Consistent, NEW q \in Runs, [Next]_vars
  PROVE  RowStep(q)
<1>1. CASE RunStep \/ UNCHANGED vars
  BY <1>1, RunRowSteps DEF RowStep
<1>2. ASSUME NEW r \in Runs, PutBinding(r)
      PROVE  RowStep(q)
  <2>1. SameCounts(q) /\ row \in [Runs -> Row]
    BY <1>2 DEF PutBinding, SameCounts, Consistent, TypeOK
  <2>2. CASE q # r
    <3>1. row'[q] = row[q]
      BY <1>2, <2>1, <2>2, PutRow DEF PutBinding
    <3> QED
      BY <2>1, <3>1, KeptRowStep DEF RowStep
  <2>3. CASE q = r
    <3>1. RowBound(r)
      BY <1>2, <2>1, PutRow DEF RowBound, PutBinding
    <3> QED
      BY <2>1, <2>3, <3>1 DEF RowStep
  <2> QED
    BY <2>2, <2>3
<1> QED
  BY <1>1, <1>2, KindAssumption DEF Next

-----------------------------------------------------------------------------
(* What a change of the row does to the history, the results and the       *)
(* continuations of its run.                                               *)

\* The two rows are the same but for the status, the next time and what the
\* history, the results and the continuations do not look at.
Alike(x, y) ==
  /\ y.count = x.count /\ y.input = x.input /\ y.thread = x.thread /\ y.cont = x.cont
  /\ y.deadline = x.deadline /\ y.notBefore = x.notBefore /\ y.spent = x.spent
  /\ y.archived = x.archived /\ y.resultRev = x.resultRev

Counted(x, n, p) ==
  /\ n <= 1 + x.count + p /\ x.count <= MaxAttempts
  /\ x.status = "absent" => n = 0
  /\ x.status = "queued" \/ (x.status = "waiting" /\ x.nextAt # Never) =>
       (Continuing(x) /\ ~x.input) \/ n <= x.count + p

Timely(x, now) ==
  x.status \in {"waiting", "queued"} /\ x.nextAt # Never =>
    /\ x.deadline # Never /\ x.notBefore <= x.nextAt /\ x.spent < Budget
    /\ x.status = "queued" => x.nextAt <= now

Settling(x) == x.archived => x.status \in Finished

\* What one step may do, for the three action properties at once.
Versioned(x, y) ==
  x.status \in Unfinished /\ y.status \in {"completed", "failed"} => y.resultRev > x.resultRev

InTime(x, y, now) ==
  x.status \in {"waiting", "queued"} /\ x.nextAt # Never /\ y.status = "running" =>
    now < x.deadline /\ now >= x.notBefore /\ x.spent < Budget

Fine(x, y, n, p, now) ==
  Counted(y, n, p) /\ Timely(y, now) /\ Settling(y) /\ Versioned(x, y) /\ InTime(x, y, now)

LEMMA StoredAlike ==
  ASSUME NEW x \in Row
  PROVE  /\ Alike(x, Stored(x)) /\ Stored(x).status = x.status
         /\ Stored(x).nextAt = x.nextAt
BY DEF Stored, Row, Alike

\* A step that leaves the status or ends, or stops, the run.
LEMMA FineUnclaimed ==
  ASSUME NEW x \in Row, NEW y \in Row, NEW n \in Nat, NEW p \in Nat, NEW now \in Nat,
         Counted(x, n, p), Timely(x, now), Settling(x), Alike(x, y),
         \/ y.status = x.status /\ y.nextAt = x.nextAt
         \/ y.status = "cancelled" /\ x.status \in Unfinished
         \/ y.status = "stopping" /\ x.status \in Unfinished
         \/ y.status = "waiting" /\ x.status \in Unfinished /\ y.nextAt = Never
  PROVE  Fine(x, y, n, p, now)
<1>1. Counted(y, n, p) /\ Timely(y, now)
  BY DEF Counted, Timely, Alike, Continuing, Unfinished
<1>2. Settling(y)
  BY DEF Settling, Alike, Finished, Unfinished
<1>3. Versioned(x, y) /\ InTime(x, y, now)
  BY DEF Versioned, InTime, Unfinished
<1> QED
  BY <1>1, <1>2, <1>3 DEF Fine

\* A step that fails the run with a new version of its result.
LEMMA FineFailed ==
  ASSUME NEW x \in Row, NEW y \in Row, NEW n \in Nat, NEW p \in Nat, NEW now \in Nat,
         Counted(x, n, p), y.count = x.count, y.status \in {"failed", "completed", "cancelled"},
         y.resultRev = x.resultRev + 1 \/ y.status = "cancelled"
  PROVE  Fine(x, y, n, p, now)
<1>1. Counted(y, n, p) /\ Timely(y, now) /\ Settling(y) /\ InTime(x, y, now)
  BY DEF Counted, Timely, Settling, InTime, Finished
<1>2. Versioned(x, y)
  BY DEF Versioned, Row
<1> QED
  BY <1>1, <1>2 DEF Fine

LEMMA FineStored ==
  ASSUME NEW x, NEW y \in Row, NEW n \in Nat, NEW p \in Nat, NEW now \in Nat,
         Fine(x, y, n, p, now)
  PROVE  Fine(x, Stored(y), n, p, now)
<1>1. /\ Alike(y, Stored(y)) /\ Stored(y).status = y.status
      /\ Stored(y).nextAt = y.nextAt
  BY StoredAlike
<1> DEFINE z == Stored(y)
<1> HIDE DEF z
<1>2. Alike(y, z) /\ z.status = y.status /\ z.nextAt = y.nextAt
  BY <1>1 DEF z
<1>3. Counted(z, n, p) /\ Timely(z, now) /\ Settling(z)
  BY <1>2 DEF Fine, Counted, Timely, Settling, Alike, Continuing
<1>4. Versioned(x, z) /\ InTime(x, z, now)
  BY <1>2 DEF Fine, Versioned, InTime, Alike
<1> QED
  BY <1>3, <1>4 DEF Fine, z

\* advance(): a continuation past its deadline fails, a due one is queued.
LEMMA AdvancedIs ==
  ASSUME TypeOK, NEW x \in Row
  PROVE  LET y == Advanced(x) IN
         \/ y = x /\ (x.status \in {"waiting", "queued"} /\ x.nextAt # Never =>
                        x.deadline = Never \/ clock < x.deadline)
         \/ /\ x.status \in Unfinished /\ y.status = "failed"
            /\ y.count = x.count /\ y.resultRev = x.resultRev + 1
         \/ /\ x.status = "waiting" /\ x.nextAt # Never /\ x.nextAt <= clock
            /\ x.deadline = Never \/ clock < x.deadline
            /\ y.status = "queued" /\ y.nextAt = x.nextAt /\ Alike(x, y)
<1> DEFINE f == [x EXCEPT !.status = "failed", !.nextAt = Never, !.resultRev = @ + 1]
           q == [x EXCEPT !.status = "queued"]
<1>1. x.deadline \in Time /\ clock \in Nat
  BY DEF Row, TypeOK
<1>2. CASE x.status \notin {"waiting", "queued"} \/ x.nextAt = Never
  BY <1>2 DEF Advanced
<1>3. CASE /\ ~(x.status \notin {"waiting", "queued"} \/ x.nextAt = Never)
           /\ x.deadline # Never /\ clock >= x.deadline
  <2>1. Advanced(x) = Stored(f)
    BY <1>3 DEF Advanced
  <2>2. f \in Row /\ f.status = "failed" /\ f.count = x.count /\ f.resultRev = x.resultRev + 1
    <3>1. x.resultRev + 1 \in Nat
      BY DEF Row
    <3> QED
      BY <3>1, Constants DEF Row, Finished
  <2> HIDE DEF f
  <2> QED
    BY <1>3, <2>1, <2>2, StoredAlike DEF Alike, Unfinished
<1>4. CASE /\ ~(x.status \notin {"waiting", "queued"} \/ x.nextAt = Never)
           /\ ~(x.deadline # Never /\ clock >= x.deadline)
  <2>1. x.deadline = Never \/ clock < x.deadline
    BY <1>1, <1>4 DEF Time, Never
  <2>2. CASE x.nextAt <= clock /\ x.status = "waiting"
    <3>1. Advanced(x) = Stored(q)
      BY <1>4, <2>2 DEF Advanced
    <3>2. q \in Row /\ q.status = "queued" /\ q.nextAt = x.nextAt /\ Alike(x, q)
      BY Constants DEF Row, Unfinished, Alike
    <3> HIDE DEF q
    <3> QED
      BY <1>4, <2>1, <2>2, <3>1, <3>2, StoredAlike DEF Alike
  <2>3. CASE ~(x.nextAt <= clock /\ x.status = "waiting")
    BY <1>4, <2>1, <2>3 DEF Advanced
  <2> QED
    BY <2>2, <2>3
<1> QED
  BY <1>2, <1>3, <1>4

LEMMA FineAdvanced ==
  ASSUME TypeOK, NEW x \in Row, NEW n \in Nat, NEW p \in Nat,
         Counted(x, n, p), Timely(x, clock), Settling(x)
  PROVE  Fine(x, Advanced(x), n, p, clock)
<1> DEFINE y == Advanced(x)
<1>1. y \in Row /\ clock \in Nat
  BY AdvancedType DEF TypeOK
<1>2. CASE y = x
  BY <1>1, <1>2, FineUnclaimed DEF Alike
<1>3. CASE /\ x.status \in Unfinished /\ y.status = "failed"
           /\ y.count = x.count /\ y.resultRev = x.resultRev + 1
  BY <1>1, <1>3, FineFailed
<1>4. CASE /\ x.status = "waiting" /\ x.nextAt # Never /\ x.nextAt <= clock
           /\ y.status = "queued" /\ y.nextAt = x.nextAt /\ Alike(x, y)
  <2> HIDE DEF y
  <2>1. Counted(y, n, p) /\ Timely(y, clock)
    BY <1>4 DEF Counted, Timely, Alike, Continuing
  <2>2. Settling(y) /\ Versioned(x, y) /\ InTime(x, y, clock)
    BY <1>4 DEF Settling, Versioned, InTime, Alike, Finished
  <2> QED
    BY <2>1, <2>2 DEF Fine, y
<1> QED
  BY <1>2, <1>3, <1>4, AdvancedIs

\* A claim starts a continuation, which is counted, or what the user asked for.
LEMMA FineClaimed ==
  ASSUME TypeOK, NEW r \in Runs, NEW x \in Row, NEW n \in Nat, NEW p \in Nat,
         Counted(x, n, p), Timely(x, clock), Settling(x),
         Advanced(x).status = "queued", ~ThreadBusy(Advanced(x))
  PROVE  Fine(x, Claimed(r, Advanced(x)), n + 1, p, clock)
<1> DEFINE y == Advanced(x)
           z == Claimed(r, y)
<1>1. /\ y \in Row /\ y.count \in Nat /\ y.status = "queued" /\ clock \in Nat
      /\ x.deadline \in Time /\ x.notBefore \in Time /\ x.nextAt \in Time
  BY AdvancedType DEF Row, TypeOK
<1>2. /\ Alike(x, y) /\ y.nextAt = x.nextAt
      /\ x.nextAt # Never => x.deadline = Never \/ clock < x.deadline
      /\ x.status = "queued" \/ (x.status = "waiting" /\ x.nextAt # Never)
      /\ x.nextAt # Never => x.status = "queued" \/ x.nextAt <= clock
  BY <1>1, AdvancedIs DEF Alike
<1>3. ~ThreadBusy(y)
  OBVIOUS
<1> HIDE DEF y
<1>4. /\ z.status = "running" /\ z.archived = y.archived
      /\ z.count = IF Continuing(y) /\ ~y.input THEN y.count + 1 ELSE y.count
  BY <1>1 DEF Claimed, Row
<1> HIDE DEF z
<1>5. Counted(z, n + 1, p)
  <2>1. n <= 1 + y.count + p /\ y.count <= MaxAttempts /\ MaxAttempts \in Nat
    BY <1>2, LimitAssumption DEF Counted, Alike
  <2>2. CASE Continuing(y) /\ ~y.input
    <3>1. y.count < MaxAttempts
      BY <1>1, <1>3, <2>1, <2>2 DEF ThreadBusy
    <3> QED
      BY <1>1, <1>4, <2>1, <2>2, <3>1 DEF Counted
  <2>3. CASE ~(Continuing(y) /\ ~y.input)
    <3>1. n <= y.count + p
      BY <1>2, <2>3 DEF Counted, Alike, Continuing
    <3> QED
      BY <1>1, <1>4, <2>1, <2>3, <3>1 DEF Counted
  <2> QED
    BY <2>2, <2>3
<1>6. Timely(z, clock) /\ Versioned(x, z)
  BY <1>4 DEF Timely, Versioned
<1>7. Settling(z)
  <2>1. ~x.archived
    BY <1>2 DEF Settling, Finished
  <2> QED
    BY <1>2, <1>4, <2>1 DEF Settling, Alike
<1>8. InTime(x, z, clock)
  <2> SUFFICES ASSUME x.status \in {"waiting", "queued"}, x.nextAt # Never
               PROVE  clock < x.deadline /\ clock >= x.notBefore /\ x.spent < Budget
    BY DEF InTime
  <2>1. x.deadline # Never /\ x.notBefore <= x.nextAt /\ x.spent < Budget
    BY DEF Timely
  <2>2. x.nextAt <= clock
    BY <1>2 DEF Timely
  <2>3. clock >= x.notBefore
    BY <1>1, <2>1, <2>2 DEF Time, Never
  <2> QED
    BY <1>2, <2>1, <2>3
<1> QED
  BY <1>5, <1>6, <1>7, <1>8 DEF Fine, y, z

\* What a result leaves of the row.
LEMMA FinishedRowIs ==
  ASSUME TypeOK, NEW r \in Runs, NEW x \in Row,
         NEW res \in {"succeeded", "blocked", "failed", "error"}, NEW rec \in Recovery,
         NEW ms \in Nat, NEW aborted \in BOOLEAN
  PROVE  LET y == FinishedRow(r, x, res, rec, ms, aborted) IN
         /\ y.count = x.count /\ y.archived = x.archived
         /\ y.thread = x.thread /\ y.cont = x.cont /\ y.bound = x.bound
         /\ \/ y.status \in {"cancelled", "completed", "failed"} /\ y.resultRev = x.resultRev + 1
            \/ /\ y.status = "waiting" /\ Continuing(y) /\ ~y.input
               /\ y.nextAt # Never /\ y.deadline # Never
               /\ y.notBefore <= y.nextAt /\ y.spent < Budget
<1> DEFINE status == IF x.status = "stopping" \/ aborted THEN "cancelled"
                     ELSE IF res = "succeeded" THEN "completed" ELSE "failed"
           ended  == Ended(x, status, ms)
           next   == ScheduleContinuation(r, ended, rec)
           kept   == next.nextAt # Never /\ next.spent < Budget
           w == [next EXCEPT !.status = "waiting"]
           f == [next EXCEPT !.nextAt = Never]
<1>1. status \in {"cancelled", "completed", "failed"} /\ status \in Statuses
  BY DEF Statuses, Finished
<1>2. FinishedRow(r, x, res, rec, ms, aborted) =
        IF status # "failed" \/ res = "error" THEN Final(ended)
        ELSE IF kept THEN w ELSE Final(f)
  BY DEF FinishedRow
<1> HIDE DEF status
<1>3. /\ ended \in Row /\ ended.status = status /\ ended.count = x.count
      /\ ended.archived = x.archived /\ ended.resultRev = x.resultRev
      /\ ended.nextAt = Never /\ ended.input = FALSE
      /\ ended.thread = x.thread /\ ended.cont = x.cont /\ ended.bound = x.bound
  <2> DEFINE spent == IF x.cont THEN x.spent + ms ELSE x.spent
  <2>1. spent \in Nat
    BY DEF Row
  <2> HIDE DEF spent
  <2> QED
    BY <1>1, <2>1, Constants DEF Ended, spent, Row
<1> HIDE DEF ended
<1>4. /\ next \in Row /\ next.status = status /\ next.count = x.count
      /\ next.archived = x.archived /\ next.resultRev = x.resultRev /\ next.input = FALSE
      /\ next.thread = ended.thread /\ next.cont = ended.cont /\ next.bound = ended.bound
  <2> DEFINE at == IF ContinueAt(ended, rec) < DeadlineOf(ended)
                   THEN ContinueAt(ended, rec) ELSE Never
             end == DeadlineOf(ended)
  <2>1. next \in Row
    BY <1>3, ScheduleContinuationType
  <2>2. \/ next = ended
        \/ next = [ended EXCEPT !.notBefore = rec.notBefore]
        \/ next = [ended EXCEPT !.notBefore = rec.notBefore, !.deadline = end,
                                !.nextAt = at]
    BY DEF ScheduleContinuation
  <2> HIDE DEF next, at, end
  <2>3. ended \in Row
    BY <1>3
  <2>4. /\ next.status = ended.status /\ next.count = ended.count
        /\ next.archived = ended.archived /\ next.resultRev = ended.resultRev
        /\ next.input = ended.input /\ next.thread = ended.thread
        /\ next.cont = ended.cont /\ next.bound = ended.bound
    BY <2>2, <2>3 DEF Row
  <2> QED
    BY <1>3, <2>1, <2>4
<1>5. ASSUME next.nextAt # Never
      PROVE  Continuing(next) /\ next.deadline # Never /\ next.notBefore <= next.nextAt
  <2>1. ended.cont /\ MayContinue(r, ended, rec)
    BY <1>3, <1>5 DEF ScheduleContinuation, Row
  <2> DEFINE at == ContinueAt(ended, rec)
             end == DeadlineOf(ended)
  <2>2. next = [ended EXCEPT !.notBefore = rec.notBefore, !.deadline = end,
                             !.nextAt = IF at < end THEN at ELSE Never]
    BY <2>1 DEF ScheduleContinuation
  <2>3. end # Never
    <3>1. clock + Window # Never
      BY LimitAssumption DEF TypeOK, Never
    <3> QED
      BY <3>1 DEF DeadlineOf
  <2>4. rec.notBefore <= at
    <3>1. rec.notBefore \in Int
      BY DEF Recovery, Time, Never
    <3>2. \E m : at = IF m >= rec.notBefore THEN m ELSE rec.notBefore
      BY DEF ContinueAt
    <3>3. at \in Int
      <4>1. ended.count < MaxAttempts /\ clock \in Nat
        BY <2>1 DEF MayContinue, TypeOK
      <4> QED
        BY <1>3, <4>1, ContinueAtType DEF Row, Time, Never
    <3> HIDE DEF at
    <3> QED
      BY <3>1, <3>2, <3>3
  <2> HIDE DEF at, end
  <2>5. next.deadline = end /\ next.notBefore = rec.notBefore /\ next.nextAt = at
    BY <1>3, <1>5, <2>2 DEF Row
  <2>6. Continuing(next)
    BY <1>4, <2>1 DEF Continuing, MayContinue
  <2> QED
    BY <2>3, <2>4, <2>5, <2>6
<1> HIDE DEF next
<1>6. ASSUME NEW z \in Row
      PROVE  /\ Final(z).status = z.status /\ Final(z).count = z.count
             /\ Final(z).archived = z.archived /\ Final(z).resultRev = z.resultRev + 1
             /\ Final(z).thread = z.thread /\ Final(z).cont = z.cont
             /\ Final(z).bound = z.bound
  BY DEF Final, Row
<1>7. /\ f \in Row /\ f.status = status /\ f.count = x.count /\ f.archived = x.archived
      /\ f.resultRev = x.resultRev
      /\ f.thread = x.thread /\ f.cont = x.cont /\ f.bound = x.bound
  BY <1>3, <1>4, Constants DEF Row
<1>8. /\ w.status = "waiting" /\ w.count = x.count /\ w.archived = x.archived
      /\ w.input = FALSE /\ w.nextAt = next.nextAt /\ w.deadline = next.deadline
      /\ w.notBefore = next.notBefore /\ w.spent = next.spent
      /\ w.thread = next.thread /\ w.cont = next.cont /\ w.bound = next.bound
      /\ w.thread = x.thread /\ w.cont = x.cont /\ w.bound = x.bound
  BY <1>3, <1>4 DEF Row
<1> HIDE DEF f, w
<1> DEFINE y == FinishedRow(r, x, res, rec, ms, aborted)
<1>9. CASE status # "failed" \/ res = "error"
  <2>1. y = Final(ended)
    BY <1>2, <1>9
  <2> HIDE DEF y
  <2>2. /\ y.count = x.count /\ y.archived = x.archived
        /\ y.status = status /\ y.resultRev = x.resultRev + 1
        /\ y.thread = x.thread /\ y.cont = x.cont /\ y.bound = x.bound
    BY <1>3, <1>6, <2>1
  <2> QED
    BY <1>1, <2>2 DEF y
<1>10. CASE ~(status # "failed" \/ res = "error") /\ ~kept
  <2>1. y = Final(f)
    BY <1>2, <1>10
  <2> HIDE DEF y
  <2>2. /\ y.count = x.count /\ y.archived = x.archived
        /\ y.status = status /\ y.resultRev = x.resultRev + 1
        /\ y.thread = x.thread /\ y.cont = x.cont /\ y.bound = x.bound
    BY <1>6, <1>7, <2>1
  <2> QED
    BY <1>1, <2>2 DEF y
<1>11. CASE ~(status # "failed" \/ res = "error") /\ kept
  <2>1. y = w
    BY <1>2, <1>11
  <2> HIDE DEF y
  <2>2. /\ y.count = x.count /\ y.archived = x.archived
        /\ y.thread = x.thread /\ y.cont = x.cont /\ y.bound = x.bound
        /\ y.status = "waiting" /\ Continuing(y) /\ ~y.input
        /\ y.nextAt # Never /\ y.deadline # Never
        /\ y.notBefore <= y.nextAt /\ y.spent < Budget
    BY <1>5, <1>8, <1>11, <2>1 DEF Continuing
  <2> QED
    BY <2>2 DEF y
<1> QED
  BY <1>9, <1>10, <1>11

LEMMA FineFinished ==
  ASSUME NEW x \in Row, NEW y \in Row, NEW n \in Nat, NEW p \in Nat, NEW now \in Nat,
         Counted(x, n, p), Settling(x), x.status \in Unfinished,
         y.count = x.count, y.archived = x.archived,
         \/ y.status \in {"cancelled", "completed", "failed"} /\ y.resultRev = x.resultRev + 1
         \/ /\ y.status = "waiting" /\ Continuing(y) /\ ~y.input
            /\ y.nextAt # Never /\ y.deadline # Never
            /\ y.notBefore <= y.nextAt /\ y.spent < Budget
  PROVE  Fine(x, y, n, p, now)
<1>1. ~x.archived
  BY DEF Settling, Unfinished, Finished
<1>2. CASE y.status \in {"cancelled", "completed", "failed"} /\ y.resultRev = x.resultRev + 1
  BY <1>2, FineFailed
<1>3. CASE /\ y.status = "waiting" /\ Continuing(y) /\ ~y.input
           /\ y.nextAt # Never /\ y.deadline # Never
           /\ y.notBefore <= y.nextAt /\ y.spent < Budget
  BY <1>1, <1>3 DEF Fine, Counted, Timely, Settling, Versioned, InTime
<1> QED
  BY <1>2, <1>3
\* Every kind of change of a row keeps the counts and the times of its run.
LEMMA FineStep ==
  ASSUME Consistent, IInv, ArchivedStaysFinished, NEW r \in Runs, RowStep(r), TypeOK'
  PROVE  Fine(row[r], row'[r], attempts'[r].n, replies'[r], clock)
<1> DEFINE x == row[r]
           y == row'[r]
           n == attempts[r].n
           p == replies[r]
<1>1. TypeOK /\ x \in Row /\ y \in Row /\ n \in Nat /\ p \in Nat /\ clock \in Nat
  BY DEF Consistent, TypeOK
<1>2. Counted(x, n, p) /\ Timely(x, clock) /\ Settling(x)
  BY DEF IInv, AttemptsCounted, ContinuationTimely, ArchivedStaysFinished,
         Counted, Timely, Settling
<1>3. ASSUME NEW z \in Row, Fine(x, z, n, p, clock)
      PROVE  Fine(x, Stored(z), n, p, clock)
  BY <1>1, <1>3, FineStored
<1>4. SameCounts(r) => attempts'[r].n = n /\ replies'[r] = p
  BY DEF SameCounts
<1>5. ASSUME NEW z \in Row, Alike(x, z),
             \/ z.status = x.status /\ z.nextAt = x.nextAt
             \/ z.status = "cancelled" /\ x.status \in Unfinished
             \/ z.status = "stopping" /\ x.status \in Unfinished
             \/ z.status = "waiting" /\ x.status \in Unfinished /\ z.nextAt = Never
      PROVE  Fine(x, z, n, p, clock)
  BY <1>1, <1>2, <1>5, FineUnclaimed
<1>6. Owned(r) => x.status \in {"running", "stopping"} /\ x.status \in Unfinished
  BY DEF Owned, Unfinished
<1>7. CASE SameCounts(r) /\ y = x
  <2>1. Alike(x, x)
    BY DEF Alike
  <2> QED
    BY <1>1, <1>4, <1>5, <1>7, <2>1
<1>8. CASE SameCounts(r) /\ RowCreated(r)
  <2>1. PICK status \in {"queued", "skipped", "failed"} : y = Stored(NewRow(r, status))
    BY <1>8 DEF RowCreated
  <2> DEFINE z == NewRow(r, status)
  <2>2. /\ z \in Row /\ z.status = status /\ z.count = 0 /\ z.nextAt = Never
        /\ z.archived = FALSE
    BY NewRowType DEF Statuses, Unfinished, Finished, NewRow, Absent
  <2> HIDE DEF z
  <2>3. n = 0 /\ x.status = "absent"
    BY <1>2, <1>8 DEF Counted, RowCreated
  <2>4. Fine(x, z, n, p, clock)
    <3>1. Counted(z, n, p)
      BY <1>1, <2>2, <2>3, LimitAssumption DEF Counted
    <3> QED
      BY <2>2, <2>3, <3>1 DEF Fine, Timely, Settling, Versioned, InTime, Unfinished
  <2> QED
    BY <1>3, <1>4, <1>8, <2>1, <2>2, <2>4 DEF z
<1>9. CASE SameCounts(r) /\ RowArchived(r)
  <2> DEFINE z == [x EXCEPT !.archived = TRUE]
  <2>1. /\ z \in Row /\ z.status = x.status /\ z.nextAt = x.nextAt /\ z.count = x.count
        /\ x.status \in Finished /\ y = Stored(z)
    BY <1>1, <1>9 DEF RowArchived, Row
  <2> HIDE DEF z
  <2>2. Fine(x, z, n, p, clock)
    BY <1>2, <2>1
    DEF Fine, Counted, Timely, Settling, Versioned, InTime, Finished, Unfinished
  <2> QED
    BY <1>3, <1>4, <1>9, <2>1, <2>2
<1>10. CASE SameCounts(r) /\ RowStopped(r)
  <2> DEFINE c == [x EXCEPT !.status = "cancelled", !.nextAt = Never]
             s == [x EXCEPT !.status = "stopping"]
  <2>1. x.status \in Unfinished /\ y \in {Stored(c), Stored(s)}
    BY <1>10 DEF RowStopped, Stoppable, Unfinished
  <2>2. c \in Row /\ c.status = "cancelled" /\ Alike(x, c)
    BY <1>1, Constants DEF Row, Finished, Alike
  <2>3. s \in Row /\ s.status = "stopping" /\ Alike(x, s)
    BY <1>1, Constants DEF Row, Unfinished, Alike
  <2> HIDE DEF c, s
  <2> QED
    BY <1>3, <1>4, <1>5, <1>10, <2>1, <2>2, <2>3
<1>11. CASE SameCounts(r) /\ RowContinued(r)
  <2> DEFINE z == [x EXCEPT !.nextAt = clock]
  <2>1. /\ z \in Row /\ z.status = "waiting" /\ z.nextAt = clock /\ Alike(x, z)
        /\ y = Stored(z) /\ x.status = "waiting" /\ x.nextAt # Never
        /\ x.notBefore # Never => clock >= x.notBefore
    BY <1>1, <1>11 DEF RowContinued, Row, Time, Alike
  <2> HIDE DEF z
  <2>2. x.notBefore <= clock
    BY <1>1, <2>1 DEF Row, Time, Never
  <2>3. Fine(x, z, n, p, clock)
    BY <1>2, <2>1, <2>2
    DEF Fine, Counted, Timely, Settling, Versioned, InTime, Finished, Alike, Continuing
  <2> QED
    BY <1>3, <1>4, <1>11, <2>1, <2>3
<1>12. CASE SameCounts(r) /\ RowRecovered(r)
  <2> DEFINE i == Interrupted(x)
             w == [x EXCEPT !.status = "waiting"]
  <2>1. x.status \in Unfinished /\ y \in {Stored(i), Stored(w)}
    BY <1>12 DEF RowRecovered, Unfinished
  <2>2. i \in Row /\ i.status = "failed" /\ i.count = x.count
        /\ i.resultRev = x.resultRev + 1
    <3>1. x.resultRev + 1 \in Nat
      BY <1>1 DEF Row
    <3> QED
      BY <1>1, <3>1, Constants DEF Interrupted, Row, Finished
  <2>3. /\ w \in Row /\ w.status = "waiting" /\ w.nextAt = x.nextAt /\ Alike(x, w)
    BY <1>1, Constants DEF Row, Unfinished, Alike
  <2>4. x.status = "waiting" \/ x.nextAt = Never
    BY <1>12, ConsistentRun DEF RowRecovered, RunOK, NoNextTime
  <2> HIDE DEF i, w
  <2>5. Fine(x, i, n, p, clock)
    BY <1>1, <1>2, <2>2, FineFailed
  <2>6. Fine(x, w, n, p, clock)
    BY <1>5, <2>1, <2>3, <2>4
  <2> QED
    BY <1>3, <1>4, <1>12, <2>1, <2>2, <2>3, <2>5, <2>6
<1>13. CASE SameCounts(r) /\ RowAdvanced(r)
  BY <1>1, <1>2, <1>4, <1>13, FineAdvanced DEF RowAdvanced
<1>14. CASE SameCounts(r) /\ RowRegistered(r)
  <2> DEFINE z == [x EXCEPT !.pid = x.active]
  <2>1. z \in Row /\ Alike(x, z) /\ z.status = x.status /\ z.nextAt = x.nextAt
    BY <1>1 DEF Row, Alike
  <2>2. y = z
    BY <1>14 DEF RowRegistered
  <2> HIDE DEF z
  <2> QED
    BY <1>4, <1>5, <1>14, <2>1, <2>2
<1>15. CASE SameCounts(r) /\ RowThread(r)
  <2> DEFINE z == [x EXCEPT !.thread = TRUE]
  <2>1. /\ z \in Row /\ z.status = x.status /\ z.nextAt = x.nextAt /\ z.count = x.count
        /\ z.archived = x.archived /\ y = Stored(z)
        /\ x.status \in {"running", "stopping"}
    BY <1>1, <1>6, <1>15 DEF RowThread, Row
  <2> HIDE DEF z
  <2>2. Fine(x, z, n, p, clock)
    BY <1>2, <2>1 DEF Fine, Counted, Timely, Settling, Versioned, InTime
  <2> QED
    BY <1>3, <1>4, <1>15, <2>1, <2>2
<1>16. CASE SameCounts(r) /\ RowFinished(r)
  <2>1. PICK res \in {"succeeded", "blocked", "failed", "error"}, rec \in Recovery,
             ms \in Nat, aborted \in BOOLEAN :
               y = Stored(FinishedRow(r, x, res, rec, ms, aborted))
    BY <1>16 DEF RowFinished
  <2> DEFINE z == FinishedRow(r, x, res, rec, ms, aborted)
  <2>2. z \in Row
    BY <1>1, FinishedRowType
  <2>3. /\ z.count = x.count /\ z.archived = x.archived
        /\ \/ z.status \in {"cancelled", "completed", "failed"} /\ z.resultRev = x.resultRev + 1
           \/ /\ z.status = "waiting" /\ Continuing(z) /\ ~z.input
              /\ z.nextAt # Never /\ z.deadline # Never
              /\ z.notBefore <= z.nextAt /\ z.spent < Budget
    BY <1>1, FinishedRowIs
  <2>4. y = Stored(z)
    BY <2>1
  <2> HIDE DEF z
  <2>5. Fine(x, z, n, p, clock)
    <3>1. x.status \in Unfinished
      BY <1>6, <1>16 DEF RowFinished
    <3> QED
      BY <1>1, <1>2, <2>2, <2>3, <3>1, FineFinished
  <2> QED
    BY <1>3, <1>4, <1>16, <2>2, <2>4, <2>5
<1>17. CASE SameCounts(r) /\ RowBound(r)
  <2> DEFINE z == [x EXCEPT !.bound = TRUE]
  <2>1. z \in Row /\ Alike(x, z) /\ z.status = x.status /\ z.nextAt = x.nextAt
    BY <1>1 DEF Row, Alike
  <2>2. y = Stored(z)
    BY <1>17 DEF RowBound
  <2> HIDE DEF z
  <2> QED
    BY <1>3, <1>4, <1>5, <1>17, <2>1, <2>2
<1>18. CASE RowReplied(r) /\ attempts'[r].n = attempts[r].n /\ replies'[r] = replies[r] + 1
  <2> DEFINE z == [x EXCEPT !.status = "queued", !.recoverable = FALSE,
                            !.input = TRUE, !.cont = TRUE, !.nextAt = Never]
  <2>1. /\ z \in Row /\ z.status = "queued" /\ z.nextAt = Never /\ z.count = x.count
        /\ z.archived = x.archived /\ y = Stored(z)
        /\ ~x.archived /\ x.status \in {"failed", "cancelled"}
    BY <1>1, <1>18, Constants DEF RowReplied, Replyable, Row, Unfinished
  <2> HIDE DEF z
  <2>2. Counted(z, n, p + 1)
    BY <1>1, <1>2, <2>1 DEF Counted, Row
  <2>3. Fine(x, z, n, p + 1, clock)
    BY <2>1, <2>2 DEF Fine, Timely, Settling, Versioned, InTime
  <2>4. p + 1 \in Nat
    BY <1>1
  <2>5. Fine(x, Stored(z), n, p + 1, clock)
    BY <1>1, <2>1, <2>3, <2>4, FineStored
  <2> QED
    BY <1>18, <2>1, <2>5
<1>19. CASE RowClaimed(r) /\ attempts'[r].n = attempts[r].n + 1 /\ replies'[r] = replies[r]
  <2>1. Advanced(x).status = "queued" /\ ~ThreadBusy(Advanced(x))
    BY <1>19 DEF RowClaimed
  <2>2. Fine(x, Claimed(r, Advanced(x)), n + 1, p, clock)
    BY <1>1, <1>2, <2>1, FineClaimed
  <2> QED
    BY <1>19, <2>2 DEF RowClaimed
<1> QED
  BY <1>7, <1>8, <1>9, <1>10, <1>11, <1>12, <1>13, <1>14, <1>15, <1>16, <1>17,
     <1>18, <1>19 DEF RowStep, RunRowStep

\* Time only grows.
LEMMA ClockGrows ==
  ASSUME TypeOK, [Next]_vars
  PROVE  clock' >= clock
<1>1. CASE Tick
  BY <1>1 DEF Tick, TypeOK
<1>2. CASE UNCHANGED clock
  BY <1>2 DEF TypeOK
<1>3. CASE UNCHANGED vars \/ Pass \/ Dispose \/ CancelClaimed \/ Disposed \/ Crash \/ Restart
  BY <1>2, <1>3
  DEF vars, world, Pass, PassStart, AdvanceContinuations, DispatchDone, NothingToClaim,
      PassDone, Execute, ClaimNextRun, ClaimRefused, Dispose, CancelClaimed, Disposed,
      Crash, Down, Restart
<1>4. ASSUME NEW r \in Runs,
             \/ Request(r) \/ MaterializeScheduledRun(r) \/ PutBinding(r)
             \/ Execution(r) \/ SetRunThread(r) \/ ProcessExit(r)
             \/ OwnerPidNotStored(r) \/ ResultNotStored(r)
      PROVE  clock' >= clock
  BY <1>2, <1>4
  DEF world, Request, CreateManualRun, CreateQuickInputRun, ArchiveQuickInputRun,
      RequestRunStop, ContinueNow, ReplyRun, MaterializeScheduledRun, PutBinding,
      Execution, StartFails, Spawn, SetRunOwnerPid, SendPrompt, AbortedBeforePrompt,
      Abort, Finish, SetRunThread, ProcessExit, OwnerPidNotStored, ResultNotStored
<1> QED
  BY <1>1, <1>3, <1>4, KindAssumption DEF Next, RunStep

-----------------------------------------------------------------------------
(* The theorems on the history, the results and the continuations.         *)

\* A queued or scheduled run is entitled to its next attempt, its times are
\* set, and an archived one is finished: they keep each other.
Entitled == IInv /\ ArchivedStaysFinished

LEMMA InitEntitled == Init => Entitled
<1> SUFFICES ASSUME Init PROVE Entitled
  OBVIOUS
<1>1. Consistent
  BY InitConsistent
<1>2. ASSUME NEW r \in Runs
      PROVE  AttemptsCounted(r) /\ ContinuationTimely(r) /\ ~row[r].archived
  <2>1. /\ row[r] = Absent /\ attempts[r] = [n |-> 0, open |-> {}] /\ replies[r] = 0
    BY DEF Init
  <2> QED
    BY <2>1, LimitAssumption DEF AttemptsCounted, ContinuationTimely, Absent
<1> QED
  BY <1>1, <1>2 DEF Entitled, IInv, ArchivedStaysFinished

\* One step, with what it may do to each row.
LEMMA NextEntitled ==
  ASSUME Entitled, [Next]_vars
  PROVE  /\ Entitled'
         /\ \A r \in Runs : Versioned(row[r], row'[r]) /\ InTime(row[r], row'[r], clock)
<1>1. Consistent /\ IInv /\ ArchivedStaysFinished /\ TypeOK
  BY DEF Entitled, IInv, Consistent
<1>2. Consistent' /\ TypeOK'
  BY <1>1, NextConsistent DEF Consistent
<1>3. ASSUME NEW r \in Runs
      PROVE  /\ AttemptsCounted(r)' /\ ContinuationTimely(r)' /\ Settling(row'[r])
             /\ Versioned(row[r], row'[r]) /\ InTime(row[r], row'[r], clock)
  <2>1. Fine(row[r], row'[r], attempts'[r].n, replies'[r], clock)
    BY <1>1, <1>2, RowSteps, FineStep
  <2>2. AttemptsCounted(r)'
    BY <2>1 DEF Fine, Counted, AttemptsCounted, Continuing
  <2>3. ContinuationTimely(r)'
    <3>1. /\ clock \in Nat /\ clock' \in Nat /\ clock' >= clock
          /\ row'[r].nextAt \in Time
      BY <1>1, <1>2, ClockGrows DEF TypeOK, Row
    <3>2. Timely(row'[r], clock)
      BY <2>1 DEF Fine
    <3>3. row'[r].nextAt <= clock => row'[r].nextAt <= clock'
      BY <3>1 DEF Time, Never
    <3> QED
      BY <3>2, <3>3 DEF Timely, ContinuationTimely
  <2> QED
    BY <2>1, <2>2, <2>3 DEF Fine
<1> QED
  BY <1>2, <1>3 DEF Entitled, IInv, ArchivedStaysFinished, Settling

LEMMA AlwaysEntitled == Spec => []Entitled
<1>1. Entitled /\ [Next]_vars => Entitled'
  BY NextEntitled
<1> QED
  BY <1>1, InitEntitled, PTL DEF Spec

\* The inductive invariant: rows, attempts, executions and processes agree,
\* every attempt is accounted for, and a continuation is in time.
THEOREM RunsInvariant == Spec => []IInv
<1>1. Entitled => IInv
  BY DEF Entitled
<1> QED
  BY <1>1, AlwaysEntitled, PTL

\* No crash, lost result or restart adds an attempt to a run.
THEOREM PromptsNotReplayed == Spec => []NoReplay
<1>1. Entitled => NoReplay
  BY DEF Entitled, IInv, AttemptsCounted, NoReplay
<1> QED
  BY <1>1, AlwaysEntitled, PTL

\* The status of a run moved to the history stays a finished one, so that it is not
\* executed again; a terminal may still be bound to it (archiveQuickInputRun(), scheduledReplyUnavailable()).
THEOREM HistoryIsFinal == Spec => []ArchivedStaysFinished
<1>1. Entitled => ArchivedStaysFinished
  BY DEF Entitled
<1> QED
  BY <1>1, AlwaysEntitled, PTL

\* Every new result has a version of its own.
THEOREM ResultsHaveVersions == Spec => ResultVersioned
<1>1. Entitled /\ [Next]_vars =>
        [\A r \in Runs :
           /\ row[r].status \in Unfinished /\ row'[r].status \in {"completed", "failed"}
           => row'[r].resultRev > row[r].resultRev]_vars
  BY NextEntitled DEF Versioned
<1> QED
  BY <1>1, AlwaysEntitled, PTL DEF Spec, ResultVersioned

\* A continuation is started within its deadline, its provider's time and its
\* budget.
THEOREM ContinuationsInTime == Spec => ContinuesInTime
<1>1. Entitled /\ [Next]_vars =>
        [\A r \in Runs :
           /\ row[r].status \in {"waiting", "queued"} /\ row[r].nextAt # Never
           /\ row'[r].status = "running"
           => /\ clock < row[r].deadline /\ clock >= row[r].notBefore
              /\ row[r].spent < Budget]_vars
  BY NextEntitled DEF InTime
<1> QED
  BY <1>1, AlwaysEntitled, PTL DEF Spec, ContinuesInTime
=============================================================================
