---------------------------- MODULE ScheduledRuns ----------------------------
(***************************************************************************)
(* The execution side of the scheduled-task subsystem of the backend       *)
(* (backend/src/scheduled-tasks): the SQLite rows of runs and attempts and *)
(* the transactions on them (storage/execution.ts, storage/database.ts),   *)
(* the scheduler pass and the executions of the one backend process that   *)
(* holds the profile (runtime.ts), and the provider processes it spawns,   *)
(* which are detached and outlive it (providers/codex.ts).                 *)
(*                                                                         *)
(* Every SQLite transaction runs to completion in one worker thread: it is *)
(* one action.  Everything the main thread awaits in between is a separate *)
(* action, and the backend may crash between any two of them.              *)
(***************************************************************************)
EXTENDS Integers, FiniteSets

CONSTANTS
  Runs,          \* run ids, positive naturals in the order of (created_at, id)
  Tasks,
  TaskOf,        \* the task of each run
  BoundedRuns,   \* runs whose frozen continuation policy is "bounded"
  QuickRuns,     \* runs of quick-input tasks: the only ones archived
  BindableRuns,  \* runs whose thread a user may open in a terminal
  MaxAttempts,   \* continuation.maxAttempts
  Delay,         \* continuation.delaysMs, by the continuations already used
  Window,        \* continuation.windowMs
  Budget,        \* executionBudget, in units of active time
  Limit          \* limits.maxConcurrentRuns

\* Bounds of the model.
CONSTANTS MaxClock, MaxIncarnations, MaxReplies, MaxFaults

ASSUME RunsAssumption == Runs \subseteq Nat \ {0}
ASSUME TaskAssumption == TaskOf \in [Runs -> Tasks]
ASSUME KindAssumption ==
  BoundedRuns \subseteq Runs /\ QuickRuns \subseteq Runs /\ BindableRuns \subseteq Runs
ASSUME LimitAssumption ==
  /\ MaxAttempts \in Nat /\ Window \in Nat /\ Budget \in Nat /\ Limit \in Nat
  /\ Delay \in [0 .. MaxAttempts - 1 -> Nat]
ASSUME BoundAssumption ==
  /\ MaxClock \in Nat /\ MaxIncarnations \in Nat
  /\ MaxReplies \in Nat /\ MaxFaults \in Nat

VARIABLES
  row,       \* scheduled_runs: the row of each run
  attempts,  \* scheduled_run_attempts: rows inserted, and the unfinished ones
  replies,   \* user replies accepted for each run
  clock,
  mode,      \* the backend process: "up", "disposing" or "down"
  inc,       \* the ownerId of the current ScheduledTaskRuntime
  pass,      \* the scheduler pass in flight
  claimed,   \* the run whose claim the main thread has not seen yet, or 0
  exec,      \* the execution of each run by the current process
  abort,     \* its AbortController has been aborted
  live,      \* provider processes alive, named by their attempt
  prompted,  \* provider processes that were sent their prompt
  faults     \* store failures so far

store   == <<row, attempts, replies>>
process == <<mode, inc, pass, claimed, exec, abort>>
world   == <<clock, live, prompted, faults>>
vars    == <<store, process, world>>

Never == -1
Time  == Nat \cup {Never}

Finished   == {"completed", "failed", "cancelled", "skipped"}
Unfinished == {"queued", "running", "stopping", "waiting"}
Statuses   == Finished \cup Unfinished \cup {"absent"}

Row ==
  [status : Statuses, owner : Nat, pid : Nat, active : Nat, thread : BOOLEAN,
   cont : BOOLEAN, count : Nat, nextAt : Time, deadline : Time,
   notBefore : Time, spent : Nat, input : BOOLEAN, bound : BOOLEAN,
   archived : BOOLEAN, recoverable : BOOLEAN, resultRev : Nat]

\* What a provider's structured result says about recovery: a category the
\* policy continues at once or waits for, or none; whether it repeats the
\* previous one; and its earliest time.
Recovery == [kind : {"none", "continue", "wait"}, repeated : BOOLEAN,
             notBefore : Time]

ExecStates == {"none", "starting", "spawned", "registered", "prompted",
               "closing"}

-----------------------------------------------------------------------------
(* The run row.                                                            *)

Absent == [status |-> "absent", owner |-> 0, pid |-> 0, active |-> 0,
           thread |-> FALSE, cont |-> FALSE, count |-> 0, nextAt |-> Never,
           deadline |-> Never, notBefore |-> Never, spent |-> 0,
           input |-> FALSE, bound |-> FALSE, archived |-> FALSE,
           recoverable |-> FALSE, resultRev |-> 0]

NewRow(r, status) ==
  [Absent EXCEPT !.status = status, !.cont = (r \in BoundedRuns)]

\* putRun releases the owner of a run that ended or that waits for its next
\* continuation.
Stored(x) ==
  IF x.status \in Finished \/ (x.status = "waiting" /\ x.nextAt # Never)
  THEN [x EXCEPT !.owner = 0, !.pid = 0]
  ELSE x

Put(r, x) == row' = [row EXCEPT ![r] = Stored(x)]

\* recover() leaves a run it cannot resolve waiting, with no next time.
Unresolved(x) == x.status = "waiting" /\ x.nextAt = Never

Busy(t) == \E r \in Runs : TaskOf[r] = t /\ row[r].status \in Unfinished

\* Mutant: a run asked to stop no longer belongs to its execution.
OwnedRunning(r) == row[r].owner = inc /\ row[r].status = "running"

Owned(r) == row[r].owner = inc /\ row[r].status \in {"running", "stopping"}

\* closeAttempt throws on an attempt that is missing or already finished.
Closable(r) == row[r].active = 0 \/ row[r].active \in attempts[r].open

CloseAttempt(r) ==
  attempts' = [attempts EXCEPT ![r].open = @ \ {row[r].active}]

-----------------------------------------------------------------------------
Init ==
  /\ row = [r \in Runs |-> Absent]
  /\ attempts = [r \in Runs |-> [n |-> 0, open |-> {}]]
  /\ replies = [r \in Runs |-> 0]
  /\ clock = 0
  /\ mode = "up" /\ inc = 1 /\ pass = "idle" /\ claimed = 0
  /\ exec = [r \in Runs |-> "none"]
  /\ abort = [r \in Runs |-> FALSE]
  /\ live = [r \in Runs |-> {}]
  /\ prompted = [r \in Runs |-> {}]
  /\ faults = 0

-----------------------------------------------------------------------------
(* Requests of users, each one transaction.  They are served while the     *)
(* process is up or disposing.                                             *)

Serving == mode # "down"

CreateManualRun(r) ==
  /\ Serving
  /\ row[r].status = "absent" /\ r \notin QuickRuns /\ ~Busy(TaskOf[r])
  /\ Put(r, NewRow(r, "queued"))
  /\ UNCHANGED <<attempts, replies, process, world>>

CreateQuickInputRun(r) ==
  /\ Serving
  /\ row[r].status = "absent" /\ r \in QuickRuns /\ ~Busy(TaskOf[r])
  /\ Put(r, NewRow(r, "queued"))
  /\ UNCHANGED <<attempts, replies, process, world>>

ArchiveQuickInputRun(r) ==
  /\ Serving
  /\ r \in QuickRuns /\ row[r].status \in Finished /\ ~row[r].archived
  /\ Put(r, [row[r] EXCEPT !.archived = TRUE])
  /\ UNCHANGED <<attempts, replies, process, world>>

\* The statuses requestRunStop maps: a run nobody executes is cancelled at
\* once, an executing one is asked to stop.
Stoppable(x) == x.status = "queued" \/ (x.status = "waiting" /\ x.nextAt # Never)

RequestRunStop(r) ==
  /\ Serving
  /\ \/ /\ Stoppable(row[r])
        /\ Put(r, [row[r] EXCEPT !.status = "cancelled", !.nextAt = Never])
     \/ /\ row[r].status = "running"
        /\ Put(r, [row[r] EXCEPT !.status = "stopping"])
  /\ UNCHANGED <<attempts, replies, process, world>>

\* Continue a waiting run now instead of at its next time.
ContinueNow(r) ==
  LET x == row[r] IN
  /\ Serving
  /\ x.status = "waiting" /\ x.nextAt # Never /\ x.thread /\ ~x.bound
  /\ x.deadline # Never => clock < x.deadline
  /\ x.notBefore # Never => clock >= x.notBefore
  /\ Put(r, [x EXCEPT !.nextAt = clock])
  /\ UNCHANGED <<attempts, replies, process, world>>

\* Mutant: an archived run accepts a reply.
ReplyableArchived(x) ==
  /\ ~x.bound /\ x.thread
  /\ x.status \in {"failed", "cancelled"} /\ x.active = 0
  /\ x.spent < Budget

\* scheduledReplyUnavailable, negated.
Replyable(x) ==
  /\ ~x.archived /\ ~x.bound /\ x.thread
  /\ x.status \in {"failed", "cancelled"} /\ x.active = 0
  /\ x.spent < Budget

\* Mutant: no other run of the task is looked for.
ReplyRunUnchecked(r) ==
  LET x == row[r] IN
  /\ Serving
  /\ replies[r] < MaxReplies
  /\ Replyable(x)
  /\ x.notBefore # Never => clock >= x.notBefore
  /\ Put(r, [x EXCEPT !.status = "queued", !.recoverable = FALSE,
                      !.input = TRUE, !.cont = TRUE, !.nextAt = Never])
  /\ replies' = [replies EXCEPT ![r] = @ + 1]
  /\ UNCHANGED <<attempts, process, world>>

\* Continue a run that failed or was cancelled with the user's reply.
ReplyRun(r) ==
  LET x == row[r] IN
  /\ Serving
  /\ replies[r] < MaxReplies
  /\ Replyable(x)
  /\ \A q \in Runs \ {r} :
       TaskOf[q] = TaskOf[r] => row[q].status \notin Unfinished
  /\ x.notBefore # Never => clock >= x.notBefore
  /\ Put(r, [x EXCEPT !.status = "queued", !.recoverable = FALSE,
                      !.input = TRUE, !.cont = TRUE, !.nextAt = Never])
  /\ replies' = [replies EXCEPT ![r] = @ + 1]
  /\ UNCHANGED <<attempts, process, world>>

-----------------------------------------------------------------------------
(* The scheduler pass.                                                     *)

\* process.kill(pid, 0): the recorded process is alive, or its number now
\* belongs to another process.
SeemsAlive(r, reused) ==
  row[r].pid # 0 /\ (row[r].pid \in live[r] \/ r \in reused)

\* The rows recover() looks at: executions of another owner.
Abandoned(r, owner) ==
  /\ row[r].status \in {"running", "stopping", "waiting"}
  /\ row[r].owner # owner
  /\ ~(row[r].status = "waiting" /\ row[r].nextAt # Never /\ row[r].owner = 0)

\* Mutant: an interrupted run is queued again.
InterruptedReplayed(x) ==
  [x EXCEPT !.status = "queued", !.active = 0, !.nextAt = Never]

Interrupted(x) ==
  [x EXCEPT !.status = "failed", !.active = 0, !.nextAt = Never,
            !.recoverable = x.thread, !.resultRev = @ + 1]

RecoverRuns(owner, reused) ==
  LET dead == {r \in Runs : Abandoned(r, owner) /\ ~SeemsAlive(r, reused)} IN
  /\ \A r \in dead : Closable(r)
  /\ row' = [r \in Runs |->
              IF r \in dead THEN Stored(Interrupted(row[r]))
              ELSE IF Abandoned(r, owner)
                   THEN Stored([row[r] EXCEPT !.status = "waiting"])
                   ELSE row[r]]
  /\ attempts' = [r \in Runs |->
                   IF r \in dead
                   THEN [attempts[r] EXCEPT !.open = @ \ {row[r].active}]
                   ELSE attempts[r]]

PassStart ==
  /\ mode = "up" /\ pass = "idle"
  /\ \E reused \in SUBSET Runs : RecoverRuns(inc, reused)
  /\ pass' = "advance"
  /\ UNCHANGED <<replies, mode, inc, claimed, exec, abort, world>>

\* Mutant: an expired continuation keeps the version of its last result.
AdvancedUnversioned(x) ==
  IF x.status \notin {"waiting", "queued"} \/ x.nextAt = Never THEN x
  ELSE IF x.deadline # Never /\ clock >= x.deadline
  THEN Stored([x EXCEPT !.status = "failed", !.nextAt = Never])
  ELSE IF x.nextAt <= clock /\ x.status = "waiting"
  THEN Stored([x EXCEPT !.status = "queued"])
  ELSE x

\* Mutant: the deadline is checked only while the run waits.
AdvancedOnceQueued(x) ==
  IF x.status # "waiting" \/ x.nextAt = Never THEN x
  ELSE IF x.deadline # Never /\ clock >= x.deadline
  THEN Stored([x EXCEPT !.status = "failed", !.nextAt = Never,
                        !.resultRev = @ + 1])
  ELSE IF x.nextAt <= clock
  THEN Stored([x EXCEPT !.status = "queued"])
  ELSE x

\* advance(): a continuation past its deadline fails, a due one is queued.
Advanced(x) ==
  IF x.status \notin {"waiting", "queued"} \/ x.nextAt = Never THEN x
  ELSE IF x.deadline # Never /\ clock >= x.deadline
  THEN Stored([x EXCEPT !.status = "failed", !.nextAt = Never,
                        !.resultRev = @ + 1])
  ELSE IF x.nextAt <= clock /\ x.status = "waiting"
  THEN Stored([x EXCEPT !.status = "queued"])
  ELSE x

AdvanceContinuations ==
  /\ pass = "advance"
  /\ row' = [r \in Runs |-> Advanced(row[r])]
  /\ pass' = "dispatch"
  /\ UNCHANGED <<attempts, replies, mode, inc, claimed, exec, abort, world>>

\* An occurrence is queued; or recorded as skipped because its task is busy
\* or it is too late; or as failed because its project or provider is gone.
MaterializeScheduledRun(r) ==
  /\ pass = "dispatch"
  /\ row[r].status = "absent" /\ r \notin QuickRuns
  /\ \/ /\ Busy(TaskOf[r])
        /\ Put(r, NewRow(r, "skipped"))
     \/ /\ ~Busy(TaskOf[r])
        /\ \E status \in {"queued", "skipped", "failed"} :
             Put(r, NewRow(r, status))
  /\ UNCHANGED <<attempts, replies, process, world>>

DispatchDone ==
  /\ pass = "dispatch"
  /\ pass' = "claim"
  /\ UNCHANGED <<store, mode, inc, claimed, exec, abort, world>>

-----------------------------------------------------------------------------
(* Claiming.                                                               *)

\* Mutant: the rows are counted instead of the executions.
ExecutingRows == {r \in Runs : row[r].status \in {"running", "stopping", "waiting"}}

Executing == {r \in Runs : exec[r] # "none"}

\* Runs queued once the transaction has advanced the continuations, and the
\* oldest of them: the one claimNextRun takes.
Due == {r \in Runs : Advanced(row[r]).status = "queued"}

Oldest(r) == r \in Due /\ \A q \in Due : r <= q

Continuing(x) == x.thread /\ x.cont

\* Mutant: the terminal binding is not looked at.
ThreadBusyUnbound(x) == Continuing(x) /\ ~x.input /\ x.count >= MaxAttempts

\* claim() refuses the thread of a terminal, and an automatic continuation
\* beyond the last allowed one.
ThreadBusy(x) == Continuing(x) /\ (x.bound \/ (~x.input /\ x.count >= MaxAttempts))

Claimed(r, x) ==
  [x EXCEPT !.status = "running", !.active = attempts[r].n + 1,
            !.recoverable = FALSE, !.nextAt = Never,
            !.count = @ + (IF Continuing(x) /\ ~x.input THEN 1 ELSE 0),
            !.owner = inc, !.pid = 0]

MayClaim ==
  /\ pass = "claim" /\ claimed = 0
  /\ mode = "up" /\ Cardinality(Executing) < Limit

ClaimNextRun(r) ==
  /\ MayClaim
  /\ Oldest(r) /\ ~ThreadBusy(Advanced(row[r]))
  /\ row' = [q \in Runs |-> IF q = r THEN Claimed(r, Advanced(row[r]))
                            ELSE Advanced(row[q])]
  /\ attempts' = [attempts EXCEPT ![r] =
                    [n |-> @.n + 1, open |-> @.open \cup {@.n + 1}]]
  /\ claimed' = r
  /\ UNCHANGED <<replies, mode, inc, pass, exec, abort, world>>

\* The transaction rolls back and the error ends the pass.
ClaimRefused(r) ==
  /\ MayClaim
  /\ Oldest(r) /\ ThreadBusy(Advanced(row[r]))
  /\ pass' = "idle"
  /\ UNCHANGED <<store, mode, inc, claimed, exec, abort, world>>

NothingToClaim ==
  /\ MayClaim
  /\ Due = {}
  /\ row' = [r \in Runs |-> Advanced(row[r])]
  /\ pass' = "idle"
  /\ UNCHANGED <<attempts, replies, mode, inc, claimed, exec, abort, world>>

PassDone ==
  /\ pass = "claim" /\ claimed = 0
  /\ mode # "up" \/ Cardinality(Executing) >= Limit
  /\ pass' = "idle"
  /\ UNCHANGED <<store, mode, inc, claimed, exec, abort, world>>

\* The claim returns to the main thread, which starts the execution.
Execute ==
  /\ claimed # 0 /\ mode = "up"
  /\ exec' = [exec EXCEPT ![claimed] = "starting"]
  /\ claimed' = 0
  /\ UNCHANGED <<store, mode, inc, pass, abort, world>>

-----------------------------------------------------------------------------
(* One execution: ScheduledTaskRuntime.execute around the provider's run.  *)

SetExec(r, state) == exec' = [exec EXCEPT ![r] = state]

\* No context, provider or budget left, or aborted before the spawn.
StartFails(r) ==
  /\ exec[r] = "starting"
  /\ SetExec(r, "closing")
  /\ UNCHANGED <<store, mode, inc, pass, claimed, abort, world>>

\* A resumed thread is checkpointed between the abort check and the spawn.
Spawn(r) ==
  /\ exec[r] = "starting" /\ row[r].spent < Budget
  /\ abort[r] => Continuing(row[r])
  /\ live' = [live EXCEPT ![r] = @ \cup {row[r].active}]
  /\ SetExec(r, "spawned")
  /\ UNCHANGED <<store, mode, inc, pass, claimed, abort, clock, prompted, faults>>

\* Mutant: the prompt is written without a stored process id.
SetRunOwnerPidLater(r) ==
  /\ exec[r] = "spawned" /\ Owned(r)
  /\ SetExec(r, "registered")
  /\ UNCHANGED <<store, mode, inc, pass, claimed, abort, world>>

\* onSpawn: the process id is stored before the prompt is written.
SetRunOwnerPid(r) ==
  /\ exec[r] = "spawned" /\ Owned(r)
  /\ row' = [row EXCEPT ![r].pid = row[r].active]
  /\ SetExec(r, "registered")
  /\ UNCHANGED <<attempts, replies, mode, inc, pass, claimed, abort, world>>

OwnerPidNotStored(r) ==
  /\ exec[r] = "spawned" /\ faults < MaxFaults
  /\ faults' = faults + 1
  /\ SetExec(r, "closing")
  /\ UNCHANGED <<store, mode, inc, pass, claimed, abort, clock, live, prompted>>

SendPrompt(r) ==
  /\ exec[r] = "registered" /\ ~abort[r]
  /\ prompted' = [prompted EXCEPT ![r] = @ \cup ({row[r].active} \cap live[r])]
  /\ SetExec(r, "prompted")
  /\ UNCHANGED <<store, mode, inc, pass, claimed, abort, clock, live, faults>>

AbortedBeforePrompt(r) ==
  /\ exec[r] = "registered" /\ abort[r]
  /\ SetExec(r, "closing")
  /\ UNCHANGED <<store, mode, inc, pass, claimed, abort, world>>

\* onThread: the provider reported the identity of its thread.
SetRunThread(r) ==
  /\ exec[r] = "prompted" /\ ~row[r].thread /\ Owned(r)
  /\ Put(r, [row[r] EXCEPT !.thread = TRUE])
  /\ UNCHANGED <<attempts, replies, process, world>>

\* stop() aborts the execution of a run it found stopping, the next pass one
\* whose stop somebody else stored, and dispose() every one.
Abort(r) ==
  /\ exec[r] # "none" /\ ~abort[r]
  /\ row[r].status = "stopping" \/ (mode = "disposing" /\ pass = "idle")
  /\ abort' = [abort EXCEPT ![r] = TRUE]
  /\ UNCHANGED <<store, mode, inc, pass, claimed, exec, world>>

\* A provider process ends: it is done, or terminated on abort, a timeout or
\* an error, or an orphan of an earlier backend process runs to its end.
ProcessExit(r) ==
  /\ \E p \in live[r] :
       /\ live' = [live EXCEPT ![r] = @ \ {p}]
       /\ prompted' = [prompted EXCEPT ![r] = @ \ {p}]
  /\ UNCHANGED <<store, process, clock, faults>>

-----------------------------------------------------------------------------
(* The end of an execution.                                                *)

\* scheduleContinuation: when the policy allows one, the next automatic
\* continuation starts at the later of its delay and the earliest time asked
\* for, unless that lies beyond the deadline the first one fixed.
MayContinue(r, x, rec) ==
  /\ x.cont /\ r \in BoundedRuns /\ rec.kind # "none"
  /\ x.thread /\ ~x.bound /\ ~x.archived
  /\ x.count < MaxAttempts

ContinueAt(x, rec) ==
  LET wait == IF rec.kind = "continue" /\ ~rec.repeated THEN 0 ELSE Delay[x.count]
  IN  IF clock + wait >= rec.notBefore THEN clock + wait ELSE rec.notBefore

DeadlineOf(x) == IF x.deadline = Never THEN clock + Window ELSE x.deadline

ScheduleContinuation(r, x, rec) ==
  IF ~x.cont THEN x
  ELSE IF ~MayContinue(r, x, rec) THEN [x EXCEPT !.notBefore = rec.notBefore]
  ELSE [x EXCEPT !.notBefore = rec.notBefore, !.deadline = DeadlineOf(x),
                 !.nextAt = IF ContinueAt(x, rec) < DeadlineOf(x)
                            THEN ContinueAt(x, rec) ELSE Never]

\* The row as every result leaves it, before a continuation is considered.
Ended(x, status, ms) ==
  [x EXCEPT !.status = status, !.active = 0, !.input = FALSE, !.nextAt = Never,
            !.recoverable = x.thread,
            !.spent = IF x.cont THEN @ + ms ELSE @]

\* A result that ends the run is a new version of its result.
Final(x) == [x EXCEPT !.resultRev = @ + 1,
                      !.notBefore = IF x.status = "completed" THEN Never ELSE @]

\* Mutant: only a stop that reached the execution counts.
FinishedRowUnstopped(r, x, res, rec, ms, aborted) ==
  LET status == IF aborted THEN "cancelled"
                ELSE IF res = "succeeded" THEN "completed" ELSE "failed"
      ended  == Ended(x, status, ms)
      next   == ScheduleContinuation(r, ended, rec)
      kept   == next.nextAt # Never /\ next.spent < Budget
  IN  IF status # "failed" \/ res = "error" THEN Final(ended)
      ELSE IF kept THEN [next EXCEPT !.status = "waiting"]
      ELSE Final([next EXCEPT !.nextAt = Never])

\* What finish() stores for a run: a stop that was stored or aborted wins over
\* every result; a task that did not succeed may wait for its continuation.
FinishedRow(r, x, res, rec, ms, aborted) ==
  LET status == IF x.status = "stopping" \/ aborted THEN "cancelled"
                ELSE IF res = "succeeded" THEN "completed" ELSE "failed"
      ended  == Ended(x, status, ms)
      next   == ScheduleContinuation(r, ended, rec)
      kept   == next.nextAt # Never /\ next.spent < Budget
  IN  IF status # "failed" \/ res = "error" THEN Final(ended)
      ELSE IF kept THEN [next EXCEPT !.status = "waiting"]
      ELSE Final([next EXCEPT !.nextAt = Never])

FinishExecution(r, res, rec, ms, aborted) ==
  /\ Owned(r) /\ Closable(r)
  /\ Put(r, FinishedRow(r, row[r], res, rec, ms, aborted))
  /\ CloseAttempt(r)

\* Mutant: the result is stored when the process was asked to terminate.
SettledEarly(r) == exec[r] \in {"prompted", "closing"}

\* The provider's run is over: its process is gone and its result is known.
Settled(r) ==
  /\ exec[r] \in {"prompted", "closing"}
  /\ row[r].active \notin live[r]

Recoveries == [kind : {"none", "continue", "wait"}, repeated : BOOLEAN,
               notBefore : {Never, clock + 1}]

Finish(r) ==
  /\ Settled(r)
  /\ \/ /\ exec[r] = "prompted" /\ row[r].thread
        /\ \E res \in {"succeeded", "blocked", "failed"}, rec \in Recoveries,
             ms \in {0, 1} : FinishExecution(r, res, rec, ms, abort[r])
     \/ /\ \E ms \in {0, 1} :
             FinishExecution(r, "error",
               [kind |-> "none", repeated |-> FALSE, notBefore |-> Never],
               ms, abort[r])
  /\ SetExec(r, "none")
  /\ abort' = [abort EXCEPT ![r] = FALSE]
  /\ UNCHANGED <<replies, mode, inc, pass, claimed, world>>

\* Neither attempt of execute() to store the result reaches the database.
ResultNotStored(r) ==
  /\ Settled(r) /\ faults < MaxFaults
  /\ faults' = faults + 1
  /\ SetExec(r, "none")
  /\ abort' = [abort EXCEPT ![r] = FALSE]
  /\ UNCHANGED <<store, mode, inc, pass, claimed, clock, live, prompted>>

-----------------------------------------------------------------------------
(* The backend process and time.                                           *)

Dispose ==
  /\ mode = "up" /\ mode' = "disposing"
  /\ UNCHANGED <<store, inc, pass, claimed, exec, abort, world>>

\* A claim that returns to a disposed runtime is cancelled at once.
CancelClaimed ==
  /\ claimed # 0 /\ mode = "disposing"
  /\ FinishExecution(claimed, "error",
       [kind |-> "none", repeated |-> FALSE, notBefore |-> Never], 0, TRUE)
  /\ claimed' = 0 /\ pass' = "idle"
  /\ UNCHANGED <<replies, mode, inc, exec, abort, world>>

Down ==
  /\ mode' = "down" /\ pass' = "idle" /\ claimed' = 0
  /\ exec' = [r \in Runs |-> "none"]
  /\ abort' = [r \in Runs |-> FALSE]
  /\ UNCHANGED <<store, inc, world>>

Disposed == mode = "disposing" /\ pass = "idle" /\ Executing = {} /\ Down

\* Provider processes are detached: a crash leaves them running.
Crash == mode # "down" /\ Down

\* A new process, a new owner: initialize() recovers before anything runs.
Restart ==
  /\ mode = "down" /\ inc < MaxIncarnations
  /\ inc' = inc + 1 /\ mode' = "up"
  /\ \E reused \in SUBSET Runs : RecoverRuns(inc + 1, reused)
  /\ UNCHANGED <<replies, pass, claimed, exec, abort, world>>

Tick ==
  /\ clock < MaxClock /\ clock' = clock + 1
  /\ UNCHANGED <<store, process, live, prompted, faults>>

\* The thread of the run is bound to a terminal, whatever the row says.  When
\* this is done is the subject of module TerminalTakeover.
PutBinding(r) ==
  /\ Serving
  /\ row[r].status # "absent"
  /\ Put(r, [row[r] EXCEPT !.bound = TRUE])
  /\ UNCHANGED <<attempts, replies, process, world>>

Request(r) ==
  \/ CreateManualRun(r) \/ CreateQuickInputRun(r) \/ ArchiveQuickInputRun(r)
  \/ RequestRunStop(r) \/ ContinueNow(r) \/ ReplyRun(r)

Pass ==
  \/ PassStart \/ AdvanceContinuations \/ DispatchDone
  \/ NothingToClaim \/ PassDone \/ Execute
  \/ \E r \in Runs : ClaimNextRun(r) \/ ClaimRefused(r)

Execution(r) ==
  \/ StartFails(r) \/ Spawn(r) \/ SetRunOwnerPid(r) \/ SendPrompt(r)
  \/ AbortedBeforePrompt(r) \/ Abort(r) \/ Finish(r)

\* What the runtime, its requests and its processes do by themselves.
RunStep ==
  \/ \E r \in Runs :
       \/ Request(r) \/ MaterializeScheduledRun(r) \/ Execution(r)
       \/ SetRunThread(r) \/ ProcessExit(r)
       \/ OwnerPidNotStored(r) \/ ResultNotStored(r)
  \/ Pass \/ Dispose \/ CancelClaimed \/ Disposed \/ Crash \/ Restart \/ Tick

Next == RunStep \/ \E r \in BindableRuns : PutBinding(r)

Spec == Init /\ [][Next]_vars

\* The process of a running execution ends by itself, or is terminated, at
\* the latest by its timeout.  Nothing terminates an orphan.
OwnExit(r) ==
  /\ exec[r] # "none"
  /\ live' = [live EXCEPT ![r] = @ \ {row[r].active}]
  /\ prompted' = [prompted EXCEPT ![r] = @ \ {row[r].active}]
  /\ UNCHANGED <<store, process, clock, faults>>

\* The timer of the runtime starts a pass again and again, every awaited call
\* of a pass or an execution answers, and a process that was spawned ends.
FairSpec ==
  /\ Spec /\ WF_vars(Pass)
  /\ \A r \in Runs : WF_vars(Execution(r)) /\ WF_vars(OwnExit(r))

-----------------------------------------------------------------------------
(* Properties.                                                             *)

\* The type invariant of the rows, the runtime and the provider processes.
TypeOK ==
  /\ row \in [Runs -> Row]
  /\ attempts \in [Runs -> [n : Nat, open : SUBSET Nat]]
  /\ replies \in [Runs -> Nat]
  /\ clock \in Nat /\ faults \in Nat
  /\ mode \in {"up", "disposing", "down"} /\ inc \in Nat \ {0}
  /\ pass \in {"idle", "advance", "dispatch", "claim"}
  /\ claimed \in Runs \cup {0}
  /\ exec \in [Runs -> ExecStates]
  /\ abort \in [Runs -> BOOLEAN]
  /\ live \in [Runs -> SUBSET Nat]
  /\ prompted \in [Runs -> SUBSET Nat]

\* A task never has two runs that are queued, running, stopping or waiting,
\* whichever of the paths that queue a run (an occurrence, a manual start, a
\* quick input, a user's reply, a due continuation) are interleaved.
OneUnfinishedRunPerTask ==
  \A q, r \in Runs :
    /\ TaskOf[q] = TaskOf[r]
    /\ row[q].status \in Unfinished /\ row[r].status \in Unfinished
    => q = r

\* At most one process that was sent a prompt is alive for the runs of a
\* task, across crashes of the backend too: the process id is stored before
\* the prompt is written, and a run whose process may be alive stays
\* unfinished (providers/codex.ts onSpawn, recover()).
OneWriterPerTask ==
  \A q, r \in Runs : \A p \in prompted[q], s \in prompted[r] :
    TaskOf[q] = TaskOf[r] => q = r /\ p = s

\* Each attempt is closed once: the unfinished attempts of a run are the
\* active one, and a run has an active one exactly while it is being executed
\* or its execution is unresolved.  Otherwise closeAttempt would throw and
\* the transaction that ends the run, or recover() as a whole, be lost.
AttemptAccounted(r) ==
  /\ attempts[r].open = IF row[r].active = 0 THEN {} ELSE {row[r].active}
  /\ row[r].active # 0 <=>
       row[r].status \in {"running", "stopping"} \/ Unresolved(row[r])

AttemptsAccounted == \A r \in Runs : AttemptAccounted(r)

\* An execution of the current process owns its row; its process was sent
\* nothing before the row recorded it.
ExecutionOwned(r) ==
  exec[r] # "none" =>
    /\ Owned(r) /\ mode # "down"
    /\ exec[r] \in {"registered", "prompted"} => row[r].pid = row[r].active
    /\ exec[r] # "prompted" => prompted[r] = {}

\* So does a claim on its way to the main thread.
ClaimOwned(r) ==
  claimed = r =>
    /\ Owned(r) /\ mode # "down"
    /\ exec[r] = "none" /\ prompted[r] = {}

\* A process that was sent a prompt is alive, is the one its row records, and
\* its row says that it is, or may be, executed.
WriterRecorded(r) ==
  \A p \in prompted[r] :
    /\ p \in live[r] /\ p # 0 /\ p = row[r].pid
    /\ row[r].status \in {"running", "stopping"} \/ Unresolved(row[r])

NoNextTime(r) == row[r].status \in {"running", "stopping"} => row[r].nextAt = Never

RunOK(r) ==
  /\ ExecutionOwned(r) /\ ClaimOwned(r) /\ WriterRecorded(r)
  /\ AttemptAccounted(r) /\ NoNextTime(r)

\* Rows, attempts, executions and processes agree on who executes what, in
\* every interleaving of requests, the pass, the executions, crashes and
\* restarts.
Consistent == TypeOK /\ OneUnfinishedRunPerTask /\ \A r \in Runs : RunOK(r)

\* An attempt is the first one of its run, a counted continuation or the
\* answer to a reply, and so will be the next one of a run that may be claimed.
AttemptsCounted(r) ==
  LET x == row[r] IN
  /\ attempts[r].n <= 1 + x.count + replies[r] /\ x.count <= MaxAttempts
  /\ x.status = "absent" => attempts[r].n = 0
  /\ x.status = "queued" \/ (x.status = "waiting" /\ x.nextAt # Never) =>
       (Continuing(x) /\ ~x.input) \/ attempts[r].n <= x.count + replies[r]

\* A continuation that is scheduled has a deadline, budget left, and a time
\* its provider allows, which has come when it is queued.
ContinuationTimely(r) ==
  LET x == row[r] IN
  x.status \in {"waiting", "queued"} /\ x.nextAt # Never =>
    /\ x.deadline # Never /\ x.notBefore <= x.nextAt /\ x.spent < Budget
    /\ x.status = "queued" => x.nextAt <= clock

\* The inductive invariant behind the other ones.
IInv == Consistent /\ \A r \in Runs : AttemptsCounted(r) /\ ContinuationTimely(r)

\* No prompt is replayed: every attempt of a run is its first one, a counted
\* automatic continuation, or the answer to a reply of the user; crashes,
\* lost results and restarts add none.
NoReplay ==
  \A r \in Runs : /\ attempts[r].n <= 1 + row[r].count + replies[r]
                  /\ row[r].count <= MaxAttempts

\* A stop request that was stored is never overtaken by the result of the
\* execution: a stopping run ends cancelled, or, when its backend died, as
\* interrupted or unresolved.
StopIsFinal ==
  [][\A r \in Runs : row[r].status = "stopping" =>
       \/ row'[r].status \in {"stopping", "cancelled"}
       \/ row[r].owner # inc' /\ (row'[r].status = "failed" \/ Unresolved(row'[r]))]_vars

\* A run is cancelled, completed or failed by its own backend only when the
\* process of its execution is gone: a result never coexists with its writer.
EndsAfterExit ==
  [][\A r \in Runs :
       row[r].status \in Unfinished /\ row'[r].status \in Finished
       => prompted[r] = {}]_vars

\* Every new result of a run has a result version of its own: notifications
\* are deduplicated by it.
ResultVersioned ==
  [][\A r \in Runs :
       /\ row[r].status \in Unfinished /\ row'[r].status \in {"completed", "failed"}
       => row'[r].resultRev > row[r].resultRev]_vars

\* An automatic continuation is never started after its deadline, before the
\* earliest time its provider asked for, nor with the budget used up.
ContinuesInTime ==
  [][\A r \in Runs :
       /\ row[r].status \in {"waiting", "queued"} /\ row[r].nextAt # Never
       /\ row'[r].status = "running"
       => /\ clock < row[r].deadline /\ clock >= row[r].notBefore
          /\ row[r].spent < Budget]_vars

\* A run moved to the history stays finished: it is not queued, and so not executed,
\* again (archiveQuickInputRun(), scheduledReplyUnavailable()).
ArchivedStaysFinished ==
  \A r \in Runs : row[r].archived => row[r].status \in Finished


\* A queued run is executed or cancelled as long as the backend runs: the
\* executions before it end and give their place back.
QueuedRunStarts ==
  \A r \in Runs :
    row[r].status = "queued" ~> row[r].status # "queued" \/ mode # "up"

\* A run that is being stopped ends, unless its result cannot be stored.
StopEnds ==
  \A r \in Runs :
    row[r].status = "stopping" ~> row[r].status # "stopping" \/ mode # "up"

=============================================================================
