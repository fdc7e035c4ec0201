-------------------------- MODULE ScheduledDispatch --------------------------
(***************************************************************************)
(* How the scheduled occurrences of tasks become runs (backend/src/        *)
(* scheduled-tasks): the scheduler pass of runtime.ts decides in the main  *)
(* thread on task rows it has read, the edits of users (service.ts) are    *)
(* prepared there too, and both are stored by the one SQLite worker thread *)
(* (storage/store.ts, storage/database.ts), which takes its requests in    *)
(* the order they were posted.  A decision or an edit is therefore stale   *)
(* by the time it is stored, and what protects it are the task's revision, *)
(* its nextRunAt and the order of the requests.                            *)
(*                                                                         *)
(* What becomes of a queued run is the subject of module ScheduledRuns;    *)
(* here a task only has an unfinished run or not.                          *)
(***************************************************************************)
EXTENDS Integers, FiniteSets, Sequences

CONSTANTS
  Tasks,
  Editors,     \* requests of users that may be handled at once
  Schedules,   \* schedules a user may choose: their kind and occurrences
  Wishes,      \* what users ask for: a schedule, enabled or not, and its policy
  LateWindow,  \* LATE_WINDOW_MS
  MaxDelay     \* misfirePolicy.maxDelaySeconds, of a policy "catch-up-latest"

\* Bounds of the model.
CONSTANTS MaxClock, MaxRevision, MaxCrashes

ASSUME ScheduleAssumption ==
  /\ \A s \in Schedules :
       /\ s.kind \in {"once", "recurring"} /\ s.times \subseteq Nat
       /\ s.kind = "once" => Cardinality(s.times) = 1
  /\ Wishes \subseteq [schedule : Schedules, enabled : BOOLEAN, catchUp : BOOLEAN]
  /\ LateWindow \in Nat /\ MaxDelay \in Nat

VARIABLES
  clock,
  task,        \* scheduled_tasks: the row of each task
  runs,        \* scheduled_runs made for an occurrence, as they were inserted
  unfinished,  \* tasks with a queued, running, stopping or waiting run
  requests,    \* requests posted to the worker that it has not taken yet
  pass,        \* the scheduler pass in flight
  edit,        \* the request that each editor has in flight
  crashes

vars == <<clock, task, runs, unfinished, requests, pass, edit, crashes>>

Never == -1
None  == [kind |-> "none", times |-> {}]

TaskRow == [rev : Nat, enabled : BOOLEAN, deleted : BOOLEAN, updated : Nat,
            next : Nat \cup {Never}, schedule : Schedules \cup {None},
           catchUp : BOOLEAN]

NoTask == [rev |-> 0, enabled |-> FALSE, deleted |-> FALSE, updated |-> 0,
           next |-> Never, schedule |-> None, catchUp |-> FALSE]

\* occurrence_key is the task, the revision and the time it is scheduled for.
RunRow == [task : Tasks, rev : Nat, for : Nat, from : Nat, at : Nat,
           status : {"queued", "busy", "missed", "failed"}]

Edit == [phase : {"idle", "reading", "read", "saving"}, of : SUBSET Tasks, seen : TaskRow]

Idle    == [phase |-> "idle", now |-> 0, due |-> {}]
NoEdit  == [phase |-> "idle", of |-> {}, seen |-> NoTask]

\* Mutant: the occurrence of this very moment is still ahead.
NextOccurrenceFrom(s, now) ==
  LET later == {o \in s.times : o >= now}
  IN  IF later = {} THEN Never ELSE CHOOSE o \in later : \A p \in later : o <= p

\* nextOccurrences(schedule, now, 1): strictly after now.
NextOccurrence(s, now) ==
  LET later == {o \in s.times : o > now}
  IN  IF later = {} THEN Never ELSE CHOOSE o \in later : \A p \in later : o <= p

LatestOccurrence(s, through) ==
  LET past == {o \in s.times : o <= through}
  IN  IF past = {} THEN Never ELSE CHOOSE o \in past : \A p \in past : o >= p

Init ==
  /\ clock = 0
  /\ task = [t \in Tasks |-> NoTask]
  /\ runs = {} /\ unfinished = {}
  /\ requests = <<>> /\ pass = Idle
  /\ edit = [e \in Editors |-> NoEdit]
  /\ crashes = 0

Post(request) == requests' = Append(requests, request)

Take(op) == requests # <<>> /\ Head(requests).op = op /\ requests' = Tail(requests)

-----------------------------------------------------------------------------
(* Edits: the main thread.                                                 *)

SaveRequest(e, t, expected, x) ==
  [op |-> "save", by |-> e, task |-> t, expected |-> expected, row |-> x]

\* Editors are alike: the first one that is idle takes the next request.
Takes(e) == edit[e].phase = "idle" /\ e = CHOOSE f \in Editors : edit[f].phase = "idle"

\* What the user asks for, and the next time of it.
Row(rev, wish) ==
  [rev |-> rev, enabled |-> wish.enabled, deleted |-> FALSE, updated |-> clock,
   schedule |-> wish.schedule, catchUp |-> wish.catchUp,
   next |-> IF wish.enabled THEN NextOccurrence(wish.schedule, clock) ELSE Never]

\* A schedule must have a next time if it is enabled, one that occurs once in any case.
Possible(wish) ==
  wish.schedule.kind = "once" \/ wish.enabled => NextOccurrence(wish.schedule, clock) # Never

CreateTask(e, t) ==
  /\ Takes(e) /\ task[t].rev = 0 /\ \A f \in Editors : t \notin edit[f].of
  /\ \E wish \in Wishes : Possible(wish) /\ Post(SaveRequest(e, t, 0, Row(1, wish)))
  /\ edit' = [edit EXCEPT ![e].phase = "saving", ![e].of = {t}]
  /\ UNCHANGED <<clock, task, runs, unfinished, pass, crashes>>

ReadTask(e, t) ==
  /\ Takes(e) /\ task[t].rev \in 1 .. MaxRevision - 1
  /\ Post([op |-> "get", by |-> e, task |-> t])
  /\ edit' = [edit EXCEPT ![e].phase = "reading", ![e].of = {t}]
  /\ UNCHANGED <<clock, task, runs, unfinished, pass, crashes>>

\* The next time is computed from the clock when the row has been read.
PrepareUpdate(e, t) ==
  LET seen == edit[e].seen IN
  /\ edit[e].phase = "read" /\ t \in edit[e].of /\ ~seen.deleted
  /\ \E wish \in Wishes :
       Possible(wish) /\ Post(SaveRequest(e, t, seen.rev, Row(seen.rev + 1, wish)))
  /\ edit' = [edit EXCEPT ![e].phase = "saving"]
  /\ UNCHANGED <<clock, task, runs, unfinished, pass, crashes>>

Remove(e, t) ==
  LET seen == edit[e].seen IN
  /\ edit[e].phase = "read" /\ t \in edit[e].of /\ ~seen.deleted
  /\ Post(SaveRequest(e, t, seen.rev,
       [seen EXCEPT !.rev = @ + 1, !.enabled = FALSE, !.deleted = TRUE,
                    !.updated = clock, !.next = Never]))
  /\ edit' = [edit EXCEPT ![e].phase = "saving"]
  /\ UNCHANGED <<clock, task, runs, unfinished, pass, crashes>>

\* The edit is refused: the task is deleted, or changed since the user saw it.
RefuseEdit(e) ==
  /\ edit[e].phase = "read"
  /\ edit' = [edit EXCEPT ![e] = NoEdit]
  /\ UNCHANGED <<clock, task, runs, unfinished, requests, pass, crashes>>

-----------------------------------------------------------------------------
(* The scheduler pass: the main thread.                                    *)

Scan ==
  /\ pass.phase = "idle"
  /\ Post([op |-> "list"])
  /\ pass' = [Idle EXCEPT !.phase = "listing", !.now = clock]
  /\ UNCHANGED <<clock, task, runs, unfinished, edit, crashes>>

\* The occurrence a due task is dispatched for.
ScheduledFor(x, now) ==
  IF x.catchUp /\ LatestOccurrence(x.schedule, now) >= x.next
  THEN LatestOccurrence(x.schedule, now)
  ELSE x.next

TooLate(x, for, now) == now - for > IF x.catchUp THEN MaxDelay ELSE LateWindow

\* materializeDue for one of the tasks it found due.
Decide(t, x) ==
  LET for == ScheduledFor(x, pass.now) IN
  /\ pass.phase = "deciding" /\ [task |-> t, row |-> x] \in pass.due
  /\ \E status \in {"queued", "missed", "failed"} :
       /\ status = "missed" <=> TooLate(x, for, pass.now)
       /\ Post([op |-> "materialize",
                run |-> [task |-> t, rev |-> x.rev, for |-> for, from |-> x.next,
                         at |-> pass.now, status |-> status],
                next |-> IF x.schedule.kind = "once" THEN Never
                         ELSE NextOccurrence(x.schedule, pass.now)])
  /\ pass' = [pass EXCEPT !.phase = "storing", !.due = @ \ {[task |-> t, row |-> x]}]
  /\ UNCHANGED <<clock, task, runs, unfinished, edit, crashes>>

PassOver ==
  /\ pass.phase = "deciding" /\ pass.due = {}
  /\ pass' = Idle
  /\ UNCHANGED <<clock, task, runs, unfinished, requests, edit, crashes>>

-----------------------------------------------------------------------------
(* The worker: each request is one transaction, and is answered.           *)

GetTask ==
  /\ Take("get")
  /\ LET r == Head(requests) IN
       edit' = [edit EXCEPT ![r.by].phase = "read", ![r.by].seen = task[r.task]]
  /\ UNCHANGED <<clock, task, runs, unfinished, pass, crashes>>

\* Mutant: an update overwrites whatever revision is there.
SaveTaskUnchecked ==
  /\ Take("save")
  /\ LET r == Head(requests) IN
       /\ task' = [task EXCEPT ![r.task] = r.row]
       /\ edit' = [edit EXCEPT ![r.by] = NoEdit]
  /\ UNCHANGED <<clock, runs, unfinished, pass, crashes>>

\* createTask and updateTask: the revision must be the one the edit was
\* prepared from.
SaveTask ==
  /\ Take("save")
  /\ LET r == Head(requests) IN
       /\ task' = IF task[r.task].rev = r.expected
                  THEN [task EXCEPT ![r.task] = r.row] ELSE task
       /\ edit' = [edit EXCEPT ![r.by] = NoEdit]
  /\ UNCHANGED <<clock, runs, unfinished, pass, crashes>>

Due(x, now) == x.enabled /\ ~x.deleted /\ x.next # Never /\ x.next <= now

ListDueTasks ==
  /\ Take("list")
  /\ pass' = [pass EXCEPT !.phase = "deciding",
        !.due = {[task |-> t, row |-> task[t]] : t \in {u \in Tasks : Due(task[u], pass.now)}}]
  /\ UNCHANGED <<clock, task, runs, unfinished, edit, crashes>>

SameOccurrence(a, b) == a.task = b.task /\ a.rev = b.rev /\ a.for = b.for

\* The decision was made on the current row.
Current(x, run) == x.enabled /\ ~x.deleted /\ x.next = run.from

\* Mutant: the occurrence of a busy task leaves no record.
MaterializeUnlessBusy ==
  /\ Take("materialize")
  /\ LET run    == Head(requests).run
         t      == run.task
         known  == \E s \in runs : SameOccurrence(s, run)
         stored == IF t \in unfinished THEN [run EXCEPT !.status = "busy"] ELSE run
     IN
     \/ /\ known \/ (task[t].rev = run.rev /\ ~Current(task[t], run))
        /\ pass' = [pass EXCEPT !.phase = "deciding"]
        /\ UNCHANGED <<task, runs, unfinished>>
     \/ /\ ~known /\ task[t].rev # run.rev
        /\ pass' = Idle
        /\ UNCHANGED <<task, runs, unfinished>>
     \/ /\ ~known /\ task[t].rev = run.rev /\ Current(task[t], run)
        /\ runs' = IF t \in unfinished THEN runs ELSE runs \cup {run}
        /\ unfinished' = IF stored.status = "queued" THEN unfinished \cup {t}
                         ELSE unfinished
        /\ task' = [task EXCEPT ![t].next = Head(requests).next,
                                ![t].enabled = task[t].schedule.kind # "once"]
        /\ pass' = [pass EXCEPT !.phase = "deciding"]
  /\ UNCHANGED <<clock, edit, crashes>>

\* Mutant: a revision conflict leaves the pass waiting for an answer.
MaterializeStuck ==
  /\ Take("materialize")
  /\ LET run    == Head(requests).run
         t      == run.task
         known  == \E s \in runs : SameOccurrence(s, run)
         stored == IF t \in unfinished THEN [run EXCEPT !.status = "busy"] ELSE run
     IN
     \/ /\ known \/ (task[t].rev = run.rev /\ ~Current(task[t], run))
        /\ pass' = [pass EXCEPT !.phase = "deciding"]
        /\ UNCHANGED <<task, runs, unfinished>>
     \/ /\ ~known /\ task[t].rev # run.rev
        /\ UNCHANGED pass
        /\ UNCHANGED <<task, runs, unfinished>>
     \/ /\ ~known /\ task[t].rev = run.rev /\ Current(task[t], run)
        /\ runs' = runs \cup {stored}
        /\ unfinished' = IF stored.status = "queued" THEN unfinished \cup {t}
                         ELSE unfinished
        /\ task' = [task EXCEPT ![t].next = Head(requests).next,
                                ![t].enabled = task[t].schedule.kind # "once"]
        /\ pass' = [pass EXCEPT !.phase = "deciding"]
  /\ UNCHANGED <<clock, edit, crashes>>

\* A revision conflict is an error and ends the pass.
MaterializeScheduledRun ==
  /\ Take("materialize")
  /\ LET run    == Head(requests).run
         t      == run.task
         known  == \E s \in runs : SameOccurrence(s, run)
         stored == IF t \in unfinished THEN [run EXCEPT !.status = "busy"] ELSE run
     IN
     \/ /\ known \/ (task[t].rev = run.rev /\ ~Current(task[t], run))
        /\ pass' = [pass EXCEPT !.phase = "deciding"]
        /\ UNCHANGED <<task, runs, unfinished>>
     \/ /\ ~known /\ task[t].rev # run.rev
        /\ pass' = Idle
        /\ UNCHANGED <<task, runs, unfinished>>
     \/ /\ ~known /\ task[t].rev = run.rev /\ Current(task[t], run)
        /\ runs' = runs \cup {stored}
        /\ unfinished' = IF stored.status = "queued" THEN unfinished \cup {t}
                         ELSE unfinished
        /\ task' = [task EXCEPT ![t].next = Head(requests).next,
                                ![t].enabled = task[t].schedule.kind # "once"]
        /\ pass' = [pass EXCEPT !.phase = "deciding"]
  /\ UNCHANGED <<clock, edit, crashes>>

-----------------------------------------------------------------------------
\* A manual run of the task is queued, or its unfinished run ends.
OtherRun(t) ==
  /\ unfinished' = IF t \in unfinished THEN unfinished \ {t} ELSE unfinished \cup {t}
  /\ task[t].rev > 0
  /\ UNCHANGED <<clock, task, runs, requests, pass, edit, crashes>>

\* What the worker had not taken is lost with the process.
Crash ==
  /\ crashes < MaxCrashes /\ crashes' = crashes + 1
  /\ requests' = <<>> /\ pass' = Idle
  /\ edit' = [e \in Editors |-> NoEdit]
  /\ UNCHANGED <<clock, task, runs, unfinished>>

Tick ==
  /\ clock < MaxClock /\ clock' = clock + 1
  /\ UNCHANGED <<task, runs, unfinished, requests, pass, edit, crashes>>

Worker == GetTask \/ SaveTask \/ ListDueTasks \/ MaterializeScheduledRun

Pass == Scan \/ PassOver \/ \E d \in pass.due : Decide(d.task, d.row)

Next ==
  \/ Worker \/ Pass \/ Crash \/ Tick
  \/ \E e \in Editors, t \in Tasks :
       CreateTask(e, t) \/ ReadTask(e, t) \/ PrepareUpdate(e, t) \/ Remove(e, t)
  \/ \E e \in Editors : RefuseEdit(e)
  \/ \E t \in Tasks : OtherRun(t)

Spec == Init /\ [][Next]_vars

\* The worker takes what was posted to it, and the timer of the runtime
\* starts a pass again and again.
FairSpec == Spec /\ WF_vars(Worker) /\ WF_vars(Pass)

-----------------------------------------------------------------------------
(* Properties.                                                             *)

\* The type invariant of the tasks, the runs and the requests.
TypeOK ==
  /\ clock \in Nat /\ crashes \in Nat
  /\ task \in [Tasks -> TaskRow]
  /\ runs \subseteq RunRow
  /\ unfinished \subseteq Tasks
  /\ pass \in [phase : {"idle", "listing", "deciding", "storing"}, now : Nat,
               due : SUBSET [task : Tasks, row : TaskRow]]
  /\ edit \in [Editors -> Edit]

\* One scheduled time of a task makes one run: no stale decision, repeated
\* pass, restart or concurrent edit of the task inserts a second one.
OneRunPerOccurrence ==
  \A a, b \in runs : a.task = b.task /\ a.for = b.for => a = b

\* An occurrence of an enabled task that has passed since its last edit is
\* still due, or was considered by a decision that made a run (queued,
\* skipped or failed) for it or for a later one: none is dropped in silence.
OccurrencesAccounted ==
  \A t \in Tasks : \A o \in task[t].schedule.times :
    task[t].enabled /\ task[t].updated < o /\ o < task[t].next
    => \E a \in runs : a.task = t /\ a.from <= o /\ o <= a.at

-----------------------------------------------------------------------------
(* The inductive invariant.                                                *)

\* What the worker is asked for.
Request ==
  [op : {"get"}, by : Editors, task : Tasks] \cup [op : {"list"}]
    \cup [op : {"save"}, by : Editors, task : Tasks, expected : Nat, row : TaskRow]
    \cup [op : {"materialize"}, run : RunRow, next : Nat \cup {Never}]

\* x is an earlier state of the row, and of the same schedule when its revision
\* is still the current one.
Seen(t, x) ==
  /\ x.rev <= task[t].rev
  /\ x.rev = task[t].rev => x.schedule = task[t].schedule

\* Nothing of the schedule lies between a time and the next one.
NoneBetween(s, now, next) == \A o \in s.times : now < o => next <= o

\* The runs of the task are for times before the next one.
Behind(t, next) == next # Never => \A a \in runs : a.task = t => a.for < next

\* A run is for a time that had come when it was decided, and not before the
\* next time of the row it was decided on.
RunsPassed == \A a \in runs : a.from <= a.for /\ a.for <= a.at /\ a.at <= clock

PassSeen ==
  /\ pass.now <= clock
  /\ \A d \in pass.due : /\ Seen(d.task, d.row)
                         /\ d.row.next # Never /\ d.row.next <= pass.now

\* An edit that waits to be stored is one revision ahead of what it was prepared
\* from, and its next time is ahead of every run.
SavesFresh ==
  \A i \in DOMAIN requests : requests[i].op = "save" =>
    LET r == requests[i] IN
    /\ r.row.rev = r.expected + 1
    /\ r.row.enabled => NoneBetween(r.row.schedule, r.row.updated, r.row.next)
    /\ Behind(r.task, r.row.next)

DecisionsSeen ==
  \A i \in DOMAIN requests : requests[i].op = "materialize" =>
    LET run == requests[i].run next == requests[i].next IN
    /\ run.from <= run.for /\ run.for <= run.at /\ run.at <= clock
    /\ next # Never => run.at < next
    /\ run.rev <= task[run.task].rev
    /\ run.rev = task[run.task].rev => NoneBetween(task[run.task].schedule, run.at, next)

\* So is it of the runs that the worker is asked for before it.
InOrder ==
  \A i, j \in DOMAIN requests :
    (i < j /\ requests[i].op = "materialize" /\ requests[j].op = "save"
       /\ requests[i].run.task = requests[j].task /\ requests[j].row.next # Never)
      => requests[i].run.for < requests[j].row.next

RowsAhead == \A t \in Tasks : Behind(t, task[t].next)

IInv ==
  /\ TypeOK /\ requests \in Seq(Request)
  /\ RunsPassed /\ PassSeen /\ SavesFresh /\ DecisionsSeen /\ InOrder /\ RowsAhead
  /\ OneRunPerOccurrence /\ OccurrencesAccounted

\* A due task is dispatched, unless it is edited, paused or deleted first.
DueIsDispatched ==
  \A t \in Tasks :
    Due(task[t], clock) ~> ~Due(task[t], clock)
=============================================================================
