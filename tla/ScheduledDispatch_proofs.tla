------------------------ MODULE ScheduledDispatch_proofs ------------------------
(***************************************************************************)
(* Proofs about ScheduledDispatch, for every set of tasks and schedules,   *)
(* infinite calendars included, and every late window and delay; and about *)
(* the searches of Calendar, which are exact for every length of the day,  *)
(* every zone with one change of its clocks by at most a day, every        *)
(* recurring schedule and every instant.                                   *)
(***************************************************************************)
EXTENDS ScheduledDispatch, Calendar, WellFoundedInduction, TLAPS

(***************************************************************************)
(* The occurrences of a schedule.                                         *)
(***************************************************************************)
LEMMA LeastExists ==
  ASSUME NEW T \in SUBSET Nat, T # {}
  PROVE  \E x \in T : \A y \in T : x <= y
<1> DEFINE Less == {ss \in Nat \X Nat : ss[1] < ss[2]}
<1>1. IsWellFoundedOn(Less, Nat)
  BY NatLessThanWellFounded DEF OpToRel
<1>2. \E x \in T : \A y \in T : <<y, x>> \notin Less
  <2> HIDE DEF Less
  <2> QED
    BY <1>1, WFMin
<1>3. ASSUME NEW x \in T, NEW y \in T, <<y, x>> \notin Less
      PROVE  x <= y
  BY <1>3
<1> QED
  BY <1>2, <1>3

LEMMA GreatestExists ==
  ASSUME NEW n \in Nat, NEW T \in SUBSET (0 .. n), T # {}
  PROVE  \E x \in T : \A y \in T : x >= y
<1> DEFINE U == {n - y : y \in T}
<1>1. U \in SUBSET Nat /\ U # {}
  OBVIOUS
<1>2. PICK u \in U : \A v \in U : u <= v
  <2> HIDE DEF U
  <2> QED
    BY <1>1, LeastExists
<1>3. PICK x \in T : u = n - x
  BY <1>2
<1>4. ASSUME NEW y \in T PROVE x >= y
  <2>1. n - y \in U
    OBVIOUS
  <2>2. n - x <= n - y
    BY <1>2, <1>3, <2>1
  <2> QED
    BY <2>2
<1> QED
  BY <1>4

LEMMA ScheduleTimes == \A s \in Schedules \cup {None} : s.times \subseteq Nat
BY ScheduleAssumption DEF None

\* nextOccurrences(): the next time is ahead, and none is left out.
LEMMA NextIsNext ==
  ASSUME NEW s \in Schedules \cup {None}, NEW now \in Nat
  PROVE  /\ NextOccurrence(s, now) \in Nat \cup {Never}
         /\ NextOccurrence(s, now) # Never => now < NextOccurrence(s, now)
         /\ NoneBetween(s, now, NextOccurrence(s, now))
<1> DEFINE later == {o \in s.times : o > now}
<1>1. later \in SUBSET Nat
  BY ScheduleTimes
<1>2. CASE later = {}
  BY <1>2 DEF NextOccurrence, NoneBetween
<1>3. CASE later # {}
  <2>1. \E o \in later : \A p \in later : o <= p
    <3> HIDE DEF later
    <3> QED
      BY <1>1, <1>3, LeastExists
  <2>2. NextOccurrence(s, now) = CHOOSE o \in later : \A p \in later : o <= p
    BY <1>3 DEF NextOccurrence
  <2>3. NextOccurrence(s, now) \in later /\ \A p \in later : NextOccurrence(s, now) <= p
    <3> HIDE DEF later
    <3> QED
      BY <2>1, <2>2
  <2> QED
    BY <1>1, <2>3 DEF NoneBetween
<1> QED
  BY <1>2, <1>3

\* The time a due row is dispatched for has come, and is not before the next
\* time of the row.
LEMMA ForHasCome ==
  ASSUME NEW x \in TaskRow, NEW now \in Nat, x.next # Never, x.next <= now
  PROVE  /\ ScheduledFor(x, now) \in Nat /\ x.next \in Nat
         /\ x.next <= ScheduledFor(x, now) /\ ScheduledFor(x, now) <= now
<1> DEFINE past == {o \in x.schedule.times : o <= now}
           latest == LatestOccurrence(x.schedule, now)
<1>1. x.next \in Nat /\ x.schedule \in Schedules \cup {None}
  BY DEF TaskRow
<1>2. past \in SUBSET (0 .. now)
  BY <1>1, ScheduleTimes
<1>3. ASSUME latest >= x.next PROVE latest \in 0 .. now
  <2>1. past # {}
    BY <1>1, <1>3 DEF LatestOccurrence, Never
  <2>2. \E o \in past : \A p \in past : o >= p
    <3> HIDE DEF past
    <3> QED
      BY <1>2, <2>1, GreatestExists
  <2>3. latest = CHOOSE o \in past : \A p \in past : o >= p
    BY <2>1 DEF LatestOccurrence
  <2>4. latest \in past
    <3> HIDE DEF past, latest
    <3> QED
      BY <2>2, <2>3
  <2> QED
    BY <1>2, <2>4
<1> HIDE DEF latest
<1>4. ScheduledFor(x, now) = x.next \/ (ScheduledFor(x, now) = latest /\ latest >= x.next)
  BY DEF ScheduledFor, latest
<1> QED
  BY <1>1, <1>3, <1>4

(***************************************************************************)
(* The requests of the worker.                                             *)
(***************************************************************************)
LEMMA RequestKinds ==
  ASSUME NEW r \in Request
  PROVE  /\ r.op \in {"get", "save"} => r.task \in Tasks /\ r.by \in Editors
         /\ r.op = "save" => r.expected \in Nat /\ r.row \in TaskRow
         /\ r.op = "materialize" => r.run \in RunRow /\ r.next \in Nat \cup {Never}
BY DEF Request

LEMMA Posted ==
  ASSUME requests \in Seq(Request), NEW r \in Request, Post(r)
  PROVE  /\ requests' \in Seq(Request)
         /\ DOMAIN requests = 1 .. Len(requests) /\ Len(requests) \in Nat
         /\ DOMAIN requests' = 1 .. Len(requests) + 1
         /\ requests'[Len(requests) + 1] = r
         /\ \A i \in DOMAIN requests : requests'[i] = requests[i]
<1> HIDE DEF Request
<1> QED
  BY DEF Post

LEMMA Taken ==
  ASSUME requests \in Seq(Request), NEW op, Take(op)
  PROVE  /\ requests' \in Seq(Request)
         /\ Head(requests) \in Request /\ Head(requests).op = op
         /\ 1 \in DOMAIN requests /\ Head(requests) = requests[1]
         /\ DOMAIN requests \subseteq Nat /\ DOMAIN requests' \subseteq Nat
         /\ \A i \in DOMAIN requests' : i + 1 \in DOMAIN requests /\ i + 1 > 1
                                        /\ requests'[i] = requests[i + 1]
<1> HIDE DEF Request
<1>1. requests # <<>> /\ Head(requests).op = op /\ requests' = Tail(requests)
  BY DEF Take
<1> QED
  BY <1>1

(***************************************************************************)
(* Types.                                                                  *)
(***************************************************************************)
LEMMA InitOK == Init => IInv
<1> SUFFICES ASSUME Init PROVE IInv
  OBVIOUS
<1>1. NoTask \in TaskRow
  BY DEF NoTask, TaskRow, None
<1>2. TypeOK
  BY <1>1 DEF Init, TypeOK, Idle, NoEdit, Edit
<1>3. requests \in Seq(Request) /\ DOMAIN requests = {} /\ runs = {}
  BY DEF Init
<1>4. PassSeen /\ OccurrencesAccounted
  BY DEF Init, PassSeen, Idle, OccurrencesAccounted, NoTask
<1> QED
  BY <1>2, <1>3, <1>4
  DEF IInv, RunsPassed, SavesFresh, DecisionsSeen, InOrder, RowsAhead, Behind,
      OneRunPerOccurrence

\* The rows that edits prepare.
Removed(x) == [x EXCEPT !.rev = @ + 1, !.enabled = FALSE, !.deleted = TRUE,
                        !.updated = clock, !.next = Never]

LEMMA RowType ==
  ASSUME clock \in Nat, NEW n \in Nat, NEW wish \in Wishes
  PROVE  /\ Row(n, wish) \in TaskRow
         /\ Row(n, wish).rev = n
         /\ Row(n, wish).enabled =>
              NoneBetween(Row(n, wish).schedule, Row(n, wish).updated, Row(n, wish).next)
         /\ Row(n, wish).next # Never => clock < Row(n, wish).next
<1> DEFINE next == IF wish.enabled THEN NextOccurrence(wish.schedule, clock) ELSE Never
<1>1. wish.schedule \in Schedules /\ wish.enabled \in BOOLEAN /\ wish.catchUp \in BOOLEAN
  BY ScheduleAssumption
<1>2. /\ next \in Nat \cup {Never}
      /\ next # Never => clock < next
      /\ wish.enabled => NoneBetween(wish.schedule, clock, next)
  BY <1>1, NextIsNext
<1>3. Row(n, wish) = [rev |-> n, enabled |-> wish.enabled, deleted |-> FALSE,
                      updated |-> clock, schedule |-> wish.schedule,
                      catchUp |-> wish.catchUp, next |-> next]
  BY DEF Row
<1> HIDE DEF next
<1>4. Row(n, wish) \in TaskRow
  <2>1. next \in Nat \cup {Never}
    BY <1>2
  <2> QED
    BY <1>1, <1>3, <2>1 DEF TaskRow
<1>5. /\ Row(n, wish).rev = n /\ Row(n, wish).schedule = wish.schedule
      /\ Row(n, wish).updated = clock /\ Row(n, wish).next = next
  BY <1>3
<1>6. Row(n, wish).enabled = wish.enabled
  BY <1>3
<1> QED
  BY <1>2, <1>4, <1>5, <1>6, Zenon

LEMMA RemovedType ==
  ASSUME clock \in Nat, NEW y \in TaskRow
  PROVE  /\ Removed(y) \in TaskRow /\ Removed(y).rev = y.rev + 1
         /\ Removed(y).next = Never /\ ~Removed(y).enabled
<1> DEFINE z == [y EXCEPT !.rev = @ + 1]
<1>1. z \in TaskRow
  BY DEF TaskRow
<1>2. Removed(y) = [z EXCEPT !.enabled = FALSE, !.deleted = TRUE, !.updated = clock,
                             !.next = Never]
  BY DEF Removed
<1>3. Removed(y) \in TaskRow
  <2> DEFINE w == [z EXCEPT !.enabled = FALSE, !.deleted = TRUE]
  <2> HIDE DEF z
  <2>1. w \in TaskRow
    BY <1>1 DEF TaskRow
  <2>2. Removed(y) = [w EXCEPT !.updated = clock, !.next = Never]
    BY <1>2
  <2> HIDE DEF w
  <2> QED
    BY <2>1, <2>2 DEF TaskRow
<1>4. Removed(y).rev = y.rev + 1 /\ Removed(y).next = Never
  BY DEF Removed, TaskRow
<1>5. ~Removed(y).enabled
  BY DEF Removed, TaskRow
<1> QED
  BY <1>3, <1>4, <1>5

LEMMA SavePosted ==
  ASSUME NEW e \in Editors, NEW t \in Tasks, NEW expected \in Nat, NEW x \in TaskRow
  PROVE  SaveRequest(e, t, expected, x) \in Request
BY DEF SaveRequest, Request

\* The row an edit prepares: one revision ahead, its next time ahead of now.
Prepared(r, t, now) ==
  /\ r \in Request /\ r.op = "save" /\ r.task = t
  /\ r.row.rev = r.expected + 1
  /\ r.row.enabled => NoneBetween(r.row.schedule, r.row.updated, r.row.next)
  /\ r.row.next # Never => now < r.row.next

LEMMA PreparedSave ==
  ASSUME NEW e \in Editors, NEW t \in Tasks, NEW n \in Nat, NEW now \in Nat,
         NEW y \in TaskRow, y.rev = n + 1,
         y.enabled => NoneBetween(y.schedule, y.updated, y.next),
         y.next # Never => now < y.next
  PROVE  Prepared(SaveRequest(e, t, n, y), t, now)
<1>1. SaveRequest(e, t, n, y) \in Request
  BY SavePosted
<1> QED
  BY <1>1 DEF Prepared, SaveRequest

LEMMA EditPosts ==
  ASSUME TypeOK, NEW e \in Editors, NEW t \in Tasks,
         CreateTask(e, t) \/ PrepareUpdate(e, t) \/ Remove(e, t)
  PROVE  \E r \in Request : Post(r) /\ Prepared(r, t, clock)
<1>1. clock \in Nat /\ edit[e].seen \in TaskRow /\ edit[e].seen.rev \in Nat
  BY DEF TypeOK, Edit, TaskRow
<1>2. ASSUME NEW n \in Nat, NEW wish \in Wishes, Post(SaveRequest(e, t, n, Row(n + 1, wish)))
      PROVE  \E r \in Request : Post(r) /\ Prepared(r, t, clock)
  <2>1. /\ Row(n + 1, wish) \in TaskRow /\ Row(n + 1, wish).rev = n + 1
        /\ Row(n + 1, wish).enabled =>
             NoneBetween(Row(n + 1, wish).schedule, Row(n + 1, wish).updated,
                         Row(n + 1, wish).next)
        /\ Row(n + 1, wish).next # Never => clock < Row(n + 1, wish).next
    <3>1. n + 1 \in Nat
      OBVIOUS
    <3> QED
      BY <1>1, <3>1, RowType, Zenon
  <2>2. Prepared(SaveRequest(e, t, n, Row(n + 1, wish)), t, clock)
    BY <1>1, <2>1, PreparedSave
  <2> QED
    BY <1>2, <2>2 DEF Prepared
<1>3. CASE CreateTask(e, t)
  <2>1. \E wish \in Wishes : Post(SaveRequest(e, t, 0, Row(0 + 1, wish)))
    BY <1>3 DEF CreateTask
  <2> QED
    BY <1>2, <2>1
<1>4. CASE PrepareUpdate(e, t)
  <2>1. \E wish \in Wishes :
          Post(SaveRequest(e, t, edit[e].seen.rev, Row(edit[e].seen.rev + 1, wish)))
    BY <1>4 DEF PrepareUpdate
  <2> QED
    BY <1>1, <1>2, <2>1
<1>5. CASE Remove(e, t)
  <2>1. Post(SaveRequest(e, t, edit[e].seen.rev, Removed(edit[e].seen)))
    BY <1>5 DEF Remove, Removed
  <2>2. Prepared(SaveRequest(e, t, edit[e].seen.rev, Removed(edit[e].seen)), t, clock)
    BY <1>1, RemovedType, PreparedSave
  <2> QED
    BY <2>1, <2>2 DEF Prepared
<1> QED
  BY <1>3, <1>4, <1>5

\* A decision of the pass, as it is posted.
Decision(r, t, x, now) ==
  /\ r \in Request /\ r.op = "materialize" /\ r.run.task = t
  /\ r.run.rev = x.rev /\ r.run.from = x.next /\ r.run.at = now
  /\ r.run.from <= r.run.for /\ r.run.for <= r.run.at
  /\ r.next # Never => now < r.next
  /\ NoneBetween(x.schedule, now, r.next)

LEMMA DecisionPosted ==
  ASSUME NEW a \in RunRow, NEW n \in Nat \cup {Never}
  PROVE  [op |-> "materialize", run |-> a, next |-> n] \in Request
BY DEF Request

LEMMA DecidePosts ==
  ASSUME TypeOK, PassSeen, NEW t, NEW x, Decide(t, x)
  PROVE  /\ [task |-> t, row |-> x] \in pass.due /\ t \in Tasks /\ x \in TaskRow
         /\ \E r \in Request : Post(r) /\ Decision(r, t, x, pass.now)
<1>1. [task |-> t, row |-> x] \in pass.due
  BY DEF Decide
<1>2. t \in Tasks /\ x \in TaskRow /\ pass.now \in Nat
  BY <1>1 DEF TypeOK
<1>3. x.next # Never /\ x.next <= pass.now
  BY <1>1 DEF PassSeen
<1> DEFINE for == ScheduledFor(x, pass.now)
           next == IF x.schedule.kind = "once" THEN Never
                   ELSE NextOccurrence(x.schedule, pass.now)
<1>4. for \in Nat /\ x.next \in Nat /\ x.next <= for /\ for <= pass.now
  BY <1>2, <1>3, ForHasCome
<1>5. /\ next \in Nat \cup {Never}
      /\ next # Never => pass.now < next
      /\ NoneBetween(x.schedule, pass.now, next)
  <2>1. x.schedule \in Schedules \cup {None} /\ x.schedule.times \subseteq Nat
    BY <1>2, ScheduleTimes DEF TaskRow
  <2>2. CASE x.schedule.kind = "once"
    BY <2>1, <2>2 DEF NoneBetween, Never
  <2>3. CASE x.schedule.kind # "once"
    BY <1>2, <2>1, <2>3, NextIsNext
  <2> QED
    BY <2>2, <2>3
<1> HIDE DEF for, next
<1>6. PICK run, n :
        /\ \E status \in {"queued", "missed", "failed"} :
             run = [task |-> t, rev |-> x.rev, for |-> for, from |-> x.next,
                    at |-> pass.now, status |-> status]
        /\ n = next
        /\ Post([op |-> "materialize", run |-> run, next |-> n])
  BY DEF Decide, for, next
<1>7. run \in RunRow
  BY <1>2, <1>4, <1>6 DEF RunRow, TaskRow
<1>8. [op |-> "materialize", run |-> run, next |-> n] \in Request
  <2>1. n \in Nat \cup {Never}
    BY <1>5, <1>6
  <2> QED
    BY <1>7, <2>1, DecisionPosted
<1>9. /\ run.task = t /\ run.rev = x.rev /\ run.for = for
      /\ run.from = x.next /\ run.at = pass.now
  BY <1>6
<1>10. Decision([op |-> "materialize", run |-> run, next |-> n], t, x, pass.now)
  <2>1. run.from <= run.for /\ run.for <= run.at
    BY <1>4, <1>9
  <2>2. (n # Never => pass.now < n) /\ NoneBetween(x.schedule, pass.now, n)
    BY <1>5, <1>6
  <2> QED
    BY <1>8, <1>9, <2>1, <2>2 DEF Decision
<1> QED
  BY <1>1, <1>2, <1>6, <1>8, <1>10

LEMMA GetPosted ==
  /\ \A e \in Editors, t \in Tasks : [op |-> "get", by |-> e, task |-> t] \in Request
  /\ [op |-> "list"] \in Request
BY DEF Request

LEMMA PassTypes ==
  ASSUME TypeOK, NEW phase \in {"idle", "listing", "deciding", "storing"},
         NEW now \in Nat, NEW due \in SUBSET [task : Tasks, row : TaskRow]
  PROVE  LET Passes == [phase : {"idle", "listing", "deciding", "storing"}, now : Nat,
                        due : SUBSET [task : Tasks, row : TaskRow]]
         IN  /\ [pass EXCEPT !.phase = phase] \in Passes
             /\ [pass EXCEPT !.phase = phase, !.due = due] \in Passes
             /\ [Idle EXCEPT !.phase = phase, !.now = now] \in Passes
             /\ Idle \in Passes
BY DEF TypeOK, Idle

LEMMA EditTypes ==
  ASSUME TypeOK, NEW e \in Editors, NEW t \in Tasks,
         NEW phase \in {"idle", "reading", "read", "saving"}, NEW x \in TaskRow
  PROVE  /\ [edit EXCEPT ![e].phase = phase] \in [Editors -> Edit]
         /\ [edit EXCEPT ![e].phase = phase, ![e].of = {t}] \in [Editors -> Edit]
         /\ [edit EXCEPT ![e].phase = phase, ![e].seen = x] \in [Editors -> Edit]
         /\ [edit EXCEPT ![e] = NoEdit] \in [Editors -> Edit]
         /\ [f \in Editors |-> NoEdit] \in [Editors -> Edit]
<1>1. NoEdit \in Edit
  BY DEF NoEdit, Edit, NoTask, TaskRow, None
<1>2. \A y \in Edit : /\ [y EXCEPT !.phase = phase] \in Edit
                      /\ [y EXCEPT !.phase = phase, !.of = {t}] \in Edit
                      /\ [y EXCEPT !.phase = phase, !.seen = x] \in Edit
  BY DEF Edit
<1>3. edit \in [Editors -> Edit]
  BY DEF TypeOK
<1> QED
  BY <1>1, <1>2, <1>3

\* The row of a dispatched task.
LEMMA DispatchedType ==
  ASSUME NEW y \in TaskRow, NEW n \in Nat \cup {Never}, NEW e \in BOOLEAN
  PROVE  [y EXCEPT !.next = n, !.enabled = e] \in TaskRow
BY DEF TaskRow

\* What the third branch of materializeScheduledRun() stores.
Stores(r, status) ==
  /\ r \in Request /\ r.op = "materialize" /\ r.run \in RunRow /\ r.run.task \in Tasks
  /\ r.next \in Nat \cup {Never} /\ r = Head(requests)
  /\ task[r.run.task].rev = r.run.rev /\ Current(task[r.run.task], r.run)
  /\ runs' = runs \cup {[r.run EXCEPT !.status = status]}
  /\ task' = [task EXCEPT ![r.run.task] =
                [task[r.run.task] EXCEPT !.next = r.next,
                   !.enabled = task[r.run.task].schedule.kind # "once"]]

LEMMA MaterializeEffect ==
  ASSUME TypeOK, requests \in Seq(Request), MaterializeScheduledRun
  PROVE  /\ Take("materialize")
         /\ UNCHANGED <<clock, edit, crashes>>
         /\ unfinished' \subseteq Tasks
         /\ pass' = Idle \/ pass' = [pass EXCEPT !.phase = "deciding"]
         /\ \/ UNCHANGED <<task, runs>>
            \/ \E r \in Request, status \in {"queued", "busy", "missed", "failed"} :
                 Stores(r, status)
<1>1. Take("materialize") /\ UNCHANGED <<clock, edit, crashes>>
  BY DEF MaterializeScheduledRun
<1>2. Head(requests) \in Request /\ Head(requests).op = "materialize"
  BY <1>1, Taken
<1>3. Head(requests).run \in RunRow /\ Head(requests).next \in Nat \cup {Never}
  BY <1>2, RequestKinds
<1>4. Head(requests).run.task \in Tasks
      /\ Head(requests).run.status \in {"queued", "busy", "missed", "failed"}
  BY <1>3 DEF RunRow
<1>5. unfinished' \subseteq Tasks
  BY <1>4 DEF MaterializeScheduledRun, TypeOK
<1>6. pass' = Idle \/ pass' = [pass EXCEPT !.phase = "deciding"]
  BY DEF MaterializeScheduledRun
<1>7. CASE UNCHANGED <<task, runs>>
  BY <1>1, <1>5, <1>6, <1>7
<1>8. CASE ~UNCHANGED <<task, runs>>
  <2> DEFINE r == Head(requests)
             status == IF r.run.task \in unfinished THEN "busy" ELSE r.run.status
  <2>1. /\ task[r.run.task].rev = r.run.rev /\ Current(task[r.run.task], r.run)
        /\ runs' = runs \cup {IF r.run.task \in unfinished
                              THEN [r.run EXCEPT !.status = "busy"] ELSE r.run}
        /\ task' = [task EXCEPT ![r.run.task] =
                      [task[r.run.task] EXCEPT !.next = r.next,
                         !.enabled = task[r.run.task].schedule.kind # "once"]]
    BY <1>8 DEF MaterializeScheduledRun
  <2>2. (IF r.run.task \in unfinished THEN [r.run EXCEPT !.status = "busy"] ELSE r.run)
           = [r.run EXCEPT !.status = status]
    BY <1>3 DEF RunRow
  <2>3. status \in {"queued", "busy", "missed", "failed"}
    BY <1>4
  <2>4. Stores(r, status)
    BY <1>2, <1>3, <1>4, <2>1, <2>2 DEF Stores
  <2> QED
    BY <1>1, <1>2, <1>5, <1>6, <2>3, <2>4
<1> QED
  BY <1>7, <1>8

\* The fields of what is stored.
LEMMA StoredFields ==
  ASSUME TypeOK, NEW r \in Request, NEW status \in {"queued", "busy", "missed", "failed"},
         Stores(r, status)
  PROVE  /\ task' \in [Tasks -> TaskRow]
         /\ \A u \in Tasks \ {r.run.task} : task'[u] = task[u]
         /\ task'[r.run.task].next = r.next
         /\ task'[r.run.task].rev = task[r.run.task].rev
         /\ task'[r.run.task].schedule = task[r.run.task].schedule
         /\ task'[r.run.task].updated = task[r.run.task].updated
         /\ \E a \in RunRow : /\ runs' = runs \cup {a} /\ a.task = r.run.task
                              /\ a.from = r.run.from /\ a.for = r.run.for /\ a.at = r.run.at
<1>1. task[r.run.task] \in TaskRow /\ r.run.task \in Tasks /\ r.next \in Nat \cup {Never}
      /\ r.run \in RunRow
  BY DEF TypeOK, Stores
<1> DEFINE on == task[r.run.task].schedule.kind # "once"
           y == [task[r.run.task] EXCEPT !.next = r.next, !.enabled = on]
<1>2. on \in BOOLEAN
  OBVIOUS
<1>3. task' = [task EXCEPT ![r.run.task] = y]
  BY DEF Stores
<1>4. y \in TaskRow
  <2> HIDE DEF on
  <2> QED
    BY <1>1, <1>2, DispatchedType
<1>5. y.next = r.next /\ y.rev = task[r.run.task].rev
      /\ y.schedule = task[r.run.task].schedule /\ y.updated = task[r.run.task].updated
  BY <1>1 DEF TaskRow
<1> DEFINE a == [r.run EXCEPT !.status = status]
<1>6. a \in RunRow /\ a.task = r.run.task /\ a.from = r.run.from /\ a.for = r.run.for
      /\ a.at = r.run.at
  BY <1>1 DEF RunRow
<1>7. runs' = runs \cup {a}
  BY DEF Stores
<1> HIDE DEF y, a
<1>8. task' \in [Tasks -> TaskRow] /\ task'[r.run.task] = y
      /\ \A u \in Tasks \ {r.run.task} : task'[u] = task[u]
  BY <1>1, <1>3, <1>4 DEF TypeOK
<1> QED
  BY <1>5, <1>6, <1>7, <1>8

\* Each step keeps the types.
LEMMA TypeStep == IInv /\ [Next]_vars => TypeOK' /\ requests' \in Seq(Request)
<1> SUFFICES ASSUME TypeOK, requests \in Seq(Request), PassSeen, [Next]_vars
             PROVE  TypeOK' /\ requests' \in Seq(Request)
  BY DEF IInv
<1>1. ASSUME NEW e \in Editors, NEW t \in Tasks,
             CreateTask(e, t) \/ PrepareUpdate(e, t) \/ Remove(e, t)
      PROVE  TypeOK' /\ requests' \in Seq(Request)
  <2>1. PICK r \in Request : Post(r)
    BY <1>1, EditPosts
  <2>2. requests' \in Seq(Request)
    BY <2>1, Posted
  <2>3. UNCHANGED <<clock, task, runs, unfinished, pass, crashes>>
    BY <1>1 DEF CreateTask, PrepareUpdate, Remove
  <2>4. "saving" \in {"idle", "reading", "read", "saving"} /\ task[t] \in TaskRow
    BY DEF TypeOK
  <2>5. CASE edit' = [edit EXCEPT ![e].phase = "saving", ![e].of = {t}]
    <3>1. edit' \in [Editors -> Edit]
      BY <2>4, <2>5, EditTypes
    <3> QED
      BY <2>2, <2>3, <3>1 DEF TypeOK
  <2>6. CASE edit' = [edit EXCEPT ![e].phase = "saving"]
    <3>1. edit' \in [Editors -> Edit]
      BY <2>4, <2>6, EditTypes
    <3> QED
      BY <2>2, <2>3, <3>1 DEF TypeOK
  <2> QED
    BY <1>1, <2>5, <2>6 DEF CreateTask, PrepareUpdate, Remove
<1>2. ASSUME NEW e \in Editors, NEW t \in Tasks, ReadTask(e, t)
      PROVE  TypeOK' /\ requests' \in Seq(Request)
  <2>1. edit' \in [Editors -> Edit]
    <3>1. "reading" \in {"idle", "reading", "read", "saving"} /\ task[t] \in TaskRow
      BY DEF TypeOK
    <3>2. edit' = [edit EXCEPT ![e].phase = "reading", ![e].of = {t}]
      BY <1>2 DEF ReadTask
    <3> QED
      BY <3>1, <3>2, EditTypes
  <2>2. requests' \in Seq(Request)
    BY <1>2, GetPosted, Posted DEF ReadTask
  <2> QED
    BY <1>2, <2>1, <2>2 DEF ReadTask, TypeOK
<1>11. ASSUME NEW e \in Editors, RefuseEdit(e)
       PROVE  TypeOK' /\ requests' \in Seq(Request)
  <2>1. NoEdit \in Edit
    BY DEF NoEdit, Edit, NoTask, TaskRow, None
  <2> QED
    BY <1>11, <2>1 DEF RefuseEdit, TypeOK
<1>3. ASSUME Scan \/ PassOver \/ \E d \in pass.due : Decide(d.task, d.row)
      PROVE  TypeOK' /\ requests' \in Seq(Request)
  <2>1. pass.now \in Nat /\ clock \in Nat
        /\ pass.due \in SUBSET [task : Tasks, row : TaskRow]
    BY DEF TypeOK
  <2>2. CASE Scan
    <3>1. requests' \in Seq(Request)
      BY <2>2, GetPosted, Posted DEF Scan
    <3>2. pass' = [Idle EXCEPT !.phase = "listing", !.now = clock]
          /\ UNCHANGED <<clock, task, runs, unfinished, edit, crashes>>
      BY <2>2 DEF Scan
    <3>3. pass' \in [phase : {"idle", "listing", "deciding", "storing"}, now : Nat,
                     due : SUBSET [task : Tasks, row : TaskRow]]
      BY <2>1, <3>2, PassTypes
    <3> QED
      BY <3>1, <3>2, <3>3 DEF TypeOK
  <2>3. CASE PassOver
    <3>1. pass' = Idle /\ UNCHANGED <<clock, task, runs, unfinished, requests, edit, crashes>>
      BY <2>3 DEF PassOver
    <3>2. pass' \in [phase : {"idle", "listing", "deciding", "storing"}, now : Nat,
                     due : SUBSET [task : Tasks, row : TaskRow]]
      BY <3>1 DEF Idle
    <3> QED
      BY <3>1, <3>2 DEF TypeOK
  <2>4. ASSUME NEW d \in pass.due, Decide(d.task, d.row)
        PROVE  TypeOK' /\ requests' \in Seq(Request)
    <3>1. requests' \in Seq(Request)
      BY <2>4, DecidePosts, Posted
    <3>2. PICK due \in SUBSET pass.due : pass' = [pass EXCEPT !.phase = "storing", !.due = due]
      BY <2>4 DEF Decide
    <3>3. UNCHANGED <<clock, task, runs, unfinished, edit, crashes>>
      BY <2>4 DEF Decide
    <3>4. pass' \in [phase : {"idle", "listing", "deciding", "storing"}, now : Nat,
                     due : SUBSET [task : Tasks, row : TaskRow]]
      <4>1. due \in SUBSET [task : Tasks, row : TaskRow]
        BY <2>1
      <4> QED
        BY <2>1, <3>2, <4>1, PassTypes
    <3> QED
      BY <3>1, <3>3, <3>4 DEF TypeOK
  <2> QED
    BY <1>3, <2>2, <2>3, <2>4
<1>4. CASE GetTask
  <2>1. requests' \in Seq(Request) /\ Head(requests).task \in Tasks /\ Head(requests).by \in Editors
    BY <1>4, Taken, RequestKinds DEF GetTask
  <2>2. PICK e \in Editors, t \in Tasks :
          edit' = [edit EXCEPT ![e].phase = "read", ![e].seen = task[t]]
    BY <1>4, <2>1 DEF GetTask
  <2>3. edit' \in [Editors -> Edit]
    <3>1. "read" \in {"idle", "reading", "read", "saving"} /\ task[t] \in TaskRow
      BY DEF TypeOK
    <3> QED
      BY <2>2, <3>1, EditTypes
  <2> QED
    BY <1>4, <2>1, <2>3 DEF GetTask, TypeOK
<1>5. CASE SaveTask
  <2>1. /\ requests' \in Seq(Request) /\ Head(requests).task \in Tasks
        /\ Head(requests).by \in Editors /\ Head(requests).row \in TaskRow
    BY <1>5, Taken, RequestKinds DEF SaveTask
  <2>2. task' \in [Tasks -> TaskRow]
    <3>1. task' = [task EXCEPT ![Head(requests).task] = Head(requests).row] \/ task' = task
      BY <1>5 DEF SaveTask
    <3> QED
      BY <2>1, <3>1 DEF TypeOK
  <2>3. edit' \in [Editors -> Edit]
    <3>1. edit' = [edit EXCEPT ![Head(requests).by] = NoEdit]
      BY <1>5 DEF SaveTask
    <3>2. NoEdit \in Edit
      BY DEF NoEdit, Edit, NoTask, TaskRow, None
    <3> QED
      BY <3>1, <3>2 DEF TypeOK
  <2> QED
    BY <1>5, <2>1, <2>2, <2>3 DEF SaveTask, TypeOK
<1>6. CASE ListDueTasks
  <2>1. requests' \in Seq(Request)
    BY <1>6, Taken DEF ListDueTasks
  <2>2. PICK due \in SUBSET [task : Tasks, row : TaskRow] :
          pass' = [pass EXCEPT !.phase = "deciding", !.due = due]
    <3>1. {[task |-> t, row |-> task[t]] : t \in {u \in Tasks : Due(task[u], pass.now)}}
            \in SUBSET [task : Tasks, row : TaskRow]
      BY DEF TypeOK
    <3> QED
      BY <1>6, <3>1 DEF ListDueTasks
  <2>3. pass' \in [phase : {"idle", "listing", "deciding", "storing"}, now : Nat,
                   due : SUBSET [task : Tasks, row : TaskRow]]
    <3>1. pass.now \in Nat
      BY DEF TypeOK
    <3> QED
      BY <2>2, <3>1, PassTypes
  <2> QED
    BY <1>6, <2>1, <2>3 DEF ListDueTasks, TypeOK
<1>7. CASE MaterializeScheduledRun
  <2>1. requests' \in Seq(Request)
    BY <1>7, MaterializeEffect, Taken
  <2>2. pass' \in [phase : {"idle", "listing", "deciding", "storing"}, now : Nat,
                   due : SUBSET [task : Tasks, row : TaskRow]]
    <3>1. pass.now \in Nat /\ pass.due \in SUBSET [task : Tasks, row : TaskRow]
      BY DEF TypeOK
    <3>2. CASE pass' = Idle
      BY <3>1, <3>2, PassTypes
    <3>3. CASE pass' = [pass EXCEPT !.phase = "deciding"]
      BY <3>1, <3>3, PassTypes
    <3> QED
      BY <1>7, <3>2, <3>3, MaterializeEffect
  <2>3. task' \in [Tasks -> TaskRow] /\ runs' \subseteq RunRow
    <3>1. CASE UNCHANGED <<task, runs>>
      BY <3>1 DEF TypeOK
    <3>2. ASSUME NEW r \in Request, NEW status \in {"queued", "busy", "missed", "failed"},
                 Stores(r, status)
          PROVE  task' \in [Tasks -> TaskRow] /\ runs' \subseteq RunRow
      BY <3>2, StoredFields DEF TypeOK
    <3> QED
      BY <1>7, <3>1, <3>2, MaterializeEffect
  <2>4. UNCHANGED <<clock, edit, crashes>> /\ unfinished' \subseteq Tasks
    BY <1>7, MaterializeEffect
  <2> QED
    BY <2>1, <2>2, <2>3, <2>4 DEF TypeOK
<1>8. ASSUME NEW t \in Tasks, OtherRun(t)
      PROVE  TypeOK' /\ requests' \in Seq(Request)
  BY <1>8 DEF OtherRun, TypeOK
<1>9. CASE Crash
  <2>1. NoEdit \in Edit
    BY DEF NoEdit, Edit, NoTask, TaskRow, None
  <2>2. edit' \in [Editors -> Edit]
    BY <1>9, <2>1 DEF Crash
  <2>3. pass' \in [phase : {"idle", "listing", "deciding", "storing"}, now : Nat,
                   due : SUBSET [task : Tasks, row : TaskRow]]
    BY <1>9 DEF Crash, Idle
  <2> QED
    BY <1>9, <2>2, <2>3 DEF Crash, TypeOK
<1>10. CASE Tick \/ UNCHANGED vars
  BY <1>10 DEF Tick, TypeOK, vars
<1> QED
  BY <1>1, <1>2, <1>3, <1>4, <1>5, <1>6, <1>7, <1>8, <1>9, <1>10, <1>11
  DEF Next, Worker, Pass

(***************************************************************************)
(* What the requests promise, when one is posted and when one is taken.    *)
(***************************************************************************)
\* A decision that may be posted.
GoodDecision(r) ==
  /\ r.run.from <= r.run.for /\ r.run.for <= r.run.at /\ r.run.at <= clock
  /\ r.next # Never => r.run.at < r.next
  /\ r.run.rev <= task[r.run.task].rev
  /\ r.run.rev = task[r.run.task].rev
       => NoneBetween(task[r.run.task].schedule, r.run.at, r.next)

LEMMA PostKeeps ==
  ASSUME IInv, NEW r \in Request, Post(r), UNCHANGED <<clock, task, runs>>,
         r.op = "save" => Prepared(r, r.task, clock),
         r.op = "materialize" => GoodDecision(r)
  PROVE  SavesFresh' /\ DecisionsSeen' /\ InOrder'
<1>1. /\ requests \in Seq(Request) /\ SavesFresh /\ DecisionsSeen /\ InOrder
      /\ RunsPassed /\ runs \subseteq RunRow /\ clock \in Nat
  BY DEF IInv, TypeOK
<1> DEFINE n == Len(requests) + 1
<1>2. /\ DOMAIN requests = 1 .. n - 1 /\ n \in Nat /\ DOMAIN requests' = 1 .. n
      /\ requests'[n] = r /\ \A i \in DOMAIN requests : requests'[i] = requests[i]
  BY <1>1, Posted
<1> HIDE DEF n
<1>3. \A i \in DOMAIN requests' : i = n \/ (i \in DOMAIN requests /\ i < n)
  BY <1>2
<1>4. SavesFresh'
  <2>1. ASSUME r.op = "save" PROVE Behind(r.task, r.row.next)
    <3>1. r.row.next \in Nat \cup {Never} /\ (r.row.next # Never => clock < r.row.next)
      BY <2>1, RequestKinds DEF Prepared, TaskRow
    <3>2. ASSUME r.row.next # Never, NEW a \in runs PROVE a.for < r.row.next
      <4>1. a.for <= a.at /\ a.at <= clock /\ a.for \in Nat /\ a.at \in Nat
        BY <1>1 DEF RunsPassed, RunRow
      <4>2. r.row.next \in Nat /\ clock < r.row.next
        BY <3>1, <3>2
      <4> QED
        BY <1>1, <4>1, <4>2
    <3> QED
      BY <3>2 DEF Behind
  <2>2. ASSUME NEW i \in DOMAIN requests', requests'[i].op = "save"
        PROVE  LET q == requests'[i] IN
               /\ q.row.rev = q.expected + 1
               /\ q.row.enabled => NoneBetween(q.row.schedule, q.row.updated, q.row.next)
               /\ Behind(q.task, q.row.next)
    <3>1. CASE i = n
      BY <1>2, <2>1, <2>2, <3>1 DEF Prepared
    <3>2. CASE i \in DOMAIN requests
      BY <1>1, <1>2, <2>2, <3>2 DEF SavesFresh
    <3> QED
      BY <1>3, <3>1, <3>2
  <2> QED
    BY <2>2 DEF SavesFresh, Behind, NoneBetween
<1>5. DecisionsSeen'
  <2>1. ASSUME NEW i \in DOMAIN requests', requests'[i].op = "materialize"
        PROVE  GoodDecision(requests'[i])
    <3>1. CASE i = n
      BY <1>2, <2>1, <3>1
    <3>2. CASE i \in DOMAIN requests
      BY <1>1, <1>2, <2>1, <3>2 DEF DecisionsSeen, GoodDecision
    <3> QED
      BY <1>3, <3>1, <3>2
  <2> QED
    BY <2>1 DEF DecisionsSeen, GoodDecision, NoneBetween
<1>6. InOrder'
  <2>1. ASSUME NEW i \in DOMAIN requests', NEW j \in DOMAIN requests', i < j,
               requests'[i].op = "materialize", requests'[j].op = "save",
               requests'[i].run.task = requests'[j].task, requests'[j].row.next # Never
        PROVE  requests'[i].run.for < requests'[j].row.next
    <3>1. i \in DOMAIN requests /\ requests'[i] = requests[i]
      BY <1>2, <1>3, <2>1
    <3>2. CASE j = n
      <4>1. requests[i] \in Request /\ requests[i].op = "materialize"
        BY <1>1, <2>1, <3>1
      <4>2. requests[i].run.for \in Nat /\ requests[i].run.at \in Nat
        BY <4>1, RequestKinds DEF RunRow
      <4>3. requests[i].run.for <= requests[i].run.at /\ requests[i].run.at <= clock
        BY <1>1, <3>1, <4>1 DEF DecisionsSeen
      <4>4. r.op = "save" /\ r.row.next # Never
        BY <1>2, <2>1, <3>2
      <4>5. r.row.next \in Nat /\ clock < r.row.next
        BY <4>4, RequestKinds DEF Prepared, TaskRow
      <4> QED
        BY <1>1, <1>2, <3>1, <3>2, <4>2, <4>3, <4>5
    <3>3. CASE j \in DOMAIN requests
      BY <1>1, <1>2, <2>1, <3>1, <3>3 DEF InOrder
    <3> QED
      BY <1>3, <3>2, <3>3
  <2> QED
    BY <2>1 DEF InOrder
<1> QED
  BY <1>4, <1>5, <1>6

\* The rows move forward: one that changes its schedule changes its revision.
RowsForward ==
  \A t \in Tasks : /\ task[t].rev <= task'[t].rev
                   /\ task[t].rev = task'[t].rev => task[t].schedule = task'[t].schedule

LEMMA TakeKeeps ==
  ASSUME IInv, NEW op, Take(op)
  PROVE  /\ InOrder'
         /\ UNCHANGED runs => SavesFresh'
         /\ UNCHANGED clock /\ task' \in [Tasks -> TaskRow] /\ RowsForward => DecisionsSeen'
<1>1. requests \in Seq(Request) /\ SavesFresh /\ DecisionsSeen /\ InOrder /\ TypeOK
  BY DEF IInv
<1>2. /\ DOMAIN requests \subseteq Nat /\ DOMAIN requests' \subseteq Nat
      /\ \A i \in DOMAIN requests' : i + 1 \in DOMAIN requests /\ i + 1 > 1
                                     /\ requests'[i] = requests[i + 1]
  BY <1>1, Taken
<1>3. InOrder'
  <2>1. \A i, j \in DOMAIN requests' : i < j => i + 1 < j + 1
    BY <1>2
  <2> QED
    BY <1>1, <1>2, <2>1 DEF InOrder
<1>4. UNCHANGED runs => SavesFresh'
  BY <1>1, <1>2 DEF SavesFresh, Behind, NoneBetween
<1>5. ASSUME UNCHANGED clock, task' \in [Tasks -> TaskRow], RowsForward
      PROVE  DecisionsSeen'
  <2>1. ASSUME NEW i \in DOMAIN requests', requests'[i].op = "materialize"
        PROVE  LET r == requests'[i] IN
               /\ r.run.from <= r.run.for /\ r.run.for <= r.run.at /\ r.run.at <= clock
               /\ r.next # Never => r.run.at < r.next
               /\ r.run.rev <= task'[r.run.task].rev
               /\ r.run.rev = task'[r.run.task].rev
                    => NoneBetween(task'[r.run.task].schedule, r.run.at, r.next)
    <3> DEFINE r == requests'[i]
    <3>1. i + 1 \in DOMAIN requests /\ r = requests[i + 1] /\ r \in Request
      BY <1>1, <1>2
    <3>2. GoodDecision(r)
      BY <1>1, <2>1, <3>1 DEF DecisionsSeen, GoodDecision
    <3>3. r.run.task \in Tasks /\ r.run.rev \in Nat
      BY <2>1, <3>1, RequestKinds DEF RunRow
    <3>4. task[r.run.task].rev \in Nat /\ task'[r.run.task].rev \in Nat
      BY <1>1, <1>5, <3>3 DEF TypeOK, TaskRow
    <3>5. /\ task[r.run.task].rev <= task'[r.run.task].rev
          /\ task[r.run.task].rev = task'[r.run.task].rev
               => task[r.run.task].schedule = task'[r.run.task].schedule
      BY <1>5, <3>3 DEF RowsForward
    <3> HIDE DEF r
    <3>6. r.run.rev <= task'[r.run.task].rev
      BY <3>2, <3>3, <3>4, <3>5 DEF GoodDecision
    <3>7. ASSUME r.run.rev = task'[r.run.task].rev
          PROVE  NoneBetween(task'[r.run.task].schedule, r.run.at, r.next)
      <4>1. r.run.rev = task[r.run.task].rev
            /\ task[r.run.task].schedule = task'[r.run.task].schedule
        BY <3>2, <3>3, <3>4, <3>5, <3>7 DEF GoodDecision
      <4> QED
        BY <3>2, <4>1 DEF GoodDecision
    <3> QED
      BY <3>2, <3>6, <3>7 DEF GoodDecision, r
  <2> QED
    BY <1>5, <2>1 DEF DecisionsSeen, NoneBetween
<1> QED
  BY <1>3, <1>4, <1>5

\* What a pass has seen stays behind the rows.
LEMMA SeenKept ==
  ASSUME IInv, task' \in [Tasks -> TaskRow], RowsForward, clock' \in Nat, clock <= clock',
         pass'.now = pass.now, pass'.due \subseteq pass.due
  PROVE  PassSeen'
<1>1. PassSeen /\ TypeOK /\ clock \in Nat /\ pass.now \in Nat
  BY DEF IInv, TypeOK
<1>2. ASSUME NEW d \in pass.due
      PROVE  /\ d.row.rev <= task'[d.task].rev
             /\ d.row.rev = task'[d.task].rev => d.row.schedule = task'[d.task].schedule
             /\ d.row.next # Never /\ d.row.next <= pass.now
  <2>1. d.task \in Tasks /\ d.row \in TaskRow /\ d.row.rev \in Nat
    BY <1>1 DEF TypeOK, TaskRow
  <2>2. task[d.task].rev \in Nat /\ task'[d.task].rev \in Nat
    BY <1>1, <2>1 DEF TypeOK, TaskRow
  <2>3. Seen(d.task, d.row) /\ d.row.next # Never /\ d.row.next <= pass.now
    BY <1>1 DEF PassSeen
  <2>4. /\ task[d.task].rev <= task'[d.task].rev
        /\ task[d.task].rev = task'[d.task].rev => task[d.task].schedule = task'[d.task].schedule
    BY <2>1 DEF RowsForward
  <2> QED
    BY <2>1, <2>2, <2>3, <2>4 DEF Seen
<1>3. pass'.now <= clock'
  BY <1>1 DEF PassSeen
<1> QED
  BY <1>2, <1>3 DEF PassSeen, Seen

LEMMA SameRowsForward == TypeOK /\ UNCHANGED task => RowsForward /\ task' \in [Tasks -> TaskRow]
BY DEF TypeOK, RowsForward, TaskRow

\* The runs and the rows, while neither changes.
LEMMA StoreKept ==
  ASSUME IInv, UNCHANGED <<task, runs>>, clock' \in Nat, clock <= clock'
  PROVE  RunsPassed' /\ RowsAhead' /\ OneRunPerOccurrence' /\ OccurrencesAccounted'
<1>1. RunsPassed /\ RowsAhead /\ OneRunPerOccurrence /\ OccurrencesAccounted
      /\ clock \in Nat /\ runs \subseteq RunRow
  BY DEF IInv, TypeOK
<1>2. RunsPassed'
  BY <1>1 DEF RunsPassed, RunRow
<1>3. RowsAhead'
  BY <1>1 DEF RowsAhead, Behind
<1>4. OneRunPerOccurrence' /\ OccurrencesAccounted'
  BY <1>1 DEF OneRunPerOccurrence, OccurrencesAccounted
<1> QED
  BY <1>2, <1>3, <1>4

(***************************************************************************)
(* The worker stores.                                                      *)
(***************************************************************************)
\* createTask and updateTask: a row that replaces the one it was prepared from.
LEMMA SaveStep ==
  ASSUME IInv, SaveTask
  PROVE  /\ task' \in [Tasks -> TaskRow] /\ RowsForward
         /\ RowsAhead' /\ OccurrencesAccounted'
<1>1. TypeOK /\ RowsAhead /\ OccurrencesAccounted /\ UNCHANGED runs
  BY DEF IInv, SaveTask
<1>2. PICK r \in Request : /\ r.op = "save" /\ r = requests[1] /\ 1 \in DOMAIN requests
                          /\ r = Head(requests)
  BY Taken DEF IInv, SaveTask
<1>3. r.task \in Tasks /\ r.row \in TaskRow /\ r.expected \in Nat
  BY <1>2, RequestKinds
<1>4. /\ r.row.rev = r.expected + 1
      /\ r.row.enabled => NoneBetween(r.row.schedule, r.row.updated, r.row.next)
      /\ Behind(r.task, r.row.next)
  BY <1>2 DEF IInv, SavesFresh
<1>5. CASE UNCHANGED task
  BY <1>1, <1>5, SameRowsForward DEF RowsAhead, Behind, OccurrencesAccounted
<1>6. CASE task[r.task].rev = r.expected /\ task' = [task EXCEPT ![r.task] = r.row]
  <2>1. /\ task' \in [Tasks -> TaskRow] /\ task'[r.task] = r.row
        /\ \A t \in Tasks \ {r.task} : task'[t] = task[t]
    BY <1>1, <1>3, <1>6 DEF TypeOK
  <2>2. RowsForward
    <3>1. ASSUME NEW t \in Tasks
          PROVE  /\ task[t].rev <= task'[t].rev
                 /\ task[t].rev = task'[t].rev => task[t].schedule = task'[t].schedule
      <4>1. task[t].rev \in Nat
        BY <1>1 DEF TypeOK, TaskRow
      <4>2. CASE t = r.task
        BY <1>3, <1>4, <1>6, <2>1, <4>1, <4>2
      <4>3. CASE t # r.task
        BY <2>1, <4>1, <4>3
      <4> QED
        BY <4>2, <4>3
    <3> QED
      BY <3>1 DEF RowsForward
  <2>3. RowsAhead'
    BY <1>1, <1>4, <2>1 DEF RowsAhead, Behind
  <2>4. OccurrencesAccounted'
    <3>1. ASSUME NEW o \in r.row.schedule.times,
                 r.row.enabled, r.row.updated < o, o < r.row.next
          PROVE  FALSE
      <4>1. r.row.next <= o
        BY <1>4, <3>1 DEF NoneBetween
      <4>2. o \in Nat /\ r.row.next \in Nat \cup {Never}
        BY <1>3, ScheduleTimes DEF TaskRow
      <4> QED
        BY <3>1, <4>1, <4>2 DEF Never
    <3>2. ASSUME NEW t \in Tasks, NEW o \in task'[t].schedule.times,
                 task'[t].enabled, task'[t].updated < o, o < task'[t].next
          PROVE  \E a \in runs : a.task = t /\ a.from <= o /\ o <= a.at
      <4>1. CASE t = r.task
        BY <2>1, <3>1, <3>2, <4>1
      <4>2. CASE t # r.task
        BY <1>1, <2>1, <3>2, <4>2 DEF OccurrencesAccounted
      <4> QED
        BY <4>1, <4>2
    <3> QED
      BY <1>1, <3>2 DEF OccurrencesAccounted
  <2> QED
    BY <2>1, <2>2, <2>3, <2>4
<1> QED
  BY <1>2, <1>5, <1>6 DEF SaveTask

\* materializeScheduledRun: a run that is stored is for a time no run was for, and
\* the next time of the task is ahead of it.
LEMMA StoreStep ==
  ASSUME IInv, NEW r \in Request, NEW status \in {"queued", "busy", "missed", "failed"},
         Stores(r, status), r = requests[1], 1 \in DOMAIN requests, UNCHANGED clock
  PROVE  /\ task' \in [Tasks -> TaskRow] /\ RowsForward
         /\ RunsPassed' /\ RowsAhead' /\ OneRunPerOccurrence' /\ OccurrencesAccounted'
         /\ \E a \in RunRow : /\ runs' = runs \cup {a} /\ a.task = r.run.task
                              /\ a.for = r.run.for
<1>1. /\ TypeOK /\ RunsPassed /\ RowsAhead /\ OneRunPerOccurrence /\ OccurrencesAccounted
      /\ runs \subseteq RunRow
  BY DEF IInv, TypeOK
<1>2. /\ r.op = "materialize" /\ r.run.task \in Tasks /\ r.run \in RunRow
      /\ r.next \in Nat \cup {Never} /\ task[r.run.task].rev = r.run.rev
      /\ Current(task[r.run.task], r.run)
      /\ task' = [task EXCEPT ![r.run.task] =
                    [task[r.run.task] EXCEPT !.next = r.next,
                       !.enabled = task[r.run.task].schedule.kind # "once"]]
  BY DEF Stores
<1> DEFINE t == r.run.task
<1>3. /\ r.run.from <= r.run.for /\ r.run.for <= r.run.at /\ r.run.at <= clock
      /\ r.next # Never => r.run.at < r.next
      /\ NoneBetween(task[t].schedule, r.run.at, r.next)
  <2>1. r.run.rev = task[t].rev
    BY <1>2
  <2> QED
    BY <1>2, <2>1 DEF IInv, DecisionsSeen
<1>4. task[t].enabled /\ task[t].next = r.run.from /\ task[t].next \in Nat
  BY <1>2 DEF Current, RunRow
<1>5. /\ task' \in [Tasks -> TaskRow]
      /\ \A u \in Tasks \ {t} : task'[u] = task[u]
      /\ task'[t].next = r.next /\ task'[t].rev = task[t].rev
      /\ task'[t].schedule = task[t].schedule /\ task'[t].updated = task[t].updated
  BY <1>1, StoredFields
<1>6. PICK a \in RunRow : /\ runs' = runs \cup {a} /\ a.task = t
                         /\ a.from = r.run.from /\ a.for = r.run.for /\ a.at = r.run.at
  BY <1>1, StoredFields
<1>7. /\ a.from \in Nat /\ a.for \in Nat /\ a.at \in Nat
      /\ a.from <= a.for /\ a.for <= a.at /\ a.at <= clock
      /\ \A b \in runs : b.for \in Nat /\ b.from \in Nat /\ b.at \in Nat
  BY <1>1, <1>3, <1>6 DEF RunRow
<1>8. \A b \in runs : b.task = t => b.for < a.from
  BY <1>1, <1>2, <1>4, <1>6 DEF RowsAhead, Behind, Never
<1>9. RowsForward
  BY <1>1, <1>5 DEF RowsForward, TypeOK, TaskRow
<1>10. RunsPassed'
  BY <1>1, <1>6, <1>7 DEF RunsPassed
<1>11. RowsAhead'
  <2>1. ASSUME r.next # Never, NEW b \in runs', b.task = t PROVE b.for < r.next
    <3>1. r.next \in Nat /\ a.at < r.next
      BY <1>2, <1>3, <1>6, <2>1
    <3>2. b.for <= a.for /\ b.for \in Nat
      BY <1>6, <1>7, <1>8, <2>1
    <3> QED
      BY <1>7, <3>1, <3>2
  <2>2. ASSUME NEW u \in Tasks \ {t}, task'[u].next # Never, NEW b \in runs', b.task = u
        PROVE  b.for < task'[u].next
    BY <1>1, <1>5, <1>6, <2>2 DEF RowsAhead, Behind
  <2> QED
    BY <1>5, <2>1, <2>2 DEF RowsAhead, Behind
<1>12. OneRunPerOccurrence'
  <2>1. \A b \in runs : ~(b.task = a.task /\ b.for = a.for)
    BY <1>6, <1>7, <1>8
  <2> QED
    BY <1>1, <1>6, <2>1 DEF OneRunPerOccurrence
<1>13. OccurrencesAccounted'
  <2>1. ASSUME NEW o \in task[t].schedule.times, task[t].updated < o, o < r.next
        PROVE  \E b \in runs' : b.task = t /\ b.from <= o /\ o <= b.at
    <3>1. o \in Nat
      BY <1>1, <1>2, ScheduleTimes DEF TypeOK, TaskRow
    <3>2. CASE o < a.from
      BY <1>1, <1>2, <1>4, <1>6, <2>1, <3>2 DEF OccurrencesAccounted
    <3>3. CASE ~(o < a.from)
      <4>1. o <= a.at
        <5>1. SUFFICES ASSUME a.at < o PROVE FALSE
          BY <1>7, <3>1
        <5>2. r.next <= o
          BY <1>3, <1>6, <5>1 DEF NoneBetween
        <5> QED
          BY <1>2, <2>1, <3>1, <5>2 DEF Never
      <4> QED
        BY <1>6, <1>7, <3>1, <3>3, <4>1
    <3> QED
      BY <3>2, <3>3
  <2>2. ASSUME NEW u \in Tasks \ {t}, NEW o \in task[u].schedule.times,
               task[u].enabled, task[u].updated < o, o < task[u].next
        PROVE  \E b \in runs' : b.task = u /\ b.from <= o /\ o <= b.at
    BY <1>1, <1>6, <2>2 DEF OccurrencesAccounted
  <2> QED
    BY <1>5, <2>1, <2>2 DEF OccurrencesAccounted
<1> QED
  BY <1>5, <1>6, <1>9, <1>10, <1>11, <1>12, <1>13

(***************************************************************************)
(* The invariant.                                                          *)
(***************************************************************************)
LEMMA PostingStep ==
  ASSUME IInv, NEW r \in Request, Post(r), UNCHANGED <<clock, task, runs>>,
         r.op = "save" => Prepared(r, r.task, clock),
         r.op = "materialize" => GoodDecision(r),
         PassSeen', TypeOK', requests' \in Seq(Request)
  PROVE  IInv'
<1>1. SavesFresh' /\ DecisionsSeen' /\ InOrder'
  BY PostKeeps
<1>2. RunsPassed' /\ RowsAhead' /\ OneRunPerOccurrence' /\ OccurrencesAccounted'
  <2>1. clock \in Nat
    BY DEF IInv, TypeOK
  <2> QED
    BY <2>1, StoreKept
<1> QED
  BY <1>1, <1>2 DEF IInv

LEMMA StepOK == IInv /\ [Next]_vars => IInv'
<1> SUFFICES ASSUME IInv, [Next]_vars PROVE IInv'
  OBVIOUS
<1>1. TypeOK' /\ requests' \in Seq(Request)
  BY TypeStep
<1>2. TypeOK /\ requests \in Seq(Request) /\ PassSeen /\ clock \in Nat /\ clock <= clock
  BY DEF IInv, TypeOK
<1>3. ASSUME UNCHANGED <<clock, task, pass>> PROVE PassSeen'
  BY <1>2, <1>3 DEF PassSeen, Seen
<1>4. ASSUME NEW e \in Editors, NEW t \in Tasks,
             CreateTask(e, t) \/ PrepareUpdate(e, t) \/ Remove(e, t)
      PROVE  IInv'
  <2>1. PICK r \in Request : Post(r) /\ Prepared(r, t, clock)
    BY <1>2, <1>4, EditPosts
  <2>2. UNCHANGED <<clock, task, runs, pass>>
    BY <1>4 DEF CreateTask, PrepareUpdate, Remove
  <2>3. r.op = "save" /\ r.task = t
    BY <2>1 DEF Prepared
  <2> QED
    BY <1>1, <1>3, <2>1, <2>2, <2>3, PostingStep
<1>5. ASSUME NEW e \in Editors, NEW t \in Tasks, ReadTask(e, t) PROVE IInv'
  <2>1. UNCHANGED <<clock, task, runs, pass>> /\ Post([op |-> "get", by |-> e, task |-> t])
    BY <1>5 DEF ReadTask
  <2>2. [op |-> "get", by |-> e, task |-> t] \in Request
    BY GetPosted
  <2>3. [op |-> "get", by |-> e, task |-> t].op = "get"
    OBVIOUS
  <2> QED
    BY <1>1, <1>3, <2>1, <2>2, <2>3, PostingStep
<1>6. CASE Scan
  <2>1. /\ UNCHANGED <<clock, task, runs>> /\ Post([op |-> "list"])
        /\ pass' = [Idle EXCEPT !.phase = "listing", !.now = clock]
    BY <1>6 DEF Scan
  <2>2. PassSeen'
    BY <1>2, <2>1 DEF PassSeen, Idle
  <2>3. [op |-> "list"] \in Request /\ [op |-> "list"].op = "list"
    BY GetPosted
  <2> QED
    BY <1>1, <2>1, <2>2, <2>3, PostingStep
<1>7. ASSUME NEW d \in pass.due, Decide(d.task, d.row) PROVE IInv'
  <2>1. PICK r \in Request : Post(r) /\ Decision(r, d.task, d.row, pass.now)
    BY <1>2, <1>7, DecidePosts
  <2>2. UNCHANGED <<clock, task, runs>>
    BY <1>7 DEF Decide
  <2>3. GoodDecision(r)
    BY <1>2, <2>1 DEF PassSeen, Seen, Decision, GoodDecision
  <2>4. PassSeen'
    <3>1. pass'.now = pass.now /\ pass'.due \subseteq pass.due
      BY <1>2, <1>7 DEF Decide, TypeOK
    <3> QED
      BY <1>2, <2>2, <3>1, SameRowsForward, SeenKept
  <2>5. r.op = "materialize"
    BY <2>1 DEF Decision
  <2> QED
    BY <1>1, <2>1, <2>2, <2>3, <2>4, <2>5, PostingStep
<1>8. ASSUME NEW op, Take(op), RowsForward, task' \in [Tasks -> TaskRow], UNCHANGED clock,
             RunsPassed', PassSeen', SavesFresh', RowsAhead', OneRunPerOccurrence',
             OccurrencesAccounted'
      PROVE  IInv'
  <2>1. InOrder' /\ DecisionsSeen'
    BY <1>8, TakeKeeps
  <2> QED
    BY <1>1, <1>8, <2>1 DEF IInv
<1>9. CASE GetTask
  <2>1. Take("get") /\ UNCHANGED <<clock, task, runs, pass>>
    BY <1>9 DEF GetTask
  <2>2. RowsForward /\ task' \in [Tasks -> TaskRow]
    BY <1>2, <2>1, SameRowsForward
  <2>3. RunsPassed' /\ RowsAhead' /\ OneRunPerOccurrence' /\ OccurrencesAccounted'
    BY <1>2, <2>1, StoreKept
  <2>4. SavesFresh'
    BY <2>1, TakeKeeps
  <2> QED
    BY <1>3, <1>8, <2>1, <2>2, <2>3, <2>4
<1>10. CASE SaveTask
  <2>1. Take("save") /\ UNCHANGED <<clock, runs, pass>>
    BY <1>10 DEF SaveTask
  <2>2. RowsForward /\ task' \in [Tasks -> TaskRow] /\ RowsAhead' /\ OccurrencesAccounted'
    BY <1>10, SaveStep
  <2>3. RunsPassed' /\ OneRunPerOccurrence'
    BY <2>1 DEF IInv, RunsPassed, OneRunPerOccurrence
  <2>4. SavesFresh'
    BY <2>1, TakeKeeps
  <2>5. PassSeen'
    BY <1>2, <2>1, <2>2, SeenKept
  <2> QED
    BY <1>8, <2>1, <2>2, <2>3, <2>4, <2>5
<1>11. CASE ListDueTasks
  <2>1. Take("list") /\ UNCHANGED <<clock, task, runs>>
    BY <1>11 DEF ListDueTasks
  <2>2. RowsForward /\ task' \in [Tasks -> TaskRow]
    BY <1>2, <2>1, SameRowsForward
  <2>3. RunsPassed' /\ RowsAhead' /\ OneRunPerOccurrence' /\ OccurrencesAccounted'
    BY <1>2, <2>1, StoreKept
  <2>4. SavesFresh'
    BY <2>1, TakeKeeps
  <2>5. PassSeen'
    <3>1. /\ pass'.now = pass.now
          /\ pass'.due = {[task |-> t, row |-> task[t]] :
                            t \in {u \in Tasks : Due(task[u], pass.now)}}
      BY <1>2, <1>11 DEF ListDueTasks, TypeOK
    <3>2. \A t \in Tasks : task[t].rev <= task[t].rev
      BY <1>2 DEF TypeOK, TaskRow
    <3> QED
      BY <1>2, <2>1, <3>1, <3>2 DEF PassSeen, Seen, Due
  <2> QED
    BY <1>8, <2>1, <2>2, <2>3, <2>4, <2>5
<1>12. CASE MaterializeScheduledRun
  <2>1. /\ Take("materialize") /\ UNCHANGED clock
        /\ pass' = Idle \/ pass' = [pass EXCEPT !.phase = "deciding"]
    BY <1>2, <1>12, MaterializeEffect
  <2>2. ASSUME task' \in [Tasks -> TaskRow], RowsForward PROVE PassSeen'
    <3>1. CASE pass' = Idle
      BY <1>2, <2>1, <3>1 DEF PassSeen, Idle
    <3>2. CASE pass' = [pass EXCEPT !.phase = "deciding"]
      <4>1. pass'.now = pass.now /\ pass'.due \subseteq pass.due
        BY <1>2, <3>2 DEF TypeOK
      <4> QED
        BY <1>2, <2>1, <2>2, <4>1, SeenKept
    <3> QED
      BY <2>1, <3>1, <3>2
  <2>3. CASE UNCHANGED <<task, runs>>
    <3>1. RowsForward /\ task' \in [Tasks -> TaskRow]
      BY <1>2, <2>3, SameRowsForward
    <3>2. RunsPassed' /\ RowsAhead' /\ OneRunPerOccurrence' /\ OccurrencesAccounted'
      BY <1>2, <2>1, <2>3, StoreKept
    <3>3. SavesFresh'
      BY <2>1, <2>3, TakeKeeps
    <3> QED
      BY <1>8, <2>1, <2>2, <3>1, <3>2, <3>3
  <2>4. ASSUME NEW r \in Request, NEW status \in {"queued", "busy", "missed", "failed"},
               Stores(r, status)
        PROVE  IInv'
    <3>1. r = requests[1] /\ 1 \in DOMAIN requests /\ r.op = "materialize"
      BY <1>2, <2>1, <2>4, Taken DEF Stores
    <3>2. /\ task' \in [Tasks -> TaskRow] /\ RowsForward
          /\ RunsPassed' /\ RowsAhead' /\ OneRunPerOccurrence' /\ OccurrencesAccounted'
      BY <2>1, <2>4, <3>1, StoreStep
    <3>3. PICK a \in RunRow : /\ runs' = runs \cup {a} /\ a.task = r.run.task
                             /\ a.for = r.run.for
      BY <2>1, <2>4, <3>1, StoreStep
    <3>4. SavesFresh'
      <4>1. ASSUME NEW i \in DOMAIN requests', requests'[i].op = "save"
            PROVE  /\ requests'[i].row.rev = requests'[i].expected + 1
                   /\ requests'[i].row.enabled
                        => NoneBetween(requests'[i].row.schedule, requests'[i].row.updated,
                                       requests'[i].row.next)
                   /\ requests'[i].row.next # Never
                        => \A b \in runs' : b.task = requests'[i].task
                                             => b.for < requests'[i].row.next
        <5>1. i + 1 \in DOMAIN requests /\ 1 < i + 1 /\ requests'[i] = requests[i + 1]
          BY <1>2, <2>1, Taken
        <5>2. /\ requests'[i].row.rev = requests'[i].expected + 1
              /\ requests'[i].row.enabled
                   => NoneBetween(requests'[i].row.schedule, requests'[i].row.updated,
                                  requests'[i].row.next)
              /\ Behind(requests'[i].task, requests'[i].row.next)
          BY <4>1, <5>1 DEF IInv, SavesFresh
        <5>3. ASSUME a.task = requests'[i].task, requests'[i].row.next # Never
              PROVE  a.for < requests'[i].row.next
          BY <3>1, <3>3, <4>1, <5>1, <5>3 DEF IInv, InOrder
        <5> QED
          BY <3>3, <5>2, <5>3 DEF Behind
      <4> QED
        BY <4>1 DEF SavesFresh, Behind, NoneBetween
    <3> QED
      BY <1>8, <2>1, <2>2, <3>2, <3>4
  <2> QED
    BY <1>2, <1>12, <2>3, <2>4, MaterializeEffect
<1>13. CASE Crash
  <2>1. UNCHANGED <<clock, task, runs>> /\ requests' = <<>> /\ pass' = Idle
    BY <1>13 DEF Crash
  <2>2. PassSeen'
    BY <1>2, <2>1 DEF PassSeen, Idle
  <2>3. SavesFresh' /\ DecisionsSeen' /\ InOrder'
    BY <2>1 DEF SavesFresh, DecisionsSeen, InOrder
  <2>4. RunsPassed' /\ RowsAhead' /\ OneRunPerOccurrence' /\ OccurrencesAccounted'
    BY <1>2, <2>1, StoreKept
  <2> QED
    BY <1>1, <2>2, <2>3, <2>4 DEF IInv
<1>14. CASE Tick
  <2>1. clock' = clock + 1 /\ UNCHANGED <<task, runs, requests, pass>>
    BY <1>14 DEF Tick
  <2>2. clock' \in Nat /\ clock <= clock'
    BY <1>2, <2>1
  <2>3. PassSeen'
    BY <1>2, <2>1, <2>2, SameRowsForward, SeenKept
  <2>4. RunsPassed' /\ RowsAhead' /\ OneRunPerOccurrence' /\ OccurrencesAccounted'
    BY <2>1, <2>2, StoreKept
  <2>5. SavesFresh' /\ InOrder'
    BY <2>1 DEF IInv, SavesFresh, InOrder, Behind, NoneBetween
  <2>6. DecisionsSeen'
    <3>1. ASSUME NEW i \in DOMAIN requests, requests[i].op = "materialize"
          PROVE  GoodDecision(requests[i]) /\ requests[i].run.at <= clock'
      <4>1. requests[i].run.at \in Nat
        BY <1>2, <3>1, RequestKinds DEF RunRow
      <4>2. GoodDecision(requests[i])
        BY <3>1 DEF IInv, DecisionsSeen, GoodDecision
      <4> QED
        BY <1>2, <2>2, <4>1, <4>2 DEF GoodDecision
    <3> QED
      BY <2>1, <3>1 DEF DecisionsSeen, GoodDecision, NoneBetween
  <2> QED
    BY <1>1, <2>3, <2>4, <2>5, <2>6 DEF IInv
<1>15. ASSUME UNCHANGED <<clock, task, runs, requests, pass>> \/ PassOver PROVE IInv'
  <2>1. UNCHANGED <<clock, task, runs, requests>> /\ (pass' = pass \/ pass' = Idle)
    BY <1>15 DEF PassOver
  <2>2. PassSeen'
    BY <1>2, <1>3, <2>1 DEF PassSeen, Idle
  <2>3. SavesFresh' /\ DecisionsSeen' /\ InOrder'
    BY <2>1 DEF IInv, SavesFresh, DecisionsSeen, InOrder, Behind, NoneBetween
  <2>4. RunsPassed' /\ RowsAhead' /\ OneRunPerOccurrence' /\ OccurrencesAccounted'
    BY <1>2, <2>1, StoreKept
  <2> QED
    BY <1>1, <2>2, <2>3, <2>4 DEF IInv
<1>16. (\E e \in Editors : RefuseEdit(e)) \/ (\E t \in Tasks : OtherRun(t))
         \/ UNCHANGED vars => UNCHANGED <<clock, task, runs, requests, pass>>
  BY DEF RefuseEdit, OtherRun, vars
<1> QED
  BY <1>4, <1>5, <1>6, <1>7, <1>9, <1>10, <1>11, <1>12, <1>13, <1>14, <1>15, <1>16
  DEF Next, Worker, Pass

\* The order and the freshness of the requests of the worker, on which the
\* uniqueness of runs and the accounting of occurrences rest, hold throughout.
THEOREM DispatchSafety == Spec => []IInv
BY InitOK, StepOK, PTL DEF Spec

\* The rows, the runs and the requests keep their types.
THEOREM DispatchTypes == Spec => []TypeOK
<1>1. IInv => TypeOK
  BY DEF IInv
<1> QED
  BY <1>1, DispatchSafety, PTL

\* A scheduled time of a task makes at most one run, whatever the order in which
\* edits, passes, crashes and the worker interleave.
THEOREM OneRunEach == Spec => []OneRunPerOccurrence
<1>1. IInv => OneRunPerOccurrence
  BY DEF IInv
<1> QED
  BY <1>1, DispatchSafety, PTL

\* No scheduled time of an enabled task passes without a run that was decided
\* for it, or for a later one in its place.
THEOREM AllAccounted == Spec => []OccurrencesAccounted
<1>1. IInv => OccurrencesAccounted
  BY DEF IInv
<1> QED
  BY <1>1, DispatchSafety, PTL

(***************************************************************************)
(* Dates and minutes.                                                      *)
(***************************************************************************)
LEMMA TimesMono ==
  ASSUME NEW D \in Nat, NEW a \in Int, NEW b \in Int, a <= b
  PROVE  a * D <= b * D
<1>1. (b - a) * D >= 0
  BY Z3
<1>2. (b - a) * D = b * D - a * D
  BY Z3
<1> QED
  BY <1>1, <1>2, Z3

LEMMA TimesPlus ==
  ASSUME NEW D \in Nat, NEW a \in Int, NEW b \in Int
  PROVE  (a + b) * D = a * D + b * D /\ (a - b) * D = a * D - b * D
         /\ a * D \in Int
BY Z3

LEMMA DateBounds ==
  ASSUME NEW m \in Int
  PROVE  /\ DateOf(m) \in Int /\ DateOf(m) * Day \in Int /\ m % Day \in 0 .. Day - 1
         /\ m = DateOf(m) * Day + (m % Day)
BY CalendarAssumption, Z3 DEF DateOf

LEMMA DateWithin ==
  ASSUME NEW m \in Int
  PROVE  /\ DateOf(m) \in Int /\ DateOf(m) * Day \in Int
         /\ DateOf(m) * Day <= m /\ m < DateOf(m) * Day + Day
<1>1. Day \in Nat /\ Day > 0
  BY CalendarAssumption
<1> QED
  BY <1>1, Z3 DEF DateOf

LEMMA DateUnique ==
  ASSUME NEW m \in Int, NEW d \in Int, NEW t \in 0 .. Day - 1, m = d * Day + t
  PROVE  DateOf(m) = d /\ m % Day = t
<1>1. Day \in Nat /\ Day > 0
  BY CalendarAssumption
<1>2. /\ DateOf(m) \in Int /\ DateOf(m) * Day \in Int /\ m % Day \in 0 .. Day - 1
      /\ m = DateOf(m) * Day + (m % Day)
  BY DateBounds
<1>3. ASSUME NEW a \in Int, NEW b \in Int, NEW x \in 0 .. Day - 1, NEW y \in 0 .. Day - 1,
             a * Day + x = b * Day + y
      PROVE  ~(a < b)
  <2>1. SUFFICES ASSUME a < b PROVE FALSE
    OBVIOUS
  <2>2. (a + 1) * Day <= b * Day /\ (a + 1) * Day = a * Day + 1 * Day
        /\ a * Day \in Int /\ b * Day \in Int
    BY <1>1, <2>1, TimesMono, TimesPlus
  <2> QED
    BY <1>1, <1>3, <2>2
<1>4. DateOf(m) = d
  <2>1. ~(DateOf(m) < d) /\ ~(d < DateOf(m))
    BY <1>2, <1>3
  <2> QED
    BY <1>2, <2>1
<1> QED
  BY <1>1, <1>2, <1>4

LEMMA DateMono ==
  ASSUME NEW a \in Int, NEW b \in Int, a <= b
  PROVE  DateOf(a) <= DateOf(b)
<1>1. Day \in Nat /\ Day > 0
  BY CalendarAssumption
<1>2. SUFFICES ASSUME DateOf(b) < DateOf(a) PROVE FALSE
  BY DateBounds
<1>3. /\ DateOf(a) \in Int /\ DateOf(a) * Day <= a
      /\ DateOf(b) \in Int /\ b < DateOf(b) * Day + Day
      /\ DateOf(a) * Day \in Int /\ DateOf(b) * Day \in Int
  <2>1. DateOf(a) \in Int /\ DateOf(a) * Day \in Int /\ DateOf(a) * Day <= a
    BY <1>1, DateWithin
  <2>2. DateOf(b) \in Int /\ DateOf(b) * Day \in Int /\ b < DateOf(b) * Day + Day
    BY <1>1, DateWithin
  <2> QED
    BY <2>1, <2>2
<1>4. (DateOf(b) + 1) * Day <= DateOf(a) * Day
      /\ (DateOf(b) + 1) * Day = DateOf(b) * Day + 1 * Day
  BY <1>1, <1>2, <1>3, TimesMono, TimesPlus
<1> QED
  BY <1>1, <1>3, <1>4

(***************************************************************************)
(* The zone.                                                               *)
(***************************************************************************)
LEMMA ZoneTypes ==
  ASSUME NEW z \in Zones
  PROVE  /\ z.switch \in Int /\ z.before \in Int /\ z.after \in Int
         /\ -Day <= z.before /\ z.before <= Day /\ -Day <= z.after /\ z.after <= Day
         /\ Day \in Nat /\ Day > 0
BY CalendarAssumption

\* Either offset is tried where it may apply.
LEMMA ResolveForm ==
  ASSUME NEW z \in Zones, NEW m \in Int
  PROVE  /\ m - z.before < z.switch => ResolveLocalMinute(z, m) = {m - z.before}
         /\ ~(m - z.before < z.switch) /\ m - z.after >= z.switch
              => ResolveLocalMinute(z, m) = {m - z.after}
         /\ ~(m - z.before < z.switch) /\ ~(m - z.after >= z.switch)
              => ResolveLocalMinute(z, m) = {}
<1> DEFINE match == {i \in {m - o : o \in Offsets(z, m)} : Local(z, i) = m}
<1>1. /\ z.switch \in Int /\ z.before \in Int /\ z.after \in Int
      /\ -Day <= z.before /\ z.before <= Day /\ -Day <= z.after /\ z.after <= Day
      /\ Day \in Nat /\ Day > 0
  BY ZoneTypes
<1>2. Offsets(z, m) \subseteq {z.before, z.after}
  BY DEF Offsets, Offset
<1>3. m - z.before < z.switch => z.before \in Offsets(z, m)
  <2>1. m - z.before < z.switch => Offset(z, m + (-Day)) = z.before
    BY <1>1 DEF Offset
  <2> QED
    BY <2>1 DEF Offsets
<1>4. m - z.after >= z.switch => z.after \in Offsets(z, m)
  <2>1. m - z.after >= z.switch => Offset(z, m + Day) = z.after
    BY <1>1 DEF Offset
  <2> QED
    BY <2>1 DEF Offsets
<1>5. ASSUME NEW i \in match
      PROVE  \/ i = m - z.before /\ i < z.switch
             \/ i = m - z.after /\ i >= z.switch
  <2>1. Local(z, i) = m /\ i \in Int
    BY <1>1, <1>2
  <2> QED
    BY <1>1, <2>1 DEF Local, Offset
<1>6. m - z.before < z.switch => m - z.before \in match
  BY <1>1, <1>3 DEF Local, Offset
<1>7. m - z.after >= z.switch => m - z.after \in match
  BY <1>1, <1>4 DEF Local, Offset
<1>8. ResolveLocalMinute(z, m) = Least(match)
  BY DEF ResolveLocalMinute
<1> HIDE DEF match
<1>9. CASE m - z.before < z.switch
  <2>1. \A i \in match : m - z.before <= i /\ (i <= m - z.before => i = m - z.before)
    BY <1>1, <1>5, <1>9
  <2>2. Least(match) = {m - z.before}
    BY <1>6, <1>9, <2>1 DEF Least
  <2> QED
    BY <1>8, <1>9, <2>2
<1>10. CASE ~(m - z.before < z.switch)
  <2>1. \A i \in match : i = m - z.after /\ m - z.after >= z.switch
    BY <1>1, <1>5, <1>10
  <2> QED
    BY <1>1, <1>7, <1>8, <1>10, <2>1 DEF Least
<1> QED
  BY <1>9, <1>10

LEMMA ResolveMember ==
  ASSUME NEW z \in Zones, NEW m \in Int, NEW i \in ResolveLocalMinute(z, m)
  PROVE  \/ i = m - z.before /\ i < z.switch
         \/ i = m - z.after /\ i >= z.switch /\ ~(m - z.before < z.switch)
<1>1. CASE m - z.before < z.switch
  BY <1>1, ResolveForm
<1>2. CASE ~(m - z.before < z.switch) /\ m - z.after >= z.switch
  BY <1>2, ResolveForm
<1>3. CASE ~(m - z.before < z.switch) /\ ~(m - z.after >= z.switch)
  BY <1>3, ResolveForm
<1> QED
  BY <1>1, <1>2, <1>3

\* What resolving a minute finds: the first instant that shows it.
LEMMA ResolveFirst ==
  ASSUME NEW z \in Zones, NEW m \in Int
  PROVE  /\ \A i \in ResolveLocalMinute(z, m) :
               /\ i \in Int /\ Local(z, i) = m
               /\ \A j \in Int : j < i => Local(z, j) # m
               /\ \A j \in ResolveLocalMinute(z, m) : i = j
         /\ \A i \in Int : (Local(z, i) = m /\ \A j \in i - 2 * Day .. i - 1 : Local(z, j) # m)
                           => i \in ResolveLocalMinute(z, m)
<1>1. /\ z.switch \in Int /\ z.before \in Int /\ z.after \in Int
      /\ -Day <= z.before /\ z.before <= Day /\ -Day <= z.after /\ z.after <= Day
      /\ Day \in Nat /\ Day > 0
  BY ZoneTypes
<1>2. ASSUME NEW i \in ResolveLocalMinute(z, m)
      PROVE  /\ i \in Int /\ Local(z, i) = m
             /\ \A j \in Int : j < i => Local(z, j) # m
             /\ \A j \in ResolveLocalMinute(z, m) : i = j
  BY <1>1, <1>2, ResolveForm DEF Local, Offset
<1>3. ASSUME NEW i \in Int, Local(z, i) = m,
             \A j \in i - 2 * Day .. i - 1 : Local(z, j) # m
      PROVE  i \in ResolveLocalMinute(z, m)
  <2>1. CASE i < z.switch
    BY <1>1, <1>3, <2>1, ResolveForm DEF Local, Offset
  <2>2. CASE i >= z.switch
    <3>1. i = m - z.after
      BY <1>1, <1>3, <2>2 DEF Local, Offset
    <3>2. ~(m - z.before < z.switch)
      <4>1. SUFFICES ASSUME m - z.before < z.switch PROVE FALSE
        OBVIOUS
      <4>2. m - z.before \in i - 2 * Day .. i - 1
        BY <1>1, <2>2, <3>1, <4>1
      <4> QED
        BY <1>1, <1>3, <4>1, <4>2 DEF Local, Offset
    <3> QED
      BY <1>1, <2>2, <3>1, <3>2, ResolveForm
  <2> QED
    BY <1>1, <2>1, <2>2
<1> QED
  BY <1>2, <1>3

\* Later minutes have later instants.
LEMMA ResolveMono ==
  ASSUME NEW z \in Zones, NEW m \in Int, NEW n \in Int, m < n,
         NEW i \in ResolveLocalMinute(z, m), NEW j \in ResolveLocalMinute(z, n)
  PROVE  i < j
<1>1. z.switch \in Int /\ z.before \in Int /\ z.after \in Int
  BY ZoneTypes
<1>2. \/ i = m - z.before /\ i < z.switch
      \/ i = m - z.after /\ i >= z.switch /\ ~(m - z.before < z.switch)
  BY ResolveMember
<1>3. \/ j = n - z.before /\ j < z.switch
      \/ j = n - z.after /\ j >= z.switch /\ ~(n - z.before < z.switch)
  BY ResolveMember
<1> QED
  BY <1>1, <1>2, <1>3

\* What occurs after an instant shows a later minute.
LEMMA AheadOfNow ==
  ASSUME NEW z \in Zones, NEW m \in Int, NEW i \in ResolveLocalMinute(z, m),
         NEW now \in Int, now < i
  PROVE  Local(z, now) < m
<1>1. z.switch \in Int /\ z.before \in Int /\ z.after \in Int
  BY ZoneTypes
<1>2. \/ i = m - z.before /\ i < z.switch
      \/ i = m - z.after /\ i >= z.switch /\ ~(m - z.before < z.switch)
  BY ResolveMember
<1> QED
  BY <1>1, <1>2 DEF Local, Offset

(***************************************************************************)
(* The dates.                                                              *)
(***************************************************************************)
LEMMA RuleTypes ==
  ASSUME NEW r \in Rules
  PROVE  r.time \in 0 .. Day - 1 /\ r.time \in Int
BY CalendarAssumption

LEMMA LocalType ==
  ASSUME NEW z \in Zones, NEW i \in Int
  PROVE  /\ Local(z, i) \in Int /\ DateOf(Local(z, i)) \in Int
         /\ i - Day <= Local(z, i) /\ Local(z, i) <= i + Day
<1>1. /\ z.switch \in Int /\ z.before \in Int /\ z.after \in Int
      /\ -Day <= z.before /\ z.before <= Day /\ -Day <= z.after /\ z.after <= Day
      /\ Day \in Nat
  BY ZoneTypes
<1>2. Local(z, i) \in Int /\ i - Day <= Local(z, i) /\ Local(z, i) <= i + Day
  BY <1>1 DEF Local, Offset
<1> QED
  BY <1>2, DateWithin

LEMMA OccursOnDate ==
  ASSUME NEW z \in Zones, NEW r \in Rules, NEW i \in Int, Occurs(z, r, i)
  PROVE  i \in OnDate(z, r, DateOf(Local(z, i))) /\ Eligible(r, DateOf(Local(z, i)))
<1>1. Local(z, i) \in Int
  BY LocalType
<1>2. Local(z, i) = DateOf(Local(z, i)) * Day + r.time
  BY <1>1, DateBounds DEF Occurs
<1>3. i \in ResolveLocalMinute(z, Local(z, i))
  BY <1>1, ResolveFirst DEF Occurs
<1> QED
  BY <1>2, <1>3 DEF Occurs, OnDate

LEMMA OnDateOccurs ==
  ASSUME NEW z \in Zones, NEW r \in Rules, NEW date \in Int, Eligible(r, date),
         NEW i \in OnDate(z, r, date)
  PROVE  i \in Int /\ Occurs(z, r, i) /\ DateOf(Local(z, i)) = date
<1> DEFINE m == date * Day + r.time
<1>1. r.time \in 0 .. Day - 1 /\ m \in Int /\ Day \in Nat
  BY RuleTypes, CalendarAssumption, TimesPlus
<1>2. DateOf(m) = date /\ m % Day = r.time
  BY <1>1, DateUnique
<1>3. i \in ResolveLocalMinute(z, m)
  BY DEF OnDate
<1> HIDE DEF m
<1>4. i \in Int /\ Local(z, i) = m /\ \A j \in Int : j < i => Local(z, j) # m
  BY <1>1, <1>3, ResolveFirst
<1>5. \A j \in i - 2 * Day .. i - 1 : Local(z, j) # m
  BY <1>1, <1>4
<1> QED
  BY <1>2, <1>4, <1>5 DEF Occurs

LEMMA OnDateMono ==
  ASSUME NEW z \in Zones, NEW r \in Rules, NEW d \in Int, NEW e \in Int, d < e,
         NEW i \in OnDate(z, r, d), NEW j \in OnDate(z, r, e)
  PROVE  i < j
<1>1. r.time \in 0 .. Day - 1 /\ Day \in Nat /\ Day > 0 /\ r.time \in Int
  BY RuleTypes, CalendarAssumption
<1>2. /\ (d + 1) * Day <= e * Day /\ (d + 1) * Day = d * Day + 1 * Day
      /\ d * Day \in Int /\ e * Day \in Int
  BY <1>1, TimesMono, TimesPlus
<1>3. d * Day + r.time < e * Day + r.time
  BY <1>1, <1>2
<1> QED
  BY <1>1, <1>2, <1>3, ResolveMono DEF OnDate

LEMMA OnDateOne ==
  ASSUME NEW z \in Zones, NEW r \in Rules, NEW d \in Int,
         NEW i \in OnDate(z, r, d), NEW j \in OnDate(z, r, d)
  PROVE  i = j
<1>1. d * Day + r.time \in Int
  BY RuleTypes, CalendarAssumption, TimesPlus
<1> QED
  BY <1>1, ResolveFirst DEF OnDate

\* What a search can reach is not far.
LEMMA WithinReach ==
  ASSUME NEW z \in Zones, NEW now \in Int, NEW i \in Int,
         DateOf(Local(z, i)) <= DateOf(Local(z, now)) + SearchDays,
         DateOf(Local(z, i)) >= DateOf(Local(z, now)) - SearchDays
  PROVE  i \in Reach(now)
<1>1. Day \in Nat /\ Day > 0 /\ SearchDays \in Nat
  BY CalendarAssumption
<1> DEFINE a == DateOf(Local(z, i))  b == DateOf(Local(z, now))
<1>2. /\ a \in Int /\ a * Day <= Local(z, i) /\ Local(z, i) < a * Day + Day
      /\ Local(z, i) \in Int /\ a * Day \in Int
      /\ i - Day <= Local(z, i) /\ Local(z, i) <= i + Day
  BY LocalType, DateWithin
<1>3. /\ b \in Int /\ b * Day <= Local(z, now) /\ Local(z, now) < b * Day + Day
      /\ Local(z, now) \in Int /\ b * Day \in Int
      /\ now - Day <= Local(z, now) /\ Local(z, now) <= now + Day
  BY LocalType, DateWithin
<1> HIDE DEF a, b
<1>4. a * Day <= b * Day + SearchDays * Day /\ SearchDays * Day \in Int
  <2>1. a * Day <= (b + SearchDays) * Day
    BY <1>1, <1>2, <1>3, TimesMono DEF a, b
  <2> QED
    BY <1>1, <1>3, <2>1, TimesPlus
<1>5. b * Day - SearchDays * Day <= a * Day
  <2>1. (b - SearchDays) * Day <= a * Day
    BY <1>1, <1>2, <1>3, TimesMono DEF a, b
  <2> QED
    BY <1>1, <1>3, <2>1, TimesPlus
<1>6. (SearchDays + 3) * Day = SearchDays * Day + 3 * Day
  BY <1>1, TimesPlus
<1> QED
  BY <1>1, <1>2, <1>3, <1>4, <1>5, <1>6 DEF Reach

(***************************************************************************)
(* The searches.                                                           *)
(***************************************************************************)
\* The next occurrence is the first one ahead.
THEOREM NextExact == NextIsExact
<1> SUFFICES ASSUME NEW z \in Zones, NEW r \in Rules, NEW now \in Instants
             PROVE  SearchNext(z, r, now)
                      = Least({i \in Reach(now) :
                                 /\ Occurs(z, r, i) /\ i > now
                                 /\ DateOf(Local(z, i))
                                      <= DateOf(Local(z, now)) + SearchDays})
  BY DEF NextIsExact
<1> DEFINE today == DateOf(Local(z, now))
           on(k) == OnDate(z, r, today + k)
           found == {k \in 0 .. SearchDays :
                       Eligible(r, today + k) /\ \E i \in on(k) : i > now}
           ahead == {i \in Reach(now) :
                       /\ Occurs(z, r, i) /\ i > now
                       /\ DateOf(Local(z, i)) <= today + SearchDays}
<1>1. now \in Int /\ SearchDays \in Nat /\ today \in Int
  BY CalendarAssumption, LocalType
<1>2. \A k \in found : k \in Int /\ \E i \in on(k) : i \in ahead
  <2> SUFFICES ASSUME NEW k \in found PROVE k \in Int /\ \E i \in on(k) : i \in ahead
    OBVIOUS
  <2>1. k \in 0 .. SearchDays /\ today + k \in Int /\ Eligible(r, today + k)
    BY <1>1
  <2>2. PICK i \in on(k) : i > now
    OBVIOUS
  <2>3. i \in Int /\ Occurs(z, r, i) /\ DateOf(Local(z, i)) = today + k
    BY <2>1, OnDateOccurs
  <2>4. i \in Reach(now)
    BY <1>1, <2>1, <2>3, WithinReach
  <2> QED
    BY <1>1, <2>1, <2>2, <2>3, <2>4
<1>3. \A i \in ahead : i \in Int /\ \E k \in found : i \in on(k)
  <2> SUFFICES ASSUME NEW i \in ahead PROVE i \in Int /\ \E k \in found : i \in on(k)
    OBVIOUS
  <2>1. i \in Int /\ Occurs(z, r, i) /\ now < i /\ DateOf(Local(z, i)) <= today + SearchDays
    BY <1>1 DEF Reach
  <2> DEFINE date == DateOf(Local(z, i))
  <2>2. i \in OnDate(z, r, date) /\ Eligible(r, date) /\ date \in Int
    BY <2>1, OccursOnDate, LocalType
  <2>3. today <= date
    <3>1. i \in ResolveLocalMinute(z, Local(z, i)) /\ Local(z, i) \in Int /\ Local(z, now) \in Int
      BY <1>1, <2>1, LocalType, ResolveFirst DEF Occurs
    <3>2. Local(z, now) < Local(z, i)
      BY <1>1, <2>1, <3>1, AheadOfNow
    <3> QED
      BY <3>1, <3>2, DateMono
  <2>4. date - today \in 0 .. SearchDays /\ today + (date - today) = date
    BY <1>1, <2>1, <2>2, <2>3
  <2> QED
    BY <2>1, <2>2, <2>4
<1>4. ASSUME NEW k \in found, NEW l \in found, NEW i \in on(k), NEW j \in on(l)
      PROVE  (k < l => i < j) /\ (k = l => i = j) /\ k \in Int /\ l \in Int
  <2>1. today + k \in Int /\ today + l \in Int /\ k \in Int /\ l \in Int
    BY <1>1
  <2>2. k < l => today + k < today + l
    BY <1>1, <2>1
  <2> QED
    BY <2>1, <2>2, OnDateMono, OnDateOne
<1>5. SearchNext(z, r, now) = UNION {on(k) : k \in Least(found)}
  BY DEF SearchNext
<1> HIDE DEF on, found, ahead
<1>6. UNION {on(k) : k \in Least(found)} = Least(ahead)
  <2>1. ASSUME NEW k \in Least(found), NEW i \in on(k) PROVE i \in Least(ahead)
    <3>1. k \in found /\ \A l \in found : k <= l
      BY DEF Least
    <3>2. i \in ahead
      BY <1>2, <1>4, <3>1
    <3>3. ASSUME NEW j \in ahead PROVE i <= j
      <4>1. PICK l \in found : j \in on(l)
        BY <1>3
      <4>2. (k < l => i < j) /\ (k = l => i = j) /\ k \in Int /\ l \in Int
        BY <1>4, <3>1, <4>1
      <4> QED
        BY <1>3, <3>1, <3>2, <4>2
    <3> QED
      BY <3>2, <3>3 DEF Least
  <2>2. ASSUME NEW i \in Least(ahead) PROVE \E k \in Least(found) : i \in on(k)
    <3>1. i \in ahead /\ \A j \in ahead : i <= j
      BY DEF Least
    <3>2. PICK k \in found : i \in on(k)
      BY <1>3, <3>1
    <3>3. ASSUME NEW l \in found PROVE k <= l
      <4>1. PICK j \in on(l) : j \in ahead
        BY <1>2
      <4>2. (l < k => j < i) /\ k \in Int /\ l \in Int
        BY <1>4, <3>2, <4>1
      <4> QED
        BY <1>3, <3>1, <4>1, <4>2
    <3> QED
      BY <3>2, <3>3 DEF Least
  <2> QED
    BY <2>1, <2>2
<1> QED
  BY <1>5, <1>6 DEF ahead

\* Without a change over midnight, dates do not go back.
LEMMA DatesForward ==
  ASSUME NEW z \in Zones, KeepsDate(z), NEW i \in Int, NEW now \in Int, i <= now
  PROVE  DateOf(Local(z, i)) <= DateOf(Local(z, now))
<1>1. z.switch \in Int /\ z.before \in Int /\ z.after \in Int /\ z.switch - 1 \in Int
  BY ZoneTypes
<1>2. \A j \in Int : Local(z, j) \in Int /\ DateOf(Local(z, j)) \in Int
  BY LocalType
<1>3. CASE i < z.switch /\ z.switch <= now
  <2>1. Local(z, i) <= Local(z, z.switch - 1) /\ Local(z, z.switch) <= Local(z, now)
    BY <1>1, <1>3 DEF Local, Offset
  <2>2. /\ DateOf(Local(z, i)) <= DateOf(Local(z, z.switch - 1))
        /\ DateOf(Local(z, z.switch)) <= DateOf(Local(z, now))
    BY <1>1, <1>2, <2>1, DateMono
  <2>3. DateOf(Local(z, z.switch - 1)) <= DateOf(Local(z, z.switch))
    BY DEF KeepsDate
  <2> QED
    BY <1>1, <1>2, <2>2, <2>3
<1>4. CASE ~(i < z.switch /\ z.switch <= now)
  <2>1. Local(z, i) <= Local(z, now)
    BY <1>1, <1>4 DEF Local, Offset
  <2> QED
    BY <1>2, <2>1, DateMono
<1> QED
  BY <1>3, <1>4

\* The latest occurrence is the last one so far, where clocks are not set back
\* over midnight.
THEOREM LatestExact == LatestIsExact
<1> SUFFICES ASSUME NEW z \in Zones, NEW r \in Rules, NEW now \in Instants, KeepsDate(z)
             PROVE  SearchLatest(z, r, now)
                      = Greatest({i \in Reach(now) :
                                    /\ Occurs(z, r, i) /\ i <= now
                                    /\ DateOf(Local(z, i))
                                         >= DateOf(Local(z, now)) - SearchDays})
  BY DEF LatestIsExact
<1> DEFINE today == DateOf(Local(z, now))
           on(k) == OnDate(z, r, today - k)
           found == {k \in 0 .. SearchDays :
                       Eligible(r, today - k) /\ \E i \in on(k) : i <= now}
           past  == {i \in Reach(now) :
                       /\ Occurs(z, r, i) /\ i <= now
                       /\ DateOf(Local(z, i)) >= today - SearchDays}
<1>1. now \in Int /\ SearchDays \in Nat /\ today \in Int
  BY CalendarAssumption, LocalType
<1>2. \A k \in found : k \in Int /\ \E i \in on(k) : i \in past
  <2> SUFFICES ASSUME NEW k \in found PROVE k \in Int /\ \E i \in on(k) : i \in past
    OBVIOUS
  <2>1. k \in 0 .. SearchDays /\ today - k \in Int /\ Eligible(r, today - k)
    BY <1>1
  <2>2. PICK i \in on(k) : i <= now
    OBVIOUS
  <2>3. i \in Int /\ Occurs(z, r, i) /\ DateOf(Local(z, i)) = today - k
    BY <2>1, OnDateOccurs
  <2>4. i \in Reach(now)
    BY <1>1, <2>1, <2>3, WithinReach
  <2> QED
    BY <1>1, <2>1, <2>2, <2>3, <2>4
<1>3. \A i \in past : i \in Int /\ \E k \in found : i \in on(k)
  <2> SUFFICES ASSUME NEW i \in past PROVE i \in Int /\ \E k \in found : i \in on(k)
    OBVIOUS
  <2>1. i \in Int /\ Occurs(z, r, i) /\ i <= now /\ DateOf(Local(z, i)) >= today - SearchDays
    BY <1>1 DEF Reach
  <2> DEFINE date == DateOf(Local(z, i))
  <2>2. i \in OnDate(z, r, date) /\ Eligible(r, date) /\ date \in Int
    BY <2>1, OccursOnDate, LocalType
  <2>3. date <= today
    BY <1>1, <2>1, DatesForward
  <2>4. today - date \in 0 .. SearchDays /\ today - (today - date) = date
    BY <1>1, <2>1, <2>2, <2>3
  <2> QED
    BY <2>1, <2>2, <2>4
<1>4. ASSUME NEW k \in found, NEW l \in found, NEW i \in on(k), NEW j \in on(l)
      PROVE  (k < l => j < i) /\ (k = l => i = j) /\ k \in Int /\ l \in Int
  <2>1. today - k \in Int /\ today - l \in Int /\ k \in Int /\ l \in Int
    BY <1>1
  <2>2. k < l => today - l < today - k
    BY <1>1, <2>1
  <2> QED
    BY <2>1, <2>2, OnDateMono, OnDateOne
<1>5. SearchLatest(z, r, now) = UNION {on(k) : k \in Least(found)}
  BY DEF SearchLatest
<1> HIDE DEF on, found, past
<1>6. UNION {on(k) : k \in Least(found)} = Greatest(past)
  <2>1. ASSUME NEW k \in Least(found), NEW i \in on(k) PROVE i \in Greatest(past)
    <3>1. k \in found /\ \A l \in found : k <= l
      BY DEF Least
    <3>2. i \in past
      BY <1>2, <1>4, <3>1
    <3>3. ASSUME NEW j \in past PROVE i >= j
      <4>1. PICK l \in found : j \in on(l)
        BY <1>3
      <4>2. (k < l => j < i) /\ (k = l => i = j) /\ k \in Int /\ l \in Int
        BY <1>4, <3>1, <4>1
      <4> QED
        BY <1>3, <3>1, <3>2, <4>2
    <3> QED
      BY <3>2, <3>3 DEF Greatest
  <2>2. ASSUME NEW i \in Greatest(past) PROVE \E k \in Least(found) : i \in on(k)
    <3>1. i \in past /\ \A j \in past : i >= j
      BY DEF Greatest
    <3>2. PICK k \in found : i \in on(k)
      BY <1>3, <3>1
    <3>3. ASSUME NEW l \in found PROVE k <= l
      <4>1. PICK j \in on(l) : j \in past
        BY <1>2
      <4>2. (l < k => i < j) /\ k \in Int /\ l \in Int
        BY <1>4, <3>2, <4>1
      <4> QED
        BY <1>3, <3>1, <4>1, <4>2
    <3> QED
      BY <3>2, <3>3 DEF Least
  <2> QED
    BY <2>1, <2>2
<1> QED
  BY <1>5, <1>6 DEF past
===============================================================================
