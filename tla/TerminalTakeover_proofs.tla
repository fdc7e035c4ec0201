------------------------ MODULE TerminalTakeover_proofs ------------------------
(***************************************************************************)
(* The takeover of a thread by a terminal is an implementation of module   *)
(* ScheduledRuns: each of its steps is a step of the runs, a binding that   *)
(* is stored at some moment, or leaves the runs alone.  What is proved of   *)
(* the runs holds of the composed system.                                  *)
(***************************************************************************)
EXTENDS TerminalTakeover, ScheduledRuns_proofs

\* Whatever the operation and its resume have seen before, what they store is
\* a stop request or a binding of the run.
LEMMA AttachmentStep ==
  ASSUME NEW r \in BindableRuns, Attachment(r)
  PROVE  [Next]_vars
<1>1. r \in Runs
  BY KindAssumption
<1>2. CASE OpenTerminal(r) \/ OpenFails(r) \/ CreateSession(r) \/ ReplaceSession(r)
           \/ ResumeStarting(r) \/ BindExisting(r) \/ LaunchAgent(r) \/ AgentExit(r)
  BY <1>2
  DEF OpenTerminal, OpenFails, CreateSession, ReplaceSession, ResumeStarting,
      BindExisting, LaunchAgent, AgentExit
<1>3. CASE CheckSnapshot(r)
  <2>1. RequestRunStop(r) \/ UNCHANGED vars
    BY <1>3 DEF CheckSnapshot
  <2> QED
    BY <1>1, <2>1 DEF Next, RunStep, Request
<1>4. CASE ReuseReady(r) \/ BindStarting(r) \/ ResumeReady(r) \/ ResumeFails(r)
  <2>1. PutBinding(r)
    BY <1>4 DEF ReuseReady, BindStarting, ResumeReady, ResumeFails, StoreBinding
  <2> QED
    BY <2>1 DEF Next
<1> QED
  BY <1>2, <1>3, <1>4 DEF Attachment

LEMMA TakeoverStep == [TakeoverNext]_tvars => [Next]_vars
<1> SUFFICES ASSUME [TakeoverNext]_tvars PROVE [Next]_vars
  OBVIOUS
<1>1. CASE RunStep \/ Disposed \/ Crash
  BY <1>1 DEF Next, RunStep
<1>2. CASE \E r \in BindableRuns : Attachment(r)
  BY <1>2, AttachmentStep
<1>3. CASE UNCHANGED tvars
  BY <1>3 DEF tvars
<1> QED
  BY <1>1, <1>2, <1>3 DEF TakeoverNext

\* The composed system implements ScheduledRuns.
THEOREM TakeoverImplementsRuns == TakeoverSpec => Spec
<1>1. TakeoverInit => Init
  BY DEF TakeoverInit
<1> QED
  BY <1>1, TakeoverStep, PTL DEF TakeoverSpec, Spec

\* Taking a thread over, racing replies, stops, crashes and restarts as it may,
\* disturbs nothing of what holds of the runs: one unfinished run of a task, one
\* background writer, attempts that are closed once.
THEOREM TakeoverSafety == TakeoverSpec => []IInv
BY TakeoverImplementsRuns, RunsInvariant, PTL

LEMMA AbsentType == Absent \in Row
BY Constants DEF Absent, Row

\* A step of the operation or of its resume keeps the types of its state.
LEMMA AttachmentTypes ==
  ASSUME TakeoverTypeOK, NEW r \in BindableRuns, Attachment(r), row' \in [Runs -> Row]
  PROVE  /\ opening' \in [Runs -> {"idle", "read", "checked", "bind"}]
         /\ snapshot' \in [Runs -> Row]
         /\ binding' \in [Runs -> Bindings] /\ known' \in [Runs -> Bindings]
         /\ resuming' \in [Runs -> {"idle", "starting", "launched"}]
         /\ sessions' \in [Runs -> 0 .. MaxSessions]
         /\ terminal' \in [Runs -> BOOLEAN]
<1> USE SessionAssumption, AbsentType DEF TakeoverTypeOK
<1>1. r \in Runs
  BY KindAssumption
<1>2. CASE OpenTerminal(r)
  <2>1. row[r] \in Row
    BY <1>1 DEF TypeOK
  <2> QED
    BY <1>1, <1>2, <2>1 DEF OpenTerminal
<1>3. CASE CheckSnapshot(r)
  <2>1. PICK x \in {snapshot[r], row[r], row'[r]} : Checked(r, x)
    BY <1>3 DEF CheckSnapshot
  <2>2. x \in Row
    BY <1>1 DEF TypeOK
  <2> QED
    BY <1>1, <1>3, <2>1, <2>2 DEF CheckSnapshot, Checked
<1>4. CASE OpenFails(r) \/ BindExisting(r)
  BY <1>1, <1>4 DEF OpenFails, BindExisting
<1>5. CASE CreateSession(r) \/ ReplaceSession(r)
  BY <1>1, <1>5 DEF CreateSession, ReplaceSession
<1>6. CASE ReuseReady(r) \/ BindStarting(r) \/ ResumeReady(r) \/ ResumeFails(r)
  BY <1>1, <1>6
  DEF ReuseReady, BindStarting, ResumeReady, ResumeFails, StoreBinding, StartResume,
      Bindings
<1>7. CASE ResumeStarting(r)
  BY <1>1, <1>7 DEF ResumeStarting, StartResume
<1>8. CASE LaunchAgent(r) \/ AgentExit(r)
  BY <1>1, <1>8 DEF LaunchAgent, AgentExit
<1> QED
  BY <1>2, <1>3, <1>4, <1>5, <1>6, <1>7, <1>8 DEF Attachment

\* The takeover keeps its types, with the runs it is composed with.
THEOREM TakeoverTypes == TakeoverSpec => []TakeoverTypeOK
<1>1. TakeoverInit => TakeoverTypeOK
  BY InitType, SessionAssumption, AbsentType DEF TakeoverInit, TakeoverTypeOK, Bindings, Init
<1>2. TakeoverTypeOK /\ TypeOK' /\ [TakeoverNext]_tvars => TakeoverTypeOK'
  <2> SUFFICES ASSUME TakeoverTypeOK, TypeOK', [TakeoverNext]_tvars
               PROVE  TakeoverTypeOK'
    OBVIOUS
  <2>1. CASE UNCHANGED tvars
    BY <2>1 DEF tvars, takeover, TakeoverTypeOK
  <2>2. CASE TakeoverNext
    <3>1. raced' \subseteq Runs
      BY <2>2 DEF TakeoverNext, TakeoverTypeOK
    <3>2. CASE UNCHANGED takeover
      BY <3>1, <3>2 DEF takeover, TakeoverTypeOK
    <3>3. CASE Forget
      BY <3>1, <3>3, AbsentType DEF Forget, TakeoverTypeOK, Bindings
    <3>4. CASE \E r \in BindableRuns : Attachment(r)
      BY <3>1, <3>4, AttachmentTypes DEF TakeoverTypeOK, TypeOK
    <3> QED
      BY <2>2, <3>2, <3>3, <3>4 DEF TakeoverNext
  <2> QED
    BY <2>1, <2>2
<1>3. TakeoverSpec => []TypeOK
  BY TakeoverImplementsRuns, TypeCorrect, PTL
<1> QED
  BY <1>1, <1>2, <1>3, PTL DEF TakeoverSpec
-----------------------------------------------------------------------------
(* How a step of the runtime changes what a takeover looks at: the thread  *)
(* and the binding of a row are kept, and a run that has ended is queued   *)
(* again by a reply only.                                                  *)

\* The row of a run that does not exist yet is empty, and a continuation
\* belongs to a run that may be claimed.
Founded(x) ==
  /\ x.status = "absent" => ~x.thread /\ ~x.bound
  /\ Stoppable(x) /\ x.thread => x.cont

Carried(x, y) == (x.thread => y.thread) /\ y.bound = x.bound

Onward(x, y) ==
  /\ Carried(x, y) /\ Founded(y)
  /\ x.status \in Finished => y.status \in Finished
  /\ y.status = "running" => x.status = "running"

LEMMA StoredOnward ==
  ASSUME NEW x, NEW y \in Row, Onward(x, y)
  PROVE  Onward(x, Stored(y))
<1> DEFINE z == Stored(y)
<1>1. /\ z.status = y.status /\ z.nextAt = y.nextAt /\ z.thread = y.thread
      /\ z.cont = y.cont /\ z.bound = y.bound
  BY DEF Stored, Row
<1> HIDE DEF z
<1>2. Onward(x, z)
  BY <1>1 DEF Onward, Founded, Carried, Stoppable
<1> QED
  BY <1>2 DEF z

LEMMA AdvancedCarries ==
  ASSUME NEW x \in Row
  PROVE  LET y == Advanced(x) IN
         y.thread = x.thread /\ y.cont = x.cont /\ y.bound = x.bound
<1> DEFINE f == [x EXCEPT !.status = "failed", !.nextAt = Never, !.resultRev = @ + 1]
           q == [x EXCEPT !.status = "queued"]
<1>1. Advanced(x) \in {x, Stored(f), Stored(q)}
  BY DEF Advanced
<1>2. /\ f \in Row /\ q \in Row
      /\ f.thread = x.thread /\ f.cont = x.cont /\ f.bound = x.bound
      /\ q.thread = x.thread /\ q.cont = x.cont /\ q.bound = x.bound
  <2>1. x.resultRev + 1 \in Nat
    BY DEF Row
  <2> QED
    BY <2>1, Constants DEF Row, Finished, Unfinished
<1>3. ASSUME NEW z \in Row
      PROVE  Stored(z).thread = z.thread /\ Stored(z).cont = z.cont
             /\ Stored(z).bound = z.bound
  BY DEF Stored, Row
<1> HIDE DEF f, q
<1> QED
  BY <1>1, <1>2, <1>3

\* A reply queues a run that has ended and is not bound; a claim takes one that
\* is queued or due, and neither bound nor without a thread to continue.
LEMMA RowOnward ==
  ASSUME Consistent, TypeOK', NEW r \in Runs, RunRowStep(r), Founded(row[r])
  PROVE  \/ Onward(row[r], row'[r])
         \/ /\ replies'[r] = replies[r] + 1 /\ ~row[r].bound
            /\ Carried(row[r], row'[r]) /\ Founded(row'[r])
            /\ row'[r].status = "queued"
         \/ /\ Stoppable(row[r]) /\ ~(row[r].thread /\ row[r].bound)
            /\ Carried(row[r], row'[r]) /\ Founded(row'[r])
            /\ row'[r].status = "running"
<1> DEFINE x == row[r]
           y == row'[r]
<1>1. TypeOK /\ x \in Row /\ y \in Row /\ clock \in Nat
  BY DEF Consistent, TypeOK
<1>2. ASSUME NEW z \in Row, Onward(x, z)
      PROVE  Onward(x, Stored(z))
  BY <1>2, StoredOnward
<1>3. CASE y = x
  BY <1>3 DEF Onward, Carried
<1>4. CASE RowCreated(r)
  <2>1. PICK status \in {"queued", "skipped", "failed"} : y = Stored(NewRow(r, status))
    BY <1>4 DEF RowCreated
  <2> DEFINE z == NewRow(r, status)
  <2>2. z \in Row /\ z.status = status /\ z.thread = FALSE /\ z.bound = FALSE
    BY NewRowType DEF Statuses, Unfinished, Finished, NewRow, Absent
  <2>3. x.status = "absent"
    BY <1>4 DEF RowCreated
  <2> HIDE DEF z
  <2>4. Onward(x, z)
    <3>1. ~x.thread /\ ~x.bound
      BY <2>3 DEF Founded
    <3>2. x.bound \in BOOLEAN
      BY <1>1 DEF Row
    <3> QED
      BY <2>2, <2>3, <3>1, <3>2 DEF Onward, Founded, Carried, Stoppable, Finished
  <2> QED
    BY <1>2, <2>1, <2>2, <2>4 DEF z
<1>5. CASE RowArchived(r)
  <2> DEFINE z == [x EXCEPT !.archived = TRUE]
  <2>1. /\ z \in Row /\ z.status = x.status /\ z.thread = x.thread /\ z.cont = x.cont
        /\ z.bound = x.bound /\ z.nextAt = x.nextAt /\ y = Stored(z)
    BY <1>1, <1>5 DEF RowArchived, Row
  <2> HIDE DEF z
  <2>2. Onward(x, z)
    BY <2>1 DEF Onward, Founded, Carried, Stoppable
  <2> QED
    BY <1>2, <2>1, <2>2
<1>6. CASE RowStopped(r)
  <2> DEFINE c == [x EXCEPT !.status = "cancelled", !.nextAt = Never]
             s == [x EXCEPT !.status = "stopping"]
  <2>1. x.status \notin Finished /\ y \in {Stored(c), Stored(s)}
    BY <1>6 DEF RowStopped, Stoppable, Finished
  <2>2. /\ c \in Row /\ c.status = "cancelled"
        /\ c.thread = x.thread /\ c.cont = x.cont /\ c.bound = x.bound
    BY <1>1, Constants DEF Row, Finished
  <2>3. /\ s \in Row /\ s.status = "stopping"
        /\ s.thread = x.thread /\ s.cont = x.cont /\ s.bound = x.bound
    BY <1>1, Constants DEF Row, Unfinished
  <2> HIDE DEF c, s
  <2>4. Onward(x, c) /\ Onward(x, s)
    BY <2>1, <2>2, <2>3 DEF Onward, Founded, Carried, Stoppable
  <2> QED
    BY <1>2, <2>1, <2>2, <2>3, <2>4
<1>7. CASE RowContinued(r)
  <2> DEFINE z == [x EXCEPT !.nextAt = clock]
  <2>1. /\ z \in Row /\ z.status = "waiting" /\ y = Stored(z)
        /\ z.thread = x.thread /\ z.cont = x.cont /\ z.bound = x.bound
        /\ x.status = "waiting" /\ x.nextAt # Never
    BY <1>1, <1>7 DEF RowContinued, Row, Time
  <2> HIDE DEF z
  <2>2. Onward(x, z)
    BY <2>1 DEF Onward, Founded, Carried, Stoppable, Finished
  <2> QED
    BY <1>2, <2>1, <2>2
<1>8. CASE RowRecovered(r)
  <2> DEFINE i == Interrupted(x)
             w == [x EXCEPT !.status = "waiting"]
  <2>1. /\ x.status \notin Finished /\ y \in {Stored(i), Stored(w)}
        /\ x.status = "waiting" \/ x.nextAt = Never
    BY <1>8, ConsistentRun DEF RowRecovered, Finished, RunOK, NoNextTime
  <2>2. /\ i \in Row /\ i.status = "failed"
        /\ i.thread = x.thread /\ i.cont = x.cont /\ i.bound = x.bound
    <3>1. x.resultRev + 1 \in Nat
      BY <1>1 DEF Row
    <3> QED
      BY <1>1, <3>1, Constants DEF Interrupted, Row, Finished
  <2>3. /\ w \in Row /\ w.status = "waiting" /\ w.nextAt = x.nextAt
        /\ w.thread = x.thread /\ w.cont = x.cont /\ w.bound = x.bound
    BY <1>1, Constants DEF Row, Unfinished
  <2> HIDE DEF i, w
  <2>4. Onward(x, i) /\ Onward(x, w)
    BY <2>1, <2>2, <2>3 DEF Onward, Founded, Carried, Stoppable
  <2> QED
    BY <1>2, <2>1, <2>2, <2>3, <2>4
<1>9. CASE RowAdvanced(r)
  <2>1. y.thread = x.thread /\ y.cont = x.cont /\ y.bound = x.bound
    BY <1>1, <1>9, AdvancedCarries DEF RowAdvanced
  <2>2. \/ y = x
        \/ x.status \in Unfinished /\ y.status = "failed"
        \/ x.status = "waiting" /\ x.nextAt # Never /\ y.status = "queued"
    BY <1>1, <1>9, AdvancedIs DEF RowAdvanced
  <2> HIDE DEF y
  <2> QED
    BY <1>3, <2>1, <2>2
    DEF Onward, Founded, Carried, Stoppable, Finished, Unfinished, y
<1>10. CASE RowClaimed(r)
  <2> DEFINE a == Advanced(x)
             z == Claimed(r, a)
  <2>1. /\ a.thread = x.thread /\ a.cont = x.cont /\ a.bound = x.bound
        /\ a \in Row /\ a.status = "queued" /\ ~ThreadBusy(a) /\ y = z
    BY <1>1, <1>10, AdvancedCarries, AdvancedType DEF RowClaimed
  <2>2. Stoppable(x)
    BY <1>1, <2>1, AdvancedIs DEF Stoppable
  <2> HIDE DEF a
  <2>3. /\ z.status = "running" /\ z.thread = x.thread /\ z.cont = x.cont
        /\ z.bound = x.bound
    BY <2>1 DEF Claimed, Row
  <2> HIDE DEF z
  <2>4. ~(x.thread /\ x.bound)
    BY <2>1, <2>2 DEF ThreadBusy, Continuing, Founded
  <2>5. Carried(x, z) /\ Founded(z)
    BY <2>3 DEF Carried, Founded, Stoppable
  <2> QED
    BY <2>1, <2>2, <2>3, <2>4, <2>5
<1>11. CASE RowRegistered(r)
  <2> DEFINE z == [x EXCEPT !.pid = x.active]
  <2>1. /\ z \in Row /\ z.status = x.status /\ z.nextAt = x.nextAt /\ y = z
        /\ z.thread = x.thread /\ z.cont = x.cont /\ z.bound = x.bound
    BY <1>1, <1>11 DEF RowRegistered, Row
  <2> HIDE DEF z
  <2> QED
    BY <2>1 DEF Onward, Founded, Carried, Stoppable
<1>12. CASE RowThread(r)
  <2> DEFINE z == [x EXCEPT !.thread = TRUE]
  <2>1. /\ z \in Row /\ z.status = x.status /\ y = Stored(z)
        /\ z.thread = TRUE /\ z.cont = x.cont /\ z.bound = x.bound
        /\ x.status \in {"running", "stopping"}
    BY <1>1, <1>12 DEF RowThread, Row, Owned
  <2> HIDE DEF z
  <2>2. Onward(x, z)
    BY <2>1 DEF Onward, Founded, Carried, Stoppable, Finished
  <2> QED
    BY <1>2, <2>1, <2>2
<1>13. CASE RowFinished(r)
  <2>1. PICK res \in {"succeeded", "blocked", "failed", "error"}, rec \in Recovery,
             ms \in Nat, aborted \in BOOLEAN :
               y = Stored(FinishedRow(r, x, res, rec, ms, aborted))
    BY <1>13 DEF RowFinished
  <2> DEFINE z == FinishedRow(r, x, res, rec, ms, aborted)
  <2>2. z \in Row /\ y = Stored(z)
    BY <1>1, <2>1, FinishedRowType
  <2>3. /\ z.thread = x.thread /\ z.cont = x.cont /\ z.bound = x.bound
        /\ \/ z.status \in {"cancelled", "completed", "failed"}
           \/ z.status = "waiting" /\ Continuing(z)
    BY <1>1, FinishedRowIs
  <2>4. x.status \in {"running", "stopping"}
    BY <1>13 DEF RowFinished, Owned
  <2> HIDE DEF z
  <2>5. Onward(x, z)
    BY <2>3, <2>4 DEF Onward, Founded, Carried, Stoppable, Finished, Continuing
  <2> QED
    BY <1>2, <2>2, <2>5
<1>14. CASE RowReplied(r) /\ replies'[r] = replies[r] + 1
  <2> DEFINE z == [x EXCEPT !.status = "queued", !.recoverable = FALSE,
                            !.input = TRUE, !.cont = TRUE, !.nextAt = Never]
  <2>1. /\ z \in Row /\ z.status = "queued" /\ z.cont = TRUE /\ y = Stored(z)
        /\ z.thread = x.thread /\ z.bound = x.bound /\ ~x.bound
    BY <1>1, <1>14, Constants DEF RowReplied, Replyable, Row, Unfinished
  <2>2. Stored(z) = z
    BY <2>1 DEF Stored, Finished
  <2> HIDE DEF z
  <2>3. Carried(x, z) /\ Founded(z)
    BY <2>1 DEF Carried, Founded
  <2> QED
    BY <1>14, <2>1, <2>2, <2>3
<1> QED
  BY <1>3, <1>4, <1>5, <1>6, <1>7, <1>8, <1>9, <1>10, <1>11, <1>12, <1>13, <1>14
  DEF RunRowStep

\* What a takeover relies on: a thread that is opened or bound exists; everything
\* the operation and its resume leave behind belongs to a bound run; and unless a
\* reply raced it, a run that is being opened or was bound has ended, for good.
TakenOver(r) ==
  /\ Founded(row[r])
  /\ row[r].bound \/ opening[r] \in {"checked", "bind"} => row[r].thread
  /\ opening[r] = "read" =>
       /\ snapshot[r].status # "absent"
       /\ snapshot[r].thread => row[r].thread
       /\ snapshot[r].status \in Finished => row[r].status \in Finished \/ r \in raced
  /\ binding[r] # "none" \/ known[r] # "none" \/ resuming[r] # "idle" \/ terminal[r] =>
       row[r].bound
  /\ row[r].bound \/ opening[r] \in {"checked", "bind"} =>
       row[r].status \in Finished \/ r \in raced

\* Replies race the operations they overtake.
Races == raced' = raced \union {r \in Runs : replies'[r] > replies[r] /\ opening[r] # "idle"}

LEMMA TakenTypes ==
  ASSUME TakeoverTypeOK
  PROVE  /\ TypeOK /\ row \in [Runs -> Row] /\ snapshot \in [Runs -> Row]
         /\ replies \in [Runs -> Nat]
         /\ \A r \in Runs : row[r].status \in Statuses /\ snapshot[r].status \in Statuses
BY DEF TakeoverTypeOK, TypeOK, Row

\* A step of the runtime: only a reply starts a run again that has ended, and it
\* races the operation if there is one.
LEMMA RunKeepsTaken ==
  ASSUME Consistent, TypeOK', NEW r \in Runs, RunRowStep(r), TakenOver(r), Races,
         UNCHANGED takeover, replies \in [Runs -> Nat]
  PROVE  TakenOver(r)'
<1>1. /\ opening' = opening /\ snapshot' = snapshot /\ binding' = binding
      /\ known' = known /\ resuming' = resuming /\ terminal' = terminal
  BY DEF takeover
<1>2. r \in raced => r \in raced'
  BY DEF Races
<1> DEFINE x == row[r]
           y == row'[r]
<1>3. Founded(x)
  BY DEF TakenOver
<1> HIDE DEF y
<1>4. CASE Onward(x, y)
  BY <1>1, <1>2, <1>4 DEF TakenOver, Onward, Carried, Founded, Stoppable, y
<1>5. CASE /\ replies'[r] = replies[r] + 1 /\ ~x.bound
           /\ Carried(x, y) /\ Founded(y) /\ y.status = "queued"
  <2>1. opening[r] # "idle" => r \in raced'
    BY <1>5 DEF Races
  <2> QED
    BY <1>1, <1>5, <2>1 DEF TakenOver, Carried, Founded, Stoppable, y
<1>6. CASE /\ Stoppable(x) /\ ~(x.thread /\ x.bound)
           /\ Carried(x, y) /\ Founded(y) /\ y.status = "running"
  <2>1. x.status \notin Finished
    BY <1>6 DEF Stoppable, Finished
  <2> QED
    BY <1>1, <1>2, <1>6, <2>1 DEF TakenOver, Carried, Founded, Stoppable, y
<1> QED
  BY <1>3, <1>4, <1>5, <1>6, RowOnward DEF y

\* The row is left alone, and what the takeover knows of it is no more.
LEMMA SameKeepsTaken ==
  ASSUME NEW r \in Runs, TakenOver(r), row'[r] = row[r], r \in raced => r \in raced',
         \/ opening'[r] = "idle"
         \/ opening'[r] = opening[r] /\ snapshot'[r] = snapshot[r]
         \/ opening[r] = "checked" /\ opening'[r] = "bind",
         binding'[r] = binding[r], known'[r] \in {known[r], "none"},
         \/ resuming'[r] \in {resuming[r], "idle"}
         \/ resuming[r] # "idle" \/ known[r] # "none" \/ binding[r] # "none",
         terminal'[r] => terminal[r] \/ resuming[r] # "idle"
  PROVE  TakenOver(r)'
BY DEF TakenOver, Founded, Stoppable

\* A binding of a run that is being opened, or was bound before.
LEMMA BindingKeepsTaken ==
  ASSUME NEW r \in Runs, TakenOver(r), row \in [Runs -> Row], PutBinding(r),
         r \in raced => r \in raced',
         row[r].bound \/ opening[r] \in {"checked", "bind"},
         opening'[r] \in {opening[r], "idle"}, snapshot'[r] = snapshot[r] \/ opening'[r] = "idle"
  PROVE  TakenOver(r)'
<1> DEFINE z == [row[r] EXCEPT !.bound = TRUE]
           y == row'[r]
<1>1. /\ z \in Row /\ z.status = row[r].status /\ z.nextAt = row[r].nextAt
      /\ z.thread = row[r].thread /\ z.cont = row[r].cont /\ z.bound = TRUE
  BY DEF Row
<1>2. y = Stored(z) /\ row[r].status # "absent"
  BY PutRow DEF PutBinding
<1> HIDE DEF z
<1>3. /\ y.status = row[r].status /\ y.nextAt = row[r].nextAt
      /\ y.thread = row[r].thread /\ y.cont = row[r].cont /\ y.bound = TRUE
  <2>1. /\ Stored(z).status = z.status /\ Stored(z).nextAt = z.nextAt
        /\ Stored(z).thread = z.thread /\ Stored(z).cont = z.cont
        /\ Stored(z).bound = z.bound
    BY <1>1 DEF Stored, Row
  <2> QED
    BY <1>1, <1>2, <2>1
<1> HIDE DEF y
<1> QED
  BY <1>2, <1>3 DEF TakenOver, Founded, Stoppable, y

\* The stop that begins the opening of a run with a pending continuation.
LEMMA StoppedRow ==
  ASSUME NEW r \in Runs, row \in [Runs -> Row], RequestRunStop(r)
  PROVE  /\ row'[r].status \in {"cancelled", "stopping"}
         /\ row'[r].thread = row[r].thread /\ row'[r].bound = row[r].bound
         /\ row[r].status \notin Finished
<1> DEFINE c == [row[r] EXCEPT !.status = "cancelled", !.nextAt = Never]
           s == [row[r] EXCEPT !.status = "stopping"]
<1>1. row'[r] \in {Stored(c), Stored(s)}
  <2>1. Put(r, c) \/ Put(r, s)
    BY DEF RequestRunStop
  <2> HIDE DEF c, s
  <2> QED
    BY <2>1, PutRow
<1>2. /\ c \in Row /\ c.status = "cancelled" /\ c.thread = row[r].thread
      /\ c.bound = row[r].bound
      /\ s \in Row /\ s.status = "stopping" /\ s.thread = row[r].thread
      /\ s.bound = row[r].bound
  BY Constants DEF Row, Finished, Unfinished
<1>3. ASSUME NEW z \in Row
      PROVE  Stored(z).status = z.status /\ Stored(z).thread = z.thread
             /\ Stored(z).bound = z.bound
  BY DEF Stored, Row
<1> HIDE DEF c, s
<1>4. row[r].status \notin Finished
  BY DEF RequestRunStop, Stoppable, Finished
<1> QED
  BY <1>1, <1>2, <1>3, <1>4

\* Whatever was read of the run: when the check succeeds it has ended.
LEMMA CheckKeepsTaken ==
  ASSUME TakeoverTypeOK, NEW r \in Runs, TakenOver(r), CheckSnapshot(r),
         r \in raced => r \in raced'
  PROVE  TakenOver(r)'
<1> DEFINE x == snapshot[r]
           pending == x.nextAt # Never /\ x.status \in {"waiting", "queued"}
<1>1. /\ opening[r] = "read" /\ binding' = binding /\ known' = known
      /\ resuming' = resuming /\ terminal' = terminal
  BY DEF CheckSnapshot
<1>2. opening \in [Runs -> {"idle", "read", "checked", "bind"}]
  BY DEF TakeoverTypeOK
<1>3. ASSUME NEW z, Checked(r, z)
      PROVE  opening'[r] = IF Recoverable(z) THEN "checked" ELSE "idle"
  BY <1>2, <1>3 DEF Checked
<1>4. x.status # "absent" /\ x.status \in Statuses /\ row[r].status \in Statuses
  BY <1>1, TakenTypes DEF TakenOver
<1>5. CASE /\ pending /\ RequestRunStop(r) /\ Checked(r, row'[r])
  <2> DEFINE y == row'[r]
  <2>1. /\ y.status \in {"cancelled", "stopping"} /\ y.thread = row[r].thread
        /\ y.bound = row[r].bound /\ row[r].status \notin Finished
    BY <1>5, TakenTypes, StoppedRow
  <2>2. opening'[r] = IF Recoverable(y) THEN "checked" ELSE "idle"
    BY <1>3, <1>5
  <2> HIDE DEF y
  <2>3. y.status = "cancelled" \/ opening'[r] = "idle"
    BY <2>1, <2>2 DEF Recoverable
  <2>4. opening'[r] = "checked" => y.thread
    BY <2>2 DEF Recoverable
  <2> QED
    BY <1>1, <2>1, <2>2, <2>3, <2>4
    DEF TakenOver, Founded, Stoppable, Finished, Recoverable, y
<1>6. CASE /\ ~Stoppable(row[r]) /\ row[r].status # "running"
           /\ Checked(r, row[r]) /\ UNCHANGED vars
  <2>1. row' = row
    BY <1>6 DEF vars, store
  <2>2. opening'[r] = IF Recoverable(row[r]) THEN "checked" ELSE "idle"
    BY <1>3, <1>6
  <2>3. Recoverable(row[r]) => row[r].thread /\ row[r].status \in Finished
    BY <1>4, <1>6
    DEF Recoverable, Stoppable, Unresolved, TakenOver, Founded, Statuses, Unfinished
  <2> QED
    BY <1>1, <2>1, <2>2, <2>3 DEF TakenOver, Founded, Stoppable
<1>7. CASE ~pending /\ Checked(r, x) /\ UNCHANGED vars
  <2>1. row' = row
    BY <1>7 DEF vars, store
  <2>2. opening'[r] = IF Recoverable(x) THEN "checked" ELSE "idle"
    BY <1>3, <1>7
  <2>3. Recoverable(x) => x.thread /\ x.status \in Finished
    BY <1>4, <1>7 DEF Recoverable, Unresolved, Statuses, Unfinished
  <2>4. Recoverable(x) => row[r].thread /\ (row[r].status \in Finished \/ r \in raced)
    BY <1>1, <2>3 DEF TakenOver
  <2> QED
    BY <1>1, <2>1, <2>2, <2>4 DEF TakenOver, Founded, Stoppable
<1> QED
  BY <1>5, <1>6, <1>7 DEF CheckSnapshot

\* A step of the takeover of one run concerns no other run.
LEMMA OtherKeepsTaken ==
  ASSUME TakeoverTypeOK, NEW r \in BindableRuns, Attachment(r), Races,
         NEW q \in Runs \ {r}, TakenOver(q)
  PROVE  TakenOver(q)'
<1> USE DEF TakeoverTypeOK
<1>1. row \in [Runs -> Row] /\ r \in Runs /\ (q \in raced => q \in raced')
  BY TakenTypes, KindAssumption DEF Races
<1>2. row'[q] = row[q]
  <2>1. UNCHANGED vars \/ RequestRunStop(r) \/ PutBinding(r)
    BY DEF Attachment, OpenTerminal, CheckSnapshot, OpenFails, CreateSession,
       ReplaceSession, ReuseReady, ResumeStarting, BindExisting, BindStarting,
       LaunchAgent, ResumeReady, ResumeFails, AgentExit, StoreBinding
  <2> QED
    BY <1>1, <2>1, PutRow DEF RequestRunStop, PutBinding, vars, store
<1>3. /\ opening'[q] = opening[q] /\ snapshot'[q] = snapshot[q]
      /\ binding'[q] = binding[q] /\ known'[q] = known[q]
      /\ resuming'[q] = resuming[q] /\ terminal'[q] = terminal[q]
  <2>1. CASE OpenTerminal(r) \/ OpenFails(r) \/ CreateSession(r) \/ ReplaceSession(r)
             \/ BindExisting(r) \/ LaunchAgent(r) \/ AgentExit(r)
    BY <2>1 DEF OpenTerminal, OpenFails, CreateSession, ReplaceSession, BindExisting,
       LaunchAgent, AgentExit
  <2>2. CASE CheckSnapshot(r)
    BY <2>2 DEF CheckSnapshot, Checked
  <2>3. CASE ReuseReady(r) \/ ResumeStarting(r) \/ BindStarting(r) \/ ResumeReady(r)
             \/ ResumeFails(r)
    BY <2>3 DEF ReuseReady, ResumeStarting, BindStarting, ResumeReady, ResumeFails,
       StoreBinding, StartResume
  <2> QED
    BY <2>1, <2>2, <2>3 DEF Attachment
<1> QED
  BY <1>1, <1>2, <1>3, SameKeepsTaken

\* The takeover of a run, step by step.
LEMMA AttachmentKeepsTaken ==
  ASSUME TakeoverTypeOK, NEW r \in BindableRuns, Attachment(r), Races, TakenOver(r)
  PROVE  TakenOver(r)'
<1>1. row \in [Runs -> Row] /\ r \in Runs /\ (r \in raced => r \in raced')
  BY TakenTypes, KindAssumption DEF Races
<1>2. CASE OpenTerminal(r)
  <2>1. /\ row' = row /\ opening'[r] = "read" /\ snapshot'[r] = row[r]
        /\ row[r].status # "absent" /\ binding' = binding /\ known' = known
        /\ resuming' = resuming /\ terminal' = terminal
    BY <1>1, <1>2 DEF OpenTerminal, vars, store, TakeoverTypeOK
  <2> QED
    BY <1>1, <2>1 DEF TakenOver, Founded, Stoppable
<1>3. CASE CheckSnapshot(r)
  BY <1>1, <1>3, CheckKeepsTaken
<1>4. CASE OpenFails(r) \/ CreateSession(r) \/ ReplaceSession(r) \/ BindExisting(r)
           \/ LaunchAgent(r) \/ AgentExit(r)
  <2>1. /\ row' = row /\ binding' = binding /\ known' = known
        /\ \/ opening'[r] = "idle"
           \/ opening' = opening /\ snapshot' = snapshot
           \/ opening[r] = "checked" /\ opening'[r] = "bind"
        /\ resuming' = resuming \/ resuming[r] # "idle"
        /\ terminal'[r] => terminal[r] \/ resuming[r] # "idle"
    BY <1>1, <1>4 DEF OpenFails, CreateSession, ReplaceSession, BindExisting,
       LaunchAgent, AgentExit, TakeoverTypeOK, vars, store
  <2> QED
    BY <1>1, <2>1, SameKeepsTaken
<1>5. CASE ResumeStarting(r)
  <2>1. /\ row' = row /\ binding' = binding /\ known' = known /\ terminal' = terminal
        /\ opening'[r] = "idle"
        /\ known[r] # "none" \/ binding[r] # "none"
    BY <1>1, <1>5 DEF ResumeStarting, KnownBinding, TakeoverTypeOK, vars, store
  <2> QED
    BY <1>1, <2>1, SameKeepsTaken
<1>6. CASE ReuseReady(r) \/ BindStarting(r) \/ ResumeReady(r) \/ ResumeFails(r)
  <2>1. /\ PutBinding(r)
        /\ row[r].bound \/ opening[r] \in {"checked", "bind"}
        /\ opening'[r] \in {opening[r], "idle"}
        /\ snapshot'[r] = snapshot[r] \/ opening'[r] = "idle"
    <3>1. CASE ReuseReady(r) \/ BindStarting(r)
      BY <1>1, <3>1 DEF ReuseReady, BindStarting, StoreBinding, TakeoverTypeOK
    <3>2. CASE ResumeReady(r) \/ ResumeFails(r)
      BY <1>1, <3>2 DEF ResumeReady, ResumeFails, StoreBinding, TakenOver
    <3> QED
      BY <1>6, <3>1, <3>2
  <2> QED
    BY <1>1, <2>1, BindingKeepsTaken
<1> QED
  BY <1>2, <1>3, <1>4, <1>5, <1>6 DEF Attachment

\* The inductive invariant of the composed system.
TakeoverInv ==
  /\ TakeoverTypeOK /\ Consistent
  /\ \A r \in Runs : TakenOver(r)

LEMMA InitTaken == TakeoverInit => \A r \in Runs : TakenOver(r)
<1> SUFFICES ASSUME TakeoverInit, NEW r \in Runs PROVE TakenOver(r)
  OBVIOUS
<1>1. row[r] = Absent
  BY DEF TakeoverInit, Init
<1> QED
  BY <1>1 DEF TakeoverInit, TakenOver, Founded, Stoppable, Absent

LEMMA NextTaken ==
  ASSUME TakeoverInv, TypeOK', [TakeoverNext]_tvars, NEW r \in Runs
  PROVE  TakenOver(r)'
<1>1. TakeoverTypeOK /\ Consistent /\ TakenOver(r) /\ replies \in [Runs -> Nat]
  BY TakenTypes DEF TakeoverInv
<1>2. CASE TakeoverNext /\ RunStep /\ UNCHANGED takeover
  BY <1>1, <1>2, RunRowSteps, RunKeepsTaken DEF TakeoverNext, Races
<1>3. CASE TakeoverNext /\ (Disposed \/ Crash) /\ Forget
  <2>1. /\ row' = row /\ opening'[r] = "idle" /\ binding' = binding
        /\ known'[r] = "none" /\ resuming'[r] = "idle" /\ terminal' = terminal
    BY <1>3 DEF Disposed, Crash, Down, store, Forget
  <2>2. r \in raced => r \in raced'
    BY <1>3 DEF TakeoverNext
  <2> QED
    BY <1>1, <2>1, <2>2, SameKeepsTaken
<1>4. ASSUME TakeoverNext, NEW q \in BindableRuns, Attachment(q)
      PROVE  TakenOver(r)'
  <2>1. Races
    BY <1>4 DEF TakeoverNext, Races
  <2>2. CASE q = r
    BY <1>1, <1>4, <2>1, <2>2, AttachmentKeepsTaken
  <2>3. CASE q # r
    BY <1>1, <1>4, <2>1, <2>3, OtherKeepsTaken
  <2> QED
    BY <2>2, <2>3
<1>5. CASE UNCHANGED tvars
  BY <1>1, <1>5, SameKeepsTaken DEF tvars, vars, store, takeover
<1> QED
  BY <1>2, <1>3, <1>4, <1>5 DEF TakeoverNext

LEMMA TakeoverAlways == TakeoverSpec => []TakeoverInv
<1>1. TakeoverSpec => []TakeoverTypeOK /\ []Consistent
  BY TakeoverTypes, TakeoverImplementsRuns, Safety, PTL
<1>2. TakeoverInit /\ TakeoverTypeOK /\ Consistent => TakeoverInv
  BY InitTaken DEF TakeoverInv
<1>3. TakeoverInv /\ [TakeoverNext]_tvars /\ TakeoverTypeOK' /\ Consistent'
        => TakeoverInv'
  <2> SUFFICES ASSUME TakeoverInv, [TakeoverNext]_tvars, TakeoverTypeOK', Consistent'
               PROVE  TakeoverInv'
    OBVIOUS
  <2>1. TypeOK'
    BY DEF Consistent
  <2>2. \A r \in Runs : TakenOver(r)'
    BY <2>1, NextTaken
  <2> QED
    BY <2>2 DEF TakeoverInv
<1> QED
  BY <1>1, <1>2, <1>3, PTL DEF TakeoverSpec

\* A terminal agent and a background process never write to the thread of a run,
\* unless a reply was accepted while its terminal was being opened.
THEOREM OneExecutor == TakeoverSpec => []OneExecutorUnlessRaced
<1>1. TakeoverInv => OneExecutorUnlessRaced
  <2> SUFFICES ASSUME TakeoverInv, NEW r \in Runs, terminal[r], prompted[r] # {}
               PROVE  r \in raced
    BY DEF OneExecutorUnlessRaced
  <2>1. PICK p \in prompted[r] : TRUE
    OBVIOUS
  <2>2. row[r].status \notin Finished
    BY <2>1, ConsistentRun DEF TakeoverInv, RunOK, WriterRecorded, Unresolved, Finished
  <2>3. row[r].bound
    BY DEF TakeoverInv, TakenOver
  <2> QED
    BY <2>2, <2>3 DEF TakeoverInv, TakenOver
<1> QED
  BY <1>1, TakeoverAlways, PTL

\* What was bound to a terminal is not claimed again.
THEOREM BoundNotClaimed == TakeoverSpec => BoundThreadNotClaimed
<1>1. TakeoverInv /\ TypeOK' /\ [TakeoverNext]_tvars =>
        [\A r \in Runs :
           /\ row[r].bound /\ row[r].status \notin {"running", "stopping"}
           => row'[r].status # "running"]_tvars
  <2> SUFFICES ASSUME TakeoverInv, TypeOK', [TakeoverNext]_tvars, NEW r \in Runs,
                      row[r].bound, row[r].status \notin {"running", "stopping"}
               PROVE  row'[r].status # "running"
    OBVIOUS
  <2>1. /\ Consistent /\ TakenOver(r) /\ Founded(row[r]) /\ row[r].thread
        /\ row \in [Runs -> Row]
    BY TakenTypes DEF TakeoverInv, TakenOver
  <2>2. CASE RunStep \/ UNCHANGED vars
    <3>1. RunRowStep(r)
      BY <2>1, <2>2, RunRowSteps
    <3> QED
      BY <2>1, <3>1, RowOnward DEF Onward
  <2>3. CASE Disposed \/ Crash \/ UNCHANGED tvars
    BY <2>3 DEF Disposed, Crash, Down, store, tvars, vars
  <2>4. ASSUME NEW q \in BindableRuns, Attachment(q)
        PROVE  row'[r].status # "running"
    <3>1. UNCHANGED vars \/ RequestRunStop(q) \/ PutBinding(q)
      BY <2>4 DEF Attachment, OpenTerminal, CheckSnapshot, OpenFails, CreateSession,
         ReplaceSession, ReuseReady, ResumeStarting, BindExisting, BindStarting,
         LaunchAgent, ResumeReady, ResumeFails, AgentExit, StoreBinding
    <3>2. q \in Runs
      BY KindAssumption
    <3>3. CASE UNCHANGED vars
      BY <3>3 DEF vars, store
    <3>4. CASE RequestRunStop(q)
      BY <2>1, <3>2, <3>4, PutRow, StoppedRow DEF RequestRunStop
    <3>5. CASE PutBinding(q)
      <4> DEFINE z == [row[q] EXCEPT !.bound = TRUE]
      <4>1. z \in Row /\ z.status = row[q].status
        BY <2>1, <3>2 DEF Row
      <4>2. row'[q] = Stored(z) /\ (r # q => row'[r] = row[r])
        BY <2>1, <3>2, <3>5, PutRow DEF PutBinding
      <4> HIDE DEF z
      <4> QED
        BY <4>1, <4>2, StoredAlike
    <3> QED
      BY <3>1, <3>3, <3>4, <3>5
  <2> QED
    BY <2>2, <2>3, <2>4 DEF TakeoverNext
<1>2. TakeoverSpec => []TypeOK
  BY TakeoverImplementsRuns, TypeCorrect, PTL
<1> QED
  BY <1>1, <1>2, TakeoverAlways, PTL DEF TakeoverSpec, BoundThreadNotClaimed
=============================================================================
