------------------------------ MODULE EventLog ------------------------------
(***************************************************************************)
(* The event log of the app-server: AppServerEventStore keeps the events   *)
(* in a file and in memory, AppServerEventCenter records one request at a  *)
(* time, appends the state change it derives, and announces both.          *)
(*                                                                         *)
(* An event is known here by its place in `hist`, the history of all the   *)
(* events ever written; hist[u].id is the id the store gave it. The lists  *)
(* of the code are the sets of their events: each one is only appended to  *)
(* and filtered, so that it keeps the order of the history. A request      *)
(* whose dedupe key is known changes nothing and is left out.              *)
(***************************************************************************)
EXTENDS Integers, Sequences, FiniteSets

CONSTANTS
  MaxEvents,   \* bound: events ever written
  MaxTroubles  \* bound: crashes, failures, cuts, and events that grow too old

ASSUME BoundsAssumption == MaxEvents \in Nat /\ MaxTroubles \in Nat

VARIABLES
  hist,         \* history: every event written, with its id and kind
  log,          \* the file: the events in it
  events,       \* the events in memory
  nextId,
  serverUp,
  stage,        \* where the request being recorded stands
  pending,      \* the events of that request that are still to be announced
  unannounced,  \* history: events whose request failed before they were
  aged,         \* the first `aged` events are older than the retention
  troubles

recordVars == <<hist, log, events, nextId, serverUp, stage, pending, unannounced, aged>>
logVars == <<recordVars, troubles>>

Event == [id : Nat, kind : {"agent", "derived"}]
Stages == {"idle", "append", "project", "derive", "announce"}

Id(u) == hist[u].id
Uids == DOMAIN hist
Agent == {u \in Uids : hist[u].kind = "agent"}
Retained(S) == {u \in S : u > aged}

LogInit ==
  /\ hist = <<>> /\ log = {} /\ events = {} /\ nextId = 1
  /\ serverUp = TRUE /\ stage = "idle" /\ pending = {}
  /\ unannounced = {} /\ aged = 0 /\ troubles = 0

Trouble == troubles < MaxTroubles /\ troubles' = troubles + 1

\* A day goes by: the oldest event falls out of the retention.
Age ==
  /\ Trouble /\ aged < Len(hist)
  /\ aged' = aged + 1
  /\ UNCHANGED <<hist, log, events, nextId, serverUp, stage, pending,
                 unannounced>>

\* appendSerial() begins with the retention when it is due; the new file
\* replaces the old one by a rename.
Prune ==
  /\ serverUp /\ stage \in {"idle", "project"}
  /\ Len(hist) < MaxEvents
  /\ Retained(events) # events
  /\ log' = Retained(events) /\ events' = Retained(events)
  /\ stage' = IF stage = "idle" THEN "append" ELSE "derive"
  /\ UNCHANGED <<hist, nextId, serverUp, pending, unannounced, aged, troubles>>

Write(kind) ==
  LET u == Len(hist) + 1 IN
  /\ u <= MaxEvents
  /\ hist' = Append(hist, [id |-> nextId, kind |-> kind])
  /\ log' = log \union {u}
  /\ events' = events \union {u}
  /\ nextId' = nextId + 1
  /\ pending' = pending \union {u}

\* The event of a request reaches the file.
AppendEvent ==
  /\ serverUp /\ stage \in {"idle", "append"}
  /\ Write("agent")
  /\ stage' = "project"
  /\ UNCHANGED <<serverUp, unannounced, aged, troubles>>

\* The event changes the state of a thread: a second one is written.
Derive ==
  /\ serverUp /\ stage \in {"project", "derive"}
  /\ Write("derived")
  /\ stage' = "announce"
  /\ UNCHANGED <<serverUp, unannounced, aged, troubles>>

NoThreadChange ==
  /\ serverUp /\ stage = "project"
  /\ stage' = "announce"
  /\ UNCHANGED <<hist, log, events, nextId, serverUp, pending, unannounced,
                 aged, troubles>>

\* Writing the event, the derived event or the thread state throws: the request
\* is refused, what it has written stays, and nobody is told.
RecordFails ==
  /\ Trouble /\ serverUp
  /\ \/ stage \in {"append", "project", "derive"}
     \/ stage = "announce" /\ ~(pending \subseteq Agent)
  /\ unannounced' = unannounced \union pending
  /\ pending' = {} /\ stage' = "idle"
  /\ UNCHANGED <<hist, log, events, nextId, serverUp, aged>>

\* The last part of recordSerial(); what the listeners do with it is up to them.
Announced ==
  /\ serverUp /\ stage = "announce"
  /\ pending' = {} /\ stage' = "idle"
  /\ UNCHANGED <<hist, log, events, nextId, serverUp, unannounced, aged, troubles>>

ServerCrash ==
  /\ Trouble /\ serverUp
  /\ serverUp' = FALSE /\ events' = {} /\ nextId' = 1
  /\ stage' = "idle" /\ pending' = {}
  /\ UNCHANGED <<hist, log, unannounced, aged>>

\* getNextEventId(): one more than the largest id, or than 0.
NextEventId(S) ==
  {n + 1 : n \in {m \in {0} \union {Id(u) : u \in S} : \A u \in S : Id(u) <= m}}

\* initialize(): the next id comes from the file as it was found, and then the
\* retention shortens the file.
ServerStart ==
  /\ ~serverUp
  /\ serverUp' = TRUE
  /\ nextId' \in NextEventId(log)
  /\ events' = Retained(log) /\ log' = Retained(log)
  /\ UNCHANGED <<hist, stage, pending, unannounced, aged, troubles>>

LogTypeOK ==
  /\ hist \in Seq(Event) /\ nextId \in Nat \ {0}
  /\ log \subseteq Uids /\ events \subseteq log
  /\ pending \subseteq Uids /\ unannounced \subseteq Uids
  /\ serverUp \in BOOLEAN /\ stage \in Stages
  /\ aged \in 0 .. Len(hist) /\ troubles \in 0 .. MaxTroubles

(***************************************************************************)
(* The ids of the events never repeat and only grow, whatever the          *)
(* retention removes and whenever the app-server restarts: the cursor a    *)
(* consumer stored stays behind every event it has not seen                *)
(* (getNextEventId() and initialize()).                                    *)
(***************************************************************************)
IdsNeverReused == \A u, v \in Uids : u < v => Id(u) < Id(v)
=============================================================================
