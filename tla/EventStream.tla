----------------------------- MODULE EventStream -----------------------------
(***************************************************************************)
(* The event log, the stream the app-server sends it over, and the         *)
(* backend's AppServerEventConsumer with its stored cursor.                *)
(*                                                                         *)
(* A connection is a slot that is used again when it is done with. A       *)
(* message is the set of its events, which are handled in the order of the *)
(* history. Batches without events and the `connected' message change      *)
(* nothing here.                                                           *)
(***************************************************************************)
EXTENDS EventLog

CONSTANTS
  Conns,      \* slots for connections that exist at the same time
  Limit       \* events in a catch-up batch

ASSUME StreamAssumption ==
  Limit \in Nat \ {0} /\ IsFiniteSet(Conns) /\ 0 \notin Conns

VARIABLES
  conn,      \* state of each slot
  after,     \* the cursor each connection asked for
  chan,      \* batches on their way to the backend
  consumer,  \* "running", "stopping" or "down"
  sock,      \* this.socket, 0 for none
  timer,     \* reconnectTimer is set
  reading,   \* cursors read, connect() still to come
  queue,     \* batches received, the first one in work
  phase,     \* where handleEvent() stands with the first event of the queue
  cursor,    \* the cursor file; 0 when it holds none
  handled,   \* history: events the handler completed for
  dropped    \* history: events skipped because a handler or a cursor write threw

streamVars == <<conn, after, chan, consumer, sock, timer, reading, queue, phase,
                cursor, handled, dropped>>
vars == <<logVars, streamVars>>

Free == "free"
ConnStates == {Free, "dialing", "open", "closed"}

Init ==
  /\ LogInit
  /\ conn = [c \in Conns |-> Free]
  /\ after = [c \in Conns |-> 0]
  /\ chan = [c \in Conns |-> <<>>]
  /\ consumer = "down" /\ sock = 0 /\ timer = FALSE /\ reading = <<>>
  /\ queue = <<>> /\ phase = "handle" /\ cursor = 0
  /\ handled = {} /\ dropped = {}

(***************************************************************************)
(* The app-server's end of the stream.                                     *)
(***************************************************************************)
\* The consumer asks for the events of agents only: a request has one of them.
Wanted(S) == S \intersect Agent
\* Mutant: the event right after the cursor is left out.
ListAfterNext(a) == {u \in events : Id(u) > a + 1 /\ u \in Agent}
ListAfter(a) == {u \in events : Id(u) > a /\ u \in Agent}

Before(u, S) == {v \in S : v < u}
Batches(S) ==
  [i \in 1 .. (Cardinality(S) + Limit - 1) \div Limit |->
     {u \in S : Cardinality(Before(u, S)) \div Limit = i - 1}]

\* sendCatchup(): batches until one is not full.
\* Mutant: one batch is sent, full or not.
CatchupOnce(a) == LET b == Batches(ListAfter(a)) IN IF b = <<>> THEN <<>> ELSE <<b[1]>>
Catchup(a) == Batches(ListAfter(a))

\* The catch-up and the subscription are one turn of the event loop.
Accept(c) ==
  /\ conn[c] = "dialing" /\ serverUp
  /\ conn' = [conn EXCEPT ![c] = "open"]
  /\ chan' = [chan EXCEPT ![c] = Catchup(after[c])]
  /\ UNCHANGED <<logVars, after, consumer, sock, timer, reading, queue, phase,
                 cursor, handled, dropped>>

Refuse(c) ==
  /\ conn[c] = "dialing" /\ ~serverUp
  /\ conn' = [conn EXCEPT ![c] = "closed"]
  /\ UNCHANGED <<logVars, after, chan, consumer, sock, timer, reading, queue, phase,
                 cursor, handled, dropped>>

\* Each listener gets the event of the request it subscribes to.
Announce ==
  /\ Announced
  /\ chan' = [c \in Conns |-> IF conn[c] = "open" THEN Append(chan[c], Wanted(pending))
                               ELSE chan[c]]
  /\ UNCHANGED <<conn, after, consumer, sock, timer, reading, queue, phase, cursor,
                 handled, dropped>>

\* Sockets of a dead app-server close; what they carried may still arrive.
CutAll ==
  /\ ServerCrash
  /\ conn' = [c \in Conns |-> IF conn[c] \in {"dialing", "open"} THEN "closed" ELSE conn[c]]
  /\ UNCHANGED <<after, chan, consumer, sock, timer, reading, queue, phase, cursor,
                 handled, dropped>>

Cut(c) ==
  /\ Trouble /\ conn[c] \in {"dialing", "open"}
  /\ conn' = [conn EXCEPT ![c] = "closed"]
  /\ UNCHANGED <<recordVars, after, chan, consumer, sock, timer, reading, queue, phase,
                 cursor, handled, dropped>>

(***************************************************************************)
(* The consumer's connections.                                             *)
(***************************************************************************)
\* start() and the reconnect timer read the cursor file, and connect later.
Start ==
  /\ \/ consumer = "down"
     \/ consumer = "stopping" /\ queue = <<>>
  /\ consumer' = "running" /\ reading' = <<cursor>>
  /\ UNCHANGED <<logVars, conn, after, chan, sock, timer, queue, phase, cursor,
                 handled, dropped>>

TimerFires ==
  /\ timer /\ consumer = "running"
  /\ timer' = FALSE
  /\ reading' = Append(reading, cursor)
  /\ UNCHANGED <<logVars, conn, after, chan, consumer, sock, queue, phase, cursor,
                 handled, dropped>>

Connect ==
  /\ consumer = "running" /\ reading # <<>>
  /\ \E c \in Conns :
       /\ conn[c] = Free
       /\ conn' = [conn EXCEPT ![c] = "dialing"]
       /\ after' = [after EXCEPT ![c] = Head(reading)]
       /\ sock' = c
  /\ reading' = Tail(reading)
  /\ UNCHANGED <<logVars, chan, consumer, timer, queue, phase, cursor, handled,
                 dropped>>

\* onMessage -> enqueueMessage()
Receive(c) ==
  /\ consumer = "running" /\ chan[c] # <<>>
  /\ queue' = Append(queue, Head(chan[c]))
  /\ chan' = [chan EXCEPT ![c] = Tail(@)]
  /\ UNCHANGED <<logVars, conn, after, consumer, sock, timer, reading, phase, cursor,
                 handled, dropped>>

\* onClose -> scheduleReconnect(): the rest of the batches is gone.
\* Mutant: a connection that closes is not tried again.
ClosedNoRetry(c) ==
  /\ consumer = "running" /\ conn[c] = "closed"
  /\ conn' = [conn EXCEPT ![c] = Free]
  /\ after' = [after EXCEPT ![c] = 0]
  /\ chan' = [chan EXCEPT ![c] = <<>>]
  /\ UNCHANGED <<logVars, consumer, sock, timer, reading, queue, phase, cursor,
                 handled, dropped>>
Closed(c) ==
  /\ consumer = "running" /\ conn[c] = "closed"
  /\ conn' = [conn EXCEPT ![c] = Free]
  /\ after' = [after EXCEPT ![c] = 0]
  /\ chan' = [chan EXCEPT ![c] = <<>>]
  /\ timer' = TRUE
  /\ UNCHANGED <<logVars, consumer, sock, reading, queue, phase, cursor, handled,
                 dropped>>

\* onError -> handleSocketError(): it terminates this.socket, which may be a
\* later connection than the one that failed.
Errored(c) ==
  LET hit == {c} \union ({sock} \intersect {d \in Conns : conn[d] # Free}) IN
  /\ consumer = "running" /\ conn[c] = "closed"
  /\ conn' = [d \in Conns |-> IF d = c THEN Free ELSE IF d \in hit THEN "closed" ELSE conn[d]]
  /\ after' = [after EXCEPT ![c] = 0]
  /\ chan' = [d \in Conns |-> IF d \in hit THEN <<>> ELSE chan[d]]
  /\ sock' = 0 /\ timer' = TRUE
  /\ UNCHANGED <<logVars, consumer, reading, queue, phase, cursor, handled, dropped>>

(***************************************************************************)
(* handleMessage() and handleEvent(), one message at a time.               *)
(***************************************************************************)
Current == CHOOSE u \in Head(queue) : \A v \in Head(queue) : u <= v
Rest == IF Head(queue) = {Current} THEN Tail(queue)
        ELSE [queue EXCEPT ![1] = @ \ {Current}]

\* An event that concerns another backend passes the handler untouched.
HandleEvent ==
  /\ queue # <<>> /\ phase = "handle"
  /\ handled' = handled \union {Current}
  /\ phase' = "open"
  /\ UNCHANGED <<logVars, conn, after, chan, consumer, sock, timer, reading, queue,
                 cursor, dropped>>

\* The cursor file is opened for writing, which empties it, ...
OpenCursor ==
  /\ queue # <<>> /\ phase = "open"
  /\ cursor' = 0
  /\ phase' = "write"
  /\ UNCHANGED <<logVars, conn, after, chan, consumer, sock, timer, reading, queue,
                 handled, dropped>>

\* ... and gets its new content.
WriteCursor ==
  /\ queue # <<>> /\ phase = "write"
  /\ cursor' = Id(Current)
  /\ phase' = "handle"
  /\ queue' = Rest
  /\ UNCHANGED <<logVars, conn, after, chan, consumer, sock, timer, reading, handled,
                 dropped>>

\* The handler or the cursor store throws: enqueueMessage() logs it, and the
\* rest of the message is skipped.
MessageFails ==
  /\ Trouble /\ queue # <<>>
  /\ dropped' = dropped \union Head(queue)
  /\ phase' = "handle"
  /\ queue' = Tail(queue)
  /\ UNCHANGED <<recordVars, conn, after, chan, consumer, sock, timer, reading, cursor,
                 handled>>

(***************************************************************************)
(* The end of a consumer.                                                  *)
(***************************************************************************)
Disconnected ==
  /\ conn' = [c \in Conns |-> Free]
  /\ after' = [c \in Conns |-> 0]
  /\ chan' = [c \in Conns |-> <<>>]
  /\ sock' = 0 /\ timer' = FALSE /\ reading' = <<>>

\* stop(): what is queued is still handled.
Stop ==
  /\ Trouble /\ consumer = "running"
  /\ consumer' = "stopping"
  /\ Disconnected
  /\ UNCHANGED <<recordVars, queue, phase, cursor, handled, dropped>>

\* Mutant: the next consumer goes on within an event of the last one.
CrashKeepsPhase ==
  /\ Trouble /\ consumer # "down"
  /\ consumer' = "down" /\ queue' = <<>>
  /\ Disconnected
  /\ UNCHANGED <<recordVars, phase, cursor, handled, dropped>>

Crash ==
  /\ Trouble /\ consumer # "down"
  /\ consumer' = "down" /\ queue' = <<>> /\ phase' = "handle"
  /\ Disconnected
  /\ UNCHANGED <<recordVars, cursor, handled, dropped>>

Recording ==
  /\ Prune \/ AppendEvent \/ Derive \/ NoThreadChange \/ RecordFails \/ ServerStart
     \/ Age
  /\ UNCHANGED streamVars

Next ==
  \/ Recording \/ Announce \/ CutAll
  \/ \E c \in Conns : Accept(c) \/ Refuse(c) \/ Cut(c) \/ Receive(c) \/ Closed(c) \/ Errored(c)
  \/ Start \/ TimerFires \/ Connect \/ Stop \/ Crash
  \/ HandleEvent \/ OpenCursor \/ WriteCursor \/ MessageFails

Spec == Init /\ [][Next]_vars

\* Nothing keeps a request half recorded, a process down, a message unread or a
\* timer waiting; the crashes and the cuts are bounded.
Fairness ==
  /\ WF_vars((NoThreadChange \/ Derive) /\ UNCHANGED streamVars)
  /\ WF_vars(Announce)
  /\ WF_vars(ServerStart /\ UNCHANGED streamVars)
  /\ \A c \in Conns : /\ WF_vars(Accept(c) \/ Refuse(c))
                      /\ WF_vars(Receive(c))
                      /\ WF_vars(Closed(c) \/ Errored(c))
  /\ WF_vars(Start) /\ WF_vars(TimerFires) /\ WF_vars(Connect)
  /\ WF_vars(HandleEvent) /\ WF_vars(OpenCursor) /\ WF_vars(WriteCursor)

FairSpec == Spec /\ Fairness

Messages == (SUBSET Agent) \ {{}}

(***************************************************************************)
(* Types of the log, the connections and the consumer.                     *)
(***************************************************************************)
TypeOK ==
  /\ LogTypeOK
  /\ conn \in [Conns -> ConnStates] /\ after \in [Conns -> Nat]
  /\ chan \in [Conns -> Seq(Messages)] /\ queue \in Seq(Messages)
  /\ consumer \in {"running", "stopping", "down"} /\ sock \in Conns \union {0}
  /\ timer \in BOOLEAN /\ reading \in Seq(Nat)
  /\ phase \in {"handle", "open", "write"}
  /\ cursor \in Nat
  /\ handled \subseteq Agent /\ dropped \subseteq Agent

(***************************************************************************)
(* The failures that may cost an event: its request failed after it was    *)
(* written, a handler or a cursor write threw in its message, the          *)
(* retention passed it, or its id had been given before.                   *)
(***************************************************************************)
Reused == {u \in Uids : \E v \in 1 .. u - 1 : Id(v) >= Id(u)}
Excused == unannounced \union dropped \union (1 .. aged) \union Reused

(***************************************************************************)
(* The inductive invariant: where an event is that nobody has handled yet  *)
(* and no failure explains. No cursor, stored, read or asked for, passes   *)
(* it; in the queue and on each connection nothing later than it comes     *)
(* before it; an open connection has carried it or will be told of it; and *)
(* the log keeps it.                                                       *)
(***************************************************************************)
Owed == Agent \ (handled \union Excused)

Passed(a) ==
  /\ a \in {0} \union {Id(v) : v \in Uids}
  /\ \A u \in Owed : a < Id(u)

CursorsPassed ==
  /\ Passed(cursor)
  /\ \A i \in DOMAIN reading : Passed(reading[i])
  /\ \A c \in Conns : Passed(after[c])

Queued == UNION {queue[i] : i \in DOMAIN queue}
Carried(c) == UNION {chan[c][i] : i \in DOMAIN chan[c]}

QueueInOrder ==
  \A i \in DOMAIN queue : \A e \in queue[i] : \A u \in Owed :
    u < e => \E k \in 1 .. i : u \in queue[k]

ChannelsInOrder ==
  \A c \in Conns : \A i \in DOMAIN chan[c] : \A e \in chan[c][i] : \A u \in Owed :
    u < e => u \in Queued \/ \E k \in 1 .. i : u \in chan[c][k]

OpenAreTold ==
  \A c \in Conns : conn[c] = "open" =>
    serverUp /\ Owed \ pending \subseteq Queued \union Carried(c)

LogKept ==
  /\ \A u \in Uids : u > aged => u \in log
  /\ events = IF serverUp THEN log ELSE {}
  /\ stage \in {"project", "derive", "announce"} => \E u \in Agent : Wanted(pending) = {u}
  /\ stage \in {"idle", "append"} => pending = {}

WorkOnHand == phase # "handle" => queue # <<>> /\ Current \in handled

IInv ==
  /\ TypeOK /\ CursorsPassed /\ QueueInOrder /\ ChannelsInOrder /\ OpenAreTold
  /\ LogKept /\ WorkOnHand

(***************************************************************************)
(* The stored cursor never passes an event that was not handled, unless    *)
(* one of those failures explains it: not by a crash of either process at  *)
(* any point, a cut, two connections at once, a late reconnect with an old *)
(* cursor, a cursor file caught while it is written, or a batch limit      *)
(* (handleEvent(), scheduleReconnect(), sendCatchup()).                    *)
(***************************************************************************)
NoSilentLoss == \A u \in Agent : Id(u) <= cursor => u \in handled \union Excused

Delivery == INSTANCE EventDelivery WITH
  published <- Agent, done <- handled, lost <- Excused \intersect Agent

(***************************************************************************)
(* The stream implements the delivery it promises: the first completed     *)
(* handlings come in the order of the events, without a gap that is not    *)
(* explained (EventDelivery).                                              *)
(***************************************************************************)
ImplementsDelivery == Delivery!Spec

(***************************************************************************)
(* Every event the app-server wrote reaches the handler in the end, unless *)
(* one of those failures explains it: reconnecting is never given up and   *)
(* no connection goes quiet (scheduleReconnect()).                         *)
(***************************************************************************)
EventuallyHandled == \A u \in 1 .. MaxEvents : Delivery!AtLeastOnce(u)
=============================================================================
