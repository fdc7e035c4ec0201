---------------------------- MODULE AlertDelivery ----------------------------
(***************************************************************************)
(* The alerts about finished scheduled runs on their way to a phone:       *)
(* ScheduledTaskAlerts of the backend plans, claims and sends them, the    *)
(* push gateway claims them once more and hands them to APNs.              *)
(*                                                                         *)
(* A result is a run together with its result revision; results are        *)
(* numbered in the order they finish. The connections of one phone are     *)
(* subscriptions of their own. A delivery is known by its result and its   *)
(* owner: the phone, or, when an older release made it, a subscription.    *)
(* The update() of the backend's store and of the gateway's are atomic and *)
(* durable. How a subscription is registered is in PushSubscriptions.      *)
(***************************************************************************)
EXTENDS Integers, FiniteSets

CONSTANTS
  Subs, Phones,
  PhoneOf,      \* the phone of each subscription
  Legacy,       \* subscriptions for which an older release may have left a delivery of
                \* result 1
  MaxResults,   \* bound: results
  MaxAttempts,  \* attempts for a delivery (4 in the code)
  MaxTroubles   \* bound: crashes and stops, answers lost or replaced by an error,
                \* failed writes, refusals for the rate

ASSUME AlertAssumption ==
  /\ PhoneOf \in [Subs -> Phones] /\ Legacy \subseteq Subs
  /\ Subs \intersect Phones = {}
  /\ MaxResults \in Nat \ {0} /\ MaxAttempts \in Nat \ {0, 1}
  /\ MaxTroubles \in Nat

VARIABLES
  finished,    \* results 1 .. finished exist
  old,         \* the delivery window of results 1 .. old is over
  subs,        \* the backend's subscriptions
  recs,        \* the backend's deliveries
  pc,          \* where run() stands
  recipients,  \* recipients of the pass, as they were when it began
  recent,      \* results read by the pass
  todo,        \* pending deliveries the pass still has to look at
  unplanned,   \* results and phones with two deliveries that the pass has not planned
  doubled,     \* history: those of them one of whose deliveries was claimed
  cur,         \* the delivery being sent and the subscription it is sent to
  result,      \* its outcome
  backend,     \* "up", "stopping" or "down"
  net,         \* requests on their way to the gateway
  gsubs,       \* the gateway's view of the subscriptions; the token of an "invalid"
               \* one was refused by APNs
  gw,          \* the gateway's deliveries
  gatewayUp,
  told,        \* history: the deliveries by which a phone may have been told
  troubles

resultVars == <<finished, old>>
storeVars == <<subs, recs>>
planVars == <<recipients, recent, todo, unplanned, doubled>>
passVars == <<pc, planVars, cur, result>>
gatewayStore == <<gsubs, gw, gatewayUp, told>>
gatewayVars == <<net, gatewayStore>>
vars == <<resultVars, storeVars, passVars, backend, gatewayVars, troubles>>

Results == 1 .. MaxResults
Ids == Results \X (Phones \union Subs)
Never == MaxResults + 1  \* "since" of a subscription that is not confirmed
NoSend == [id |-> <<0, 0>>, sub |-> 0, attempt |-> 0]

Absent == [state |-> "none", attempts |-> 0, sub |-> 0]
States == {"none", "pending", "sending", "accepted", "unknown", "cancelled", "failed"}
GatewayStates == {"none", "sending", "retry", "accepted", "unknown", "failed"}
Known == {i \in Ids : recs[i].state # "none"}

\* The phone a delivery is for.
Target(i) == IF i[2] \in Phones THEN i[2] ELSE PhoneOf[i[2]]
\* The result and the phone a delivery is for.
About(i) == <<i[1], Target(i)>>

(***************************************************************************)
(* What an older release has left: one delivery for each subscription, and *)
(* the gateway's record of it. A delivery still waits for an attempt after *)
(* the gateway has taken it when the answer was lost to an error in        *)
(* between.                                                                *)
(***************************************************************************)
LegacyPairs ==
  {<<"none", "none">>, <<"pending", "none">>, <<"pending", "retry">>,
   <<"pending", "accepted">>, <<"sending", "accepted">>, <<"accepted", "accepted">>,
   <<"unknown", "unknown">>, <<"failed", "failed">>}
LegacyRec(b, s) ==
  IF b[1] = "none" THEN Absent
  ELSE [state |-> b[1], sub |-> s, attempts |-> IF b[2] = "none" THEN 0 ELSE 1]

Upgraded(legacy, left) ==
  LET ids == {<<1, s>> : s \in legacy} IN
  /\ finished = IF legacy = {} THEN 0 ELSE 1
  /\ subs = [s \in Subs |->
               IF s \in legacy THEN [state |-> "on", synced |-> TRUE, since |-> 0]
               ELSE [state |-> "new", synced |-> FALSE, since |-> Never]]
  /\ gsubs = [s \in Subs |-> IF s \in legacy THEN "active" ELSE "none"]
  /\ recs = [i \in Ids |-> IF i \in ids THEN LegacyRec(left[i[2]], i[2]) ELSE Absent]
  /\ gw = [i \in Ids |-> IF i \in ids
                         THEN [LegacyRec(left[i[2]], i[2]) EXCEPT !.state = left[i[2]][2]]
                         ELSE Absent]
  /\ told = {<<1, s>> : s \in {x \in legacy : left[x][2] \in {"accepted", "unknown"}}}
  /\ doubled = {<<1, PhoneOf[s]>> :
                  s \in {x \in legacy : /\ left[x] = <<"pending", "accepted">>
                                       /\ \E y \in legacy \ {x} : PhoneOf[y] = PhoneOf[x]}}

Init ==
  /\ \E legacy \in SUBSET Legacy : \E left \in [legacy -> LegacyPairs] : Upgraded(legacy, left)
  /\ old = 0
  /\ pc = "idle" /\ recipients = {} /\ recent = {} /\ todo = {} /\ unplanned = {}
  /\ cur = NoSend /\ result = "none"
  /\ backend = "up"
  /\ net = {}
  /\ gatewayUp = TRUE
  /\ troubles = 0

Trouble == troubles < MaxTroubles /\ troubles' = troubles + 1

(***************************************************************************)
(* Runs and subscriptions.                                                 *)
(***************************************************************************)
Finish ==
  /\ finished < MaxResults
  /\ finished' = finished + 1
  /\ UNCHANGED <<old, storeVars, passVars, backend, gatewayVars, troubles>>

\* Five minutes go by.
Age ==
  /\ old < finished
  /\ old' = old + 1
  /\ UNCHANGED <<finished, storeVars, passVars, backend, gatewayVars,
                 troubles>>

\* A first registration, or the registration of a new token.
Register(s) ==
  /\ backend = "up" /\ subs[s].state \in {"new", "on"}
  /\ subs[s].state = "on" => subs[s].synced
  /\ subs' = [subs EXCEPT ![s].state = "on", ![s].synced = FALSE]
  /\ UNCHANGED <<resultVars, recs, passVars, backend, gatewayVars, troubles>>

Sync(s) ==
  /\ backend = "up" /\ subs[s].state = "on" /\ ~subs[s].synced
  /\ gatewayUp /\ gsubs[s] # "revoked"
  /\ subs' = [subs EXCEPT ![s].synced = TRUE]
  /\ \/ gsubs' = [gsubs EXCEPT ![s] = "active"]
     \/ gsubs[s] = "invalid" /\ UNCHANGED gsubs  \* the token is the same
  /\ UNCHANGED <<resultVars, recs, passVars, backend, net, gw, gatewayUp, told,
                 troubles>>

Confirm(s) ==
  /\ backend = "up" /\ subs[s].state = "on" /\ subs[s].synced /\ subs[s].since = Never
  /\ subs' = [subs EXCEPT ![s].since = finished]
  /\ UNCHANGED <<resultVars, recs, passVars, backend, gatewayVars, troubles>>

Off(s) == [subs EXCEPT ![s].state = "off", ![s].synced = FALSE]

Disable(s) ==
  /\ backend = "up" /\ subs[s].state = "on"
  /\ subs' = Off(s)
  /\ UNCHANGED <<resultVars, recs, passVars, backend, gatewayVars, troubles>>

\* The gateway is told; the phone may also tell it by itself.
Revoke(s) ==
  /\ gatewayUp /\ gsubs[s] \in {"active", "invalid"} /\ subs[s].state = "off"
  /\ gsubs' = [gsubs EXCEPT ![s] = "revoked"]
  /\ UNCHANGED <<resultVars, storeVars, passVars, backend, net, gw, gatewayUp,
                 told, troubles>>

(***************************************************************************)
(* A pass of ScheduledTaskAlerts.                                          *)
(***************************************************************************)
Usable(s) == subs[s].state = "on" /\ subs[s].synced /\ subs[s].since # Never
\* Usable, and confirmed before result r was there.
Wants(s, r) == Usable(s) /\ subs[s].since < r

Open == {i \in Known : recs[i].state \in {"pending", "sending"}}

PassStart ==
  /\ backend = "up" /\ pc = "idle"
  /\ recipients' = {s \in Subs : Usable(s)}
  /\ recipients' # {} \/ Open # {}
  /\ pc' = "read"
  /\ UNCHANGED <<resultVars, storeVars, recent, todo, unplanned, doubled, cur, result,
                 backend, gatewayVars, troubles>>

ListRecentlyFinishedRuns ==
  /\ pc = "read"
  /\ recent' = IF recipients = {} THEN {} ELSE old + 1 .. finished
  /\ pc' = "plan"
  /\ UNCHANGED <<resultVars, storeVars, recipients, todo, unplanned, doubled, cur, result,
                 backend, gatewayVars, troubles>>

\* "sending" of an earlier pass has an unknown outcome.
Recovered == [i \in Ids |-> IF recs[i].state = "sending"
                            THEN [recs[i] EXCEPT !.state = "unknown"] ELSE recs[i]]

\* The deliveries there are for a result and a phone, under the phone's id or that
\* of one of its connections.
Existing(d, r, p) ==
  {i \in {<<r, p>>} \union {<<r, s>> : s \in {x \in Subs : PhoneOf[x] = p /\ subs[x].state # "new"}} :
     d[i].state # "none"}
Rank(rec) ==
  IF rec.state \notin {"pending", "cancelled"} /\ rec.attempts > 0 THEN 1
  ELSE IF rec.state = "pending" /\ rec.attempts > 0 THEN 2
  ELSE IF rec.state = "pending" THEN 3 ELSE 4
Selected(d, r, p) ==
  LET all == Existing(d, r, p) IN
  IF all = {} THEN <<r, p>>
  ELSE CHOOSE i \in all : \A j \in all : Rank(d[i]) <= Rank(d[j])

\* deliveryPlans() looks at a result and a phone if a connection of the phone was
\* usable when the pass began.
Targeted(r, p) == /\ r \in recent
                  /\ \E s \in recipients : PhoneOf[s] = p /\ subs[s].since < r
\* Mutant: the other deliveries are left to be sent.
NoDuplicate(d, i) == FALSE
Duplicate(d, i) == i \in Existing(d, i[1], Target(i)) /\ i # Selected(d, i[1], Target(i))

\* deliveryPlans() and the update that follows it.
Planned(d) ==
  [i \in Ids |->
     IF Targeted(i[1], Target(i)) /\ Selected(d, i[1], Target(i)) = i /\ d[i].state = "none"
     THEN [state |-> "pending", attempts |-> 0,
           sub |-> CHOOSE s \in recipients : PhoneOf[s] = Target(i) /\ subs[s].since < i[1]]
     ELSE IF Targeted(i[1], Target(i)) /\ Duplicate(d, i) /\ d[i].state = "pending"
     THEN [d[i] EXCEPT !.state = "cancelled"]
     ELSE d[i]]

\* Two deliveries are known for a result and a phone.
Shared(r, p) == \E i, j \in Known : i # j /\ About(i) = <<r, p>> /\ About(j) = <<r, p>>

Plan ==
  LET planned == Planned(Recovered) IN
  /\ pc = "plan"
  /\ recs' = planned
  /\ todo' = {i \in Ids : planned[i].state = "pending"}
  /\ unplanned' = {t \in Results \X Phones : Shared(t[1], t[2]) /\ ~Targeted(t[1], t[2])}
  /\ pc' = "items" /\ recipients' = {} /\ recent' = {}
  /\ UNCHANGED <<resultVars, subs, doubled, cur, result, backend, gatewayVars,
                 troubles>>

\* An item that waits for its next attempt, or comes after the stop, is passed over.
Skip ==
  /\ pc = "items"
  /\ \E i \in todo : /\ recs[i].attempts > 0 \/ backend = "stopping"
                     /\ todo' = todo \ {i}
  /\ UNCHANGED <<resultVars, storeVars, pc, recipients, recent, unplanned, doubled, cur,
                 result, backend, gatewayVars, troubles>>

\* Mutant: a connection confirmed after the result may carry it.
AnyCarriers(i) == {s \in Subs : PhoneOf[s] = PhoneOf[recs[i].sub] /\ Usable(s)}
\* The connections of the phone that may carry the alert now.
Carriers(i) == {s \in Subs : PhoneOf[s] = PhoneOf[recs[i].sub] /\ Wants(s, i[1])}

Claim(i) ==
  /\ pc = "items" /\ backend = "up" /\ recs[i].state = "pending"
  /\ todo' = todo \ {i}
  /\ \/ /\ i[1] > old
        /\ \E s \in Carriers(i) :
             /\ recs' = [recs EXCEPT ![i] = [state |-> "sending", sub |-> s,
                                             attempts |-> @.attempts + 1]]
             /\ cur' = [id |-> i, sub |-> s, attempt |-> recs[i].attempts + 1]
        /\ pc' = "send"
        /\ doubled' = doubled \union ({About(i)} \intersect unplanned)
     \/ /\ i[1] <= old \/ Carriers(i) = {}
        /\ recs' = [recs EXCEPT ![i].state = "cancelled"]
        /\ UNCHANGED <<doubled, cur, pc>>
  /\ UNCHANGED <<resultVars, subs, recipients, recent, unplanned, result, backend,
                 gatewayVars, troubles>>

\* send(), with canSend() asked right before the request.
Send ==
  /\ pc = "send"
  /\ IF backend = "up" /\ Usable(cur.sub)
     THEN net' = net \union {cur} /\ pc' = "wait" /\ UNCHANGED result
     ELSE result' = "failed" /\ pc' = "store" /\ UNCHANGED net
  /\ UNCHANGED <<resultVars, storeVars, planVars, cur, backend, gatewayStore,
                 troubles>>

\* A timeout, a broken connection, or an error of what stands between the two;
\* the request may have arrived, may still arrive, or be lost.
NoAnswer(outcome) ==
  /\ pc \in {"send", "wait"} /\ Trouble
  /\ result' = outcome /\ pc' = "store"
  /\ UNCHANGED <<resultVars, storeVars, planVars, cur, backend, gatewayVars>>

\* The gateway is down, or was while it handled the request.
Refused(outcome) ==
  /\ pc = "wait"
  /\ ~gatewayUp \/ (cur \notin net /\ gw[cur.id].state # "sending")
  /\ net' = net \ {cur}
  /\ result' = outcome /\ pc' = "store"
  /\ UNCHANGED <<resultVars, storeVars, planVars, cur, backend, gatewayStore,
                 troubles>>

\* Mutant: the attempts are not counted.
SettleForever(i, outcome) ==
  [recs EXCEPT ![i].state = IF outcome = "retry" /\ i[1] > old THEN "pending"
                            ELSE IF outcome = "retry" THEN "failed" ELSE outcome]
\* Mutant: no news is good news.
SettleKnown(i, outcome) ==
  [recs EXCEPT ![i].state = IF outcome = "unknown" THEN "accepted"
                            ELSE IF outcome = "retry" THEN "failed" ELSE outcome]
Settle(i, outcome) ==
  LET again == outcome = "retry" /\ recs[i].attempts < MaxAttempts /\ i[1] > old IN
  [recs EXCEPT ![i].state = IF again THEN "pending"
                            ELSE IF outcome = "retry" THEN "failed" ELSE outcome]

\* A 410 turns the subscription off before the outcome is stored.
StoreResult ==
  /\ pc = "store"
  /\ subs' = IF result = "gone" THEN Off(cur.sub) ELSE subs
  /\ recs' = Settle(cur.id, IF result = "gone" THEN "failed" ELSE result)
  /\ pc' = "items" /\ cur' = NoSend /\ result' = "none"
  /\ UNCHANGED <<resultVars, planVars, backend, gatewayVars, troubles>>

Idle ==
  /\ pc' = "idle" /\ recipients' = {} /\ recent' = {} /\ todo' = {} /\ unplanned' = {}
  /\ cur' = NoSend /\ result' = "none"
  /\ UNCHANGED doubled

PassEnd ==
  /\ pc = "items" /\ todo = {}
  /\ Idle
  /\ UNCHANGED <<resultVars, storeVars, backend, gatewayVars, troubles>>

\* An update of the store fails, and with it the pass.
WriteFails ==
  /\ pc \in {"plan", "items", "store"} /\ Trouble
  /\ Idle
  /\ UNCHANGED <<resultVars, storeVars, backend, gatewayVars>>

Stop ==
  /\ backend = "up" /\ Trouble
  /\ backend' = "stopping"
  /\ UNCHANGED <<resultVars, storeVars, passVars, gatewayVars>>

\* dispose() has waited for the pass.
Stopped ==
  /\ backend = "stopping" /\ pc = "idle"
  /\ backend' = "down"
  /\ UNCHANGED <<resultVars, storeVars, passVars, gatewayVars, troubles>>

Crash ==
  /\ backend # "down" /\ Trouble
  /\ backend' = "down" 
  /\ Idle
  /\ UNCHANGED <<resultVars, storeVars, gatewayVars>>

Restart ==
  /\ backend = "down"
  /\ backend' = "up"
  /\ UNCHANGED <<resultVars, storeVars, passVars, gatewayVars, troubles>>

(***************************************************************************)
(* The gateway's deliver().                                                *)
(***************************************************************************)
\* The answer reaches the backend if it still waits for this request.
Answer(m, outcome) ==
  IF pc = "wait" /\ cur = m
  THEN result' = outcome /\ pc' = "store"
  ELSE UNCHANGED <<result, pc>>

\* deliverNotification() refuses an event of more than five minutes.
Stale(m) ==
  /\ gatewayUp /\ m.id[1] <= old
  /\ net' = net \ {m}
  /\ Answer(m, "failed")
  /\ UNCHANGED <<resultVars, storeVars, planVars, cur, backend, gatewayStore,
                 troubles>>

Fresh(m) == gatewayUp /\ m.id[1] > old

Inactive(m) ==
  /\ Fresh(m) /\ gsubs[m.sub] # "active"
  /\ net' = net \ {m}
  /\ Answer(m, "gone")
  /\ UNCHANGED <<resultVars, storeVars, planVars, cur, backend, gatewayStore,
                 troubles>>

\* The event is known, and is not to be sent again.
Replay(m) ==
  /\ Fresh(m) /\ gsubs[m.sub] = "active"
  /\ gw[m.id].state \notin {"none", "retry"}
  /\ net' = net \ {m}
  /\ Answer(m, IF gw[m.id].state = "sending" THEN "unknown" ELSE gw[m.id].state)
  /\ UNCHANGED <<resultVars, storeVars, planVars, cur, backend, gatewayStore,
                 troubles>>

\* The attempts are used up, or the window is over by the gateway's own record, whose
\* clock may be up to 30 s behind the event's.
TooLate(m) ==
  /\ gatewayUp /\ gsubs[m.sub] = "active"
  /\ gw[m.id].state = "retry" /\ (gw[m.id].attempts >= MaxAttempts \/ m.id[1] <= old)
  /\ net' = net \ {m}
  /\ gw' = [gw EXCEPT ![m.id].state = "failed"]
  /\ Answer(m, "failed")
  /\ UNCHANGED <<resultVars, storeVars, planVars, cur, backend, gsubs,
                 gatewayUp, told, troubles>>

\* Before the time of the next attempt, or beyond the rate of the phone.
TooSoon(m) ==
  /\ Fresh(m) /\ gsubs[m.sub] = "active"
  /\ gw[m.id].state \in {"none", "retry"} /\ Trouble
  /\ net' = net \ {m}
  /\ Answer(m, "retry")
  /\ UNCHANGED <<resultVars, storeVars, planVars, cur, backend, gatewayStore>>

\* Mutant: an outcome that is not known is tried again.
MaySubmitAgain(d) == d.state \in {"none", "retry", "unknown"}
MaySubmit(d) == d.state = "none" \/ (d.state = "retry" /\ d.attempts < MaxAttempts)

\* The claim and the hand-over to APNs are one turn of the event loop.
Submit(m) ==
  /\ Fresh(m) /\ gsubs[m.sub] = "active"
  /\ MaySubmit(gw[m.id])
  /\ net' = net \ {m}
  /\ gw' = [gw EXCEPT ![m.id] = [state |-> "sending", attempts |-> @.attempts + 1, sub |-> m.sub]]
  /\ told' = told \union {m.id}
  /\ UNCHANGED <<resultVars, storeVars, passVars, backend, gsubs, gatewayUp,
                 troubles>>

\* APNs answers, or does not; a refusal may be about the phone's token.
Outcome(i, outcome) ==
  /\ gatewayUp /\ gw[i].state = "sending"
  /\ gw' = [gw EXCEPT ![i].state = outcome]
  /\ told' = IF outcome \in {"retry", "failed"} THEN told \ {i} ELSE told
  /\ \/ gsubs' = gsubs
     \/ /\ outcome = "failed" /\ gsubs[gw[i].sub] = "active"
        /\ gsubs' = [gsubs EXCEPT ![gw[i].sub] = "invalid"]
  /\ IF pc = "wait" /\ cur.id = i /\ cur \notin net
     THEN result' = outcome /\ pc' = "store" ELSE UNCHANGED <<result, pc>>
  /\ UNCHANGED <<resultVars, storeVars, planVars, cur, backend, net, gatewayUp,
                 troubles>>

GatewayCrash ==
  /\ gatewayUp /\ Trouble
  /\ gatewayUp' = FALSE
  /\ UNCHANGED <<resultVars, storeVars, passVars, backend, net, gsubs, gw,
                 told>>

GatewayStart ==
  /\ ~gatewayUp
  /\ gatewayUp' = TRUE
  /\ gw' = [i \in Ids |-> IF gw[i].state = "sending" THEN [gw[i] EXCEPT !.state = "unknown"] ELSE gw[i]]
  /\ UNCHANGED <<resultVars, storeVars, passVars, backend, net, gsubs, told,
                 troubles>>

Subscribing(s) == Register(s) \/ Sync(s) \/ Confirm(s) \/ Disable(s) \/ Revoke(s)
Handle(m) == Stale(m) \/ Inactive(m) \/ Replay(m) \/ TooLate(m) \/ TooSoon(m) \/ Submit(m)
Pass == \/ PassStart \/ ListRecentlyFinishedRuns \/ Plan \/ Skip \/ (\E i \in todo : Claim(i)) \/ Send
        \/ StoreResult \/ PassEnd \/ \E outcome \in {"unknown", "retry"} : Refused(outcome)

Next ==
  \/ Finish \/ Age
  \/ \E s \in Subs : Subscribing(s)
  \/ Pass \/ WriteFails \/ Stop \/ Stopped \/ Crash \/ Restart
  \/ \E outcome \in {"unknown", "retry"} : NoAnswer(outcome)
  \/ \E m \in net : Handle(m)
  \/ \E i \in Ids : \E outcome \in {"accepted", "unknown", "retry", "failed"} : Outcome(i, outcome)
  \/ GatewayCrash \/ GatewayStart

Spec == Init /\ [][Next]_vars

(***************************************************************************)
(* Types of the two stores, the pass and the network.                      *)
(***************************************************************************)
Subscriptions == [Subs -> [state : {"new", "on", "off"}, synced : BOOLEAN, since : 0 .. Never]]
Deliveries(states) == [state : states, attempts : 0 .. MaxAttempts, sub : Subs \union {0}]
Requests == [id : Ids, sub : Subs, attempt : 1 .. MaxAttempts]

TypeOK ==
  /\ finished \in 0 .. MaxResults /\ old \in 0 .. finished
  /\ subs \in Subscriptions
  /\ gsubs \in [Subs -> {"none", "active", "revoked", "invalid"}]
  /\ recs \in [Ids -> Deliveries(States)] /\ gw \in [Ids -> Deliveries(GatewayStates)]
  /\ pc \in {"idle", "read", "plan", "items", "send", "wait", "store"}
  /\ recipients \subseteq Subs /\ recent \subseteq Results /\ todo \subseteq Known
  /\ unplanned \subseteq Results \X Phones /\ doubled \subseteq Results \X Phones
  /\ pc \in {"send", "wait", "store"} => cur \in Requests
  /\ pc = "store" => result \in {"accepted", "unknown", "retry", "failed", "gone"}
  /\ backend \in {"up", "stopping", "down"} /\ gatewayUp \in BOOLEAN
  /\ net \subseteq Requests /\ IsFiniteSet(net)
  /\ told \subseteq Ids
  /\ troubles \in 0 .. MaxTroubles

(***************************************************************************)
(* The inductive invariant. The requests that may still reach the gateway  *)
(* are those under way and the one a claim is about to send.               *)
(***************************************************************************)
Underway == net \union {m \in {cur} : pc = "send"}

\* A delivery belongs to its phone, and has an attempt left while it is pending.
Owned(i) ==
  /\ i \in Known => recs[i].sub \in Subs /\ PhoneOf[recs[i].sub] = Target(i)
  /\ i \notin Known => recs[i].attempts = 0
  /\ recs[i].state = "pending" => recs[i].attempts < MaxAttempts
  /\ gw[i].state # "none" => i \in Known

\* The delivery being sent is the one that was claimed.
Claimed ==
  /\ pc \in {"send", "wait", "store"} =>
       /\ recs[cur.id].state = "sending"
       /\ recs[cur.id].attempts = cur.attempt /\ recs[cur.id].sub = cur.sub
  /\ pc = "send" => cur \notin net

\* A request is for a known delivery, over a connection of its phone that was
\* confirmed before the result, and counted.
Requested(m) ==
  /\ m.id \in Known /\ m.attempt <= recs[m.id].attempts
  /\ PhoneOf[m.sub] = Target(m.id) /\ subs[m.sub].since < m.id[1]

\* Each attempt of the gateway has used up a request of its own.
Counted(i) ==
  gw[i].attempts + Cardinality({m \in Underway : m.id = i}) <= recs[i].attempts

\* The backend says accepted when the gateway does.
AcceptedByGateway ==
  /\ \A i \in Ids : recs[i].state = "accepted" => gw[i].state = "accepted"
  /\ pc = "store" /\ result = "accepted" => gw[cur.id].state = "accepted"

Consistent ==
  /\ TypeOK /\ Claimed /\ AcceptedByGateway
  /\ \A i \in Ids : Owned(i) /\ Counted(i)
  /\ \A m \in Underway : Requested(m)

\* The deliveries by which a phone may have been told, as the gateway's store has it.
Live == {i \in Ids : gw[i].state \in {"sending", "accepted", "unknown"}}

\* A delivery of which a request may still be under way, or that may have told the
\* phone although the backend's record is not a final one of an attempt.
Handled(i) ==
  \/ \E m \in net : m.id = i
  \/ pc \in {"send", "wait", "store"} /\ cur.id = i
  \/ recs[i].state \in {"pending", "cancelled"} /\ i \in Live

\* The other deliveries of its result and phone were cancelled before any of them was
\* claimed.
Alone(i) ==
  \A j \in Known \ {i} : About(j) = About(i) => recs[j].state = "cancelled" /\ ~Handled(j)

\* deliveryPlans() has selected one delivery for a result and a phone.
SelectedAlone(i) ==
  About(i) \notin doubled =>
    /\ Handled(i) => Alone(i)
    /\ /\ pc \in {"items", "send", "wait", "store"} /\ recs[i].state = "pending"
       /\ About(i) \notin unplanned
       => Alone(i)

\* deliveryPlans() looks at each delivery, and sees which ones were tried.
Seen(i) ==
  /\ i[2] \in Subs => subs[i[2]].state # "new"
  /\ recs[i].state \in {"sending", "accepted", "unknown", "failed"} => recs[i].attempts > 0

OneSelected == \A i \in Known : SelectedAlone(i) /\ Seen(i)

ToldByDelivery == told = Live

IInv == Consistent /\ OneSelected /\ ToldByDelivery

\* The gateway hands alert i to APNs.
Submitted(i) == gw'[i].state = "sending" /\ gw[i].state # "sending"
\* The phone was told of the result, or may have been, or is about to be.
Told(i) == \E j \in told : About(j) = About(i)

(***************************************************************************)
(* A phone is told of a result once: after a submission that was accepted, *)
(* whose outcome is unknown, or that is still under way, no other follows, *)
(* not through retries, late requests, crashes on either side, nor other   *)
(* connections of the phone (deliver() and the comments in run() and       *)
(* deliveryPlans()). The exception is a phone with two deliveries of an    *)
(* older release: one of them was claimed by a pass that had no usable     *)
(* connection of the phone when it began, or still waited for an attempt   *)
(* after the gateway had taken it. The comment in deliveryPlans() promises *)
(* more: that an accepted or unknown delivery never replays after          *)
(* reconnecting.                                                           *)
(***************************************************************************)
NoRepeat == [][\A i \in Ids : Submitted(i) /\ Told(i) => About(i) \in doubled]_vars

(***************************************************************************)
(* An alert goes only over a connection that was confirmed before the      *)
(* result was there, and not more often than the backend counts: a late    *)
(* request is not one more attempt (run(), its claim, and deliver()).      *)
(***************************************************************************)
OnlyWithConsent ==
  [][\A i \in Ids : Submitted(i) =>
       /\ subs[gw'[i].sub].since < i[1]
       /\ gw[i].attempts < recs[i].attempts]_vars

(***************************************************************************)
(* What the backend says of an alert is true: accepted means that the      *)
(* phone was told by it, whichever answers were lost, late or repeated     *)
(* (performRequest(), deliver()).                                          *)
(***************************************************************************)
AcceptedIsTrue == \A i \in Known : recs[i].state = "accepted" => i \in told
=============================================================================
