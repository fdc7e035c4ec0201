------------------------ MODULE AlertDelivery_proofs ------------------------
(***************************************************************************)
(* Proofs about AlertDelivery, for any connections, phones, results,       *)
(* attempts and troubles, and whatever an older release has left.          *)
(***************************************************************************)
EXTENDS AlertDelivery, FiniteSetTheorems, TLAPS

\* A delivery is known by a result and a phone or connection.
LEMMA IdFacts ==
  /\ \A i \in Ids : i[1] \in Results /\ i[2] \in Phones \union Subs
                    /\ i = <<i[1], i[2]>> /\ Target(i) \in Phones
  /\ \A r \in Results, p \in Phones \union Subs : <<r, p>> \in Ids
  /\ \A r, p : <<r, p>>[1] = r /\ <<r, p>>[2] = p
BY AlertAssumption DEF Ids, Target

\* What the changes of a delivery give.
LEMMA DeliveryTypes ==
  ASSUME NEW S, NEW f \in [Ids -> Deliveries(S)], NEW i \in Ids
  PROVE  /\ f[i].state \in S /\ f[i].attempts \in 0 .. MaxAttempts /\ f[i].attempts \in Nat
         /\ \A x \in S : [f[i] EXCEPT !.state = x] \in Deliveries(S)
         /\ \A x \in S : [f EXCEPT ![i].state = x] \in [Ids -> Deliveries(S)]
         /\ \A x \in Deliveries(S) : [f EXCEPT ![i] = x] \in [Ids -> Deliveries(S)]
<1>1. f[i] \in [state : S, attempts : 0 .. MaxAttempts, sub : Subs \union {0}]
  BY DEF Deliveries
<1>2. f[i].state \in S /\ f[i].attempts \in 0 .. MaxAttempts
  BY <1>1
<1>3. \A x \in S : [f[i] EXCEPT !.state = x] \in Deliveries(S)
  BY <1>1 DEF Deliveries
<1>4. \A x \in Deliveries(S) : [f EXCEPT ![i] = x] \in [Ids -> Deliveries(S)]
  OBVIOUS
<1>5. \A x \in S : [f EXCEPT ![i].state = x] = [f EXCEPT ![i] = [f[i] EXCEPT !.state = x]]
  BY <1>1
<1> QED
  BY <1>2, <1>3, <1>4, <1>5, AlertAssumption

\* What deliveryPlans() and the update do to one delivery.
PlannedRow(i) ==
  LET d == Recovered[i] p == Planned(Recovered)[i] IN
  \/ p = d
  \/ /\ d.state = "none" /\ Selected(Recovered, i[1], Target(i)) = i
     /\ i[1] \in recent
     /\ \E s \in recipients : /\ p = [state |-> "pending", attempts |-> 0, sub |-> s]
                              /\ PhoneOf[s] = Target(i)
  \/ d.state = "pending" /\ p = [d EXCEPT !.state = "cancelled"]

LEMMA RecoveredTypes ==
  ASSUME TypeOK
  PROVE  /\ Recovered \in [Ids -> Deliveries(States)]
         /\ \A i \in Ids : \/ Recovered[i] = recs[i] /\ recs[i].state # "sending"
                           \/ /\ recs[i].state = "sending"
                              /\ Recovered[i] = [recs[i] EXCEPT !.state = "unknown"]
<1>1. recs \in [Ids -> Deliveries(States)] /\ "unknown" \in States
  BY DEF TypeOK, States
<1>2. \A i \in Ids : recs[i] \in Deliveries(States)
                     /\ [recs[i] EXCEPT !.state = "unknown"] \in Deliveries(States)
  BY <1>1, DeliveryTypes
<1> QED
  BY <1>2 DEF Recovered

LEMMA PlannedRows ==
  ASSUME TypeOK, NEW i \in Ids
  PROVE  PlannedRow(i)
<1> DEFINE d == Recovered
           sub == CHOOSE s \in recipients : PhoneOf[s] = Target(i) /\ subs[s].since < i[1]
<1>1. CASE /\ Targeted(i[1], Target(i)) /\ Selected(d, i[1], Target(i)) = i
           /\ d[i].state = "none"
  <2>1. sub \in recipients /\ PhoneOf[sub] = Target(i) /\ i[1] \in recent
    BY <1>1 DEF Targeted
  <2>2. Planned(d)[i] = [state |-> "pending", attempts |-> 0, sub |-> sub]
    BY <1>1 DEF Planned
  <2> HIDE DEF sub
  <2> QED
    BY <1>1, <2>1, <2>2 DEF PlannedRow
<1>2. CASE /\ ~(/\ Targeted(i[1], Target(i)) /\ Selected(d, i[1], Target(i)) = i
                /\ d[i].state = "none")
           /\ Targeted(i[1], Target(i)) /\ Duplicate(d, i) /\ d[i].state = "pending"
  <2>1. Planned(d)[i] = [d[i] EXCEPT !.state = "cancelled"]
    BY <1>2 DEF Planned
  <2> QED
    BY <1>2, <2>1 DEF PlannedRow
<1>3. CASE /\ ~(/\ Targeted(i[1], Target(i)) /\ Selected(d, i[1], Target(i)) = i
                /\ d[i].state = "none")
           /\ ~(Targeted(i[1], Target(i)) /\ Duplicate(d, i) /\ d[i].state = "pending")
  <2>1. Planned(d)[i] = d[i]
    BY <1>3 DEF Planned
  <2> QED
    BY <2>1 DEF PlannedRow
<1> QED
  BY <1>1, <1>2, <1>3

\* A pass that plans keeps what was known, and what it adds is pending.
LEMMA PlanFacts ==
  ASSUME TypeOK, Plan, NEW i \in Ids
  PROVE  /\ recs'[i] \in Deliveries(States)
         /\ i \in Known => i \in Known' /\ recs'[i].sub = recs[i].sub
                           /\ recs'[i].attempts = recs[i].attempts
                           /\ (recs'[i].state \in {"pending", "accepted"} =>
                                recs'[i].state = recs[i].state)
         /\ i \notin Known' => recs'[i] = recs[i]
         /\ i \in Known' => \/ i \in Known
                            \/ /\ recs'[i].attempts = 0 /\ recs'[i].state = "pending"
                               /\ recs'[i].sub \in Subs
                               /\ PhoneOf[recs'[i].sub] = Target(i)
                               /\ i[1] \in recent
                               /\ Selected(Recovered, i[1], Target(i)) = i
<1>1. recs'[i] = Planned(Recovered)[i]
  BY DEF Plan
<1>2. Recovered[i] \in Deliveries(States)
  BY RecoveredTypes
<1>3. recs[i] \in Deliveries(States)
  BY DEF TypeOK
<1>4. PlannedRow(i)
  BY PlannedRows
<1>5. "pending" \in States /\ "cancelled" \in States
  BY DEF States
<1>6. \A s \in recipients : /\ s \in Subs
                            /\ [state |-> "pending", attempts |-> 0, sub |-> s] \in Deliveries(States)
  BY <1>5, AlertAssumption DEF TypeOK, Deliveries
<1>7. [Recovered[i] EXCEPT !.state = "cancelled"] \in Deliveries(States)
  BY <1>2, <1>5 DEF Deliveries
<1>8. recs'[i] \in Deliveries(States)
  BY <1>1, <1>2, <1>4, <1>6, <1>7 DEF PlannedRow
<1>9. \/ Recovered[i] = recs[i] /\ recs[i].state # "sending"
      \/ recs[i].state = "sending" /\ Recovered[i] = [recs[i] EXCEPT !.state = "unknown"]
  BY RecoveredTypes
<1>10. CASE recs'[i] = Recovered[i]
  BY <1>3, <1>8, <1>9, <1>10 DEF Known, Deliveries
<1>11. CASE /\ Recovered[i].state = "none" /\ Selected(Recovered, i[1], Target(i)) = i
            /\ i[1] \in recent
            /\ \E s \in recipients : /\ recs'[i] = [state |-> "pending", attempts |-> 0, sub |-> s]
                                     /\ PhoneOf[s] = Target(i)
  <2>1. i \notin Known
    BY <1>3, <1>9, <1>11 DEF Known, Deliveries
  <2>2. i \in Known'
    BY <1>11 DEF Known
  <2> QED
    BY <1>6, <1>8, <1>11, <2>1, <2>2
<1>12. CASE Recovered[i].state = "pending" /\ recs'[i] = [Recovered[i] EXCEPT !.state = "cancelled"]
  BY <1>2, <1>3, <1>8, <1>9, <1>12 DEF Known, Deliveries
<1> QED
  BY <1>1, <1>4, <1>10, <1>11, <1>12 DEF PlannedRow

\* A claim takes one of the delivery's attempts, or cancels it.
LEMMA ClaimFacts ==
  ASSUME Consistent, NEW i \in todo, Claim(i)
  PROVE  /\ i \in Ids /\ i \in Known /\ recs[i].attempts + 1 \in 1 .. MaxAttempts
         /\ recs' \in [Ids -> Deliveries(States)]
         /\ \/ /\ pc' = "send" /\ i[1] > old
               /\ \E s \in Subs : /\ PhoneOf[s] = Target(i) /\ subs[s].since < i[1]
                                  /\ cur' = [id |-> i, sub |-> s, attempt |-> recs[i].attempts + 1]
                                  /\ recs' = [recs EXCEPT ![i] =
                                                [state |-> "sending", sub |-> s,
                                                 attempts |-> recs[i].attempts + 1]]
            \/ /\ pc' = pc /\ cur' = cur
               /\ recs' = [recs EXCEPT ![i].state = "cancelled"]
<1>1. i \in Ids /\ i \in Known /\ recs \in [Ids -> Deliveries(States)] /\ MaxAttempts \in Nat
  BY AlertAssumption DEF Consistent, TypeOK, Known
<1>2. Owned(i)
  BY <1>1 DEF Consistent
<1>3. recs[i].attempts \in 0 .. MaxAttempts /\ recs[i].state = "pending"
  BY <1>1, DeliveryTypes DEF Claim
<1>4. recs[i].attempts + 1 \in 1 .. MaxAttempts
  BY <1>1, <1>2, <1>3 DEF Owned
<1>5. CASE pc' = "send" /\ i[1] > old /\ ~UNCHANGED <<cur, pc>>
  <2>1. PICK s \in Carriers(i) :
          /\ recs' = [recs EXCEPT ![i] = [state |-> "sending", sub |-> s,
                                          attempts |-> recs[i].attempts + 1]]
          /\ cur' = [id |-> i, sub |-> s, attempt |-> recs[i].attempts + 1]
    BY <1>5, <1>1 DEF Claim
  <2>2. s \in Subs /\ PhoneOf[s] = Target(i) /\ subs[s].since < i[1]
    BY <1>1, <1>2 DEF Carriers, Wants, Owned
  <2>3. [state |-> "sending", sub |-> s, attempts |-> recs[i].attempts + 1] \in Deliveries(States)
    BY <1>4, <2>2 DEF Deliveries, States
  <2>4. recs' \in [Ids -> Deliveries(States)]
    BY <1>1, <2>1, <2>3
  <2> QED
    BY <1>1, <1>4, <1>5, <2>1, <2>2, <2>4
<1>6. CASE UNCHANGED <<cur, pc>> /\ recs' = [recs EXCEPT ![i].state = "cancelled"]
  <2>1. recs' \in [Ids -> Deliveries(States)]
    BY <1>1, <1>6, DeliveryTypes DEF States
  <2> QED
    BY <1>1, <1>4, <1>6, <2>1
<1>7. pc = "items"
  BY DEF Claim
<1> QED
  BY <1>5, <1>6, <1>7 DEF Claim

\* The outcome of a delivery, or a pending delivery if an attempt is left.
LEMMA StoreFacts ==
  ASSUME Consistent, StoreResult
  PROVE  /\ cur.id \in Ids /\ cur.sub \in Subs
         /\ \E x \in States \ {"none", "sending"} :
              /\ recs' = [recs EXCEPT ![cur.id].state = x]
              /\ x = "pending" => recs[cur.id].attempts < MaxAttempts
              /\ x = "accepted" => gw[cur.id].state = "accepted"
         /\ recs' \in [Ids -> Deliveries(States)]
<1>1. cur \in Requests /\ pc = "store" /\ recs \in [Ids -> Deliveries(States)]
  BY DEF Consistent, TypeOK, StoreResult
<1>2. cur.id \in Ids /\ cur.sub \in Subs
  BY <1>1 DEF Requests
<1> DEFINE outcome == IF result = "gone" THEN "failed" ELSE result
           x == IF outcome = "retry" /\ recs[cur.id].attempts < MaxAttempts /\ cur.id[1] > old
                THEN "pending" ELSE IF outcome = "retry" THEN "failed" ELSE outcome
<1>3. recs' = [recs EXCEPT ![cur.id].state = x]
  BY DEF StoreResult, Settle
<1>4. result \in {"accepted", "unknown", "retry", "failed", "gone"}
  BY <1>1 DEF Consistent, TypeOK
<1>5. x \in States \ {"none", "sending"}
  BY <1>4 DEF States
<1>6. x = "pending" => recs[cur.id].attempts < MaxAttempts
  BY <1>4
<1>7. x = "accepted" => gw[cur.id].state = "accepted"
  BY <1>1, <1>4 DEF Consistent, AcceptedByGateway
<1>8. recs' \in [Ids -> Deliveries(States)]
  BY <1>1, <1>2, <1>3, <1>5, DeliveryTypes
<1> QED
  BY <1>2, <1>3, <1>5, <1>6, <1>7, <1>8

\* Requests name a delivery and a connection.
LEMMA RequestTypes ==
  ASSUME TypeOK, NEW m \in net
  PROVE  m \in Requests /\ m.id \in Ids /\ m.sub \in Subs /\ m.attempt \in 1 .. MaxAttempts
BY DEF TypeOK, Requests

\* There are finitely many requests.
LEMMA UnderwayFinite ==
  ASSUME TypeOK, NEW i
  PROVE  /\ IsFiniteSet({m \in Underway : m.id = i})
         /\ Cardinality({m \in Underway : m.id = i}) \in Nat
<1>1. IsFiniteSet(Underway)
  <2>1. IsFiniteSet({x \in {cur} : pc = "send"})
    BY FS_Singleton, FS_Subset
  <2> QED
    BY <2>1, FS_Union DEF TypeOK, Underway
<1>2. IsFiniteSet({m \in Underway : m.id = i})
  BY <1>1, FS_Subset
<1> QED
  BY <1>2, FS_CardinalityType

\* A submission uses an attempt that the backend has counted.
LEMMA SubmitFacts ==
  ASSUME Consistent, NEW m \in net, Submit(m)
  PROVE  /\ gw[m.id].attempts + 1 <= recs[m.id].attempts
         /\ gw' \in [Ids -> Deliveries(GatewayStates)]
<1> DEFINE mine == {x \in Underway : x.id = m.id}
<1>1. m.id \in Ids /\ m.sub \in Subs /\ Counted(m.id)
  BY RequestTypes DEF Consistent
<1>2. Cardinality(mine) \in Nat /\ Cardinality(mine) >= 1
  <2>1. IsFiniteSet(mine) /\ Cardinality(mine) \in Nat
    BY UnderwayFinite DEF Consistent
  <2>2. m \in mine
    BY DEF Underway
  <2>3. Cardinality(mine) # 0
    BY <2>1, <2>2, FS_EmptySet
  <2> HIDE DEF mine
  <2> QED
    BY <2>1, <2>3
<1>3. gw \in [Ids -> Deliveries(GatewayStates)] /\ recs \in [Ids -> Deliveries(States)]
  BY DEF Consistent, TypeOK
<1>4. gw[m.id].attempts \in Nat /\ recs[m.id].attempts \in 0 .. MaxAttempts
  BY <1>1, <1>3, DeliveryTypes
<1>5. gw[m.id].attempts + 1 <= recs[m.id].attempts
  BY <1>1, <1>2, <1>4 DEF Counted
<1>6. gw[m.id].attempts + 1 \in 0 .. MaxAttempts
  BY <1>4, <1>5, AlertAssumption
<1>7. [state |-> "sending", attempts |-> gw[m.id].attempts + 1, sub |-> m.sub]
        \in Deliveries(GatewayStates)
  BY <1>1, <1>6 DEF Deliveries, GatewayStates
<1> QED
  BY <1>1, <1>3, <1>5, <1>7 DEF Submit

\* What the changes of a subscription give.
LEMMA SubscriptionTypes ==
  ASSUME TypeOK, NEW s \in Subs
  PROVE  /\ subs \in Subscriptions /\ Off(s) \in Subscriptions
         /\ [subs EXCEPT ![s].state = "on", ![s].synced = FALSE] \in Subscriptions
         /\ [subs EXCEPT ![s].synced = TRUE] \in Subscriptions
         /\ [subs EXCEPT ![s].since = finished] \in Subscriptions
<1>1. subs[s] \in [state : {"new", "on", "off"}, synced : BOOLEAN, since : 0 .. Never]
      /\ finished \in 0 .. Never
  BY AlertAssumption DEF TypeOK, Never, Subscriptions
<1>2. ASSUME NEW x \in [state : {"new", "on", "off"}, synced : BOOLEAN, since : 0 .. Never]
      PROVE  [subs EXCEPT ![s] = x] \in Subscriptions
  BY <1>2 DEF TypeOK, Subscriptions
<1> QED
  BY <1>1, <1>2 DEF Off, TypeOK

\* Deliveries stay known, and are what was planned and claimed.
LEMMA KnownStep ==
  ASSUME Consistent, [Next]_vars
  PROVE  /\ recs' \in [Ids -> Deliveries(States)]
         /\ \A i \in Known : i \in Known' /\ recs'[i].attempts >= recs[i].attempts
<1>1. recs \in [Ids -> Deliveries(States)]
  BY DEF Consistent, TypeOK
<1>2. \A i \in Ids : recs[i].attempts \in Nat
  BY <1>1, DeliveryTypes
<1>3. CASE Plan
  <2>1. \A i \in Ids : recs'[i] \in Deliveries(States)
    BY <1>3, PlanFacts DEF Consistent
  <2>2. recs' \in [Ids -> Deliveries(States)]
    BY <1>3, <2>1 DEF Plan, Planned
  <2> QED
    BY <1>2, <1>3, <2>2, PlanFacts DEF Consistent, Known
<1>4. ASSUME NEW i \in todo, Claim(i)
      PROVE  /\ recs' \in [Ids -> Deliveries(States)]
             /\ \A j \in Known : j \in Known' /\ recs'[j].attempts >= recs[j].attempts
  <2>1. \A j \in Known : j # i => recs'[j] = recs[j]
    BY <1>1, <1>4, ClaimFacts DEF Known
  <2>2. recs'[i].state # "none" /\ recs'[i].attempts >= recs[i].attempts
    <3>1. \/ recs'[i].state = "sending" /\ recs'[i].attempts = recs[i].attempts + 1
          \/ recs'[i].state = "cancelled" /\ recs'[i].attempts = recs[i].attempts
      BY <1>1, <1>4, ClaimFacts DEF Deliveries
    <3> QED
      BY <1>2, <1>4, <3>1, ClaimFacts
  <2> QED
    BY <1>2, <1>4, <2>1, <2>2, ClaimFacts DEF Known
<1>5. CASE StoreResult
  <2>1. PICK x \in States \ {"none", "sending"} : recs' = [recs EXCEPT ![cur.id].state = x]
    BY <1>5, StoreFacts
  <2>2. \A j \in Ids : recs'[j].attempts = recs[j].attempts
                       /\ (recs'[j] = recs[j] \/ recs'[j].state = x)
    BY <1>1, <2>1 DEF Deliveries
  <2>3. \A j \in Known : j \in Known'
    BY <2>1, <2>2 DEF Known
  <2> QED
    BY <1>2, <1>5, <2>2, <2>3, StoreFacts DEF Known
<1>6. CASE UNCHANGED recs
  BY <1>1, <1>2, <1>6 DEF Known
<1> QED
  BY <1>3, <1>4, <1>5, <1>6
  DEF Next, vars, storeVars, Finish, Age, Subscribing, Register, Sync, Confirm, Disable, Revoke,
      Pass, PassStart, ListRecentlyFinishedRuns, Skip, Send, PassEnd, Refused, WriteFails,
      Stop, Stopped, Crash, Restart, NoAnswer, Handle, Stale, Inactive, Replay, TooLate, TooSoon,
      Submit, Outcome, GatewayCrash, GatewayStart

\* Each step keeps the types.
LEMMA TypeStep == Consistent /\ [Next]_vars => TypeOK'
<1> SUFFICES ASSUME Consistent, [Next]_vars PROVE TypeOK'
  OBVIOUS
<1>0. TypeOK
  BY DEF Consistent
<1>a. recs' \in [Ids -> Deliveries(States)] /\ Known \subseteq Known'
  BY KnownStep
<1>b. subs \in Subscriptions /\ \A s \in Subs : /\ Off(s) \in Subscriptions
                     /\ [subs EXCEPT ![s].state = "on", ![s].synced = FALSE] \in Subscriptions
                     /\ [subs EXCEPT ![s].synced = TRUE] \in Subscriptions
                     /\ [subs EXCEPT ![s].since = finished] \in Subscriptions
  BY <1>0, SubscriptionTypes DEF TypeOK
<1> USE <1>0, <1>a DEF TypeOK
<1>1. CASE Finish \/ Age
  BY <1>1, AlertAssumption
  DEF Finish, Age, storeVars, passVars, planVars, gatewayVars, gatewayStore
<1>2. ASSUME NEW s \in Subs, Subscribing(s)
      PROVE  TypeOK'
  <2>1. subs' \in Subscriptions
    <3>1. \/ subs' = subs \/ subs' = Off(s)
          \/ subs' = [subs EXCEPT ![s].state = "on", ![s].synced = FALSE]
          \/ subs' = [subs EXCEPT ![s].synced = TRUE]
          \/ subs' = [subs EXCEPT ![s].since = finished]
      BY <1>2 DEF Subscribing, Register, Sync, Confirm, Disable, Revoke, storeVars
    <3> QED
      BY <3>1, <1>b
  <2>2. gsubs' \in [Subs -> {"none", "active", "revoked", "invalid"}]
    BY <1>2 DEF Subscribing, Register, Sync, Confirm, Disable, Revoke, gatewayVars, gatewayStore
  <2> QED
    BY <1>2, <2>1, <2>2
    DEF Subscribing, Register, Sync, Confirm, Disable, Revoke, resultVars, storeVars,
        passVars, planVars, gatewayVars, gatewayStore
<1>3. CASE PassStart \/ ListRecentlyFinishedRuns \/ Skip \/ PassEnd
  <2>1. old + 1 .. finished \subseteq Results
    BY AlertAssumption DEF Results
  <2>2. recipients' \subseteq Subs /\ recent' \subseteq Results /\ todo' \subseteq Known'
    BY <1>3, <2>1
    DEF PassStart, ListRecentlyFinishedRuns, Skip, PassEnd, Idle
  <2> QED
    BY <1>3, <2>2
    DEF PassStart, ListRecentlyFinishedRuns, Skip, PassEnd, Idle, resultVars, storeVars,
        gatewayVars, gatewayStore
<1>4. CASE Plan
  <2>1. todo' \subseteq Known'
    BY <1>4 DEF Plan, Known
  <2> QED
    BY <1>4, <2>1 DEF Plan, resultVars, gatewayVars, gatewayStore
<1>5. ASSUME NEW i \in todo, Claim(i)
      PROVE  TypeOK'
  <2>1. (pc' = "send" /\ cur' \in Requests) \/ pc' = "items"
    BY <1>5, ClaimFacts DEF Requests, Claim
  <2> QED
    BY <1>5, <2>1 DEF Claim, resultVars, gatewayVars, gatewayStore
<1>6. CASE Send
  <2>1. IsFiniteSet(net')
    <3>1. IsFiniteSet(net \union {cur})
      BY FS_AddElement
    <3> QED
      BY <1>6, <3>1 DEF Send
  <2> QED
    BY <1>6, <2>1 DEF Send, resultVars, storeVars, planVars, gatewayStore
<1>7. CASE StoreResult
  <2>1. subs' \in Subscriptions
    BY <1>7, <1>b, StoreFacts DEF StoreResult
  <2> QED
    BY <1>7, <2>1 DEF StoreResult, resultVars, planVars, gatewayVars, gatewayStore
<1>8. CASE \E o \in {"unknown", "retry"} : Refused(o) \/ NoAnswer(o)
  <2>1. IsFiniteSet(net')
    <3>1. IsFiniteSet(net \ {cur})
      BY FS_Subset
    <3> QED
      BY <1>8, <3>1 DEF Refused, NoAnswer, gatewayVars
  <2>2. net' \subseteq net /\ pc' = "store" /\ cur' = cur /\ pc \in {"send", "wait"}
        /\ result' \in {"unknown", "retry"}
    BY <1>8 DEF Refused, NoAnswer, gatewayVars, planVars
  <2>3. troubles' \in 0 .. MaxTroubles
    BY <1>8, AlertAssumption DEF Refused, NoAnswer, Trouble
  <2>4. UNCHANGED <<finished, old, subs, recs, recipients, recent, todo, unplanned, doubled,
                    backend, gsubs, gw, gatewayUp, told>>
    BY <1>8
    DEF Refused, NoAnswer, gatewayVars, resultVars, storeVars, planVars, gatewayStore
  <2> QED
    BY <2>1, <2>2, <2>3, <2>4
<1>9. CASE WriteFails \/ Stop \/ Stopped \/ Crash \/ Restart
  BY <1>9, AlertAssumption
  DEF WriteFails, Stop, Stopped, Crash, Restart, Trouble, Idle, resultVars, storeVars,
      passVars, planVars, gatewayVars, gatewayStore
<1>10. ASSUME NEW m \in net, Handle(m)
       PROVE  TypeOK'
  <2>1. IsFiniteSet(net') /\ net' \subseteq net
    BY <1>10, FS_Subset DEF Handle, Stale, Inactive, Replay, TooLate, TooSoon, Submit
  <2>2. m.id \in Ids /\ gw[m.id].state \in GatewayStates /\ m.sub \in Subs
    BY RequestTypes, DeliveryTypes
  <2>3. gw' \in [Ids -> Deliveries(GatewayStates)]
    <3>1. CASE TooLate(m)
      BY <2>2, <3>1, DeliveryTypes DEF TooLate, GatewayStates
    <3> QED
      BY <1>10, <3>1, SubmitFacts
      DEF Handle, Stale, Inactive, Replay, TooSoon, gatewayStore
  <2>4. /\ pc' \in {"idle", "read", "plan", "items", "send", "wait", "store"}
        /\ pc' \in {"send", "wait", "store"} => pc \in {"send", "wait", "store"}
        /\ pc' = "store" => result' \in {"accepted", "unknown", "retry", "failed", "gone"}
    BY <1>10, <2>2
    DEF Handle, Stale, Inactive, Replay, TooLate, TooSoon, Submit, Answer, GatewayStates, passVars
  <2>5. told' \subseteq Ids
    BY <1>10, <2>2
    DEF Handle, Stale, Inactive, Replay, TooLate, TooSoon, Submit, gatewayStore
  <2>6. troubles' \in 0 .. MaxTroubles
    BY <1>10, AlertAssumption DEF Handle, Stale, Inactive, Replay, TooLate, TooSoon, Submit, Trouble
  <2>7. cur' = cur /\ gsubs' = gsubs /\ gatewayUp' = gatewayUp
    BY <1>10
    DEF Handle, Stale, Inactive, Replay, TooLate, TooSoon, Submit, gatewayStore, passVars
  <2> QED
    BY <1>10, <2>1, <2>3, <2>4, <2>5, <2>6, <2>7
    DEF Handle, Stale, Inactive, Replay, TooLate, TooSoon, Submit, resultVars, storeVars,
        passVars, planVars, gatewayStore
<1>11. ASSUME NEW i \in Ids, NEW o \in {"accepted", "unknown", "retry", "failed"}, Outcome(i, o)
       PROVE  TypeOK'
  <2>1. gw' \in [Ids -> Deliveries(GatewayStates)]
    BY <1>11, DeliveryTypes DEF Outcome, GatewayStates
  <2>2. gsubs' \in [Subs -> {"none", "active", "revoked", "invalid"}]
    BY <1>11 DEF Outcome
  <2> QED
    BY <1>11, <2>1, <2>2 DEF Outcome, resultVars, storeVars, planVars
<1>12. CASE GatewayCrash \/ GatewayStart
  <2>1. gw' \in [Ids -> Deliveries(GatewayStates)]
    <3>1. \A i \in Ids : [gw[i] EXCEPT !.state = "unknown"] \in Deliveries(GatewayStates)
      BY DeliveryTypes DEF GatewayStates
    <3> QED
      BY <1>12, <3>1 DEF GatewayCrash, GatewayStart
  <2>2. troubles' \in 0 .. MaxTroubles
    BY <1>12, AlertAssumption DEF GatewayCrash, GatewayStart, Trouble
  <2> QED
    BY <1>12, <2>1, <2>2
    DEF GatewayCrash, GatewayStart, Trouble, resultVars, storeVars, passVars, planVars
<1>13. CASE UNCHANGED vars
  BY <1>13
  DEF vars, resultVars, storeVars, passVars, planVars, gatewayVars, gatewayStore
<1> QED
  BY <1>1, <1>2, <1>3, <1>4, <1>5, <1>6, <1>7, <1>8, <1>9, <1>10, <1>11, <1>12, <1>13
  DEF Next, Pass

\* A delivery is being sent since its claim.
LEMMA PassStep ==
  ASSUME Consistent, [Next]_vars, pc' \in {"send", "wait", "store"}
  PROVE  \/ \E i \in todo : Claim(i) /\ pc' = "send"
         \/ /\ pc \in {"send", "wait", "store"} /\ UNCHANGED <<cur, recs>>
            /\ pc' = "send" => pc = "send"
<1>1. CASE Pass \/ \E o \in {"unknown", "retry"} : NoAnswer(o)
  BY <1>1
  DEF Pass, PassStart, ListRecentlyFinishedRuns, Plan, Skip, Claim, Send, StoreResult, PassEnd,
      Refused, NoAnswer, Idle, storeVars
<1>2. CASE WriteFails \/ Stop \/ Stopped \/ Crash \/ Restart \/ Finish \/ Age
           \/ GatewayCrash \/ GatewayStart \/ UNCHANGED vars
  BY <1>2
  DEF WriteFails, Stop, Stopped, Crash, Restart, Finish, Age, GatewayCrash, GatewayStart, Idle,
      vars, passVars, storeVars
<1>3. CASE \E s \in Subs : Subscribing(s)
  BY <1>3 DEF Subscribing, Register, Sync, Confirm, Disable, Revoke, passVars, storeVars
<1>4. ASSUME NEW m \in net, Handle(m)
      PROVE  /\ pc \in {"send", "wait", "store"} /\ UNCHANGED <<cur, recs>>
             /\ pc' = "send" => pc = "send"
  BY <1>4
  DEF Handle, Stale, Inactive, Replay, TooLate, TooSoon, Submit, Answer, passVars, storeVars
<1>5. CASE \E i \in Ids : \E o \in {"accepted", "unknown", "retry", "failed"} : Outcome(i, o)
  BY <1>5 DEF Outcome, storeVars
<1> QED
  BY <1>1, <1>2, <1>3, <1>4, <1>5 DEF Next

\* A request is sent once; from then on it arrives or is lost.
LEMMA NetStep ==
  ASSUME Consistent, [Next]_vars
  PROVE  net' \subseteq net \/ (pc = "send" /\ pc' = "wait" /\ net' = net \union {cur})
<1>1. CASE Pass \/ \E o \in {"unknown", "retry"} : NoAnswer(o)
  BY <1>1
  DEF Pass, PassStart, ListRecentlyFinishedRuns, Plan, Skip, Claim, Send, StoreResult, PassEnd,
      Refused, NoAnswer, gatewayVars
<1>2. CASE WriteFails \/ Stop \/ Stopped \/ Crash \/ Restart \/ Finish \/ Age
           \/ GatewayCrash \/ GatewayStart \/ UNCHANGED vars
  BY <1>2
  DEF WriteFails, Stop, Stopped, Crash, Restart, Finish, Age, GatewayCrash, GatewayStart,
      vars, gatewayVars
<1>3. CASE \E s \in Subs : Subscribing(s)
  BY <1>3 DEF Subscribing, Register, Sync, Confirm, Disable, Revoke, gatewayVars
<1>4. CASE \E m \in net : Handle(m)
  BY <1>4 DEF Handle, Stale, Inactive, Replay, TooLate, TooSoon, Submit
<1>5. CASE \E i \in Ids : \E o \in {"accepted", "unknown", "retry", "failed"} : Outcome(i, o)
  BY <1>5 DEF Outcome
<1> QED
  BY <1>1, <1>2, <1>3, <1>4, <1>5 DEF Next

\* Only a claim adds to the requests that may still reach the gateway.
LEMMA UnderwayStep ==
  ASSUME Consistent, [Next]_vars
  PROVE  \/ Underway' \subseteq Underway
         \/ \E i \in todo : /\ Claim(i) /\ pc' = "send" /\ net' = net
                            /\ Underway = net /\ Underway' = net \union {cur'}
<1>1. CASE pc' # "send"
  BY <1>1, NetStep DEF Underway
<1>2. ASSUME pc' = "send", NEW i \in todo, Claim(i)
      PROVE  /\ net' = net /\ Underway = net /\ Underway' = net \union {cur'}
  BY <1>2 DEF Claim, gatewayVars, Underway
<1>3. CASE pc' = "send" /\ pc = "send" /\ UNCHANGED cur
  BY <1>3, NetStep DEF Underway
<1> QED
  BY <1>1, <1>2, <1>3, PassStep

\* A connection confirmed before a result stays so, and one that has been registered is
\* not new again.
LEMMA SubscriptionStep ==
  ASSUME Consistent, [Next]_vars, NEW s \in Subs
  PROVE  /\ \A r \in Results : subs[s].since < r => subs'[s].since < r
         /\ subs[s].state # "new" => subs'[s].state # "new"
<1>1. subs \in Subscriptions
  BY DEF Consistent, TypeOK
<1>2. ASSUME NEW x \in Subs, Subscribing(x)
      PROVE  /\ \A r \in Results : subs[s].since < r => subs'[s].since < r
             /\ subs[s].state # "new" => subs'[s].state # "new"
  <2>1. CASE Confirm(x)
    <3>1. x = s => \A r \in Results : ~(subs[s].since < r)
      BY <2>1, AlertAssumption DEF Confirm, Never, Results
    <3> QED
      BY <1>1, <2>1, <3>1 DEF Confirm, Subscriptions
  <2> QED
    BY <1>1, <1>2, <2>1
    DEF Subscribing, Register, Sync, Disable, Revoke, Off, Subscriptions, storeVars
<1>3. CASE StoreResult
  BY <1>1, <1>3, StoreFacts DEF StoreResult, Off, Subscriptions
<1>4. CASE UNCHANGED subs
  BY <1>4
<1> QED
  BY <1>2, <1>3, <1>4
  DEF Next, vars, storeVars, Finish, Age, Pass, PassStart, ListRecentlyFinishedRuns, Plan, Skip,
      Claim, Send, PassEnd, Refused, WriteFails, Stop, Stopped, Crash, Restart, NoAnswer,
      Handle, Stale, Inactive, Replay, TooLate, TooSoon, Submit, Outcome, GatewayCrash, GatewayStart

\* What the gateway has accepted stays so, and its attempts are submissions.
LEMMA GatewayStep ==
  ASSUME Consistent, [Next]_vars, NEW i \in Ids
  PROVE  /\ gw[i].state = "accepted" => gw'[i].state = "accepted"
         /\ gw'[i].state # "none" => gw[i].state # "none" \/ i \in Known
         /\ \/ gw'[i].attempts = gw[i].attempts
            \/ \E m \in net : /\ Submit(m) /\ m.id = i
                              /\ gw'[i].attempts = gw[i].attempts + 1
<1>1. gw \in [Ids -> Deliveries(GatewayStates)]
  BY DEF Consistent, TypeOK
<1>2. ASSUME NEW m \in net, TooLate(m)
      PROVE  /\ gw[i].state = "accepted" => gw'[i].state = "accepted"
             /\ gw'[i].state # "none" => gw[i].state # "none" \/ i \in Known
             /\ gw'[i].attempts = gw[i].attempts
  BY <1>1, <1>2 DEF TooLate, Deliveries
<1>3. ASSUME NEW m \in net, Submit(m)
      PROVE  /\ gw[i].state = "accepted" => gw'[i].state = "accepted"
             /\ gw'[i].state # "none" => gw[i].state # "none" \/ i \in Known
             /\ \/ gw'[i].attempts = gw[i].attempts
                \/ m.id = i /\ gw'[i].attempts = gw[i].attempts + 1
  <2>1. Requested(m) /\ m.id \in Ids
    BY RequestTypes DEF Consistent, Underway
  <2> QED
    BY <1>1, <1>3, <2>1 DEF Submit, MaySubmit, Requested, Deliveries
<1>4. ASSUME NEW x \in Ids, NEW o, Outcome(x, o)
      PROVE  /\ gw[i].state = "accepted" => gw'[i].state = "accepted"
             /\ gw'[i].state # "none" => gw[i].state # "none" \/ i \in Known
             /\ gw'[i].attempts = gw[i].attempts
  BY <1>1, <1>4 DEF Outcome, Deliveries
<1>5. CASE GatewayStart
  BY <1>1, <1>5 DEF GatewayStart, Deliveries
<1>6. CASE UNCHANGED gw
  BY <1>6
<1> QED
  BY <1>2, <1>3, <1>4, <1>5, <1>6
  DEF Next, vars, gatewayVars, gatewayStore, Finish, Age, Subscribing, Register, Sync, Confirm,
      Disable, Revoke, Pass, PassStart, ListRecentlyFinishedRuns, Plan, Skip, Claim, Send,
      StoreResult, PassEnd, Refused, WriteFails, Stop, Stopped, Crash, Restart, NoAnswer,
      Handle, Stale, Inactive, Replay, TooSoon, GatewayCrash

\* What is sent is what was claimed.
LEMMA ClaimedStep == Consistent /\ [Next]_vars => Claimed'
<1> SUFFICES ASSUME Consistent, [Next]_vars, pc' \in {"send", "wait", "store"}
             PROVE  /\ /\ recs'[cur'.id].state = "sending"
                       /\ recs'[cur'.id].attempts = cur'.attempt
                       /\ recs'[cur'.id].sub = cur'.sub
                    /\ pc' = "send" => cur' \notin net'
  BY DEF Claimed
<1>1. ASSUME NEW i \in todo, Claim(i), pc' = "send"
      PROVE  /\ /\ recs'[cur'.id].state = "sending"
                /\ recs'[cur'.id].attempts = cur'.attempt
                /\ recs'[cur'.id].sub = cur'.sub
             /\ pc' = "send" => cur' \notin net'
  <2>1. pc # "send" /\ net' = net /\ net \subseteq Underway
    BY <1>1 DEF Claim, gatewayVars, Underway
  <2>2. recs \in [Ids -> Deliveries(States)] /\ i \in Ids /\ recs[i].attempts \in Nat
    BY <1>1, ClaimFacts, DeliveryTypes DEF Consistent, TypeOK
  <2>3. PICK s \in Subs :
          /\ cur' = [id |-> i, sub |-> s, attempt |-> recs[i].attempts + 1]
          /\ recs' = [recs EXCEPT ![i] = [state |-> "sending", sub |-> s,
                                          attempts |-> recs[i].attempts + 1]]
    BY <1>1, <2>1, ClaimFacts
  <2>4. cur' \notin net
    <3>1. SUFFICES ASSUME cur' \in net PROVE FALSE
      OBVIOUS
    <3>2. cur'.attempt <= recs[cur'.id].attempts
      BY <2>1, <3>1 DEF Consistent, Requested
    <3> QED
      BY <2>2, <2>3, <3>2
  <2> QED
    BY <2>1, <2>2, <2>3, <2>4
<1>2. CASE /\ pc \in {"send", "wait", "store"} /\ UNCHANGED <<cur, recs>>
           /\ pc' = "send" => pc = "send"
  BY <1>2, NetStep DEF Consistent, Claimed
<1> QED
  BY <1>1, <1>2, PassStep

\* A request is for what its delivery was claimed for.
LEMMA RequestedStep == Consistent /\ [Next]_vars => \A m \in Underway' : Requested(m)'
<1> SUFFICES ASSUME Consistent, [Next]_vars, NEW m \in Underway'
             PROVE  Requested(m)'
  OBVIOUS
<1>1. ASSUME m \in Underway
      PROVE  Requested(m)'
  <2>1. Requested(m)
    BY <1>1 DEF Consistent
  <2>2. m.id \in Ids /\ m.sub \in Subs /\ m.attempt \in Nat
    <3>1. m \in Requests
      BY <1>1 DEF Underway, Consistent, TypeOK
    <3> QED
      BY <3>1, AlertAssumption DEF Requests
  <2>3. m.id \in Known' /\ recs'[m.id].attempts >= recs[m.id].attempts
    BY <2>1, KnownStep DEF Requested
  <2>4. recs'[m.id].attempts \in Nat /\ recs[m.id].attempts \in Nat
    BY <2>2, KnownStep, DeliveryTypes DEF Consistent, TypeOK
  <2>5. subs'[m.sub].since < m.id[1]
    BY <2>1, <2>2, SubscriptionStep, IdFacts DEF Requested
  <2> QED
    BY <2>1, <2>2, <2>3, <2>4, <2>5 DEF Requested, Target
<1>2. ASSUME NEW i \in todo, Claim(i), pc' = "send", Underway = net, m = cur'
      PROVE  Requested(m)'
  <2>1. i \in Ids /\ i \in Known' /\ recs \in [Ids -> Deliveries(States)]
    BY <1>2, ClaimFacts, KnownStep DEF Consistent, TypeOK
  <2>2. pc # "send"
    BY <1>2 DEF Claim
  <2>3. PICK s \in Subs :
          /\ PhoneOf[s] = Target(i) /\ subs[s].since < i[1]
          /\ cur' = [id |-> i, sub |-> s, attempt |-> recs[i].attempts + 1]
          /\ recs' = [recs EXCEPT ![i] = [state |-> "sending", sub |-> s,
                                          attempts |-> recs[i].attempts + 1]]
    BY <1>2, <2>2, ClaimFacts
  <2>4. subs' = subs
    BY <1>2 DEF Claim
  <2>5. recs[i].attempts \in Nat
    BY <2>1, DeliveryTypes
  <2> QED
    BY <1>2, <2>1, <2>3, <2>4, <2>5 DEF Requested, Target
<1> QED
  BY <1>1, <1>2, UnderwayStep DEF Underway

\* The backend's accepted is the gateway's.
LEMMA AcceptedStep == Consistent /\ [Next]_vars => AcceptedByGateway'
<1> SUFFICES ASSUME Consistent, [Next]_vars PROVE AcceptedByGateway'
  OBVIOUS
<1>0. recs \in [Ids -> Deliveries(States)] /\ gw \in [Ids -> Deliveries(GatewayStates)]
  BY DEF Consistent, TypeOK
<1>1. ASSUME NEW i \in Ids, recs'[i].state = "accepted"
      PROVE  gw'[i].state = "accepted"
  <2>1. recs[i].state = "accepted" => gw'[i].state = "accepted"
    BY GatewayStep DEF Consistent, AcceptedByGateway
  <2>2. CASE Plan
    BY <1>1, <2>1, <2>2, PlanFacts DEF Consistent, Known
  <2>3. ASSUME NEW x \in todo, Claim(x)
        PROVE  gw'[i].state = "accepted"
    <3>1. recs[i].state = "accepted"
      BY <1>0, <1>1, <2>3, ClaimFacts DEF Deliveries
    <3> QED
      BY <2>1, <3>1
  <2>4. CASE StoreResult
    <3>1. PICK x \in States : /\ recs' = [recs EXCEPT ![cur.id].state = x]
                              /\ x = "accepted" => gw[cur.id].state = "accepted"
      BY <2>4, StoreFacts
    <3>2. i # cur.id => recs'[i] = recs[i]
      BY <3>1, <1>0
    <3>3. i = cur.id => x = "accepted"
      BY <1>0, <1>1, <3>1 DEF Deliveries
    <3> QED
      BY <1>1, <2>1, <3>1, <3>2, <3>3, GatewayStep
  <2>5. CASE UNCHANGED recs
    BY <1>1, <2>1, <2>5
  <2> QED
    BY <2>2, <2>3, <2>4, <2>5
    DEF Next, vars, storeVars, Finish, Age, Subscribing, Register, Sync, Confirm, Disable, Revoke,
        Pass, PassStart, ListRecentlyFinishedRuns, Skip, Send, PassEnd, Refused, WriteFails,
        Stop, Stopped, Crash, Restart, NoAnswer, Handle, Stale, Inactive, Replay, TooLate, TooSoon,
        Submit, Outcome, GatewayCrash, GatewayStart
<1>2. ASSUME pc' = "store", result' = "accepted"
      PROVE  gw'[cur'.id].state = "accepted"
  <2>1. pc \in {"send", "wait", "store"} /\ cur' = cur
    BY <1>2, PassStep
  <2>2. cur.id \in Ids
    BY <2>1 DEF Consistent, TypeOK, Requests
  <2>3. CASE pc = "store"
    <3>1. result = "accepted"
      BY <1>2, <2>3
      DEF Next, vars, passVars, Finish, Age, Subscribing, Register, Sync, Confirm, Disable,
          Revoke, Pass, PassStart, ListRecentlyFinishedRuns, Plan, Skip, Claim, Send, StoreResult,
          PassEnd, Refused, WriteFails, Stop, Stopped, Crash, Restart, NoAnswer, Idle, Handle,
          Stale, Inactive, Replay, TooLate, TooSoon, Submit, Answer, Outcome, GatewayCrash, GatewayStart
    <3> QED
      BY <2>1, <2>2, <2>3, <3>1, GatewayStep DEF Consistent, AcceptedByGateway
  <2>4. CASE pc # "store"
    <3>1. \/ \E o \in {"unknown", "retry"} : Refused(o) \/ NoAnswer(o)
          \/ Send
          \/ \E m \in net : Handle(m)
          \/ \E i \in Ids : \E o \in {"accepted", "unknown", "retry", "failed"} : Outcome(i, o)
      BY <1>2, <2>4
      DEF Next, vars, passVars, Finish, Age, Subscribing, Register, Sync, Confirm, Disable,
          Revoke, Pass, PassStart, ListRecentlyFinishedRuns, Plan, Skip, Claim, StoreResult,
          PassEnd, WriteFails, Stop, Stopped, Crash, Restart, Idle, GatewayCrash, GatewayStart
    <3>2. ~(\E o \in {"unknown", "retry"} : Refused(o) \/ NoAnswer(o)) /\ ~Send
      BY <1>2 DEF Refused, NoAnswer, Send
    <3>3. ASSUME NEW m \in net, Handle(m)
          PROVE  gw'[cur'.id].state = "accepted"
      <4>1. m = cur /\ pc = "wait"
        BY <1>2, <2>4, <3>3
        DEF Handle, Stale, Inactive, Replay, TooLate, TooSoon, Submit, Answer, passVars
      <4>2. gw[m.id].state = "accepted" /\ UNCHANGED gw
        BY <1>2, <2>4, <3>3, <4>1
        DEF Handle, Stale, Inactive, Replay, TooLate, TooSoon, Submit, Answer, passVars, gatewayStore
      <4> QED
        BY <2>1, <4>1, <4>2
    <3>4. ASSUME NEW i \in Ids, NEW o \in {"accepted", "unknown", "retry", "failed"}, Outcome(i, o)
          PROVE  gw'[cur'.id].state = "accepted"
      <4>1. cur.id = i /\ o = "accepted" /\ gw' = [gw EXCEPT ![i].state = o]
        BY <1>2, <2>4, <3>4 DEF Outcome
      <4> QED
        BY <1>0, <2>1, <4>1 DEF Deliveries
    <3> QED
      BY <3>1, <3>2, <3>3, <3>4
  <2> QED
    BY <2>3, <2>4
<1> QED
  BY <1>1, <1>2 DEF AcceptedByGateway

\* A delivery stays its phone's, and only what has an attempt left becomes pending.
LEMMA OwnedStep == Consistent /\ [Next]_vars => \A i \in Ids : Owned(i)'
<1> SUFFICES ASSUME Consistent, [Next]_vars, NEW i \in Ids
             PROVE  Owned(i)'
  OBVIOUS
<1>1. recs \in [Ids -> Deliveries(States)] /\ Owned(i)
  BY DEF Consistent, TypeOK
<1>0. Known \subseteq Known'
  BY KnownStep
<1>2. gw'[i].state # "none" => i \in Known'
  BY <1>1, GatewayStep, KnownStep DEF Owned
<1>3. /\ i \in Known' => recs'[i].sub \in Subs /\ PhoneOf[recs'[i].sub] = Target(i)
      /\ i \notin Known' => recs'[i].attempts = 0
      /\ recs'[i].state = "pending" => recs'[i].attempts < MaxAttempts
  <2>1. CASE Plan
    <3>1. recs'[i].state = "pending" => i \in Known'
      BY DEF Known
    <3> QED
      BY <1>0, <1>1, <2>1, <3>1, PlanFacts, AlertAssumption DEF Owned, Consistent
  <2>2. ASSUME NEW x \in todo, Claim(x)
        PROVE  /\ i \in Known' => recs'[i].sub \in Subs /\ PhoneOf[recs'[i].sub] = Target(i)
               /\ i \notin Known' => recs'[i].attempts = 0
               /\ recs'[i].state = "pending" => recs'[i].attempts < MaxAttempts
    <3>1. CASE x # i
      BY <1>1, <2>2, <3>1, ClaimFacts DEF Owned, Known
    <3>2. CASE x = i
      BY <1>0, <1>1, <2>2, <3>2, ClaimFacts DEF Owned, Deliveries
    <3> QED
      BY <3>1, <3>2
  <2>3. CASE StoreResult
    <3>1. PICK x \in States \ {"none", "sending"} :
            /\ recs' = [recs EXCEPT ![cur.id].state = x]
            /\ x = "pending" => recs[cur.id].attempts < MaxAttempts
      BY <2>3, StoreFacts
    <3>2. cur.id \in Known
      BY <2>3, StoreFacts DEF Consistent, Claimed, StoreResult, Known
    <3>3. CASE cur.id = i
      BY <1>0, <1>1, <3>1, <3>2, <3>3 DEF Owned, Deliveries
    <3>4. CASE cur.id # i
      BY <1>1, <3>1, <3>4 DEF Owned, Known
    <3> QED
      BY <3>3, <3>4
  <2>4. CASE UNCHANGED recs
    BY <1>1, <2>4 DEF Owned, Known
  <2> QED
    BY <2>1, <2>2, <2>3, <2>4
    DEF Next, vars, storeVars, Finish, Age, Subscribing, Register, Sync, Confirm, Disable, Revoke,
        Pass, PassStart, ListRecentlyFinishedRuns, Skip, Send, PassEnd, Refused, WriteFails,
        Stop, Stopped, Crash, Restart, NoAnswer, Handle, Stale, Inactive, Replay, TooLate, TooSoon,
        Submit, Outcome, GatewayCrash, GatewayStart
<1> QED
  BY <1>2, <1>3 DEF Owned, Target

\* Each submission uses up a request, and each request is one more attempt.
LEMMA CountedStep == Consistent /\ [Next]_vars => \A i \in Ids : Counted(i)'
<1> SUFFICES ASSUME Consistent, [Next]_vars, NEW i \in Ids
             PROVE  Counted(i)'
  OBVIOUS
<1> DEFINE before == {m \in Underway : m.id = i}
           after == {m \in Underway' : m.id = i}
<1>1. /\ recs[i].attempts \in Nat /\ recs'[i].attempts \in Nat
      /\ gw[i].attempts \in Nat /\ gw'[i].attempts \in Nat
  BY TypeStep, DeliveryTypes DEF Consistent, TypeOK
<1>2. IsFiniteSet(before) /\ Cardinality(before) \in Nat
  BY UnderwayFinite DEF Consistent
<1>3. gw[i].attempts + Cardinality(before) <= recs[i].attempts
  BY DEF Consistent, Counted
<1>4. recs'[i].attempts >= recs[i].attempts
  <2>1. CASE i \in Known
    BY <2>1, KnownStep
  <2>2. CASE i \notin Known
    <3>1. recs[i].attempts = 0
      BY <2>2 DEF Consistent, Owned
    <3> QED
      BY <1>1, <3>1
  <2> QED
    BY <2>1, <2>2
<1>5. CASE Underway' \subseteq Underway /\ gw'[i].attempts = gw[i].attempts
  <2>1. Cardinality(after) \in Nat /\ Cardinality(after) <= Cardinality(before)
    <3>1. after \subseteq before
      BY <1>5
    <3> QED
      BY <1>2, <3>1, FS_Subset, FS_CardinalityType
  <2> HIDE DEF before, after
  <2>2. gw'[i].attempts + Cardinality(after) <= recs'[i].attempts
    BY <1>1, <1>2, <1>3, <1>4, <1>5, <2>1
  <2> QED
    BY <2>2 DEF Counted, after
<1>6. ASSUME NEW m \in net, Submit(m), m.id = i, gw'[i].attempts = gw[i].attempts + 1
      PROVE  Counted(i)'
  <2>1. m \in before /\ after \subseteq before \ {m}
    <3>1. net' = net \ {m} /\ UNCHANGED <<pc, cur>> /\ (pc = "send" => cur # m)
      BY <1>6 DEF Submit, passVars, Consistent, Claimed
    <3> QED
      BY <1>6, <3>1 DEF Underway
  <2>2. /\ Cardinality(before \ {m}) = Cardinality(before) - 1
        /\ IsFiniteSet(before \ {m}) /\ Cardinality(before \ {m}) \in Nat
    BY <1>2, <2>1, FS_RemoveElement, FS_CardinalityType
  <2>3. Cardinality(after) <= Cardinality(before \ {m}) /\ Cardinality(after) \in Nat
    BY <2>1, <2>2, FS_Subset, FS_CardinalityType
  <2> HIDE DEF before, after
  <2>4. gw'[i].attempts + Cardinality(after) <= recs'[i].attempts
    BY <1>1, <1>2, <1>3, <1>4, <1>6, <2>2, <2>3
  <2> QED
    BY <2>4 DEF Counted, after
<1>7. ASSUME NEW x \in todo, Claim(x), pc' = "send", Underway = net, Underway' = net \union {cur'}
      PROVE  Counted(i)'
  <2>1. gw'[i].attempts = gw[i].attempts /\ pc # "send"
    BY <1>7 DEF Claim, gatewayVars, gatewayStore
  <2>2. PICK s \in Subs :
          /\ cur' = [id |-> x, sub |-> s, attempt |-> recs[x].attempts + 1]
          /\ recs' = [recs EXCEPT ![x] = [state |-> "sending", sub |-> s,
                                          attempts |-> recs[x].attempts + 1]]
    BY <1>7, <2>1, ClaimFacts
  <2>3. recs \in [Ids -> Deliveries(States)]
    BY DEF Consistent, TypeOK
  <2>4. CASE x = i
    <3>1. recs'[i].attempts = recs[i].attempts + 1
      BY <2>2, <2>3, <2>4
    <3>2. after = before \union {cur'}
      BY <1>7, <2>2, <2>4
    <3> HIDE DEF before, after
    <3>3. IsFiniteSet(after) /\ Cardinality(after) <= Cardinality(before) + 1
          /\ Cardinality(after) \in Nat
      <4>1. /\ IsFiniteSet(before \union {cur'})
            /\ Cardinality(before \union {cur'}) \in {Cardinality(before), Cardinality(before) + 1}
        BY <1>2, FS_AddElement
      <4> QED
        BY <1>2, <3>2, <4>1
    <3>4. gw'[i].attempts + Cardinality(after) <= recs'[i].attempts
      BY <1>1, <1>2, <1>3, <2>1, <3>1, <3>3
    <3> QED
      BY <3>4 DEF Counted, after
  <2>5. CASE x # i
    <3>1. after = before
      BY <1>7, <2>2, <2>5
    <3> HIDE DEF before, after
    <3>2. gw'[i].attempts + Cardinality(after) <= recs'[i].attempts
      BY <1>1, <1>2, <1>3, <1>4, <2>1, <3>1
    <3> QED
      BY <3>2 DEF Counted, after
  <2> QED
    BY <2>4, <2>5
<1>8. (\E x \in todo : Claim(x)) => gw'[i].attempts = gw[i].attempts
  BY DEF Claim, gatewayVars, gatewayStore
<1> QED
  BY <1>5, <1>6, <1>7, <1>8, UnderwayStep, GatewayStep

\* The invariant is kept by each step.
LEMMA ConsistentStep == Consistent /\ [Next]_vars => Consistent'
<1> SUFFICES ASSUME Consistent, [Next]_vars PROVE Consistent'
  OBVIOUS
<1>1. TypeOK' /\ Claimed' /\ AcceptedByGateway'
  BY TypeStep, ClaimedStep, AcceptedStep
<1>2. \A i \in Ids : Owned(i)' /\ Counted(i)'
  BY OwnedStep, CountedStep
<1>3. \A m \in Underway' : Requested(m)'
  BY RequestedStep
<1> QED
  BY <1>1, <1>2, <1>3 DEF Consistent

\* A record of an older release, and what the gateway says of it.
LegacyRow(i, b, s) ==
  /\ i = <<1, s>>
  /\ recs[i] = LegacyRec(b, s) /\ gw[i] = [LegacyRec(b, s) EXCEPT !.state = b[2]]

LEMMA LegacyFacts ==
  ASSUME NEW i, NEW b \in LegacyPairs, NEW s \in Subs, LegacyRow(i, b, s)
  PROVE  /\ recs[i] \in Deliveries(States) /\ gw[i] \in Deliveries(GatewayStates)
         /\ recs[i].state = b[1] /\ gw[i].state = b[2]
         /\ recs[i].state # "none" => recs[i].sub = s
         /\ recs[i].attempts \in {0, 1} /\ gw[i].attempts = recs[i].attempts
         /\ recs[i].state = "none" => recs[i].attempts = 0 /\ gw[i].state = "none"
         /\ recs[i].state = "accepted" => gw[i].state = "accepted"
<1>1. 0 \in 0 .. MaxAttempts /\ 1 \in 0 .. MaxAttempts
  BY AlertAssumption
<1>2. b[1] \in States /\ b[2] \in GatewayStates
      /\ (b[1] = "none" => b[2] = "none") /\ (b[1] = "accepted" => b[2] = "accepted")
  BY DEF LegacyPairs, States, GatewayStates
<1>3. LegacyRec(b, s) \in Deliveries(States) /\ LegacyRec(b, s).state = b[1]
      /\ (b[1] = "none" => LegacyRec(b, s).attempts = 0)
      /\ (b[1] # "none" => LegacyRec(b, s).sub = s)
      /\ LegacyRec(b, s).attempts \in {0, 1}
  BY <1>1, <1>2 DEF LegacyRec, Absent, Deliveries
<1>4. [LegacyRec(b, s) EXCEPT !.state = b[2]] \in Deliveries(GatewayStates)
      /\ [LegacyRec(b, s) EXCEPT !.state = b[2]].state = b[2]
      /\ [LegacyRec(b, s) EXCEPT !.state = b[2]].attempts = LegacyRec(b, s).attempts
  BY <1>2, <1>3 DEF Deliveries
<1> QED
  BY <1>2, <1>3, <1>4 DEF LegacyRow

\* At first there is what an older release has left.
LEMMA InitRows ==
  ASSUME Init
  PROVE  \E legacy \in SUBSET Legacy : \E left \in [legacy -> LegacyPairs] :
           /\ told = {<<1, s>> : s \in {x \in legacy : left[x][2] \in {"accepted", "unknown"}}}
           /\ doubled = {<<1, PhoneOf[s]>> :
                           s \in {x \in legacy : /\ left[x] = <<"pending", "accepted">>
                                                /\ \E y \in legacy \ {x} : PhoneOf[y] = PhoneOf[x]}}
           /\ \A s \in legacy : subs[s].state = "on"
           /\ \A i \in Ids : \/ recs[i] = Absent /\ gw[i] = Absent
                             \/ \E s \in legacy : LegacyRow(i, left[s], s)
           /\ \A s \in legacy : LegacyRow(<<1, s>>, left[s], s)
           /\ recs \in [Ids -> Deliveries(States)] /\ gw \in [Ids -> Deliveries(GatewayStates)]
<1>1. PICK legacy \in SUBSET Legacy : \E left \in [legacy -> LegacyPairs] : Upgraded(legacy, left)
  BY DEF Init
<1>2. PICK left \in [legacy -> LegacyPairs] : Upgraded(legacy, left)
  BY <1>1
<1>3. \A s \in legacy : s \in Subs /\ <<1, s>> \in Ids
  <2>1. 1 \in Results
    BY AlertAssumption DEF Results
  <2> QED
    BY <2>1, IdFacts, AlertAssumption
<1>4. /\ \A i \in Ids : \/ recs[i] = Absent /\ gw[i] = Absent
                        \/ \E s \in legacy : LegacyRow(i, left[s], s)
      /\ \A s \in legacy : LegacyRow(<<1, s>>, left[s], s)
  <2> DEFINE ids == {<<1, s>> : s \in legacy}
  <2>1. /\ recs = [i \in Ids |-> IF i \in ids THEN LegacyRec(left[i[2]], i[2]) ELSE Absent]
        /\ gw = [i \in Ids |-> IF i \in ids
                               THEN [LegacyRec(left[i[2]], i[2]) EXCEPT !.state = left[i[2]][2]]
                               ELSE Absent]
    BY <1>2 DEF Upgraded
  <2>2. \A s \in legacy : LegacyRow(<<1, s>>, left[s], s)
    BY <1>3, <2>1 DEF LegacyRow
  <2>3. \A i \in Ids : i \in ids => \E s \in legacy : i = <<1, s>>
    OBVIOUS
  <2> HIDE DEF ids
  <2> QED
    BY <2>1, <2>2, <2>3
<1>5. Absent \in Deliveries(States) /\ Absent \in Deliveries(GatewayStates)
  BY AlertAssumption DEF Absent, Deliveries, States, GatewayStates
<1>6. \A i \in Ids : recs[i] \in Deliveries(States) /\ gw[i] \in Deliveries(GatewayStates)
  BY <1>3, <1>4, <1>5, LegacyFacts
<1>7. recs \in [Ids -> Deliveries(States)] /\ gw \in [Ids -> Deliveries(GatewayStates)]
  BY <1>2, <1>6 DEF Upgraded
<1>8. \A s \in legacy : subs[s].state = "on"
  BY <1>2, <1>3 DEF Upgraded
<1> QED
  BY <1>2, <1>4, <1>7, <1>8 DEF Upgraded

LEMMA InitConsistent == Init => Consistent
<1> SUFFICES ASSUME Init PROVE Consistent
  OBVIOUS
<1>1. PICK legacy \in SUBSET Legacy : \E left \in [legacy -> LegacyPairs] : Upgraded(legacy, left)
  BY DEF Init
<1>2. PICK left \in [legacy -> LegacyPairs] : Upgraded(legacy, left)
  BY <1>1
<1>3. recs \in [Ids -> Deliveries(States)] /\ gw \in [Ids -> Deliveries(GatewayStates)]
  BY InitRows
<1>4. ASSUME NEW i \in Ids
      PROVE  /\ Owned(i) /\ gw[i].attempts = recs[i].attempts /\ recs[i].attempts \in Nat
             /\ recs[i].state = "accepted" => gw[i].state = "accepted"
  <2>1. CASE recs[i] = Absent /\ gw[i] = Absent
    BY <2>1 DEF Owned, Absent, Known
  <2>2. ASSUME NEW s \in Subs, NEW b \in LegacyPairs, LegacyRow(i, b, s)
        PROVE  /\ Owned(i) /\ gw[i].attempts = recs[i].attempts /\ recs[i].attempts \in Nat
               /\ recs[i].state = "accepted" => gw[i].state = "accepted"
    <3>1. s \notin Phones /\ Target(i) = PhoneOf[s]
      BY <2>2, AlertAssumption DEF LegacyRow, Target
    <3> QED
      BY <2>2, <3>1, LegacyFacts, AlertAssumption DEF Owned, Known
  <2>3. \A x \in SUBSET Legacy : \A s \in x : s \in Subs
    BY AlertAssumption
  <2> QED
    BY <2>1, <2>2, <2>3, InitRows
<1>5. net = {} /\ pc = "idle" /\ Underway = {}
  BY DEF Init, Underway
<1>6. \A i \in Ids : Counted(i)
  <2>1. \A i \in Ids : {m \in Underway : m.id = i} = {}
    BY <1>5
  <2> QED
    BY <1>4, <2>1, FS_EmptySet DEF Counted
<1>7. TypeOK
  <2>1. subs \in Subscriptions /\ gsubs \in [Subs -> {"none", "active", "revoked", "invalid"}]
        /\ finished \in 0 .. MaxResults
    BY <1>2, AlertAssumption DEF Upgraded, Subscriptions, Never
  <2>2. told \subseteq Ids /\ doubled \subseteq Results \X Phones
    <3>1. 1 \in Results
      BY AlertAssumption DEF Results
    <3>2. \A s \in legacy : s \in Subs /\ <<1, s>> \in Ids /\ <<1, PhoneOf[s]>> \in Results \X Phones
      BY <3>1, AlertAssumption, IdFacts
    <3> QED
      BY <1>2, <3>2 DEF Upgraded
  <2>3. IsFiniteSet(net)
    BY <1>5, FS_EmptySet
  <2> QED
    BY <1>3, <1>5, <2>1, <2>2, <2>3, AlertAssumption DEF Init, TypeOK
<1> QED
  BY <1>4, <1>5, <1>6, <1>7 DEF Consistent, Claimed, AcceptedByGateway

(***************************************************************************)
(* One delivery is selected for a phone and a result.                      *)
(***************************************************************************)
\* What a delivery is about is the id of one for its phone.
LEMMA AboutFacts ==
  ASSUME NEW i \in Ids
  PROVE  /\ About(i) \in Results \X Phones /\ About(i) \in Ids
         /\ About(About(i)) = About(i) /\ About(i)[2] \in Phones
         /\ \A j \in Ids : About(j) = About(i) <=> j[1] = i[1] /\ Target(j) = Target(i)
BY IdFacts DEF About, Target

LEMMA InitSelected == Init => OneSelected /\ ToldByDelivery
<1> SUFFICES ASSUME Init PROVE OneSelected /\ ToldByDelivery
  OBVIOUS
<1> DEFINE ToldThen(legacy, left) ==
             told = {<<1, s>> : s \in {x \in legacy : left[x][2] \in {"accepted", "unknown"}}}
           Doubled(legacy, left) ==
             doubled = {<<1, PhoneOf[s]>> :
                         s \in {x \in legacy : /\ left[x] = <<"pending", "accepted">>
                                              /\ \E y \in legacy \ {x} : PhoneOf[y] = PhoneOf[x]}}
           Rows(legacy, left) ==
             /\ \A s \in legacy : subs[s].state = "on"
             /\ \A i \in Ids : \/ recs[i] = Absent /\ gw[i] = Absent
                               \/ \E s \in legacy : LegacyRow(i, left[s], s)
             /\ \A s \in legacy : LegacyRow(<<1, s>>, left[s], s)
<1>1. PICK legacy \in SUBSET Legacy : \E left \in [legacy -> LegacyPairs] :
        ToldThen(legacy, left) /\ Doubled(legacy, left) /\ Rows(legacy, left)
  BY InitRows
<1>2. PICK left \in [legacy -> LegacyPairs] :
        ToldThen(legacy, left) /\ Doubled(legacy, left) /\ Rows(legacy, left)
  BY <1>1
<1>3. \A s \in legacy : /\ s \in Subs /\ left[s] \in LegacyPairs
                        /\ <<1, s>> \in Ids /\ About(<<1, s>>) = <<1, PhoneOf[s]>>
                        /\ recs[<<1, s>>].state = left[s][1] /\ gw[<<1, s>>].state = left[s][2]
  <2>1. 1 \in Results
    BY AlertAssumption DEF Results
  <2>2. \A s \in legacy : s \in Subs /\ left[s] \in LegacyPairs /\ s \notin Phones
    BY AlertAssumption
  <2>3. \A s \in legacy : <<1, s>> \in Ids /\ About(<<1, s>>) = <<1, PhoneOf[s]>>
    BY <2>1, <2>2, IdFacts DEF About, Target
  <2>4. \A s \in legacy : recs[<<1, s>>].state = left[s][1] /\ gw[<<1, s>>].state = left[s][2]
    BY <1>2, <2>2, LegacyFacts
  <2> QED
    BY <2>2, <2>3, <2>4
<1>4. \A i \in Ids : (recs[i].state # "none" \/ gw[i].state # "none") => \E s \in legacy : i = <<1, s>>
  <2>1. Absent.state = "none"
    BY DEF Absent
  <2>2. \A i \in Ids : \A s \in legacy : LegacyRow(i, left[s], s) => i = <<1, s>>
    BY DEF LegacyRow
  <2> QED
    BY <1>2, <2>1, <2>2
<1>5. ASSUME NEW i \in Known
      PROVE  SelectedAlone(i)
  <2>1. PICK s \in legacy : i = <<1, s>>
    BY <1>4 DEF Known
  <2>2. pc = "idle" /\ net = {}
    BY DEF Init
  <2>3. ASSUME About(i) \notin doubled, i \in Live, recs[i].state \in {"pending", "cancelled"}
        PROVE  Alone(i)
    <3>1. left[s] = <<"pending", "accepted">>
      BY <1>3, <2>1, <2>3 DEF LegacyPairs, Live
    <3>2. ASSUME NEW j \in Known \ {i}, About(j) = About(i)
          PROVE  FALSE
      <4>1. PICK y \in legacy : j = <<1, y>>
        BY <1>4 DEF Known
      <4>2. y # s /\ PhoneOf[y] = PhoneOf[s]
        BY <1>3, <2>1, <3>2, <4>1
      <4>3. <<1, PhoneOf[s]>> \in doubled
        BY <1>2, <3>1, <4>2
      <4> QED
        BY <1>3, <2>1, <2>3, <4>3
    <3> QED
      BY <3>2 DEF Alone
  <2> QED
    BY <2>2, <2>3 DEF SelectedAlone, Handled
<1>6. ASSUME NEW i \in Known
      PROVE  Seen(i)
  <2>1. PICK s \in legacy : i = <<1, s>>
    BY <1>4 DEF Known
  <2>2. LegacyRow(i, left[s], s) /\ left[s] \in LegacyPairs /\ i[2] = s
    BY <1>2, <1>3, <2>1
  <2>3. recs[i] = LegacyRec(left[s], s) /\ recs[i].state = left[s][1]
    BY <1>3, <2>1, <2>2 DEF LegacyRow
  <2>4. recs[i].state \in {"sending", "accepted", "unknown", "failed"} => recs[i].attempts > 0
    BY <2>2, <2>3 DEF LegacyRec, LegacyPairs
  <2> QED
    BY <1>2, <2>2, <2>4 DEF Seen
<1>7. told = Live
  <2>1. \A i \in Live : \E s \in legacy : i = <<1, s>> /\ left[s][2] \in {"accepted", "unknown"}
    <3>1. \A s \in legacy : left[s][2] # "sending"
      BY <1>3 DEF LegacyPairs
    <3> QED
      BY <1>3, <1>4, <3>1 DEF Live
  <2>2. \A s \in legacy : left[s][2] \in {"accepted", "unknown"} => <<1, s>> \in Live
    BY <1>3 DEF Live
  <2> QED
    BY <1>2, <2>1, <2>2
<1> QED
  BY <1>5, <1>6, <1>7 DEF OneSelected, ToldByDelivery

\* What a plan does to the state of a delivery.
LEMMA PlanRows ==
  ASSUME Consistent, Plan, NEW i \in Ids
  PROVE  /\ \/ recs'[i] = recs[i] /\ recs[i].state # "sending"
            \/ /\ recs[i].state = "sending" /\ recs'[i].state = "unknown"
               /\ recs'[i].attempts = recs[i].attempts
            \/ /\ recs[i].state = "pending" /\ recs'[i].state = "cancelled"
               /\ recs'[i].attempts = recs[i].attempts
            \/ /\ i \notin Known /\ recs'[i].state = "pending"
               /\ Selected(Recovered, i[1], Target(i)) = i
         /\ Targeted(i[1], Target(i)) /\ Duplicate(Recovered, i) /\ recs[i].state = "pending"
              => recs'[i].state = "cancelled"
<1>1. recs'[i] = Planned(Recovered)[i] /\ PlannedRow(i) /\ TypeOK
  BY PlannedRows DEF Plan, Consistent
<1>2. Recovered[i] \in Deliveries(States) /\ recs[i] \in Deliveries(States)
  BY <1>1, RecoveredTypes DEF TypeOK
<1>3. \/ Recovered[i] = recs[i] /\ recs[i].state # "sending"
      \/ recs[i].state = "sending" /\ Recovered[i] = [recs[i] EXCEPT !.state = "unknown"]
  BY <1>1, RecoveredTypes
<1>4. ASSUME Targeted(i[1], Target(i)), Duplicate(Recovered, i), recs[i].state = "pending"
      PROVE  recs'[i].state = "cancelled"
  <2>1. Recovered[i] = recs[i]
    BY <1>3, <1>4
  <2>2. Planned(Recovered)[i] = [Recovered[i] EXCEPT !.state = "cancelled"]
    BY <1>4, <2>1 DEF Planned
  <2> QED
    BY <1>1, <1>2, <2>2 DEF Deliveries
<1>5. CASE recs'[i] = Recovered[i]
  BY <1>2, <1>3, <1>4, <1>5 DEF Deliveries
<1>6. CASE Recovered[i].state = "pending" /\ recs'[i] = [Recovered[i] EXCEPT !.state = "cancelled"]
  BY <1>2, <1>3, <1>6 DEF Deliveries
<1>7. CASE /\ Recovered[i].state = "none" /\ Selected(Recovered, i[1], Target(i)) = i
           /\ \E s \in recipients : recs'[i] = [state |-> "pending", attempts |-> 0, sub |-> s]
  BY <1>2, <1>3, <1>7 DEF Deliveries, Known
<1> QED
  BY <1>1, <1>4, <1>5, <1>6, <1>7 DEF PlannedRow

\* deliveryPlans() looks at all deliveries for a result and a phone.
LEMMA ExistingFacts ==
  ASSUME Consistent, OneSelected, NEW i \in Ids
  PROVE  Existing(Recovered, i[1], Target(i)) = {j \in Known : About(j) = About(i)}
<1> DEFINE all == Existing(Recovered, i[1], Target(i))
<1>1. \A j \in Ids : Recovered[j].state # "none" <=> j \in Known
  <2>1. \A j \in Ids : recs[j] \in Deliveries(States)
    BY DEF Consistent, TypeOK
  <2> QED
    BY <2>1, RecoveredTypes DEF Known, Deliveries, Consistent
<1>2. ASSUME NEW j \in Known, About(j) = About(i)
      PROVE  j \in all
  <2>1. j \in Ids /\ j = <<j[1], j[2]>> /\ j[2] \in Phones \union Subs
    BY IdFacts DEF Known
  <2>2. j[1] = i[1] /\ Target(j) = Target(i)
    BY <1>2, <2>1, AboutFacts
  <2>3. CASE j[2] \in Phones
    BY <1>1, <2>1, <2>2, <2>3 DEF Existing, Target
  <2>4. CASE j[2] \in Subs /\ j[2] \notin Phones
    <3>1. PhoneOf[j[2]] = Target(i) /\ subs[j[2]].state # "new"
      BY <2>2, <2>4 DEF Target, OneSelected, Seen
    <3>2. j = <<i[1], j[2]>>
      BY <2>1, <2>2
    <3> QED
      BY <1>1, <2>1, <2>4, <3>1, <3>2 DEF Existing
  <2> QED
    BY <2>1, <2>3, <2>4
<1>3. ASSUME NEW j \in all
      PROVE  j \in Known /\ About(j) = About(i)
  <2>1. i[1] \in Results /\ Target(i) \in Phones
    BY IdFacts
  <2>2. /\ j = <<i[1], Target(i)>> \/ \E s \in Subs : j = <<i[1], s>> /\ PhoneOf[s] = Target(i)
        /\ Recovered[j].state # "none"
    BY <1>3 DEF Existing
  <2>3. j \in Ids /\ j[1] = i[1] /\ Target(j) = Target(i)
    BY <2>1, <2>2, IdFacts, AlertAssumption DEF Target
  <2> QED
    BY <1>1, <2>2, <2>3, AboutFacts
<1> QED
  BY <1>2, <1>3 DEF Known

\* There is a first one among those that are preferred most.
LEMMA LeastRank ==
  ASSUME NEW d, NEW all, all # {}
  PROVE  \E i \in all : \A j \in all : Rank(d[i]) <= Rank(d[j])
<1>1. \A rec : Rank(rec) \in 1 .. 4
  BY DEF Rank
<1> DEFINE R(i) == Rank(d[i])
<1>2. \A i \in all : R(i) \in 1 .. 4
  BY <1>1
<1> HIDE DEF R
<1>3. \E i \in all : \A j \in all : R(i) <= R(j)
  <2>1. CASE \E i \in all : R(i) = 1
    BY <1>2, <2>1
  <2>2. CASE (\A i \in all : R(i) # 1) /\ \E i \in all : R(i) = 2
    BY <1>2, <2>2
  <2>3. CASE (\A i \in all : R(i) \notin {1, 2}) /\ \E i \in all : R(i) = 3
    BY <1>2, <2>3
  <2>4. CASE \A i \in all : R(i) \notin {1, 2, 3}
    BY <1>2, <2>4
  <2> QED
    BY <2>1, <2>2, <2>3, <2>4
<1> QED
  BY <1>3 DEF R

\* The one selected is the phone's own if there is none.
LEMMA SelectedFacts ==
  ASSUME Consistent, OneSelected, NEW i \in Ids
  PROVE  LET all == {j \in Known : About(j) = About(i)}
             selected == Selected(Recovered, i[1], Target(i))
         IN /\ all = {} => selected = About(i)
            /\ all # {} => /\ selected \in all
                           /\ \A j \in all : Rank(Recovered[selected]) <= Rank(Recovered[j])
<1> DEFINE all == {j \in Known : About(j) = About(i)}
           selected == Selected(Recovered, i[1], Target(i))
           Preferred(k) == \A j \in all : Rank(Recovered[k]) <= Rank(Recovered[j])
<1>1. Existing(Recovered, i[1], Target(i)) = all
  BY ExistingFacts
<1>2. CASE all = {}
  BY <1>1, <1>2 DEF Selected, About
<1>3. CASE all # {}
  <2>1. selected = CHOOSE k \in all : Preferred(k)
    BY <1>1, <1>3 DEF Selected
  <2>2. \E k \in all : Preferred(k)
    BY <1>3, LeastRank
  <2> HIDE DEF selected, Preferred, all
  <2>3. selected \in all /\ Preferred(selected)
    BY <2>1, <2>2
  <2> QED
    BY <1>3, <2>3 DEF selected, Preferred, all
<1> QED
  BY <1>2, <1>3

\* A delivery that is handled is known.
LEMMA HandledKnown ==
  ASSUME Consistent, NEW i \in Ids, Handled(i)
  PROVE  i \in Known
<1>1. CASE \E m \in net : m.id = i
  BY <1>1 DEF Consistent, Underway, Requested
<1>2. CASE pc \in {"send", "wait", "store"} /\ cur.id = i
  BY <1>2 DEF Consistent, Claimed, Known
<1>3. CASE recs[i].state \in {"pending", "cancelled"}
  BY <1>3 DEF Known
<1> QED
  BY <1>1, <1>2, <1>3 DEF Handled

\* What a step does to the backend's record of a delivery.
LEMMA RowStep ==
  ASSUME Consistent, [Next]_vars, NEW i \in Ids
  PROVE  \/ Plan
         \/ recs'[i] = recs[i]
         \/ /\ i \in todo /\ Claim(i) /\ recs[i].state = "pending"
            /\ \/ /\ recs'[i].state = "sending" /\ pc' = "send"
                  /\ recs'[i].attempts = recs[i].attempts + 1
               \/ recs'[i].state = "cancelled"
         \/ /\ StoreResult /\ cur.id = i /\ recs[i].state = "sending"
            /\ recs'[i].attempts = recs[i].attempts
            /\ recs'[i].state \notin {"none", "sending", "cancelled"}
<1>1. recs \in [Ids -> Deliveries(States)]
  BY DEF Consistent, TypeOK
<1>2. ASSUME NEW x \in todo, Claim(x), x # i
      PROVE  recs'[i] = recs[i]
  BY <1>1, <1>2, ClaimFacts
<1>3. ASSUME i \in todo, Claim(i)
      PROVE  /\ recs[i].state = "pending"
             /\ \/ /\ recs'[i].state = "sending" /\ pc' = "send"
                   /\ recs'[i].attempts = recs[i].attempts + 1
                \/ recs'[i].state = "cancelled"
  <2>1. recs[i].state = "pending"
    BY <1>3 DEF Claim
  <2> QED
    BY <1>1, <1>3, <2>1, ClaimFacts DEF Deliveries
<1>4. CASE StoreResult /\ cur.id # i
  BY <1>1, <1>4, StoreFacts
<1>5. CASE StoreResult /\ cur.id = i
  <2>1. recs[i].state = "sending"
    BY <1>5 DEF StoreResult, Consistent, Claimed
  <2>2. result # "cancelled"
    BY <1>5 DEF StoreResult, Consistent, TypeOK
  <2>3. recs'[i].state # "cancelled"
    BY <1>1, <1>5, <2>2 DEF StoreResult, Settle, Deliveries
  <2>4. PICK x \in States \ {"none", "sending"} : recs' = [recs EXCEPT ![cur.id].state = x]
    BY <1>5, StoreFacts
  <2> QED
    BY <1>1, <1>5, <2>1, <2>3, <2>4 DEF Deliveries
<1>6. CASE UNCHANGED recs
  BY <1>6
<1> QED
  BY <1>2, <1>3, <1>4, <1>5, <1>6
  DEF Next, vars, storeVars, Finish, Age, Subscribing, Register, Sync, Confirm, Disable, Revoke,
      Pass, PassStart, ListRecentlyFinishedRuns, Skip, Send, PassEnd, Refused, WriteFails,
      Stop, Stopped, Crash, Restart, NoAnswer, Handle, Stale, Inactive, Replay, TooLate, TooSoon,
      Submit, Outcome, GatewayCrash, GatewayStart

\* Only a plan adds a delivery.
LEMMA KnownNew ==
  ASSUME Consistent, [Next]_vars, NEW i \in Known', i \notin Known
  PROVE  Plan
<1>1. i \in Ids /\ recs[i].state = "none" /\ recs'[i].state # "none"
  BY DEF Known
<1> QED
  BY <1>1, RowStep

\* Only a plan forgets what the pass has not planned, and history stays.
LEMMA PlannedStep ==
  ASSUME Consistent, [Next]_vars
  PROVE  /\ doubled \subseteq doubled'
         /\ pc' \in {"items", "send", "wait", "store"} =>
              \/ Plan
              \/ pc \in {"items", "send", "wait", "store"} /\ unplanned' = unplanned
<1>1. CASE Pass \/ \E o \in {"unknown", "retry"} : NoAnswer(o)
  BY <1>1
  DEF Pass, PassStart, ListRecentlyFinishedRuns, Skip, Claim, Send, StoreResult, PassEnd,
      Plan, Refused, NoAnswer, Idle, planVars
<1>2. CASE WriteFails \/ Stop \/ Stopped \/ Crash \/ Restart \/ Finish \/ Age
           \/ GatewayCrash \/ GatewayStart \/ UNCHANGED vars
  BY <1>2
  DEF WriteFails, Stop, Stopped, Crash, Restart, Finish, Age, GatewayCrash, GatewayStart, Idle,
      vars, passVars, planVars
<1>3. CASE \E s \in Subs : Subscribing(s)
  BY <1>3 DEF Subscribing, Register, Sync, Confirm, Disable, Revoke, passVars, planVars
<1>4. CASE \E m \in net : Handle(m)
  BY <1>4
  DEF Handle, Stale, Inactive, Replay, TooLate, TooSoon, Submit, Answer, passVars, planVars
<1>5. CASE \E i \in Ids : \E o \in {"accepted", "unknown", "retry", "failed"} : Outcome(i, o)
  BY <1>5 DEF Outcome, planVars
<1> QED
  BY <1>1, <1>2, <1>3, <1>4, <1>5 DEF Next

\* Only a submission makes a delivery one that the phone may be told by.
LEMMA LiveStep ==
  ASSUME Consistent, [Next]_vars, NEW i \in Live'
  PROVE  i \in Live \/ \E m \in net : Submit(m) /\ m.id = i
<1>1. gw \in [Ids -> Deliveries(GatewayStates)] /\ i \in Ids
  BY DEF Consistent, TypeOK, Live
<1>2. ASSUME NEW m \in net, Submit(m), m.id # i PROVE i \in Live
  BY <1>1, <1>2 DEF Submit, Live
<1>3. ASSUME NEW m \in net, TooLate(m) PROVE i \in Live
  BY <1>1, <1>3 DEF TooLate, Live, Deliveries
<1>4. ASSUME NEW x \in Ids, NEW o \in {"accepted", "unknown", "retry", "failed"}, Outcome(x, o)
      PROVE  i \in Live
  BY <1>1, <1>4 DEF Outcome, Live, Deliveries
<1>5. CASE GatewayStart
  BY <1>1, <1>5 DEF GatewayStart, Live, Deliveries
<1>6. CASE UNCHANGED gw
  BY <1>6 DEF Live
<1> QED
  BY <1>2, <1>3, <1>4, <1>5, <1>6
  DEF Next, vars, gatewayVars, gatewayStore, Finish, Age, Subscribing, Register, Sync, Confirm,
      Disable, Revoke, Pass, PassStart, ListRecentlyFinishedRuns, Plan, Skip, Claim, Send,
      StoreResult, PassEnd, Refused, WriteFails, Stop, Stopped, Crash, Restart, NoAnswer,
      Handle, Stale, Inactive, Replay, TooSoon, GatewayCrash

\* A delivery is handled since its claim.
LEMMA HandledStep ==
  ASSUME Consistent, [Next]_vars, NEW i \in Ids, Handled(i)'
  PROVE  Handled(i) \/ (i \in todo /\ Claim(i) /\ pc' = "send")
<1>1. CASE \E m \in net' : m.id = i
  BY <1>1, NetStep DEF Handled
<1>2. CASE pc' \in {"send", "wait", "store"} /\ cur'.id = i
  <2>1. ASSUME NEW x \in todo, Claim(x), pc' = "send" PROVE x = i
    <3>1. pc # "send"
      BY <2>1 DEF Claim
    <3> QED
      BY <1>2, <2>1, <3>1, ClaimFacts
  <2> QED
    BY <1>2, <2>1, PassStep DEF Handled
<1>3. CASE recs'[i].state \in {"pending", "cancelled"} /\ i \in Live'
  <2>1. ASSUME NEW m \in net, m.id = i PROVE Handled(i)
    BY <2>1 DEF Handled
  <2>2. ASSUME i \in Live PROVE Handled(i)
    <3>1. i \in Known
      BY <2>2 DEF Consistent, Owned, Live
    <3>2. ASSUME recs[i].state \in {"pending", "cancelled"} PROVE Handled(i)
      BY <2>2, <3>2 DEF Handled
    <3>3. CASE Plan
      BY <1>3, <3>1, <3>2, <3>3, PlanRows
    <3>4. CASE StoreResult /\ cur.id = i
      BY <3>4 DEF StoreResult, Handled
    <3> QED
      BY <1>3, <3>2, <3>3, <3>4, RowStep
  <2> QED
    BY <1>3, <2>1, <2>2, LiveStep
<1> QED
  BY <1>1, <1>2, <1>3 DEF Handled

\* A new delivery is the only one for its result and phone.
LEMMA PlannedNew ==
  ASSUME Consistent, OneSelected, Plan, NEW i \in Known', i \notin Known
  PROVE  /\ i \in Ids /\ i = About(i)
         /\ \A j \in Known' : About(j) = About(i) => j = i
<1>1. i \in Ids
  BY DEF Known
<1> DEFINE all(x) == {j \in Known : About(j) = About(x)}
           selected(x) == Selected(Recovered, x[1], Target(x))
<1>2. ASSUME NEW x \in Known', x \notin Known
      PROVE  x \in Ids /\ selected(x) = x /\ all(x) = {} /\ x = About(x)
  <2>1. x \in Ids
    BY DEF Known
  <2>2. selected(x) = x
    BY <1>2, <2>1, PlanFacts DEF Consistent
  <2>3. /\ all(x) = {} => selected(x) = About(x)
        /\ all(x) # {} => selected(x) \in all(x)
    BY <2>1, SelectedFacts
  <2> HIDE DEF selected
  <2>4. all(x) = {}
    BY <1>2, <2>2, <2>3
  <2> QED
    BY <2>1, <2>2, <2>3, <2>4
<1> HIDE DEF selected
<1>3. i = About(i) /\ all(i) = {}
  BY <1>2
<1>4. ASSUME NEW j \in Known', About(j) = About(i)
      PROVE  j = i
  <2>1. j \notin Known
    BY <1>3, <1>4
  <2> QED
    BY <1>2, <1>3, <1>4, <2>1
<1> QED
  BY <1>1, <1>3, <1>4

\* Where a plan leaves a delivery pending, it cancels the others.
LEMMA PlanAlone ==
  ASSUME Consistent, OneSelected, Plan, NEW i \in Known', NEW j \in Known' \ {i},
         About(j) = About(i), recs'[i].state = "pending", About(i) \notin unplanned'
  PROVE  /\ i \in Known /\ j \in Known /\ recs[i].state = "pending"
         /\ recs[j].state \in {"pending", "cancelled"} /\ recs'[j].state = "cancelled"
<1>1. i \in Known /\ j \in Known /\ i \in Ids /\ j \in Ids /\ j # i
  BY PlannedNew DEF Known
<1>2. recs[i].state = "pending" /\ Recovered[i] = recs[i]
  BY <1>1, PlanRows, RecoveredTypes DEF Consistent, Known
<1>3. i[1] = j[1] /\ Target(i) = Target(j) /\ About(i) = <<i[1], Target(i)>>
      /\ About(i) \in Results \X Phones
  BY <1>1, AboutFacts DEF About
<1>4. Targeted(i[1], Target(i))
  <2>1. Shared(i[1], Target(i))
    BY <1>1, <1>3 DEF Shared
  <2>2. ~(Shared(About(i)[1], About(i)[2]) /\ ~Targeted(About(i)[1], About(i)[2]))
    BY <1>3 DEF Plan
  <2> QED
    BY <1>3, <2>1, <2>2
<1> DEFINE selected == Selected(Recovered, i[1], Target(i))
<1>5. i \in Existing(Recovered, i[1], Target(i)) /\ j \in Existing(Recovered, i[1], Target(i))
  BY <1>1, ExistingFacts
<1>6. selected = i
  <2>1. selected # i => recs'[i].state = "cancelled"
    BY <1>1, <1>2, <1>4, <1>5, PlanRows DEF Duplicate
  <2> QED
    BY <2>1
<1>7. Rank(Recovered[i]) <= Rank(Recovered[j])
  BY <1>1, <1>6, SelectedFacts
<1>8. recs[j].state \in {"pending", "cancelled"}
  <2>1. /\ recs[j] \in Deliveries(States) /\ recs[j].attempts \in Nat
        /\ \/ Recovered[j] = recs[j] /\ recs[j].state # "sending"
           \/ recs[j].state = "sending" /\ Recovered[j] = [recs[j] EXCEPT !.state = "unknown"]
    BY <1>1, RecoveredTypes, DeliveryTypes DEF Consistent, TypeOK
  <2>2. SUFFICES ASSUME recs[j].state \notin {"pending", "cancelled"} PROVE FALSE
    OBVIOUS
  <2>3. recs[j].attempts > 0
    BY <1>1, <2>1, <2>2 DEF OneSelected, Seen, Known, States, Deliveries
  <2>4. Recovered[j].state \notin {"pending", "cancelled"} /\ Recovered[j].attempts > 0
    BY <2>1, <2>2, <2>3 DEF Deliveries
  <2>5. Rank(Recovered[j]) = 1 /\ Rank(Recovered[i]) \in {2, 3}
    BY <1>2, <2>4 DEF Rank
  <2> QED
    BY <1>7, <2>5
<1>9. CASE recs[j].state = "pending"
  BY <1>1, <1>3, <1>4, <1>5, <1>6, <1>9, PlanRows DEF Duplicate
<1>10. CASE recs[j].state = "cancelled"
  BY <1>1, <1>10, PlanRows
<1> QED
  BY <1>1, <1>2, <1>8, <1>9, <1>10

\* A delivery that is alone stays so.
LEMMA AloneStep ==
  ASSUME Consistent, OneSelected, [Next]_vars, NEW i \in Known, Alone(i)
  PROVE  Alone(i)'
<1> SUFFICES ASSUME NEW j \in Known' \ {i}, About(j) = About(i)
             PROVE  recs'[j].state = "cancelled" /\ ~Handled(j)'
  BY DEF Alone, About, Target
<1>1. i \in Known' /\ j \in Ids
  BY KnownStep DEF Known
<1>2. j \in Known
  BY <1>1, KnownNew, PlannedNew
<1>3. recs[j].state = "cancelled" /\ ~Handled(j)
  BY <1>2 DEF Alone
<1>4. recs'[j].state = "cancelled"
  <2>1. CASE Plan
    BY <1>1, <1>2, <1>3, <2>1, PlanRows
  <2> QED
    BY <1>1, <1>3, <2>1, RowStep
<1>5. ~Handled(j)'
  BY <1>1, <1>3, HandledStep DEF Claim
<1> QED
  BY <1>4, <1>5

\* One delivery stays selected.
LEMMA SelectedStep ==
  ASSUME Consistent, OneSelected, [Next]_vars
  PROVE  OneSelected'
<1>1. ASSUME NEW i \in Known', About(i) \notin doubled', Handled(i)'
      PROVE  Alone(i)'
  <2>1. i \in Ids /\ About(i) \notin doubled
    BY <1>1, PlannedStep DEF Known
  <2>2. CASE Handled(i)
    <3>1. i \in Known /\ Alone(i)
      BY <2>1, <2>2, HandledKnown DEF OneSelected, SelectedAlone
    <3> QED
      BY <3>1, AloneStep
  <2>3. CASE i \in todo /\ Claim(i) /\ pc' = "send"
    <3>1. pc = "items" /\ recs[i].state = "pending" /\ i \in Known
      BY <2>1, <2>3 DEF Claim, Known
    <3>2. About(i) \notin unplanned
      BY <1>1, <2>3, <3>1 DEF Claim
    <3>3. Alone(i)
      BY <2>1, <3>1, <3>2 DEF OneSelected, SelectedAlone
    <3> QED
      BY <3>1, <3>3, AloneStep
  <2> QED
    BY <1>1, <2>1, <2>2, <2>3, HandledStep
<1>2. ASSUME NEW i \in Known', About(i) \notin doubled',
             pc' \in {"items", "send", "wait", "store"}, recs'[i].state = "pending",
             About(i) \notin unplanned'
      PROVE  Alone(i)'
  <2>1. i \in Ids /\ About(i) \notin doubled
    BY <1>2, PlannedStep DEF Known
  <2>2. CASE Plan
    <3>1. ASSUME NEW j \in Known' \ {i}, About(j) = About(i)
          PROVE  recs'[j].state = "cancelled" /\ ~Handled(j)'
      <4>1. /\ i \in Known /\ j \in Known /\ recs[i].state = "pending"
            /\ recs[j].state \in {"pending", "cancelled"} /\ recs'[j].state = "cancelled"
        BY <1>2, <2>2, <3>1, PlanAlone
      <4>2. ~Handled(j)
        BY <2>1, <3>1, <4>1 DEF OneSelected, SelectedAlone, Alone
      <4>3. j \in Ids /\ ~Claim(j)
        BY <2>2, <4>1 DEF Plan, Claim, Known
      <4> QED
        BY <4>1, <4>2, <4>3, HandledStep
    <3> QED
      BY <3>1 DEF Alone, About, Target
  <2>3. CASE ~Plan
    <3>1. i \in Known
      BY <1>2, <2>3, KnownNew
    <3>2. pc \in {"items", "send", "wait", "store"} /\ unplanned' = unplanned
      BY <1>2, <2>3, PlannedStep
    <3>3. recs[i].state = "pending" \/ (StoreResult /\ cur.id = i)
      BY <1>2, <2>1, <2>3, RowStep
    <3>4. StoreResult /\ cur.id = i => Handled(i)
      BY DEF StoreResult, Handled
    <3>5. Alone(i)
      BY <1>2, <2>1, <3>1, <3>2, <3>3, <3>4 DEF OneSelected, SelectedAlone
    <3> QED
      BY <3>1, <3>5, AloneStep
  <2> QED
    BY <2>2, <2>3
<1>3. ASSUME NEW i \in Known', i[2] \in Subs
      PROVE  subs'[i[2]].state # "new"
  <2>1. CASE i \in Known
    BY <1>3, <2>1, SubscriptionStep DEF OneSelected, Seen
  <2>2. CASE i \notin Known
    <3>1. i = About(i) /\ i \in Ids
      BY <2>2, KnownNew, PlannedNew
    <3> QED
      BY <1>3, <3>1, AboutFacts, AlertAssumption
  <2> QED
    BY <2>1, <2>2
<1>4. ASSUME NEW i \in Known',
             recs'[i].state \in {"sending", "accepted", "unknown", "failed"}
      PROVE  recs'[i].attempts > 0
  <2>1. i \in Ids /\ recs[i].attempts \in Nat
    BY DeliveryTypes DEF Known, Consistent, TypeOK
  <2>2. ASSUME recs[i].state \in {"sending", "accepted", "unknown", "failed"}
        PROVE  recs[i].attempts > 0
    BY <2>1, <2>2 DEF OneSelected, Seen, Known
  <2>3. CASE Plan
    BY <1>4, <2>1, <2>2, <2>3, PlanRows
  <2> QED
    BY <1>4, <2>1, <2>2, <2>3, RowStep
<1> QED
  BY <1>1, <1>2, <1>3, <1>4 DEF OneSelected, SelectedAlone, Seen, About, Target

\* History is what the gateway's store says.
LEMMA ToldStep ==
  ASSUME Consistent, ToldByDelivery, [Next]_vars
  PROVE  ToldByDelivery'
<1>1. gw \in [Ids -> Deliveries(GatewayStates)]
  BY DEF Consistent, TypeOK
<1> USE <1>1 DEF ToldByDelivery, Live
<1>2. ASSUME NEW m \in net, TooLate(m) PROVE told' = Live'
  BY <1>2 DEF TooLate, Deliveries
<1>3. ASSUME NEW m \in net, Submit(m) PROVE told' = Live'
  <2>1. m.id \in Ids
    BY RequestTypes DEF Consistent
  <2> QED
    BY <1>3, <2>1 DEF Submit, Deliveries
<1>4. ASSUME NEW i \in Ids, NEW o \in {"accepted", "unknown", "retry", "failed"}, Outcome(i, o)
      PROVE  told' = Live'
  <2>1. \A j \in Ids : gw'[j].state = IF j = i THEN o ELSE gw[j].state
    BY <1>4 DEF Outcome, Deliveries
  <2>2. gw[i].state = "sending" /\ told' = IF o \in {"retry", "failed"} THEN told \ {i} ELSE told
    BY <1>4 DEF Outcome
  <2> QED
    BY <2>1, <2>2
<1>5. CASE GatewayStart
  BY <1>5 DEF GatewayStart, Deliveries
<1>6. CASE UNCHANGED <<gw, told>>
  BY <1>6
<1> QED
  BY <1>2, <1>3, <1>4, <1>5, <1>6
  DEF Next, vars, gatewayVars, gatewayStore, Finish, Age, Subscribing, Register, Sync, Confirm,
      Disable, Revoke, Pass, PassStart, ListRecentlyFinishedRuns, Plan, Skip, Claim, Send,
      StoreResult, PassEnd, Refused, WriteFails, Stop, Stopped, Crash, Restart, NoAnswer,
      Handle, Stale, Inactive, Replay, TooSoon, GatewayCrash

\* A submission is the gateway's step for a request.
LEMMA Submissions ==
  ASSUME Consistent, [Next]_vars, NEW i \in Ids, Submitted(i)
  PROVE  \E m \in net : Submit(m) /\ m.id = i
<1>1. gw \in [Ids -> Deliveries(GatewayStates)]
  BY DEF Consistent, TypeOK
<1>2. ASSUME NEW m \in net, Submit(m) PROVE m.id = i
  BY <1>1, <1>2 DEF Submit, Submitted
<1>3. ASSUME NEW m \in net, TooLate(m) PROVE FALSE
  BY <1>1, <1>3 DEF TooLate, Submitted, Deliveries
<1>4. ASSUME NEW x \in Ids, NEW o \in {"accepted", "unknown", "retry", "failed"}, Outcome(x, o)
      PROVE  FALSE
  BY <1>1, <1>4 DEF Outcome, Submitted, Deliveries
<1>5. CASE GatewayStart
  BY <1>1, <1>5 DEF GatewayStart, Submitted, Deliveries
<1>6. CASE UNCHANGED gw
  BY <1>6 DEF Submitted
<1> QED
  BY <1>2, <1>3, <1>4, <1>5, <1>6
  DEF Next, vars, gatewayVars, gatewayStore, Finish, Age, Subscribing, Register, Sync, Confirm,
      Disable, Revoke, Pass, PassStart, ListRecentlyFinishedRuns, Plan, Skip, Claim, Send,
      StoreResult, PassEnd, Refused, WriteFails, Stop, Stopped, Crash, Restart, NoAnswer,
      Handle, Stale, Inactive, Replay, TooSoon, GatewayCrash

(***************************************************************************)
(* Whatever an older release has left, the stores, the requests under way  *)
(* and the answers agree: what is sent was claimed, a request is for a     *)
(* connection confirmed in time, and each attempt of the gateway has used  *)
(* up a request of its own (run(), deliver()).                             *)
(***************************************************************************)
THEOREM AlertsConsistent == Spec => []Consistent
<1>1. Init => Consistent
  BY InitConsistent
<1>2. Consistent /\ [Next]_vars => Consistent'
  BY ConsistentStep
<1> QED
  BY <1>1, <1>2, PTL DEF Spec

\* The stores, the pass and the network keep their types.
THEOREM AlertTypes == Spec => []TypeOK
<1>1. Consistent => TypeOK
  BY DEF Consistent
<1> QED
  BY <1>1, AlertsConsistent, PTL

\* An alert goes only over a connection that was confirmed before the result, and not
\* more often than the backend counts (the claim in run(), deliver()).
THEOREM AlertsWithConsent == Spec => OnlyWithConsent
<1>1. Consistent /\ [Next]_vars =>
        [\A i \in Ids : Submitted(i) => /\ subs[gw'[i].sub].since < i[1]
                                        /\ gw[i].attempts < recs[i].attempts]_vars
  <2> SUFFICES ASSUME Consistent, [Next]_vars, NEW i \in Ids, Submitted(i)
               PROVE  subs[gw'[i].sub].since < i[1] /\ gw[i].attempts < recs[i].attempts
    OBVIOUS
  <2>1. PICK m \in net : Submit(m) /\ m.id = i
    BY Submissions
  <2>2. gw \in [Ids -> Deliveries(GatewayStates)] /\ recs \in [Ids -> Deliveries(States)]
    BY DEF Consistent, TypeOK
  <2>3. gw'[i].sub = m.sub
    BY <2>1, <2>2 DEF Submit
  <2>4. Requested(m)
    BY DEF Consistent, Underway
  <2>5. gw[i].attempts + 1 <= recs[i].attempts
    BY <2>1, SubmitFacts
  <2>6. gw[i].attempts \in Nat /\ recs[i].attempts \in Nat
    BY <2>2, DeliveryTypes
  <2> QED
    BY <2>1, <2>3, <2>4, <2>5, <2>6 DEF Requested
<1> QED
  BY <1>1, AlertsConsistent, PTL DEF Spec, OnlyWithConsent

(***************************************************************************)
(* The inductive invariant: besides the above, among the deliveries for a  *)
(* result and a phone the pass has selected one, and cancelled the others, *)
(* before it claims it (deliveryPlans() and the update in run()); the      *)
(* exceptions are those of NoRepeat. What a phone may have been told is    *)
(* what the gateway's store says.                                          *)
(***************************************************************************)
THEOREM AlertInvariant == Spec => []IInv
<1>1. Init => IInv
  BY InitConsistent, InitSelected DEF IInv
<1>2. IInv /\ [Next]_vars => IInv'
  BY ConsistentStep, SelectedStep, ToldStep DEF IInv
<1> QED
  BY <1>1, <1>2, PTL DEF Spec

\* What the backend calls accepted was told to the phone by that delivery, whichever
\* answers were lost, late or repeated (performRequest(), deliver()).
THEOREM AcceptedWasTold == Spec => []AcceptedIsTrue
<1>1. IInv => AcceptedIsTrue
  BY DEF IInv, Consistent, AcceptedByGateway, ToldByDelivery, Live, AcceptedIsTrue, Known
<1> QED
  BY <1>1, AlertInvariant, PTL

(***************************************************************************)
(* A phone is told of a result once, through any retries, late requests,   *)
(* crashes and connections, and also when an older release has left two    *)
(* deliveries for it, unless one of these two was claimed by a pass that   *)
(* had no usable connection of the phone when it began, or still waited    *)
(* for an attempt after the gateway had taken it (deliver(), run() and     *)
(* deliveryPlans()).                                                       *)
(***************************************************************************)
THEOREM ToldOnce == Spec => NoRepeat
<1>1. IInv /\ [Next]_vars =>
        [\A i \in Ids : Submitted(i) /\ Told(i) => About(i) \in doubled]_vars
  <2> SUFFICES ASSUME IInv, [Next]_vars, NEW i \in Ids, Submitted(i), Told(i),
                      About(i) \notin doubled
               PROVE  FALSE
    OBVIOUS
  <2>1. Consistent /\ OneSelected /\ told = Live
    BY DEF IInv, ToldByDelivery
  <2>2. PICK m \in net : Submit(m) /\ m.id = i
    BY <2>1, Submissions
  <2>3. i \in Known /\ Alone(i)
    <3>1. Handled(i)
      BY <2>2 DEF Handled
    <3> QED
      BY <2>1, <3>1, HandledKnown DEF OneSelected, SelectedAlone
  <2>4. PICK j \in Live : About(j) = About(i)
    BY <2>1 DEF Told
  <2>5. j \in Known /\ gw[j].state \in {"sending", "accepted", "unknown"}
    BY <2>1, <2>4 DEF Live, Consistent, Owned
  <2>6. CASE j = i
    BY <2>2, <2>5, <2>6 DEF Submit, MaySubmit
  <2>7. CASE j # i
    BY <2>3, <2>4, <2>5, <2>7 DEF Alone, Handled
  <2> QED
    BY <2>6, <2>7
<1> QED
  BY <1>1, AlertInvariant, PTL DEF Spec, NoRepeat

=============================================================================
