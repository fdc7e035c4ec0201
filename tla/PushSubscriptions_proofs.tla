------------------------ MODULE PushSubscriptions_proofs ------------------------
(***************************************************************************)
(* Proofs about PushSubscriptions, for every number of ids, registrations, *)
(* logins and faults: only the versions and the order of the gateway's     *)
(* transactions count.                                                     *)
(***************************************************************************)
EXTENDS PushSubscriptions, TLAPS

\* Nothing is registered and no request is under way.
LEMMA InitOK == Init => IInv
<1> SUFFICES ASSUME Init PROVE IInv
  OBVIOUS
<1>1. TypeOK
  BY DEF Init, TypeOK, States
<1>2. NothingAhead /\ AnswersTrue /\ SyncedIsTrue /\ OneEnabled /\ Following
  BY DEF Init, NothingAhead, AnswersTrue, SyncedIsTrue, OneEnabled, On, Following,
         OneAnswer, Revoked
<1> QED
  BY <1>1, <1>2 DEF IInv

\* The requests are messages.
LEMMA RequestTypes ==
  ASSUME NEW i \in Ids, NEW v \in Nat
  PROVE  /\ Put(i, v) \in Messages /\ Disabling(i) \in Messages /\ Revoking(i) \in Messages
         /\ Put(i, v).op = "put" /\ Put(i, v).id = i /\ Put(i, v).version = v
         /\ Disabling(i).op # "put" /\ Revoking(i).op # "put"
BY DEF Messages, Put, Disabling, Revoking

\* What the changes of a subscription's flags give.
LEMMA FlagTypes ==
  ASSUME TypeOK, NEW i \in Ids
  PROVE  LET Subs == [Ids -> [state : States, version : Nat, session : Nat,
                              synced : BOOLEAN, confirmed : BOOLEAN]]
         IN /\ TurnedOff(i) \in Subs
            /\ [subs EXCEPT ![i].confirmed = TRUE] \in Subs
            /\ [subs EXCEPT ![i].synced = TRUE] \in Subs
            /\ [subs EXCEPT ![i].synced = TRUE, ![i].confirmed = FALSE] \in Subs
<1>1. subs[i] \in [state : States, version : Nat, session : Nat,
                   synced : BOOLEAN, confirmed : BOOLEAN]
  BY DEF TypeOK
<1>2. ASSUME NEW s \in [state : States, version : Nat, session : Nat,
                        synced : BOOLEAN, confirmed : BOOLEAN]
      PROVE  [subs EXCEPT ![i] = s]
               \in [Ids -> [state : States, version : Nat, session : Nat,
                            synced : BOOLEAN, confirmed : BOOLEAN]]
  BY <1>2 DEF TypeOK
<1>3. "off" \in States
  BY DEF States
<1> QED
  BY <1>1, <1>2, <1>3 DEF TurnedOff

\* Each step keeps the types, and every answer is one that is waited for.
LEMMA TypeStep == IInv /\ [Next]_vars => TypeOK'
<1> SUFFICES ASSUME TypeOK, [Next]_vars PROVE TypeOK'
  BY DEF IInv
<1>1. ASSUME NEW i \in Ids, Register(i)
      PROVE  TypeOK'
  <2>1. subs[i].version + 1 \in Nat
    BY DEF TypeOK
  <2>2. Put(i, subs[i].version + 1) \in Messages
    BY <2>1, RequestTypes
  <2>3. subs' \in [Ids -> [state : States, version : Nat, session : Nat,
                           synced : BOOLEAN, confirmed : BOOLEAN]]
    BY <1>1, <2>1 DEF Register, Registered, TypeOK, States
  <2> QED
    BY <1>1, <2>2, <2>3 DEF Register, Sent, TypeOK
<1>2. ASSUME NEW i \in Ids, Confirm(i) \/ StoreRevokeToken(i) \/ PhoneRevokes(i)
      PROVE  TypeOK'
  <2>1. subs' \in [Ids -> [state : States, version : Nat, session : Nat,
                           synced : BOOLEAN, confirmed : BOOLEAN]]
    <3>1. CASE Confirm(i)
      BY <3>1, FlagTypes DEF Confirm, TypeOK
    <3> QED
      BY <1>2, <3>1 DEF StoreRevokeToken, PhoneRevokes, TypeOK
  <2>2. gsubs' \in [Ids -> [state : {"none", "active", "revoked"}, version : Nat]]
    BY <1>2 DEF Confirm, StoreRevokeToken, PhoneRevokes, TypeOK
  <2>3. keychain' \subseteq Ids
    BY <1>2 DEF Confirm, StoreRevokeToken, PhoneRevokes, TypeOK
  <2> QED
    BY <1>2, <2>1, <2>2, <2>3 DEF Confirm, StoreRevokeToken, PhoneRevokes, TypeOK
<1>3. ASSUME NEW i \in Ids, Disable(i)
      PROVE  TypeOK'
  <2>1. Disabling(i) \in Messages
    BY RequestTypes
  <2>2. subs' \in [Ids -> [state : States, version : Nat, session : Nat,
                           synced : BOOLEAN, confirmed : BOOLEAN]]
    BY <1>3, FlagTypes DEF Disable, TypeOK
  <2> QED
    BY <1>3, <2>1, <2>2 DEF Disable, Sent, TypeOK
<1>4. ASSUME NEW i \in Ids, Reconcile(i)
      PROVE  TypeOK'
  <2>1. Put(i, subs[i].version) \in Messages
    BY RequestTypes DEF TypeOK
  <2> QED
    BY <1>4, <2>1 DEF Reconcile, Sent, TypeOK
<1>5. ASSUME NEW m \in waiting, PutAccepted(m) \/ PutRefused(m) \/ RevokeDone(m)
      PROVE  TypeOK'
  <2>1. m \in Messages /\ m.id \in Ids
    BY DEF TypeOK, Messages
  <2>2. Disabling(m.id) \in Messages /\ Revoking(m.id) \in Messages
    BY <2>1, RequestTypes
  <2>3. subs' \in [Ids -> [state : States, version : Nat, session : Nat,
                           synced : BOOLEAN, confirmed : BOOLEAN]]
    <3>0. subs \in [Ids -> [state : States, version : Nat, session : Nat,
                            synced : BOOLEAN, confirmed : BOOLEAN]]
      BY DEF TypeOK
    <3>1. CASE PutAccepted(m)
      <4>1. subs' = [subs EXCEPT ![m.id].synced = TRUE] \/ subs' = subs
        BY <3>1 DEF PutAccepted, Synced
      <4>2. [subs EXCEPT ![m.id].synced = TRUE]
              \in [Ids -> [state : States, version : Nat, session : Nat,
                                synced : BOOLEAN, confirmed : BOOLEAN]]
        BY <2>1, FlagTypes
      <4> QED
        BY <3>0, <4>1, <4>2
    <3>2. CASE PutRefused(m)
      <4>1. subs' = TurnedOff(m.id) \/ subs' = subs
        BY <3>2 DEF PutRefused
      <4>2. TurnedOff(m.id)
              \in [Ids -> [state : States, version : Nat, session : Nat,
                                synced : BOOLEAN, confirmed : BOOLEAN]]
        BY <2>1, FlagTypes
      <4> QED
        BY <3>0, <4>1, <4>2
    <3>3. CASE RevokeDone(m)
      <4>1. \/ subs' = [subs EXCEPT ![m.id].synced = TRUE, ![m.id].confirmed = FALSE]
            \/ subs' = subs
        BY <3>3 DEF RevokeDone
      <4>2. [subs EXCEPT ![m.id].synced = TRUE, ![m.id].confirmed = FALSE]
              \in [Ids -> [state : States, version : Nat, session : Nat,
                                synced : BOOLEAN, confirmed : BOOLEAN]]
        BY <2>1, FlagTypes
      <4> QED
        BY <3>0, <4>1, <4>2
    <3> QED
      BY <1>5, <3>1, <3>2, <3>3
  <2>4. \A x \in net' \union waiting' : x \in Messages
    BY <1>5, <2>2 DEF PutAccepted, PutRefused, RevokeDone, TypeOK
  <2>5. \A a \in answers' : a.of \in waiting'
    BY <1>5 DEF PutAccepted, PutRefused, RevokeDone, Received, TypeOK
  <2> QED
    BY <1>5, <2>3, <2>4, <2>5 DEF PutAccepted, PutRefused, RevokeDone, TypeOK
<1>6. ASSUME NEW m \in waiting, GiveUp(m)
      PROVE  TypeOK'
  BY <1>6 DEF GiveUp, Received, TypeOK
<1>7. ASSUME NEW m \in net, HandlePut(m) \/ HandleRevoke(m)
      PROVE  TypeOK'
  <2>1. m \in Messages /\ m.id \in Ids /\ m.version \in Nat
    BY DEF TypeOK, Messages
  <2>2. gsubs' \in [Ids -> [state : {"none", "active", "revoked"}, version : Nat]]
    BY <1>7, <2>1 DEF HandlePut, HandleRevoke, TypeOK
  <2>3. net' \subseteq net /\ \A a \in answers' : a.of \in waiting
    BY <1>7 DEF HandlePut, HandleRevoke, Answered, TypeOK
  <2> QED
    BY <1>7, <2>2, <2>3 DEF HandlePut, HandleRevoke, Answered, TypeOK
<1>8. CASE Login \/ Crash \/ UNCHANGED vars
  BY <1>8 DEF Login, Crash, TypeOK, vars
<1> QED
  BY <1>1, <1>2, <1>3, <1>4, <1>5, <1>6, <1>7, <1>8 DEF Next, Backend, Reads, Handles

\* Only a registration makes a new version, and what is sent carries the
\* version of that moment.
LEMMA AheadStep == IInv /\ [Next]_vars => NothingAhead'
<1> SUFFICES ASSUME TypeOK, NothingAhead, [Next]_vars PROVE NothingAhead'
  BY DEF IInv
<1>1. ASSUME NEW i \in Ids, Register(i)
      PROVE  NothingAhead'
  <2>1. \A j \in Ids : subs'[j].version >= subs[j].version /\ subs'[j].version \in Nat
    BY <1>1 DEF Register, Registered, TypeOK
  <2>2. subs'[i].version = subs[i].version + 1 /\ gsubs' = gsubs
    BY <1>1 DEF Register, Registered, TypeOK
  <2>3. \A m \in net' \union waiting' :
          m \in net \union waiting \/ (m.id = i /\ m.version = subs[i].version + 1)
    BY <1>1, RequestTypes DEF Register, Sent, TypeOK
  <2>4. \A m \in net \union waiting : m.id \in Ids /\ m.version \in Nat
    BY DEF TypeOK, Messages
  <2>5. \A j \in Ids : gsubs[j].version \in Nat /\ subs[j].version \in Nat
    BY DEF TypeOK
  <2> QED
    BY <2>1, <2>2, <2>3, <2>4, <2>5 DEF NothingAhead
<1>2. ASSUME \A j \in Ids : subs'[j].version = subs[j].version
                            /\ gsubs'[j].version <= subs[j].version,
             \A m \in net' \union waiting' :
               \/ m \in net \union waiting \/ m.op # "put"
               \/ m.id \in Ids /\ m.version <= subs[m.id].version
      PROVE  NothingAhead'
  <2>1. \A m \in net \union waiting : m.id \in Ids
    BY DEF TypeOK, Messages
  <2> QED
    BY <1>2, <2>1 DEF NothingAhead
<1>3. ASSUME NEW i \in Ids,
             Confirm(i) \/ StoreRevokeToken(i) \/ PhoneRevokes(i) \/ Disable(i)
      PROVE  NothingAhead'
  <2>1. \A j \in Ids : subs'[j].version = subs[j].version
                       /\ gsubs'[j].version = gsubs[j].version
    BY <1>3 DEF Confirm, StoreRevokeToken, PhoneRevokes, Disable, TurnedOff, TypeOK
  <2>2. \A m \in net' \union waiting' : m \in net \union waiting \/ m.op # "put"
    BY <1>3, RequestTypes DEF Confirm, StoreRevokeToken, PhoneRevokes, Disable, Sent
  <2> QED
    BY <1>2, <2>1, <2>2 DEF NothingAhead
<1>4. ASSUME NEW i \in Ids, Reconcile(i)
      PROVE  NothingAhead'
  <2>1. \A m \in net' \union waiting' :
          m \in net \union waiting \/ (m.id = i /\ m.version = subs[i].version)
    BY <1>4, RequestTypes DEF Reconcile, Sent, TypeOK
  <2>2. subs[i].version <= subs[i].version
    BY DEF TypeOK
  <2> QED
    BY <1>2, <1>4, <2>1, <2>2 DEF Reconcile, NothingAhead
<1>5. ASSUME NEW m \in waiting,
             PutAccepted(m) \/ PutRefused(m) \/ RevokeDone(m) \/ GiveUp(m)
      PROVE  NothingAhead'
  <2>1. m.id \in Ids
    BY DEF TypeOK, Messages
  <2>2. \A j \in Ids : subs'[j].version = subs[j].version
    BY <1>5, <2>1 DEF PutAccepted, PutRefused, RevokeDone, GiveUp, Synced, TurnedOff, TypeOK
  <2>3. gsubs' = gsubs
    BY <1>5 DEF PutAccepted, PutRefused, RevokeDone, GiveUp
  <2>4. \A x \in net' \union waiting' : x \in net \union waiting \/ x.op # "put"
    BY <1>5, <2>1, RequestTypes DEF PutAccepted, PutRefused, RevokeDone, GiveUp
  <2> QED
    BY <1>2, <2>2, <2>3, <2>4 DEF NothingAhead
<1>6. ASSUME NEW m \in net, HandlePut(m) \/ HandleRevoke(m)
      PROVE  NothingAhead'
  <2>1. m.id \in Ids /\ UNCHANGED <<subs, waiting>> /\ net' \subseteq net
    BY <1>6 DEF HandlePut, HandleRevoke, Answered, TypeOK, Messages
  <2>2. \A j \in Ids : gsubs'[j].version = gsubs[j].version
                       \/ (j = m.id /\ m.op = "put" /\ gsubs'[j].version = m.version)
    BY <1>6, <2>1 DEF HandlePut, HandleRevoke, TypeOK
  <2> QED
    BY <1>2, <2>1, <2>2 DEF NothingAhead
<1>7. CASE Login \/ Crash \/ UNCHANGED vars
  BY <1>2, <1>7 DEF Login, Crash, vars, NothingAhead
<1> QED
  BY <1>1, <1>3, <1>4, <1>5, <1>6, <1>7 DEF Next, Backend, Reads, Handles

\* The gateway only moves on: a revoked subscription stays revoked, a version
\* is followed by itself or a newer one, and nothing becomes unknown again.
LEMMA GatewayStep ==
  ASSUME TypeOK, [Next]_vars, NEW i \in Ids
  PROVE  /\ gsubs[i].state = "revoked" => gsubs'[i].state = "revoked"
         /\ gsubs[i].state # "none" => gsubs'[i].state # "none"
         /\ gsubs'[i].version >= gsubs[i].version
         /\ gsubs'[i].version \in Nat /\ gsubs[i].version \in Nat
<1>0. gsubs[i].version \in Nat
  BY DEF TypeOK
<1>1. CASE gsubs' = gsubs
  BY <1>0, <1>1
<1>2. ASSUME NEW j \in Ids, PhoneRevokes(j)
      PROVE  gsubs'[i].version = gsubs[i].version /\ gsubs'[i].state \in {gsubs[i].state, "revoked"}
  BY <1>2 DEF PhoneRevokes, TypeOK
<1>3. ASSUME NEW m \in net, HandleRevoke(m)
      PROVE  gsubs'[i].version = gsubs[i].version /\ gsubs'[i].state \in {gsubs[i].state, "revoked"}
  <2>1. m.id \in Ids
    BY DEF TypeOK, Messages
  <2> QED
    BY <1>3, <2>1 DEF HandleRevoke, TypeOK
<1>4. ASSUME NEW m \in net, HandlePut(m), gsubs' # gsubs
      PROVE  gsubs'[i] = gsubs[i]
             \/ (gsubs'[i].state = "active" /\ gsubs[i].state # "revoked"
                 /\ gsubs'[i].version = m.version /\ m.version >= gsubs[i].version
                 /\ m.version \in Nat)
  <2>1. m.id \in Ids /\ m.version \in Nat
    BY DEF TypeOK, Messages
  <2> QED
    BY <1>4, <2>1 DEF HandlePut, Acceptance, TypeOK
<1>5. \/ gsubs' = gsubs \/ (\E j \in Ids : PhoneRevokes(j))
      \/ \E m \in net : HandlePut(m) \/ HandleRevoke(m)
  BY DEF Next, Backend, Reads, Handles, Register, Confirm, StoreRevokeToken, Disable,
         Reconcile, PutAccepted, PutRefused, RevokeDone, GiveUp, Login, Crash, vars
<1> QED
  BY <1>0, <1>1, <1>2, <1>3, <1>4, <1>5

\* An answer stays true while the gateway moves on, and a new one is true when
\* it is given.
LEMMA AnswersStep == IInv /\ [Next]_vars => AnswersTrue'
<1> SUFFICES ASSUME TypeOK, NothingAhead, AnswersTrue, [Next]_vars PROVE AnswersTrue'
  BY DEF IInv
<1> DEFINE Holds(a, s, v) == \/ a.result = "ok" /\ s # "none" /\ v >= a.of.version
                             \/ a.result = "conflict" /\ (s = "revoked" \/ v > a.of.version)
<1>1. \A a \in answers : a.of \in Messages
  BY DEF TypeOK
<1>2. ASSUME NEW a \in answers, a.of.op = "put"
      PROVE  Holds(a, gsubs'[a.of.id].state, gsubs'[a.of.id].version)
  <2>1. a.of.id \in Ids /\ a.of.version \in Nat
    BY <1>1 DEF Messages
  <2>2. Holds(a, gsubs[a.of.id].state, gsubs[a.of.id].version)
    BY <1>2 DEF AnswersTrue
  <2>3. gsubs[a.of.id].version \in Nat /\ gsubs'[a.of.id].version \in Nat
        /\ gsubs'[a.of.id].version >= gsubs[a.of.id].version
        /\ (gsubs[a.of.id].state = "revoked" => gsubs'[a.of.id].state = "revoked")
        /\ (gsubs[a.of.id].state # "none" => gsubs'[a.of.id].state # "none")
    BY <2>1, GatewayStep
  <2> HIDE DEF Messages
  <2> QED
    BY <2>1, <2>2, <2>3
<1>3. ASSUME NEW a \in answers', a \notin answers, a.of.op = "put"
      PROVE  Holds(a, gsubs'[a.of.id].state, gsubs'[a.of.id].version)
  <2>1. PICK m \in net : HandlePut(m) \/ HandleRevoke(m)
    BY <1>3 DEF Next, Backend, Reads, Handles, Register, Confirm, StoreRevokeToken, PhoneRevokes,
                Disable, Reconcile, PutAccepted, PutRefused, RevokeDone, GiveUp, Received,
                Login, Crash, vars
  <2>2. m.id \in Ids /\ m.version \in Nat
    BY DEF TypeOK, Messages
  <2>3. a.of = m
    BY <1>3, <2>1 DEF HandlePut, HandleRevoke, Answered
  <2>4. HandlePut(m)
    BY <1>3, <2>1, <2>3 DEF HandleRevoke
  <2>5. CASE Acceptance(m)
    <3>1. a.result = "ok"
      BY <1>3, <2>4, <2>5 DEF HandlePut, Answered
    <3>2. gsubs'[m.id].state = "active" /\ gsubs'[m.id].version = m.version
      BY <2>2, <2>4, <2>5 DEF HandlePut, TypeOK
    <3> QED
      BY <2>2, <2>3, <3>1, <3>2
  <2>6. CASE ~Acceptance(m)
    <3>1. a.result = "conflict" /\ gsubs' = gsubs
      BY <1>3, <2>4, <2>6 DEF HandlePut, Answered
    <3>2. gsubs[m.id].version \in Nat
      BY <2>2 DEF TypeOK
    <3> QED
      BY <2>2, <2>3, <2>6, <3>1, <3>2 DEF Acceptance
  <2> QED
    BY <2>5, <2>6
<1> QED
  BY <1>2, <1>3 DEF AnswersTrue

\* A subscription becomes synced through a true answer to its own version, and
\* then nothing that can still arrive is newer.
LEMMA SyncedStep == IInv /\ [Next]_vars => SyncedIsTrue'
<1> SUFFICES ASSUME IInv, [Next]_vars, NEW i \in Ids,
                    subs'[i].state = "on", subs'[i].synced
             PROVE  gsubs'[i].state # "none" /\ gsubs'[i].version = subs'[i].version
  BY DEF SyncedIsTrue, On
<1>0. TypeOK /\ NothingAhead /\ AnswersTrue /\ SyncedIsTrue
  BY DEF IInv
<1>1. NothingAhead' /\ TypeOK'
  BY AheadStep, TypeStep
<1>2. /\ gsubs[i].state # "none" => gsubs'[i].state # "none"
      /\ gsubs'[i].version >= gsubs[i].version
      /\ gsubs'[i].version \in Nat /\ gsubs[i].version \in Nat
  BY <1>0, GatewayStep
<1>3. subs[i].version \in Nat /\ subs'[i].version \in Nat
  BY <1>0, <1>1 DEF TypeOK
<1>4. gsubs'[i].version <= subs'[i].version
  BY <1>1 DEF NothingAhead
<1>5. CASE subs'[i].version = subs[i].version /\ On(i) /\ subs[i].synced
  <2>1. gsubs[i].state # "none" /\ gsubs[i].version = subs[i].version
    BY <1>0, <1>5 DEF SyncedIsTrue
  <2> QED
    BY <1>2, <1>3, <1>4, <1>5, <2>1
<1>6. ASSUME NEW m \in waiting, PutAccepted(m), m.id = i, m.version = subs[i].version,
             subs'[i].version = subs[i].version
      PROVE  gsubs'[i].state # "none" /\ gsubs'[i].version = subs'[i].version
  <2>1. PICK a \in answers : a.of = m /\ a.result = "ok" /\ m.op = "put"
    BY <1>6 DEF PutAccepted
  <2>2. gsubs[i].state # "none" /\ gsubs[i].version >= m.version
    BY <1>0, <1>6, <2>1 DEF AnswersTrue
  <2> QED
    BY <1>2, <1>3, <1>4, <1>6, <2>2
<1>7. \/ subs'[i].version = subs[i].version /\ On(i) /\ subs[i].synced
      \/ \E m \in waiting : PutAccepted(m) /\ m.id = i /\ m.version = subs[i].version
                            /\ subs'[i].version = subs[i].version
  <2>1. CASE subs' = subs
    BY <2>1 DEF On
  <2>2. ASSUME NEW j \in Ids, Register(j) \/ Disable(j)
        PROVE  <1>7!1
    BY <1>0, <2>2 DEF Register, Registered, Disable, TurnedOff, TypeOK, On
  <2>3. ASSUME NEW j \in Ids, Confirm(j)
        PROVE  <1>7!1
    BY <1>0, <2>3 DEF Confirm, TypeOK, On
  <2>4. ASSUME NEW m \in waiting, PutAccepted(m), subs' # subs
        PROVE  <1>7!1 \/ <1>7!2
    <3>1. m.id \in Ids /\ subs[m.id].version = m.version
          /\ subs' = [subs EXCEPT ![m.id].synced = TRUE]
      BY <1>0, <2>4 DEF PutAccepted, Synced, TypeOK, Messages
    <3> QED
      BY <1>0, <2>4, <3>1 DEF TypeOK, On
  <2>5. ASSUME NEW m \in waiting, PutRefused(m) \/ RevokeDone(m)
        PROVE  <1>7!1
    <3>1. m.id \in Ids
      BY <1>0 DEF TypeOK, Messages
    <3> QED
      BY <1>0, <2>5, <3>1 DEF PutRefused, RevokeDone, TurnedOff, TypeOK, On
  <2> QED
    BY <2>1, <2>2, <2>3, <2>4, <2>5
    DEF Next, Backend, Reads, Handles, StoreRevokeToken, PhoneRevokes, Reconcile, GiveUp,
        HandlePut, HandleRevoke, Answered, Login, Crash, vars
<1> QED
  BY <1>5, <1>6, <1>7

\* Only register() enables a subscription, the one that is enabled already or
\* the first of none.
LEMMA EnabledStep == IInv /\ [Next]_vars => OneEnabled'
<1> SUFFICES ASSUME TypeOK, OneEnabled, [Next]_vars PROVE OneEnabled'
  BY DEF IInv
<1>1. ASSUME NEW i \in Ids, Register(i)
      PROVE  OneEnabled'
  BY <1>1 DEF Register, Registered, OneEnabled, On, TypeOK
<1>2. ASSUME \A j \in Ids : subs'[j].state \in {subs[j].state, "off"}
      PROVE  OneEnabled'
  BY <1>2 DEF OneEnabled, On
<1>3. ASSUME NEW i \in Ids, Confirm(i) \/ Disable(i)
      PROVE  OneEnabled'
  BY <1>2, <1>3 DEF Confirm, Disable, TurnedOff, TypeOK
<1>4. ASSUME NEW m \in waiting, PutAccepted(m) \/ PutRefused(m) \/ RevokeDone(m)
      PROVE  OneEnabled'
  <2>1. m.id \in Ids
    BY DEF TypeOK, Messages
  <2> QED
    BY <1>2, <1>4, <2>1 DEF PutAccepted, PutRefused, RevokeDone, Synced, TurnedOff, TypeOK
<1>5. CASE UNCHANGED subs
  BY <1>5 DEF OneEnabled, On
<1> QED
  BY <1>1, <1>3, <1>4, <1>5
  DEF Next, Backend, Reads, Handles, StoreRevokeToken, PhoneRevokes, Reconcile, GiveUp,
      HandlePut, HandleRevoke, Answered, Login, Crash, vars

-----------------------------------------------------------------------------
(* Revocations.                                                            *)

\* A request that is not a registration is its operation and its subscription.
LEMMA RevocationIs ==
  ASSUME NEW m \in Messages
  PROVE  /\ m.id \in Ids
         /\ m.op = "put" \/ m = Disabling(m.id) \/ m = Revoking(m.id)
         /\ m.op = "disable" <=> m = Disabling(m.id)
         /\ m.op = "revoke" <=> m = Revoking(m.id)
BY DEF Messages, Disabling, Revoking

\* The revocations of a subscription are not those of another one.
LEMMA RevocationsDiffer ==
  ASSUME NEW i \in Ids, NEW j \in Ids
  PROVE  /\ Disabling(i) # Revoking(j)
         /\ Disabling(i) = Disabling(j) => i = j
         /\ Revoking(i) = Revoking(j) => i = j
         /\ Disabling(i).id = i /\ Revoking(i).id = i
         /\ Disabling(i).op = "disable" /\ Revoking(i).op = "revoke"
BY DEF Disabling, Revoking

\* While nothing is given up, what is known of a revocation stays known.
Followed == OneAnswer /\ \A i \in Ids : Revoked(i)

LEMMA FollowedTypes ==
  ASSUME TypeOK
  PROVE  /\ \A m \in net \union waiting : m \in Messages /\ m.id \in Ids
         /\ \A a \in answers : a.of \in waiting /\ a.of \in Messages /\ a.of.id \in Ids
BY DEF TypeOK, Messages

\* The phone and its connection: a new registration is not waited for yet.
LEMMA PhoneFollowed ==
  ASSUME TypeOK, NothingAhead, Followed, NEW j \in Ids,
         Register(j) \/ Confirm(j) \/ StoreRevokeToken(j) \/ PhoneRevokes(j)
  PROVE  Followed'
<1>1. CASE Register(j)
  <2> DEFINE p == Put(j, subs[j].version + 1)
  <2>1. p.op = "put" /\ p.id = j /\ p.version = subs[j].version + 1 /\ subs[j].version \in Nat
    BY DEF Put, TypeOK
  <2>2. p \notin net \union waiting
    BY <2>1 DEF NothingAhead
  <2>3. /\ net' = net \union {p} /\ waiting' = waiting \union {p}
        /\ answers' = answers /\ gsubs' = gsubs
        /\ subs'[j].state = "on" /\ subs[j].state # "off"
        /\ \A i \in Ids \ {j} : subs'[i] = subs[i]
    BY <1>1 DEF Register, Registered, Sent, TypeOK, On
  <2> HIDE DEF p
  <2>4. OneAnswer'
    BY <2>2, <2>3, FollowedTypes DEF Followed, OneAnswer
  <2>5. ASSUME NEW i \in Ids PROVE Revoked(i)'
    <3>1. Disabling(i) # p /\ Revoking(i) # p
      BY <2>1, RevocationsDiffer
    <3>2. CASE i = j
      BY <2>3, <3>1, <3>2 DEF Followed, Revoked, CalledBack
    <3>3. CASE i # j
      BY <2>3, <3>1, <3>3 DEF Followed, Revoked, CalledBack
    <3> QED
      BY <3>2, <3>3
  <2> QED
    BY <2>4, <2>5 DEF Followed
<1>2. CASE Confirm(j) \/ StoreRevokeToken(j) \/ PhoneRevokes(j)
  <2>1. /\ net' = net /\ waiting' = waiting /\ answers' = answers
        /\ \A i \in Ids : subs'[i].state = subs[i].state /\ subs'[i].synced = subs[i].synced
        /\ \A i \in Ids : gsubs'[i] = gsubs[i] \/ gsubs'[i].state = "revoked"
    BY <1>2 DEF Confirm, StoreRevokeToken, PhoneRevokes, TypeOK
  <2> QED
    BY <2>1 DEF Followed, OneAnswer, Revoked, CalledBack
<1> QED
  BY <1>1, <1>2

\* The backend sends only what it does not wait for.
LEMMA BackendFollowed ==
  ASSUME TypeOK, Followed, NEW j \in Ids, Backend(j)
  PROVE  Followed'
<1>1. CASE Disable(j)
  <2> DEFINE d == Disabling(j)
  <2>1. /\ d \notin waiting /\ net' = net \union {d} /\ waiting' = waiting \union {d}
        /\ answers' = answers /\ gsubs' = gsubs
        /\ subs'[j].state = "off" /\ subs'[j].synced = FALSE
        /\ \A i \in Ids \ {j} : subs'[i] = subs[i]
    BY <1>1 DEF Disable, Sent, TurnedOff, TypeOK
  <2>2. d.op = "disable" /\ \A i \in Ids : Revoking(i) # d /\ (Disabling(i) = d => i = j)
    BY RevocationsDiffer
  <2>3. \A a \in answers : a.of # d
    BY <2>1, FollowedTypes
  <2> HIDE DEF d
  <2>4. OneAnswer'
    BY <2>1, <2>2, FollowedTypes DEF Followed, OneAnswer
  <2>5. ASSUME NEW i \in Ids PROVE Revoked(i)'
    <3>1. CASE i = j
      BY <2>1, <2>2, <2>3, <3>1 DEF Followed, Revoked, CalledBack, d
    <3>2. CASE i # j
      BY <2>1, <2>2, <3>2 DEF Followed, Revoked, CalledBack
    <3> QED
      BY <3>1, <3>2
  <2> QED
    BY <2>4, <2>5 DEF Followed
<1>2. CASE Reconcile(j)
  <2> DEFINE p == Put(j, subs[j].version)
  <2>1. p.op = "put"
    BY DEF Put
  <2>2. /\ p \notin waiting /\ net' = net \union {p} /\ waiting' = waiting \union {p}
        /\ answers' = answers /\ gsubs' = gsubs /\ subs' = subs
    BY <1>2 DEF Reconcile, Sent
  <2> HIDE DEF p
  <2>3. OneAnswer'
    BY <2>2, FollowedTypes DEF Followed, OneAnswer
  <2>4. ASSUME NEW i \in Ids PROVE Revoked(i)'
    <3>1. Disabling(i) # p /\ Revoking(i) # p
      BY <2>1, RevocationsDiffer
    <3> QED
      BY <2>2, <3>1 DEF Followed, Revoked, CalledBack
  <2> QED
    BY <2>3, <2>4 DEF Followed
<1> QED
  BY <1>1, <1>2 DEF Backend

\* A registration the gateway accepted for a subscription that is off is called
\* back; a refusal is never the answer to one it accepted.
LEMMA ReadsFollowed ==
  ASSUME TypeOK, AnswersTrue, Followed, NEW m \in waiting, Reads(m)
  PROVE  Followed'
<1>0. m \in Messages /\ m.id \in Ids /\ m \in net \union waiting
  BY FollowedTypes
<1>1. PICK b \in answers : b.of = m
  BY DEF Reads, PutAccepted, PutRefused, RevokeDone
<1>2. /\ answers' = {a \in answers : a.of # m} /\ gsubs' = gsubs
  BY DEF Reads, PutAccepted, PutRefused, RevokeDone, Received
<1>3. \A n \in net : n.op = "put" => n # m
  BY <1>1 DEF Followed, OneAnswer
<1>4. OneAnswer'
  <2>1. \A n \in net' : n.op = "put" => n \in net
    BY <1>0, RevocationsDiffer DEF Reads, PutAccepted, PutRefused, RevokeDone
  <2>2. \A n \in waiting : n # m => n \in waiting'
    BY DEF Reads, PutAccepted, PutRefused, RevokeDone
  <2> QED
    BY <1>2, <1>3, <2>1, <2>2 DEF Followed, OneAnswer
<1>5. ASSUME NEW i \in Ids, CalledBack(i), m # Revoking(i), ~PutAccepted(m) \/ m.id # i
      PROVE  CalledBack(i)'
  <2>1. CASE Revoking(i) \in waiting
    BY <1>5, <2>1 DEF Reads, PutAccepted, PutRefused, RevokeDone, CalledBack
  <2>2. ASSUME NEW a \in answers, a.of.op = "put", a.of.id = i, a.result = "ok"
        PROVE  a.of # m
    <3>1. CASE PutAccepted(m)
      BY <1>5, <2>2, <3>1
    <3>2. CASE PutRefused(m)
      <4>1. PICK c \in answers : c.of = m /\ c.result = "conflict"
        BY <3>2 DEF PutRefused
      <4> QED
        BY <2>2, <4>1 DEF Followed, OneAnswer
    <3>3. CASE RevokeDone(m)
      BY <2>2, <3>3 DEF RevokeDone
    <3> QED
      BY <3>1, <3>2, <3>3 DEF Reads
  <2> QED
    BY <1>2, <1>5, <2>1, <2>2 DEF CalledBack
<1>6. ASSUME NEW i \in Ids PROVE Revoked(i)'
  <2>1. CASE PutAccepted(m) /\ Valid(m.id)
    <3>1. /\ net' = net /\ waiting' = waiting \ {m} /\ subs[m.id].state = "on"
          /\ subs' = subs \/ subs' = [subs EXCEPT ![m.id].synced = TRUE]
          /\ m.op = "put"
      BY <2>1 DEF PutAccepted, Synced, Valid, On
    <3>2. /\ subs'[i].state = subs[i].state
          /\ subs'[i].synced = subs[i].synced \/ i = m.id
      BY <1>0, <3>1 DEF TypeOK
    <3>3. m # Revoking(i)
      BY <3>1, RevocationsDiffer
    <3> QED
      BY <1>2, <1>5, <3>1, <3>2, <3>3 DEF Followed, Revoked
  <2>2. CASE PutAccepted(m) /\ ~Valid(m.id)
    <3>1. /\ net' = net \union {Revoking(m.id)} /\ subs' = subs
          /\ waiting' = (waiting \ {m}) \union {Revoking(m.id)} /\ m.op = "put"
      BY <2>2 DEF PutAccepted
    <3>2. gsubs[m.id].state # "none"
      BY <2>2 DEF PutAccepted, AnswersTrue
    <3>3. /\ m # Revoking(i) /\ Disabling(i) # Revoking(m.id)
          /\ Revoking(i) = Revoking(m.id) => i = m.id
      BY <1>0, <3>1, RevocationsDiffer
    <3>4. i = m.id => CalledBack(i)'
      BY <3>1 DEF CalledBack
    <3> QED
      BY <1>2, <1>5, <3>1, <3>2, <3>3, <3>4 DEF Followed, Revoked
  <2>3. CASE PutRefused(m)
    <3>1. m.op = "put"
      BY <2>3 DEF PutRefused
    <3>2. m # Revoking(i) /\ m # Disabling(i)
      BY <3>1, RevocationsDiffer
    <3>3. ~PutAccepted(m)
      <4>1. PICK c \in answers : c.of = m /\ c.result = "conflict"
        BY <2>3 DEF PutRefused
      <4> QED
        BY <3>1, <4>1 DEF PutAccepted, Followed, OneAnswer
    <3>4. \/ subs' = subs /\ net' = net /\ waiting' = waiting \ {m}
          \/ /\ subs' = TurnedOff(m.id) /\ net' = net \union {Disabling(m.id)}
             /\ waiting' = (waiting \ {m}) \union {Disabling(m.id)}
      BY <2>3 DEF PutRefused
    <3>5. \/ subs'[i] = subs[i]
          \/ i = m.id /\ subs'[i].state = "off" /\ subs'[i].synced = FALSE
      BY <1>0, <3>4 DEF TurnedOff, TypeOK
    <3>6. Disabling(i) \in net' \union waiting' =>
            Disabling(i) \in net \union waiting \/ subs'[i].state = "off"
      BY <1>0, <3>4, RevocationsDiffer DEF TurnedOff, TypeOK
    <3>7. Revoking(i) \in net' \union waiting' => Revoking(i) \in net \union waiting
      BY <1>0, <3>4, RevocationsDiffer
    <3>8. \A a \in answers : a.of = Disabling(i) => subs[i].state = "off"
      BY FollowedTypes DEF Followed, Revoked
    <3> QED
      BY <1>2, <1>5, <3>2, <3>3, <3>5, <3>6, <3>7, <3>8 DEF Followed, Revoked
  <2>4. CASE RevokeDone(m)
    <3>1. /\ net' = net /\ waiting' = waiting \ {m} /\ ~PutAccepted(m)
          /\ m = Disabling(m.id) \/ m = Revoking(m.id)
      BY <1>0, <2>4, RevocationIs DEF RevokeDone, PutAccepted
    <3>2. /\ subs'[i].state = subs[i].state
          /\ \/ subs'[i].synced = subs[i].synced
             \/ i = m.id /\ m = Disabling(i)
      BY <1>0, <2>4, RevocationIs DEF RevokeDone, TypeOK
    <3>3. m = Disabling(i) => m # Revoking(i)
      BY RevocationsDiffer
    <3>4. m = Revoking(i) => gsubs[i].state = "revoked"
      BY <1>1 DEF Followed, Revoked
    <3> QED
      BY <1>1, <1>2, <1>5, <3>1, <3>2, <3>3, <3>4 DEF Followed, Revoked
  <2> QED
    BY <2>1, <2>2, <2>3, <2>4 DEF Reads
<1> QED
  BY <1>4, <1>6 DEF Followed

\* The gateway: what it makes active it acknowledges, what it revoked it does not
\* make active.
LEMMA HandlesFollowed ==
  ASSUME TypeOK, Followed, NEW m \in net, Handles(m), [Next]_vars
  PROVE  Followed'
<1>0. m \in Messages /\ m.id \in Ids
  BY FollowedTypes
<1>1. /\ net' = net \ {m} /\ waiting' = waiting /\ subs' = subs
  BY DEF Handles, HandlePut, HandleRevoke, Answered
<1>2. PICK res : answers' = IF m \in waiting THEN answers \union {[of |-> m, result |-> res]}
                            ELSE answers
  BY DEF Handles, HandlePut, HandleRevoke, Answered
<1>3. /\ \A a \in answers : a \in answers'
      /\ \A a \in answers' : a \in answers \/ (a.of = m /\ a.result = res)
  BY <1>2
<1>4. OneAnswer'
  BY <1>1, <1>3 DEF Followed, OneAnswer
<1>5. ASSUME NEW i \in Ids PROVE Revoked(i)'
  <2>1. /\ gsubs[i].state = "revoked" => gsubs'[i].state = "revoked"
        /\ gsubs[i].state # "none" => gsubs'[i].state # "none"
    BY GatewayStep
  <2>2. CalledBack(i) => CalledBack(i)'
    BY <1>1, <1>3 DEF CalledBack
  <2>3. CASE HandlePut(m)
    <3>1. m # Revoking(i) /\ m # Disabling(i) /\ m.op = "put" /\ m \in waiting
      BY <2>3, RevocationsDiffer DEF HandlePut, Followed, OneAnswer
    <3>2. gsubs'[i] = gsubs[i] \/ CalledBack(i)'
      <4>1. CASE Acceptance(m) /\ i = m.id
        <5>1. [of |-> m, result |-> "ok"] \in answers'
          BY <2>3, <3>1, <4>1 DEF HandlePut, Answered
        <5> QED
          BY <3>1, <4>1, <5>1 DEF CalledBack
      <4>2. CASE ~(Acceptance(m) /\ i = m.id)
        BY <1>0, <2>3, <4>2 DEF HandlePut, TypeOK
      <4> QED
        BY <4>1, <4>2
    <3> QED
      BY <1>1, <1>3, <2>1, <2>2, <3>1, <3>2 DEF Followed, Revoked
  <2>4. CASE HandleRevoke(m)
    <3>1. IF i = m.id /\ gsubs[i].state # "none" THEN gsubs'[i].state = "revoked"
          ELSE gsubs'[i] = gsubs[i]
      BY <1>0, <2>4 DEF HandleRevoke, TypeOK
    <3>2. m = Revoking(i) \/ m = Disabling(i) => i = m.id
      BY RevocationsDiffer
    <3>3. Revoking(i) \in net \union waiting => gsubs[i].state # "none"
      BY DEF Followed, Revoked
    <3> QED
      BY <1>1, <1>3, <2>1, <2>2, <3>1, <3>2, <3>3 DEF Followed, Revoked
  <2> QED
    BY <2>3, <2>4 DEF Handles
<1> QED
  BY <1>4, <1>5 DEF Followed

LEMMA FollowingStep == IInv /\ [Next]_vars => Following'
<1> SUFFICES ASSUME IInv, [Next]_vars, faults' = 0 PROVE Followed'
  BY DEF Following, Followed
<1>0. TypeOK /\ NothingAhead /\ AnswersTrue /\ (faults = 0 => Followed)
  BY DEF IInv, Following, Followed
<1>1. \A m \in waiting : ~GiveUp(m)
  BY <1>0 DEF GiveUp, TypeOK
<1>2. ~Crash
  BY <1>0 DEF Crash, TypeOK
<1>3. faults = 0
  BY <1>1, <1>2
  DEF Next, Backend, Reads, Handles, Register, Confirm, StoreRevokeToken, PhoneRevokes,
      Disable, Reconcile, PutAccepted, PutRefused, RevokeDone, HandlePut, HandleRevoke,
      Answered, Login, vars
<1>4. CASE Login \/ UNCHANGED vars
  BY <1>0, <1>3, <1>4 DEF Login, vars, Followed, OneAnswer, Revoked, CalledBack
<1> QED
  BY <1>0, <1>1, <1>2, <1>3, <1>4, PhoneFollowed, BackendFollowed, ReadsFollowed,
     HandlesFollowed DEF Next

(***************************************************************************)
(* The invariant holds in every reachable state.                           *)
(***************************************************************************)
THEOREM SubscriptionSafety == Spec => []IInv
<1>1. IInv /\ [Next]_vars => IInv'
  BY TypeStep, AheadStep, AnswersStep, SyncedStep, EnabledStep, FollowingStep DEF IInv
<1> QED
  BY InitOK, <1>1, PTL DEF Spec

(***************************************************************************)
(* An enabled subscription that counts as synced is the one the gateway    *)
(* has, or has revoked since.                                              *)
(***************************************************************************)
THEOREM SyncedHolds == Spec => []SyncedIsTrue
<1>1. IInv => SyncedIsTrue
  BY DEF IInv
<1> QED
  BY SubscriptionSafety, <1>1, PTL

(***************************************************************************)
(* As long as no request was given up, a subscription that is off and that *)
(* the gateway still holds active is called back.                          *)
(***************************************************************************)
THEOREM RevocationComes == Spec => []RevocationFollows
<1>1. IInv => RevocationFollows
  BY DEF IInv, Following, Revoked, RevocationFollows
<1> QED
  BY SubscriptionSafety, <1>1, PTL

(***************************************************************************)
(* At the gateway nothing revoked and no older token comes back.           *)
(***************************************************************************)
THEOREM RevokedForGood == Spec => NothingComesBack
<1>1. IInv /\ [Next]_vars =>
        [\A i \in Ids : /\ gsubs[i].state = "revoked" => gsubs'[i].state = "revoked"
                        /\ gsubs'[i].version >= gsubs[i].version]_vars
  BY GatewayStep DEF IInv
<1> QED
  BY SubscriptionSafety, <1>1, PTL DEF Spec, NothingComesBack

(***************************************************************************)
(* The refusal of a registration turns a subscription off only when the    *)
(* gateway has revoked it or knows a newer version: only an answer to the  *)
(* current version does, and that answer is still true.                    *)
(***************************************************************************)
THEOREM OvertakenKept == Spec => OvertakenStaysOn
<1> DEFINE Kept == \A i \in Ids : \A m \in waiting :
                     (On(i) /\ subs'[i].state = "off" /\ m.op = "put" /\ m.id = i
                        /\ m \notin waiting')
                       => gsubs[i].state = "revoked" \/ gsubs[i].version > subs[i].version
<1>1. IInv /\ [Next]_vars => Kept
  <2> SUFFICES ASSUME IInv, [Next]_vars, NEW i \in Ids, NEW m \in waiting,
                      On(i), subs'[i].state = "off", m.op = "put", m.id = i, m \notin waiting'
               PROVE  gsubs[i].state = "revoked" \/ gsubs[i].version > subs[i].version
    OBVIOUS
  <2>0. TypeOK /\ AnswersTrue
    BY DEF IInv
  <2>1. subs' # subs
    BY DEF On
  <2>2. \A j \in Ids : ~Register(j) /\ ~Disable(j) /\ ~Confirm(j)
    BY <2>0 DEF Register, Disable, Confirm, Sent
  <2>3. PICK x \in waiting : PutAccepted(x) \/ PutRefused(x) \/ RevokeDone(x)
    BY <2>1, <2>2
    DEF Next, Backend, Reads, Handles, StoreRevokeToken, PhoneRevokes, Reconcile, GiveUp,
        HandlePut, HandleRevoke, Answered, Login, Crash, vars
  <2>4. x = m
    BY <2>3 DEF PutAccepted, PutRefused, RevokeDone
  <2>5. ~PutAccepted(x)
    <3>1. ASSUME PutAccepted(x) PROVE subs' = [subs EXCEPT ![i].synced = TRUE]
      BY <2>1, <2>4, <3>1 DEF PutAccepted, Synced
    <3> QED
      BY <2>0, <3>1 DEF TypeOK, On
  <2>6. PutRefused(m) /\ subs' # subs
    BY <2>1, <2>3, <2>4, <2>5 DEF RevokeDone
  <2>7. StillCurrent(m) /\ [of |-> m, result |-> "conflict"] \in answers
    BY <2>6 DEF PutRefused
  <2> QED
    BY <2>0, <2>7 DEF StillCurrent, AnswersTrue
<1>2. IInv /\ [Next]_vars => [Kept]_vars
  BY <1>1
<1> QED
  BY SubscriptionSafety, <1>2, PTL DEF Spec, OvertakenStaysOn
=============================================================================
