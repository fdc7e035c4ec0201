-------------------------- MODULE PushSubscriptions --------------------------
(***************************************************************************)
(* How a phone's connection becomes a push subscription, changes its       *)
(* device token and is revoked: DeviceSubscriptions of the backend, the    *)
(* register() and revoke() of the push gateway, and the requests between   *)
(* them, which may be late, lost, or answered too late.                    *)
(*                                                                         *)
(* One phone, one kind of alert. A registration gives the connection's     *)
(* subscription a new version; the version stands for the token too.       *)
(***************************************************************************)
EXTENDS Integers, FiniteSets, FiniteSetsExt

CONSTANTS
  Ids,          \* subscription ids, drawn in this order
  MaxVersions,  \* bound: registrations
  MaxSessions,  \* bound: logins of the phone
  MaxFaults     \* bound: requests given up, crashes of the backend

ASSUME SubscriptionAssumption ==
  /\ Ids \subseteq Nat
  /\ MaxVersions \in Nat \ {0} /\ MaxSessions \in Nat \ {0} /\ MaxFaults \in Nat

VARIABLES
  subs,     \* the backend's subscriptions
  session,  \* the phone's login; a subscription of an earlier one is not valid
  gsubs,    \* the gateway's subscriptions
  net,      \* requests that have not reached the gateway
  answers,  \* requests the gateway has answered, for the backend to read
  waiting,  \* requests the backend waits for
  keychain, \* the subscriptions the phone can revoke by itself
  faults

vars == <<subs, session, gsubs, net, answers, waiting, keychain, faults>>

States == {"new", "on", "off"}
Request == [op : {"put", "disable", "revoke"}, id : Ids, version : 0 .. MaxVersions]
Put(i, v) == [op |-> "put", id |-> i, version |-> v]
Disabling(i) == [op |-> "disable", id |-> i, version |-> 0]
Revoking(i) == [op |-> "revoke", id |-> i, version |-> 0]

Init ==
  /\ subs = [i \in Ids |-> [state |-> "new", version |-> 0, session |-> 0,
                            synced |-> FALSE, confirmed |-> FALSE]]
  /\ session = 1
  /\ gsubs = [i \in Ids |-> [state |-> "none", version |-> 0]]
  /\ net = {} /\ answers = {} /\ waiting = {} /\ keychain = {}
  /\ faults = 0

Registrations == MapThenSumSet(LAMBDA i : subs[i].version, Ids)
On(i) == subs[i].state = "on"
Valid(i) == On(i) /\ subs[i].session = session

Sent(m) == net' = net \union {m} /\ waiting' = waiting \union {m}

(***************************************************************************)
(* The phone.                                                              *)
(***************************************************************************)
Registered(i) == [subs EXCEPT ![i].state = "on", ![i].version = @ + 1,
                              ![i].session = session, ![i].synced = FALSE]

\* register(): the connection keeps the id it has while that is enabled.
Register(i) ==
  /\ Registrations < MaxVersions
  /\ \/ On(i)
     \/ /\ subs[i].state = "new" /\ \A j \in Ids : ~On(j)
        /\ \A j \in Ids : j < i => subs[j].state # "new"
  /\ subs' = Registered(i)
  /\ Sent(Put(i, subs[i].version + 1))
  /\ UNCHANGED <<session, gsubs, answers, keychain, faults>>

\* confirm(), after the phone has stored the token to revoke with.
Confirm(i) ==
  /\ Valid(i) /\ subs[i].synced /\ ~subs[i].confirmed
  /\ i \in keychain
  /\ subs' = [subs EXCEPT ![i].confirmed = TRUE]
  /\ UNCHANGED <<session, gsubs, net, answers, waiting, keychain, faults>>

\* The phone's answer to its registration; one that comes too late, on which it would
\* revoke at once, is left out.
StoreRevokeToken(i) ==
  /\ Valid(i) /\ subs[i].synced /\ i \notin keychain
  /\ keychain' = keychain \union {i}
  /\ UNCHANGED <<subs, session, gsubs, net, answers, waiting, faults>>

\* A new login replaces the phone's session.
Login ==
  /\ session < MaxSessions
  /\ session' = session + 1
  /\ UNCHANGED <<subs, gsubs, net, answers, waiting, keychain, faults>>

\* The phone revokes at the gateway, when the backend cannot be reached.
PhoneRevokes(i) ==
  /\ i \in keychain /\ gsubs[i].state = "active"
  /\ gsubs' = [gsubs EXCEPT ![i].state = "revoked"]
  /\ UNCHANGED <<subs, session, net, answers, waiting, keychain, faults>>

(***************************************************************************)
(* The backend.                                                            *)
(***************************************************************************)
TurnedOff(i) == [subs EXCEPT ![i].state = "off", ![i].synced = FALSE]

\* disable(): on the user's wish, or for a subscription that is not valid or not
\* known to be revoked (reconcile()).
Disable(i) ==
  /\ On(i) \/ (subs[i].state = "off" /\ ~subs[i].synced)
  /\ Disabling(i) \notin waiting
  /\ subs' = TurnedOff(i)
  /\ Sent(Disabling(i))
  /\ UNCHANGED <<session, gsubs, answers, keychain, faults>>

\* reconcile() -> sync()
Reconcile(i) ==
  /\ Valid(i) /\ ~subs[i].synced
  /\ Put(i, subs[i].version) \notin waiting
  /\ Sent(Put(i, subs[i].version))
  /\ UNCHANGED <<subs, session, gsubs, answers, keychain, faults>>

Received(m) == answers' = {a \in answers : a.of # m}

\* Mutant: the answer to an earlier version counts.
SyncedAny(m) == [subs EXCEPT ![m.id].synced = TRUE]
\* The registration of this version is acknowledged.
Synced(m) == IF subs[m.id].version = m.version
             THEN [subs EXCEPT ![m.id].synced = TRUE] ELSE subs

\* Mutant: a registration that has been overtaken is left alone.
RegisteredAnyway(m) ==
  /\ [of |-> m, result |-> "ok"] \in answers /\ m \in waiting /\ m.op = "put"
  /\ Received(m) /\ UNCHANGED net
  /\ IF Valid(m.id) THEN subs' = Synced(m) ELSE UNCHANGED subs
  /\ waiting' = waiting \ {m}
  /\ UNCHANGED <<session, gsubs, keychain, faults>>
PutAccepted(m) ==
  /\ [of |-> m, result |-> "ok"] \in answers /\ m \in waiting /\ m.op = "put"
  /\ Received(m)
  /\ IF Valid(m.id)
     THEN subs' = Synced(m) /\ waiting' = waiting \ {m} /\ UNCHANGED net
     ELSE /\ waiting' = (waiting \ {m}) \union {Revoking(m.id)}
          /\ net' = net \union {Revoking(m.id)}
          /\ UNCHANGED subs
  /\ UNCHANGED <<session, gsubs, keychain, faults>>

\* Mutant: a 409 turns the subscription off, whichever version it is about.
OvertakenToo(m) == TRUE
\* Mutant: every 409 is ignored.
NeverCurrent(m) == FALSE
\* A newer version may have won.
StillCurrent(m) == subs[m.id].version = m.version

PutRefused(m) ==
  /\ [of |-> m, result |-> "conflict"] \in answers /\ m \in waiting /\ m.op = "put"
  /\ Received(m)
  /\ IF StillCurrent(m)
     THEN /\ subs' = TurnedOff(m.id)
          /\ waiting' = (waiting \ {m}) \union {Disabling(m.id)}
          /\ net' = net \union {Disabling(m.id)}
     ELSE waiting' = waiting \ {m} /\ UNCHANGED <<subs, net>>
  /\ UNCHANGED <<session, gsubs, keychain, faults>>

\* A 404 is as good as a success.
RevokeDone(m) ==
  /\ [of |-> m, result |-> "ok"] \in answers /\ m \in waiting /\ m.op # "put"
  /\ Received(m)
  /\ subs' = IF m.op = "disable" /\ ~On(m.id)
             THEN [subs EXCEPT ![m.id].synced = TRUE, ![m.id].confirmed = FALSE] ELSE subs
  /\ waiting' = waiting \ {m}
  /\ UNCHANGED <<session, gsubs, net, keychain, faults>>

\* A timeout or a broken connection: the request may still arrive, or be lost.
GiveUp(m) ==
  /\ m \in waiting /\ faults < MaxFaults
  /\ waiting' = waiting \ {m}
  /\ Received(m)
  /\ net' \in {net, net \ {m}}
  /\ faults' = faults + 1
  /\ UNCHANGED <<subs, session, gsubs, keychain>>

\* The store is written before each request, and a restart finds it.
Crash ==
  /\ waiting # {} /\ faults < MaxFaults
  /\ waiting' = {} /\ answers' = {}
  /\ faults' = faults + 1
  /\ UNCHANGED <<subs, session, gsubs, net, keychain>>

(***************************************************************************)
(* The gateway: one transaction for each request.                          *)
(***************************************************************************)
Answered(m, r) ==
  /\ net' = net \ {m}
  /\ answers' = IF m \in waiting THEN answers \union {[of |-> m, result |-> r]} ELSE answers
  /\ UNCHANGED <<subs, session, waiting, keychain, faults>>

\* Mutant: the order of the requests decides.
Acceptable(m) == gsubs[m.id].state # "revoked"
\* The same version brings the same content.
Acceptance(m) == gsubs[m.id].state # "revoked" /\ m.version >= gsubs[m.id].version

HandlePut(m) ==
  /\ m \in net /\ m.op = "put"
  /\ IF Acceptance(m)
     THEN /\ gsubs' = [gsubs EXCEPT ![m.id] = [state |-> "active", version |-> m.version]]
          /\ Answered(m, "ok")
     ELSE UNCHANGED gsubs /\ Answered(m, "conflict")

HandleRevoke(m) ==
  /\ m \in net /\ m.op # "put"
  /\ gsubs' = IF gsubs[m.id].state = "none" THEN gsubs
              ELSE [gsubs EXCEPT ![m.id].state = "revoked"]
  /\ Answered(m, "ok")

Backend(i) == Disable(i) \/ Reconcile(i)
Reads(m) == PutAccepted(m) \/ PutRefused(m) \/ RevokeDone(m)
Handles(m) == HandlePut(m) \/ HandleRevoke(m)

Next ==
  \/ \E i \in Ids : \/ Register(i) \/ Confirm(i) \/ StoreRevokeToken(i) \/ PhoneRevokes(i)
                    \/ Backend(i)
  \/ \E m \in waiting : Reads(m) \/ GiveUp(m)
  \/ \E m \in net : Handles(m)
  \/ Login \/ Crash

Spec == Init /\ [][Next]_vars

\* The reconciliation comes back with each sample of the device; it disables what
\* is not valid. A request that is waited for is answered.
Fairness ==
  /\ \A i \in Ids : /\ WF_vars(Reconcile(i))
                    /\ WF_vars(~Valid(i) /\ Disable(i))
  /\ \A m \in Request : WF_vars(m \in waiting /\ (Reads(m) \/ Handles(m)))

FairSpec == Spec /\ Fairness

(***************************************************************************)
(* An enabled subscription that counts as synced is the one the gateway    *)
(* has, with this token, or has revoked since: no answer to an earlier     *)
(* registration, and no late request, makes it so (sync(), register() of   *)
(* the gateway).                                                           *)
(***************************************************************************)
SyncedIsTrue ==
  \A i \in Ids : On(i) /\ subs[i].synced =>
    gsubs[i].state # "none" /\ gsubs[i].version = subs[i].version

(***************************************************************************)
(* The answer to a registration turns the subscription off only when the   *)
(* gateway has revoked it or knows a newer version: the refusal of a       *)
(* registration that was overtaken never does (sync(), the 409 branch).    *)
(***************************************************************************)
OvertakenStaysOn ==
  [][\A i \in Ids : \A m \in waiting :
       (On(i) /\ subs'[i].state = "off" /\ m.op = "put" /\ m.id = i /\ m \notin waiting')
         => gsubs[i].state = "revoked" \/ gsubs[i].version > subs[i].version]_vars

(***************************************************************************)
(* What was revoked stays revoked, and the token of a subscription is      *)
(* never replaced by an older one (the tombstone and the version of the    *)
(* gateway's register()).                                                  *)
(***************************************************************************)
NothingComesBack ==
  [][\A i \in Ids : /\ gsubs[i].state = "revoked" => gsubs'[i].state = "revoked"
                    /\ gsubs'[i].version >= gsubs[i].version]_vars

(***************************************************************************)
(* The inductive invariant, without the bounds: no request and no          *)
(* subscription of the gateway is ahead of the backend's version, and an   *)
(* answer that waits to be read is still true of the gateway, whatever has *)
(* reached it since; and the connection has one enabled subscription.      *)
(***************************************************************************)
Messages ==
  {m \in [op : {"put", "disable", "revoke"}, id : Ids, version : Nat] :
     m.op # "put" => m.version = 0}

TypeOK ==
  /\ subs \in [Ids -> [state : States, version : Nat, session : Nat,
                       synced : BOOLEAN, confirmed : BOOLEAN]]
  /\ gsubs \in [Ids -> [state : {"none", "active", "revoked"}, version : Nat]]
  /\ session \in Nat /\ keychain \subseteq Ids /\ faults \in Nat
  /\ \A m \in net \union waiting : m \in Messages
  /\ \A a \in answers : a.of \in waiting

NothingAhead ==
  /\ \A i \in Ids : gsubs[i].version <= subs[i].version
  /\ \A m \in net \union waiting : m.op = "put" => m.version <= subs[m.id].version

AnswersTrue ==
  \A a \in answers : a.of.op = "put" =>
    LET g == gsubs[a.of.id] IN
    \/ a.result = "ok" /\ g.state # "none" /\ g.version >= a.of.version
    \/ a.result = "conflict" /\ (g.state = "revoked" \/ g.version > a.of.version)

OneEnabled == \A i, j \in Ids : On(i) /\ On(j) => i = j

\* Without a fault each registration that is under way is waited for and answered
\* once.
OneAnswer ==
  /\ \A m \in net : m.op = "put" => m \in waiting /\ \A a \in answers : a.of # m
  /\ \A a, b \in answers : a.of = b.of /\ a.of.op = "put" => a.result = b.result

\* A registration the gateway accepted that the backend has not read, or the
\* revocation that calls it back.
CalledBack(i) ==
  \/ Revoking(i) \in waiting
  \/ \E a \in answers : a.of.op = "put" /\ a.of.id = i /\ a.result = "ok"

\* Once a subscription is disabled it stays off, a revocation that calls back is
\* about a subscription the gateway has, and after the answer to either only a
\* registration that will be called back makes it active.
Revoked(i) ==
  /\ Disabling(i) \in net \union waiting => subs[i].state = "off"
  /\ Revoking(i) \in net \union waiting => gsubs[i].state # "none"
  /\ (\E a \in answers : a.of = Revoking(i)) => gsubs[i].state = "revoked"
  /\ /\ subs[i].state = "off" /\ gsubs[i].state = "active"
     /\ subs[i].synced \/ \E a \in answers : a.of = Disabling(i)
     => CalledBack(i)

Following == faults = 0 => OneAnswer /\ \A i \in Ids : Revoked(i)

IInv ==
  TypeOK /\ NothingAhead /\ AnswersTrue /\ SyncedIsTrue /\ OneEnabled /\ Following

(***************************************************************************)
(* As long as no request was given up, a subscription both sides count as  *)
(* settled, off for the backend and active at the gateway, is about to be  *)
(* revoked: a registration that reaches the gateway after the revocation   *)
(* is called back (sync(), its last branch).                               *)
(***************************************************************************)
RevocationFollows ==
  \A i \in Ids :
    (faults = 0 /\ subs[i].state = "off" /\ subs[i].synced /\ gsubs[i].state = "active")
      => CalledBack(i)

(***************************************************************************)
(* A registration comes to an end: it is acknowledged, or the subscription *)
(* is off; and one that is not valid any more is off (reconcile()).        *)
(***************************************************************************)
RegistrationEnds ==
  \A i \in Ids : /\ On(i) /\ ~subs[i].synced ~> ~On(i) \/ subs[i].synced
                 /\ On(i) /\ ~Valid(i) ~> ~On(i) \/ Valid(i)
=============================================================================
