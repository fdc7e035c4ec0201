--------------------------- MODULE EventDelivery ---------------------------
(***************************************************************************)
(* What the backend may rely on when it consumes the app-server's event    *)
(* stream: each published event is handled at least once, first in the     *)
(* order of publication, unless a failure the module names has lost it.    *)
(* Events are numbered in the order they are published.                    *)
(***************************************************************************)
EXTENDS Naturals

VARIABLES
  published,  \* the events offered to the consumer
  done,       \* those its handler has completed for
  lost        \* those a failure may have lost

vars == <<published, done, lost>>

TypeOK ==
  /\ published \subseteq Nat
  /\ done \subseteq published
  /\ lost \subseteq published

Init == published = {} /\ done = {} /\ lost = {}

\* A new event; it is lost at once when its number is one the consumer has
\* already passed.
Publish ==
  \E u \in published' \ published :
    /\ published' = published \union {u}
    /\ \A v \in published : v < u
    /\ lost' \in {lost, lost \union {u}}
    /\ UNCHANGED done

Earlier(u) == {v \in published : v < u}

\* The first completed handling of an event: those before it are handled or lost.
Deliver(u) ==
  /\ u \in published \ done
  /\ Earlier(u) \subseteq done \union lost
  /\ done' = done \union {u}
  /\ UNCHANGED <<published, lost>>

Lose ==
  /\ lost \subseteq lost' /\ lost' \subseteq published
  /\ lost' # lost
  /\ UNCHANGED <<published, done>>

Next == Publish \/ (\E u \in published : Deliver(u)) \/ Lose

Spec == Init /\ [][Next]_vars

(***************************************************************************)
(* Each event is handled in the end, unless it is lost.                    *)
(***************************************************************************)
AtLeastOnce(u) == u \in published ~> u \in done \union lost
=============================================================================
