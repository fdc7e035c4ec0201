--------------------------- MODULE MCAlertDelivery ---------------------------
(***************************************************************************)
(* An instance of the alert delivery for TLC: one phone with two           *)
(* connections, of which an older release has left a delivery of one, or   *)
(* of both.                                                                *)
(***************************************************************************)
EXTENDS AlertDelivery

CONSTANTS p1, s1

OnePhone == [s \in Subs |-> p1]

\* The deliveries an older release has left.
Older == {i \in Known : i[2] \in Subs}

\* Bounds: a single delivery of an older release is that of s1; its state may be what a
\* trouble has left, and no more of them follow; and the exception of NoRepeat, which is
\* for good, is not followed.
Bounded ==
  /\ Older # {} => <<1, s1>> \in Older /\ troubles = 0
  /\ doubled = {}
=============================================================================
