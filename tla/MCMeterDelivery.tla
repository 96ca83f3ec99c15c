-------------------------- MODULE MCMeterDelivery ---------------------------
(* Instances of MeterDelivery for TLC: which message goes where. *)
EXTENDS MeterDelivery

CONSTANTS p1, p2, m1, m2, m3

(* One day of two messages on two partitions. *)
OneDay == {1}
OneDelivery == [d \in OneDay |-> {m1, m2}]
Hashed == [m \in {m1, m2, m3} |-> IF m = m2 THEN p2 ELSE p1]

(* Two days, the second with an unreadable message, on two partitions. *)
TwoDays == {1, 2}
TwoDeliveries == [d \in TwoDays |-> IF d = 1 THEN {m1} ELSE {m2, m3}]

(* One day with an unreadable message, on one of two partitions. *)
UnreadableToo == [d \in OneDay |-> {m1, m3}]
OnePartition == [m \in {m1, m2, m3} |-> p1]
=============================================================================
