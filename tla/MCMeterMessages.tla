-------------------------- MODULE MCMeterMessages ---------------------------
(* An instance of MeterMessages for TLC: two customers, one other member,  *)
(* five days of two quarter hours, but one of one and one of three.        *)
EXTENDS MeterMessages

Midnights == [d \in -2 .. 3 |-> CASE d <= 0 -> 2 * d + 10 [] d = 1 -> 11 [] d > 1 -> 2 * d + 10]

(* The first customer is late up to day 0, the second is corrected, of day *)
(* 1 only after the last run.                                              *)
Delays == [k \in Point \X Day |-> IF k[1] = 1 /\ k[2] <= 0 THEN 1 ELSE 0]
Lags == [k \in Point \X Day |-> IF k[1] = 2 /\ k[2] \in {-1, 0, 1} THEN 1 ELSE 0]
Wrongs == [k \in Point \X Day |-> {1}]
Losts == [k \in Point \X Day |-> IF k[2] = -1 THEN {1} ELSE {}]

Uses == [k \in (Point \cup Other) \X Day |->
            [q \in Positions(k[2]) |-> IF k[1] = 1 THEN 3 ELSE IF q = 2 THEN 0 ELSE 4]]
Plant == [d \in Day |-> [q \in Positions(d) |-> IF d = 0 THEN 9 ELSE 5]]
Estimates == [k \in Point \X Day |-> [q \in Positions(k[2]) |-> IF k[2] = 0 THEN 1 ELSE 9]]
(* VALID_FROM lies one day before the look-back of the simulation ends.     *)
Opening == -1

Exchanges == [c \in Point |-> IF c = 1 THEN {0, 1} ELSE {1}]

(* Messages by hand: one that is fine but of nobody's point, and others    *)
(* that are not.                                                           *)
Fine ==
    [schema |-> "reading", step |-> 1, point |-> 3, meter |-> [point |-> 3, letter |-> 0],
     version |-> 1, deliveredAt |-> 13, start |-> 10, first |-> <<4, Null>>, second |-> <<1, Null>>]

Strays ==
    {Fine,
     [Fine EXCEPT !.second = <<5, Null>>],
     [Fine EXCEPT !.second = <<1, 1>>],
     [Fine EXCEPT !.deliveredAt = 11],
     [Fine EXCEPT !.start = 14, !.deliveredAt = 17],
     [Fine EXCEPT !.schema = "community", !.first = <<Null, Null>>, !.second = <<Null, Null>>],
     [Fine EXCEPT !.schema = "community", !.version = 2, !.second = <<20, Null>>],
     [Fine EXCEPT !.meter = Malformed]}
=============================================================================
