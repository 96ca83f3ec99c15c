---------------------------- MODULE MCSettlement ----------------------------
(* Instances of Settlement for TLC: what the seed draws for one point.     *)
EXTENDS Settlement

CONSTANTS qTrue, qWrong, qLost

(* Up to day 0 readings come a day late, afterwards on time; those of days *)
(* 0 and 1 are corrected a day after.                                      *)
LateAtFirst == [k \in Point \X Day |-> IF k[2] <= 0 THEN 1 ELSE 0]
TwoCorrected == [k \in Point \X Day |-> IF k[2] \in {0, 1} THEN 1 ELSE 0]
OneWrong == [k \in Point \X Day |-> {qWrong}]
OneLost == [k \in Point \X Day |-> {qLost}]
=============================================================================
