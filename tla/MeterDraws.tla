----------------------------- MODULE MeterDraws -----------------------------
(***************************************************************************)
(* Which messages a delivery day brings: yesterday's readings, late ones   *)
(* and corrections (deliveries_for() of src/megavolt/simulate.py). What    *)
(* the seed decides - who is late, who is corrected, what is wrong, what   *)
(* is lost - is drawn once per point and day and is constant.              *)
(***************************************************************************)
EXTENDS Integers

CONSTANTS
    Point,              \* our metering points
    Quarter,            \* the quarter hours of a day
    MaxDelay,           \* max(LATE_DAYS)
    MaxLag,             \* max(CORRECTION_LAG_DAYS)
    Delay,              \* Delay[c, d]: delay_days
    Lag,                \* Lag[c, d]: correction_lag_days, 0 where is_corrected is false
    Wrong,              \* Wrong[c, d]: corrected_positions
    Lost,               \* Lost[c, d]: the quarter hours that are never delivered
    FirstRun,           \* bound: the first run of the delivery DAG
    LastRun             \* bound: the last one

(* MAX_LOOKBACK_DAYS. *)
LookBack == 1 + MaxDelay + MaxLag

RunDay == FirstRun .. LastRun
Day == FirstRun - LookBack .. LastRun - 1

ASSUME DrawsAssumption ==
    /\ MaxDelay \in Nat /\ MaxLag \in Nat
    /\ Delay \in [Point \X Day -> 0 .. MaxDelay]
    /\ Lag \in [Point \X Day -> 0 .. MaxLag]
    /\ Wrong \in [Point \X Day -> SUBSET Quarter]
    /\ Lost \in [Point \X Day -> SUBSET Quarter]
    /\ FirstRun \in Int /\ LastRun \in Int /\ FirstRun <= LastRun

Message == [point : Point, day : Day, version : {1, 2}, run : RunDay]

(* Slip: the look-back stops one day short. *)
CoveredTooShort(runDay) == runDay - LookBack + 1 .. runDay - 1

(* day = run_day - (1 + age), for age in range(MAX_LOOKBACK_DAYS). *)
Covered(runDay) == runDay - LookBack .. runDay - 1

Age(runDay, d) == runDay - 1 - d

(* Whether version 1 holds an estimate that version 2 will put right. *)
Estimated(m, q) ==
    m.version = 1 /\ Lag[<<m.point, m.day>>] > 0 /\ q \in Wrong[<<m.point, m.day>>]

(* The quarter hours a message has a value for: in version 1 all but the   *)
(* lost ones, in version 2 those that were wrong.                          *)
Brings(m) ==
    LET key == <<m.point, m.day>>
    IN  (IF m.version = 1 THEN Quarter ELSE Wrong[key]) \ Lost[key]

Firsts(runDay) ==
    {[point |-> k[1], day |-> k[2], version |-> 1, run |-> runDay] :
        k \in {k \in Point \X Covered(runDay) : Age(runDay, k[2]) = Delay[k]}}

(* A correction without a single value is not sent. *)
Corrections(runDay) ==
    {m \in {[point |-> k[1], day |-> k[2], version |-> 2, run |-> runDay] :
                k \in {k \in Point \X Covered(runDay) :
                        Lag[k] > 0 /\ Age(runDay, k[2]) = Delay[k] + Lag[k]}} :
        Brings(m) # {}}

Deliveries(runDay) == Firsts(runDay) \cup Corrections(runDay)
=============================================================================
