------------------------- MODULE MCMeterSimulation --------------------------
(* Instances of MeterSimulation for TLC: four days of two hours, of which  *)
(* the last is seen up to its morning.                                     *)
EXTENDS MeterSimulation

FourDays == 1 .. 7
Bounds == <<-100, 100>>

(* The temperature of a midnight may be missing, alone or with those of the *)
(* whole day after it.                                                     *)
FewHours == {{Temperature} \X hours : hours \in {{}, {2}, 2 .. 4}}

(* The nights are colder than the days; the radiation is what it is. *)
Measurement(day) ==
    [k \in Parameter \X FourDays |->
        IF k[1] = Radiation THEN 0 ELSE IF k[2] % 2 = 0 THEN 1 ELSE day]

(* The days are revised. *)
RevisedTemperatures == {Measurement(2), Measurement(3)}
=============================================================================
