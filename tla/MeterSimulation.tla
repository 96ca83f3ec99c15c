-------------------------- MODULE MeterSimulation ---------------------------
(***************************************************************************)
(* The delivery as src/megavolt/simulate.py computes it from the weather   *)
(* the warehouse has frozen. Everything else is drawn from the seed, so    *)
(* what can differ between a run and its replay is the heating level of    *)
(* each day and the radiation over the plant.                              *)
(*                                                                         *)
(* Abstraction: consumption is its heating level and generation is the     *)
(* radiation at both ends of each hour; temperatures are whole degrees and *)
(* means are kept in units of 1/Scale, Scale a multiple of every count.    *)
(***************************************************************************)
EXTENDS Weather, Functions

CONSTANTS
    Temperature,    \* T2M
    Radiation,      \* GL
    Scale,          \* unit of a mean
    HeatingLimit,   \* HEATING_LIMIT_C
    HeatingBounds,  \* HEATING_BOUNDS, as <<lowest, highest>> extra need
    Memory,         \* HEATING_MEMORY_DAYS
    LookBackDays,   \* MAX_LOOKBACK_DAYS
    RunDay,         \* delivery days
    Never           \* not delivered yet

ASSUME SimulationAssumption ==
    /\ {Temperature, Radiation} \subseteq Parameter
    /\ Scale \in Nat \ {0}
    /\ Memory \in Nat \ {0}
    /\ LookBackDays \in Nat \ {0}
    /\ RunDay \subseteq Nat

VARIABLES
    delivered       \* delivered[R]: what was first produced for delivery day R

simVars == <<vars, delivered>>

-----------------------------------------------------------------------------
(* Slip: the simulator is given the hours as they stand in the table.      *)
LoadedLatest(start, end) ==
    {r \in LatestRows : /\ start <= r.hour /\ r.hour <= end}

(* The hours the simulator is given: _load_weather() between two hours. *)
Loaded(start, end) == {r \in Shown : start <= r.hour /\ r.hour <= end}

Midnight(d) == (d - 1) * HoursPerDay

(* _weather_for(): as far back as a delivery can reach. *)
WeatherFor(runDay) ==
    Loaded(Midnight(runDay - LookBackDays - Memory), Midnight(runDay) + 1)

(* Slip: the hour that starts the day counts, which belongs to the day     *)
(* before.                                                                 *)
ReadyOnMidnight(runDay) == Loaded(Midnight(runDay - 1), Midnight(runDay)) # {}

(* weather_ready(): some hour of the covered day, its first midnight       *)
(* excluded.                                                               *)
WeatherReady(runDay) ==
    \E r \in Loaded(Midnight(runDay - 1), Midnight(runDay)) :
        Midnight(runDay - 1) < r.hour

-----------------------------------------------------------------------------
(* Consumption. *)

AtLeast(low, n) == IF n < low THEN low ELSE n
AtMost(high, n) == IF high < n THEN high ELSE n

(* The temperatures of a day: from its first midnight to its last hour. *)
Measured(weather, d) ==
    {r \in weather : /\ r.parameter = Temperature
                     /\ Midnight(d) <= r.hour /\ r.hour < Midnight(d + 1)}

(* _heating_need(): how far the mean lay below the limit. *)
HeatingNeed(weather, d) ==
    LET measured == Measured(weather, d)
        mean == (Scale * SumFunction([r \in measured |-> r.value]))
                    \div Cardinality(measured)
    IN  AtLeast(0, Scale * HeatingLimit - mean)

(* heating_level(): against the mean of the days before, within bounds, in *)
(* units of 1/(Scale * Memory).                                            *)
HeatingLevel(weather, d) ==
    LET before == SumFunction([e \in d - Memory .. d - 1 |-> HeatingNeed(weather, e)])
        extra == Memory * HeatingNeed(weather, d) - before
    IN  AtMost(HeatingBounds[2], AtLeast(HeatingBounds[1], extra))

-----------------------------------------------------------------------------
(* Generation. *)

RadiationAt(weather, h) ==
    {r.value : r \in {r \in weather : r.parameter = Radiation /\ r.hour = h}}

(* _irradiance(): a straight line between two neighbours, or the standard  *)
(* profile where one is missing.                                           *)
Irradiance(weather, h) ==
    IF RadiationAt(weather, h) = {} \/ RadiationAt(weather, h + 1) = {}
    THEN Never
    ELSE <<RadiationAt(weather, h), RadiationAt(weather, h + 1)>>

Generation(weather, d) ==
    [h \in Midnight(d) .. Midnight(d + 1) - 1 |-> Irradiance(weather, h)]

-----------------------------------------------------------------------------
(* Deliveries. *)

(* The consumption days of a delivery, and all days its heating looks at. *)
ConsumptionDays(runDay) == runDay - LookBackDays .. runDay - 1
Reach(runDay) == runDay - LookBackDays - Memory .. runDay - 1

(* No SimulationError: every day has a temperature, and the days delivered *)
(* have a radiation of their own.                                          *)
CanSimulate(runDay) ==
    LET weather == WeatherFor(runDay)
    IN  /\ \A d \in Reach(runDay) : Measured(weather, d) # {}
        /\ \A d \in ConsumptionDays(runDay) :
            \E r \in weather : /\ r.parameter = Radiation
                               /\ Midnight(d) < r.hour /\ r.hour <= Midnight(d + 1)

(* deliveries_for(): what the messages of a delivery day are made of. *)
Deliveries(runDay) ==
    LET weather == WeatherFor(runDay)
    IN  [d \in ConsumptionDays(runDay) |->
            <<HeatingLevel(weather, d), Generation(weather, d)>>]

SimulationInit ==
    /\ Init
    /\ delivered = [R \in RunDay |-> Never]

(* The sensor lets the run on and deliver() produces the day. *)
Deliver(R) ==
    /\ delivered[R] = Never
    /\ WeatherReady(R)
    /\ CanSimulate(R)
    /\ delivered' = [delivered EXCEPT ![R] = Deliveries(R)]
    /\ UNCHANGED vars

SimulationNext ==
    \/ Next /\ UNCHANGED delivered
    \/ \E R \in RunDay : Deliver(R)

SimulationSpec == SimulationInit /\ [][SimulationNext]_simVars

-----------------------------------------------------------------------------
(* Properties. *)

(* The sensor's test, one hour inside the covered day, is exact: it lets a *)
(* delivery on just when the warehouse has frozen the day it covers        *)
(* (simulate.py:608-622).                                                  *)
ReadyIsFrozen == \A R \in RunDay : WeatherReady(R) <=> Frozen(R - 1)

(* Once the day before its reach and every day of its reach are frozen, a  *)
(* delivery is what it will be in every replay (simulate.py:14-20).        *)
FrozenReachReplays ==
    [][\A R \in RunDay :
        (\A d \in Reach(R) \cup {R - LookBackDays - Memory - 1} : Frozen(d)) =>
            /\ CanSimulate(R)' = CanSimulate(R)
            /\ CanSimulate(R) => Deliveries(R)' = Deliveries(R)]_simVars

(* A day that was delivered once can be replayed at any time: however the  *)
(* weather is revised, filled in or frozen later, the sensor lets it on    *)
(* and no day of it loses the hours it needs (simulate.py:197-225,         *)
(* 590-622). That the replay says the same is FrozenReachReplays, and not  *)
(* more: a day of the reach that is not frozen yet may still change it.    *)
ReplayIsPossible ==
    \A R \in RunDay : delivered[R] # Never => WeatherReady(R) /\ CanSimulate(R)
=============================================================================
