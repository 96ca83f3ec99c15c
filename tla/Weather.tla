------------------------------- MODULE Weather ------------------------------
(***************************************************************************)
(* The weather in the warehouse: dags/geosphere_weather.py fetches one     *)
(* window per run and stores what changed (store_weather, _INSERT_WEATHER  *)
(* of src/megavolt/warehouse.py); the simulator reads it through           *)
(* _SELECT_FIRST_WEATHER, which freezes a day the moment it has values of  *)
(* its own and something after it has arrived.                             *)
(*                                                                         *)
(* Abstraction: an hour is a number; the hours of day d are those after    *)
(* its midnight up to and including the next one, (d-1)*H+1 .. d*H. The    *)
(* database clock counts the transactions that stored something, one at a  *)
(* time (max_active_runs=1). The source holds a value for every hour, which *)
(* it may revise between two fetches, and may leave hours of an answer out *)
(* (a null).                                                               *)
(***************************************************************************)
EXTENDS Integers, FiniteSets

CONSTANTS
    Parameter,      \* what is measured: T2M, GL
    Hour,           \* the hours the model looks at
    HoursPerDay,    \* H
    Value,          \* measured values
    Source,         \* what the source may hold at a fetch: each a value per hour
    MayLack,        \* what the source may leave out of an answer: sets of hours
    Window,         \* WINDOW_DAYS of a scheduled run
    MaxWindow,      \* bound: the window_days of a run started by hand
    Morning,        \* hours of a day that are over when its run starts
    FirstRun,       \* day of the first scheduled run
    LastRun,        \* bound: day of the last scheduled run
    MaxStored,      \* bound: transactions
    Missing         \* no value

Key == Parameter \X Hour

ASSUME WeatherAssumption ==
    /\ Hour \subseteq Nat
    /\ HoursPerDay \in Nat \ {0}
    /\ Source \subseteq [Key -> Value]
    /\ Missing \notin Value
    /\ MayLack \subseteq SUBSET Key
    /\ Window \in Nat \ {0} /\ MaxWindow \in Nat \ {0}
    /\ Morning \in 1 .. HoursPerDay
    /\ FirstRun \in Nat \ {0} /\ LastRun \in Nat
    /\ MaxStored \in Nat

VARIABLES
    rows,           \* raw.weather_observation, append-only
    clock,          \* received_at of the latest transaction
    said,           \* said[k]: what the source said last for an hour
    lastRun         \* the last scheduled run that was started

vars == <<rows, clock, said, lastRun>>

(* No row is stamped later than the clock: its own clock is the database's. *)
Row == [parameter : Parameter, hour : Hour, value : Value, receivedAt : 1 .. clock]

KeyOf(row) == <<row.parameter, row.hour>>

(* An hour belongs to the local day it ends. *)
DayOf(hour) == ((hour - 1) \div HoursPerDay) + 1
Days == {DayOf(h) : h \in Hour}

TypeOK ==
    /\ rows \subseteq Row
    /\ clock \in Nat
    /\ said \in [Key -> Value \cup {Missing}]
    /\ lastRun \in Nat

Init ==
    /\ rows = {}
    /\ clock = 0
    /\ said = [k \in Key |-> Missing]
    /\ lastRun = FirstRun - 1

-----------------------------------------------------------------------------
(* Storing. *)

(* Slip: a value is stored when no row of its hour has ever said the same. *)
NeverSaid(k, v) == ~ \E r \in rows : KeyOf(r) = k /\ r.value = v

(* _INSERT_WEATHER: a value is stored when the latest row of its hour does *)
(* not say the same.                                                       *)
Changed(k, v) ==
    ~ \E r \in rows :
        /\ KeyOf(r) = k /\ r.value = v
        /\ \A q \in rows : KeyOf(q) = k => q.receivedAt <= r.receivedAt

StoredRows(answer, stamp) ==
    {[parameter |-> k[1], hour |-> k[2], value |-> answer[k], receivedAt |-> stamp] :
        k \in {k \in DOMAIN answer : Changed(k, answer[k])}}

Remembered(answer) ==
    [k \in Key |-> IF k \in DOMAIN answer THEN answer[k] ELSE said[k]]

(* Slip: a day that is fetched again replaces what was there of it.        *)
StoreAnew(answer) ==
    LET days == {DayOf(k[2]) : k \in DOMAIN answer}
    IN  /\ rows' = {r \in rows : DayOf(r.hour) \notin days} \cup
                    {[parameter |-> k[1], hour |-> k[2], value |-> answer[k],
                      receivedAt |-> clock + 1] : k \in DOMAIN answer}
        /\ clock' = clock + 1
        /\ said' = Remembered(answer)

(* store_weather(): one transaction, one received_at for all its rows. *)
Store(answer) ==
    /\ rows' = rows \cup StoredRows(answer, clock + 1)
    /\ clock' = clock + 1
    /\ said' = Remembered(answer)

(* parse(): a null is left out, and an answer without values is an error. *)
Answers(hours) ==
    LET keys == Parameter \X hours
    IN  {[k \in given |-> held[k]] :
            held \in Source,
            given \in {keys \ lacking : lacking \in MayLack} \ {{}}}

(* fetch_and_store(): the window ends at the given hour and starts at a    *)
(* local midnight, both hours included.                                    *)
FetchWindow(end, window) ==
    LET start == (end \div HoursPerDay - window) * HoursPerDay
    IN  {h \in Hour : start <= h /\ h <= end}

Fetch(end, window) ==
    /\ clock < MaxStored
    /\ \E answer \in Answers(FetchWindow(end, window)) : Store(answer)

-----------------------------------------------------------------------------
(* Runs of the DAG. *)

MorningOf(d) == (d - 1) * HoursPerDay + Morning

(* The next scheduled run, in order; it may fail for good. *)
ScheduledRun ==
    /\ lastRun < LastRun
    /\ lastRun' = lastRun + 1
    /\ \/ Fetch(MorningOf(lastRun'), Window)
       \/ UNCHANGED <<rows, clock, said>>

(* A run is retried, or cleared and run again: the same window. *)
RunAgain ==
    /\ \E d \in FirstRun .. lastRun : Fetch(MorningOf(d), Window)
    /\ UNCHANGED lastRun

(* A run started by hand: its window ends now. *)
RunByHand ==
    /\ \E end \in Hour, window \in 1 .. MaxWindow :
        /\ MorningOf(lastRun) <= end /\ end < MorningOf(lastRun + 1)
        /\ Fetch(end, window)
    /\ UNCHANGED lastRun

Next == ScheduledRun \/ RunAgain \/ RunByHand

Spec == Init /\ [][Next]_vars

-----------------------------------------------------------------------------
(* _SELECT_FIRST_WEATHER. *)

(* Slip: the latest value of an hour is shown. *)
LatestRows ==
    {r \in rows : \A q \in rows : KeyOf(q) = KeyOf(r) => q.receivedAt <= r.receivedAt}

(* The first value received for each hour. *)
FirstRows ==
    {r \in rows : \A q \in rows : KeyOf(q) = KeyOf(r) => r.receivedAt <= q.receivedAt}

(* A day is frozen when it has rows and a later day has rows. *)
Frozen(d) ==
    /\ \E r \in rows : DayOf(r.hour) = d
    /\ \E q \in rows : DayOf(q.hour) > d

(* Slip: every hour of a frozen day is shown, whenever it arrived. *)
AnyTime(r) == r \in rows

(* Slip: only what arrived before the first later day counts, so a day     *)
(* filled in afterwards shows nothing.                                     *)
BeforeLater(r) ==
    \A q \in rows : DayOf(q.hour) > DayOf(r.hour) => r.receivedAt <= q.receivedAt

(* receivedAt <= greatest(own_first, later_first): no later than the first *)
(* row of its own day, or no later than the first row of any later day.    *)
InTime(r) ==
    \/ \A q \in rows : DayOf(q.hour) = DayOf(r.hour) => r.receivedAt <= q.receivedAt
    \/ \A q \in rows : DayOf(q.hour) > DayOf(r.hour) => r.receivedAt <= q.receivedAt

Shown == {r \in FirstRows : Frozen(DayOf(r.hour)) /\ InTime(r)}

ShownOf(d) == {r \in Shown : DayOf(r.hour) = d}

-----------------------------------------------------------------------------
(* Properties. *)

(* "The same answer for a day whenever it is asked": a frozen day stays    *)
(* frozen, and neither a revision, nor an hour that turns up late, nor the *)
(* arrival of further days changes what it shows (warehouse.py:107-112).   *)
FrozenAnswerFixed ==
    [][\A d \in Days : Frozen(d) => Frozen(d)' /\ ShownOf(d)' = ShownOf(d)]_vars

(* A frozen day shows at least one hour, so the delivery that waits for it *)
(* is let through (simulate.py:611-613).                                   *)
FrozenShows == \A d \in Days : Frozen(d) => ShownOf(d) # {}

(* A value that is revised and later returns to an earlier one wins again: *)
(* the latest row of an hour is what the source said last                  *)
(* (warehouse.py:21-25; stg_weather_hourly.sql reads the latest row).      *)
LatestIsLastSaid ==
    \A k \in Key : said[k] # Missing =>
        \E r \in LatestRows : KeyOf(r) = k /\ r.value = said[k]
=============================================================================
