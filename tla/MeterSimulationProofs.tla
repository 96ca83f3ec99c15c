----------------------- MODULE MeterSimulationProofs ------------------------
(***************************************************************************)
(* What is proved about Weather and MeterSimulation for every value of     *)
(* their constants: a frozen day never changes its answer and never has an *)
(* empty one; the sensor of a delivery is exact; a delivery whose reach is *)
(* frozen is what it will be in every replay.                              *)
(* The argument is the clock: everything a transaction adds is stamped     *)
(* later than everything already there, and a frozen day has a row of its  *)
(* own and a row of a later day that both close the door on later stamps.  *)
(***************************************************************************)
EXTENDS MeterSimulation, Numbers, TLAPS

RowsOf(answer) == StoredRows(answer, clock + 1)

(* Every fetch is one store of an answer about known hours. *)
LEMMA FetchStores ==
    ASSUME WeatherAssumption, NEW end, NEW window, Fetch(end, window)
    PROVE  \E answer : /\ DOMAIN answer \subseteq Key
                       /\ \A k \in DOMAIN answer : answer[k] \in Value
                       /\ Store(answer)
<1>1. FetchWindow(end, window) \subseteq Hour
    BY DEF FetchWindow
<1>2. PICK answer \in Answers(FetchWindow(end, window)) : Store(answer)
    BY DEF Fetch
<1>3. PICK held \in Source, given \in SUBSET (Parameter \X FetchWindow(end, window)) :
        answer = [k \in given |-> held[k]]
    BY <1>2 DEF Answers
<1>4. given \subseteq Key
    BY <1>1 DEF Key
<1> QED
    BY <1>2, <1>3, <1>4 DEF WeatherAssumption

(* A step leaves the rows alone or adds rows stamped by the new clock. *)
LEMMA StepAddsLater ==
    ASSUME TypeOK, WeatherAssumption, [Next]_vars
    PROVE  /\ TypeOK'
           /\ \/ rows' = rows /\ clock' = clock
              \/ /\ clock' = clock + 1
                 /\ \E new : /\ rows' = rows \cup new
                             /\ \A r \in new : r.receivedAt = clock + 1
<1>1. ASSUME NEW answer, DOMAIN answer \subseteq Key,
             \A k \in DOMAIN answer : answer[k] \in Value,
             Store(answer)
      PROVE  /\ rows' \subseteq Row' /\ clock' \in Nat
             /\ said' \in [Key -> Value \cup {Missing}]
             /\ clock' = clock + 1
             /\ rows' = rows \cup RowsOf(answer)
             /\ \A r \in RowsOf(answer) : r.receivedAt = clock + 1
    <2>1. clock' = clock + 1 /\ clock' \in Nat
        BY <1>1 DEF Store, TypeOK
    <2>2. rows \subseteq Row'
        BY <2>1 DEF Row, TypeOK
    <2>3. RowsOf(answer) \subseteq Row'
        BY <1>1, <2>1 DEF RowsOf, StoredRows, Row, Key, TypeOK
    <2>4. said' \in [Key -> Value \cup {Missing}]
        BY <1>1 DEF Store, Remembered, TypeOK
    <2> QED
        BY <1>1, <2>1, <2>2, <2>3, <2>4 DEF Store, RowsOf, StoredRows
<1>2. ASSUME NEW end, NEW window, Fetch(end, window), lastRun' \in Nat
      PROVE  /\ TypeOK'
             /\ clock' = clock + 1
             /\ \E new : /\ rows' = rows \cup new
                         /\ \A r \in new : r.receivedAt = clock + 1
    BY <1>1, <1>2, FetchStores DEF TypeOK
<1>3. CASE ScheduledRun
    <2>1. lastRun' \in Nat
        BY <1>3 DEF ScheduledRun, TypeOK
    <2>2. CASE UNCHANGED <<rows, clock, said>>
        BY <2>1, <2>2 DEF TypeOK, Row
    <2>3. CASE Fetch(MorningOf(lastRun'), Window)
        BY <1>2, <2>1, <2>3
    <2> QED
        BY <1>3, <2>2, <2>3 DEF ScheduledRun
<1>4. CASE RunAgain
    BY <1>2, <1>4 DEF RunAgain, TypeOK
<1>5. CASE RunByHand
    BY <1>2, <1>5 DEF RunByHand, TypeOK
<1>6. CASE UNCHANGED vars
    BY <1>6 DEF vars, TypeOK, Row
<1> QED
    BY <1>3, <1>4, <1>5, <1>6 DEF Next

LEMMA StampedByClock == TypeOK => \A r \in rows : r.receivedAt \in Nat /\ r.receivedAt <= clock
BY DEF TypeOK, Row

LEMMA InitInv == WeatherAssumption /\ Init => TypeOK
<1> SUFFICES ASSUME WeatherAssumption, Init
             PROVE  TypeOK
    OBVIOUS
<1>1. lastRun \in Nat
    BY DEF Init, WeatherAssumption
<1> QED
    BY <1>1 DEF Init, TypeOK

(* Every variable keeps its type, and no row is stamped in the future. *)
THEOREM WeatherTypeCorrect == Spec => []TypeOK
<1>1. Init => TypeOK
    BY InitInv, WeatherAssumption
<1>2. TypeOK /\ [Next]_vars => TypeOK'
    BY StepAddsLater, WeatherAssumption
<1> QED
    BY <1>1, <1>2, PTL DEF Spec

(* One step: the answer of a frozen day survives it. *)
LEMMA FrozenStep ==
    ASSUME TypeOK, WeatherAssumption, [Next]_vars,
           NEW d \in Days, Frozen(d)
    PROVE  Frozen(d)' /\ ShownOf(d)' = ShownOf(d)
<1>1. CASE rows' = rows /\ clock' = clock
    BY <1>1 DEF Frozen, ShownOf, Shown, FirstRows, InTime, KeyOf, DayOf
<1>2. CASE /\ clock' = clock + 1
           /\ \E new : /\ rows' = rows \cup new
                       /\ \A r \in new : r.receivedAt = clock + 1
    <2>1. PICK new : /\ rows' = rows \cup new
                     /\ \A r \in new : r.receivedAt = clock + 1
        BY <1>2
    <2>2. \A r \in rows : r.receivedAt \in Nat /\ r.receivedAt <= clock
        BY StampedByClock
    <2>3. \A r \in rows, q \in new : r.receivedAt <= q.receivedAt /\ ~(q.receivedAt <= r.receivedAt)
        BY <2>1, <2>2 DEF TypeOK
    <2>4. Frozen(d)'
        BY <2>1 DEF Frozen, DayOf
    <2>5. ASSUME NEW r \in ShownOf(d)
          PROVE  r \in ShownOf(d)'
        <3>1. r \in rows /\ r \in FirstRows /\ InTime(r) /\ DayOf(r.hour) = d
            BY DEF ShownOf, Shown, FirstRows
        <3>2. r \in FirstRows'
            BY <2>1, <2>3, <3>1 DEF FirstRows, KeyOf
        <3>3. InTime(r)'
            BY <2>1, <2>3, <3>1 DEF InTime, DayOf
        <3> QED
            BY <2>4, <3>1, <3>2, <3>3 DEF ShownOf, Shown, DayOf
    <2>6. ASSUME NEW r \in ShownOf(d)'
          PROVE  r \in ShownOf(d)
        <3>1. r \in rows' /\ r \in FirstRows' /\ InTime(r)' /\ DayOf(r.hour) = d
            BY DEF ShownOf, Shown, FirstRows, DayOf
        <3>2. PICK own \in rows, later \in rows : DayOf(own.hour) = d /\ DayOf(later.hour) > d
            BY DEF Frozen
        <3>3. r \in rows
            BY <2>1, <2>3, <3>1, <3>2 DEF InTime, DayOf
        <3>4. r \in FirstRows
            BY <2>1, <3>1, <3>3 DEF FirstRows, KeyOf
        <3>5. InTime(r)
            BY <2>1, <3>1 DEF InTime, DayOf
        <3> QED
            BY <3>1, <3>4, <3>5 DEF ShownOf, Shown
    <2> QED
        BY <2>4, <2>5, <2>6 DEF ShownOf, Shown
<1> QED
    BY <1>1, <1>2, StepAddsLater

(* The answer for a frozen day is final, for any number of parameters,     *)
(* hours and values, and whatever the source revises or fills in.          *)
THEOREM FrozenIsFinal == Spec => FrozenAnswerFixed
<1>1. TypeOK /\ [Next]_vars
        => [\A d \in Days : Frozen(d) => Frozen(d)' /\ ShownOf(d)' = ShownOf(d)]_vars
    BY FrozenStep, WeatherAssumption
<1> QED
    BY <1>1, WeatherTypeCorrect, PTL DEF Spec, FrozenAnswerFixed

(* One store: the latest row of every hour is what the source said last. *)
LEMMA StoreKeepsLatest ==
    ASSUME TypeOK, LatestIsLastSaid,
           NEW answer, DOMAIN answer \subseteq Key, Store(answer)
    PROVE  LatestIsLastSaid'
<1>1. rows' = rows \cup RowsOf(answer)
    BY DEF Store, RowsOf, StoredRows
<1>2. \A r \in rows, q \in RowsOf(answer) : r.receivedAt <= q.receivedAt
    BY StampedByClock DEF TypeOK, RowsOf, StoredRows
<1>3. \A q \in RowsOf(answer) :
        /\ KeyOf(q) \in DOMAIN answer
        /\ Changed(KeyOf(q), answer[KeyOf(q)])
        /\ q.value = answer[KeyOf(q)] /\ q.receivedAt = clock + 1
    BY DEF RowsOf, StoredRows, KeyOf, Key
<1>4. SUFFICES ASSUME NEW k \in Key, said'[k] # Missing
               PROVE  \E r \in LatestRows' : KeyOf(r) = k /\ r.value = said'[k]
    BY DEF LatestIsLastSaid, KeyOf
<1>5. CASE k \in DOMAIN answer /\ Changed(k, answer[k])
    <2> DEFINE r == [parameter |-> k[1], hour |-> k[2], value |-> answer[k],
                     receivedAt |-> clock + 1]
    <2>1. r \in RowsOf(answer) /\ KeyOf(r) = k
        BY <1>5 DEF RowsOf, StoredRows, KeyOf, Key
    <2>2. \A q \in rows' : KeyOf(q) = k => q.receivedAt <= r.receivedAt
        BY <1>1, <1>2, <1>3, <2>1 DEF TypeOK
    <2>3. r \in LatestRows'
        BY <1>1, <2>1, <2>2 DEF LatestRows, KeyOf
    <2>4. r.value = said'[k]
        BY <1>5 DEF Store, Remembered
    <2> QED
        BY <2>1, <2>3, <2>4
<1>6. CASE ~(k \in DOMAIN answer /\ Changed(k, answer[k]))
    <2>1. \A q \in rows' : KeyOf(q) = k => q \in rows
        BY <1>1, <1>3, <1>6
    <2>2. PICK r \in rows : /\ KeyOf(r) = k /\ r.value = said'[k]
                            /\ \A q \in rows : KeyOf(q) = k => q.receivedAt <= r.receivedAt
        <3>1. CASE k \in DOMAIN answer
            BY <1>4, <1>6, <3>1 DEF Changed, Store, Remembered
        <3>2. CASE ~(k \in DOMAIN answer)
            BY <1>4, <3>2 DEF LatestIsLastSaid, LatestRows, Store, Remembered
        <3> QED
            BY <3>1, <3>2
    <2>3. r \in LatestRows'
        BY <1>1, <2>1, <2>2 DEF LatestRows, KeyOf
    <2> QED
        BY <2>2, <2>3
<1> QED
    BY <1>5, <1>6

(* Stored only when it differs from the latest row, a value that returns   *)
(* to an earlier one is stored again: the latest row of an hour is always  *)
(* what the source said last.                                              *)
THEOREM LatestWins == Spec => []LatestIsLastSaid
<1>1. Init => LatestIsLastSaid
    BY DEF Init, LatestIsLastSaid
<1>2. TypeOK /\ LatestIsLastSaid /\ [Next]_vars => LatestIsLastSaid'
    <2> SUFFICES ASSUME TypeOK, LatestIsLastSaid, [Next]_vars
                 PROVE  LatestIsLastSaid'
        OBVIOUS
    <2>1. CASE UNCHANGED <<rows, said>>
        BY <2>1 DEF LatestIsLastSaid, LatestRows, KeyOf
    <2>2. ASSUME NEW end, NEW window, Fetch(end, window)
          PROVE  LatestIsLastSaid'
        BY <2>2, FetchStores, StoreKeepsLatest, WeatherAssumption
    <2> QED
        BY <2>1, <2>2 DEF Next, ScheduledRun, RunAgain, RunByHand, vars
<1> QED
    BY <1>1, <1>2, WeatherTypeCorrect, PTL DEF Spec

-----------------------------------------------------------------------------
(* The first row of a frozen day is shown: nothing of its day came before. *)
LEMMA FirstRowShown ==
    ASSUME TypeOK, NEW d, Frozen(d)
    PROVE  ShownOf(d) # {}
<1> DEFINE own == {r \in rows : DayOf(r.hour) = d}
           stamps == {r.receivedAt : r \in own}
<1>1. stamps \subseteq Nat /\ stamps # {}
    BY StampedByClock DEF Frozen
<1>2. PICK least \in stamps : \A t \in stamps : least <= t
    BY <1>1, SmallestNumber
<1>3. PICK r \in own : r.receivedAt = least
    OBVIOUS
<1>4. \A q \in rows : DayOf(q.hour) = d => r.receivedAt <= q.receivedAt
    BY <1>2, <1>3
<1>5. r \in rows /\ DayOf(r.hour) = d
    OBVIOUS
<1> HIDE DEF own, stamps
<1>6. r \in FirstRows
    <2> SUFFICES ASSUME NEW q \in rows, KeyOf(q) = KeyOf(r)
                 PROVE  r.receivedAt <= q.receivedAt
        BY <1>5 DEF FirstRows
    <2>1. q.hour = r.hour
        BY DEF KeyOf
    <2> QED
        BY <1>4, <1>5, <2>1
<1>7. InTime(r)
    BY <1>4, <1>5 DEF InTime
<1> QED
    BY <1>5, <1>6, <1>7 DEF ShownOf, Shown

(* A frozen day always shows at least one hour, whatever the source leaves *)
(* out and in whatever order its days arrive: no delivery waits for ever   *)
(* for a day that is frozen (simulate.py:611-613).                         *)
THEOREM FrozenNeverEmpty == Spec => []FrozenShows
<1>1. TypeOK => FrozenShows
    BY FirstRowShown DEF FrozenShows
<1> QED
    BY <1>1, WeatherTypeCorrect, PTL

-----------------------------------------------------------------------------
(* The hours of a day are those after its midnight up to the next.         *)
LEMMA HoursOfDay ==
    ASSUME NEW h \in Nat, NEW d \in Int
    PROVE  DayOf(h) = d <=> Midnight(d) < h /\ h <= Midnight(d + 1)
<1> DEFINE H == HoursPerDay
           q == (h - 1) \div H
<1>1. H \in Nat /\ H > 0
    BY WeatherAssumption
<1>2. q \in Int /\ H * q <= h - 1 /\ h - 1 < H * (q + 1)
    BY <1>1
<1>3. /\ DayOf(h) = q + 1
      /\ Midnight(d) = (d - 1) * H /\ Midnight(d + 1) = d * H
    BY DEF DayOf, Midnight
<1> HIDE DEF q, H
<1>4. CASE q = d - 1
    BY <1>1, <1>2, <1>3, <1>4
<1>5. CASE q < d - 1
    <2>1. q + 1 <= d - 1
        BY <1>2, <1>5
    <2>2. H * (q + 1) <= H * (d - 1)
        BY <1>1, <1>2, <2>1
    <2>3. ~ (Midnight(d) < h)
        BY <1>1, <1>2, <1>3, <2>2
    <2> QED
        BY <1>2, <1>3, <1>5, <2>3
<1>6. CASE d - 1 < q
    <2>1. d <= q
        BY <1>2, <1>6
    <2>2. H * d <= H * q
        BY <1>1, <1>2, <2>1
    <2>3. ~ (h <= Midnight(d + 1))
        BY <1>1, <1>2, <1>3, <2>2
    <2> QED
        BY <1>2, <1>3, <1>6, <2>3
<1> QED
    BY <1>2, <1>4, <1>5, <1>6

(* Midnights stand in the order of their days. *)
LEMMA MidnightsInOrder ==
    ASSUME NEW d \in Int, NEW e \in Int, d <= e
    PROVE  Midnight(d) \in Int /\ Midnight(e) \in Int /\ Midnight(d) <= Midnight(e)
<1>1. HoursPerDay \in Nat
    BY WeatherAssumption
<1>2. (d - 1) * HoursPerDay <= (e - 1) * HoursPerDay
    BY <1>1
<1> QED
    BY <1>1, <1>2 DEF Midnight

(* Every row is of a known hour, and every frozen day of a known day. *)
LEMMA RowsAreOfDays ==
    ASSUME TypeOK
    PROVE  /\ \A r \in rows : r.hour \in Nat /\ DayOf(r.hour) \in Days
           /\ \A d : Frozen(d) => d \in Days
BY WeatherAssumption DEF TypeOK, Row, Days, Frozen

(* The sensor's test, at any moment.                                       *)
LEMMA ReadyWhenFrozen ==
    ASSUME TypeOK, NEW R \in RunDay
    PROVE  WeatherReady(R) <=> Frozen(R - 1)
<1>1. R \in Nat /\ R - 1 \in Int /\ (R - 1) + 1 = R
    BY SimulationAssumption
<1>2. \A r \in Shown : r \in rows /\ r.hour \in Nat /\ Frozen(DayOf(r.hour))
    BY RowsAreOfDays DEF Shown, FirstRows
<1>3. \A r \in Shown :
        DayOf(r.hour) = R - 1 <=> Midnight(R - 1) < r.hour /\ r.hour <= Midnight(R)
    BY <1>1, <1>2, HoursOfDay
<1>4. ASSUME WeatherReady(R) PROVE Frozen(R - 1)
    BY <1>2, <1>3, <1>4 DEF WeatherReady, Loaded
<1>5. ASSUME Frozen(R - 1) PROVE WeatherReady(R)
    <2>1. PICK r \in Shown : DayOf(r.hour) = R - 1
        BY <1>5, FirstRowShown DEF ShownOf
    <2>2. Midnight(R - 1) < r.hour /\ r.hour <= Midnight(R)
        BY <1>3, <2>1
    <2>3. Midnight(R - 1) \in Int /\ r.hour \in Nat
        BY <1>1, <1>2, MidnightsInOrder
    <2> QED
        BY <2>1, <2>2, <2>3 DEF WeatherReady, Loaded
<1> QED
    BY <1>4, <1>5

-----------------------------------------------------------------------------
(* What happens to the weather in a simulation is what Weather allows. *)
LEMMA SimulationIsWeather == SimulationSpec => Spec
<1>1. SimulationInit => Init
    BY DEF SimulationInit
<1>2. [SimulationNext]_simVars => [Next]_vars
    BY DEF SimulationNext, Deliver, simVars, vars
<1> QED
    BY <1>1, <1>2, PTL DEF SimulationSpec, Spec

LEMMA SimulationTypes == SimulationSpec => []TypeOK
BY SimulationIsWeather, WeatherTypeCorrect, PTL

(* The test of the weather sensor is exact, for any length of a day, any   *)
(* source and any order of runs: it lets a delivery on just when the       *)
(* warehouse has frozen the day it covers (simulate.py:608-622).           *)
THEOREM SensorIsExact == SimulationSpec => []ReadyIsFrozen
<1>1. TypeOK => ReadyIsFrozen
    BY ReadyWhenFrozen DEF ReadyIsFrozen
<1> QED
    BY <1>1, SimulationTypes, PTL

-----------------------------------------------------------------------------
(* What is shown once is shown for good. *)
LEMMA ShownStays ==
    ASSUME TypeOK, [Next]_vars
    PROVE  Shown \subseteq Shown'
<1> SUFFICES ASSUME NEW r \in Shown PROVE r \in Shown'
    OBVIOUS
<1>1. Frozen(DayOf(r.hour)) /\ r \in ShownOf(DayOf(r.hour))
    BY DEF Shown, ShownOf
<1>2. DayOf(r.hour) \in Days
    BY <1>1, RowsAreOfDays
<1>3. ShownOf(DayOf(r.hour))' = ShownOf(DayOf(r.hour))
    BY <1>1, <1>2, FrozenStep, WeatherAssumption
<1> QED
    BY <1>1, <1>3 DEF ShownOf

(* The first day of the reach, and the hours between its midnight and the  *)
(* midnight of the delivery.                                               *)
First(R) == R - LookBackDays - Memory
InReach(R, r) == Midnight(First(R)) <= r.hour /\ r.hour <= Midnight(R)

(* An hour in the reach belongs to a day of it, or starts the first one.   *)
LEMMA ReachIsOfDays ==
    ASSUME NEW R \in RunDay, NEW r, r.hour \in Nat, InReach(R, r)
    PROVE  DayOf(r.hour) \in Reach(R) \cup {R - LookBackDays - Memory - 1}
<1> DEFINE d == DayOf(r.hour)
           low == First(R)
<1>1. R \in Int /\ low \in Int /\ low = R - LookBackDays - Memory
    BY SimulationAssumption DEF First
<1>2. d \in Int
    BY WeatherAssumption DEF DayOf
<1>3. Midnight(d) < r.hour /\ r.hour <= Midnight(d + 1)
    BY <1>2, HoursOfDay
<1>4. Midnight(low) <= r.hour /\ r.hour <= Midnight(R)
    BY DEF InReach
<1> HIDE DEF d, low
<1>5. d < R
    <2>1. Midnight(R) \in Int /\ Midnight(d) \in Int /\ (R <= d => Midnight(R) <= Midnight(d))
        BY <1>1, <1>2, MidnightsInOrder
    <2> QED
        BY <1>1, <1>2, <1>3, <1>4, <2>1
<1>6. low <= d + 1
    <2> SUFFICES ASSUME d + 1 < low PROVE FALSE
        BY <1>1, <1>2
    <2>1. HoursPerDay \in Nat \ {0}
        BY WeatherAssumption
    <2>2. Midnight(d + 1) <= Midnight(low - 1) /\ Midnight(d + 1) \in Int
        BY <1>1, <1>2, MidnightsInOrder
    <2>3. Midnight(low) = Midnight(low - 1) + HoursPerDay /\ Midnight(low - 1) \in Int
        BY <1>1, <2>1 DEF Midnight
    <2> QED
        BY <1>3, <1>4, <2>1, <2>2, <2>3
<1>7. d \in Reach(R) \cup {low - 1}
    <2>1. d = low - 1 \/ d \in low .. R - 1
        BY <1>1, <1>2, <1>5, <1>6
    <2> QED
        BY <1>1, <2>1 DEF Reach
<1> QED
    BY <1>1, <1>7 DEF d

(* What the simulator makes of two loads of the weather that agree within  *)
(* the reach of a delivery.                                                *)
Alike(R, one, two) ==
    /\ \A r \in one \cup two : r.hour \in Nat
    /\ \A r \in one \cup two : InReach(R, r) => (r \in one <=> r \in two)

LEMMA AlikeMeasured ==
    ASSUME NEW R \in RunDay, NEW one, NEW two, Alike(R, one, two), NEW d \in Reach(R)
    PROVE  Measured(one, d) = Measured(two, d)
<1>1. R \in Int /\ First(R) \in Int /\ d \in Int /\ First(R) <= d /\ d + 1 <= R
    BY SimulationAssumption DEF First, Reach
<1>2. /\ Midnight(First(R)) \in Int /\ Midnight(d) \in Int /\ Midnight(d + 1) \in Int
      /\ Midnight(R) \in Int
      /\ Midnight(First(R)) <= Midnight(d) /\ Midnight(d + 1) <= Midnight(R)
    BY <1>1, MidnightsInOrder
<1>3. \A r \in Measured(one, d) \cup Measured(two, d) : InReach(R, r) /\ r \in one \cup two
    BY <1>2 DEF Measured, InReach, Alike
<1> QED
    BY <1>3 DEF Measured, Alike

LEMMA AlikeHeated ==
    ASSUME NEW R \in RunDay, NEW one, NEW two, Alike(R, one, two), NEW d \in ConsumptionDays(R)
    PROVE  HeatingLevel(one, d) = HeatingLevel(two, d)
<1>1. \A e \in Reach(R) : HeatingNeed(one, e) = HeatingNeed(two, e)
    BY AlikeMeasured DEF HeatingNeed
<1>2. d \in Reach(R) /\ d - Memory .. d - 1 \subseteq Reach(R)
    BY SimulationAssumption DEF ConsumptionDays, Reach
<1>3. [e \in d - Memory .. d - 1 |-> HeatingNeed(one, e)]
        = [e \in d - Memory .. d - 1 |-> HeatingNeed(two, e)]
    BY <1>1, <1>2
<1>4. HeatingNeed(one, d) = HeatingNeed(two, d)
    BY <1>1, <1>2
<1> QED
    BY <1>3, <1>4 DEF HeatingLevel

LEMMA AlikeGenerated ==
    ASSUME NEW R \in RunDay, NEW one, NEW two, Alike(R, one, two), NEW d \in ConsumptionDays(R)
    PROVE  Generation(one, d) = Generation(two, d)
<1>1. /\ R \in Int /\ First(R) \in Int /\ d \in Int /\ First(R) <= d /\ d + 1 <= R
    BY SimulationAssumption DEF First, ConsumptionDays
<1>2. /\ Midnight(First(R)) \in Int /\ Midnight(d) \in Int /\ Midnight(d + 1) \in Int
      /\ Midnight(R) \in Int
      /\ Midnight(First(R)) <= Midnight(d) /\ Midnight(d + 1) <= Midnight(R)
    BY <1>1, MidnightsInOrder
<1>3. ASSUME NEW h \in Midnight(d) .. Midnight(d + 1)
      PROVE  RadiationAt(one, h) = RadiationAt(two, h)
    <2>1. \A r \in one \cup two : r.hour = h => InReach(R, r)
        BY <1>2 DEF InReach
    <2>2. {r \in one : r.parameter = Radiation /\ r.hour = h}
            = {r \in two : r.parameter = Radiation /\ r.hour = h}
        BY <2>1 DEF Alike
    <2> QED
        BY <2>2 DEF RadiationAt
<1>4. ASSUME NEW h \in Midnight(d) .. Midnight(d + 1) - 1
      PROVE  Irradiance(one, h) = Irradiance(two, h)
    <2>1. h \in Midnight(d) .. Midnight(d + 1) /\ h + 1 \in Midnight(d) .. Midnight(d + 1)
        BY <1>2
    <2> QED
        BY <1>3, <2>1 DEF Irradiance
<1> QED
    BY <1>4 DEF Generation

(* What is loaded for a delivery, whose reach is frozen, stays alike. *)
LEMMA LoadedAlike ==
    ASSUME TypeOK, TypeOK', [Next]_vars, NEW R \in RunDay,
           \A d \in Reach(R) \cup {R - LookBackDays - Memory - 1} : Frozen(d)
    PROVE  Alike(R, WeatherFor(R), WeatherFor(R)')
<1> DEFINE start == Midnight(R - LookBackDays - Memory)
           end == Midnight(R) + 1
<1>1. /\ WeatherFor(R) = {r \in Shown : start <= r.hour /\ r.hour <= end}
      /\ WeatherFor(R)' = {r \in Shown' : start <= r.hour /\ r.hour <= end}
    BY DEF WeatherFor, Loaded, Midnight
<1>2. \A r \in Shown : r.hour \in Nat /\ r \in ShownOf(DayOf(r.hour))
    BY RowsAreOfDays DEF Shown, FirstRows, ShownOf
<1>3. \A r \in Shown' : r.hour \in Nat /\ r \in ShownOf(DayOf(r.hour))'
    <2>1. \A r \in rows' : r.hour \in Nat
        BY WeatherAssumption DEF TypeOK, Row
    <2> QED
        BY <2>1 DEF Shown, FirstRows, ShownOf, DayOf
<1>4. ASSUME NEW r \in Shown', InReach(R, r) PROVE r \in Shown
    <2> DEFINE d == DayOf(r.hour)
    <2>1. d \in Reach(R) \cup {R - LookBackDays - Memory - 1}
        BY <1>3, <1>4, ReachIsOfDays
    <2>2. Frozen(d) /\ d \in Days
        BY <2>1, RowsAreOfDays
    <2>3. ShownOf(d)' = ShownOf(d)
        BY <2>2, FrozenStep, WeatherAssumption
    <2>4. r \in ShownOf(d)'
        BY <1>3 DEF DayOf
    <2> QED
        BY <2>3, <2>4 DEF ShownOf
<1>5. Shown \subseteq Shown'
    BY ShownStays
<1> HIDE DEF start, end
<1> QED
    BY <1>1, <1>2, <1>3, <1>4, <1>5 DEF Alike

-----------------------------------------------------------------------------
(* The test of CanSimulate on any load of the weather. *)
Simulable(weather, R) ==
    /\ \A d \in Reach(R) : Measured(weather, d) # {}
    /\ \A d \in ConsumptionDays(R) :
        \E r \in weather : /\ r.parameter = Radiation
                           /\ Midnight(d) < r.hour /\ r.hour <= Midnight(d + 1)

LEMMA CanSimulateIs ==
    /\ \A R : CanSimulate(R) <=> Simulable(WeatherFor(R), R)
    /\ \A R : CanSimulate(R)' <=> Simulable(WeatherFor(R)', R)
<1>1. \A R : CanSimulate(R) <=> Simulable(WeatherFor(R), R)
    BY DEF CanSimulate, Simulable
<1>2. \A R : CanSimulate(R)' <=> Simulable(WeatherFor(R)', R)
    BY DEF CanSimulate, Simulable, Reach, ConsumptionDays, Measured, Midnight
<1> QED
    BY <1>1, <1>2

LEMMA AlikeSimulable ==
    ASSUME NEW R \in RunDay, NEW one, NEW two, Alike(R, one, two), Simulable(one, R)
    PROVE  Simulable(two, R)
<1>1. \A d \in Reach(R) : Measured(two, d) # {}
    BY AlikeMeasured DEF Simulable
<1>2. ASSUME NEW d \in ConsumptionDays(R)
      PROVE  \E r \in two : /\ r.parameter = Radiation
                            /\ Midnight(d) < r.hour /\ r.hour <= Midnight(d + 1)
    <2>1. PICK r \in one : /\ r.parameter = Radiation
                           /\ Midnight(d) < r.hour /\ r.hour <= Midnight(d + 1)
        BY DEF Simulable
    <2>2. R \in Int /\ First(R) \in Int /\ d \in Int /\ First(R) <= d /\ d + 1 <= R
        BY SimulationAssumption DEF First, ConsumptionDays
    <2>3. /\ Midnight(First(R)) \in Int /\ Midnight(d) \in Int /\ Midnight(d + 1) \in Int
          /\ Midnight(R) \in Int /\ r.hour \in Nat
          /\ Midnight(First(R)) <= Midnight(d) /\ Midnight(d + 1) <= Midnight(R)
        BY <2>2, MidnightsInOrder DEF Alike
    <2>4. InReach(R, r)
        BY <2>1, <2>3 DEF InReach
    <2> QED
        BY <2>1, <2>4 DEF Alike
<1> QED
    BY <1>1, <1>2 DEF Simulable

LEMMA AlikeDelivers ==
    ASSUME NEW R \in RunDay, Alike(R, WeatherFor(R), WeatherFor(R)')
    PROVE  Deliveries(R)' = Deliveries(R)
<1> DEFINE one == WeatherFor(R)
           two == WeatherFor(R)'
           Made(weather) == [d \in ConsumptionDays(R) |->
                                <<HeatingLevel(weather, d), Generation(weather, d)>>]
<1>1. Deliveries(R) = Made(one) /\ Deliveries(R)' = Made(two)
    BY DEF Deliveries, ConsumptionDays, HeatingLevel, HeatingNeed, Measured, Generation,
           Irradiance, RadiationAt, Midnight, AtLeast, AtMost
<1>2. \A d \in ConsumptionDays(R) :
        /\ HeatingLevel(one, d) = HeatingLevel(two, d)
        /\ Generation(one, d) = Generation(two, d)
    BY AlikeHeated, AlikeGenerated
<1> QED
    BY <1>1, <1>2

(* A delivery whose reach is frozen, with the day before it, is what it    *)
(* will be in every replay, for any memory, look back and length of a day: *)
(* whatever arrives later, the same days can be simulated and they come    *)
(* out the same (simulate.py:14-20, 197-225).                              *)
THEOREM ReplaysAlike == SimulationSpec => FrozenReachReplays
<1> DEFINE Fixed(R) ==
        (\A d \in Reach(R) \cup {R - LookBackDays - Memory - 1} : Frozen(d)) =>
            /\ CanSimulate(R)' = CanSimulate(R)
            /\ CanSimulate(R) => Deliveries(R)' = Deliveries(R)
<1>1. TypeOK /\ TypeOK' /\ [SimulationNext]_simVars => [\A R \in RunDay : Fixed(R)]_simVars
    <2> SUFFICES ASSUME TypeOK, TypeOK', [SimulationNext]_simVars, NEW R \in RunDay,
                        \A d \in Reach(R) \cup {R - LookBackDays - Memory - 1} : Frozen(d)
                 PROVE  /\ CanSimulate(R)' = CanSimulate(R)
                        /\ Deliveries(R)' = Deliveries(R)
        OBVIOUS
    <2>1. [Next]_vars
        BY DEF SimulationNext, Deliver, simVars, vars
    <2>2. Alike(R, WeatherFor(R), WeatherFor(R)')
        BY <2>1, LoadedAlike
    <2>3. Alike(R, WeatherFor(R)', WeatherFor(R))
        BY <2>2 DEF Alike
    <2>4. Simulable(WeatherFor(R)', R) <=> Simulable(WeatherFor(R), R)
        BY <2>2, <2>3, AlikeSimulable
    <2>5. CanSimulate(R) \in BOOLEAN /\ CanSimulate(R)' \in BOOLEAN
        BY DEF CanSimulate
    <2> QED
        BY <2>2, <2>4, <2>5, CanSimulateIs, AlikeDelivers
<1> QED
    BY <1>1, SimulationTypes, PTL DEF SimulationSpec, FrozenReachReplays

-----------------------------------------------------------------------------
(* More weather never takes a delivery back. *)
LEMMA SimulableStays ==
    ASSUME NEW R, NEW one, NEW two, one \subseteq two, Simulable(one, R)
    PROVE  Simulable(two, R)
<1>1. \A d : Measured(one, d) \subseteq Measured(two, d)
    BY DEF Measured
<1> QED
    BY <1>1 DEF Simulable

(* The two ways a day can have been delivered after a step. *)
LEMMA DeliveredBefore ==
    ASSUME DOMAIN delivered = RunDay, [SimulationNext]_simVars, NEW R \in RunDay
    PROVE  /\ DOMAIN delivered' = RunDay
           /\ delivered'[R] # Never => delivered[R] # Never \/ Deliver(R)
<1>1. CASE UNCHANGED delivered
    BY <1>1
<1>2. ASSUME NEW Q \in RunDay, Deliver(Q)
      PROVE  /\ DOMAIN delivered' = RunDay
             /\ delivered'[R] # Never => delivered[R] # Never \/ Deliver(R)
    <2>1. delivered' = [delivered EXCEPT ![Q] = Deliveries(Q)]
        BY <1>2 DEF Deliver
    <2>2. CASE Q = R
        BY <1>2, <2>1, <2>2
    <2>3. CASE Q # R
        BY <2>1, <2>3
    <2> QED
        BY <2>2, <2>3
<1> QED
    BY <1>1, <1>2 DEF SimulationNext, simVars

(* A day that was delivered once can be replayed at any time: however the  *)
(* weather is revised, filled in or frozen later, the sensor lets it on    *)
(* and no day of it loses an hour it needs (simulate.py:197-225, 590-622). *)
THEOREM ReplayAlwaysPossible == SimulationSpec => []ReplayIsPossible
<1> DEFINE IInv == DOMAIN delivered = RunDay /\ ReplayIsPossible
<1>1. SimulationInit => IInv
    BY DEF SimulationInit, ReplayIsPossible
<1>2. TypeOK /\ TypeOK' /\ IInv /\ [SimulationNext]_simVars => IInv'
    <2> SUFFICES ASSUME TypeOK, TypeOK', IInv, [SimulationNext]_simVars,
                        NEW R \in RunDay, delivered'[R] # Never
                 PROVE  WeatherReady(R)' /\ CanSimulate(R)'
        <3>1. ASSUME TypeOK, TypeOK', IInv, [SimulationNext]_simVars
              PROVE  DOMAIN delivered' = RunDay
            BY <3>1, DeliveredBefore DEF SimulationNext, simVars
        <3> QED
            BY <3>1 DEF ReplayIsPossible
    <2>1. [Next]_vars
        BY DEF SimulationNext, Deliver, simVars, vars
    <2>2. WeatherReady(R) /\ CanSimulate(R)
        BY DeliveredBefore DEF Deliver, ReplayIsPossible
    <2>3. Shown \subseteq Shown'
        BY <2>1, ShownStays
    <2>4. WeatherReady(R)'
        BY <2>2, <2>3 DEF WeatherReady, Loaded, Midnight
    <2>5. WeatherFor(R) \subseteq WeatherFor(R)'
        BY <2>3 DEF WeatherFor, Loaded, Midnight
    <2>6. CanSimulate(R)'
        BY <2>2, <2>5, CanSimulateIs, SimulableStays
    <2> QED
        BY <2>4, <2>6
<1> QED
    BY <1>1, <1>2, SimulationTypes, PTL DEF SimulationSpec

=============================================================================
