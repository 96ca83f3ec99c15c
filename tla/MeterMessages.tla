--------------------------- MODULE MeterMessages ----------------------------
(***************************************************************************)
(* What the messages say. deliver() of src/megavolt/simulate.py registers  *)
(* our metering points and sends the messages of a day, computed from what *)
(* every member used and the plant made; readings.py lets a message in or  *)
(* makes it a dead letter; staging joins what was stored with the registry.*)
(* Anybody may put another message on the topic by hand.                   *)
(*                                                                         *)
(* Abstraction: time is counted in quarter hours, energy in the last digit *)
(* a meter shows; a field nobody can read is Malformed; what a day's       *)
(* weather and draws lead to is constant. A message on the topic may be    *)
(* read at any time and more than once: the way there and its failures are *)
(* the subject of MeterDelivery. A run that fails and starts anew repeats  *)
(* steps without effect, so a run has done what its attempts have done.    *)
(***************************************************************************)
EXTENDS MeterDraws, Sequences, FiniteSetsExt

CONSTANTS
    Other,              \* the members who are not our customers
    CommunityKey,       \* COMMUNITY_KEY, the key of the community's own message
    Midnight,           \* Midnight[d]: the first quarter hour of a day in Vienna
    Used,               \* Used[i, d]: consumption_series of a member
    Made,               \* Made[d]: generation_series of the plant
    Estimate,           \* Estimate[c, d]: what a wrong first delivery says
    Swaps,              \* Swaps[c]: the days a meter was exchanged
    Letters,            \* len(METER_LETTERS)
    ValidFrom,          \* VALID_FROM, a day
    YearLength,         \* the days of a year
    Morning,            \* DELIVERY_TIME
    IntervalsPerDay,    \* INTERVALS_PER_DAY
    MaxPoint,           \* MAX_POINT_KWH
    MaxCommunity,       \* MAX_COMMUNITY_KWH
    Column,             \* the bound of the energy columns
    Earliest,           \* EARLIEST_INTERVAL
    FutureTolerance,    \* FUTURE_TOLERANCE
    Null,               \* an interval that is not delivered
    Malformed,          \* a field that is not what it is supposed to be
    Stray               \* messages anybody may put on the topic by hand

Positions(d) == 1 .. (Midnight[d + 1] - Midnight[d])

Member == Point \cup Other

ASSUME MessagesAssumption ==
    /\ Point \subseteq Nat /\ CommunityKey \in Nat \ Point
    /\ IsFiniteSet(Member) /\ Point \cap Other = {}
    /\ IntervalsPerDay \subseteq Nat \ {0}
    /\ Letters \in Nat \ {0} /\ YearLength \in Nat \ {0} /\ Morning \in Nat
    /\ MaxPoint \in Nat /\ MaxCommunity \in Nat /\ Column \in Nat
    /\ MaxPoint < Column /\ MaxCommunity < Column
    /\ FutureTolerance \in Nat
    /\ Null \notin Int /\ Malformed \notin Int \cup [point : Int, letter : Int]

(* The calendar: midnights in order, over every day a run or a meter needs, *)
(* and days of the lengths a message may have.                              *)
ASSUME CalendarAssumption ==
    /\ Midnight \in [DOMAIN Midnight -> Int] /\ Earliest \in Int
    /\ \A d \in DOMAIN Midnight :
        /\ d \in Int
        /\ \A e \in DOMAIN Midnight : d < e => Midnight[d] < Midnight[e]
    /\ Swaps \in [Point -> SUBSET DOMAIN Midnight] /\ ValidFrom \in DOMAIN Midnight
    /\ Day \cup RunDay \subseteq DOMAIN Midnight
    /\ \A d \in Day : /\ Midnight[d + 1] - Midnight[d] \in IntervalsPerDay
                      /\ Positions(d) \subseteq Quarter
                      /\ Earliest <= Midnight[d]

(* The draws: what was used, made and estimated is within what a meter can  *)
(* show, and no first delivery loses all its quarter hours.                 *)
ASSUME TruthAssumption ==
    /\ \A k \in Point \X Day :
        /\ Wrong[k] \cup Lost[k] \subseteq Positions(k[2])
        /\ Lost[k] # Positions(k[2])
        /\ Estimate[k] \in [Positions(k[2]) -> 0 .. MaxPoint]
    /\ \A d \in Day : /\ Made[d] \in [Positions(d) -> 0 .. MaxCommunity]
                      /\ \A i \in Member : Used[<<i, d>>] \in [Positions(d) -> 0 .. MaxPoint]

VARIABLES
    today,          \* the date
    registered,     \* registered[R]: the days of the registry a run has been through
    produced,       \* produced[R]: the messages it has sent
    registry,       \* raw.metering_point
    topic,          \* the messages on meter.readings.v1
    byHand,         \* a message was put there by hand
    readings,       \* raw.meter_reading
    intervals,      \* raw.community_interval
    dead            \* the messages on meter.readings.dlq.v1

runs == <<registered, produced, registry>>
tables == <<readings, intervals, dead>>
vars == <<today, runs, topic, byHand, tables>>

-----------------------------------------------------------------------------
(* The truth of a day, simulate_day().                                     *)

Least(m, n) == IF m < n THEN m ELSE n

(* The community's consumption of a quarter hour, community_totals(). *)
Total(d, q) == SumFunction([i \in Member |-> Used[<<i, d>>][q]])

ASSUME TotalAssumption ==
    \A d \in Day : \A q \in Positions(d) : Total(d, q) <= MaxCommunity

(* round(n / m). *)
Rounded(n, m) == (2 * n + m) \div (2 * m)

(* allocate(): the member's share of what the plant made. *)
Allocated(i, d, q) ==
    LET used == Used[<<i, d>>][q]
        total == Total(d, q)
    IN  IF total = 0 THEN 0
        ELSE Least(Rounded(used * Least(Made[d][q], total), total), used)

-----------------------------------------------------------------------------
(* Meters.                                                                 *)

YearOf(d) == d \div YearLength

(* meter_id_on(): the letter is the number of swaps. *)
MeterOn(c, d) ==
    [point |-> c, letter |-> Cardinality({s \in Swaps[c] : ValidFrom <= s /\ s <= d}) % Letters]

(* meter_history(): the day each meter took over, through the end of a year. *)
History(c, year) ==
    {ValidFrom} \cup {s \in Swaps[c] : s > ValidFrom /\ YearOf(s) <= year}

(* registrations(): the rows that take over on a day. *)
TakeOvers(year) == UNION {History(c, year) : c \in Point}

Registrations(year, from) ==
    {[point |-> c, validFrom |-> from, meter |-> MeterOn(c, from)] :
        c \in {c \in Point : from \in History(c, year)}}

-----------------------------------------------------------------------------
(* The messages of a run.                                                  *)

DeliveredAt(runDay) == Midnight[runDay] + Morning

(* Slip: an estimate leaves the allocation as it was. *)
GivenAsIs(used, given) == given

(* Slip: max() for min(). *)
GivenAtLeast(used, given) == IF given < used THEN used ELSE given

(* What is allocated is never more than the estimate says was used. *)
Given(used, given) == Least(given, used)

(* Slip: the meter of the morning the message is sent. *)
MeterAtDelivery(m) == MeterOn(m.point, m.run)

MeterOf(m) == MeterOn(m.point, m.day)

(* _first_delivery() and _correction(). *)
ReadingBatch(m) ==
    LET key == <<m.point, m.day>>
        used(q) == IF Estimated(m, q) THEN Estimate[key][q] ELSE Used[key][q]
        given(q) ==
            IF Estimated(m, q)
            THEN Given(used(q), Allocated(m.point, m.day, q))
            ELSE Allocated(m.point, m.day, q)
        values(of(_)) == [q \in Positions(m.day) |-> IF q \in Brings(m) THEN of(q) ELSE Null]
    IN  [schema |-> "reading", step |-> 1, point |-> m.point, meter |-> MeterOf(m),
         version |-> m.version, deliveredAt |-> DeliveredAt(m.run), start |-> Midnight[m.day],
         first |-> values(used), second |-> values(given)]

(* _community_delivery(). *)
CommunityBatch(m) ==
    [schema |-> "community", step |-> 1, point |-> CommunityKey, meter |-> Null, version |-> 1,
     deliveredAt |-> DeliveredAt(m.run), start |-> Midnight[m.day],
     first |-> Made[m.day], second |-> [q \in Positions(m.day) |-> Total(m.day, q)]]

Batch(m) == IF m.point = CommunityKey THEN CommunityBatch(m) ELSE ReadingBatch(m)

Outgoing(R) ==
    Deliveries(R) \cup {[point |-> CommunityKey, day |-> R - 1, version |-> 1, run |-> R]}

(* By key and version; of two days the later was found first. *)
Before(m, n) ==
    \/ m.point < n.point
    \/ m.point = n.point /\ m.version < n.version
    \/ m.point = n.point /\ m.version = n.version /\ m.day > n.day

-----------------------------------------------------------------------------
(* Validation. *)

Amounts(values, cap) ==
    /\ Len(values) \in IntervalsPerDay
    /\ \A q \in DOMAIN values : values[q] \in (0 .. cap) \cup {Null}

InWindow(t, now) == t \in Earliest .. now + FutureTolerance

(* What a batch of either kind has to fulfil. *)
Readable(b, cap, now) ==
    /\ b.step = 1
    /\ b.version \in Nat \ {0}
    /\ InWindow(b.deliveredAt, now)
    /\ InWindow(b.start, now)
    /\ Amounts(b.first, cap) /\ Amounts(b.second, cap)
    /\ Len(b.first) = Len(b.second)
    /\ b.deliveredAt >= b.start + Len(b.first)
    /\ \A q \in DOMAIN b.first : b.first[q] = Null <=> b.second[q] = Null
    /\ \E q \in DOMAIN b.first : b.first[q] # Null

(* Slip: nobody compares what was allocated with what was used. *)
ReadingReadableOnly(b, now) ==
    /\ b.schema = "reading"
    /\ Malformed \notin {b.point, b.meter}
    /\ Readable(b, MaxPoint, now)

(* validate_reading_batch() and validate_community_batch(). *)
IsReading(b, now) ==
    /\ b.schema = "reading"
    /\ Malformed \notin {b.point, b.meter}
    /\ Readable(b, MaxPoint, now)
    /\ \A q \in DOMAIN b.first : b.first[q] # Null => b.second[q] <= b.first[q]

IsCommunity(b, now) == b.schema = "community" /\ Readable(b, MaxCommunity, now)

Delivered(b) == {q \in DOMAIN b.first : b.first[q] # Null}

ReadingsOf(b) ==
    {[point |-> b.point, start |-> b.start + q - 1, used |-> b.first[q], given |-> b.second[q],
      meter |-> b.meter, version |-> b.version, deliveredAt |-> b.deliveredAt] :
        q \in Delivered(b)}

IntervalsOf(b) ==
    {[start |-> b.start + q - 1, made |-> b.first[q], used |-> b.second[q],
      version |-> b.version, deliveredAt |-> b.deliveredAt] : q \in Delivered(b)}

Sent == UNION {{Batch(m) : m \in Outgoing(R)} : R \in RunDay}

SentReadings == {b \in Sent : b.schema = "reading"}

(* By hand come amounts in sequence too, and nothing that could be taken    *)
(* for what a run sends: that would be the run's message, come too early.   *)
ASSUME HandAssumption ==
    \A b \in Stray :
        /\ b.first \in Seq(Int \cup {Null}) /\ b.second \in Seq(Int \cup {Null})
        /\ b \notin Sent
        /\ \A s \in SentReadings : ReadingsOf(b) \cap ReadingsOf(s) = {}

-----------------------------------------------------------------------------
Init ==
    /\ today = FirstRun
    /\ registered = [R \in RunDay |-> {}]
    /\ produced = [R \in RunDay |-> {}]
    /\ registry = {}
    /\ topic = {}
    /\ byHand = FALSE
    /\ readings = {} /\ intervals = {} /\ dead = {}

NextDay ==
    /\ today < LastRun
    /\ today' = today + 1
    /\ UNCHANGED <<runs, topic, byHand, tables>>

(* deliver(): one transaction of the registry after the other, by the day  *)
(* they are valid from. Its runs may be started by hand at any time.       *)
Register(R) ==
    LET due == TakeOvers(YearOf(R)) \ registered[R] IN
    /\ R <= today
    /\ \E d \in due :
        /\ \A e \in due : d <= e
        /\ registry' = registry \cup Registrations(YearOf(R), d)
        /\ registered' = [registered EXCEPT ![R] = @ \cup {d}]
    /\ UNCHANGED <<today, produced, topic, byHand, tables>>

(* _produce(), one message after the other, once all are registered. *)
Produce(R) ==
    LET due == Outgoing(R) \ produced[R] IN
    /\ R <= today
    /\ TakeOvers(YearOf(R)) \subseteq registered[R]
    /\ \E m \in due :
        /\ \A n \in due \ {m} : Before(m, n)
        /\ topic' = topic \cup {Batch(m)}
        /\ produced' = [produced EXCEPT ![R] = @ \cup {m}]
    /\ UNCHANGED <<today, registered, registry, byHand, tables>>

PutByHand ==
    /\ ~byHand
    /\ byHand' = TRUE
    /\ \E b \in Stray : topic' = topic \cup {b}
    /\ UNCHANGED <<today, runs, tables>>

(* The consumer validates a message, then stores it or sends it on. *)
Consume ==
    LET now == Midnight[today] + Morning IN
    /\ \E b \in topic :
        \/ /\ IsReading(b, now)
           /\ readings' = readings \cup ReadingsOf(b)
           /\ UNCHANGED <<intervals, dead>>
        \/ /\ IsCommunity(b, now)
           /\ intervals' = intervals \cup IntervalsOf(b)
           /\ UNCHANGED <<readings, dead>>
        \/ /\ ~IsReading(b, now) /\ ~IsCommunity(b, now)
           /\ dead' = dead \cup {b}
           /\ UNCHANGED <<readings, intervals>>
    /\ UNCHANGED <<today, runs, topic, byHand>>

Next ==
    \/ NextDay \/ PutByHand \/ Consume
    \/ \E R \in RunDay : Register(R) \/ Produce(R)

Spec == Init /\ [][Next]_vars

-----------------------------------------------------------------------------
(* stg_metering_point and stg_meter_reading.                               *)

(* The registration a moment falls into: the last to take over before it.  *)
Period(c, t) ==
    {p \in registry :
        /\ p.point = c /\ Midnight[p.validFrom] <= t
        /\ \A s \in registry : s.point = c /\ Midnight[s.validFrom] <= t =>
            s.validFrom <= p.validFrom}

-----------------------------------------------------------------------------
(* Properties. *)

Energy == 0 .. Column - 1

(* What is in the tables the constraints of the schema let in: no message  *)
(* validation accepts stops the consumer, but for a version the column     *)
(* cannot hold (01_schema.sql:69-109).                                     *)
TypeOK ==
    /\ today \in RunDay
    /\ registered \in [RunDay -> SUBSET DOMAIN Midnight]
    /\ \A R \in RunDay : produced[R] \subseteq Outgoing(R)
    /\ \A r \in readings : /\ r.used \in Energy /\ r.given \in 0 .. r.used
                           /\ r.version >= 1 /\ r.deliveredAt > r.start
    /\ \A i \in intervals : /\ i.made \in Energy /\ i.used \in Energy
                            /\ i.version >= 1 /\ i.deliveredAt > i.start

(* Whatever the draws make wrong, late or missing, the simulator never     *)
(* sends a message that its own consumer refuses: an estimate below the    *)
(* allocation is lowered to it, a correction without values stays away,    *)
(* and a short or long day has the length it has (simulate.py:482-560).    *)
SimulatedIsAccepted == Sent \cap dead = {}

(* Every reading that was sent by a run is joined by staging to one        *)
(* registration, and that names the meter the reading says: for a late     *)
(* message, across an exchange and across a new year, and although a run   *)
(* may have died between two groups of the registry (simulate.py:354-382,  *)
(* 563-574, 637-653; stg_meter_reading.sql:37).                            *)
MeterMatchesRegistry ==
    \A b \in SentReadings :
        \A r \in ReadingsOf(b) \cap readings : r.start >= Midnight[ValidFrom] =>
            {p.meter : p \in Period(r.point, r.start)} = {r.meter}

(* The most that was stored as allocated to a member in a quarter hour, of  *)
(* what the runs sent.                                                      *)
GivenTo(c, t) ==
    LET given == {r.given : r \in {r \in UNION {ReadingsOf(b) : b \in SentReadings} \cap readings :
                                    r.point = c /\ r.start = t}}
    IN  IF given = {} THEN 0 ELSE Max(given)

(* What our customers are allocated in a quarter hour never adds up to     *)
(* more than the community says was made, but for half a digit each, be it *)
(* estimated, late or corrected (simulate.py:245-271, 507-509).            *)
GivenWasMade ==
    \A i \in intervals :
        i \in UNION {IntervalsOf(b) : b \in {b \in Sent : b.schema = "community"}} =>
            2 * SumFunction([c \in Member |-> GivenTo(c, i.start)]) <= 2 * i.made + Cardinality(Point)
=============================================================================
