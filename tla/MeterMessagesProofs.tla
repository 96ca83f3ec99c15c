------------------------ MODULE MeterMessagesProofs -------------------------
(***************************************************************************)
(* Theorems about MeterMessages for any calendar, any members and any      *)
(* draws: what the runs send is let in, its readings are joined to the     *)
(* meter that counted them, and no more is given away than was made.       *)
(***************************************************************************)
EXTENDS MeterMessages, FiniteSetTheorems, Numbers, TLAPS

-----------------------------------------------------------------------------
(* The calendar. *)

LEMMA CoveredDays ==
    ASSUME NEW R \in RunDay
    PROVE  /\ R \in Int /\ R \in DOMAIN Midnight /\ R - 1 \in Day
           /\ \A d \in Covered(R) : d \in Day /\ d \in Int /\ d < R
BY DrawsAssumption, CalendarAssumption DEF RunDay, Day, Covered, LookBack

LEMMA DaySpan ==
    ASSUME NEW d \in Day
    PROVE  /\ d \in Int /\ d \in DOMAIN Midnight /\ d + 1 \in DOMAIN Midnight
           /\ Midnight[d] \in Int /\ Midnight[d + 1] \in Int /\ Earliest <= Midnight[d]
           /\ Midnight[d + 1] - Midnight[d] \in IntervalsPerDay
           /\ Midnight[d + 1] - Midnight[d] \in Nat \ {0}
<1>1. d \in Int /\ (d + 1 \in Day \/ d + 1 \in RunDay)
    BY DrawsAssumption DEF Day, RunDay, LookBack
<1> QED
    BY <1>1, CalendarAssumption, MessagesAssumption

LEMMA MidnightsInOrder ==
    ASSUME NEW d \in DOMAIN Midnight, NEW e \in DOMAIN Midnight, d <= e
    PROVE  /\ d \in Int /\ e \in Int /\ Midnight[d] \in Int /\ Midnight[e] \in Int
           /\ Midnight[d] <= Midnight[e]
<1>1. d \in Int /\ e \in Int /\ Midnight[d] \in Int /\ Midnight[e] \in Int
    BY CalendarAssumption
<1>2. CASE d = e
    BY <1>1, <1>2
<1>3. CASE d # e
    <2>1. d < e
        BY <1>1, <1>3
    <2>2. Midnight[d] < Midnight[e]
        BY <2>1, CalendarAssumption
    <2> QED
        BY <1>1, <2>2
<1> QED
    BY <1>1, <1>2, <1>3

(* A quarter hour belongs to one day. *)
LEMMA OneDay ==
    ASSUME NEW d \in Day, NEW e \in DOMAIN Midnight, NEW q \in Positions(d),
           Midnight[e] <= Midnight[d] + q - 1
    PROVE  e <= d
<1>1. /\ d \in Int /\ d + 1 \in DOMAIN Midnight /\ Midnight[d] \in Int /\ Midnight[d + 1] \in Int
      /\ Midnight[d + 1] - Midnight[d] \in Nat
    BY DaySpan
<1>2. e \in Int /\ Midnight[e] \in Int
    BY CalendarAssumption
<1>3. q \in Int /\ q <= Midnight[d + 1] - Midnight[d]
    BY <1>1 DEF Positions
<1>4. ASSUME d + 1 <= e PROVE FALSE
    BY <1>1, <1>2, <1>3, <1>4, MidnightsInOrder
<1> QED
    BY <1>1, <1>2, <1>4

-----------------------------------------------------------------------------
(* The messages of a run. *)

LEMMA OutgoingIs ==
    ASSUME NEW R \in RunDay, NEW m \in Outgoing(R)
    PROVE  /\ m.run = R /\ m.day \in Day /\ m.day \in Int /\ m.day < R
           /\ m.version \in {1, 2}
           /\ m.point \in Point \cup {CommunityKey}
           /\ m.point = CommunityKey => m.day = R - 1
           /\ m.point \in Point =>
                /\ \E q \in Positions(m.day) : q \in Brings(m)
                /\ <<m.point, m.day>> \in Point \X Day
<1>1. CASE m = [point |-> CommunityKey, day |-> R - 1, version |-> 1, run |-> R]
    BY <1>1, CoveredDays, DaySpan, MessagesAssumption
<1>2. CASE m \in Firsts(R)
    <2>1. PICK k \in Point \X Covered(R) : m = [point |-> k[1], day |-> k[2], version |-> 1, run |-> R]
        BY <1>2 DEF Firsts
    <2>2. k[1] \in Point /\ k[2] \in Day /\ k[2] \in Int /\ k[2] < R /\ k = <<k[1], k[2]>>
        BY <2>1, CoveredDays
    <2>3. k \in Point \X Day
        BY <2>2
    <2>4. Lost[k] \subseteq Positions(k[2]) /\ Lost[k] # Positions(k[2]) /\ Positions(k[2]) \subseteq Quarter
        BY <2>2, <2>3, TruthAssumption, CalendarAssumption
    <2>5. PICK q \in Positions(k[2]) : q \notin Lost[k]
        BY <2>4
    <2>6. q \in Brings(m)
        BY <2>1, <2>2, <2>4, <2>5 DEF Brings
    <2>7. m.point = k[1] /\ m.day = k[2] /\ m.version = 1 /\ m.run = R
        BY <2>1
    <2>8. m.point # CommunityKey
        BY <2>2, <2>7, MessagesAssumption
    <2> QED
        BY <2>2, <2>3, <2>6, <2>7, <2>8
<1>3. CASE m \in Corrections(R)
    <2>1. PICK k \in Point \X Covered(R) : m = [point |-> k[1], day |-> k[2], version |-> 2, run |-> R]
        BY <1>3 DEF Corrections
    <2>2. k[1] \in Point /\ k[2] \in Day /\ k[2] \in Int /\ k[2] < R /\ k = <<k[1], k[2]>>
        BY <2>1, CoveredDays
    <2>3. k \in Point \X Day
        BY <2>2
    <2>4. m.point = k[1] /\ m.day = k[2] /\ m.version = 2 /\ m.run = R
        BY <2>1
    <2>5. Wrong[k] \subseteq Positions(k[2])
        BY <2>3, TruthAssumption
    <2>6. Brings(m) # {} /\ Brings(m) \subseteq Wrong[k]
        BY <1>3, <2>2, <2>4 DEF Corrections, Brings
    <2>7. m.point # CommunityKey
        BY <2>2, <2>4, MessagesAssumption
    <2> QED
        BY <2>2, <2>3, <2>4, <2>5, <2>6, <2>7
<1> QED
    BY <1>1, <1>2, <1>3 DEF Outgoing, Deliveries

(* What is used and given of a quarter hour. *)
LEMMA TotalIs ==
    ASSUME NEW d \in Day, NEW q \in Positions(d)
    PROVE  /\ Total(d, q) \in 0 .. MaxCommunity
           /\ \A i \in Member : Used[<<i, d>>][q] \in 0 .. MaxPoint
           /\ Made[d][q] \in 0 .. MaxCommunity
<1> DEFINE used == [i \in Member |-> Used[<<i, d>>][q]]
<1>1. \A i \in Member : Used[<<i, d>>][q] \in 0 .. MaxPoint
    BY TruthAssumption
<1>2. Made[d][q] \in 0 .. MaxCommunity
    BY TruthAssumption
<1>3. DOMAIN used = Member /\ \A i \in Member : used[i] \in Nat
    BY <1>1, MessagesAssumption
<1> HIDE DEF used
<1>4. PICK f : SumsBy(used, Member, f)
    BY <1>3, MessagesAssumption, SumUnfolds
<1>5. SumFunction(used) = f[Member] /\ f[Member] \in Nat
    BY <1>3, <1>4 DEF SumsBy, SumFunction
<1>6. Total(d, q) \in Nat /\ Total(d, q) <= MaxCommunity
    BY <1>5, TotalAssumption DEF Total, used
<1> QED
    BY <1>1, <1>2, <1>6, MessagesAssumption

(* round(n / m) is off by half at most. *)
LEMMA RoundedIs ==
    ASSUME NEW n \in Nat, NEW k \in Nat \ {0}
    PROVE  Rounded(n, k) \in Nat /\ 2 * (k * Rounded(n, k)) <= 2 * n + k
<1> DEFINE D == 2 * k
           N == 2 * n + k
<1>1. N \in Nat /\ D \in Nat \ {0}
    OBVIOUS
<1>2. Rounded(n, k) = N \div D
    BY DEF Rounded
<1> HIDE DEF D, N
<1>3. N \div D \in Nat /\ D * (N \div D) <= N
    BY <1>1
<1>4. D * (N \div D) = 2 * (k * (N \div D))
    <2> HIDE <1>2
    <2> QED
        BY <1>3 DEF D
<1> QED
    BY <1>2, <1>3, <1>4 DEF N

(* Nobody gets more than was used, nor more than the share, but for half a  *)
(* digit (allocate).                                                        *)
LEMMA AllocatedIs ==
    ASSUME NEW i \in Member, NEW d \in Day, NEW q \in Positions(d)
    PROVE  /\ Allocated(i, d, q) \in 0 .. Used[<<i, d>>][q]
           /\ LET total == Total(d, q)
              IN  total # 0 => 2 * (total * Allocated(i, d, q))
                                <= 2 * (Least(Made[d][q], total) * Used[<<i, d>>][q]) + total
<1> DEFINE used == Used[<<i, d>>][q]
           total == Total(d, q)
           made == Least(Made[d][q], total)
           share == Rounded(used * made, total)
<1>1. used \in Nat /\ total \in Nat /\ made \in Nat
    BY TotalIs, MessagesAssumption DEF Least
<1>2. Allocated(i, d, q) = IF total = 0 THEN 0 ELSE Least(share, used)
    BY DEF Allocated
<1>3. CASE total = 0
    BY <1>1, <1>2, <1>3
<1>4. CASE total # 0
    <2> HIDE DEF used, total, made
    <2>1. used * made \in Nat /\ used * made = made * used
        BY <1>1
    <2>2. share \in Nat /\ 2 * (total * share) <= 2 * (used * made) + total
        BY <1>1, <1>4, <2>1, RoundedIs
    <2> HIDE DEF share
    <2>3. Least(share, used) \in 0 .. used /\ Least(share, used) <= share
        BY <1>1, <2>2 DEF Least
    <2>4. total * Least(share, used) <= total * share
        BY <1>1, <2>2, <2>3
    <2>5. total * Least(share, used) \in Nat /\ total * share \in Nat
        BY <1>1, <2>2, <2>3
    <2>6. 2 * (total * Least(share, used)) <= 2 * (made * used) + total
        BY <1>1, <2>1, <2>2, <2>4, <2>5
    <2> QED
        BY <1>2, <1>4, <2>3, <2>6 DEF used, total, made
<1> QED
    BY <1>3, <1>4

-----------------------------------------------------------------------------
(* Meters. *)

LEMMA MeterIs ==
    ASSUME NEW c \in Point, NEW d \in DOMAIN Midnight
    PROVE  MeterOn(c, d) \in [point : Int, letter : Int] /\ MeterOn(c, d).point = c
<1> DEFINE passed == {s \in Swaps[c] : ValidFrom <= s /\ s <= d}
<1>1. ValidFrom \in Int /\ d \in Int /\ Swaps[c] \subseteq Int
    BY CalendarAssumption
<1>2. passed \subseteq ValidFrom .. d
    BY <1>1
<1>3. Cardinality(passed) \in Nat
    BY <1>1, <1>2, FS_Interval, FS_Subset, FS_CardinalityType
<1> HIDE DEF passed
<1>4. Cardinality(passed) % Letters \in Int
    BY <1>3, MessagesAssumption
<1>5. c \in Int
    BY MessagesAssumption
<1> QED
    BY <1>4, <1>5 DEF MeterOn, passed

-----------------------------------------------------------------------------
(* A batch is what its message brings. *)

Span(d) == Midnight[d + 1] - Midnight[d]

LEMMA SpanIs ==
    ASSUME NEW d \in Day, NEW V, NEW f \in [Positions(d) -> V]
    PROVE  f \in Seq(V) /\ Len(f) = Span(d)
<1>1. Span(d) \in Nat /\ f \in [1 .. Span(d) -> V]
    BY DaySpan DEF Span, Positions
<1> QED
    BY <1>1

LEMMA ReadingFields ==
    ASSUME NEW R \in RunDay, NEW m \in Outgoing(R), m.point \in Point
    PROVE  /\ Batch(m).schema = "reading" /\ Batch(m).step = 1 /\ Batch(m).point = m.point
           /\ Batch(m).meter = MeterOn(m.point, m.day) /\ Batch(m).version = m.version
           /\ Batch(m).deliveredAt = Midnight[R] + Morning /\ Batch(m).start = Midnight[m.day]
<1>1. m.point # CommunityKey
    BY MessagesAssumption
<1>2. m.run = R
    BY OutgoingIs
<1> QED
    BY <1>1, <1>2 DEF Batch, ReadingBatch, DeliveredAt, MeterOf

LEMMA ReadingValues ==
    ASSUME NEW R \in RunDay, NEW m \in Outgoing(R), m.point \in Point
    PROVE  /\ Batch(m).first \in [Positions(m.day) -> (0 .. MaxPoint) \cup {Null}]
           /\ Batch(m).second \in [Positions(m.day) -> (0 .. MaxPoint) \cup {Null}]
           /\ \A q \in Positions(m.day) :
                /\ q \notin Brings(m) => Batch(m).first[q] = Null /\ Batch(m).second[q] = Null
                /\ q \in Brings(m) => /\ Batch(m).first[q] \in 0 .. MaxPoint
                                      /\ Batch(m).second[q] \in 0 .. Batch(m).first[q]
                                      /\ Batch(m).second[q] <= Allocated(m.point, m.day, q)
<1> DEFINE key == <<m.point, m.day>>
           used(q) == IF Estimated(m, q) THEN Estimate[key][q] ELSE Used[key][q]
           given(q) == IF Estimated(m, q) THEN Given(used(q), Allocated(m.point, m.day, q))
                       ELSE Allocated(m.point, m.day, q)
           first == [q \in Positions(m.day) |-> IF q \in Brings(m) THEN used(q) ELSE Null]
           second == [q \in Positions(m.day) |-> IF q \in Brings(m) THEN given(q) ELSE Null]
<1>1. m.point # CommunityKey
    BY MessagesAssumption
<1>2. Batch(m).first = first /\ Batch(m).second = second
    BY <1>1 DEF Batch, ReadingBatch
<1>3. m.day \in Day /\ key \in Point \X Day /\ m.point \in Member
    BY OutgoingIs DEF Member
<1>4. ASSUME NEW q \in Positions(m.day)
      PROVE  /\ used(q) \in 0 .. MaxPoint
             /\ given(q) \in 0 .. used(q) /\ given(q) <= Allocated(m.point, m.day, q)
    <2>1. /\ Allocated(m.point, m.day, q) \in 0 .. Used[key][q]
          /\ Used[key][q] \in 0 .. MaxPoint
        BY <1>3, AllocatedIs, TotalIs
    <2>2. Estimate[key][q] \in 0 .. MaxPoint
        BY <1>3, TruthAssumption
    <2> HIDE DEF key
    <2> QED
        BY <2>1, <2>2, MessagesAssumption DEF Given, Least
<1> HIDE DEF used, given
<1>5. \A q \in Positions(m.day) : given(q) \in 0 .. MaxPoint
    <2> SUFFICES ASSUME NEW q \in Positions(m.day) PROVE given(q) \in 0 .. MaxPoint
        OBVIOUS
    <2>1. used(q) \in 0 .. MaxPoint /\ given(q) \in 0 .. used(q)
        BY <1>4
    <2> QED
        BY <2>1, MessagesAssumption
<1>6. /\ first \in [Positions(m.day) -> (0 .. MaxPoint) \cup {Null}]
      /\ second \in [Positions(m.day) -> (0 .. MaxPoint) \cup {Null}]
    BY <1>4, <1>5
<1> QED
    BY <1>2, <1>4, <1>6

LEMMA CommunityIs ==
    ASSUME NEW R \in RunDay, NEW m \in Outgoing(R), m.point = CommunityKey
    PROVE  /\ Batch(m).schema = "community" /\ Batch(m).step = 1 /\ Batch(m).version = 1
           /\ Batch(m).point = CommunityKey
           /\ Batch(m).deliveredAt = Midnight[R] + Morning /\ Batch(m).start = Midnight[m.day]
           /\ Batch(m).first \in [Positions(m.day) -> 0 .. MaxCommunity]
           /\ Batch(m).second \in [Positions(m.day) -> 0 .. MaxCommunity]
           /\ Batch(m).first = Made[m.day]
           /\ Batch(m).second = [q \in Positions(m.day) |-> Total(m.day, q)]
<1>1. m.run = R /\ m.day \in Day
    BY OutgoingIs
<1>2. Made[m.day] \in [Positions(m.day) -> 0 .. MaxCommunity]
    BY <1>1, TruthAssumption
<1>3. [q \in Positions(m.day) |-> Total(m.day, q)] \in [Positions(m.day) -> 0 .. MaxCommunity]
    BY <1>1, TotalIs
<1> QED
    BY <1>1, <1>2, <1>3 DEF Batch, CommunityBatch, DeliveredAt

(* When a message of a day can have been sent. *)
LEMMA SentInTime ==
    ASSUME NEW R \in RunDay, NEW d \in Day, d < R, NEW t \in RunDay, R <= t
    PROVE  /\ InWindow(Midnight[R] + Morning, Midnight[t] + Morning)
           /\ InWindow(Midnight[d], Midnight[t] + Morning)
           /\ Midnight[R] + Morning >= Midnight[d] + Span(d)
           /\ Midnight[R] + Morning > Midnight[d]
<1>1. /\ d \in Int /\ d + 1 \in DOMAIN Midnight /\ d \in DOMAIN Midnight
      /\ Midnight[d] \in Int /\ Midnight[d + 1] \in Int /\ Earliest <= Midnight[d]
      /\ Midnight[d + 1] - Midnight[d] \in Nat \ {0}
    BY DaySpan
<1>2. R \in DOMAIN Midnight /\ t \in DOMAIN Midnight /\ R \in Int
    BY CoveredDays
<1>3. d + 1 <= R
    BY <1>1, <1>2
<1>4. /\ Midnight[R] \in Int /\ Midnight[t] \in Int
      /\ Midnight[d + 1] <= Midnight[R] /\ Midnight[R] <= Midnight[t]
    BY <1>1, <1>2, <1>3, MidnightsInOrder
<1>5. Earliest \in Int /\ Morning \in Nat /\ FutureTolerance \in Nat
    BY CalendarAssumption, MessagesAssumption
<1> QED
    BY <1>1, <1>4, <1>5 DEF InWindow, Span

(* The simulator's readings pass validation, at any later hour. *)
LEMMA ReadingAccepted ==
    ASSUME NEW R \in RunDay, NEW m \in Outgoing(R), m.point \in Point,
           NEW t \in RunDay, R <= t
    PROVE  IsReading(Batch(m), Midnight[t] + Morning)
<1> DEFINE b == Batch(m)
           now == Midnight[t] + Morning
           d == m.day
<1>1. d \in Day /\ d < R /\ m.version \in {1, 2} /\ (\E q \in Positions(d) : q \in Brings(m))
    BY OutgoingIs
<1>2. /\ b.schema = "reading" /\ b.step = 1 /\ b.point = m.point
      /\ b.meter = MeterOn(m.point, d) /\ b.version = m.version
      /\ b.deliveredAt = Midnight[R] + Morning /\ b.start = Midnight[d]
    BY ReadingFields
<1>3. /\ b.first \in [Positions(d) -> (0 .. MaxPoint) \cup {Null}]
      /\ b.second \in [Positions(d) -> (0 .. MaxPoint) \cup {Null}]
      /\ \A q \in Positions(d) :
            /\ q \notin Brings(m) => b.first[q] = Null /\ b.second[q] = Null
            /\ q \in Brings(m) => /\ b.first[q] \in 0 .. MaxPoint
                                  /\ b.second[q] \in 0 .. b.first[q]
    BY ReadingValues
<1>4. Len(b.first) = Span(d) /\ Len(b.second) = Span(d) /\ Span(d) \in IntervalsPerDay
    BY <1>1, <1>3, SpanIs, DaySpan DEF Span
<1>5. Malformed \notin {b.point, b.meter}
    <2>1. MeterOn(m.point, d) \in [point : Int, letter : Int] /\ m.point \in Int
        BY <1>1, DaySpan, MeterIs, MessagesAssumption
    <2> QED
        BY <1>2, <2>1, MessagesAssumption
<1>6. /\ InWindow(b.deliveredAt, now) /\ InWindow(b.start, now)
      /\ b.deliveredAt >= b.start + Len(b.first)
    BY <1>1, <1>2, <1>4, SentInTime
<1> HIDE DEF b, now, d
<1>7. \A v \in 0 .. MaxPoint : v # Null
    BY MessagesAssumption
<1>8. \A q \in Positions(d) : b.first[q] = Null <=> b.second[q] = Null
    <2> SUFFICES ASSUME NEW q \in Positions(d) PROVE b.first[q] = Null <=> b.second[q] = Null
        OBVIOUS
    <2>1. CASE q \in Brings(m)
        <3>1. b.first[q] \in 0 .. MaxPoint /\ b.second[q] \in 0 .. b.first[q]
            BY <1>3, <2>1
        <3>2. b.second[q] \in 0 .. MaxPoint
            BY <3>1, MessagesAssumption
        <3> QED
            BY <1>7, <3>1, <3>2
    <2>2. CASE q \notin Brings(m)
        BY <1>3, <2>2
    <2> QED
        BY <2>1, <2>2
<1>9. \E q \in Positions(d) : b.first[q] # Null
    BY <1>1, <1>3, <1>7
<1>10. \A q \in Positions(d) : b.first[q] # Null => b.second[q] <= b.first[q]
    BY <1>3, MessagesAssumption
<1>11. DOMAIN b.first = Positions(d) /\ DOMAIN b.second = Positions(d)
    BY <1>3
<1>12. Amounts(b.first, MaxPoint) /\ Amounts(b.second, MaxPoint)
    BY <1>3, <1>4, <1>11 DEF Amounts
<1>13. b.version \in Nat \ {0}
    BY <1>1, <1>2
<1>14. Readable(b, MaxPoint, now)
    BY <1>2, <1>4, <1>6, <1>8, <1>9, <1>11, <1>12, <1>13 DEF Readable
<1>15. IsReading(b, now)
    BY <1>2, <1>5, <1>10, <1>11, <1>14 DEF IsReading
<1> QED
    BY <1>15 DEF b, now

(* So does the community's message. *)
LEMMA CommunityAccepted ==
    ASSUME NEW R \in RunDay, NEW m \in Outgoing(R), m.point = CommunityKey,
           NEW t \in RunDay, R <= t
    PROVE  IsCommunity(Batch(m), Midnight[t] + Morning)
<1> DEFINE b == Batch(m)
           now == Midnight[t] + Morning
           d == m.day
<1>1. d \in Day /\ d < R
    BY OutgoingIs
<1>2. /\ b.schema = "community" /\ b.step = 1 /\ b.version = 1
      /\ b.deliveredAt = Midnight[R] + Morning /\ b.start = Midnight[d]
      /\ b.first \in [Positions(d) -> 0 .. MaxCommunity]
      /\ b.second \in [Positions(d) -> 0 .. MaxCommunity]
    BY CommunityIs
<1>3. Len(b.first) = Span(d) /\ Len(b.second) = Span(d) /\ Span(d) \in IntervalsPerDay
    BY <1>1, <1>2, SpanIs, DaySpan DEF Span
<1>4. /\ InWindow(b.deliveredAt, now) /\ InWindow(b.start, now)
      /\ b.deliveredAt >= b.start + Len(b.first)
    BY <1>1, <1>2, <1>3, SentInTime
<1>5. 1 \in Positions(d)
    BY <1>1, DaySpan DEF Positions
<1> HIDE DEF b, now, d
<1>6. \A v \in 0 .. MaxCommunity : v # Null
    BY MessagesAssumption
<1>7. DOMAIN b.first = Positions(d) /\ DOMAIN b.second = Positions(d)
    BY <1>2
<1>8. Amounts(b.first, MaxCommunity) /\ Amounts(b.second, MaxCommunity)
    BY <1>2, <1>3, <1>7 DEF Amounts
<1>9. \A q \in Positions(d) : b.first[q] # Null /\ b.second[q] # Null
    BY <1>2, <1>6
<1>10. Readable(b, MaxCommunity, now)
    BY <1>2, <1>3, <1>4, <1>5, <1>7, <1>8, <1>9 DEF Readable
<1> QED
    BY <1>2, <1>10 DEF IsCommunity, b, now

(* What a run sends is let in; both its lists are sequences. *)
LEMMA OutgoingAccepted ==
    ASSUME NEW R \in RunDay, NEW m \in Outgoing(R), NEW t \in RunDay, R <= t
    PROVE  \/ IsReading(Batch(m), Midnight[t] + Morning)
           \/ IsCommunity(Batch(m), Midnight[t] + Morning)
BY OutgoingIs, ReadingAccepted, CommunityAccepted

LEMMA OutgoingSequences ==
    ASSUME NEW R \in RunDay, NEW m \in Outgoing(R)
    PROVE  /\ Batch(m).first \in Seq(Int \cup {Null})
           /\ Batch(m).second \in Seq(Int \cup {Null})
<1> DEFINE A == Int \cup {Null}
<1>1. m.day \in Day /\ m.point \in Point \cup {CommunityKey}
    BY OutgoingIs
<1>2. /\ Batch(m).first \in [Positions(m.day) -> A]
      /\ Batch(m).second \in [Positions(m.day) -> A]
    <2>1. CASE m.point \in Point
        <3>1. (0 .. MaxPoint) \cup {Null} \subseteq A
            OBVIOUS
        <3>2. /\ Batch(m).first \in [Positions(m.day) -> (0 .. MaxPoint) \cup {Null}]
              /\ Batch(m).second \in [Positions(m.day) -> (0 .. MaxPoint) \cup {Null}]
            BY <2>1, ReadingValues
        <3> HIDE DEF A
        <3> QED
            BY <3>1, <3>2
    <2>2. CASE m.point = CommunityKey
        <3>1. 0 .. MaxCommunity \subseteq A
            OBVIOUS
        <3>2. /\ Batch(m).first \in [Positions(m.day) -> 0 .. MaxCommunity]
              /\ Batch(m).second \in [Positions(m.day) -> 0 .. MaxCommunity]
            BY <2>2, CommunityIs
        <3> HIDE DEF A
        <3> QED
            BY <3>1, <3>2
    <2> QED
        BY <1>1, <2>1, <2>2
<1> HIDE DEF A
<1>3. Batch(m).first \in Seq(A) /\ Batch(m).second \in Seq(A)
    BY <1>1, <1>2, SpanIs
<1> QED
    BY <1>3 DEF A

(* The messages sent about our metering points. *)
LEMMA SentReadingIs ==
    ASSUME NEW b \in SentReadings
    PROVE  \E R \in RunDay : \E m \in Outgoing(R) : m.point \in Point /\ b = Batch(m)
<1>1. PICK R \in RunDay : \E m \in Outgoing(R) : b = Batch(m)
    BY DEF SentReadings, Sent
<1>2. PICK m \in Outgoing(R) : b = Batch(m)
    BY <1>1
<1>3. b.schema = "reading" /\ "reading" # "community"
    BY DEF SentReadings
<1>4. m.point # CommunityKey
    BY <1>2, <1>3, CommunityIs
<1>5. m.point \in Point
    BY <1>4, OutgoingIs
<1> QED
    BY <1>2, <1>5

(* A reading tells the day and the quarter hour it is from, and its meter.  *)
LEMMA ReadingTells ==
    ASSUME NEW R \in RunDay, NEW m \in Outgoing(R), m.point \in Point,
           NEW r \in ReadingsOf(Batch(m))
    PROVE  /\ r.point = m.point /\ r.meter = MeterOn(m.point, m.day)
           /\ \E q \in Positions(m.day) :
                /\ r.start = Midnight[m.day] + q - 1
                /\ r.given \in Nat /\ r.given <= Allocated(m.point, m.day, q)
<1>1. PICK q \in Delivered(Batch(m)) :
        /\ r.point = Batch(m).point /\ r.meter = Batch(m).meter
        /\ r.start = Batch(m).start + q - 1 /\ r.given = Batch(m).second[q]
    BY DEF ReadingsOf
<1>2. /\ Batch(m).point = m.point /\ Batch(m).meter = MeterOn(m.point, m.day)
      /\ Batch(m).start = Midnight[m.day]
    BY ReadingFields
<1>3. q \in Positions(m.day) /\ Batch(m).first[q] # Null
    BY <1>1, ReadingValues DEF Delivered
<1>4. /\ Batch(m).first[q] \in 0 .. MaxPoint
      /\ Batch(m).second[q] \in 0 .. Batch(m).first[q]
      /\ Batch(m).second[q] <= Allocated(m.point, m.day, q)
    BY <1>3, ReadingValues
<1>5. r.given \in Nat /\ r.given <= Allocated(m.point, m.day, q)
    BY <1>1, <1>4, MessagesAssumption
<1>6. r.start = Midnight[m.day] + q - 1
    BY <1>1, <1>2
<1> QED
    BY <1>1, <1>2, <1>3, <1>5, <1>6

-----------------------------------------------------------------------------
(* What validation lets in.                                                *)

LEMMA AcceptedReading ==
    ASSUME NEW b, NEW now \in Int, IsReading(b, now),
           b.first \in Seq(Int \cup {Null}), b.second \in Seq(Int \cup {Null}),
           NEW r \in ReadingsOf(b)
    PROVE  /\ r.used \in Energy /\ r.given \in 0 .. r.used
           /\ r.version >= 1 /\ r.deliveredAt > r.start
<1>1. PICK q \in Delivered(b) :
        r = [point |-> b.point, start |-> b.start + q - 1, used |-> b.first[q],
             given |-> b.second[q], meter |-> b.meter, version |-> b.version,
             deliveredAt |-> b.deliveredAt]
    BY DEF ReadingsOf
<1>2. q \in DOMAIN b.first /\ b.first[q] # Null
    BY <1>1 DEF Delivered
<1>3. DOMAIN b.first = 1 .. Len(b.first) /\ Len(b.first) \in Nat /\ DOMAIN b.second = 1 .. Len(b.second)
    OBVIOUS
<1>4. /\ b.version \in Nat \ {0} /\ b.deliveredAt \in Int /\ b.start \in Int
      /\ b.deliveredAt >= b.start + Len(b.first) /\ Len(b.first) = Len(b.second)
      /\ b.first[q] = Null <=> b.second[q] = Null
      /\ Amounts(b.first, MaxPoint) /\ Amounts(b.second, MaxPoint)
      /\ b.second[q] <= b.first[q]
    <2>1. Readable(b, MaxPoint, now)
        BY DEF IsReading
    <2>2. InWindow(b.deliveredAt, now) /\ InWindow(b.start, now)
        BY <2>1 DEF Readable
    <2>3. b.deliveredAt \in Int /\ b.start \in Int
        BY <2>2, CalendarAssumption, MessagesAssumption DEF InWindow
    <2>4. b.second[q] <= b.first[q]
        BY <1>2 DEF IsReading
    <2> QED
        BY <1>2, <2>1, <2>3, <2>4 DEF Readable
<1>5. b.first[q] \in 0 .. MaxPoint /\ b.second[q] \in 0 .. MaxPoint
    BY <1>2, <1>3, <1>4 DEF Amounts
<1>6. q \in Int /\ q <= Len(b.first)
    BY <1>2, <1>3
<1>7. b.version >= 1 /\ b.deliveredAt > b.start + q - 1
    BY <1>3, <1>4, <1>6
<1>8. b.first[q] \in Energy /\ b.second[q] \in 0 .. b.first[q]
    BY <1>4, <1>5, MessagesAssumption DEF Energy
<1> QED
    BY <1>1, <1>7, <1>8

LEMMA AcceptedInterval ==
    ASSUME NEW b, NEW now \in Int, IsCommunity(b, now),
           b.first \in Seq(Int \cup {Null}), b.second \in Seq(Int \cup {Null}),
           NEW i \in IntervalsOf(b)
    PROVE  /\ i.made \in Energy /\ i.used \in Energy
           /\ i.version >= 1 /\ i.deliveredAt > i.start
<1>1. PICK q \in Delivered(b) :
        i = [start |-> b.start + q - 1, made |-> b.first[q], used |-> b.second[q],
             version |-> b.version, deliveredAt |-> b.deliveredAt]
    BY DEF IntervalsOf
<1>2. q \in DOMAIN b.first /\ b.first[q] # Null
    BY <1>1 DEF Delivered
<1>3. DOMAIN b.first = 1 .. Len(b.first) /\ Len(b.first) \in Nat /\ DOMAIN b.second = 1 .. Len(b.second)
    OBVIOUS
<1>4. /\ b.version \in Nat \ {0} /\ b.deliveredAt \in Int /\ b.start \in Int
      /\ b.deliveredAt >= b.start + Len(b.first) /\ Len(b.first) = Len(b.second)
      /\ b.first[q] = Null <=> b.second[q] = Null
      /\ Amounts(b.first, MaxCommunity) /\ Amounts(b.second, MaxCommunity)
    <2>1. Readable(b, MaxCommunity, now)
        BY DEF IsCommunity
    <2>2. InWindow(b.deliveredAt, now) /\ InWindow(b.start, now)
        BY <2>1 DEF Readable
    <2>3. b.deliveredAt \in Int /\ b.start \in Int
        BY <2>2, CalendarAssumption, MessagesAssumption DEF InWindow
    <2> QED
        BY <1>2, <2>1, <2>3 DEF Readable
<1>5. b.first[q] \in 0 .. MaxCommunity /\ b.second[q] \in 0 .. MaxCommunity
    BY <1>2, <1>3, <1>4 DEF Amounts
<1>6. q \in Int /\ q <= Len(b.first)
    BY <1>2, <1>3
<1>7. b.version >= 1 /\ b.deliveredAt > b.start + q - 1
    BY <1>3, <1>4, <1>6
<1>8. b.first[q] \in Energy /\ b.second[q] \in Energy
    BY <1>5, MessagesAssumption DEF Energy
<1> QED
    BY <1>1, <1>7, <1>8

-----------------------------------------------------------------------------
(* The invariant. *)

Outbox == UNION {Outgoing(R) : R \in RunDay}

(* A run sends nothing before its day, nor before all its rows are written. *)
SentByRuns ==
    /\ produced \in [RunDay -> SUBSET Outbox]
    /\ \A R \in RunDay : produced[R] # {} =>
        R <= today /\ TakeOvers(YearOf(R)) \subseteq registered[R]

(* The registry holds the rows a run has been through, each with the meter  *)
(* of the day it is valid from.                                             *)
Registered ==
    /\ \A R \in RunDay : \A d \in registered[R] : Registrations(YearOf(R), d) \subseteq registry
    /\ \A p \in registry : /\ p.point \in Point /\ p.validFrom \in DOMAIN Midnight
                           /\ p.meter = MeterOn(p.point, p.validFrom)

(* On the topic is what runs have sent and what came by hand, and every     *)
(* reading is of a message on the topic.                                    *)
FromTopic ==
    /\ \A b \in topic : b \in Stray \/ \E R \in RunDay : \E m \in produced[R] : b = Batch(m)
    /\ \A r \in readings : \E b \in topic : r \in ReadingsOf(b)

MessagesInv == TypeOK /\ SentByRuns /\ Registered /\ FromTopic /\ SimulatedIsAccepted

LEMMA SentIs ==
    ASSUME NEW R \in RunDay, NEW m \in Outgoing(R)
    PROVE  Batch(m) \in Sent
BY DEF Sent

LEMMA InitHolds ==
    ASSUME Init PROVE MessagesInv
<1> USE DEF Init
<1>1. FirstRun \in RunDay
    BY DrawsAssumption DEF RunDay
<1>2. TypeOK
    BY <1>1 DEF TypeOK
<1>3. SentByRuns
    BY DEF SentByRuns
<1>4. Registered /\ FromTopic /\ SimulatedIsAccepted
    BY DEF Registered, FromTopic, SimulatedIsAccepted
<1> QED
    BY <1>2, <1>3, <1>4 DEF MessagesInv

LEMMA NextDayKeeps ==
    ASSUME MessagesInv, NextDay PROVE MessagesInv'
<1>1. /\ UNCHANGED <<registered, produced, registry, topic, readings, intervals, dead>>
      /\ today < LastRun /\ today' = today + 1
    BY DEF NextDay, runs, tables
<1>2. today \in RunDay /\ today' \in RunDay /\ \A R \in RunDay : R <= today => R <= today'
    BY <1>1, DrawsAssumption DEF MessagesInv, TypeOK, RunDay
<1>3. TypeOK'
    BY <1>1, <1>2 DEF MessagesInv, TypeOK
<1>4. SentByRuns'
    BY <1>1, <1>2 DEF MessagesInv, SentByRuns
<1>5. Registered' /\ FromTopic' /\ SimulatedIsAccepted'
    BY <1>1 DEF MessagesInv, Registered, FromTopic, SimulatedIsAccepted
<1> QED
    BY <1>3, <1>4, <1>5 DEF MessagesInv

LEMMA RegisterKeeps ==
    ASSUME MessagesInv, NEW R \in RunDay, Register(R) PROVE MessagesInv'
<1>1. UNCHANGED <<today, produced, topic, readings, intervals, dead>>
    BY DEF Register, tables
<1>2. PICK d \in TakeOvers(YearOf(R)) \ registered[R] :
        /\ registry' = registry \cup Registrations(YearOf(R), d)
        /\ registered' = [registered EXCEPT ![R] = @ \cup {d}]
    BY DEF Register
<1>3. d \in DOMAIN Midnight
    BY CalendarAssumption DEF TakeOvers, History
<1>4. /\ registered \in [RunDay -> SUBSET DOMAIN Midnight]
      /\ registered' \in [RunDay -> SUBSET DOMAIN Midnight]
    BY <1>2, <1>3 DEF MessagesInv, TypeOK
<1>5. /\ registered'[R] = registered[R] \cup {d}
      /\ \A Q \in RunDay : registered[Q] \subseteq registered'[Q] /\ (Q # R => registered'[Q] = registered[Q])
    BY <1>2, <1>4
<1>6. TypeOK'
    BY <1>1, <1>4 DEF MessagesInv, TypeOK
<1>7. SentByRuns'
    BY <1>1, <1>5 DEF MessagesInv, SentByRuns
<1>8. Registered'
    <2>1. ASSUME NEW Q \in RunDay, NEW e \in registered'[Q]
          PROVE  Registrations(YearOf(Q), e) \subseteq registry'
        <3>1. CASE e \in registered[Q]
            BY <1>2, <3>1 DEF MessagesInv, Registered
        <3>2. CASE e \notin registered[Q]
            <4>1. Q = R /\ e = d
                BY <1>5, <3>2
            <4> QED
                BY <1>2, <4>1
        <3> QED
            BY <3>1, <3>2
    <2>2. ASSUME NEW p \in registry'
          PROVE  /\ p.point \in Point /\ p.validFrom \in DOMAIN Midnight
                 /\ p.meter = MeterOn(p.point, p.validFrom)
        <3>1. CASE p \in registry
            BY <3>1 DEF MessagesInv, Registered
        <3>2. CASE p \in Registrations(YearOf(R), d)
            BY <1>3, <3>2 DEF Registrations
        <3> QED
            BY <1>2, <3>1, <3>2
    <2> QED
        BY <2>1, <2>2 DEF Registered
<1>9. FromTopic' /\ SimulatedIsAccepted'
    BY <1>1 DEF MessagesInv, FromTopic, SimulatedIsAccepted
<1> QED
    BY <1>6, <1>7, <1>8, <1>9 DEF MessagesInv

LEMMA ProduceKeeps ==
    ASSUME MessagesInv, NEW R \in RunDay, Produce(R) PROVE MessagesInv'
<1>1. /\ UNCHANGED <<today, registered, registry, readings, intervals, dead>>
      /\ R <= today /\ TakeOvers(YearOf(R)) \subseteq registered[R]
    BY DEF Produce, tables
<1>2. PICK m \in Outgoing(R) :
        /\ topic' = topic \cup {Batch(m)}
        /\ produced' = [produced EXCEPT ![R] = @ \cup {m}]
    BY DEF Produce
<1>3. produced \in [RunDay -> SUBSET Outbox] /\ m \in Outbox
    BY <1>2 DEF MessagesInv, SentByRuns, Outbox
<1>4. /\ produced' \in [RunDay -> SUBSET Outbox]
      /\ produced'[R] = produced[R] \cup {m}
      /\ \A Q \in RunDay : produced[Q] \subseteq produced'[Q] /\ (Q # R => produced'[Q] = produced[Q])
    BY <1>2, <1>3
<1>5. TypeOK'
    <2>1. \A Q \in RunDay : produced'[Q] \subseteq Outgoing(Q)
        BY <1>4 DEF MessagesInv, TypeOK
    <2> QED
        BY <1>1, <2>1 DEF MessagesInv, TypeOK
<1>6. SentByRuns'
    BY <1>1, <1>4 DEF MessagesInv, SentByRuns
<1>7. FromTopic'
    <2>1. ASSUME NEW b \in topic'
          PROVE  b \in Stray \/ \E Q \in RunDay : \E n \in produced'[Q] : b = Batch(n)
        <3>1. CASE b \in topic
            BY <1>4, <3>1 DEF MessagesInv, FromTopic
        <3>2. CASE b = Batch(m)
            BY <1>4, <3>2
        <3> QED
            BY <1>2, <3>1, <3>2
    <2>2. \A r \in readings' : \E b \in topic' : r \in ReadingsOf(b)
        BY <1>1, <1>2 DEF MessagesInv, FromTopic
    <2> QED
        BY <2>1, <2>2 DEF FromTopic
<1>8. Registered' /\ SimulatedIsAccepted'
    BY <1>1 DEF MessagesInv, Registered, SimulatedIsAccepted
<1> QED
    BY <1>5, <1>6, <1>7, <1>8 DEF MessagesInv

LEMMA PutByHandKeeps ==
    ASSUME MessagesInv, PutByHand PROVE MessagesInv'
<1>1. UNCHANGED <<today, registered, produced, registry, readings, intervals, dead>>
    BY DEF PutByHand, runs, tables
<1>2. PICK s \in Stray : topic' = topic \cup {s}
    BY DEF PutByHand
<1>3. TypeOK' /\ SentByRuns' /\ Registered' /\ SimulatedIsAccepted'
    BY <1>1 DEF MessagesInv, TypeOK, SentByRuns, Registered, SimulatedIsAccepted
<1>4. FromTopic'
    BY <1>1, <1>2 DEF MessagesInv, FromTopic
<1> QED
    BY <1>3, <1>4 DEF MessagesInv

LEMMA ConsumeKeeps ==
    ASSUME MessagesInv, Consume PROVE MessagesInv'
<1> DEFINE now == Midnight[today] + Morning
<1>1. UNCHANGED <<today, registered, produced, registry, topic>>
    BY DEF Consume, runs
<1>2. PICK b \in topic :
        \/ /\ IsReading(b, now)
           /\ readings' = readings \cup ReadingsOf(b)
           /\ UNCHANGED <<intervals, dead>>
        \/ /\ IsCommunity(b, now)
           /\ intervals' = intervals \cup IntervalsOf(b)
           /\ UNCHANGED <<readings, dead>>
        \/ /\ ~IsReading(b, now) /\ ~IsCommunity(b, now)
           /\ dead' = dead \cup {b}
           /\ UNCHANGED <<readings, intervals>>
    BY DEF Consume
<1>3. today \in RunDay /\ now \in Int
    <2>1. today \in RunDay
        BY DEF MessagesInv, TypeOK
    <2>2. Midnight[today] \in Int
        BY <2>1, CoveredDays, MidnightsInOrder
    <2> QED
        BY <2>1, <2>2, MessagesAssumption
<1>4. b \in Stray \/ \E R \in RunDay : \E m \in Outgoing(R) : R <= today /\ b = Batch(m)
    BY DEF MessagesInv, FromTopic, SentByRuns, TypeOK
<1>5. b.first \in Seq(Int \cup {Null}) /\ b.second \in Seq(Int \cup {Null})
    BY <1>4, HandAssumption, OutgoingSequences
<1>6. SentByRuns' /\ Registered'
    BY <1>1 DEF MessagesInv, SentByRuns, Registered
<1> HIDE DEF now
<1>7. CASE /\ IsReading(b, now)
           /\ readings' = readings \cup ReadingsOf(b)
           /\ UNCHANGED <<intervals, dead>>
    <2>1. \A r \in ReadingsOf(b) : /\ r.used \in Energy /\ r.given \in 0 .. r.used
                                   /\ r.version >= 1 /\ r.deliveredAt > r.start
        BY <1>3, <1>5, <1>7, AcceptedReading
    <2>2. TypeOK'
        BY <1>1, <1>7, <2>1 DEF MessagesInv, TypeOK
    <2>3. FromTopic'
        BY <1>1, <1>7 DEF MessagesInv, FromTopic
    <2>4. SimulatedIsAccepted'
        BY <1>7 DEF MessagesInv, SimulatedIsAccepted
    <2> QED
        BY <1>6, <2>2, <2>3, <2>4 DEF MessagesInv
<1>8. CASE /\ IsCommunity(b, now)
           /\ intervals' = intervals \cup IntervalsOf(b)
           /\ UNCHANGED <<readings, dead>>
    <2>1. \A i \in IntervalsOf(b) : /\ i.made \in Energy /\ i.used \in Energy
                                    /\ i.version >= 1 /\ i.deliveredAt > i.start
        BY <1>3, <1>5, <1>8, AcceptedInterval
    <2>2. TypeOK'
        BY <1>1, <1>8, <2>1 DEF MessagesInv, TypeOK
    <2>3. FromTopic' /\ SimulatedIsAccepted'
        BY <1>1, <1>8 DEF MessagesInv, FromTopic, SimulatedIsAccepted
    <2> QED
        BY <1>6, <2>2, <2>3 DEF MessagesInv
<1>9. CASE /\ ~IsReading(b, now) /\ ~IsCommunity(b, now)
           /\ dead' = dead \cup {b}
           /\ UNCHANGED <<readings, intervals>>
    <2>1. b \in Stray
        BY <1>3, <1>4, <1>9, OutgoingAccepted DEF now
    <2>2. b \notin Sent
        BY <2>1, HandAssumption
    <2>3. SimulatedIsAccepted'
        BY <1>9, <2>2 DEF MessagesInv, SimulatedIsAccepted
    <2>4. TypeOK' /\ FromTopic'
        BY <1>1, <1>9 DEF MessagesInv, TypeOK, FromTopic
    <2> QED
        BY <1>6, <2>3, <2>4 DEF MessagesInv
<1> QED
    BY <1>2, <1>7, <1>8, <1>9

LEMMA MessagesInvHolds == Spec => []MessagesInv
<1>1. Init => MessagesInv
    BY InitHolds
<1>2. MessagesInv /\ [Next]_vars => MessagesInv'
    <2> SUFFICES ASSUME MessagesInv, [Next]_vars PROVE MessagesInv'
        OBVIOUS
    <2>1. CASE UNCHANGED vars
        BY <2>1 DEF MessagesInv, TypeOK, SentByRuns, Registered, FromTopic, SimulatedIsAccepted,
            vars, runs, tables
    <2>2. CASE Next
        BY <2>2, NextDayKeeps, RegisterKeeps, ProduceKeeps, PutByHandKeeps, ConsumeKeeps DEF Next
    <2> QED
        BY <2>1, <2>2
<1> QED
    BY <1>1, <1>2, PTL DEF Spec

(* What validation lets in, the schema lets in: no accepted message stops   *)
(* the consumer at the database (readings.py:171-230, 01_schema.sql:69-109).*)
THEOREM MessageTypes == Spec => []TypeOK
<1>1. MessagesInv => TypeOK
    BY DEF MessagesInv
<1> QED
    BY <1>1, MessagesInvHolds, PTL

(* The consumer refuses nothing the simulator sends, whatever was drawn, on *)
(* whatever day it reads it (simulate.py:482-560, readings.py:171-230).     *)
THEOREM SimulatedIsLetIn == Spec => []SimulatedIsAccepted
<1>1. MessagesInv => SimulatedIsAccepted
    BY DEF MessagesInv
<1> QED
    BY <1>1, MessagesInvHolds, PTL

-----------------------------------------------------------------------------
(* Readings and the registry. *)

LEMMA YearsInOrder ==
    ASSUME NEW s \in Int, NEW t \in Int, s <= t
    PROVE  YearOf(s) <= YearOf(t)
<1> DEFINE L == YearLength
           p == s \div L
           q == t \div L
<1>1. L \in Nat /\ L > 0
    BY MessagesAssumption
<1>2. p \in Int /\ q \in Int /\ L * p <= s /\ t < L * (q + 1)
    BY <1>1
<1>3. ASSUME q < p PROVE FALSE
    <2>1. q + 1 <= p
        BY <1>2, <1>3
    <2>2. L * (q + 1) <= L * p /\ L * (q + 1) \in Int /\ L * p \in Int
        BY <1>1, <1>2, <2>1
    <2> HIDE DEF p, q, L
    <2> QED
        BY <1>2, <2>2
<1> QED
    BY <1>2, <1>3 DEF YearOf

(* Between two exchanges a meter stays what it is. *)
LEMMA SameMeter ==
    ASSUME NEW c \in Point, NEW d \in DOMAIN Midnight, NEW e \in DOMAIN Midnight,
           ValidFrom <= e, e <= d, \A s \in Swaps[c] : ValidFrom < s /\ s <= d => s <= e
    PROVE  MeterOn(c, e) = MeterOn(c, d)
<1>1. d \in Int /\ e \in Int /\ ValidFrom \in Int /\ Swaps[c] \subseteq Int
    BY CalendarAssumption
<1>2. {s \in Swaps[c] : ValidFrom <= s /\ s <= e} = {s \in Swaps[c] : ValidFrom <= s /\ s <= d}
    BY <1>1
<1> QED
    BY <1>2, Zenon DEF MeterOn

(* A run registers all exchanges of its days before it sends anything. *)
LEMMA RowsUpTo ==
    ASSUME MessagesInv, NEW R \in RunDay, NEW m \in produced[R], m.point \in Point,
           NEW s \in Swaps[m.point] \cup {ValidFrom}, s = ValidFrom \/ ValidFrom < s, s <= m.day
    PROVE  \E p \in registry : p.point = m.point /\ p.validFrom = s
<1>1. /\ TakeOvers(YearOf(R)) \subseteq registered[R]
      /\ m \in Outgoing(R)
    BY DEF MessagesInv, SentByRuns, TypeOK
<1>2. m.day \in Int /\ m.day < R /\ R \in Int /\ s \in Int
    BY <1>1, OutgoingIs, CoveredDays, CalendarAssumption
<1>3. YearOf(s) <= YearOf(R)
    BY <1>2, YearsInOrder
<1>4. s \in History(m.point, YearOf(R))
    BY <1>3 DEF History
<1>5. s \in registered[R]
    BY <1>1, <1>4 DEF TakeOvers
<1>6. Registrations(YearOf(R), s) \subseteq registry
    BY <1>5 DEF MessagesInv, Registered
<1>7. [point |-> m.point, validFrom |-> s, meter |-> MeterOn(m.point, s)]
        \in Registrations(YearOf(R), s)
    BY <1>4 DEF Registrations
<1> QED
    BY <1>6, <1>7

(* A reading that was stored, as a run sends it, is of a message that was   *)
(* produced.                                                                *)
LEMMA StoredWasProduced ==
    ASSUME MessagesInv, NEW b \in SentReadings, NEW r \in ReadingsOf(b) \cap readings
    PROVE  \E R \in RunDay : \E m \in produced[R] :
            m.point \in Point /\ m \in Outgoing(R) /\ r \in ReadingsOf(Batch(m))
<1>1. PICK n : n.point \in Point /\ (\E R \in RunDay : n \in Outgoing(R)) /\ b = Batch(n)
    BY SentReadingIs
<1>2. r.point \in Point
    BY <1>1, ReadingTells
<1>3. PICK s \in topic : r \in ReadingsOf(s)
    BY DEF MessagesInv, FromTopic
<1>4. s \notin Stray
    BY <1>3, HandAssumption
<1>5. PICK R \in RunDay : \E m \in produced[R] : s = Batch(m)
    BY <1>3, <1>4 DEF MessagesInv, FromTopic
<1>6. PICK m \in produced[R] : s = Batch(m)
    BY <1>5
<1>7. m \in Outgoing(R)
    BY DEF MessagesInv, TypeOK
<1>8. r.point = Batch(m).point
    BY <1>3, <1>6 DEF ReadingsOf
<1>9. m.point # CommunityKey
    <2>1. r.point # CommunityKey
        BY <1>2, MessagesAssumption
    <2> QED
        BY <1>7, <1>8, <2>1, CommunityIs
<1>10. m.point \in Point
    BY <1>7, <1>9, OutgoingIs
<1> QED
    BY <1>3, <1>6, <1>7, <1>10

LEMMA RegistryMatches == ASSUME MessagesInv PROVE MeterMatchesRegistry
<1> SUFFICES ASSUME NEW b \in SentReadings, NEW r \in ReadingsOf(b) \cap readings,
                    r.start >= Midnight[ValidFrom]
             PROVE  {p.meter : p \in Period(r.point, r.start)} = {r.meter}
    BY DEF MeterMatchesRegistry
<1>1. PICK R \in RunDay : \E m \in produced[R] :
        m.point \in Point /\ m \in Outgoing(R) /\ r \in ReadingsOf(Batch(m))
    BY StoredWasProduced
<1>2. PICK m \in produced[R] :
        m.point \in Point /\ m \in Outgoing(R) /\ r \in ReadingsOf(Batch(m))
    BY <1>1
<1> DEFINE c == m.point
           d == m.day
<1>3. c \in Point /\ d \in Day /\ d \in Int /\ d \in DOMAIN Midnight
    BY <1>2, OutgoingIs, DaySpan
<1>4. r.point = c /\ r.meter = MeterOn(c, d)
    BY <1>2, ReadingTells
<1>5. PICK q \in Positions(d) : r.start = Midnight[d] + q - 1
    BY <1>2, ReadingTells
<1>6. \A e \in DOMAIN Midnight : Midnight[e] <= r.start <=> e <= d
    <2> SUFFICES ASSUME NEW e \in DOMAIN Midnight PROVE Midnight[e] <= r.start <=> e <= d
        OBVIOUS
    <2>1. Midnight[e] <= r.start => e <= d
        BY <1>3, <1>5, OneDay
    <2>2. ASSUME e <= d PROVE Midnight[e] <= r.start
        <3>1. Midnight[e] \in Int /\ Midnight[d] \in Int /\ Midnight[e] <= Midnight[d]
            BY <1>3, <2>2, MidnightsInOrder
        <3>2. q \in Int /\ 1 <= q
            BY <1>3, DaySpan DEF Positions
        <3> QED
            BY <1>5, <3>1, <3>2
    <2> QED
        BY <2>1, <2>2
<1>7. ValidFrom \in DOMAIN Midnight /\ ValidFrom \in Int /\ Midnight[ValidFrom] \in Int
    BY CalendarAssumption
<1>8. ValidFrom <= d
    <2>1. r.start \in Int
        BY <1>3, <1>5, DaySpan DEF Positions
    <2>2. Midnight[ValidFrom] <= r.start
        BY <1>7, <2>1
    <2> QED
        BY <1>6, <1>7, <2>2
<1> DEFINE mine == {p \in registry : p.point = c /\ p.validFrom <= d}
           days == {p.validFrom : p \in mine}
<1>9. \A p \in registry : /\ p.point \in Point /\ p.validFrom \in DOMAIN Midnight
                          /\ p.validFrom \in Int /\ p.meter = MeterOn(p.point, p.validFrom)
    BY CalendarAssumption DEF MessagesInv, Registered
<1>10. \A s \in Swaps[c] \cup {ValidFrom} : (s = ValidFrom \/ ValidFrom < s) /\ s <= d => s \in days
    BY <1>2, RowsUpTo
<1>11. ValidFrom \in days /\ days \subseteq Int /\ \A e \in days : e <= d
    BY <1>8, <1>9, <1>10
<1> HIDE DEF days
<1>12. PICK D \in days : \A e \in days : e <= D
    BY <1>3, <1>11, LargestBelow
<1>13. PICK row \in mine : row.validFrom = D
    BY <1>12 DEF days
<1>14. D \in DOMAIN Midnight /\ D \in Int /\ ValidFrom <= D /\ D <= d
    BY <1>9, <1>11, <1>12, <1>13
<1>15. MeterOn(c, D) = MeterOn(c, d)
    <2>1. \A s \in Swaps[c] : ValidFrom < s /\ s <= d => s <= D
        BY <1>10, <1>12
    <2> QED
        BY <1>3, <1>14, <2>1, SameMeter
<1>16. Period(c, r.start) = {p \in mine : p.validFrom = D}
    <2>1. Period(c, r.start) =
            {p \in registry : /\ p.point = c /\ p.validFrom <= d
                              /\ \A s \in registry : s.point = c /\ s.validFrom <= d =>
                                    s.validFrom <= p.validFrom}
        BY <1>6, <1>9 DEF Period
    <2>2. ASSUME NEW p \in mine, \A s \in mine : s.validFrom <= p.validFrom
          PROVE  p.validFrom = D
        <3>1. D <= p.validFrom
            BY <1>13, <2>2
        <3>2. p.validFrom \in days /\ p.validFrom \in Int
            BY <1>9 DEF days
        <3> QED
            BY <1>12, <1>14, <3>1, <3>2
    <2>3. ASSUME NEW p \in mine, p.validFrom = D, NEW s \in mine
          PROVE  s.validFrom <= p.validFrom
        BY <1>12, <2>3 DEF days
    <2> QED
        BY <2>1, <2>2, <2>3
<1>17. \A p \in mine : p.validFrom = D => p.meter = MeterOn(c, D)
    BY <1>9
<1>18. {p.meter : p \in Period(c, r.start)} = {MeterOn(c, d)}
    BY <1>13, <1>15, <1>16, <1>17
<1> QED
    BY <1>4, <1>18

(* Staging joins every reading the runs sent to the meter it was counted    *)
(* by: across exchanges, a new year, a late message and a run that died     *)
(* between two groups of the registry (simulate.py:354-382, 563-574,        *)
(* 637-653; stg_meter_reading.sql:37).                                      *)
THEOREM ReadingsMatchTheRegistry == Spec => []MeterMatchesRegistry
BY RegistryMatches, MessagesInvHolds, PTL

-----------------------------------------------------------------------------
(* Nothing is given away that was not made. *)

(* The readings of a quarter hour are of one position of one day. *)
LEMMA GivenIs ==
    ASSUME NEW c \in Member, NEW d \in Day, NEW q \in Positions(d),
           NEW b \in SentReadings, NEW r \in ReadingsOf(b),
           r.point = c, r.start = Midnight[d] + q - 1
    PROVE  c \in Point /\ r.given \in Nat /\ r.given <= Allocated(c, d, q)
<1>1. PICK R \in RunDay : \E m \in Outgoing(R) : m.point \in Point /\ b = Batch(m)
    BY SentReadingIs
<1>2. PICK m \in Outgoing(R) : m.point \in Point /\ b = Batch(m)
    BY <1>1
<1>3. c = m.point
    BY <1>2, ReadingTells
<1>4. PICK p \in Positions(m.day) :
        /\ r.start = Midnight[m.day] + p - 1
        /\ r.given \in Nat /\ r.given <= Allocated(m.point, m.day, p)
    BY <1>2, ReadingTells
<1>5. m.day \in Day
    BY OutgoingIs
<1>6. /\ d \in Int /\ d \in DOMAIN Midnight /\ Midnight[d] \in Int /\ q \in Int /\ 1 <= q
      /\ m.day \in Int /\ m.day \in DOMAIN Midnight /\ Midnight[m.day] \in Int
      /\ p \in Int /\ 1 <= p
    BY <1>5, DaySpan DEF Positions
<1>7. m.day <= d
    <2>1. Midnight[m.day] <= Midnight[d] + q - 1
        BY <1>4, <1>6
    <2> QED
        BY <1>6, <2>1, OneDay
<1>8. d <= m.day
    <2>1. Midnight[d] <= Midnight[m.day] + p - 1
        BY <1>4, <1>6
    <2> QED
        BY <1>5, <1>6, <2>1, OneDay
<1>9. m.day = d
    BY <1>6, <1>7, <1>8
<1>10. p = q
    BY <1>4, <1>6, <1>9
<1> QED
    BY <1>2, <1>3, <1>4, <1>9, <1>10

LEMMA GivenToIs ==
    ASSUME NEW c \in Member, NEW d \in Day, NEW q \in Positions(d)
    PROVE  /\ GivenTo(c, Midnight[d] + q - 1) \in 0 .. Allocated(c, d, q)
           /\ c \notin Point => GivenTo(c, Midnight[d] + q - 1) = 0
<1> DEFINE t == Midnight[d] + q - 1
           A == Allocated(c, d, q)
           all == UNION {ReadingsOf(b) : b \in SentReadings} \cap readings
           given == {r.given : r \in {r \in all : r.point = c /\ r.start = t}}
<1>1. A \in Nat
    <2>1. A \in 0 .. Used[<<c, d>>][q] /\ Used[<<c, d>>][q] \in 0 .. MaxPoint
        BY AllocatedIs, TotalIs
    <2> QED
        BY <2>1, MessagesAssumption
<1>2. \A g \in given : c \in Point /\ g \in Nat /\ g <= A
    BY GivenIs
<1>3. GivenTo(c, t) = IF given = {} THEN 0 ELSE Max(given)
    BY DEF GivenTo
<1> HIDE DEF given, A, t
<1> SUFFICES GivenTo(c, t) \in 0 .. A /\ (c \notin Point => GivenTo(c, t) = 0)
    BY DEF A, t
<1>4. CASE given = {}
    BY <1>1, <1>3, <1>4
<1>5. CASE given # {}
    <2>1. A \in Int /\ given \subseteq Int
        BY <1>1, <1>2
    <2>2. PICK g \in given : \A h \in given : h <= g
        BY <1>2, <1>5, <2>1, LargestBelow
    <2>3. \A h \in given : g >= h
        BY <2>1, <2>2
    <2>4. Max(given) \in given
        BY <2>3 DEF Max
    <2> QED
        BY <1>1, <1>2, <1>3, <1>5, <2>4
<1> QED
    BY <1>4, <1>5

LEMMA MadeIsEnough ==
    ASSUME NEW d \in Day, NEW q \in Positions(d)
    PROVE  2 * SumFunction([c \in Member |-> GivenTo(c, Midnight[d] + q - 1)])
            <= 2 * Made[d][q] + Cardinality(Point)
<1> DEFINE given == [c \in Member |-> GivenTo(c, Midnight[d] + q - 1)]
           used == [i \in Member |-> Used[<<i, d>>][q]]
           total == Total(d, q)
           made == Least(Made[d][q], total)
           mine(i) == Allocated(i, d, q)
<1>1. IsFiniteSet(Member) /\ Point \in SUBSET Member
    BY MessagesAssumption DEF Member
<1>2. Cardinality(Point) \in Nat
    BY <1>1, FS_Subset, FS_CardinalityType
<1>3. total \in Nat /\ Made[d][q] \in Nat /\ \A i \in Member : used[i] \in Nat
    BY TotalIs, MessagesAssumption
<1>4. made \in Nat /\ made <= Made[d][q] /\ (total = 0 => made = 0)
    BY <1>3 DEF Least
<1>5. \A i \in Member : /\ mine(i) \in 0 .. used[i]
                        /\ total # 0 => 2 * (total * mine(i)) <= 2 * (made * used[i]) + total
    BY AllocatedIs
<1>6. \A i \in Member : given[i] \in 0 .. mine(i) /\ (i \notin Point => given[i] = 0)
    BY GivenToIs
<1>7. total = SumFunctionOnSet(used, Member)
    BY DEF Total, SumFunction
<1>8. DOMAIN given = Member
    OBVIOUS
<1>9. total = 0 => \A i \in Member : mine(i) = 0
    BY DEF Allocated
<1> HIDE DEF given, used, total, made, mine
<1>10. \A i \in Member : given[i] \in Nat /\ mine(i) \in Nat /\ given[i] <= mine(i)
    BY <1>3, <1>5, <1>6
<1>11. 2 * SumFunctionOnSet(given, Member) <= 2 * Made[d][q] + Cardinality(Point)
    <2>1. CASE total = 0
        <3>1. \A i \in Member : given[i] = 0
            BY <1>9, <1>10, <2>1
        <3>2. SumFunctionOnSet(given, Member) = 0
            BY <1>1, <3>1, NothingAddsUp
        <3> QED
            BY <1>2, <1>3, <3>2
    <2>2. CASE total # 0
        <3>1. ASSUME NEW i \in Point
              PROVE  2 * (total * given[i]) <= 2 * (made * used[i]) + total
            <4>1. /\ i \in Member /\ given[i] \in Nat /\ mine(i) \in Nat /\ given[i] <= mine(i)
                  /\ used[i] \in Nat
                BY <1>1, <1>3, <1>10
            <4>2. 2 * (total * mine(i)) <= 2 * (made * used[i]) + total
                BY <1>5, <2>2, <4>1
            <4>3. total * given[i] <= total * mine(i)
                BY <1>3, <4>1
            <4>4. total * given[i] \in Nat /\ total * mine(i) \in Nat /\ made * used[i] \in Nat
                BY <1>3, <1>4, <4>1
            <4> QED
                BY <1>3, <4>2, <4>3, <4>4
        <3>2. \A i \in Member \ Point : given[i] = 0
            BY <1>6
        <3>3. \A i \in Member : given[i] \in Nat /\ used[i] \in Nat
            BY <1>3, <1>10
        <3>4. total \in Nat \ {0}
            BY <1>3, <2>2
        <3>5. 2 * SumFunctionOnSet(given, Member) <= 2 * made + Cardinality(Point)
            BY <1>1, <1>4, <1>7, <3>1, <3>2, <3>3, <3>4, SharesAddUp
        <3>6. PICK g : SumsBy(given, Member, g)
            BY <1>1, <3>3, SumUnfolds
        <3>7. SumFunctionOnSet(given, Member) \in Nat
            BY <3>6 DEF SumsBy
        <3> QED
            BY <1>2, <1>3, <1>4, <3>5, <3>7
    <2> QED
        BY <2>1, <2>2
<1>12. SumFunction(given) = SumFunctionOnSet(given, Member)
    BY <1>8 DEF SumFunction
<1> QED
    BY <1>11, <1>12 DEF given

(* Our customers together are never allocated more than the community's     *)
(* message says was made, but for the rounding of half a digit each         *)
(* (simulate.py:245-271, 507-509).                                          *)
THEOREM NothingIsInvented == Spec => []GivenWasMade
<1>1. GivenWasMade
    <2> SUFFICES ASSUME NEW i,
                        i \in UNION {IntervalsOf(b) : b \in {b \in Sent : b.schema = "community"}}
                 PROVE  2 * SumFunction([c \in Member |-> GivenTo(c, i.start)])
                            <= 2 * i.made + Cardinality(Point)
        BY DEF GivenWasMade
    <2>1. PICK b \in Sent : b.schema = "community" /\ i \in IntervalsOf(b)
        OBVIOUS
    <2>2. PICK R \in RunDay : \E m \in Outgoing(R) : b = Batch(m)
        BY DEF Sent
    <2>3. PICK m \in Outgoing(R) : b = Batch(m)
        BY <2>2
    <2>4. m.point = CommunityKey
        <3>1. m.point \notin Point
            BY <2>1, <2>3, ReadingFields
        <3> QED
            BY <3>1, OutgoingIs
    <2>5. PICK q \in Delivered(b) : i.start = b.start + q - 1 /\ i.made = b.first[q]
        BY <2>1 DEF IntervalsOf
    <2>6. /\ m.day \in Day /\ b.start = Midnight[m.day] /\ b.first = Made[m.day]
          /\ DOMAIN b.first = Positions(m.day)
        BY <2>3, <2>4, OutgoingIs, CommunityIs
    <2>7. q \in Positions(m.day)
        BY <2>5, <2>6 DEF Delivered
    <2>8. i.start = Midnight[m.day] + q - 1 /\ i.made = Made[m.day][q]
        BY <2>5, <2>6
    <2> QED
        BY <2>6, <2>7, <2>8, MadeIsEnough
<1> QED
    BY <1>1, PTL
=============================================================================
