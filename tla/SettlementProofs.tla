-------------------------- MODULE SettlementProofs --------------------------
(* Proofs about Settlement: its types, that the winners are true once the  *)
(* look-back of a day has been delivered, and of the incremental tables    *)
(* that what was known stays, that the test cries no wolf, and that a      *)
(* build which passes it is full as long as no run waits too long.         *)
EXTENDS Settlement, TLAPS

(* What the seed decides about a message decides each of its rows. *)
ValueOf(m, q) ==
    IF Estimated(m, q) THEN "estimate" ELSE "true"

LEMMA CarriesIs ==
    ASSUME DrawsAssumption, NEW m \in Message, NEW r \in Carries(m)
    PROVE  /\ r \in Reading
           /\ r = [point |-> m.point, day |-> m.day, quarter |-> r.quarter,
                   version |-> m.version, run |-> m.run, value |-> ValueOf(m, r.quarter)]
           /\ r.quarter \in Quarter \ Lost[<<m.point, m.day>>]
<1>1. PICK q \in Brings(m) :
        r = [point |-> m.point, day |-> m.day, quarter |-> q,
             version |-> m.version, run |-> m.run, value |-> ValueOf(m, q)]
    BY DEF Carries, ValueOf
<1>2. q \in Quarter \ Lost[<<m.point, m.day>>]
    <2>1. m.point \in Point /\ m.day \in Day
        BY DEF Message
    <2>2. Wrong[<<m.point, m.day>>] \subseteq Quarter
        BY <2>1 DEF DrawsAssumption
    <2> QED
        BY <2>2 DEF Brings
<1>3. ValueOf(m, q) \in {"true", "estimate"}
    BY DEF ValueOf
<1> QED
    BY <1>1, <1>2, <1>3 DEF Message, Reading

(* A delivery brings messages. *)
LEMMA DeliveriesAreMessages ==
    ASSUME DrawsAssumption, NEW R \in RunDay, NEW m \in Deliveries(R)
    PROVE  m \in Message /\ m.run = R
<1>1. Covered(R) \subseteq Day
    BY DEF Covered, Day, RunDay, DrawsAssumption, LookBack
<1>2. CASE m \in Firsts(R)
    BY <1>1, <1>2 DEF Firsts, Message
<1>3. CASE m \in Corrections(R)
    BY <1>1, <1>3 DEF Corrections, Message
<1> QED
    BY <1>2, <1>3 DEF Deliveries

(* Rows of the same quarter hour, version and run are the same row. *)
LEMMA WinnersOne ==
    ASSUME DrawsAssumption, raw \subseteq Message, NEW rows \in SUBSET Readings
    PROVE  /\ Winners(rows) \subseteq Reading
           /\ OneRowEach(Winners(rows))
<1>1. \A r \in rows : r \in Reading
    BY CarriesIs DEF Readings
<1>2. ASSUME NEW r \in Winners(rows), NEW s \in Winners(rows), SameQuarter(r, s)
      PROVE  r = s
    <2>1. r \in Reading /\ s \in Reading /\ r \in rows /\ s \in rows
        BY <1>1 DEF Winners
    <2>2. SameQuarter(s, r)
        BY <1>2 DEF SameQuarter
    <2>3. /\ s.version < r.version \/ (s.version = r.version /\ s.run <= r.run)
          /\ r.version < s.version \/ (r.version = s.version /\ r.run <= s.run)
        BY <1>2, <2>1, <2>2 DEF Winners
    <2>4. r.version \in Int /\ s.version \in Int /\ r.run \in Int /\ s.run \in Int
        BY <2>1 DEF Reading, RunDay, DrawsAssumption
    <2>5. r.version = s.version /\ r.run = s.run
        BY <2>3, <2>4
    <2>6. PICK m \in raw : r \in Carries(m)
        BY <2>1 DEF Readings
    <2>7. PICK n \in raw : s \in Carries(n)
        BY <2>1 DEF Readings
    <2>8. /\ r = [point |-> m.point, day |-> m.day, quarter |-> r.quarter,
                  version |-> m.version, run |-> m.run, value |-> ValueOf(m, r.quarter)]
          /\ s = [point |-> n.point, day |-> n.day, quarter |-> s.quarter,
                  version |-> n.version, run |-> n.run, value |-> ValueOf(n, s.quarter)]
        BY <2>6, <2>7, CarriesIs
    <2>9. /\ m.point = n.point /\ m.day = n.day /\ m.version = n.version /\ m.run = n.run
          /\ r.quarter = s.quarter
        BY <1>2, <2>5, <2>8 DEF SameQuarter
    <2>10. ValueOf(m, r.quarter) = ValueOf(n, s.quarter)
        BY <2>9 DEF ValueOf, Estimated
    <2> QED
        BY <2>8, <2>9, <2>10
<1> QED
    BY <1>1, <1>2 DEF OneRowEach, Winners

LEMMA DeleteInsertOne ==
    ASSUME NEW table, NEW rows, OneRowEach(table), OneRowEach(rows)
    PROVE  OneRowEach(DeleteInsert(table, rows))
BY DEF OneRowEach, DeleteInsert, SameQuarter

-----------------------------------------------------------------------------
(* What a step does to the state, type by type. *)
LEMMA InitType == ASSUME DrawsAssumption, Init PROVE TypeOK
<1>1. due \in FirstRun .. LastRun + 1
    BY DEF Init, DrawsAssumption
<1>2. fresh \in BOOLEAN
    BY DEF Init
<1>3. OneRowEach(preliminary) /\ OneRowEach(allocation)
    BY DEF Init, OneRowEach
<1> QED
    BY <1>1, <1>2, <1>3 DEF Init, TypeOK

(* The tables keep one row per quarter hour through a build. *)
LEMMA TablesStep ==
    ASSUME DrawsAssumption, TypeOK, BuildPreliminary \/ BuildAllocation
    PROVE  /\ preliminary' \subseteq Reading /\ OneRowEach(preliminary)'
           /\ allocation' \subseteq Reading /\ OneRowEach(allocation)'
<1> USE DEF TypeOK
<1>1. CASE BuildPreliminary
    <2> DEFINE known == {r \in Readings : /\ KnownByTheNextMorning(r)
                                          /\ RecentOnly(preliminary, PreliminaryWindow, r)}
    <2>1. preliminary' = DeleteInsert(preliminary, Winners(known)) /\ allocation' = allocation
        BY <1>1 DEF BuildPreliminary
    <2>2. Winners(known) \subseteq Reading /\ OneRowEach(Winners(known))
        BY WinnersOne
    <2> HIDE DEF known
    <2>3. OneRowEach(DeleteInsert(preliminary, Winners(known)))
        BY <2>2, DeleteInsertOne
    <2>4. DeleteInsert(preliminary, Winners(known)) \subseteq Reading
        BY <2>2 DEF DeleteInsert
    <2> QED
        BY <2>1, <2>3, <2>4 DEF OneRowEach
<1>2. CASE BuildAllocation
    <2> DEFINE recent == {r \in stg_meter_reading : RecentOnly(allocation, AllocationWindow, r)}
    <2>1. allocation' = DeleteInsert(allocation, recent) /\ preliminary' = preliminary
        BY <1>2 DEF BuildAllocation
    <2>2. recent \subseteq Reading /\ OneRowEach(recent)
        BY WinnersOne DEF stg_meter_reading, OneRowEach
    <2> HIDE DEF recent
    <2>3. OneRowEach(DeleteInsert(allocation, recent))
        BY <2>2, DeleteInsertOne
    <2>4. DeleteInsert(allocation, recent) \subseteq Reading
        BY <2>2 DEF DeleteInsert
    <2> QED
        BY <2>1, <2>3, <2>4 DEF OneRowEach
<1> QED
    BY <1>1, <1>2

LEMMA TypeStep ==
    ASSUME DrawsAssumption, TypeOK, [Next]_vars
    PROVE  TypeOK'
<1> USE DEF TypeOK, delivery, tables, build
<1>0. FirstRun \in Int /\ LastRun \in Int
    BY DEF DrawsAssumption
<1>1. CASE StartRun
    <2>1. due \in RunDay
        BY <1>0, <1>1 DEF StartRun, RunDay
    <2> QED
        BY <1>0, <1>1, <2>1 DEF StartRun, OneRowEach
<1>2. CASE ClearRun
    <2>1. PICK R \in (FirstRun .. due - 1) \ finished : current' = {R}
        BY <1>2 DEF ClearRun
    <2>2. R \in RunDay
        BY <1>0, <2>1 DEF RunDay
    <2> QED
        BY <1>2, <2>1, <2>2 DEF ClearRun, OneRowEach
<1>3. CASE StoreMessage
    <2>1. PICK R \in current : \E m \in Deliveries(R) \ raw : raw' = raw \cup {m}
        BY <1>3 DEF StoreMessage
    <2>2. raw' \subseteq Message
        BY <2>1, DeliveriesAreMessages
    <2> QED
        BY <1>3, <2>1, <2>2 DEF StoreMessage, OneRowEach
<1>4. CASE FinishRun
    BY <1>4 DEF FinishRun, OneRowEach
<1>5. CASE FailRun
    BY <1>5 DEF FailRun, OneRowEach
<1>6. CASE StartBuild
    BY <1>6 DEF StartBuild, OneRowEach
<1>7. CASE BuildPreliminary
    BY <1>7, TablesStep DEF BuildPreliminary
<1>8. CASE BuildAllocation
    BY <1>8, TablesStep DEF BuildAllocation
<1>9. CASE Check
    BY <1>9 DEF Check, OneRowEach
<1>10. CASE CheckFails
    BY <1>10 DEF CheckFails, EndBuild, OneRowEach
<1>11. CASE FinishBuild
    BY <1>11 DEF FinishBuild, EndBuild, OneRowEach
<1>12. CASE AbortBuild
    BY <1>12 DEF AbortBuild, EndBuild, OneRowEach
<1>13. CASE MinutePasses
    BY <1>13 DEF MinutePasses, OneRowEach
<1>14. CASE UNCHANGED vars
    BY <1>14 DEF vars, OneRowEach
<1> QED
    BY <1>1, <1>2, <1>3, <1>4, <1>5, <1>6, <1>7, <1>8, <1>9, <1>10, <1>11, <1>12, <1>13, <1>14
        DEF Next

(* Every variable keeps its type, and the two incremental tables hold one  *)
(* row per point and quarter hour, as their unique indexes demand          *)
(* (int_meter_reading_preliminary.sql:12-17,                               *)
(* fct_community_allocation.sql:20-25).                                    *)
THEOREM SettlementTypeCorrect == Spec => []TypeOK
<1>1. Init => TypeOK
    BY InitType, DrawsAssumption
<1>2. TypeOK /\ [Next]_vars => TypeOK'
    BY TypeStep, DrawsAssumption
<1> QED
    BY <1>1, <1>2, PTL DEF Spec

-----------------------------------------------------------------------------
(* What is in the warehouse came from some run, and a finished run is in   *)
(* the warehouse.                                                          *)
Delivered ==
    /\ raw \subseteq UNION {Deliveries(R) : R \in RunDay}
    /\ \A R \in finished : Deliveries(R) \subseteq raw

LEMMA DeliveredStep ==
    ASSUME TypeOK, Delivered, [Next]_vars
    PROVE  Delivered'
<1> USE DEF TypeOK, Delivered, delivery
<1>1. CASE StoreMessage
    BY <1>1 DEF StoreMessage
<1>2. CASE FinishRun
    BY <1>2 DEF FinishRun
<1>3. CASE UNCHANGED <<raw, finished>>
    BY <1>3
<1>4. [Next]_vars => StoreMessage \/ FinishRun \/ UNCHANGED <<raw, finished>>
    BY DEF Next, vars, StartRun, ClearRun, FailRun, MinutePasses, StartBuild, BuildPreliminary,
           BuildAllocation, Check, CheckFails, FinishBuild, AbortBuild, EndBuild
<1> QED
    BY <1>1, <1>2, <1>3, <1>4

LEMMA RunFromAge ==
    ASSUME NEW R \in Int, NEW d \in Int, NEW delay \in Int, NEW lag \in Int,
           R - 1 - d = delay + lag
    PROVE  R = d + 1 + delay + lag
OBVIOUS

(* A message of a point's day is its first delivery or its correction, and *)
(* no correction comes where none is due.                                  *)
LEMMA VersionsAre ==
    ASSUME Delivered, NEW m \in raw, DrawsAssumption
    PROVE  LET k == <<m.point, m.day>>
           IN  /\ m.version = 1 => m.run = m.day + 1 + Delay[k]
               /\ m.version = 2 => Lag[k] > 0 /\ m.run = m.day + 1 + Delay[k] + Lag[k]
<1>1. PICK R \in RunDay : m \in Deliveries(R)
    BY DEF Delivered
<1>2. R \in Int /\ Covered(R) \subseteq Day
    BY DEF RunDay, Covered, Day, LookBack, DrawsAssumption
<1>3. CASE m \in Firsts(R)
    <2>1. PICK k \in Point \X Covered(R) :
            /\ Age(R, k[2]) = Delay[k]
            /\ m = [point |-> k[1], day |-> k[2], version |-> 1, run |-> R]
        BY <1>3 DEF Firsts
    <2>2. k \in Point \X Day /\ k = <<m.point, m.day>>
        BY <1>2, <2>1
    <2>3. k[2] \in Int
        BY <2>2 DEF Day, LookBack, DrawsAssumption
    <2>4. Delay[k] \in Int
        BY <2>2 DEF DrawsAssumption
    <2>5. m.version = 1 /\ m.run = R /\ m.day = k[2]
        BY <2>1
    <2>6. R = k[2] + 1 + Delay[k]
        BY <1>2, <2>1, <2>3, <2>4 DEF Age
    <2>7. m.run = m.day + 1 + Delay[<<m.point, m.day>>]
        BY <2>2, <2>5, <2>6
    <2> QED
        BY <2>5, <2>7
<1>4. CASE m \in Corrections(R)
    <2>1. PICK k \in Point \X Covered(R) :
            /\ Lag[k] > 0 /\ Age(R, k[2]) = Delay[k] + Lag[k]
            /\ m = [point |-> k[1], day |-> k[2], version |-> 2, run |-> R]
        BY <1>4 DEF Corrections
    <2>2. k \in Point \X Day /\ k = <<m.point, m.day>>
        BY <1>2, <2>1
    <2>3. k[2] \in Int
        BY <2>2 DEF Day, LookBack, DrawsAssumption
    <2>4. Delay[k] \in Int /\ Lag[k] \in Int
        BY <2>2 DEF DrawsAssumption
    <2>5. m.version = 2 /\ m.run = R /\ m.day = k[2]
        BY <2>1
    <2>6. R - 1 - k[2] = Delay[k] + Lag[k] /\ R \in Int
        BY <1>2, <2>1 DEF Age
    <2>7. R = k[2] + 1 + Delay[k] + Lag[k]
        BY <2>3, <2>4, <2>6, RunFromAge, SMTT(60)
    <2>8. Lag[<<m.point, m.day>>] > 0
        BY <2>1, <2>2
    <2>9. m.run = m.day + 1 + Delay[<<m.point, m.day>>] + Lag[<<m.point, m.day>>]
        BY <2>2, <2>5, <2>7
    <2> QED
        BY <2>5, <2>8, <2>9
<1> QED
    BY <1>1, <1>3, <1>4 DEF Deliveries

(* The row a message brings for a quarter hour. *)
RowOf(m, q) ==
    [point |-> m.point, day |-> m.day, quarter |-> q, version |-> m.version, run |-> m.run,
     value |-> ValueOf(m, q)]

LEMMA CarriesRow ==
    ASSUME NEW m, NEW q \in Brings(m)
    PROVE  RowOf(m, q) \in Carries(m)
BY DEF Carries, ValueOf, RowOf

(* A row of version 2 is of a corrected quarter hour. *)
LEMMA CorrectedIsWrong ==
    ASSUME NEW m, m.version = 2, NEW r \in Carries(m)
    PROVE  r.quarter \in Wrong[<<m.point, m.day>>]
BY DEF Carries, Brings

(* Every reading is one of a message the day's draws allow. *)
LEMMA ReadingsAre ==
    ASSUME DrawsAssumption, TypeOK, Delivered, NEW s \in Readings
    PROVE  LET k == <<s.point, s.day>>
           IN  \/ s.version = 1 /\ s.run = s.day + 1 + Delay[k]
               \/ /\ s.version = 2 /\ s.run = s.day + 1 + Delay[k] + Lag[k]
                  /\ Lag[k] > 0 /\ s.quarter \in Wrong[k]
<1>1. PICK m \in raw : s \in Carries(m)
    BY DEF Readings
<1>2. m \in Message
    BY DEF TypeOK
<1>3. /\ s.point = m.point /\ s.day = m.day
      /\ s.version = m.version /\ s.run = m.run
    <2>1. s = [point |-> m.point, day |-> m.day, quarter |-> s.quarter,
               version |-> m.version, run |-> m.run, value |-> ValueOf(m, s.quarter)]
        BY <1>1, <1>2, CarriesIs
    <2> QED
        BY <2>1
<1>4. m.version = 1 \/ m.version = 2
    BY <1>2 DEF Message
<1>5. CASE m.version = 1
    <2>1. m.run = m.day + 1 + Delay[<<m.point, m.day>>]
        BY <1>5, VersionsAre
    <2> QED
        BY <1>3, <1>5, <2>1
<1>6. CASE m.version = 2
    <2>1. s.quarter \in Wrong[<<m.point, m.day>>]
        BY <1>1, <1>6, CorrectedIsWrong
    <2>2. /\ Lag[<<m.point, m.day>>] > 0
          /\ m.run = m.day + 1 + Delay[<<m.point, m.day>>] + Lag[<<m.point, m.day>>]
        BY <1>6, VersionsAre
    <2> QED
        BY <1>3, <1>6, <2>1, <2>2
<1> QED
    BY <1>4, <1>5, <1>6

(* The runs that bring a day's first delivery and its correction are among *)
(* those that must be finished, so both are in the warehouse.              *)
LEMMA BothArrived ==
    ASSUME DrawsAssumption, TypeOK, Delivered,
           NEW c \in Point, NEW d \in Day, (d + 1 .. d + LookBack) \subseteq finished,
           NEW delay, delay = Delay[<<c, d>>], NEW lag, lag = Lag[<<c, d>>]
    PROVE  /\ [point |-> c, day |-> d, version |-> 1, run |-> d + 1 + delay] \in raw
           /\ \A q \in Wrong[<<c, d>>] \ Lost[<<c, d>>] :
                lag > 0 =>
                    [point |-> c, day |-> d, version |-> 2, run |-> d + 1 + delay + lag] \in raw
<1> DEFINE k == <<c, d>>
           R1 == d + 1 + delay
           R2 == d + 1 + delay + lag
<1>1. k \in Point \X Day /\ k[1] = c /\ k[2] = d
    OBVIOUS
<1>2. delay \in 0 .. MaxDelay /\ lag \in 0 .. MaxLag
    BY <1>1 DEF DrawsAssumption
<1>3. d \in Int /\ MaxDelay \in Nat /\ MaxLag \in Nat
    BY DEF Day, LookBack, DrawsAssumption
<1>4. R1 \in d + 1 .. d + LookBack /\ R2 \in d + 1 .. d + LookBack
    BY <1>2, <1>3 DEF LookBack
<1>5. /\ d \in Covered(R1) /\ Age(R1, d) = delay
      /\ d \in Covered(R2) /\ Age(R2, d) = delay + lag
    BY <1>2, <1>3 DEF LookBack, Covered, Age
<1>6. Deliveries(R1) \subseteq raw /\ Deliveries(R2) \subseteq raw
    BY <1>4 DEF Delivered
<1> HIDE DEF R1, R2
<1>7. [point |-> c, day |-> d, version |-> 1, run |-> R1] \in Firsts(R1)
    <2>1. k \in {j \in Point \X Covered(R1) : Age(R1, j[2]) = Delay[j]}
        BY <1>5
    <2> QED
        BY <2>1 DEF Firsts
<1>8. ASSUME NEW q \in Wrong[k] \ Lost[k], lag > 0
      PROVE  [point |-> c, day |-> d, version |-> 2, run |-> R2] \in Corrections(R2)
    <2> DEFINE m == [point |-> c, day |-> d, version |-> 2, run |-> R2]
    <2>1. k \in {j \in Point \X Covered(R2) : Lag[j] > 0 /\ Age(R2, j[2]) = Delay[j] + Lag[j]}
        BY <1>5, <1>8
    <2>2. Brings(m) # {}
        BY <1>8 DEF Brings
    <2> QED
        BY <2>1, <2>2 DEF Corrections
<1> QED
    BY <1>6, <1>7, <1>8 DEF R1, R2, Deliveries

LEMMA TrueWins ==
    ASSUME DrawsAssumption, TypeOK, Delivered
    PROVE  WinnerIsTrue
<1> SUFFICES ASSUME NEW d \in Day, (d + 1 .. d + LookBack) \subseteq finished,
                    NEW c \in Point, NEW q \in Quarter \ Lost[<<c, d>>]
             PROVE  \E r \in stg_meter_reading :
                        r.point = c /\ r.day = d /\ r.quarter = q /\ r.value = "true"
    BY DEF WinnerIsTrue
<1> DEFINE k == <<c, d>>
           delay == Delay[k]
           lag == Lag[k]
           m1 == [point |-> c, day |-> d, version |-> 1, run |-> d + 1 + delay]
           m2 == [point |-> c, day |-> d, version |-> 2, run |-> d + 1 + delay + lag]
<1>1. d \in Int /\ delay \in Int /\ lag \in Int
    BY DEF Day, LookBack, DrawsAssumption
<1>2. m1 \in raw /\ (lag > 0 /\ q \in Wrong[k] => m2 \in raw)
    BY BothArrived
<1>3. CASE lag > 0 /\ q \in Wrong[k]
    <2> DEFINE r == RowOf(m2, q)
    <2>1. r \in Readings
        BY <1>2, <1>3, CarriesRow DEF Readings, Brings
    <2>2. /\ r.point = c /\ r.day = d /\ r.quarter = q /\ r.value = "true"
          /\ r.version = 2 /\ r.run = d + 1 + delay + lag
        BY DEF RowOf, ValueOf, Estimated
    <2>3. ASSUME NEW s \in Readings, SameQuarter(r, s)
          PROVE  s.version < r.version \/ (s.version = r.version /\ s.run <= r.run)
        <3>1. s.point = c /\ s.day = d
            BY <2>2, <2>3 DEF SameQuarter
        <3>2. s.version = 1 \/ (s.version = 2 /\ s.run = d + 1 + delay + lag)
            BY <3>1, ReadingsAre
        <3> QED
            BY <1>1, <2>2, <3>2
    <2>4. r \in stg_meter_reading
        BY <2>1, <2>3 DEF stg_meter_reading, Winners
    <2> QED
        BY <2>2, <2>4
<1>4. CASE ~(lag > 0 /\ q \in Wrong[k])
    <2> DEFINE r == RowOf(m1, q)
    <2>1. r \in Readings
        BY <1>2, CarriesRow DEF Readings, Brings
    <2>2. /\ r.point = c /\ r.day = d /\ r.quarter = q
          /\ r.version = 1 /\ r.run = d + 1 + delay
        BY DEF RowOf
    <2>3. r.value = "true"
        BY <1>4 DEF RowOf, ValueOf, Estimated
    <2>4. ASSUME NEW s \in Readings, SameQuarter(r, s)
          PROVE  s.version < r.version \/ (s.version = r.version /\ s.run <= r.run)
        <3>1. s.point = c /\ s.day = d /\ s.quarter = q
            BY <2>2, <2>4 DEF SameQuarter
        <3>2. s.version = 1 /\ s.run = d + 1 + delay
            BY <1>4, <3>1, ReadingsAre
        <3> QED
            BY <1>1, <2>2, <3>2
    <2>5. r \in stg_meter_reading
        BY <2>1, <2>4 DEF stg_meter_reading, Winners
    <2> QED
        BY <2>2, <2>3, <2>5
<1> QED
    BY <1>3, <1>4

(* Once every run that can have something for a day has been delivered, in *)
(* whatever order they were run and cleared, the winners of the day are    *)
(* the true values of all quarter hours that were not lost                 *)
(* (stg_meter_reading.sql:3-7, simulate.py:109).                           *)
THEOREM TrueValuesWin == Spec => []WinnerIsTrue
<1>1. Init => Delivered
    BY DEF Init, Delivered
<1>2. TypeOK /\ Delivered /\ [Next]_vars => Delivered'
    BY DeliveredStep
<1>3. TypeOK /\ Delivered => WinnerIsTrue
    BY TrueWins, DrawsAssumption
<1> QED
    BY <1>1, <1>2, <1>3, SettlementTypeCorrect, PTL DEF Spec

-----------------------------------------------------------------------------
LEMMA DeliveredAlways == Spec => []Delivered
<1>1. Init => Delivered
    BY DEF Init, Delivered
<1>2. TypeOK /\ Delivered /\ [Next]_vars => Delivered'
    BY DeliveredStep
<1> QED
    BY <1>1, <1>2, SettlementTypeCorrect, PTL DEF Spec

(* A reading comes on the morning after its day at the earliest, and at    *)
(* the end of the look-back at the latest.                                 *)
LEMMA ReadingBounds ==
    ASSUME DrawsAssumption, TypeOK, Delivered, NEW r \in Readings
    PROVE  /\ r \in Reading /\ r.day \in Int /\ r.run \in Int /\ r.version \in {1, 2}
           /\ r.day + 1 <= r.run /\ r.run <= r.day + LookBack
           /\ r.version = 2 => r.day + 1 < r.run
<1>1. r \in Reading
    BY CarriesIs DEF Readings, TypeOK
<1>2. r.day \in Int /\ r.run \in Int /\ r.version \in {1, 2} /\ <<r.point, r.day>> \in Point \X Day
    BY <1>1 DEF Reading, Day, RunDay, LookBack, DrawsAssumption
<1>3. PICK delay \in 0 .. MaxDelay : delay = Delay[<<r.point, r.day>>]
    BY <1>2 DEF DrawsAssumption
<1>4. PICK lag \in 0 .. MaxLag : lag = Lag[<<r.point, r.day>>]
    BY <1>2 DEF DrawsAssumption
<1>5. \/ r.version = 1 /\ r.run = r.day + 1 + delay
      \/ r.version = 2 /\ r.run = r.day + 1 + delay + lag /\ lag > 0
    BY <1>3, <1>4, ReadingsAre
<1>6. MaxDelay \in Nat /\ MaxLag \in Nat
    BY DEF DrawsAssumption
<1> QED
    BY <1>1, <1>2, <1>3, <1>4, <1>5, <1>6 DEF LookBack

(* Readings of one quarter hour and version are one and the same. *)
LEMMA OneReadingPerVersion ==
    ASSUME DrawsAssumption, TypeOK, Delivered,
           NEW r \in Readings, NEW s \in Readings, SameQuarter(r, s), r.version = s.version
    PROVE  r = s
<1>1. r.run = s.run
    <2>1. r.point = s.point /\ r.day = s.day
        BY DEF SameQuarter
    <2>2. r.version \in {1, 2}
        BY ReadingBounds
    <2>3. /\ r.version = 1 => r.run = r.day + 1 + Delay[<<r.point, r.day>>]
          /\ r.version = 2 =>
                r.run = r.day + 1 + Delay[<<r.point, r.day>>] + Lag[<<r.point, r.day>>]
        BY ReadingsAre
    <2>4. /\ s.version = 1 => s.run = s.day + 1 + Delay[<<s.point, s.day>>]
          /\ s.version = 2 =>
                s.run = s.day + 1 + Delay[<<s.point, s.day>>] + Lag[<<s.point, s.day>>]
        BY ReadingsAre
    <2> QED
        BY <2>1, <2>2, <2>3, <2>4
<1>2. {r, s} \in SUBSET Readings
    OBVIOUS
<1>3. r.run \in Int
    BY ReadingBounds
<1>4. r \in Winners({r, s}) /\ s \in Winners({r, s})
    BY <1>1, <1>3 DEF Winners
<1>5. OneRowEach(Winners({r, s}))
    BY <1>2, WinnersOne DEF TypeOK
<1> QED
    BY <1>4, <1>5 DEF OneRowEach

(* Every quarter hour somebody has read has a winner.                      *)
LEMMA WinnerExists ==
    ASSUME DrawsAssumption, TypeOK, Delivered, NEW r \in Readings
    PROVE  \E w \in stg_meter_reading : SameQuarter(r, w)
<1>1. \A s \in Readings : s.version \in {1, 2} /\ s.run \in Int
    BY ReadingBounds
<1>2. CASE \E s \in Readings : SameQuarter(r, s) /\ s.version = 2
    <2>1. PICK s \in Readings : SameQuarter(r, s) /\ s.version = 2
        BY <1>2
    <2>2. ASSUME NEW q \in Readings, SameQuarter(s, q)
          PROVE  q.version < s.version \/ (q.version = s.version /\ q.run <= s.run)
        BY <1>1, <2>1, <2>2, OneReadingPerVersion
    <2> QED
        BY <2>1, <2>2 DEF stg_meter_reading, Winners
<1>3. CASE ~ \E s \in Readings : SameQuarter(r, s) /\ s.version = 2
    <2>1. SameQuarter(r, r)
        BY DEF SameQuarter
    <2>2. ASSUME NEW q \in Readings, SameQuarter(r, q)
          PROVE  q.version < r.version \/ (q.version = r.version /\ q.run <= r.run)
        <3>1. q.version = 1 /\ r.version = 1
            BY <1>1, <1>3, <2>1, <2>2
        <3>2. q = r
            BY <2>2, <3>1, OneReadingPerVersion
        <3> QED
            BY <1>1, <3>2
    <2> QED
        BY <2>1, <2>2 DEF stg_meter_reading, Winners
<1> QED
    BY <1>2, <1>3

-----------------------------------------------------------------------------
(* What the next morning knew of a quarter hour is one reading: the first  *)
(* delivery of a point that was not late.                                  *)
KnownReadings == {r \in Readings : KnownByTheNextMorning(r)}

LEMMA KnownOnce ==
    ASSUME DrawsAssumption, TypeOK, Delivered
    PROVE  /\ \A r \in KnownReadings : r.version = 1 /\ r.run = r.day + 1
           /\ \A r, s \in KnownReadings : SameQuarter(r, s) => r = s
           /\ \A rows \in SUBSET KnownReadings : Winners(rows) = rows
<1>1. ASSUME NEW r \in KnownReadings
      PROVE  r \in Readings /\ r.version = 1 /\ r.run = r.day + 1 /\ r.run \in Int
    <2>1. r \in Readings /\ r.run <= r.day + 1
        BY DEF KnownReadings, KnownByTheNextMorning
    <2>2. /\ r.day \in Int /\ r.run \in Int /\ r.version \in {1, 2} /\ r.day + 1 <= r.run
          /\ r.version = 2 => r.day + 1 < r.run
        BY <2>1, ReadingBounds
    <2> QED
        BY <2>1, <2>2
<1>2. \A r, s \in KnownReadings : SameQuarter(r, s) => r = s
    BY <1>1, OneReadingPerVersion
<1>3. ASSUME NEW rows \in SUBSET KnownReadings
      PROVE  Winners(rows) = rows
    BY <1>1, <1>2 DEF Winners
<1> QED
    BY <1>1, <1>2, <1>3

(* Readings are never taken back, so neither is what was known. *)
LEMMA ReadingsGrow ==
    ASSUME [Next]_vars
    PROVE  /\ raw \subseteq raw' /\ Readings \subseteq Readings'
           /\ KnownReadings \subseteq KnownReadings'
<1>1. raw \subseteq raw'
    BY DEF Next, vars, StartRun, ClearRun, StoreMessage, MinutePasses, FinishRun, FailRun,
           StartBuild, BuildPreliminary, BuildAllocation, Check, CheckFails, FinishBuild, AbortBuild, EndBuild
<1>2. Readings \subseteq Readings'
    BY <1>1 DEF Readings
<1> QED
    BY <1>1, <1>2 DEF KnownReadings, KnownByTheNextMorning

(* The table of what was known holds nothing else. *)
PreliminaryKnown == preliminary \subseteq KnownReadings

(* A build of it adds what is recent and replaces nothing. *)
LEMMA PreliminaryBuilt ==
    ASSUME DrawsAssumption, TypeOK, Delivered, PreliminaryKnown, BuildPreliminary
    PROVE  preliminary' = preliminary \cup
                {r \in KnownReadings : RecentOnly(preliminary, PreliminaryWindow, r)}
<1> DEFINE recent == {r \in KnownReadings : RecentOnly(preliminary, PreliminaryWindow, r)}
<1>1. recent = {r \in Readings : /\ KnownByTheNextMorning(r)
                                 /\ RecentOnly(preliminary, PreliminaryWindow, r)}
    BY DEF KnownReadings
<1>2. preliminary' = DeleteInsert(preliminary, Winners(recent))
    BY <1>1 DEF BuildPreliminary
<1>3. recent \subseteq KnownReadings
    OBVIOUS
<1> HIDE DEF recent
<1>4. Winners(recent) = recent
    BY <1>3, KnownOnce
<1>5. \A t \in preliminary, r \in recent : SameQuarter(r, t) => r = t
    BY <1>3, KnownOnce DEF PreliminaryKnown
<1> QED
    BY <1>2, <1>4, <1>5 DEF DeleteInsert, recent

LEMMA PreliminaryElsewhere ==
    ASSUME [Next]_vars, ~BuildPreliminary
    PROVE  preliminary' = preliminary
BY DEF Next, vars, StartRun, ClearRun, StoreMessage, MinutePasses, FinishRun, FailRun,
       StartBuild, tables, BuildAllocation, Check, CheckFails, FinishBuild, AbortBuild, EndBuild

LEMMA PreliminaryStep ==
    ASSUME DrawsAssumption, TypeOK, Delivered, PreliminaryKnown, [Next]_vars
    PROVE  PreliminaryKnown' /\ preliminary \subseteq preliminary'
<1>1. CASE BuildPreliminary
    BY <1>1, PreliminaryBuilt, ReadingsGrow DEF PreliminaryKnown
<1>2. CASE ~BuildPreliminary
    BY <1>2, PreliminaryElsewhere, ReadingsGrow DEF PreliminaryKnown
<1> QED
    BY <1>1, <1>2

LEMMA PreliminaryIsKnown == Spec => []PreliminaryKnown
<1>1. Init => PreliminaryKnown
    BY DEF Init, PreliminaryKnown
<1>2. TypeOK /\ Delivered /\ PreliminaryKnown /\ [Next]_vars => PreliminaryKnown'
    BY PreliminaryStep, DrawsAssumption
<1> QED
    BY <1>1, <1>2, SettlementTypeCorrect, DeliveredAlways, PTL DEF Spec

(* What was known on the next morning is fixed once it is in the table,    *)
(* for any window, any delays and any order in which runs fail and are     *)
(* cleared: no correction and no late delivery changes a row or takes one  *)
(* away (int_meter_reading_preliminary.sql:7-8).                           *)
THEOREM KnownIsFixed == Spec => PreliminaryFixed
<1>1. TypeOK /\ Delivered /\ PreliminaryKnown /\ [Next]_vars
        => [preliminary \subseteq preliminary']_vars
    BY PreliminaryStep, DrawsAssumption
<1> QED
    BY <1>1, SettlementTypeCorrect, DeliveredAlways, PreliminaryIsKnown, PTL
        DEF Spec, PreliminaryFixed

-----------------------------------------------------------------------------
(* The strengthening that makes NoFalseAlarm inductive: the allocation     *)
(* holds readings only, and what a build has not carried into it although  *)
(* it stood in the warehouse lies behind the window of a row that is in    *)
(* it.                                                                     *)
LeftBehind(r) == \E t \in allocation : r.day < t.day - AllocationWindow

NothingMissed ==
    \A r \in stg_meter_reading \ allocation : LookedAt(r) => LeftBehind(r)

AlarmInv ==
    /\ allocation \subseteq Readings
    /\ "allocation" \in built => NothingMissed
    /\ verdict = "failed" =>
        built = {} /\ \E r \in stg_meter_reading \ allocation : LookedAt(r) /\ LeftBehind(r)

(* A winner that stood in the warehouse was the winner before, too. *)
LEMMA WinnerBefore ==
    ASSUME DrawsAssumption, TypeOK, TypeOK', [Next]_vars,
           NEW r \in stg_meter_reading', LookedAt(r)
    PROVE  r \in stg_meter_reading
<1>1. r \in Readings'
    BY DEF stg_meter_reading, Winners, SameQuarter
<1>2. PICK m \in raw' : r \in Carries(m)
    BY <1>1 DEF Readings, Carries, Estimated, Brings
<1>3. m \in Message
    BY DEF TypeOK
<1>4. r = [point |-> m.point, day |-> m.day, quarter |-> r.quarter,
           version |-> m.version, run |-> m.run, value |-> ValueOf(m, r.quarter)]
    BY <1>2, <1>3, CarriesIs
<1>5. m = [point |-> r.point, day |-> r.day, version |-> r.version, run |-> r.run]
    BY <1>3, <1>4 DEF Message
<1>6. m \in raw
    BY <1>5 DEF LookedAt, TypeOK
<1>7. r \in Readings
    BY <1>2, <1>6 DEF Readings
<1>8. Readings \subseteq Readings'
    BY ReadingsGrow
<1> QED
    BY <1>7, <1>8 DEF stg_meter_reading, Winners, SameQuarter

(* A build of the allocation carries over all that is not behind it. *)
LEMMA AllocationBuilt ==
    ASSUME DrawsAssumption, SettlementAssumption, TypeOK, Delivered, BuildAllocation,
           allocation \subseteq Readings
    PROVE  /\ allocation' \subseteq Readings
           /\ \A r \in stg_meter_reading \ allocation' :
                \E t \in allocation' : r.day < t.day - AllocationWindow
<1> DEFINE recent == {r \in stg_meter_reading : RecentOnly(allocation, AllocationWindow, r)}
<1>1. allocation' = DeleteInsert(allocation, recent)
    BY DEF BuildAllocation
<1>2. recent \subseteq Readings /\ stg_meter_reading \subseteq Readings
    BY DEF stg_meter_reading, Winners
<1>3. allocation' \subseteq Readings
    BY <1>1, <1>2 DEF DeleteInsert
<1>4. ASSUME NEW r \in stg_meter_reading, r \notin allocation'
      PROVE  \E t \in allocation' : r.day < t.day - AllocationWindow
    <2>1. r \notin recent
        BY <1>1, <1>4 DEF DeleteInsert
    <2>2. PICK t \in allocation : ~(r.day >= t.day - AllocationWindow)
        BY <2>1 DEF RecentOnly
    <2>3. r.day \in Int /\ t.day \in Int /\ AllocationWindow \in Nat
        BY <1>2, ReadingBounds DEF SettlementAssumption
    <2>4. \E u \in allocation' : u.day = t.day
        <3> HIDE DEF recent
        <3> QED
            BY <1>1 DEF DeleteInsert, SameQuarter
    <2> QED
        BY <2>2, <2>3, <2>4
<1> QED
    BY <1>3, <1>4

LEMMA AlarmStep ==
    ASSUME DrawsAssumption, SettlementAssumption, TypeOK, TypeOK', Delivered, AlarmInv,
           [Next]_vars
    PROVE  AlarmInv'
<1> USE DEF delivery, tables, build
<1>1. Readings \subseteq Readings'
    BY ReadingsGrow
<1>2. ASSUME UNCHANGED <<raw, allocation, built, old, verdict>>
      PROVE  AlarmInv'
    BY <1>2 DEF AlarmInv, NothingMissed, LeftBehind, LookedAt, stg_meter_reading, Readings,
        Winners, SameQuarter, Carries, Estimated, Brings
<1>3. CASE StartRun \/ ClearRun \/ FinishRun \/ FailRun \/ MinutePasses \/ UNCHANGED vars
    BY <1>2, <1>3 DEF StartRun, ClearRun, FinishRun, FailRun, MinutePasses, vars
<1>4. CASE StoreMessage
    <2>1. /\ UNCHANGED <<allocation, built>> /\ verdict' = "none"
          /\ built # {} => UNCHANGED old
        BY <1>4 DEF StoreMessage
    <2>2. ASSUME NothingMissed, built # {} PROVE NothingMissed'
        <3> SUFFICES ASSUME NEW r \in stg_meter_reading', r \notin allocation, LookedAt(r)
                     PROVE  LeftBehind(r)
            BY <2>1, <2>2 DEF NothingMissed, LookedAt, LeftBehind
        <3>1. r \in stg_meter_reading
            BY WinnerBefore
        <3> QED
            BY <2>2, <3>1 DEF NothingMissed
    <2> QED
        BY <1>1, <2>1, <2>2 DEF AlarmInv
<1>5. ASSUME UNCHANGED raw
      PROVE  stg_meter_reading' = stg_meter_reading /\ Readings' = Readings
    BY <1>5 DEF stg_meter_reading, Readings, Winners, SameQuarter, Carries, Estimated, Brings
<1>6. CASE StartBuild
    BY <1>5, <1>6 DEF StartBuild, AlarmInv
<1>7. CASE BuildPreliminary
    <2>1. UNCHANGED <<raw, allocation, old, verdict>> /\ built # {}
          /\ built' = built \cup {"preliminary"}
        BY <1>7 DEF BuildPreliminary
    <2>2. NothingMissed <=> NothingMissed'
        BY <1>5, <2>1 DEF NothingMissed, LookedAt, LeftBehind
    <2> QED
        BY <1>5, <2>1, <2>2 DEF AlarmInv
<1>8. CASE BuildAllocation
    <2>1. UNCHANGED <<raw, old, verdict>> /\ built # {}
        BY <1>8 DEF BuildAllocation
    <2>2. /\ allocation' \subseteq Readings
          /\ \A r \in stg_meter_reading \ allocation' :
                \E t \in allocation' : r.day < t.day - AllocationWindow
        BY <1>8, AllocationBuilt DEF AlarmInv
    <2>3. NothingMissed'
        BY <1>5, <2>1, <2>2 DEF NothingMissed, LeftBehind
    <2> QED
        BY <1>5, <2>1, <2>2, <2>3 DEF AlarmInv
<1>9. CASE Check
    <2>1. UNCHANGED <<raw, allocation, old, verdict>> /\ built # {} /\ "allocation" \in built
        BY <1>9 DEF Check
    <2>2. NothingMissed => NothingMissed'
        BY <1>5, <2>1 DEF NothingMissed, LookedAt, LeftBehind
    <2> QED
        BY <1>5, <2>1, <2>2 DEF AlarmInv
<1>10. CASE CheckFails
    <2>1. UNCHANGED <<raw, allocation, old>> /\ built' = {} /\ verdict' = "failed"
        BY <1>10 DEF CheckFails, EndBuild
    <2>2. \E r \in stg_meter_reading \ allocation : LookedAt(r) /\ LeftBehind(r)
        BY <1>10 DEF CheckFails, IsCurrent, AlarmInv, NothingMissed
    <2> QED
        BY <1>5, <2>1, <2>2 DEF AlarmInv, LeftBehind, LookedAt
<1>11. CASE FinishBuild \/ AbortBuild
    <2>1. UNCHANGED <<raw, allocation>> /\ built' = {} /\ verdict' # "failed"
        BY <1>11 DEF FinishBuild, AbortBuild, EndBuild
    <2> QED
        BY <1>5, <2>1 DEF AlarmInv
<1> QED
    BY <1>3, <1>4, <1>6, <1>7, <1>8, <1>9, <1>10, <1>11 DEF Next

LEMMA AlarmAlways == Spec => []AlarmInv
<1>1. Init => AlarmInv
    BY DEF Init, AlarmInv
<1>2. TypeOK /\ TypeOK' /\ Delivered /\ AlarmInv /\ [Next]_vars => AlarmInv'
    BY AlarmStep, DrawsAssumption, SettlementAssumption
<1> QED
    BY <1>1, <1>2, SettlementTypeCorrect, DeliveredAlways, PTL DEF Spec

(* Behind the window means overtaken: the two readings' days are bound to  *)
(* their runs by the look-back.                                            *)
LEMMA BehindIsOvertaken ==
    ASSUME DrawsAssumption, SettlementAssumption, TypeOK, Delivered,
           NEW r \in Readings, NEW t \in Readings, r.day < t.day - AllocationWindow
    PROVE  OvertakenBy(r, t)
<1>1. /\ r.day \in Int /\ r.run \in Int /\ r.run <= r.day + LookBack
      /\ t.day \in Int /\ t.run \in Int /\ t.day + 1 <= t.run
    BY ReadingBounds
<1>2. AllocationWindow \in Int /\ LookBack \in Int
    BY DEF DrawsAssumption, SettlementAssumption, LookBack
<1> QED
    BY <1>1, <1>2 DEF OvertakenBy

LEMMA LeftBehindIsOvertaken ==
    ASSUME DrawsAssumption, SettlementAssumption, TypeOK, Delivered, AlarmInv,
           NEW r \in stg_meter_reading, LeftBehind(r)
    PROVE  \E t \in allocation : OvertakenBy(r, t)
<1>1. PICK t \in allocation : r.day < t.day - AllocationWindow
    BY DEF LeftBehind
<1>2. r \in Readings /\ t \in Readings
    BY DEF AlarmInv, stg_meter_reading, Winners
<1> QED
    BY <1>1, <1>2, BehindIsOvertaken

(* allocation_is_current stops a build for one reason only, for any window *)
(* and look-back, and although deliveries land while the build runs: a     *)
(* reading that was there a minute before it lies behind the window, and   *)
(* that because its run was overtaken by more of the later ones than       *)
(* window and look-back allow for                                          *)
(* (allocation_is_current.sql:8-13, 22, fct_community_allocation.sql:14-17).*)
THEOREM AlarmIsTrue == Spec => []NoFalseAlarm
<1>1. TypeOK /\ Delivered /\ AlarmInv => NoFalseAlarm
    BY LeftBehindIsOvertaken, DrawsAssumption, SettlementAssumption DEF NoFalseAlarm, AlarmInv
<1> QED
    BY <1>1, AlarmAlways, SettlementTypeCorrect, DeliveredAlways, PTL

-----------------------------------------------------------------------------
(* How far a run can be overtaken: what is stored comes from runs that     *)
(* have started, and a run that is not finished is never more than         *)
(* Patience days behind the newest one.                                    *)
Overtaken ==
    /\ \A m \in raw : m.run < due
    /\ \A R \in current \cup finished : R < due
    /\ current \cap finished = {}
    /\ \A R \in RunDay : R < due /\ R \notin finished => due - 1 - R <= Patience

LEMMA OvertakenStep ==
    ASSUME DrawsAssumption, SettlementAssumption, TypeOK, Overtaken, [Next]_vars
    PROVE  Overtaken'
<1> USE DEF delivery
<1>1. /\ FirstRun \in Int /\ LastRun \in Int /\ Patience \in Nat /\ due \in Int
      /\ RunDay \subseteq Int /\ \A R \in RunDay : FirstRun <= R
      /\ \A m \in raw : m.run \in Int
    BY DEF TypeOK, RunDay, Message, DrawsAssumption, SettlementAssumption
<1>2. CASE StartRun
    <2>1. /\ due' = due + 1 /\ current' = {due} /\ UNCHANGED <<raw, finished>>
          /\ \A R \in FirstRun .. due - 1 : R \notin finished => due - R <= Patience
        BY <1>2 DEF StartRun
    <2>2. due \notin finished
        BY <1>1 DEF Overtaken
    <2>3. \A R \in current' \cup finished' : R < due'
        BY <1>1, <2>1 DEF Overtaken, TypeOK
    <2>4. ASSUME NEW R \in RunDay, R < due', R \notin finished
          PROVE  due' - 1 - R <= Patience
        <3>1. CASE R = due
            BY <1>1, <2>1, <3>1
        <3>2. CASE R # due
            BY <1>1, <2>1, <2>4, <3>2
        <3> QED
            BY <3>1, <3>2
    <2>5. \A m \in raw' : m.run < due'
        BY <1>1, <2>1 DEF Overtaken
    <2> QED
        BY <2>1, <2>2, <2>3, <2>4, <2>5 DEF Overtaken
<1>3. CASE ClearRun
    BY <1>1, <1>3 DEF ClearRun, Overtaken
<1>4. CASE StoreMessage
    BY <1>4, DeliveriesAreMessages DEF StoreMessage, Overtaken, TypeOK
<1>5. CASE FinishRun
    BY <1>5 DEF FinishRun, Overtaken
<1>6. CASE FailRun
    BY <1>6 DEF FailRun, Overtaken
<1>7. CASE UNCHANGED <<raw, due, current, finished>>
    BY <1>7 DEF Overtaken
<1>8. \/ StartRun \/ ClearRun \/ StoreMessage \/ FinishRun \/ FailRun
      \/ UNCHANGED <<raw, due, current, finished>>
    BY DEF Next, vars, MinutePasses, StartBuild, BuildPreliminary, BuildAllocation, Check,
           CheckFails, FinishBuild, AbortBuild, EndBuild
<1> QED
    BY <1>2, <1>3, <1>4, <1>5, <1>6, <1>7, <1>8

(* So the run of every reading has started. *)
LEMMA RunsBeforeDue ==
    ASSUME DrawsAssumption, TypeOK, Overtaken, NEW t \in Readings
    PROVE  t.run < due
<1>1. PICK n \in raw : t \in Carries(n)
    BY DEF Readings
<1>2. n \in Message
    BY <1>1 DEF TypeOK
<1>3. t = [point |-> n.point, day |-> n.day, quarter |-> t.quarter,
           version |-> n.version, run |-> n.run, value |-> ValueOf(n, t.quarter)]
    BY <1>1, <1>2, CarriesIs
<1>4. t.run = n.run
    BY <1>3
<1> QED
    BY <1>1, <1>4 DEF Overtaken

(* The strengthening that makes BuiltIsFull inductive. What the window of  *)
(* the preliminary table has passed is already in it; and a build during   *)
(* which nothing is stored has, in each table it has built, all it should  *)
(* hold.                                                                   *)
PassedIsIn ==
    \A r \in KnownReadings, t \in preliminary :
        r.day < t.day - PreliminaryWindow => r \in preliminary

AllLeftBehind == \A r \in stg_meter_reading \ allocation : LeftBehind(r)

BuildInv ==
    /\ fresh /\ "preliminary" \in built => preliminary = KnownReadings
    /\ fresh /\ "allocation" \in built => AllLeftBehind
    /\ fresh /\ "checked" \in built => "allocation" \in built /\ IsCurrent
    /\ verdict = "passed" =>
        built = {} /\ preliminary = KnownReadings /\ AllLeftBehind /\ IsCurrent

(* A reading that arrives is not behind the window: its run would have     *)
(* been overtaken by more days than a failed run is given.                 *)
LEMMA ArrivesInTime ==
    ASSUME DrawsAssumption, SettlementAssumption, Patience <= PreliminaryWindow,
           TypeOK, TypeOK', Delivered, Delivered', Overtaken, PreliminaryKnown, PassedIsIn,
           StoreMessage
    PROVE  PassedIsIn'
<1> USE DEF delivery, tables
<1>1. PICK R \in current : \E m \in Deliveries(R) \ raw : raw' = raw \cup {m}
    BY DEF StoreMessage
<1>2. PICK m \in Deliveries(R) \ raw : raw' = raw \cup {m}
    BY <1>1
<1>3. R \in RunDay /\ m.run = R /\ m \in Message
    BY DeliveriesAreMessages DEF TypeOK
<1>4. R \in Int /\ due \in Int /\ due - 1 - R <= Patience
    BY <1>3 DEF Overtaken, TypeOK, RunDay, DrawsAssumption
<1>5. /\ UNCHANGED preliminary /\ Patience \in Int /\ PreliminaryWindow \in Int
    BY DEF StoreMessage, SettlementAssumption
<1> SUFFICES ASSUME NEW r \in KnownReadings', NEW t \in preliminary,
                    r.day < t.day - PreliminaryWindow
             PROVE  r \in preliminary
    BY <1>5 DEF PassedIsIn
<1>6. t \in KnownReadings /\ t \in Readings /\ t.run = t.day + 1 /\ t.day \in Int
    <2>1. t \in KnownReadings /\ t \in Readings
        BY DEF PreliminaryKnown, KnownReadings
    <2> QED
        BY <2>1, KnownOnce, ReadingBounds
<1>7. t.run < due
    BY <1>6, RunsBeforeDue
<1>8. CASE r \in KnownReadings
    BY <1>8 DEF PassedIsIn
<1>9. CASE r \notin KnownReadings
    <2>1. r \in Readings' /\ r \notin Readings /\ KnownByTheNextMorning(r)
        BY <1>9 DEF KnownReadings, KnownByTheNextMorning
    <2>2. PICK n \in raw' : r \in Carries(n)
        BY <2>1 DEF Readings, Carries, Estimated, Brings
    <2>3. n = m
        BY <1>2, <2>1, <2>2 DEF Readings
    <2>4. r = [point |-> m.point, day |-> m.day, quarter |-> r.quarter,
               version |-> m.version, run |-> m.run, value |-> ValueOf(m, r.quarter)]
          /\ r \in Reading
        BY <1>3, <2>2, <2>3, CarriesIs
    <2>5. r.run = R
        BY <1>3, <2>4
    <2>6. r.day \in Int /\ r.run <= r.day + 1
        BY <2>1, <2>4 DEF Reading, Day, LookBack, DrawsAssumption, KnownByTheNextMorning
    <2>7. FALSE
        BY <1>4, <1>5, <1>6, <1>7, <2>5, <2>6
    <2> QED
        BY <2>7
<1> QED
    BY <1>8, <1>9

(* After a build of it, the preliminary table holds all that was known. *)
LEMMA PreliminaryFull ==
    ASSUME DrawsAssumption, SettlementAssumption, TypeOK, Delivered, PreliminaryKnown,
           PassedIsIn, BuildPreliminary
    PROVE  preliminary' = KnownReadings
<1>1. preliminary' = preliminary \cup
            {r \in KnownReadings : RecentOnly(preliminary, PreliminaryWindow, r)}
    BY PreliminaryBuilt
<1>2. preliminary \subseteq KnownReadings
    BY DEF PreliminaryKnown
<1>3. ASSUME NEW r \in KnownReadings, ~RecentOnly(preliminary, PreliminaryWindow, r)
      PROVE  r \in preliminary
    <2>1. PICK t \in preliminary : ~(r.day >= t.day - PreliminaryWindow)
        BY <1>3 DEF RecentOnly
    <2>2. r \in Readings /\ t \in Readings
        BY <1>2 DEF KnownReadings
    <2>3. r.day \in Int /\ t.day \in Int /\ PreliminaryWindow \in Int
        BY <2>2, ReadingBounds DEF SettlementAssumption
    <2> QED
        BY <2>1, <2>3 DEF PassedIsIn
<1> QED
    BY <1>1, <1>2, <1>3

(* What the allocation holds and staging does not, a reading it lacks would *)
(* replace.                                                                 *)
LEMMA OnlyPredecessors ==
    ASSUME DrawsAssumption, TypeOK, Delivered, allocation \subseteq Readings,
           NEW t \in allocation \ stg_meter_reading
    PROVE  \E r \in stg_meter_reading \ allocation : SameQuarter(r, t)
<1>1. PICK w \in stg_meter_reading : SameQuarter(t, w)
    BY WinnerExists
<1>2. w \notin allocation
    BY <1>1 DEF TypeOK, OneRowEach
<1> QED
    BY <1>1, <1>2 DEF SameQuarter

FullInv == Overtaken /\ PassedIsIn /\ BuildInv

LEMMA FullStep ==
    ASSUME DrawsAssumption, SettlementAssumption, Patience <= PreliminaryWindow,
           TypeOK, TypeOK', Delivered, Delivered', PreliminaryKnown, AlarmInv, FullInv,
           [Next]_vars
    PROVE  FullInv'
<1> USE DEF delivery, tables, build
<1>1. Overtaken'
    BY OvertakenStep DEF FullInv
<1>2. ASSUME UNCHANGED raw
      PROVE  /\ stg_meter_reading' = stg_meter_reading
             /\ KnownReadings' = KnownReadings
    BY <1>2 DEF stg_meter_reading, Readings, Winners, SameQuarter, Carries, Estimated, Brings,
        KnownReadings, KnownByTheNextMorning
<1>3. ASSUME UNCHANGED <<raw, preliminary>>
      PROVE  PassedIsIn'
    BY <1>2, <1>3 DEF PassedIsIn, FullInv
<1>4. ASSUME UNCHANGED <<raw, allocation>>
      PROVE  AllLeftBehind => AllLeftBehind'
    BY <1>2, <1>4 DEF AllLeftBehind, LeftBehind
<1>5. ASSUME UNCHANGED <<raw, allocation, old>>
      PROVE  IsCurrent => IsCurrent'
    BY <1>2, <1>5 DEF IsCurrent, LookedAt
<1>6. CASE StartRun \/ ClearRun \/ FinishRun \/ FailRun \/ MinutePasses \/ UNCHANGED vars
    <2>1. UNCHANGED <<raw, preliminary, allocation, built, old, fresh, verdict>>
        BY <1>6 DEF StartRun, ClearRun, FinishRun, FailRun, MinutePasses, vars
    <2>2. BuildInv'
        BY <1>2, <1>4, <1>5, <2>1 DEF BuildInv, FullInv
    <2> QED
        BY <1>1, <1>3, <2>1, <2>2 DEF FullInv
<1>7. CASE StoreMessage
    <2>1. fresh' = FALSE /\ verdict' = "none"
        BY <1>7 DEF StoreMessage
    <2>2. PassedIsIn'
        BY <1>7, ArrivesInTime DEF FullInv
    <2> QED
        BY <1>1, <2>1, <2>2 DEF FullInv, BuildInv
<1>8. CASE StartBuild
    <2>1. UNCHANGED <<raw, preliminary>> /\ built' = {"begun"} /\ verdict' = "none"
        BY <1>8 DEF StartBuild
    <2> QED
        BY <1>1, <1>3, <2>1 DEF FullInv, BuildInv
<1>9. CASE BuildPreliminary
    <2>1. /\ UNCHANGED <<raw, allocation, old, fresh, verdict>> /\ built # {}
          /\ built' = built \cup {"preliminary"}
        BY <1>9 DEF BuildPreliminary
    <2>2. preliminary' = KnownReadings
        BY <1>9, PreliminaryFull DEF FullInv
    <2>3. PassedIsIn'
        BY <1>2, <2>1, <2>2 DEF PassedIsIn
    <2>4. BuildInv'
        BY <1>2, <1>4, <1>5, <2>1, <2>2 DEF BuildInv, FullInv
    <2> QED
        BY <1>1, <2>3, <2>4 DEF FullInv
<1>10. CASE BuildAllocation
    <2>1. /\ UNCHANGED <<raw, preliminary, old, fresh, verdict>> /\ built # {}
          /\ "allocation" \notin built /\ built' = built \cup {"allocation"}
        BY <1>10 DEF BuildAllocation
    <2>2. AllLeftBehind'
        BY <1>2, <1>10, <2>1, AllocationBuilt DEF AllLeftBehind, LeftBehind, AlarmInv
    <2>3. ~(fresh /\ "checked" \in built) /\ verdict # "passed"
        BY <2>1 DEF BuildInv, FullInv
    <2>4. BuildInv'
        BY <1>2, <2>1, <2>2, <2>3 DEF BuildInv, FullInv
    <2> QED
        BY <1>1, <1>3, <2>1, <2>4 DEF FullInv
<1>11. CASE Check
    <2>1. /\ UNCHANGED <<raw, preliminary, allocation, old, fresh, verdict>> /\ built # {}
          /\ "allocation" \in built /\ "checked" \notin built /\ IsCurrent
          /\ built' = built \cup {"checked"}
        BY <1>11 DEF Check
    <2>2. BuildInv'
        BY <1>2, <1>4, <1>5, <2>1 DEF BuildInv, FullInv
    <2> QED
        BY <1>1, <1>3, <2>1, <2>2 DEF FullInv
<1>12. CASE CheckFails \/ AbortBuild
    <2>1. /\ UNCHANGED <<raw, preliminary>> /\ built' = {} /\ verdict' # "passed"
        BY <1>12 DEF CheckFails, AbortBuild, EndBuild
    <2> QED
        BY <1>1, <1>3, <2>1 DEF FullInv, BuildInv
<1>13. CASE FinishBuild
    <2>1. /\ UNCHANGED <<raw, preliminary, allocation>> /\ built' = {}
          /\ verdict' = "passed" => fresh /\ UNCHANGED old
          /\ "preliminary" \in built /\ "checked" \in built
        BY <1>13 DEF FinishBuild, EndBuild
    <2>2. BuildInv'
        BY <1>2, <1>4, <1>5, <2>1 DEF BuildInv, FullInv
    <2> QED
        BY <1>1, <1>3, <2>1, <2>2 DEF FullInv
<1> QED
    BY <1>6, <1>7, <1>8, <1>9, <1>10, <1>11, <1>12, <1>13 DEF Next

LEMMA FullAlways ==
    ASSUME Patience <= PreliminaryWindow
    PROVE  Spec => []FullInv
<1>1. Init => FullInv
    <2> SUFFICES ASSUME Init PROVE FullInv
        OBVIOUS
    <2>1. Overtaken
        <3>1. \A R \in RunDay : FirstRun <= R /\ R \in Int
            BY DrawsAssumption DEF RunDay, DrawsAssumption
        <3> QED
            BY <3>1, DrawsAssumption DEF Init, Overtaken, DrawsAssumption
    <2>2. PassedIsIn /\ BuildInv
        BY DEF Init, PassedIsIn, BuildInv
    <2> QED
        BY <2>1, <2>2 DEF FullInv
<1>2. ASSUME TypeOK, TypeOK', Delivered, Delivered', PreliminaryKnown, AlarmInv, FullInv,
             [Next]_vars
      PROVE  FullInv'
    BY <1>2, FullStep, DrawsAssumption, SettlementAssumption
<1>3. (TypeOK /\ Delivered) /\ (TypeOK /\ Delivered)' /\ PreliminaryKnown /\ AlarmInv
        /\ FullInv /\ [Next]_vars
        => FullInv'
    BY <1>2
<1> QED
    BY <1>1, <1>3, SettlementTypeCorrect, DeliveredAlways, PreliminaryIsKnown, AlarmAlways,
       PTL DEF Spec

(* As long as a failed run is cleared before the preliminary window has    *)
(* passed it, for any windows, delays and order of runs: a build that      *)
(* passes, and during which nothing landed, leaves the preliminary table   *)
(* as a --full-refresh would (recent_only.sql:4-8), and the allocation     *)
(* lacks at most readings of the minute before the build that later runs   *)
(* have overtaken (allocation_is_current.sql:22).                          *)
THEOREM PassedBuildIsFull ==
    ASSUME Patience <= PreliminaryWindow
    PROVE  Spec => []BuiltIsFull
<1>1. TypeOK /\ Delivered /\ AlarmInv /\ FullInv => BuiltIsFull
    <2> SUFFICES ASSUME TypeOK, Delivered, AlarmInv, FullInv, verdict = "passed"
                 PROVE  BuiltIsFull
        BY DEF BuiltIsFull
    <2>1. preliminary = KnownReadings /\ AllLeftBehind /\ IsCurrent
        BY DEF FullInv, BuildInv
    <2>2. preliminary = Winners({r \in Readings : KnownByTheNextMorning(r)})
        BY <2>1, KnownOnce, DrawsAssumption DEF KnownReadings
    <2>3. ASSUME NEW r \in stg_meter_reading \ allocation
          PROVE  ~LookedAt(r) /\ \E t \in allocation : OvertakenBy(r, t)
        BY <2>1, LeftBehindIsOvertaken, DrawsAssumption, SettlementAssumption
            DEF AllLeftBehind, IsCurrent
    <2>4. \A t \in allocation \ stg_meter_reading :
            \E r \in stg_meter_reading \ allocation : SameQuarter(r, t)
        BY OnlyPredecessors, DrawsAssumption DEF AlarmInv
    <2> QED
        BY <2>2, <2>3, <2>4 DEF BuiltIsFull
<1> QED
    BY <1>1, FullAlways, AlarmAlways, SettlementTypeCorrect, DeliveredAlways, PTL

-----------------------------------------------------------------------------
(* Runs cleared soon enough for window and look-back overtake nothing: a    *)
(* winner that the window of the allocation has passed is already in it.    *)
AllocatedIsIn ==
    \A r \in stg_meter_reading, t \in allocation :
        r.day < t.day - AllocationWindow => r \in allocation

(* No reading comes later than the end of the look-back. *)
Bounded == \A r \in Readings : r.day \in Int /\ r.run <= r.day + LookBack

LEMMA BoundedAlways == Spec => []Bounded
<1>1. TypeOK /\ Delivered => Bounded
    BY ReadingBounds, DrawsAssumption DEF Bounded
<1> QED
    BY <1>1, SettlementTypeCorrect, DeliveredAlways, PTL

LEMMA AllocationArrivesInTime ==
    ASSUME DrawsAssumption, SettlementAssumption,
           Patience <= AllocationWindow + 1 - LookBack,
           TypeOK, Delivered, Bounded', Overtaken, AlarmInv, AllocatedIsIn, StoreMessage
    PROVE  AllocatedIsIn'
<1> USE DEF delivery, tables
<1>1. PICK R \in current : \E m \in Deliveries(R) \ raw : raw' = raw \cup {m}
    BY DEF StoreMessage
<1>2. PICK m \in Deliveries(R) \ raw : raw' = raw \cup {m}
    BY <1>1
<1>3. R \in RunDay /\ m.run = R /\ m \in Message
    BY DeliveriesAreMessages DEF TypeOK
<1>4. R \in Int /\ due \in Int /\ due - 1 - R <= Patience
    BY <1>3 DEF Overtaken, TypeOK, RunDay, DrawsAssumption
<1>5. /\ UNCHANGED allocation /\ Patience \in Int /\ AllocationWindow \in Int
      /\ LookBack \in Int
    BY DEF StoreMessage, SettlementAssumption, DrawsAssumption, LookBack
<1> SUFFICES ASSUME NEW r \in stg_meter_reading', NEW t \in allocation,
                    r.day < t.day - AllocationWindow
             PROVE  r \in allocation
    BY <1>5 DEF AllocatedIsIn
<1>6. r \in Readings'
    BY DEF stg_meter_reading, Winners, SameQuarter
<1>7. CASE r \in Readings
    <2>1. Readings \subseteq Readings'
        BY <1>2 DEF Readings, Carries, Estimated, Brings
    <2>2. r \in stg_meter_reading
        BY <1>7, <2>1 DEF stg_meter_reading, Winners, SameQuarter
    <2> QED
        BY <2>2 DEF AllocatedIsIn
<1>8. CASE r \notin Readings
    <2>1. PICK n \in raw' : r \in Carries(n)
        BY <1>6 DEF Readings, Carries, Estimated, Brings
    <2>2. n = m
        BY <1>2, <1>8, <2>1 DEF Readings
    <2>3. r.run = R
        <3>1. r = [point |-> m.point, day |-> m.day, quarter |-> r.quarter,
                   version |-> m.version, run |-> m.run, value |-> ValueOf(m, r.quarter)]
            BY <1>3, <2>1, <2>2, CarriesIs
        <3> QED
            BY <1>3, <3>1
    <2>4. r.day \in Int /\ r.run <= r.day + LookBack
        BY <1>6 DEF Bounded
    <2>5. t \in Readings /\ t.day \in Int /\ t.run \in Int /\ t.day + 1 <= t.run
        BY ReadingBounds DEF AlarmInv
    <2>6. t.run < due
        BY <2>5, RunsBeforeDue
    <2>7. FALSE
        BY <1>4, <1>5, <2>3, <2>4, <2>5, <2>6
    <2> QED
        BY <2>7
<1> QED
    BY <1>7, <1>8

LEMMA AllocatedStep ==
    ASSUME DrawsAssumption, SettlementAssumption,
           Patience <= AllocationWindow + 1 - LookBack,
           TypeOK, Delivered, Bounded', Overtaken, AlarmInv, AllocatedIsIn, [Next]_vars
    PROVE  AllocatedIsIn'
<1> USE DEF tables
<1>1. CASE StoreMessage
    BY <1>1, AllocationArrivesInTime
<1>2. CASE BuildAllocation
    <2> DEFINE recent == {r \in stg_meter_reading : RecentOnly(allocation, AllocationWindow, r)}
    <2>1. allocation' = DeleteInsert(allocation, recent) /\ UNCHANGED raw
        BY <1>2 DEF BuildAllocation
    <2>2. stg_meter_reading' = stg_meter_reading
        BY <2>1 DEF stg_meter_reading, Readings, Winners, SameQuarter, Carries, Estimated, Brings
    <2>3. ASSUME NEW r \in stg_meter_reading
          PROVE  r \in allocation'
        <3>1. CASE r \in recent
            BY <2>1, <3>1 DEF DeleteInsert
        <3>2. CASE r \notin recent
            <4>1. PICK t \in allocation : ~(r.day >= t.day - AllocationWindow)
                BY <3>2 DEF RecentOnly
            <4>2. r \in Readings /\ t \in Readings
                BY DEF AlarmInv, stg_meter_reading, Winners
            <4>3. r.day \in Int /\ t.day \in Int /\ AllocationWindow \in Int
                BY <4>2, ReadingBounds DEF SettlementAssumption
            <4>4. r \in allocation
                BY <4>1, <4>3 DEF AllocatedIsIn
            <4>5. OneRowEach(stg_meter_reading)
                BY WinnersOne DEF stg_meter_reading, TypeOK
            <4>6. \A s \in recent : ~SameQuarter(s, r)
                BY <3>2, <4>5 DEF OneRowEach
            <4> HIDE DEF recent
            <4> QED
                BY <2>1, <4>4, <4>6 DEF DeleteInsert
        <3> QED
            BY <3>1, <3>2
    <2> QED
        BY <2>2, <2>3 DEF AllocatedIsIn
<1>3. CASE UNCHANGED <<raw, allocation>>
    BY <1>3 DEF AllocatedIsIn, stg_meter_reading, Readings, Winners, SameQuarter, Carries,
        Estimated, Brings
<1>4. StoreMessage \/ BuildAllocation \/ UNCHANGED <<raw, allocation>>
    BY DEF Next, vars, StartRun, ClearRun, FinishRun, FailRun, MinutePasses, StartBuild,
           BuildPreliminary, Check, CheckFails, FinishBuild, AbortBuild, EndBuild
<1> QED
    BY <1>1, <1>2, <1>3, <1>4

(* allocation_is_current never fails, and a build that passes while        *)
(* nothing lands has in the allocation the winners and nothing else.       *)
AllocationIsFull ==
    /\ verdict # "failed"
    /\ verdict = "passed" => allocation = stg_meter_reading

(* If every failed run is cleared before as many later ones have started   *)
(* as the window is wider than the look-back, too, the rows the test       *)
(* leaves out do no harm, for any windows, delays and order of runs: the   *)
(* allocation is full after every build that passes, and none is stopped   *)
(* (fct_community_allocation.sql:14-17: 16 days, and readings of up to 13  *)
(* runs, leave 4; int_meter_reading_preliminary.sql:26: 3).                *)
THEOREM ClearedInTimeIsFull ==
    ASSUME Patience <= PreliminaryWindow, Patience <= AllocationWindow + 1 - LookBack
    PROVE  Spec => []AllocationIsFull
<1>1. Init => AllocatedIsIn
    BY DEF Init, AllocatedIsIn
<1>2. ASSUME TypeOK, Delivered, Bounded', FullInv, AlarmInv, AllocatedIsIn, [Next]_vars
      PROVE  AllocatedIsIn'
    BY <1>2, AllocatedStep, DrawsAssumption, SettlementAssumption DEF FullInv
<1>3. TypeOK /\ Delivered /\ Bounded' /\ FullInv /\ AlarmInv /\ AllocatedIsIn /\ [Next]_vars
        => AllocatedIsIn'
    BY <1>2
<1>4. TypeOK /\ BuiltIsFull /\ AlarmInv /\ AllocatedIsIn => AllocationIsFull
    <2>1. ASSUME AllocatedIsIn
          PROVE  \A r \in stg_meter_reading \ allocation : ~LeftBehind(r)
        BY <2>1 DEF AllocatedIsIn, LeftBehind
    <2>2. ASSUME AllocatedIsIn, BuiltIsFull, verdict = "passed"
          PROVE  allocation = stg_meter_reading
        <3>1. \A r \in stg_meter_reading \ allocation : LeftBehind(r)
            BY <2>2 DEF BuiltIsFull, OvertakenBy, LeftBehind
        <3>2. stg_meter_reading \subseteq allocation
            BY <2>1, <2>2, <3>1
        <3> QED
            BY <2>2, <3>2 DEF BuiltIsFull
    <2> QED
        BY <2>1, <2>2 DEF AllocationIsFull, AlarmInv
<1> QED
    BY <1>1, <1>3, <1>4, SettlementTypeCorrect, DeliveredAlways, BoundedAlways, FullAlways,
       AlarmAlways, PassedBuildIsFull, PTL DEF Spec
=============================================================================
