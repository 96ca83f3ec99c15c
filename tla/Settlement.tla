----------------------------- MODULE Settlement -----------------------------
(***************************************************************************)
(* Readings on their way into the books. A delivery day brings yesterday's *)
(* readings, late ones and corrections (deliveries_for() of                *)
(* src/megavolt/simulate.py); the warehouse keeps them all; staging picks  *)
(* the winner of every quarter hour; and each build of dbt carries the     *)
(* recent ones into two incremental tables, one of what was known on the   *)
(* next morning and one of what is known now, and tests the second. Runs   *)
(* of the delivery DAG fail half way and are cleared days later, and the   *)
(* next one lands while a build is reading.                                *)
(*                                                                         *)
(* Abstraction: a delivery lands on the morning of its run, so delivered_at*)
(* is the run's day; a reading is right or an estimate; what the draws of  *)
(* the seed decide is constant; every point is registered as ours.         *)
(***************************************************************************)
EXTENDS MeterDraws

CONSTANTS
    PreliminaryWindow,  \* the days int_meter_reading_preliminary reworks
    AllocationWindow,   \* the days fct_community_allocation reworks
    Patience            \* how many later days may start before a failed run is cleared

ASSUME SettlementAssumption ==
    PreliminaryWindow \in Nat /\ AllocationWindow \in Nat /\ Patience \in Nat

VARIABLES
    due,            \* the run day to be started next
    finished,       \* run days that marked their asset
    current,        \* the run days that is running, as a set of at most one
    raw,            \* messages in raw.meter_reading
    aged,           \* those of them received a minute ago or longer
    preliminary,    \* int_meter_reading_preliminary
    allocation,     \* fct_community_allocation
    built,          \* what the running build has done; {} between builds
    old,            \* messages that were a minute old when the build began
    fresh,          \* nothing was stored since
    verdict         \* how the last build ended, until something is stored

delivery == <<due, finished, current>>
tables == <<preliminary, allocation>>
build == <<built, old, fresh, verdict>>
vars == <<delivery, raw, aged, tables, build>>

Reading == [point : Point, day : Day, quarter : Quarter, version : {1, 2}, run : RunDay,
            value : {"true", "estimate"}]

SameQuarter(r, s) == r.point = s.point /\ r.day = s.day /\ r.quarter = s.quarter
OneRowEach(table) == \A r, s \in table : SameQuarter(r, s) => r = s

TypeOK ==
    /\ due \in FirstRun .. LastRun + 1
    /\ finished \subseteq RunDay
    /\ current \subseteq RunDay /\ \A R, S \in current : R = S
    /\ raw \subseteq Message
    /\ aged \subseteq raw /\ old \subseteq aged
    /\ preliminary \subseteq Reading /\ OneRowEach(preliminary)
    /\ allocation \subseteq Reading /\ OneRowEach(allocation)
    /\ built \subseteq {"begun", "preliminary", "allocation", "checked"}
    /\ fresh \in BOOLEAN
    /\ verdict \in {"none", "passed", "failed"}

Init ==
    /\ due = FirstRun
    /\ finished = {} /\ current = {}
    /\ raw = {} /\ aged = {}
    /\ preliminary = {} /\ allocation = {}
    /\ built = {} /\ old = {}
    /\ fresh = FALSE
    /\ verdict = "none"

-----------------------------------------------------------------------------
(* What a message brings: estimates where a correction will follow.        *)
Carries(m) ==
    {[point |-> m.point, day |-> m.day, quarter |-> q, version |-> m.version, run |-> m.run,
      value |-> IF Estimated(m, q) THEN "estimate" ELSE "true"] : q \in Brings(m)}

-----------------------------------------------------------------------------
(* The delivery DAG, one run at a time. *)

(* The next day; a run that failed is cleared before too many followed it. *)
StartRun ==
    /\ current = {} /\ due <= LastRun
    /\ \A R \in FirstRun .. due - 1 : R \notin finished => due - R <= Patience
    /\ current' = {due}
    /\ due' = due + 1
    /\ UNCHANGED <<finished, raw, aged, tables, build>>

(* A failed run is cleared. *)
ClearRun ==
    /\ current = {}
    /\ \E R \in (FirstRun .. due - 1) \ finished : current' = {R}
    /\ UNCHANGED <<due, finished, raw, aged, tables, build>>

(* The consumer stores a message of the run. *)
StoreMessage ==
    /\ \E R \in current : \E m \in Deliveries(R) \ raw : raw' = raw \cup {m}
    /\ fresh' = FALSE
    /\ verdict' = "none"
    /\ old' = IF built = {} THEN {} ELSE old
    /\ UNCHANGED <<delivery, aged, tables, built>>

(* Time passes. No transaction is open for as long as a minute, so what    *)
(* has been received a minute ago is stored. Only the beginning of a build *)
(* asks for it.                                                            *)
MinutePasses ==
    /\ built = {} /\ aged # raw
    /\ aged' = raw
    /\ UNCHANGED <<delivery, raw, tables, build>>

(* The storage sensor found everything stored. *)
FinishRun ==
    /\ \E R \in current : Deliveries(R) \subseteq raw /\ finished' = finished \cup {R}
    /\ current' = {}
    /\ UNCHANGED <<due, raw, aged, tables, build>>

FailRun ==
    /\ current # {}
    /\ current' = {}
    /\ UNCHANGED <<due, finished, raw, aged, tables, build>>

-----------------------------------------------------------------------------
(* The models of dbt. *)

Readings == UNION {Carries(m) : m \in raw}

(* The winner of each quarter hour: version desc, delivered_at desc.       *)
Winners(rows) ==
    {r \in rows : \A s \in rows : SameQuarter(r, s) =>
        s.version < r.version \/ (s.version = r.version /\ s.run <= r.run)}

stg_meter_reading == Winners(Readings)

(* Slip: the reading of the second morning counts as known, too. *)
KnownByTheSecondMorning(r) == r.run <= r.day + 2

(* delivered_at <= 06:00 on the morning after the day. *)
KnownByTheNextMorning(r) == r.run <= r.day + 1

(* Slip: the window starts a day late. *)
RecentTooShort(table, days, r) == \A t \in table : r.day > t.day - days

(* recent_only(): counted back from the newest day in the table.           *)
RecentOnly(table, days, r) == \A t \in table : r.day >= t.day - days

(* Slip: rows are inserted and the ones they replace stay. *)
InsertOnly(table, rows) == table \cup rows

(* delete+insert: the keys the query emits are replaced. *)
DeleteInsert(table, rows) ==
    {t \in table : \A r \in rows : ~SameQuarter(r, t)} \cup rows

(* Slip: the test looks at every row there is by now. *)
LookedAtAll(r) == TRUE

(* The rows allocation_is_current looks at: received a minute before the   *)
(* build began.                                                            *)
LookedAt(r) ==
    [point |-> r.point, day |-> r.day, version |-> r.version, run |-> r.run] \in old

IsCurrent == \A r \in stg_meter_reading : LookedAt(r) => r \in allocation

-----------------------------------------------------------------------------
(* A build: an asset was marked, a build is tried again, or somebody       *)
(* starts one by hand.                                                     *)
StartBuild ==
    /\ built = {}
    /\ built' = {"begun"}
    /\ old' = aged
    /\ fresh' = TRUE
    /\ verdict' = "none"
    /\ UNCHANGED <<delivery, raw, aged, tables>>

BuildPreliminary ==
    /\ built # {} /\ "preliminary" \notin built
    /\ LET known == {r \in Readings : /\ KnownByTheNextMorning(r)
                                      /\ RecentOnly(preliminary, PreliminaryWindow, r)}
       IN  preliminary' = DeleteInsert(preliminary, Winners(known))
    /\ built' = built \cup {"preliminary"}
    /\ UNCHANGED <<delivery, raw, aged, allocation, old, fresh, verdict>>

BuildAllocation ==
    /\ built # {} /\ "allocation" \notin built
    /\ LET recent == {r \in stg_meter_reading : RecentOnly(allocation, AllocationWindow, r)}
       IN  allocation' = DeleteInsert(allocation, recent)
    /\ built' = built \cup {"allocation"}
    /\ UNCHANGED <<delivery, raw, aged, preliminary, old, fresh, verdict>>

(* allocation_is_current passes. *)
Check ==
    /\ "allocation" \in built /\ "checked" \notin built
    /\ IsCurrent
    /\ built' = built \cup {"checked"}
    /\ UNCHANGED <<delivery, raw, aged, tables, old, fresh, verdict>>

EndBuild(result) ==
    /\ built' = {}
    /\ fresh' = FALSE
    /\ verdict' = result
    /\ old' = IF result = "none" THEN {} ELSE old
    /\ UNCHANGED <<delivery, raw, aged, tables>>

(* It fails, and with it the build (--fail-fast). *)
CheckFails ==
    /\ "allocation" \in built /\ "checked" \notin built
    /\ ~IsCurrent
    /\ EndBuild("failed")

FinishBuild ==
    /\ built = {"begun", "preliminary", "allocation", "checked"}
    /\ EndBuild(IF fresh THEN "passed" ELSE "none")

(* The time limit, a lost connection, a reboot: each table is either built *)
(* or as it was.                                                           *)
AbortBuild ==
    /\ built # {}
    /\ EndBuild("none")

-----------------------------------------------------------------------------
Next ==
    \/ StartRun \/ ClearRun \/ StoreMessage \/ MinutePasses \/ FinishRun \/ FailRun
    \/ StartBuild \/ BuildPreliminary \/ BuildAllocation
    \/ Check \/ CheckFails \/ FinishBuild \/ AbortBuild

Spec == Init /\ [][Next]_vars

-----------------------------------------------------------------------------
(* Properties. *)

(* Once every run that can have something for a day has been delivered, in *)
(* whatever order, the winners of the day are the true values of all       *)
(* quarter hours that were not lost (stg_meter_reading.sql:3-7,            *)
(* simulate.py:109, 416-426).                                              *)
WinnerIsTrue ==
    \A d \in Day :
        (d + 1 .. d + LookBack) \subseteq finished =>
            \A c \in Point : \A q \in Quarter \ Lost[<<c, d>>] :
                \E r \in stg_meter_reading :
                    r.point = c /\ r.day = d /\ r.quarter = q /\ r.value = "true"

(* A reading behind the window of a row of the allocation, and that        *)
(* because its run was overtaken by more of the later ones than window and *)
(* look-back allow for (fct_community_allocation.sql:14-17).               *)
OvertakenBy(r, t) ==
    /\ r.day < t.day - AllocationWindow
    /\ t.run > r.run + AllocationWindow + 1 - LookBack

(* allocation_is_current stops a build for one reason only, though         *)
(* deliveries land while it runs: a reading that was there a minute before *)
(* it lies behind the window, overtaken by later runs                      *)
(* (allocation_is_current.sql:8-13, 22).                                   *)
NoFalseAlarm ==
    verdict = "failed" =>
        \E r \in stg_meter_reading \ allocation :
            LookedAt(r) /\ \E t \in allocation : OvertakenBy(r, t)

(* As long as runs are cleared before the preliminary window has passed    *)
(* them, a build that passes, and during which nothing landed, leaves the  *)
(* preliminary table as a --full-refresh would (recent_only.sql:4-8). The  *)
(* allocation lacks at most readings the test does not look at, as they    *)
(* landed in the minute before the build, and of these only such as later  *)
(* runs have overtaken; and what it holds instead is their predecessors.   *)
BuiltIsFull ==
    verdict = "passed" =>
        /\ preliminary = Winners({r \in Readings : KnownByTheNextMorning(r)})
        /\ \A r \in stg_meter_reading \ allocation :
            ~LookedAt(r) /\ \E t \in allocation : OvertakenBy(r, t)
        /\ \A t \in allocation \ stg_meter_reading :
            \E r \in stg_meter_reading \ allocation : SameQuarter(r, t)

(* What was known on the next morning is fixed once it is in the table:    *)
(* no correction and no later delivery changes it                          *)
(* (int_meter_reading_preliminary.sql:7-8).                                *)
PreliminaryFixed == [][preliminary \subseteq preliminary']_vars

(* A row for a day behind the window is never built, but "the first of     *)
(* these fails the build instead of staying silent"                        *)
(* (recent_only.sql:19-20): when a build passes, no reading that was there *)
(* a minute before it is absent from a table that should hold it.          *)
NoSilentHole ==
    verdict = "passed" =>
        /\ \A r \in stg_meter_reading :
            LookedAt(r) => \E t \in allocation : SameQuarter(r, t)
        /\ \A r \in Readings : LookedAt(r) /\ KnownByTheNextMorning(r) =>
            \E t \in preliminary : SameQuarter(r, t)
=============================================================================
