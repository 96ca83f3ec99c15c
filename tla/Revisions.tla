----------------------------- MODULE Revisions ------------------------------
(***************************************************************************)
(* The tables of published values and the runs that fill them:             *)
(* dags/entsoe_actuals.py fetches a window of past days again and again,   *)
(* dags/entsoe_day_ahead_prices.py the next day, in order,                 *)
(* dags/apcs_load_profiles.py one year by hand. Each stores what changed   *)
(* through the INSERTs of src/megavolt/warehouse.py, and staging picks one *)
(* row per key. The source may revise, repeat, take back, leave out and    *)
(* contradict what it published; a price turns final in the end.           *)
(*                                                                         *)
(* Abstraction: the feeds share no state, so a behaviour follows one of    *)
(* them. A day is a number and starts at day * DayLength; the year of the  *)
(* profiles is the day ProfileYear. One run writes a table at a time       *)
(* (max_active_runs=1), so the rows of a key stand in the order of their   *)
(* received_at.                                                            *)
(***************************************************************************)
EXTENDS EntsoeDocument, SequencesExt

CONSTANTS
    Feed,           \* "imbalance", "load", "day_ahead", "profile", or some of them
    Day,            \* the days the model looks at
    DayLength,      \* a day in quarter hours
    ProfileYear,    \* the day that stands for the year
    Body,           \* Body[d]: what the source may answer for a day
    Window,         \* WINDOW_DAYS
    Retries,        \* retries of a task
    FinalAfter,     \* days after which a price is final at the latest
    FirstRun,       \* day of the first run
    LastRun,        \* bound: day of the last run
    MaxRows         \* bound: rows of a key when a run is run again

ASSUME RevisionsAssumption ==
    /\ Feed \subseteq {"imbalance", "load", "day_ahead", "profile"}
    /\ Day \subseteq Int
    /\ ProfileYear \in Day
    /\ DayLength \in Nat \ {0}
    /\ {Window, Retries, FinalAfter, MaxRows} \subseteq Nat
    /\ {FirstRun, LastRun} \subseteq Int
    /\ None \notin Statuses
    /\ None \notin UNION {{d} \X Body[d] : d \in Day}

(* What fetch() may bring: a plain answer is one document, and an element   *)
(* is a number or a published value, or it is not what it should be.        *)
ASSUME BodyAssumption ==
    /\ None \notin Value /\ None \notin Categories
    /\ \A d \in Day : \A body \in Body[d] :
        /\ body.form = "plain" => DOMAIN body.documents = {1}
        /\ \A n \in DOMAIN body.documents : Elements(body.documents[n])

VARIABLES
    feed,           \* the feed of this behaviour
    rows,           \* rows[k]: the rows of a key, oldest first
    today,          \* the day of the latest run
    task,           \* idle, running, retry, success or failed
    tries,          \* attempts of the task so far
    due,            \* days of the window still to fetch
    failed,         \* days of this attempt that were refused
    fetched,        \* days of this attempt that were stored
    answer,         \* <<day, body>> in hand, or None
    turned,         \* turned[d]: the day on which a price turned final
    said,           \* the last content stored, by key
    saidFinal,      \* the last final one, by key
    returned,       \* keys for which a value was said again after another
    seenFinal,      \* days of which a final document was stored
    succeeded       \* days whose run was a success

table == <<rows, said, saidFinal, returned, seenFinal>>
run == <<today, task, tries, due, failed, fetched, answer>>
vars == <<feed, table, run, turned, succeeded>>

Moment == {d * DayLength + q : d \in Day, q \in 0 .. DayLength - 1}
Key == (Categories \cup {None}) \X Moment

-----------------------------------------------------------------------------
(* The window of a run. *)

(* Slip: the window is a day short. *)
PastDaysShort(r, window) == {r - offset : offset \in 1 .. window - 1}

(* past_days(): range(window, 0, -1). *)
PastDays(r, window) == {r - offset : offset \in 1 .. window}

(* The days one run asks for. *)
Asked(r) ==
    Day \cap (CASE feed \in {"imbalance", "load"} -> PastDays(r, Window)
                [] feed = "day_ahead" -> {r + 1}
                [] feed = "profile" -> {ProfileYear})

(* A missed run is caught up only where each run has a day of its own. *)
CatchesUp == feed = "day_ahead"

(* An EntsoeError is put down and the next day is tried. *)
GoesOn == feed \in {"imbalance", "load"}

-----------------------------------------------------------------------------
(* Storing. *)

(* Slip: the status is not part of the fingerprint. *)
HashOfValue(content) == IF feed = "day_ahead" THEN <<content.value, content.step>>
                        ELSE <<content.value>>

(* payload_hash() and its siblings, without the key. *)
HashOf(content) ==
    CASE feed = "imbalance" -> <<content.status, content.value>>
      [] feed = "day_ahead" -> <<content.value, content.step>>
      [] feed \in {"load", "profile"} -> <<content.value>>

(* _INSERT_LOAD_PROFILE and the registry: one row per content. *)
KeyedByContent == feed = "profile"

(* A row is inserted when the latest row of its key says something else,   *)
(* or, keyed by content, when no row says the same.                        *)
Inserts(k, content) ==
    IF KeyedByContent
    THEN \A i \in DOMAIN rows[k] : HashOf(rows[k][i]) # HashOf(content)
    ELSE rows[k] = << >> \/ HashOf(Last(rows[k])) # HashOf(content)

(* What was said of each key, with what is said now. *)
Updated(known, contents) ==
    [k \in DOMAIN known \cup DOMAIN contents |->
        IF k \in DOMAIN contents THEN contents[k] ELSE known[k]]

(* store_*(): one transaction. *)
Store(d, contents) ==
    /\ rows' = [k \in Key |->
            IF k \in DOMAIN contents /\ Inserts(k, contents[k])
            THEN Append(rows[k], contents[k])
            ELSE rows[k]]
    /\ said' = Updated(said, contents)
    /\ saidFinal' = Updated(saidFinal,
            [k \in {k \in DOMAIN contents : contents[k].status = "A02"} |-> contents[k]])
    /\ returned' = returned \cup
            {k \in DOMAIN contents \cap DOMAIN said : \E i \in DOMAIN rows[k] :
                /\ rows[k][i].value = contents[k].value
                /\ said[k].value # contents[k].value}
    /\ seenFinal' = IF \A k \in DOMAIN contents : contents[k].status = "A02"
                    THEN seenFinal \cup {d} ELSE seenFinal

(* What the answer in hand says: the contents by key, or Refused. *)
Parsed(body) == IF feed = "imbalance" THEN Documents(body) ELSE Single(body)

-----------------------------------------------------------------------------
(* The runs. *)

Init ==
    /\ feed \in Feed
    /\ rows = [k \in Key |-> << >>]
    /\ today = FirstRun - 1
    /\ task = "idle" /\ tries = 0
    /\ due = {} /\ failed = {} /\ fetched = {}
    /\ answer = None
    /\ turned = [d \in Day |-> None]
    /\ said = << >> /\ saidFinal = << >>
    /\ returned = {} /\ seenFinal = {}
    /\ succeeded = {}

(* The source confirms a past day for good. *)
TurnFinal(d) ==
    /\ feed = "imbalance"
    /\ turned[d] = None /\ d < today
    /\ turned' = [turned EXCEPT ![d] = today]
    /\ UNCHANGED <<feed, table, run, succeeded>>

(* When a day is over that long, it is final. *)
FinalInTime(r) ==
    feed = "imbalance" => \A d \in Day : r - d > FinalAfter => turned[d] # None

BeginAttempt(r) ==
    /\ today' = r
    /\ task' = "running"
    /\ due' = Asked(r)
    /\ failed' = {} /\ fetched' = {}
    /\ answer' = None

(* The next scheduled run; a missed one is skipped, or caught up. A run of *)
(* the profiles is started by hand.                                        *)
StartRun ==
    /\ task \notin {"running", "retry"}
    /\ \E r \in today + 1 .. LastRun :
        /\ CatchesUp => r = today + 1
        /\ FinalInTime(r)
        /\ BeginAttempt(r)
    /\ tries' = 1
    /\ UNCHANGED <<feed, table, turned, succeeded>>

(* The latest run is cleared, or one for the same day started by hand. *)
RunAgain ==
    /\ task \in {"success", "failed"}
    /\ \A k \in Key : Len(rows[k]) < MaxRows
    /\ BeginAttempt(today)
    /\ tries' = 1
    /\ UNCHANGED <<feed, table, turned, succeeded>>

Retry ==
    /\ task = "retry"
    /\ tries' = tries + 1
    /\ BeginAttempt(today)
    /\ UNCHANGED <<feed, table, turned, succeeded>>

(* The attempt ends with an exception. *)
AttemptFails ==
    /\ task' = IF tries <= Retries THEN "retry" ELSE "failed"
    /\ due' = {} /\ answer' = None
    /\ UNCHANGED <<feed, table, today, tries, failed, fetched, turned, succeeded>>

Oldest == CHOOSE d \in due : \A e \in due : d <= e

(* What the source may say of a day: once final, always final. *)
Answers(d) ==
    {body \in Body[d] : turned[d] # None =>
        \A i \in DOMAIN body.documents : body.documents[i].status = "A02"}

(* The source answers for the oldest day that is due. *)
Fetch ==
    /\ task = "running" /\ due # {} /\ answer = None
    /\ \E body \in Answers(Oldest) : answer' = <<Oldest, body>>
    /\ due' = due \ {Oldest}
    /\ UNCHANGED <<feed, table, today, task, tries, failed, fetched, turned, succeeded>>

(* Slip: the loop is left at the first day that fails. *)
GiveUp(d) ==
    /\ failed' = failed \cup {d}
    /\ due' = {}

(* The day is put down as failed and the loop continues. *)
PutDown(d) ==
    /\ failed' = failed \cup {d}
    /\ due' = due \ {d}

(* Where the loop goes on after an EntsoeError. *)
DayFails(d) ==
    /\ GoesOn
    /\ PutDown(d)
    /\ answer' = None
    /\ UNCHANGED <<feed, table, today, task, tries, fetched, turned, succeeded>>

(* No answer, or one that is an EntsoeError already in fetch(). *)
FetchFails ==
    /\ task = "running" /\ due # {} /\ answer = None
    /\ DayFails(Oldest) \/ (~GoesOn /\ AttemptFails)

(* An archive that is none raises BadZipFile, which is no EntsoeError. *)
Breaks(body) == feed = "imbalance" /\ body.form = "broken"

Refuse ==
    /\ answer # None
    /\ IF Breaks(answer[2]) THEN AttemptFails
       ELSE /\ Parsed(answer[2]) = Refused
            /\ DayFails(answer[1]) \/ (~GoesOn /\ AttemptFails)

Take ==
    /\ answer # None
    /\ ~Breaks(answer[2]) /\ Parsed(answer[2]) # Refused
    /\ Store(answer[1], Parsed(answer[2]))
    /\ fetched' = fetched \cup {answer[1]}
    /\ answer' = None
    /\ UNCHANGED <<feed, today, task, tries, due, failed, turned, succeeded>>

(* The database is away or refuses the row, a time limit passes, the       *)
(* worker dies: before the transaction, which leaves nothing behind.       *)
Die ==
    /\ task = "running"
    /\ AttemptFails

(* Slip: the failures are printed and the run ends well. *)
QuietFinish ==
    /\ task' = "success"
    /\ succeeded' = succeeded \cup {today}
    /\ UNCHANGED <<feed, table, today, tries, due, failed, fetched, answer, turned>>

(* finished(): the failures are raised only now. *)
LoudFinish ==
    IF failed = {}
    THEN /\ task' = "success"
         /\ succeeded' = succeeded \cup {today}
         /\ UNCHANGED <<feed, table, today, tries, due, failed, fetched, answer, turned>>
    ELSE AttemptFails

Finish ==
    /\ task = "running" /\ due = {} /\ answer = None
    /\ LoudFinish

Next ==
    \/ \E d \in Day : TurnFinal(d)
    \/ StartRun \/ RunAgain \/ Retry
    \/ Fetch \/ FetchFails \/ Refuse \/ Take
    \/ Die \/ Finish

Spec == Init /\ [][Next]_vars

-----------------------------------------------------------------------------
(* Staging. *)

(* Slip: the latest row wins, whatever its status. *)
LatestRow(k) == Last(rows[k])

(* stg_imbalance_price, stg_actual_load, stg_day_ahead_price,              *)
(* stg_load_profile: the latest row, a final one before any other.         *)
Winner(k) ==
    LET finals == {i \in DOMAIN rows[k] : rows[k][i].status = "A02"}
    IN  IF finals # {} THEN rows[k][Max(finals)] ELSE Last(rows[k])

-----------------------------------------------------------------------------
(* Properties. *)

(* The document states value v for moment m: a point of a period lies      *)
(* there, or, for A03 only, it is the last point before an interval that   *)
(* ends within the period.                                                 *)
Stated(document, direction, m, v) ==
    \E i \in DOMAIN document.series : \E j \in DOMAIN document.series[i].periods :
        LET series == document.series[i]
            period == series.periods[j]
        IN  \E n \in DOMAIN period.points :
            LET from == period.start + (period.points[n].position - 1) * period.step
            IN  /\ direction \in series.categories \cup {None}
                /\ period.points[n].value = v
                /\ \/ m = from
                   \/ /\ series.curve = "A03" /\ from < m /\ m + period.step <= period.end
                      /\ (m - from) % period.step = 0
                      /\ \A q \in from + 1 .. m : \A l \in DOMAIN period.points :
                            q # period.start + (period.points[l].position - 1) * period.step

(* An answer that is not refused is stored as it was stated: nothing       *)
(* invented where it has a gap, nothing chosen where it contradicts itself *)
(* (entsoe.py:201, 225, 269).                                              *)
ReadAsStated ==
    answer # None /\ ~Breaks(answer[2]) /\ Parsed(answer[2]) # Refused =>
        LET contents == Parsed(answer[2])
            stated(k) == {v \in Value : \E n \in DOMAIN answer[2].documents :
                            Stated(answer[2].documents[n], k[1], k[2], v)}
        IN  \A k \in (IF feed = "imbalance" THEN Categories ELSE {None}) \X Moment :
                stated(k) = IF k \in DOMAIN contents THEN {contents[k].value} ELSE {}

(* Whatever is revised to and fro, a key ends with what was said of it     *)
(* last, and a final price with what was said last as final; only where    *)
(* the content is the key may a value that returned not win again          *)
(* (warehouse.py:21-25, stg_imbalance_price.sql:1-2).                      *)
WinnerIsLastSaid ==
    \A k \in Key \cap DOMAIN said :
        LET last == IF k \in DOMAIN saidFinal THEN saidFinal[k] ELSE said[k]
        IN  \/ /\ Winner(k).value = last.value
               /\ Winner(k).status = last.status
               /\ feed = "day_ahead" => Winner(k).step = last.step
            \/ KeyedByContent /\ k \in returned

(* While an attempt runs, every day of its window is stored, put down as   *)
(* failed, in hand or still to come, and a run that is a success has stored *)
(* them all: no failure that was put down passes quietly (finished,        *)
(* entsoe_actuals.py:41-45). It says nothing of the days behind one that   *)
(* ends the attempt (a broken archive, Breaks, or the database): those are *)
(* left to the retry.                                                      *)
EveryDayAccountedFor ==
    /\ task = "running" =>
        Asked(today) = due \cup failed \cup fetched
                            \cup (IF answer = None THEN {} ELSE {answer[1]})
    /\ task = "success" => fetched = Asked(today)

(* A price that turned final before a run that covers its day was a        *)
(* success is final in the warehouse, the last day of the window included  *)
(* (entsoe_actuals.py:21-26).                                              *)
SuccessSeesFinal ==
    \A d \in Day : \A r \in succeeded :
        turned[d] # None /\ turned[d] < r /\ r <= d + Window => d \in seenFinal
=============================================================================
