# Verification of the MegaVolt platform

TLA+ models of the parts of this repository whose correctness depends on the
order in which things happen, or on sums a test hardly reaches: the consumer
that moves meter messages from the broker into the warehouse, the DAG that
decides when a day is complete enough to build on, the messages of the
simulator and the validation that meets them, the weather table whose answers
must never change, the tables of prices, load and profiles that are revised
again and again, the incremental tables that late and corrected readings must
find their way into, the night shift that repairs failed runs by itself, and the
pricing tool that serves people in threads. Each model is checked with TLC on
small instances; the properties that matter most are proved with TLAPS for every
value of the constants. Paths below are relative to `src/`, the root of the
repository.

## 1. Inventory

| Component | State it keeps | Operations | Hard behaviour |
|---|---|---|---|
| Meter consumer `src/megavolt/consumer.py` | the group's offsets, its position and the batch in hand | consume, dead letters, store, commit, `backlog()` | crash between any two steps, eviction, partly refused commits, retries, two processes in one group, rewinds |
| Warehouse writers `src/megavolt/warehouse.py` | append-only raw tables keyed by content | `store_*`, `load_weather` | one transaction per call, a connection lost after the commit, values that return to an earlier one |
| Daily delivery `dags/meter_stream_daily.py` | DAG runs, the running task | weather sensor, produce, storage sensor, asset | a non-atomic sum of counters, task retries that send twice, runs cleared late |
| Weather `dags/geosphere_weather.py`, `src/megavolt/geosphere.py` | `raw.weather_observation` | fetch a window, store what changed, read what is frozen | late, lacking and revised hours; backfills; day boundaries |
| Delivery simulator `src/megavolt/simulate.py` | none (seed and weather) | `weather_ready`, `deliver`: registrations, then messages | a replay after the weather moved on; estimates against allocations; exchanges of meters; short and long days |
| Message validation `src/megavolt/readings.py` | none | `validate_*`, `classify` | field rules against the constraints of the schema |
| Night shift `src/megavolt_ops/night_shift.py`, `ops/` | `state.json`, reports | query, diagnose, clear, remember, report, mail | dying between any two steps, full pages, lost answers, a daily cap |
| ENTSO-E, `src/megavolt/entsoe.py`, `dags/entsoe_*.py` | three revision tables | parse, fetch a window of days, store revisions | gaps and contradictions in a document, one day failing among many, prices that turn final late |
| APCS profiles, `src/megavolt/apcs.py`, `dags/apcs_load_profiles.py` | one revision table | fetch a year by hand | a value that returns under a content key |
| Community registry, `src/megavolt/community.py` | `raw.metering_point` | `store_metering_points` | runs that die between two groups |
| dbt models `dbt/`, `dags/dbt_build.py` | staging views, intermediate and mart tables | incremental builds, tests | late and corrected deliveries, runs cleared after newer ones, a delivery that lands while a build reads, builds that stop half way |
| Pricing tool `src/megavolt_tool/` | calls per person, figures of the day, sessions, the record | offer, portfolio, sign in, sign out | threads around two locks, a computation of minutes, midnight, calls that take effect though they fail |
| Roles and schema `db/init/`, `supabase/` | constraints, grants | - | declarative |
| Deployment `docker-compose.yml`, CI | restart policies | - | configuration |

How they interact. `meter_stream_daily` calls the simulator, which reads the
frozen weather, registers the metering points and produces to the topic; the
consumer, a service that Docker restarts for ever, reads the topic, validates
and writes the warehouse; the same DAG polls the consumer group's `backlog()`
until it is 0 and then marks an asset; the asset starts `dbt_build`. The weather
DAG writes the table the simulator reads; the ENTSO-E and APCS DAGs write tables
that staging reduces to one row per key. The pricing tool reads the marts, keeps
figures of the day in memory and writes its record to Supabase. The night shift
talks to Airflow only: it sees failed runs and clears them.

What makes each part correct:

- consumer: nothing the group's offset stands above may be lost; everything on
  the topic comes to an end; two processes do not undo each other;
- delivery: the asset promises that the day is in the warehouse, and a day
  comes to its asset;
- messages: what validation lets through the schema takes; what the simulator
  sends validation lets through; every reading finds the meter it was taken
  from; no more is allocated than was made;
- weather: the answer for a frozen day never changes and is never empty; the
  latest row of an hour is what the source said last;
- simulator: the sensor lets a delivery on exactly when its day is frozen, and
  what was delivered can be delivered again;
- revisions: a document is read as it is stated or refused; the row staging
  picks is what was said last, of final prices the last final one; every day a
  running attempt was asked for is accounted for, and a success has stored them
  all and seen what was final;
- settlement: whatever order deliveries arrive in, the winning reading ends up
  the true one; what was known on the next morning stays what it was; the
  incremental tables equal full ones, as far as the windows bear it; the test
  that guards them stops no build without a reason;
- night shift: no failure skipped, none mailed twice, no run cleared again once
  that is on record, the agent within its daily cap but for broken passes,
  every failure handled;
- pricing tool: the hourly limits hold; figures are of the day they are used on
  and not computed again once they are there; nothing is shown that the record
  does not hold, and nothing stands there that was neither shown nor ended in an
  error; a refused person is left without a session; nobody waits for ever,
  unless a call that has no time-out hangs.

## 2. Modules

| Module | Models | Uses |
|---|---|---|
| `StreamLedger` | what the consumer promises, with no consumer in it | - |
| `MeterConsumer` | `consumer.py` `run()`, the group coordinator, `store_stream_batch`, `_produce` | instantiates `StreamLedger` |
| `MeterDelivery` | `meter_stream_daily.py`, `backlog()` around the consumer | extends `MeterConsumer` |
| `MeterDraws` | which messages a delivery day brings: `deliveries_for` | - |
| `MeterMessages` | what they say: `allocate`, `_first_delivery`, `_correction`, `meter_id_on`, `registrations`, `deliver`; `readings.py`; `store_metering_points`; the join of staging | extends `MeterDraws` |
| `Settlement` | `stg_meter_reading`, the two incremental tables over it, `allocation_is_current`, `dbt_build.py` | extends `MeterDraws` |
| `Weather` | `geosphere_weather.py`, `store_weather`, `_SELECT_FIRST_WEATHER` | - |
| `MeterSimulation` | what `simulate.py` takes from the weather | extends `Weather` |
| `EntsoeDocument` | the parser of `entsoe.py`, as functions | - |
| `Revisions` | `entsoe_actuals.py`, `entsoe_day_ahead_prices.py`, `apcs_load_profiles.py`, their `store_*` and staging views | extends `EntsoeDocument` |
| `NightShift` | `night_shift.py` | - |
| `PricingTool` | `main.py`, `pricing.py`, `session.py` of the tool | - |
| `MC...` | constants for TLC that a cfg cannot write | the module of the name |
| `...Proofs` | the theorems; `MeterDeliveryProofs` also those about `MeterConsumer`, `MeterSimulationProofs` those about `Weather`, `RevisionsProofs` those about `EntsoeDocument` | the module of the name |
| `Numbers` | lemmas: every set of numbers has a smallest, sums over finite sets, quotients | used by the proofs |

Definitions whose comment starts with "Slip:" are not part of any
specification. Each is the same definition with the bug someone could make in
that place; the property named in `PROJECT.json` must fail with it in place of
the right one.

### MeterConsumer

`log[p]` is a partition. `deadLetters` and `warehouse` are sets of contents,
because the tables are keyed by a hash of the content and an insert that meets
its key does nothing: storing twice is storing once. `committed`, `owner`,
`members` and `rebalancing` are the coordinator's; `pc`, `batch`, `position`
and `attempts` belong to a process. A process is `down`, `polling`, or at one
of the three steps of a batch, in the order the docstring of `consumer.py`
promises: dead letters, database, offsets.

| Action | Code |
|---|---|
| `Start` | a process starts and subscribes (191-223) |
| `Consume` | up to `BATCH_SIZE` messages of the partitions it owns (225-236) |
| `EmptyPollEnds` | "topic drained" for `--once`, no assignment for anybody (238-250) |
| `Stop` | SIGTERM or SIGINT, after the batch in hand (210-225) |
| `SendDeadLetters`, `DeadLettersFail` | all acknowledged, or some of them and an exception (132-158) |
| `Store` | one transaction; also the one that lost its answer and is retried |
| `StoreFails` | `OperationalError`: retried up to `Attempts` times, before or after it took effect (110-129) |
| `StoreRefused` | an error that is not retried, for a content the schema refuses (252-264) |
| `Commit`, `CommitFails` | offsets of all partitions, or of any of them and an exception (161-171) |
| `Crash`, `Evict` | killed between two steps; session lost while working |
| `Rebalance`, `Rewind` | the coordinator deals out partitions; the operator sets the group back |

External, modelled from how the code uses it: the coordinator accepts the
offsets of a member only while its session holds (`MayCommit`), and deals each
partition to at most one member.

A message is `Rejected` (`classify` refuses it), `Unstorable` (accepted by
`readings.py`, refused by the column types) or neither. `MeterMessages` says
which contents those are: its `TypeOK` states that what validation accepts the
schema takes, but for a version the column cannot hold.

The configurations set `Once = {}`: a `--once` process differs from another
only in that an empty poll ends it, and `Stop` lets every process end at the
same place.

### MeterDelivery

Adds one DAG: `status`, `task` and `tries` per day, `unsent` for the produce
task, and the sensor's half-finished sum (`poking`, `seen`, `behind`, `left`).
`Poke` takes the offsets in one request and `ReadWatermark` the end of one
partition each, with steps of everybody else between. `TaskFails` is a task
that is retried from its start, so a day may be on the topic twice;
`SensorTimesOut` and `ClearRun` are runs that fail and are run again after
newer days. `Rewind` of the group and `ProduceByHand` go on all the time.

### MeterDraws and MeterMessages

What the draws of the seed decide about a point and a day (`Delay`, `Lag`,
`Wrong`, `Lost`) is constant; `Firsts` and `Corrections` are the two branches of
the loop in `deliveries_for`, `Brings` the quarter hours a message has a value
for. `MeterMessages` gives those messages their contents: the community's truth
(`Total`, `Allocated`), the estimate of a first delivery and the allocation
lowered to it (`Given`), the meter of the covered day (`MeterOf`), the morning
of the run (`DeliveredAt`), and days that are an hour short or long
(`Positions`).

| Action | Code |
|---|---|
| `Register` | `deliver()`: one transaction of `store_metering_points` per take-over day, in order (simulate.py 637-653) |
| `Produce` | `_produce()`: one message after the other, sorted, once all points are registered (442-448, 713-735) |
| `Consume` | `classify`, then readings, intervals or dead letter (readings.py 158-334, consumer.py 65-92) |
| `PutByHand` | anybody with access to the topic |
| `NextDay` | the clock validation looks at |

A message stays on the topic and may be read at any time and again: the way
there is `MeterDelivery`'s subject. A run that dies and starts anew repeats
steps that have no effect, so `registered[R]` and `produced[R]`, the take-over
days it has been through and the messages it has sent, are those of its furthest
attempt; each grows in the order the code goes through them (`Before`).
Energy is counted in the last digit a meter shows. `Rounded` rounds halves up,
where the code rounds them to even; the properties do not depend on which.
Text patterns and number syntax are reduced to a field that is `Malformed`.

### Settlement

A reading is `"true"` or an `"estimate"`, its version 1 or 2, and `run`, the day
of the run that sends it, stands for `delivered_at`: `_delivered_at` counts from
the morning of the run, so a run that is cleared late still sends its own.
`Carries` are the rows a message brings.

| Action | Code |
|---|---|
| `StartRun`, `ClearRun`, `FailRun`, `FinishRun` | runs of `meter_stream_daily`, one at a time; a failed one is cleared after at most `Patience` newer ones have started |
| `StoreMessage` | the consumer stores one message of the run, at any moment of a build |
| `MinutePasses` | what is in raw has been received a minute ago (`aged`) |
| `StartBuild` | a build begins; what is a minute old by then is `old` |
| `BuildPreliminary`, `BuildAllocation` | one statement each: rows in the window replace those of the same key |
| `Check`, `CheckFails` | `allocation_is_current`, over the rows of `old` |
| `FinishBuild`, `AbortBuild` | all done; or stopped anywhere |

The order of the two builds is left free, a superset of what dbt's levels and
four threads allow. Joins that only add columns are left out. `LookedAt` are the
rows the test looks at: those that were a minute old when the build began
(`allocation_is_current.sql` 22), which the rows of the delivery that started
the build usually are not, as the sensor asks every 30 seconds. A minute may
pass or not before a build; within one it is not needed, since only the
beginning of a build asks for it. Transactions are shorter than a minute, as the
test's comment assumes. `--full-refresh` is not modelled: it is the repair for
what `settlement_hole` shows.

### Weather

An hour is a number, a day is the hours after its midnight up to and including
the next, as `_SELECT_FIRST_WEATHER` counts them. `rows` is the table; `clock`
is the database's, one tick per transaction (the DAG allows one run at a time).
`Fetch` chooses what the source holds and what it leaves out, and stores what
differs from the latest row. `said` is kept for the property only. `Shown` is
the query, clause by clause.

### MeterSimulation

What a delivery is made of, as far as it can differ between a run and its
replay: the heating level of each day and the radiation at both ends of each
hour, through the same loading window. Everything else is drawn from the seed.
Means are kept as integers in units of `1/Scale`. `Deliver` needs what the code
needs: the sensor's test and no `SimulationError` (`CanSimulate`).

### EntsoeDocument and Revisions

`EntsoeDocument` is the parser: `Usable` are the checks of `_parse_period`,
`Expand` its loop, `Agree` the refusal of contradictions in `_values`, `Single`
and `Documents` the two kinds of answers. An element that is absent or cannot be
read is `Unreadable`; XML itself is left out. `Elements` says what else an
element may be: a moment, a length, a position or a published value.

`Revisions` follows one of four feeds: imbalance prices and load (a window of
past days, one failing day among others), day-ahead prices (the next day, missed
runs caught up) and load profiles (one year, by hand). `rows[k]` are the rows of
a key in the order of `received_at`; one run writes a table at a time.

| Action | Code |
|---|---|
| `StartRun`, `RunAgain`, `Retry` | schedules and `max_active_runs=1` of the DAGs, cleared runs, task retries |
| `Fetch`, `FetchFails` | one day's request, oldest first (`past_days`, `fetch`) |
| `Refuse` | an `EntsoeError`: the day is put down and the loop goes on, where the DAG does so; any other error ends the attempt (`Breaks`) |
| `Take` | parsed and stored in one transaction (`Store`) |
| `Die` | the database, a time limit, the worker |
| `Finish` | `finished()`: failures are raised only at the end |
| `TurnFinal` | the source confirms a past day; after `FinalAfter` days it has |

`HashOf` is the fingerprint of each feed without its key, `Inserts` the condition
of its INSERT, `Winner` the order of its staging view. `Stated` says what a
document means without going through positions as `Expand` does: a value stands
where its point lies and, under A03, at every whole step behind it that ends
within the period and has no other point on the way. The two readings of a
period whose end is no whole number of steps away differ otherwise: the code
(`entsoe.py` 283) drops the rest, and so does `Stated`.

### NightShift

A pass as a sequence of steps (`pc`), with the `State` object in `memory` and
`state.json` in `file`. `ClearFails` and `MailFails` are calls that failed
after or before they took effect, `Abort` a pass that dies anywhere. Runs fail,
succeed and are cleared by hand meanwhile, and time passes without them (`Tick`).
The verdict is a free choice. Every end of a run has a moment of its own.

### PricingTool

One thread per request, `step[r]` its place in the route. `calls` are the lists
of the two `RateLimit`s, as the sets of requests whose stamps they hold, `value`
and `day` the two fields of `Portfolio`, `lock` its lock; figures are the day
they are for and the moment the reading for them began.

| Action | Code |
|---|---|
| `Arrive` | the session gate and the roles; `now` is read, before the lock (pricing.py 90) |
| `Check` | `RateLimit.check` under its lock |
| `Read` | the store's answers an offer needs; like the computation and the engine's price (`Unbounded`) it may hang |
| `Enter`, `Compute` | `Portfolio.current`: figures of today, or the lock held over a computation that may fail with any error |
| `Price` | the engine and `shown` |
| `Record` | `audit`: row, then answer; the row may be there although the request ends in an error. The row of a price has its figures, those of a view and of a refusal have none (`RowFor`; main.py 242 writes an empty detail) |
| `Open`, `Verify`, `Close` | `sign_in` and `sign_out` at Supabase; every call may be lost after it took effect, and `Verify` may also end in an error the route does not catch |
| `Reset`, `Tick` | `Portfolio.reset`, which only tests call; time |

## 3. Runs

Passing runs:

| Run | Properties | Bounds, and why they are enough |
|---|---|---|
| `consumer_safety` | `TypeOK`, `NoLossInv`, `OffsetsOnlyRewound`, `LedgerSpec` | 2 processes, 2 partitions, batches of 2, one message of each kind, `MaxLog` = 2 messages a partition, one retry-free store: two processes are what an eviction and a take-over need, two partitions what a partly refused commit and a mixed batch need, two offsets what an off-by-one needs |
| `delivery_safety` | `DeliveryInv`, `AssetMeansStored` | 2 days, 2 partitions, a stray message, one consumer with batches of 2, no task retries: runs that fail and are cleared already start a task afresh, and retries are in the next run |
| `delivery_live` | `EverythingSettles`, `DeliveryCompletes` | one day with a readable and an unreadable message, 1 task retry and 2 attempts at the database, `MaxLog` = 4: what a retried produce sends twice fits, so the bound never stops anybody. The second partition stays empty, with offsets never committed |
| `messages` | `TypeOK`, `SimulatedIsAccepted`, `MeterMatchesRegistry`, `GivenWasMade` | two customers and one other member, two runs over days of two quarter hours, of which one is short by one and one long by one; delays and lags of one day, so both runs bring late and corrected readings; an estimate above and one below the allocation; a plant that makes less and more than is used; exchanges on two days, one of them the first of a new year of two days; one message by hand out of eight, each refused for another reason or by nobody |
| `simulation_replay` | `FrozenShows`, `LatestIsLastSaid`, `ReadyIsFrozen`, `ReplayIsPossible`, `FrozenAnswerFixed`, `FrozenReachReplays` | four days of two hours (a midnight and another), one of which may lack all its temperatures and the midnight before, or that midnight alone; every day revised; look-back and memory of one day each; three transactions, which are what a day, a later day and a straggler need, and what a value needs that is revised and returns (A, B, A) |
| `revisions` | `ReadAsStated`, `WinnerIsLastSaid`, `EveryDayAccountedFor`, `SuccessSeesFinal` | all four feeds; days 1, 2 and 4 of two quarter hours, of which two are published in twelve forms (two values, both statuses, a gap, a longer step, both directions, an archive that repeats a key, a contradiction, an unknown status, a broken archive); a window of 2 days, one retry, runs on days 3 and 4, which share day 2 and may be run again; up to two stored rows before a run is repeated, which gives A, B, A. Day 3 is left out: it would be one more day of the same kind |
| `settlement` | `TypeOK`, `WinnerIsTrue`, `NoFalseAlarm`, `BuiltIsFull`, `PreliminaryFixed` | one point with a true, a wrong and a lost quarter hour (points never meet in any definition); four runs, delays and lags up to 1, so a look-back of 3 and a late first delivery, a correction and both; a run is cleared after at most one newer has started, which the window of 1 day of the preliminary reading just bears (in the code: 3 days, so three newer runs). The allocation's window is 2 days, one too few for a look-back of 3, so that alarms do happen, and `NoFalseAlarm` says when: after more newer runs than window + 1 - look-back. In the code that is 16 + 1 - 13 = 4. For the same reason a build may pass although the allocation lacks a reading: one of the minute before the build, which the test leaves out. `BuiltIsFull` says that nothing else is lacking and that the preliminary table is full |
| `night_safety` | `TypeOK`, `NoRepeatedMail`, `OneRunAtRisk`, `NothingSkipped`, `RecordedClearIsFinal` | 2 runs that end up to 3 times in all, pages of 1, so every page is full and one failure hides the other; a cap of one agent run a day |
| `night_live` | `FailuresAreHandled` | pages of 2: a page filled by one failure alone that is already handled is answered for ever (see below) |
| `pricing` | `TypeOK`, `RollingCeiling`, `FiguresOfTheDay`, `ComputedOnce`, `NoRowNoAnswer`, `RefusedLeavesNoSession`, `EveryRequestAnswered` | three requests, each in a thread of its own: one to compute, one to wait, one to overtake or to come after midnight; an hour and a day of two moments over three moments, so both end once; one call an hour, which the second already exceeds; one refresh; an analyst, who may ask for everything, and an account without a role, which asks for the portfolio or signs in. The third request is an offer, the only kind that meets all of limit, figures and record; other mixes differ by their order only |

`consumer_safety` and `night_safety` are symmetric in processes and partitions,
and in runs; neither checks liveness. Deadlock is not checked for the weather
and the revisions, where the model stops when the bound on transactions or runs
is used up, and for the pricing tool, which stops when all requests are answered.
`MaxLog`, `MaxStored`, `LastRun`, `MaxTime`, `MaxCount`, `MaxWindow`, `MaxRows`,
`Requests`, `LastMoment` and `MaxResets` are bounds of the models, named as such
where they are declared.

Runs that find the code and a statement of the repository at odds, each with
the sentence it contradicts (see `findings` in `PROJECT.json`):

| Run | Property | What happens |
|---|---|---|
| `consumer_poison` | `StorableSettles` | a version above 2^31-1 is accepted, refused by the column, and read again by every restart: the partition stands still |
| `settlement_hole` | `NoSilentHole` | a run cleared one day later than the preliminary window bears: its readings are still in the allocation's window (3 days here, with up to 2 newer runs), so the test passes, and the preliminary reading never has them |

Other places where the models show less than a comment or a reader might expect.
Each is stated by a property in the form that does hold:

- The agent's daily cap. It is counted in memory before the clear and saved
  after it (`night_shift.py` 329-336), so every pass that breaks between loses
  the count, although "a crash loop must not turn into a bill" (37).
  `OneRunAtRisk` says what is left: one run per broken pass.
- A replay. The heating level of a day without hours of its own is computed from
  its first midnight (`simulate.py` 152), which the warehouse counts to the day
  before; filled in later, the day is simulated otherwise, although "what was
  delivered for a day is the same" (18-20). `FrozenReachReplays` therefore asks
  that every day of the reach is frozen.
- One bad day. A body that is an archive but broken raises `BadZipFile`
  (`entsoe.py` 180), which is no `EntsoeError`: the loop of `entsoe_actuals.py`
  ends there, and the days behind it are not fetched until the retry, although
  "one bad day must not hide the others" (42). A database error ends it, too.
  `EveryDayAccountedFor` does not speak of these days: it says what has become of
  each day while an attempt runs, and that no run succeeds without all of them.
- Load profiles. They are keyed by content, so of A, B, A the winner stays B,
  though `stg_load_profile.sql` (1) speaks of the latest download.
  `WinnerIsLastSaid` excepts exactly these keys.
- Load and imbalance prices are fingerprinted without the length of their step,
  and keys that a later document no longer has keep their rows.
- The hourly limit. `now` is read before the lock (`pricing.py` 90-99), so a
  thread overtaken by one with a later clock may be let in although the later
  hour is full: with such threads there are more calls in an hour than the
  ceiling says. `RollingCeiling` counts all but these (`late`) and says that they
  take nothing away from the others.
- The figures of the day. A computation that fails leaves nothing behind, so
  every request that waited for it computes anew, minutes each
  (`pricing.py` 131-136). `ComputedOnce` is about completed computations, and
  about threads that compute although the figures are there.
- A computation that hangs. The warehouse is asked without a time-out
  (`store.py` 115; neither the connection string nor the role sets one), and
  nothing bounds the engine. Such a call holds the portfolio's lock
  (`pricing.py` 128), and every request behind it waits as long.
  `EveryRequestAnswered` excepts those that hang and those behind them.
- A sign-in that ends in an error. When the key endpoint answers something that is
  no JSON, the error is no `SessionError` (`session.py` 130-140), the route does
  not catch it (`main.py` 133), and the session just opened stays open.
  `RefusedLeavesNoSession` is about refusals.
- The record. A row may be written though the person gets an error (503), and
  requests stopped at the session gate leave no row. `NoRowNoAnswer` says both:
  what was shown is recorded, and a row is of a request that was shown it or ended
  in an error. What a view of the portfolio showed cannot be told from its row.
- The mark of the night shift. The model takes a failure to be visible from its
  end on; an `end_date` that shows up in Airflow only after a later one has been
  read is not modelled, and `NothingSkipped` says nothing of it.

## 4. Fairness

Safety runs assume none. `MeterConsumer!Fairness`: compose restarts the consumer
(`restart: unless-stopped`), so `Start` is weakly fair; a working process does
not hang, so its `Work` is weakly fair, with failure as one of the outcomes: the
broker's calls have time-outs, of the code (`consumer.py` 153, 180-184, 226) or
of the client library; `psycopg.connect` (`warehouse.py` 519) has none, and that
a transaction ends, well or not, is an assumption under which
`EverythingSettles` and `DeliveryCompletes` hold; a rebalance, a poll, and each
of the three calls of a batch succeed if they are tried again and again. Nothing
says that crashes, evictions or failures stop. That is the assumption the code
is written under: `with_retries` and the restart policy answer outages that
pass. `FairSpec` leaves out `Rewind`: an operator who rewinds for ever keeps the
consumer busy for ever.

`MeterDelivery!FairDeliverySpec` adds that the scheduler gets each run further;
task failures beyond the DAG's retries are left out there, because a failed run
waits for a person (`ClearRun`), whom nothing obliges to come.

`NightShift!Fairness`: the timer fires again and again, a pass does not hang
(the calls to Airflow, the agent and the mail server have time-outs), and each
call that is tried pass after pass succeeds in the end, except the mail, for
which refusal for ever satisfies the assumption.

`PricingTool!FairSpec`: a thread that can run is scheduled (`Prompt`), which
includes its calls to Supabase, for sessions, keys and the record, each with a
time-out. Nothing is assumed of the warehouse and the engine (`Unbounded`):
their calls may hang for ever. Nor is it assumed who gets the lock first, nor
that a computation ever succeeds; a thread passes through the lock once, so weak
fairness is enough.

## 5. Proofs

Checked by TLAPS for every number of processes, partitions, messages, members,
days, hours, requests, runs, documents and values, and every batch, page and
window size, from the assumptions on constants named in the modules
(`MeterAssumption`, `DeliveryAssumption`, `DrawsAssumption`,
`MessagesAssumption`, `CalendarAssumption`, `TruthAssumption`,
`TotalAssumption`, `HandAssumption`, `WeatherAssumption`,
`SimulationAssumption`, `SettlementAssumption`, `NightShiftAssumption`,
`DocumentAssumption`, `RevisionsAssumption`, `BodyAssumption`,
`PricingToolAssumption`). TLC evaluates all of them in the runs. Besides types
they say:

- the runs of the night shift and the members of the community are finitely
  many, the lock's `Free` is no request, and `None` is no status, answer, row,
  figures, value or direction;
- midnights come in order, and the days of the delivery have lengths validation
  allows (`CalendarAssumption`; `readings.py` 37);
- what the draws make of consumption, generation and estimates stays below what
  validation takes for possible (`TruthAssumption`, `TotalAssumption`), and no
  first delivery loses every quarter hour, which `simulate.py` would send as a
  message without a value and validation would refuse;
- what is put on the topic by hand holds no reading that a run sends too
  (`HandAssumption`): that would be the run's own message, come too early;
- a plain answer of the platform is one document, and an element that can be
  read is a number or a published value (`BodyAssumption`).

Two things the prover does not do by itself come up again and again. Induction:
where a fact is about every position of a period, every place on a page or every
summand, the proofs take the least counterexample, from `SmallestNumber` in
`Numbers`, and show that there is none. Recursion: the sums of `SumFunction` are
unfolded one element at a time (`SumUnfolds`) and the recursive functions of the
models from their definition at one argument (`ExpandUnfolds`), which is all a
least counterexample needs.

`MeterDeliveryProofs`, about the consumer: `ConsumerInvariant`, `TypeCorrect`,
`ConsumerLosesNothing`, `NoProcessRewinds` and `ConsumerImplementsLedger`.
`NoLoss` alone is not inductive: a commit
moves the offset to where the batch ends, so it must be known that everything
below that is settled. `ReadIsSettledOrInHand` says so for everything read but
what is still in the batch, `StepsInOrder` for the batch once the step before
the commit is reached, and `BatchEndsAtPosition` ties `next_offsets` to the
position read up to. The proof is per process: `ProcessWise` splits the
invariant, `ProcessFrame` carries it over steps that leave a process alone
(logs and sinks only grow, `NextMonotone`), `ProcessLeaves` over all the ways
to go down, and one lemma per working step does the rest. From the same
invariant no commit moves an offset back, and each step is a step of
`StreamLedger` or leaves it alone: of a batch whose sinks are written at once
the messages are settled together, and what a commit acknowledges has been.

`MeterDeliveryProofs`, about the DAG: `DeliveryInvariant` and `MarkedIsStored`.
Every step of the DAG is a step of the consumer's specification or leaves it
alone (`DeliveryIsStep`), so `ConsumerInvariant` carries over. The sum of
`backlog()` is safe for three reasons, one conjunct each: what the offsets
showed as settled when they were read stays settled, rewinds included
(`SnapshotSettled`); no term of the sum is negative (`BacklogIsCount`), so
partitions do not cancel out; and while it is 0, no partition already read holds
anything of the day that is unsettled (`CountedIsSettled`), which needs that the
day was on the topic before the sensor started (`SentOrUnsent`).

`MeterMessagesProofs`: `MessageTypes`, `SimulatedIsLetIn`,
`ReadingsMatchTheRegistry` and `NothingIsInvented`, all that `messages` checks.
That what a run sends is accepted (`OutgoingAccepted`) is about the rules of
`readings.py`: lengths, bounds and the clock, at the moment of sending and on
any later day (`SentInTime`). `MessagesInv` carries it to what is stored: a run
sends nothing before its day nor before all its rows are registered
(`SentByRuns`), and a row of the registry has the meter of the day it is valid
from (`Registered`). A meter is exchanged on the days in `Swaps` and on no
other, so between the latest registration before a reading and the reading
itself it has not changed (`SameMeter`), however late the message comes. The
last theorem is a sum over members: each gets at most its share rounded, a share
rounded is at most half a digit more, and the shares add up to what was made
(`SharesAddUp`).

`MeterSimulationProofs`: of the weather `WeatherTypeCorrect`, `FrozenIsFinal`,
`LatestWins` and `FrozenNeverEmpty`; of the deliveries `SensorIsExact`,
`ReplaysAlike` and `ReplayAlwaysPossible`. The key is that a transaction stamps
its rows later than every row there is (`StepAddsLater`), which is what `TypeOK`
says about the clock. A new row is then never the first of its hour where there
is one, and never in time for a day that is frozen. A delivery reads its reach
and the day before it, so where these are frozen all it reads stays.

`SettlementProofs`: `SettlementTypeCorrect`, `TrueValuesWin`, `KnownIsFixed`,
`AlarmIsTrue`, `PassedBuildIsFull` and `ClearedInTimeIsFull`, for any points,
windows, delays, lags, corrections and gaps. The types need that the winner rule
leaves one row per quarter hour (`WinnersOne`: rows that agree in version and
run come from the same message) and that delete+insert keeps it so
(`DeleteInsertOne`). The true values rest on `Delivered` (raw holds only what
runs send, and all of what finished runs send), which every step keeps; on
`BothArrived`, where the look-back enters: the runs that send a day's first
delivery and its correction are among the `LookBack` runs after it; and on
`ReadingsAre`, by which version and run of a reading follow from the draws, so
that nothing else can beat the true row. `AlarmInv` says that what a build did
not carry into the allocation lies behind the window of a row in it.
`PassedBuildIsFull` has a hypothesis, `Patience <= PreliminaryWindow`: that a
failed run is cleared before the window has passed it. It is the very condition
that `settlement_hole` breaks; the run `settlement` meets it. `Overtaken` turns
it into a bound on how late a reading can be (`ArrivesInTime`). The allocation
is full up to the rows of the minute before the build, which the test does not
see: what is lacking lies behind its window, hence was overtaken
(`LeftBehindIsOvertaken`), and where it is lacking the table holds its
predecessor (`OnlyPredecessors`). `ClearedInTimeIsFull` has a second hypothesis,
`Patience <= AllocationWindow + 1 - LookBack`, under which nothing falls behind
that window (`AllocationArrivesInTime`, `AllocatedIsIn`): then no build is
stopped, and the allocation is full after every one that passes while nothing
lands. With the numbers of the code the first hypothesis bounds the newer runs
by 3, the second by 4, so the first alone is enough there. The run has an
allocation window too short for the second, on purpose, so this theorem is
proved only.

`NightShiftProofs`: `NightTypes`, `MailedOnce`, `OneRunIsAtRisk`,
`NoFailureIsSkipped` and `ClearedOnce`, all that `night_safety` checks. The
invariant `NightInv` ties the pass to the file: what the pass has in memory is
the file plus at most the agent run in hand (`Memory`), what stands on the page
is what failed in the window and is not handled yet, in the order of the end
dates (`Ahead`), and the failure in hand is not handled before it is saved
(`InHand`). The hard part is the page: that the answer, sorted by end date and
cut at `Page`, holds every failure up to its last (`PageHolds`). Each failure has
a place of its own and every place up to their number is taken
(`PlacesTaken`): of the places that are not, there would be a smallest.

`RevisionsProofs`: `LastSaidWins`, `AllDaysAreAccountedFor`, `FinalIsSeen` and
`AnswersAreRead`, all that `revisions` checks. Two
invariants that hardly touch. `TableInv` is about one key: the last row says what
was said last as far as the fingerprint tells (`KeyInv`), and the last final row
what was said last as final; it needs that a row's status tells the feeds with
final prices from the others (`NoStatus`).
`RunInv` is about runs: what is due, put down, stored and in hand makes up the
window, what is in hand of a day that was final before the run began is final,
and what was stored of it has been seen (`SeenInTime`, with `AllFinal` about the
parser). `AnswersAreRead` is the parser itself, in four steps: the value carried
to a position is that of the last point at or before it (`CarriedIsSaid`); a
position says a value just when the period states it for the moment of that
position (`SaidIsStated`, with `Multiple` and `WithinThePeriod` about steps and
moments); a document that is not refused has just the points it states
(`DocumentIsRead`); and a key has one value, in one document and in all
(`SingleIsRead`, `ArchiveIsRead`).

`PricingToolProofs`: `PricingTypes`, `CeilingHolds`, `FiguresAreOfTheDay`,
`EachDayIsComputedOnce`, `NoAnswerWithoutItsRow` and `RefusedSignInIsClosed`.
`PricingInv` says where a request may stand by what it asked and passed
(`Stage`), that the thread which computes holds the lock and no day as late as
its own has been made (`Computing`), and that the figures kept are of their day
and no earlier than any day made (`Shared`). A day that is made is therefore
later than all before it (`InOrder`). Of the record (`RowStands`): a request
that is not done has no row (`NoRowYet`), only `Record` writes one, together
with the answer, and the other ends are answers that owe none (`OffRecord`). A
step of one request leaves the others alone (`Apart`, `OthersServed`), and time
only carries the portfolio forward (`DaysInOrder`). The limits have an invariant
of their own, `LimitsInv`: a call that was let in is still on its list, unless
the same person was checked an hour after it (`Kept`), so the calls of the last
hour are on the list together and no more than the list may hold.

Only model-checked: liveness, which is beyond this prover's reach
(`EverythingSettles`, `DeliveryCompletes`, `FailuresAreHandled`,
`EveryRequestAnswered`). Every invariant and action property of a passing run is
proved, `BuiltIsFull` under the hypothesis that the run meets; the types of
`Weather` and `MeterDelivery` are proved only. The two runs that find a
disagreement need no proof.

## 6. Not modelled

- Syntax: XML, CSV, JSON, HTTP and archives. An element can be read or cannot,
  an answer is refused or taken. `apcs.py` and `geosphere.py` are reduced to
  that; `entsoe.py` is modelled from the elements on.
- How the seed decides its draws, the standard profiles and the two series of
  consumption and generation computed from profiles and weather: functions of the
  seed, constants of the models. So is the draw of the members in `community.py`.
- The private pricing engine and the marts' arithmetic: forecasts, purchases,
  settlement and its revisions keep no state of their own. The figures of the
  pricing tool are read in several transactions while dbt may rebuild; the model
  knows only when the reading began.
- Pages of the tool that only read, and its formatting (`present.py`).
- Configuration, roles and grants: declarative, they enter as constraints and as
  fairness.

One listed hazard has no property: a run whose clear took effect though the pass
died before the state file was written is cleared again by a later pass
(`night_shift.py` 336). `RecordedClearIsFinal` starts where the record does.
Two are covered in part: a sign-in that ends in an error of the key endpoint
(`main.py` 131) and a computation that hangs (`pricing.py` 128), see section 3.
Smaller ones that are not listed: a page full of handled failures with one end
date is answered for ever (343), as is a run whose clear is always refused (336);
two runs of a DAG that end in one second share the name of a report (301); a
pass that dies after the state file leaves no report (339); a member of the
consumer group that has no partition ends instead of waiting (`consumer.py` 243).

## 7. Plan

Done: all components above that keep state and change it.

1. Proofs: a composition of `Settlement` with `MeterMessages`, by which the
   values that win are those of the draws; what a delivery of the DAG promises a
   build.
2. `Settlement`, what is left: the reasons of `fct_settlement_revision`, the
   community's totals beside the readings, `--full-refresh`, two builds at once
   (a hand-started one beside the DAG's).
3. `PricingTool` against a running build: the several transactions in which
   figures are read.
4. `Revisions` with a third run of the weather, and the standard profiles as
   functions against their reference.
