--------------------------- MODULE MeterDelivery ----------------------------
(***************************************************************************)
(* The daily delivery around the consumer: dags/meter_stream_daily.py      *)
(* waits for the weather, produces one day's messages, and waits until     *)
(* backlog() of src/megavolt/consumer.py answers 0 before it marks the     *)
(* asset that starts the dbt build. Tasks fail and are retried, sensors    *)
(* time out, failed runs are cleared, days queue up in order, and anybody  *)
(* may put more messages on the topic by hand. backlog() is not atomic: it *)
(* reads the group's offsets first, then one watermark per partition.      *)
(***************************************************************************)
EXTENDS MeterConsumer

CONSTANTS
    Day,            \* delivery days, in order
    Delivery,       \* Delivery[d]: the messages of a day
    Stray,          \* messages anybody may produce by hand
    PartitionOf,    \* PartitionOf[m]: where the hash of the key puts it
    Retries         \* the DAG's default_args["retries"]

ASSUME DeliveryAssumption ==
    /\ Day \subseteq Nat
    /\ Delivery \in [Day -> SUBSET Payload]
    /\ Stray \subseteq Payload
    /\ PartitionOf \in [Payload -> Partition]
    /\ Retries \in Nat

VARIABLES
    status,         \* status[d]: where the day's DAG run stands
    task,           \* task[d]: the task it is at
    tries,          \* retries the running task has used up
    unsent,         \* messages the running produce task has yet to send
    poking,         \* the storage sensor is inside backlog()
    seen,           \* the group's offsets as this poke read them
    behind,         \* the sum so far
    left            \* partitions whose watermark is still to be read

run == <<status, task, tries>>
sensor == <<poking, seen, behind, left>>
dag == <<run, unsent, sensor>>
allVars == <<vars, dag>>

Running(d) == status[d] = "running"

DeliveryTypeOK ==
    /\ TypeOK
    /\ status \in [Day -> {"scheduled", "running", "failed", "marked"}]
    /\ task \in [Day -> {"wait_for_weather", "produce", "wait_for_storage"}]
    /\ tries \in 0 .. Retries
    /\ unsent \subseteq Payload
    /\ poking \in BOOLEAN
    /\ seen \in [Partition -> Nat \cup {NoOffset}]
    /\ behind \in Int
    /\ left \subseteq Partition

DeliveryInit ==
    /\ Init
    /\ status = [d \in Day |-> "scheduled"]
    /\ task = [d \in Day |-> "wait_for_weather"]
    /\ tries = 0
    /\ unsent = {}
    /\ poking = FALSE
    /\ seen = [p \in Partition |-> NoOffset]
    /\ behind = 0
    /\ left = {}

-----------------------------------------------------------------------------
(* One run at a time (max_active_runs=1), oldest day first (catchup). *)
StartRun(d) ==
    /\ status[d] = "scheduled"
    /\ \A e \in Day : ~Running(e) /\ (e < d => status[e] # "scheduled")
    /\ status' = [status EXCEPT ![d] = "running"]
    /\ tries' = 0
    /\ UNCHANGED <<vars, task, unsent, sensor>>

(* wait_for_weather lets the run on; produce_delivery_day starts afresh. *)
WeatherReady(d) ==
    /\ Running(d) /\ task[d] = "wait_for_weather"
    /\ task' = [task EXCEPT ![d] = "produce"]
    /\ tries' = 0
    /\ unsent' = Delivery[d]
    /\ UNCHANGED <<vars, status, sensor>>

(* _produce(): one message reaches the topic. *)
ProduceMessage(d) ==
    /\ Running(d) /\ task[d] = "produce"
    /\ \E m \in unsent :
        /\ Produce(PartitionOf[m], m)
        /\ unsent' = unsent \ {m}
    /\ UNCHANGED <<run, sensor>>

(* flush() left nothing behind and no delivery was reported as failed. *)
Produced(d) ==
    /\ Running(d) /\ task[d] = "produce"
    /\ unsent = {}
    /\ task' = [task EXCEPT ![d] = "wait_for_storage"]
    /\ tries' = 0
    /\ UNCHANGED <<vars, status, unsent, sensor>>

(* Slip: a partition nobody ever committed counts as empty. *)
PokeCommittedOnly(d) ==
    /\ Running(d) /\ task[d] = "wait_for_storage"
    /\ ~poking
    /\ poking' = TRUE
    /\ seen' = committed
    /\ behind' = 0
    /\ left' = {p \in Partition : committed[p] # NoOffset}
    /\ UNCHANGED <<vars, run, unsent>>

(* backlog(): the group's offsets, read in one request ... *)
Poke(d) ==
    /\ Running(d) /\ task[d] = "wait_for_storage"
    /\ ~poking
    /\ poking' = TRUE
    /\ seen' = committed
    /\ behind' = 0
    /\ left' = Partition
    /\ UNCHANGED <<vars, run, unsent>>

(* Slip: the sentinel of a partition never committed goes into the sum. *)
ReadSentinel(d, p) ==
    /\ Running(d) /\ poking
    /\ p \in left
    /\ behind' = behind + Len(log[p]) - seen[p]
    /\ left' = left \ {p}
    /\ UNCHANGED <<vars, run, unsent, poking, seen>>

(* ... then the end of each partition, one request after the other. *)
ReadWatermark(d, p) ==
    /\ Running(d) /\ poking
    /\ p \in left
    /\ behind' = behind + Len(log[p]) - Floor(seen[p])
    /\ left' = left \ {p}
    /\ UNCHANGED <<vars, run, unsent, poking, seen>>

(* Nothing behind: the asset is marked and the run is done. *)
MarkAsset(d) ==
    /\ Running(d) /\ poking
    /\ left = {} /\ behind = 0
    /\ status' = [status EXCEPT ![d] = "marked"]
    /\ poking' = FALSE
    /\ UNCHANGED <<vars, task, tries, unsent, seen, behind, left>>

(* Something behind: the sensor is rescheduled. *)
PokeAgain(d) ==
    /\ Running(d) /\ poking
    /\ left = {} /\ behind # 0
    /\ poking' = FALSE
    /\ UNCHANGED <<vars, run, unsent, seen, behind, left>>

(* A task raises: Airflow retries it from its beginning, then fails the    *)
(* run. What a failed produce task has sent stays on the topic. (One bound *)
(* for all three tasks, although the weather sensor has retries of its     *)
(* own: with none left a run fails, and may be cleared.)                   *)
TaskFails(d) ==
    /\ Running(d)
    /\ IF tries < Retries
       THEN /\ tries' = tries + 1
            /\ UNCHANGED status
       ELSE /\ status' = [status EXCEPT ![d] = "failed"]
            /\ UNCHANGED tries
    /\ unsent' = IF task[d] = "produce" THEN Delivery[d] ELSE unsent
    /\ poking' = FALSE
    /\ UNCHANGED <<vars, task, seen, behind, left>>

(* A sensor that times out is not retried. *)
SensorTimesOut(d) ==
    /\ Running(d) /\ task[d] # "produce"
    /\ status' = [status EXCEPT ![d] = "failed"]
    /\ poking' = FALSE
    /\ UNCHANGED <<vars, task, tries, unsent, seen, behind, left>>

(* A failed run is cleared: its failed task runs again. *)
ClearRun(d) ==
    /\ status[d] = "failed"
    /\ \A e \in Day : ~Running(e)
    /\ status' = [status EXCEPT ![d] = "running"]
    /\ tries' = 0
    /\ unsent' = IF task[d] = "produce" THEN Delivery[d] ELSE {}
    /\ UNCHANGED <<vars, task, sensor>>

ProduceByHand == \E m \in Stray : Produce(PartitionOf[m], m)

-----------------------------------------------------------------------------
Progress(d) ==
    \/ StartRun(d) \/ WeatherReady(d)
    \/ ProduceMessage(d) \/ Produced(d)
    \/ Poke(d) \/ PokeAgain(d) \/ MarkAsset(d)
    \/ \E p \in Partition : ReadWatermark(d, p)

Fault(d) == TaskFails(d) \/ SensorTimesOut(d) \/ ClearRun(d)

Outside == ProduceByHand \/ GroupNext

DeliveryNext ==
    \/ \E d \in Day : Progress(d) \/ Fault(d)
    \/ (Outside \/ Replay) /\ UNCHANGED dag

DeliverySpec == DeliveryInit /\ [][DeliveryNext]_allVars

(* The scheduler keeps going, no run fails for good while we watch, and    *)
(* the consumer is scheduled as in MeterConsumer.                          *)
FairNext ==
    \/ \E d \in Day : Progress(d) \/ (tries < Retries /\ TaskFails(d))
    \/ Outside /\ UNCHANGED dag

FairDeliverySpec ==
    /\ DeliveryInit
    /\ [][FairNext]_allVars
    /\ Fairness
    /\ \A d \in Day : WF_allVars(Progress(d))

-----------------------------------------------------------------------------
(* Properties. *)

(* The asset promises a stored day: when the build starts, every message   *)
(* of the day is in the warehouse or recorded as unreadable, although the  *)
(* sensor added up counters it read at different moments, while others     *)
(* consumed and produced (meter_stream_daily.py:74-84).                    *)
AssetMeansStored ==
    \A d \in Day : status[d] = "marked" => \A m \in Delivery[d] : SettledMessage(m)

(* The strengthening that makes it inductive. *)
OneRun == \A d, e \in Day : Running(d) /\ Running(e) => d = e

PokesInStorage ==
    poking => \E d \in Day : Running(d) /\ task[d] = "wait_for_storage"

OnTopic(m) ==
    \E o \in Offset :
        o < Len(log[PartitionOf[m]]) /\ log[PartitionOf[m]][o + 1] = m

(* Nothing of a day gets lost between produce and the topic. *)
SentOrUnsent ==
    \A d \in Day : \A m \in Delivery[d] :
        /\ Running(d) /\ task[d] = "produce" => m \in unsent \/ OnTopic(m)
        /\ status[d] # "scheduled" /\ task[d] = "wait_for_storage" => OnTopic(m)

ScheduledFirst == \A d \in Day : status[d] = "scheduled" => task[d] = "wait_for_weather"

(* What a poke reads once stays true of the log, whatever is committed,    *)
(* rewound or produced meanwhile.                                          *)
SnapshotSettled ==
    \A p \in Partition :
        /\ seen[p] <= Len(log[p])
        /\ \A o \in Offset : o < seen[p] => Settled(p, o)

(* The sum of a poke is never negative, so partitions cannot cancel out.   *)
BacklogIsCount == behind >= 0

(* As long as the sum is 0, the partitions already read hold nothing of    *)
(* the day that is not settled.                                            *)
CountedIsSettled ==
    poking /\ behind = 0 =>
        \A d \in Day : Running(d) =>
            \A m \in Delivery[d] : PartitionOf[m] \notin left => SettledMessage(m)

DeliveryInv ==
    /\ OneRun /\ PokesInStorage /\ SentOrUnsent /\ ScheduledFirst
    /\ SnapshotSettled /\ BacklogIsCount /\ CountedIsSettled
    /\ AssetMeansStored

(* A run that waits for the storage ends up marking the asset. *)
DeliveryCompletes == \A d \in Day : Running(d) ~> status[d] = "marked"
=============================================================================
