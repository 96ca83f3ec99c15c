--------------------------- MODULE MeterConsumer ----------------------------
(***************************************************************************)
(* The meter consumer of src/megavolt/consumer.py: a consumer group that   *)
(* reads the readings topic, sends what it cannot read to the dead-letter  *)
(* topic, stores the rest in one transaction and only then commits its     *)
(* offsets. Several processes may share the group (the compose service and *)
(* a hand-run `--once`), each may die between any two steps, and every     *)
(* external call may fail before or after it took effect.                  *)
(*                                                                         *)
(* Abstraction: a message is its content, so the warehouse is the set of   *)
(* contents stored (the primary keys hash the content, ON CONFLICT DO      *)
(* NOTHING) and the dead-letter topic is the set of contents recorded.     *)
(***************************************************************************)
EXTENDS Integers, Sequences, FiniteSets

CONSTANTS
    Consumer,       \* processes that may run the consumer
    Once,           \* those started with --once
    Partition,      \* partitions of the readings topic
    Payload,        \* message contents
    Rejected,       \* contents validation refuses with MessageError
    Unstorable,     \* contents that pass validation and violate the schema
    BatchSize,      \* BATCH_SIZE
    Attempts,       \* DATABASE_ATTEMPTS
    MaxLog,         \* bound: messages per partition
    None            \* no owner

ASSUME MeterAssumption ==
    /\ Once \subseteq Consumer
    /\ Rejected \subseteq Payload
    /\ Unstorable \subseteq Payload \ Rejected
    /\ BatchSize \in Nat \ {0}
    /\ Attempts \in Nat \ {0}
    /\ MaxLog \in Nat
    /\ None \notin Consumer

VARIABLES
    log,            \* log[p]: the messages of a partition, in order
    committed,      \* committed[p]: the group's offset, or NoOffset
    deadLetters,    \* contents acknowledged by the dead-letter topic
    warehouse,      \* contents whose rows are committed
    members,        \* processes the group coordinator counts as alive
    rebalancing,    \* the coordinator waits for every member to poll
    owner,          \* owner[p]: the member a partition is assigned to
    pc,             \* pc[c]: where the process stands in the loop of run()
    position,       \* position[c][p]: the next offset the process fetches
    batch,          \* batch[c]: positions <<p, offset>> in hand
    attempts        \* attempts[c]: failed attempts to store this batch

topic == <<log, committed>>
sinks == <<deadLetters, warehouse>>
group == <<members, rebalancing, owner>>
process == <<pc, position, batch, attempts>>
vars == <<topic, sinks, group, process>>

NoOffset == -1001   \* the client's sentinel for "never committed"

Offset == 0 .. MaxLog - 1
Busy == {"deadLetters", "storing", "committing"}

(* A committed offset as a position: nothing committed means the start     *)
(* (auto.offset.reset = earliest; max(partition.offset, 0) in backlog).    *)
Floor(offset) == IF offset < 0 THEN 0 ELSE offset

Message(pos) == log[pos[1]][pos[2] + 1]
Messages(positions) == {Message(pos) : pos \in positions}
PartitionsOf(positions) == {pos[1] : pos \in positions}

(* Slip: the dead letters of a batch are not taken out of what is stored. *)
ReadableUnfiltered(positions) == Messages(positions)

(* partition(): what of a batch is dead and what is to be stored. *)
Dead(positions) == Messages(positions) \cap Rejected
Readable(positions) == Messages(positions) \ Rejected

(* Slip: one too many. *)
OffsetAfterNext(positions, p) ==
    2 + CHOOSE last \in Offset :
        <<p, last>> \in positions /\ \A o \in Offset : <<p, o>> \in positions => o <= last

(* next_offsets(): one past the highest offset processed, per partition. *)
NextOffset(positions, p) ==
    LET offsets == {o \in Offset : <<p, o>> \in positions}
    IN  CHOOSE next \in 1 .. MaxLog :
            next - 1 \in offsets /\ \A o \in offsets : o < next

(* Slip: partitions taken with assign(), outside the group's protocol. *)
CommitUnfenced(c) == c \in Consumer

(* The broker accepts an offset commit only from a member it still counts. *)
MayCommit(c) == c \in members

TypeOK ==
    /\ log \in [Partition -> Seq(Payload)]
    /\ \A p \in Partition : Len(log[p]) <= MaxLog
    /\ committed \in [Partition -> Nat \cup {NoOffset}]
    /\ deadLetters \subseteq Rejected
    /\ warehouse \subseteq Payload \ (Rejected \cup Unstorable)
    /\ members \subseteq Consumer
    /\ rebalancing \in BOOLEAN
    /\ owner \in [Partition -> Consumer \cup {None}]
    /\ pc \in [Consumer -> {"down", "polling"} \cup Busy]
    /\ position \in [Consumer -> [Partition -> Nat]]
    /\ batch \in [Consumer -> SUBSET (Partition \X Offset)]
    /\ attempts \in [Consumer -> 0 .. Attempts - 1]

Init ==
    /\ log = [p \in Partition |-> << >>]
    /\ committed = [p \in Partition |-> NoOffset]
    /\ deadLetters = {}
    /\ warehouse = {}
    /\ members = {}
    /\ rebalancing = FALSE
    /\ owner = [p \in Partition |-> None]
    /\ pc = [c \in Consumer |-> "down"]
    /\ position = [c \in Consumer |-> [p \in Partition |-> 0]]
    /\ batch = [c \in Consumer |-> {}]
    /\ attempts = [c \in Consumer |-> 0]

-----------------------------------------------------------------------------
(* The topic and the group coordinator, as the code uses them. *)

(* A producer appends a message: the delivery DAG, or anybody by hand. *)
Produce(p, m) ==
    /\ Len(log[p]) < MaxLog
    /\ log' = [log EXCEPT ![p] = Append(@, m)]
    /\ UNCHANGED <<committed, sinks, group, process>>

(* Slip: a group without offsets starts at the end (auto.offset.reset =    *)
(* latest).                                                                *)
RebalanceFromLatest ==
    /\ rebalancing
    /\ members # {}
    /\ \A c \in members : pc[c] = "polling"
    /\ owner' \in [Partition -> members]
    /\ position' = [c \in Consumer |->
                        IF c \in members
                        THEN [p \in Partition |->
                                IF committed[p] = NoOffset
                                THEN Len(log[p]) ELSE committed[p]]
                        ELSE position[c]]
    /\ rebalancing' = FALSE
    /\ UNCHANGED <<topic, sinks, members, pc, batch, attempts>>

(* Every member has polled: all partitions are assigned anew, and each     *)
(* member resumes where the group's offsets say.                           *)
Rebalance ==
    /\ rebalancing
    /\ members # {}
    /\ \A c \in members : pc[c] = "polling"
    /\ owner' \in [Partition -> members]
    /\ position' = [c \in Consumer |->
                        IF c \in members
                        THEN [p \in Partition |-> Floor(committed[p])]
                        ELSE position[c]]
    /\ rebalancing' = FALSE
    /\ UNCHANGED <<topic, sinks, members, pc, batch, attempts>>

(* A process that works on a batch longer than the session lasts is no     *)
(* longer a member; it does not know yet.                                  *)
Evict(c) ==
    /\ c \in members
    /\ pc[c] \in Busy
    /\ members' = members \ {c}
    /\ rebalancing' = TRUE
    /\ UNCHANGED <<topic, sinks, owner, process>>

(* The operator rewinds a group nobody is a member of. *)
Rewind(p, offset) ==
    /\ members = {}
    /\ offset < committed[p]
    /\ committed' = [committed EXCEPT ![p] = offset]
    /\ UNCHANGED <<log, sinks, group, process>>

-----------------------------------------------------------------------------
(* The process. *)

(* The process ends: nothing in hand survives, and the group notices. *)
Leave(c) ==
    /\ pc' = [pc EXCEPT ![c] = "down"]
    /\ batch' = [batch EXCEPT ![c] = {}]
    /\ position' = [position EXCEPT ![c] = [p \in Partition |-> 0]]
    /\ attempts' = [attempts EXCEPT ![c] = 0]
    /\ members' = members \ {c}
    /\ rebalancing' = (rebalancing \/ c \in members)
    /\ UNCHANGED owner

(* Started, by compose (restart: unless-stopped) or by hand; subscribes. *)
Start(c) ==
    /\ pc[c] = "down"
    /\ pc' = [pc EXCEPT ![c] = "polling"]
    /\ members' = members \cup {c}
    /\ rebalancing' = TRUE
    /\ UNCHANGED <<topic, sinks, owner, position, batch, attempts>>

(* consume(): up to BatchSize messages, per partition the next ones. *)
Consume(c) ==
    /\ pc[c] = "polling"
    /\ ~rebalancing
    /\ \E upTo \in [Partition -> 0 .. MaxLog] :
        LET taken == {pos \in Partition \X Offset :
                        position[c][pos[1]] <= pos[2] /\ pos[2] < upTo[pos[1]]}
        IN  /\ \A p \in Partition :
                /\ position[c][p] <= upTo[p]
                /\ upTo[p] <= Len(log[p])
                /\ owner[p] # c => upTo[p] = position[c][p]
            /\ taken # {}
            /\ Cardinality(taken) <= BatchSize
            /\ batch' = [batch EXCEPT ![c] = taken]
            /\ position' = [position EXCEPT ![c] = upTo]
    /\ pc' = [pc EXCEPT ![c] = "deadLetters"]
    /\ UNCHANGED <<topic, sinks, group, attempts>>

Assigned(c) == ~rebalancing /\ \E p \in Partition : owner[p] = c

(* An empty poll ends a --once process that holds partitions ("topic       *)
(* drained"), and any process once too many polls found none assigned      *)
(* (ConsumerError): nobody is left over for it, or a rebalance takes long. *)
EmptyPollEnds(c) ==
    /\ pc[c] = "polling"
    /\ Assigned(c) => c \in Once
    /\ Leave(c)
    /\ UNCHANGED <<topic, sinks>>

(* SIGTERM or SIGINT: the loop ends once the current batch is finished. *)
Stop(c) ==
    /\ pc[c] = "polling"
    /\ Leave(c)
    /\ UNCHANGED <<topic, sinks>>

(* _send_dead_letters(): every one acknowledged, and the batch goes on to  *)
(* the database, or straight to the offsets when nothing is left to store. *)
SendDeadLetters(c) ==
    /\ pc[c] = "deadLetters"
    /\ deadLetters' = deadLetters \cup Dead(batch[c])
    /\ pc' = [pc EXCEPT ![c] =
                IF Readable(batch[c]) = {} THEN "committing" ELSE "storing"]
    /\ UNCHANGED <<topic, warehouse, group, position, batch, attempts>>

(* Slip: the outcome of flush() is not looked at. *)
DeadLettersDropped(c) ==
    /\ pc[c] = "deadLetters"
    /\ Dead(batch[c]) # {}
    /\ \E some \in SUBSET Dead(batch[c]) : deadLetters' = deadLetters \cup some
    /\ pc' = [pc EXCEPT ![c] =
                IF Readable(batch[c]) = {} THEN "committing" ELSE "storing"]
    /\ UNCHANGED <<topic, warehouse, group, position, batch, attempts>>

(* Some were not acknowledged (the broker may hold them all the same):     *)
(* ConsumerError.                                                          *)
DeadLettersFail(c) ==
    /\ pc[c] = "deadLetters"
    /\ Dead(batch[c]) # {}
    /\ \E some \in SUBSET Dead(batch[c]) : deadLetters' = deadLetters \cup some
    /\ Leave(c)
    /\ UNCHANGED <<topic, warehouse>>

(* store_stream_batch(): one transaction for the whole batch. *)
Store(c) ==
    /\ pc[c] = "storing"
    /\ Readable(batch[c]) \cap Unstorable = {}
    /\ warehouse' = warehouse \cup Readable(batch[c])
    /\ pc' = [pc EXCEPT ![c] = "committing"]
    /\ attempts' = [attempts EXCEPT ![c] = 0]
    /\ UNCHANGED <<topic, deadLetters, group, position, batch>>

(* OperationalError: the connection broke before the transaction committed *)
(* or while its answer was on the way. with_retries() tries again, and     *)
(* gives up at the last attempt.                                           *)
StoreFails(c) ==
    /\ pc[c] = "storing"
    /\ \/ UNCHANGED warehouse
       \/ /\ Readable(batch[c]) \cap Unstorable = {}
          /\ warehouse' = warehouse \cup Readable(batch[c])
    /\ IF attempts[c] + 1 < Attempts
       THEN /\ attempts' = [attempts EXCEPT ![c] = @ + 1]
            /\ UNCHANGED <<group, pc, position, batch>>
       ELSE Leave(c)
    /\ UNCHANGED <<topic, deadLetters>>

(* Any other database error is not retried: the transaction rolled back    *)
(* and the process ends.                                                   *)
StoreRefused(c) ==
    /\ pc[c] = "storing"
    /\ Readable(batch[c]) \cap Unstorable # {}
    /\ Leave(c)
    /\ UNCHANGED <<topic, sinks>>

(* The group's offsets after the broker took those of some partitions. *)
CommittedWith(c, accepted) ==
    [p \in Partition |->
        IF p \in accepted THEN NextOffset(batch[c], p) ELSE committed[p]]

(* _commit(): synchronous, every partition accepted. *)
Commit(c) ==
    /\ pc[c] = "committing"
    /\ MayCommit(c)
    /\ committed' = CommittedWith(c, PartitionsOf(batch[c]))
    /\ pc' = [pc EXCEPT ![c] = "polling"]
    /\ batch' = [batch EXCEPT ![c] = {}]
    /\ UNCHANGED <<log, sinks, group, position, attempts>>

(* Refused for some partitions, for all of an evicted member's, or the     *)
(* answer never came: KafkaException.                                      *)
CommitFails(c) ==
    /\ pc[c] = "committing"
    /\ \E accepted \in SUBSET PartitionsOf(batch[c]) :
        /\ accepted = {} \/ MayCommit(c)
        /\ committed' = CommittedWith(c, accepted)
    /\ Leave(c)
    /\ UNCHANGED <<log, sinks>>

(* Killed between two steps. *)
Crash(c) ==
    /\ pc[c] # "down"
    /\ Leave(c)
    /\ UNCHANGED <<topic, sinks>>

-----------------------------------------------------------------------------
(* Every external call of a batch has an outcome: it is acknowledged,      *)
(* refused, or times out. Of the broker's calls that is so; psycopg.connect *)
(* of store_stream_batch has no time-out, and that it ends is assumed.      *)
Work(c) ==
    \/ SendDeadLetters(c) \/ DeadLettersFail(c)
    \/ Store(c) \/ StoreFails(c) \/ StoreRefused(c)
    \/ Commit(c) \/ CommitFails(c)

Step(c) ==
    \/ Start(c) \/ Consume(c) \/ EmptyPollEnds(c) \/ Stop(c)
    \/ Work(c)
    \/ Crash(c) \/ Evict(c)

Arrive == \E p \in Partition, m \in Payload : Produce(p, m)
Replay == \E p \in Partition, offset \in Offset : Rewind(p, offset)
GroupNext == Rebalance \/ \E c \in Consumer : Step(c)

Next == Arrive \/ GroupNext \/ Replay

Spec == Init /\ [][Next]_vars

(* Compose restarts the service, a working process does not hang, and what *)
(* is tried again and again within a session (a rebalance, a poll, a call) *)
(* succeeds in the end. Nothing says that a crash, an eviction or a        *)
(* failure ever stops happening.                                           *)
Fairness ==
    /\ SF_vars(Rebalance)
    /\ \A c \in Consumer \ Once :
        /\ WF_vars(Start(c))
        /\ WF_vars(Work(c))
        /\ SF_vars(Consume(c))
        /\ SF_vars(SendDeadLetters(c) /\ MayCommit(c))
        /\ SF_vars(Store(c) /\ MayCommit(c))
        /\ SF_vars(Commit(c))

(* Nobody rewinds the group for ever. *)
FairSpec == Init /\ [][Arrive \/ GroupNext]_vars /\ Fairness

-----------------------------------------------------------------------------
(* Properties. *)

(* A message is settled when it is in the warehouse or, unreadable, in the *)
(* dead-letter topic: it can no longer be lost.                            *)
SettledMessage(m) == IF m \in Rejected THEN m \in deadLetters ELSE m \in warehouse
Settled(p, o) == SettledMessage(log[p][o + 1])

(* The strengthening that makes NoLoss inductive: what a process has read  *)
(* past is settled or still in its hands, and what it has done with its    *)
(* batch matches the step it is at.                                        *)
IdleHoldsNothing == \A c \in Consumer : pc[c] \in {"down", "polling"} => batch[c] = {}

PositionsInLog ==
    \A c \in Consumer, p \in Partition : position[c][p] <= Len(log[p])

BatchEndsAtPosition ==
    \A c \in Consumer : \A p \in Partition, o \in Offset :
        <<p, o>> \in batch[c] =>
            o < position[c][p] /\ <<p, position[c][p] - 1>> \in batch[c]

ReadIsSettledOrInHand ==
    \A c \in Consumer, p \in Partition, o \in Offset :
        o < position[c][p] => <<p, o>> \in batch[c] \/ Settled(p, o)

StepsInOrder ==
    \A c \in Consumer : \A p \in Partition, o \in Offset :
        <<p, o>> \in batch[c] =>
            /\ pc[c] \in {"storing", "committing"} =>
                (log[p][o + 1] \in Rejected => log[p][o + 1] \in deadLetters)
            /\ pc[c] = "committing" => Settled(p, o)

(* No loss: whatever the group's offset stands above is settled, whichever *)
(* process crashed, was evicted or failed on the way, because the offsets  *)
(* are committed last (consumer.py:3-9).                                   *)
NoLoss ==
    \A p \in Partition :
        /\ committed[p] <= Len(log[p])
        /\ \A o \in Offset : o < committed[p] => Settled(p, o)

NoLossInv ==
    /\ IdleHoldsNothing
    /\ PositionsInLog
    /\ BatchEndsAtPosition
    /\ ReadIsSettledOrInHand
    /\ StepsInOrder
    /\ NoLoss

(* The group's offset only moves back when the operator rewinds it: a      *)
(* process that lost its session cannot drag the group behind what others  *)
(* have committed since (consumer.py:161-171).                             *)
OffsetsOnlyRewound ==
    [][\A p \in Partition : committed'[p] < committed[p] => members = {}]_vars

(* Every message of the topic ends in the warehouse or in the dead-letter  *)
(* topic (consumer.py:11-13, and DeadLetter: "a message that can never be  *)
(* stored").                                                               *)
EverythingSettles ==
    \A p \in Partition, o \in Offset :
        o < Len(log[p]) ~> o < Len(log[p]) /\ Settled(p, o)

(* A message the warehouse can store is stored whatever else is on the     *)
(* topic: what can never be stored is set aside and the offset moves on    *)
(* (consumer.py:11-13, 58).                                                *)
StorableSettles ==
    \A p \in Partition, o \in Offset :
        o < Len(log[p]) /\ log[p][o + 1] \notin Unstorable
            ~> o < Len(log[p]) /\ Settled(p, o)

(* The consumer implements the ledger. *)
settledPositions ==
    {pos \in Partition \X Offset :
        pos[2] < Len(log[pos[1]]) /\ Settled(pos[1], pos[2])}

Ledger == INSTANCE StreamLedger WITH
    delivered <- [p \in Partition |-> Len(log[p])],
    settled <- settledPositions,
    acknowledged <- [p \in Partition |-> Floor(committed[p])]

LedgerSpec == Ledger!Spec
=============================================================================
