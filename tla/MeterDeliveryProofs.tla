------------------------ MODULE MeterDeliveryProofs -------------------------
(***************************************************************************)
(* Theorems about MeterConsumer and MeterDelivery for any number of days,  *)
(* processes, partitions, messages and attempts. First the consumer group: *)
(* it loses nothing, only a rewind moves an offset back, and it implements *)
(* StreamLedger. Then the delivery, whose steps are steps of the group:    *)
(* the asset is marked only when the whole day is settled.                 *)
(***************************************************************************)
EXTENDS MeterDelivery, TLAPS


-----------------------------------------------------------------------------
(* The next offset of a batch, where the batch reaches up to `top`. *)
LEMMA NextOffsetIs ==
    ASSUME NEW positions, NEW p,
           NEW top \in 1 .. MaxLog, MaxLog \in Nat,
           <<p, top - 1>> \in positions,
           \A o \in Offset : <<p, o>> \in positions => o < top
    PROVE  NextOffset(positions, p) = top
<1> DEFINE offsets == {o \in Offset : <<p, o>> \in positions}
           Q(next) == next - 1 \in offsets /\ \A o \in offsets : o < next
<1>1. top - 1 \in offsets
    BY DEF Offset
<1>2. Q(top)
    BY <1>1
<1>3. \A next \in 1 .. MaxLog : Q(next) => next = top
    <2> SUFFICES ASSUME NEW next \in 1 .. MaxLog, Q(next)  PROVE next = top
        OBVIOUS
    <2>1. top - 1 < next
        BY <1>1
    <2>2. next - 1 \in Offset /\ <<p, next - 1>> \in positions
        OBVIOUS
    <2>3. next - 1 < top
        BY <2>2
    <2> QED
        BY <2>1, <2>3
<1>4. NextOffset(positions, p) = CHOOSE next \in 1 .. MaxLog : Q(next)
    BY DEF NextOffset
<1> HIDE DEF Q
<1>5. Q(CHOOSE next \in 1 .. MaxLog : Q(next))
      /\ (CHOOSE next \in 1 .. MaxLog : Q(next)) \in 1 .. MaxLog
    BY <1>2
<1> QED
    BY <1>3, <1>4, <1>5

-----------------------------------------------------------------------------
(* Every variable keeps its type: in particular only unreadable messages   *)
(* become dead letters and only storable ones are stored.                  *)
LEMMA LeaveType ==
    ASSUME TypeOK, MeterAssumption, NEW c \in Consumer, Leave(c)
    PROVE  /\ members' \subseteq Consumer
           /\ rebalancing' \in BOOLEAN
           /\ owner' \in [Partition -> Consumer \cup {None}]
           /\ pc' \in [Consumer -> {"down", "polling"} \cup Busy]
           /\ position' \in [Consumer -> [Partition -> Nat]]
           /\ batch' \in [Consumer -> SUBSET (Partition \X Offset)]
           /\ attempts' \in [Consumer -> 0 .. Attempts - 1]
<1>1. 0 \in 0 .. Attempts - 1
    BY DEF MeterAssumption
<1>2. [p \in Partition |-> 0] \in [Partition -> Nat]
    OBVIOUS
<1> QED
    BY <1>1, <1>2 DEF TypeOK, Leave

LEMMA MessagesType ==
    ASSUME TypeOK, NEW c \in Consumer,
           \A p \in Partition, o \in Offset : <<p, o>> \in batch[c] => o < Len(log[p])
    PROVE  Messages(batch[c]) \subseteq Payload
<1> SUFFICES ASSUME NEW pos \in batch[c]  PROVE Message(pos) \in Payload
    BY DEF Messages
<1>1. PICK p \in Partition, o \in Offset : pos = <<p, o>>
    BY DEF TypeOK
<1>2. o + 1 \in 1 .. Len(log[p]) /\ log[p] \in Seq(Payload)
    BY <1>1 DEF TypeOK, Offset
<1> QED
    BY <1>1, <1>2 DEF Message

(* In a reachable state, the offset committed for a partition of a batch   *)
(* is the position the process has read up to.                             *)
LEMMA BatchNext ==
    ASSUME TypeOK, NoLossInv, MeterAssumption, NEW c \in Consumer,
           NEW p \in Partition, NEW o \in Offset, <<p, o>> \in batch[c]
    PROVE  NextOffset(batch[c], p) = position[c][p]
<1>1. /\ <<p, position[c][p] - 1>> \in batch[c]
      /\ \A q \in Offset : <<p, q>> \in batch[c] => q < position[c][p]
    BY DEF NoLossInv, BatchEndsAtPosition
<1>2. position[c][p] \in 1 .. MaxLog
    <2>1. o < position[c][p] /\ position[c][p] <= Len(log[p]) /\ Len(log[p]) <= MaxLog
        BY <1>1 DEF NoLossInv, PositionsInLog, TypeOK
    <2> QED
        BY <2>1 DEF TypeOK, Offset, MeterAssumption
<1> QED
    BY <1>1, <1>2, NextOffsetIs DEF MeterAssumption

LEMMA BatchInLog ==
    ASSUME TypeOK, NoLossInv, MeterAssumption, NEW c \in Consumer
    PROVE  /\ \A p \in Partition, o \in Offset : <<p, o>> \in batch[c] => o < Len(log[p])
           /\ Messages(batch[c]) \subseteq Payload
<1>1. ASSUME NEW p \in Partition, NEW o \in Offset, <<p, o>> \in batch[c]
      PROVE  o < Len(log[p])
    <2>1. o < position[c][p] /\ position[c][p] <= Len(log[p])
        BY <1>1 DEF NoLossInv, PositionsInLog, BatchEndsAtPosition
    <2>2. o \in Nat /\ position[c][p] \in Nat /\ Len(log[p]) \in Nat
        BY DEF TypeOK, Offset
    <2> QED
        BY <2>1, <2>2
<1> QED
    BY <1>1, MessagesType

(* The type invariant is kept by every step, given what a process has in   *)
(* hand is in the log.                                                     *)
LEMMA TypeStep ==
    ASSUME TypeOK, NoLossInv, MeterAssumption, [Next]_vars
    PROVE  TypeOK'
<1> USE DEF topic, sinks, group, process
<1>1. ASSUME NEW p \in Partition, NEW m \in Payload, Produce(p, m)
      PROVE  TypeOK'
    <2>1. log' \in [Partition -> Seq(Payload)]
        BY <1>1 DEF TypeOK, Produce
    <2>2. \A q \in Partition : Len(log'[q]) <= MaxLog
        BY <1>1 DEF TypeOK, Produce, MeterAssumption
    <2> QED
        BY <1>1, <2>1, <2>2 DEF TypeOK, Produce
<1>2. ASSUME Rebalance  PROVE TypeOK'
    <2>1. \A p \in Partition : Floor(committed[p]) \in Nat
        BY DEF TypeOK, Floor, NoOffset
    <2> QED
        BY <1>2, <2>1 DEF TypeOK, Rebalance
<1>3. ASSUME NEW p \in Partition, NEW o \in Offset, Rewind(p, o)
      PROVE  TypeOK'
    BY <1>3 DEF TypeOK, Rewind, Offset
<1>4. ASSUME NEW c \in Consumer, Start(c)  PROVE TypeOK'
    BY <1>4 DEF TypeOK, Start
<1>5. ASSUME NEW c \in Consumer, Consume(c)  PROVE TypeOK'
    <2>1. PICK upTo \in [Partition -> 0 .. MaxLog] :
            /\ batch' = [batch EXCEPT ![c] =
                    {pos \in Partition \X Offset :
                        position[c][pos[1]] <= pos[2] /\ pos[2] < upTo[pos[1]]}]
            /\ position' = [position EXCEPT ![c] = upTo]
        BY <1>5 DEF Consume
    <2>2. upTo \in [Partition -> Nat]
        BY DEF MeterAssumption
    <2>3. position' \in [Consumer -> [Partition -> Nat]]
        BY <2>1, <2>2 DEF TypeOK
    <2>4. batch' \in [Consumer -> SUBSET (Partition \X Offset)]
        BY <2>1 DEF TypeOK
    <2> QED
        BY <1>5, <2>3, <2>4 DEF TypeOK, Consume, Busy
<1>6. ASSUME NEW c \in Consumer, EmptyPollEnds(c) \/ Stop(c) \/ Crash(c)
      PROVE  TypeOK'
    <2>1. Leave(c) /\ UNCHANGED <<topic, sinks>>
        BY <1>6 DEF EmptyPollEnds, Stop, Crash
    <2> QED
        BY <2>1, LeaveType DEF TypeOK
<1>7. ASSUME NEW c \in Consumer, SendDeadLetters(c)  PROVE TypeOK'
    BY <1>7 DEF TypeOK, SendDeadLetters, Dead, Busy
<1>8. ASSUME NEW c \in Consumer, DeadLettersFail(c)  PROVE TypeOK'
    <2>1. deadLetters' \subseteq Rejected
        BY <1>8 DEF TypeOK, DeadLettersFail, Dead
    <2> QED
        BY <1>8, <2>1, LeaveType DEF TypeOK, DeadLettersFail
<1>9. ASSUME NEW c \in Consumer, Store(c)  PROVE TypeOK'
    <2>1. warehouse' \subseteq Payload \ (Rejected \cup Unstorable)
        BY <1>9, BatchInLog DEF TypeOK, Store, Readable
    <2>2. 0 \in 0 .. Attempts - 1
        BY DEF MeterAssumption
    <2> QED
        BY <1>9, <2>1, <2>2 DEF TypeOK, Store, Busy
<1>10. ASSUME NEW c \in Consumer, StoreFails(c)  PROVE TypeOK'
    <2>1. warehouse' \subseteq Payload \ (Rejected \cup Unstorable)
        BY <1>10, BatchInLog DEF TypeOK, StoreFails, Readable
    <2>2. CASE attempts[c] + 1 < Attempts
        <3>1. attempts[c] + 1 \in 0 .. Attempts - 1
            BY <2>2 DEF TypeOK, MeterAssumption
        <3>2. /\ attempts' = [attempts EXCEPT ![c] = @ + 1]
              /\ UNCHANGED <<topic, deadLetters, group, pc, position, batch>>
            BY <1>10, <2>2 DEF StoreFails
        <3>3. attempts' \in [Consumer -> 0 .. Attempts - 1]
            BY <3>1, <3>2 DEF TypeOK
        <3> QED
            BY <2>1, <3>2, <3>3 DEF TypeOK
    <2>3. CASE ~(attempts[c] + 1 < Attempts)
        <3>1. Leave(c)
            BY <1>10, <2>3 DEF StoreFails
        <3> QED
            BY <1>10, <2>1, <3>1, LeaveType DEF TypeOK, StoreFails
    <2> QED
        BY <2>2, <2>3
<1>11. ASSUME NEW c \in Consumer, StoreRefused(c)  PROVE TypeOK'
    BY <1>11, LeaveType DEF TypeOK, StoreRefused
<1>12. ASSUME NEW c \in Consumer, NEW accepted \in SUBSET PartitionsOf(batch[c])
       PROVE  CommittedWith(c, accepted) \in [Partition -> Nat \cup {NoOffset}]
    <2> SUFFICES ASSUME NEW p \in accepted  PROVE NextOffset(batch[c], p) \in Nat
        BY DEF CommittedWith, TypeOK
    <2>1. PICK o \in Offset : <<p, o>> \in batch[c] /\ p \in Partition
        <3>1. PICK pos \in batch[c] : pos[1] = p
            BY DEF PartitionsOf
        <3>2. pos \in Partition \X Offset
            BY DEF TypeOK
        <3>3. pos = <<p, pos[2]>> /\ p \in Partition /\ pos[2] \in Offset
            BY <3>1, <3>2
        <3> QED
            BY <3>3
    <2>2. NextOffset(batch[c], p) = position[c][p]
        BY <2>1, BatchNext
    <2> QED
        BY <2>1, <2>2 DEF TypeOK
<1>13. ASSUME NEW c \in Consumer, Commit(c)  PROVE TypeOK'
    BY <1>12, <1>13 DEF TypeOK, Commit
<1>14. ASSUME NEW c \in Consumer, CommitFails(c)  PROVE TypeOK'
    <2>1. committed' \in [Partition -> Nat \cup {NoOffset}]
        BY <1>12, <1>14 DEF CommitFails
    <2> QED
        BY <1>14, <2>1, LeaveType DEF TypeOK, CommitFails
<1>15. ASSUME NEW c \in Consumer, Evict(c)  PROVE TypeOK'
    BY <1>15 DEF TypeOK, Evict
<1>16. ASSUME UNCHANGED vars  PROVE TypeOK'
    BY <1>16 DEF TypeOK, vars
<1> QED
    BY <1>1, <1>2, <1>3, <1>4, <1>5, <1>6, <1>7, <1>8, <1>9, <1>10, <1>11,
       <1>13, <1>14, <1>15, <1>16
       DEF Next, Arrive, GroupNext, Replay, Step, Work

-----------------------------------------------------------------------------
(* What is settled stays settled: the log only grows at its end, and both  *)
(* sinks only grow.                                                        *)
LEMMA NextMonotone ==
    ASSUME TypeOK, [Next]_vars
    PROVE  /\ \A p \in Partition :
                /\ Len(log[p]) <= Len(log'[p])
                /\ \A i \in 1 .. Len(log[p]) : log'[p][i] = log[p][i]
           /\ deadLetters \subseteq deadLetters'
           /\ warehouse \subseteq warehouse'
<1> USE DEF topic, sinks, group, process
<1>1. CASE Arrive
    <2>1. PICK q \in Partition, m \in Payload : Produce(q, m)
        BY <1>1 DEF Arrive
    <2>2. log' = [log EXCEPT ![q] = Append(log[q], m)] /\ UNCHANGED sinks
        BY <2>1 DEF Produce
    <2>3. log[q] \in Seq(Payload)
        BY DEF TypeOK
    <2> QED
        BY <2>2, <2>3 DEF TypeOK
<1>2. CASE UNCHANGED log
    <2>1. /\ deadLetters \subseteq deadLetters'
          /\ warehouse \subseteq warehouse'
        <3>1. ASSUME NEW c \in Consumer, Work(c)
              PROVE  deadLetters \subseteq deadLetters' /\ warehouse \subseteq warehouse'
            BY <3>1 DEF Work, SendDeadLetters, DeadLettersFail, Store, StoreFails,
                        StoreRefused, Commit, CommitFails
        <3>2. ASSUME NEW c \in Consumer,
                     Start(c) \/ Consume(c) \/ EmptyPollEnds(c) \/ Stop(c)
                        \/ Crash(c) \/ Evict(c)
              PROVE  UNCHANGED sinks
            BY <3>2 DEF Start, Consume, EmptyPollEnds, Stop, Crash, Evict
        <3>3. Rebalance => UNCHANGED sinks
            BY DEF Rebalance
        <3>4. Arrive \/ Replay => UNCHANGED sinks
            BY DEF Arrive, Replay, Produce, Rewind
        <3>5. UNCHANGED vars => UNCHANGED sinks
            BY DEF vars
        <3> QED
            BY <3>1, <3>2, <3>3, <3>4, <3>5 DEF Next, GroupNext, Step
    <2> QED
        BY <1>2, <2>1 DEF TypeOK
<1>3. Next /\ ~Arrive => UNCHANGED log
    BY DEF Next, GroupNext, Replay, Step, Work, Start, Consume, EmptyPollEnds, Stop,
           SendDeadLetters, DeadLettersFail, Store, StoreFails, StoreRefused,
           Commit, CommitFails, Crash, Evict, Rebalance, Rewind
<1> QED
    BY <1>1, <1>2, <1>3 DEF vars

LEMMA SettledStays ==
    ASSUME TypeOK, [Next]_vars, NEW p \in Partition, NEW o \in Offset,
           o < Len(log[p]), Settled(p, o), TypeOK'
    PROVE  Settled(p, o)' /\ o < Len(log'[p]) /\ log'[p][o + 1] = log[p][o + 1]
<1>1. o + 1 \in 1 .. Len(log[p]) /\ Len(log[p]) \in Nat /\ Len(log'[p]) \in Nat
    BY DEF Offset, TypeOK
<1>2. log'[p][o + 1] = log[p][o + 1] /\ Len(log[p]) <= Len(log'[p])
    BY <1>1, NextMonotone
<1> QED
    BY <1>1, <1>2, NextMonotone DEF Settled, SettledMessage, Offset

-----------------------------------------------------------------------------
(* NoLossInv for one process, and what keeps it. *)
ProcessInv(c) ==
    /\ pc[c] \in {"down", "polling"} => batch[c] = {}
    /\ \A p \in Partition : position[c][p] <= Len(log[p])
    /\ \A p \in Partition, o \in Offset :
        <<p, o>> \in batch[c] =>
            /\ o < position[c][p]
            /\ <<p, position[c][p] - 1>> \in batch[c]
            /\ pc[c] \in {"storing", "committing"} =>
                (log[p][o + 1] \in Rejected => log[p][o + 1] \in deadLetters)
            /\ pc[c] = "committing" => Settled(p, o)
    /\ \A p \in Partition, o \in Offset :
        o < position[c][p] => <<p, o>> \in batch[c] \/ Settled(p, o)

LEMMA ProcessWise == NoLossInv <=> NoLoss /\ \A c \in Consumer : ProcessInv(c)
BY DEF NoLossInv, ProcessInv, IdleHoldsNothing, PositionsInLog, BatchEndsAtPosition,
       ReadIsSettledOrInHand, StepsInOrder

(* A process whose own state does not change keeps it whatever others do. *)
LEMMA ProcessFrame ==
    ASSUME TypeOK, TypeOK', [Next]_vars, NEW c \in Consumer, ProcessInv(c),
           pc'[c] = pc[c], batch'[c] = batch[c], position'[c] = position[c]
    PROVE  ProcessInv(c)'
<1>1. ASSUME NEW p \in Partition  PROVE position'[c][p] <= Len(log'[p])
    <2>1. /\ position[c][p] <= Len(log[p])
          /\ Len(log[p]) <= Len(log'[p])
        BY NextMonotone DEF ProcessInv
    <2> QED
        BY <2>1 DEF TypeOK
<1>2. ASSUME NEW p \in Partition, NEW o \in Offset, o < position[c][p]
      PROVE  /\ log'[p][o + 1] = log[p][o + 1]
             /\ Settled(p, o) => Settled(p, o)'
             /\ <<p, o>> \in batch[c] \/ Settled(p, o)
    <2>1. o < Len(log[p]) /\ o + 1 \in 1 .. Len(log[p])
        BY <1>2 DEF ProcessInv, TypeOK, Offset
    <2>2. log'[p][o + 1] = log[p][o + 1]
        BY <2>1, NextMonotone
    <2>3. Settled(p, o) => Settled(p, o)'
        BY <2>1, SettledStays
    <2> QED
        BY <1>2, <2>2, <2>3 DEF ProcessInv
<1> QED
    BY <1>1, <1>2, NextMonotone DEF ProcessInv

(* A process that ended holds nothing. *)
LEMMA ProcessLeaves ==
    ASSUME TypeOK, TypeOK', NEW c \in Consumer, Leave(c)
    PROVE  ProcessInv(c)'
<1>1. /\ batch'[c] = {} /\ pc'[c] = "down"
      /\ \A p \in Partition : position'[c][p] = 0
    BY DEF Leave, TypeOK
<1>2. \A p \in Partition : Len(log'[p]) \in Nat
    BY DEF TypeOK
<1> QED
    BY <1>1, <1>2 DEF ProcessInv, Offset

LEMMA OthersUntouched ==
    ASSUME TypeOK, NEW c \in Consumer, NEW d \in Consumer \ {c},
           Leave(c) \/ Step(c)
    PROVE  pc'[d] = pc[d] /\ batch'[d] = batch[d] /\ position'[d] = position[d]
<1> USE DEF process
<1>1. Leave(c) =>
        pc'[d] = pc[d] /\ batch'[d] = batch[d] /\ position'[d] = position[d]
    BY DEF Leave, TypeOK
<1>2. Step(c) /\ ~Leave(c) =>
        pc'[d] = pc[d] /\ batch'[d] = batch[d] /\ position'[d] = position[d]
    BY DEF Step, Work, TypeOK, Start, Consume, EmptyPollEnds, Stop, Crash, Evict,
           SendDeadLetters, DeadLettersFail, Store, StoreFails, StoreRefused,
           Commit, CommitFails
<1> QED
    BY <1>1, <1>2

(* The group's offsets stand above settled messages as long as none of     *)
(* them moves forward.                                                     *)
LEMMA OffsetsFrame ==
    ASSUME TypeOK, TypeOK', [Next]_vars, NoLoss, NEW p \in Partition,
           committed'[p] <= committed[p]
    PROVE  /\ committed'[p] <= Len(log'[p])
           /\ \A o \in Offset : o < committed'[p] => Settled(p, o)'
<1>1. /\ committed[p] \in Int /\ committed'[p] \in Int
      /\ Len(log[p]) \in Nat /\ Len(log'[p]) \in Nat
    BY DEF TypeOK, NoOffset
<1>2. committed[p] <= Len(log[p]) /\ Len(log[p]) <= Len(log'[p])
    BY NextMonotone DEF NoLoss
<1>3. ASSUME NEW o \in Offset, o < committed'[p]  PROVE Settled(p, o)'
    <2>1. o < committed[p] /\ o < Len(log[p])
        BY <1>1, <1>2, <1>3 DEF Offset
    <2> QED
        BY <2>1, SettledStays DEF NoLoss
<1> QED
    BY <1>1, <1>2, <1>3

(* What a process does with its own batch. *)
LEMMA ConsumeKeeps ==
    ASSUME TypeOK, TypeOK', MeterAssumption, [Next]_vars,
           NEW c \in Consumer, ProcessInv(c), Consume(c)
    PROVE  ProcessInv(c)'
<1> USE DEF topic, sinks, group, process
<1>1. PICK upTo \in [Partition -> 0 .. MaxLog] :
        /\ \A p \in Partition :
            /\ position[c][p] <= upTo[p]
            /\ upTo[p] <= Len(log[p])
        /\ batch' = [batch EXCEPT ![c] =
                {pos \in Partition \X Offset :
                    position[c][pos[1]] <= pos[2] /\ pos[2] < upTo[pos[1]]}]
        /\ position' = [position EXCEPT ![c] = upTo]
    BY DEF Consume
<1>2. /\ batch[c] = {}
      /\ pc'[c] = "deadLetters"
      /\ position'[c] = upTo
      /\ \A p \in Partition, o \in Offset :
            <<p, o>> \in batch'[c] <=> position[c][p] <= o /\ o < upTo[p]
    BY <1>1 DEF Consume, ProcessInv, TypeOK
<1>3. \A p \in Partition : upTo[p] \in 0 .. MaxLog /\ position[c][p] \in Nat
    BY DEF TypeOK
<1>4. ASSUME NEW p \in Partition, NEW o \in Offset, <<p, o>> \in batch'[c]
      PROVE  o < upTo[p] /\ <<p, upTo[p] - 1>> \in batch'[c]
    <2>1. position[c][p] <= o /\ o < upTo[p]
        BY <1>2, <1>4
    <2>2. upTo[p] - 1 \in Offset /\ position[c][p] <= upTo[p] - 1
        BY <1>3, <2>1 DEF Offset, MeterAssumption
    <2> QED
        BY <1>2, <1>3, <2>1, <2>2
<1>5. ASSUME NEW p \in Partition, NEW o \in Offset, o < upTo[p]
      PROVE  <<p, o>> \in batch'[c] \/ Settled(p, o)'
    <2>1. CASE position[c][p] <= o
        BY <1>2, <1>5, <2>1
    <2>2. CASE o < position[c][p]
        <3>1. Settled(p, o)
            BY <1>2, <2>2 DEF ProcessInv
        <3> QED
            BY <3>1 DEF Consume, Settled, SettledMessage
    <2> QED
        BY <1>3, <2>1, <2>2 DEF Offset
<1>6. UNCHANGED log
    BY DEF Consume
<1> QED
    BY <1>1, <1>2, <1>4, <1>5, <1>6 DEF ProcessInv

LEMMA SendKeeps ==
    ASSUME TypeOK, TypeOK', [Next]_vars, NEW c \in Consumer, ProcessInv(c),
           SendDeadLetters(c)
    PROVE  ProcessInv(c)'
<1> USE DEF topic, sinks, group, process
<1>1. /\ UNCHANGED <<log, batch, position, warehouse>>
      /\ deadLetters' = deadLetters \cup Dead(batch[c])
      /\ pc'[c] = IF Readable(batch[c]) = {} THEN "committing" ELSE "storing"
    BY DEF SendDeadLetters, TypeOK
<1>2. ASSUME NEW p \in Partition, NEW o \in Offset, <<p, o>> \in batch[c]
      PROVE  /\ log[p][o + 1] \in Messages(batch[c])
             /\ log[p][o + 1] \in Rejected => log[p][o + 1] \in deadLetters'
             /\ pc'[c] = "committing" => log[p][o + 1] \in Rejected
    <2>1. log[p][o + 1] = Message(<<p, o>>)
        BY DEF Message
    <2>2. log[p][o + 1] \in Messages(batch[c])
        BY <1>2, <2>1 DEF Messages
    <2> QED
        BY <1>1, <2>2 DEF Dead, Readable
<1>3. ASSUME NEW p \in Partition, NEW o \in Offset, Settled(p, o)
      PROVE  Settled(p, o)'
    BY <1>1, <1>3 DEF Settled, SettledMessage
<1>4. pc'[c] \notin {"down", "polling"}
    BY <1>1
<1>5. ASSUME NEW p \in Partition, NEW o \in Offset, <<p, o>> \in batch[c],
             pc'[c] = "committing"
      PROVE  Settled(p, o)'
    BY <1>1, <1>2, <1>5 DEF Settled, SettledMessage
<1> QED
    BY <1>1, <1>2, <1>3, <1>4, <1>5 DEF ProcessInv

LEMMA StoreKeeps ==
    ASSUME TypeOK, TypeOK', [Next]_vars, NEW c \in Consumer, ProcessInv(c), Store(c)
    PROVE  ProcessInv(c)'
<1> USE DEF topic, sinks, group, process
<1>1. /\ UNCHANGED <<log, batch, position, deadLetters>>
      /\ warehouse' = warehouse \cup Readable(batch[c])
      /\ pc[c] = "storing" /\ pc'[c] = "committing"
    BY DEF Store, TypeOK
<1>2. ASSUME NEW p \in Partition, NEW o \in Offset, <<p, o>> \in batch[c]
      PROVE  Settled(p, o)'
    <2>1. log[p][o + 1] = Message(<<p, o>>)
        BY DEF Message
    <2>2. log[p][o + 1] \in Messages(batch[c])
        BY <1>2, <2>1 DEF Messages
    <2>3. log[p][o + 1] \in Rejected => log[p][o + 1] \in deadLetters
        BY <1>1, <1>2 DEF ProcessInv
    <2> QED
        BY <1>1, <2>2, <2>3 DEF Settled, SettledMessage, Readable
<1>3. ASSUME NEW p \in Partition, NEW o \in Offset, Settled(p, o)
      PROVE  Settled(p, o)'
    BY <1>1, <1>3 DEF Settled, SettledMessage
<1> QED
    BY <1>1, <1>2, <1>3 DEF ProcessInv

LEMMA CommitKeeps ==
    ASSUME TypeOK, TypeOK', [Next]_vars, NEW c \in Consumer, ProcessInv(c), Commit(c)
    PROVE  ProcessInv(c)'
<1> USE DEF topic, sinks, group, process
<1>1. /\ UNCHANGED <<log, position, sinks>>
      /\ batch'[c] = {}
      /\ pc[c] = "committing" /\ pc'[c] = "polling"
    BY DEF Commit, TypeOK
<1>2. ASSUME NEW p \in Partition, NEW o \in Offset, o < position[c][p]
      PROVE  Settled(p, o)'
    <2>1. Settled(p, o)
        BY <1>1, <1>2 DEF ProcessInv
    <2> QED
        BY <1>1, <2>1 DEF Settled, SettledMessage
<1> QED
    BY <1>1, <1>2 DEF ProcessInv

(* Offsets move forward over a batch only, when all of it is settled. *)
LEMMA CommitSafe ==
    ASSUME TypeOK, TypeOK', NoLossInv, MeterAssumption, [Next]_vars, NEW c \in Consumer,
           pc[c] = "committing", NEW accepted \in SUBSET PartitionsOf(batch[c]),
           committed' = CommittedWith(c, accepted)
    PROVE  NoLoss'
<1>1. ProcessInv(c) /\ NoLoss
    BY ProcessWise
<1> SUFFICES ASSUME NEW p \in Partition
             PROVE  /\ committed'[p] <= Len(log'[p])
                    /\ \A o \in Offset : o < committed'[p] => Settled(p, o)'
    BY DEF NoLoss
<1>2. CASE p \notin accepted
    <2>1. committed'[p] = committed[p] /\ committed[p] \in Int
        BY <1>2 DEF CommittedWith, TypeOK, NoOffset
    <2> QED
        BY <1>1, <2>1, OffsetsFrame
<1>3. CASE p \in accepted
    <2>1. PICK q \in Offset : <<p, q>> \in batch[c]
        <3>1. PICK pos \in batch[c] : pos[1] = p
            BY <1>3 DEF PartitionsOf
        <3>2. pos \in Partition \X Offset
            BY DEF TypeOK
        <3> QED
            BY <3>1, <3>2
    <2>2. committed'[p] = position[c][p]
        BY <1>3, <2>1, BatchNext DEF CommittedWith
    <2>3. /\ position[c][p] <= Len(log[p])
          /\ Len(log[p]) <= Len(log'[p])
          /\ position[c][p] \in Nat /\ Len(log[p]) \in Nat /\ Len(log'[p]) \in Nat
        BY <1>1, NextMonotone DEF ProcessInv, TypeOK
    <2>4. ASSUME NEW o \in Offset, o < position[c][p]
          PROVE  Settled(p, o)'
        <3>1. Settled(p, o)
            BY <1>1, <2>4 DEF ProcessInv
        <3>2. o < Len(log[p])
            BY <2>3, <2>4 DEF Offset
        <3> QED
            BY <3>1, <3>2, SettledStays
    <2> QED
        BY <2>2, <2>3, <2>4
<1> QED
    BY <1>2, <1>3

-----------------------------------------------------------------------------
LEMMA NoLossStep ==
    ASSUME TypeOK, TypeOK', NoLossInv, MeterAssumption, [Next]_vars
    PROVE  NoLossInv'
<1> USE DEF topic, sinks, group, process
<1>0. NoLoss' /\ (\A c \in Consumer : ProcessInv(c)') => NoLossInv'
    BY DEF NoLossInv, ProcessInv, IdleHoldsNothing, PositionsInLog, BatchEndsAtPosition,
           ReadIsSettledOrInHand, StepsInOrder
<1>1. NoLoss /\ \A c \in Consumer : ProcessInv(c)
    BY ProcessWise
<1>2. UNCHANGED committed => NoLoss'
    <2> SUFFICES ASSUME UNCHANGED committed, NEW p \in Partition
                 PROVE  /\ committed'[p] <= Len(log'[p])
                        /\ \A o \in Offset : o < committed'[p] => Settled(p, o)'
        BY DEF NoLoss
    <2>1. committed'[p] = committed[p] /\ committed[p] \in Int
        BY DEF TypeOK, NoOffset
    <2> QED
        BY <1>1, <2>1, OffsetsFrame
<1>3. UNCHANGED process => \A c \in Consumer : ProcessInv(c)'
    BY <1>1, ProcessFrame
<1>4. ASSUME NEW c \in Consumer, Leave(c) \/ Step(c), ProcessInv(c)'
      PROVE  \A d \in Consumer : ProcessInv(d)'
    BY <1>1, <1>4, OthersUntouched, ProcessFrame
<1>5. CASE Arrive \/ UNCHANGED vars
    <2>1. UNCHANGED committed /\ UNCHANGED process
        BY <1>5 DEF Arrive, Produce, vars
    <2> QED
        BY <1>2, <1>3, <2>1, <1>0
<1>6. CASE Rebalance
    <2>1. UNCHANGED <<committed, log, pc, batch, sinks>>
        BY <1>6 DEF Rebalance
    <2>2. ASSUME NEW c \in Consumer  PROVE ProcessInv(c)'
        <3>1. CASE c \notin members
            <4>1. position'[c] = position[c]
                BY <1>6, <3>1 DEF Rebalance
            <4> QED
                BY <1>1, <2>1, <4>1, ProcessFrame
        <3>2. CASE c \in members
            <4>1. /\ pc[c] = "polling" /\ batch[c] = {}
                  /\ \A p \in Partition : position'[c][p] = Floor(committed[p])
                BY <1>1, <1>6, <3>2 DEF Rebalance, ProcessInv
            <4>2. \A p \in Partition : Floor(committed[p]) <= Len(log[p])
                BY <1>1 DEF Floor, NoLoss, TypeOK
            <4>3. ASSUME NEW p \in Partition, NEW o \in Offset, o < Floor(committed[p])
                  PROVE  Settled(p, o)'
                <5>1. o < committed[p]
                    BY <4>3 DEF Floor, Offset
                <5>2. Settled(p, o)
                    BY <1>1, <5>1 DEF NoLoss
                <5> QED
                    BY <2>1, <5>2 DEF Settled, SettledMessage
            <4> QED
                BY <2>1, <4>1, <4>2, <4>3 DEF ProcessInv
        <3> QED
            BY <3>1, <3>2
    <2> QED
        BY <1>2, <2>1, <2>2, <1>0
<1>7. CASE Replay
    <2>1. PICK q \in Partition, offset \in Offset : Rewind(q, offset)
        BY <1>7 DEF Replay
    <2>2. UNCHANGED process
        BY <2>1 DEF Rewind
    <2>3. ASSUME NEW p \in Partition  PROVE committed'[p] <= committed[p]
        <3>1. committed[p] \in Int /\ offset \in Int
            BY DEF TypeOK, NoOffset, Offset
        <3> QED
            BY <2>1, <3>1 DEF Rewind, TypeOK
    <2>4. NoLoss'
        <3> SUFFICES ASSUME NEW p \in Partition
                     PROVE  /\ committed'[p] <= Len(log'[p])
                            /\ \A o \in Offset : o < committed'[p] => Settled(p, o)'
            BY DEF NoLoss
        <3> QED
            BY <1>1, <2>3, OffsetsFrame
    <2> QED
        BY <1>3, <2>2, <2>4, <1>0
<1>8. ASSUME NEW c \in Consumer, Step(c)  PROVE NoLossInv'
    <2>1. CASE Start(c) \/ Evict(c)
        <3>1. UNCHANGED <<committed, log, batch, position, sinks>>
            BY <2>1 DEF Start, Evict
        <3>2. ProcessInv(c)'
            <4>1. CASE Start(c)
                <5>1. batch[c] = {}
                    BY <1>1, <4>1 DEF Start, ProcessInv
                <5>2. pc'[c] = "polling"
                    BY <4>1 DEF Start, TypeOK
                <5> QED
                    BY <1>1, <3>1, <5>1, <5>2 DEF ProcessInv, Settled, SettledMessage
            <4>2. CASE Evict(c)
                <5>1. pc'[c] = pc[c]
                    BY <4>2 DEF Evict
                <5> QED
                    BY <1>1, <3>1, <5>1, ProcessFrame
            <4> QED
                BY <2>1, <4>1, <4>2
        <3> QED
            BY <1>2, <1>4, <1>8, <3>1, <3>2, <1>0
    <2>2. CASE Consume(c)
        BY <1>1, <1>2, <1>4, <1>8, <2>2, ConsumeKeeps, <1>0 DEF Consume
    <2>3. CASE SendDeadLetters(c)
        BY <1>1, <1>2, <1>4, <1>8, <2>3, SendKeeps, <1>0 DEF SendDeadLetters
    <2>4. CASE Store(c)
        BY <1>1, <1>2, <1>4, <1>8, <2>4, StoreKeeps, <1>0 DEF Store
    <2>5. CASE Commit(c)
        <3>1. NoLoss'
            BY <2>5, CommitSafe DEF Commit
        <3> QED
            BY <1>1, <1>4, <1>8, <2>5, <3>1, CommitKeeps, <1>0
    <2>6. CASE EmptyPollEnds(c) \/ Stop(c) \/ DeadLettersFail(c) \/ StoreRefused(c) \/ Crash(c)
        <3>1. Leave(c) /\ UNCHANGED committed
            BY <2>6 DEF EmptyPollEnds, Stop, DeadLettersFail, StoreRefused, Crash
        <3> QED
            BY <1>2, <1>4, <3>1, ProcessLeaves, <1>0
    <2>7. CASE CommitFails(c)
        <3>1. Leave(c)
            BY <2>7 DEF CommitFails
        <3>2. NoLoss'
            BY <2>7, CommitSafe DEF CommitFails
        <3> QED
            BY <1>4, <3>1, <3>2, ProcessLeaves, <1>0
    <2>8. CASE StoreFails(c)
        <3>1. UNCHANGED committed
            BY <2>8 DEF StoreFails
        <3>2. CASE Leave(c)
            BY <1>2, <1>4, <3>1, <3>2, ProcessLeaves, <1>0
        <3>3. CASE ~Leave(c)
            <4>1. UNCHANGED <<pc, position, batch>>
                BY <2>8, <3>3 DEF StoreFails
            <4>2. ProcessInv(c)'
                BY <1>1, <4>1, ProcessFrame
            <4> QED
                BY <1>2, <1>4, <1>8, <3>1, <4>2, <1>0
        <3> QED
            BY <3>2, <3>3
    <2> QED
        BY <1>8, <2>1, <2>2, <2>3, <2>4, <2>5, <2>6, <2>7, <2>8 DEF Step, Work
<1> QED
    BY <1>5, <1>6, <1>7, <1>8 DEF Next, GroupNext

LEMMA InitInv ==
    ASSUME MeterAssumption, Init
    PROVE  TypeOK /\ NoLossInv
<1>1. TypeOK
    <2>1. 0 \in 0 .. Attempts - 1
        BY DEF MeterAssumption
    <2>2. [p \in Partition |-> << >>] \in [Partition -> Seq(Payload)]
        OBVIOUS
    <2>3. [p \in Partition |-> 0] \in [Partition -> Nat]
        OBVIOUS
    <2>4. /\ log \in [Partition -> Seq(Payload)]
          /\ \A p \in Partition : Len(log[p]) <= MaxLog
        BY <2>2 DEF Init, MeterAssumption
    <2>5. committed \in [Partition -> Nat \cup {NoOffset}]
        BY DEF Init
    <2>6. deadLetters \subseteq Rejected /\ warehouse \subseteq Payload \ (Rejected \cup Unstorable)
        BY DEF Init
    <2>7. members \subseteq Consumer /\ rebalancing \in BOOLEAN
        BY DEF Init
    <2>8. owner \in [Partition -> Consumer \cup {None}]
        BY DEF Init
    <2>9. pc \in [Consumer -> {"down", "polling"} \cup Busy]
        BY DEF Init
    <2>10. position \in [Consumer -> [Partition -> Nat]]
        BY <2>3 DEF Init
    <2>11. batch \in [Consumer -> SUBSET (Partition \X Offset)]
        BY DEF Init
    <2>12. attempts \in [Consumer -> 0 .. Attempts - 1]
        BY <2>1 DEF Init
    <2> QED
        BY <2>4, <2>5, <2>6, <2>7, <2>8, <2>9, <2>10, <2>11, <2>12 DEF TypeOK
<1>2. NoLoss
    BY DEF Init, NoLoss, NoOffset, Offset
<1>3. ASSUME NEW c \in Consumer  PROVE ProcessInv(c)
    BY DEF Init, ProcessInv, Offset
<1> QED
    BY <1>1, <1>2, <1>3, ProcessWise

(* Type correctness and the inductive invariant, for every group. *)
THEOREM ConsumerInvariant == Spec => [](TypeOK /\ NoLossInv)
<1>1. Init => TypeOK /\ NoLossInv
    BY InitInv, MeterAssumption
<1>2. (TypeOK /\ NoLossInv) /\ [Next]_vars => (TypeOK /\ NoLossInv)'
    BY TypeStep, NoLossStep, MeterAssumption
<1> QED
    BY <1>1, <1>2, PTL DEF Spec

(* Every variable keeps its type: only unreadable messages become dead     *)
(* letters, only storable ones are stored.                                 *)
THEOREM TypeCorrect == Spec => []TypeOK
BY ConsumerInvariant, PTL

(* Whatever the group's offsets stand above is stored or recorded as a     *)
(* dead letter, for any number of processes, partitions and messages.      *)
THEOREM ConsumerLosesNothing == Spec => []NoLoss
<1>1. NoLossInv => NoLoss
    BY DEF NoLossInv
<1> QED
    BY <1>1, ConsumerInvariant, PTL

-----------------------------------------------------------------------------
(* The strengthening that makes OffsetsOnlyRewound inductive: what a live  *)
(* member has in hand it owns, and nobody has committed past it since; and *)
(* once a rebalance is over, every member stands at or after the group's   *)
(* offset wherever it is the owner.                                        *)
InHandIsOwned ==
    \A c \in members : \A p \in Partition, o \in Offset :
        <<p, o>> \in batch[c] => owner[p] = c /\ committed[p] <= position[c][p]

OwnerIsAhead ==
    ~rebalancing => \A c \in members, p \in Partition :
        owner[p] = c => committed[p] <= position[c][p]

MemberInv == InHandIsOwned /\ OwnerIsAhead

(* What a member commits is at least what the group has. *)
LEMMA CommitsForward ==
    ASSUME TypeOK, NoLossInv, MemberInv, MeterAssumption, NEW c \in members,
           NEW p \in PartitionsOf(batch[c])
    PROVE  /\ p \in Partition /\ owner[p] = c
           /\ NextOffset(batch[c], p) = position[c][p]
           /\ committed[p] <= position[c][p]
<1>1. c \in Consumer
    BY DEF TypeOK
<1>2. PICK o \in Offset : <<p, o>> \in batch[c] /\ p \in Partition
    <2>1. PICK pos \in batch[c] : pos[1] = p
        BY DEF PartitionsOf
    <2>2. pos \in Partition \X Offset
        BY <1>1 DEF TypeOK
    <2>3. pos = <<p, pos[2]>> /\ p \in Partition /\ pos[2] \in Offset
        BY <2>1, <2>2
    <2> QED
        BY <2>3
<1> QED
    BY <1>1, <1>2, BatchNext DEF MemberInv, InHandIsOwned

(* A step either appends to the log, rewinds, commits what a process has   *)
(* in hand, or leaves the topic alone.                                     *)
LEMMA TopicSteps ==
    ASSUME [Next]_vars
    PROVE  \/ \E p \in Partition, m \in Payload : Produce(p, m)
           \/ \E p \in Partition, offset \in Offset : Rewind(p, offset)
           \/ \E c \in Consumer : Commit(c) \/ CommitFails(c)
           \/ UNCHANGED topic
<1> USE DEF topic, sinks, group, process
<1>1. ASSUME NEW c \in Consumer, Step(c)
      PROVE  Commit(c) \/ CommitFails(c) \/ UNCHANGED topic
    BY <1>1 DEF Step, Work, Start, Consume, EmptyPollEnds, Stop, Crash, Evict,
        SendDeadLetters, DeadLettersFail, Store, StoreFails, StoreRefused
<1>2. Rebalance \/ UNCHANGED vars => UNCHANGED topic
    BY DEF Rebalance, vars
<1> QED
    BY <1>1, <1>2 DEF Next, Arrive, GroupNext, Replay

(* A commit, whole or in part, moves offsets forward only, and what it     *)
(* moves belongs to the member that commits.                               *)
LEMMA CommitMovesOwn ==
    ASSUME TypeOK, NoLossInv, MemberInv, MeterAssumption,
           NEW c \in Consumer, Commit(c) \/ CommitFails(c), NEW p \in Partition
    PROVE  \/ committed'[p] = committed[p]
           \/ /\ c \in members /\ owner[p] = c
              /\ committed'[p] = position[c][p]
              /\ committed[p] <= committed'[p]
<1>1. PICK accepted \in SUBSET PartitionsOf(batch[c]) :
        /\ accepted = {} \/ c \in members
        /\ committed' = CommittedWith(c, accepted)
    BY DEF Commit, CommitFails, MayCommit
<1>2. committed'[p] = IF p \in accepted THEN NextOffset(batch[c], p) ELSE committed[p]
    BY <1>1 DEF CommittedWith
<1>3. CASE p \in accepted
    <2>1. c \in members /\ p \in PartitionsOf(batch[c])
        BY <1>1, <1>3
    <2> QED
        BY <1>2, <1>3, <2>1, CommitsForward
<1> QED
    BY <1>2, <1>3

(* A process leaves, and the others stand where they stood. *)
LEMMA MembersLeave ==
    ASSUME TypeOK, MemberInv, NEW c \in Consumer, Leave(c), UNCHANGED committed
    PROVE  MemberInv'
<1>1. /\ members' = members \ {c} /\ UNCHANGED owner
      /\ rebalancing' = (rebalancing \/ c \in members)
      /\ members \subseteq Consumer
    BY DEF Leave, TypeOK
<1>2. \A d \in members' : batch'[d] = batch[d] /\ position'[d] = position[d]
    BY <1>1, OthersUntouched DEF Leave
<1> QED
    BY <1>1, <1>2 DEF MemberInv, InHandIsOwned, OwnerIsAhead

LEMMA MemberStep ==
    ASSUME TypeOK, NoLossInv, MemberInv, MeterAssumption, [Next]_vars
    PROVE  MemberInv'
<1> USE DEF topic, sinks, group, process
<1>1. members \subseteq Consumer /\ \A p \in Partition : committed[p] \in Int
    BY DEF TypeOK, NoOffset
<1>2. ASSUME UNCHANGED <<committed, members, rebalancing, owner, batch, position>>
      PROVE  MemberInv'
    BY <1>2 DEF MemberInv, InHandIsOwned, OwnerIsAhead
<1>3. CASE Arrive \/ UNCHANGED vars
    BY <1>2, <1>3 DEF Arrive, Produce, vars
<1>4. CASE Replay
    BY <1>4 DEF Replay, Rewind, MemberInv, InHandIsOwned, OwnerIsAhead
<1>5. CASE Rebalance
    <2>1. /\ UNCHANGED <<committed, batch, members>>
          /\ \A c \in members, p \in Partition : position'[c][p] = Floor(committed[p])
          /\ \A c \in members : batch[c] = {}
        BY <1>1, <1>5 DEF Rebalance, NoLossInv, IdleHoldsNothing
    <2>2. \A p \in Partition : committed[p] <= Floor(committed[p])
        BY <1>1 DEF Floor
    <2> QED
        BY <2>1, <2>2 DEF MemberInv, InHandIsOwned, OwnerIsAhead
<1>6. ASSUME NEW c \in Consumer, Step(c)  PROVE MemberInv'
    <2>1. CASE Start(c)
        <3>1. /\ UNCHANGED <<committed, owner, batch, position>>
              /\ members' = members \cup {c} /\ rebalancing' = TRUE
              /\ batch[c] = {}
            BY <2>1 DEF Start, NoLossInv, IdleHoldsNothing
        <3> QED
            BY <3>1 DEF MemberInv, InHandIsOwned, OwnerIsAhead
    <2>2. CASE Consume(c)
        <3>1. PICK upTo \in [Partition -> 0 .. MaxLog] :
                /\ \A p \in Partition : /\ position[c][p] <= upTo[p]
                                        /\ owner[p] # c => upTo[p] = position[c][p]
                /\ batch' = [batch EXCEPT ![c] =
                        {pos \in Partition \X Offset :
                            position[c][pos[1]] <= pos[2] /\ pos[2] < upTo[pos[1]]}]
                /\ position' = [position EXCEPT ![c] = upTo]
            BY <2>2 DEF Consume
        <3>2. /\ ~rebalancing /\ UNCHANGED <<committed, members, rebalancing, owner>>
              /\ position'[c] = upTo
              /\ \A p \in Partition, o \in Offset :
                    <<p, o>> \in batch'[c] => position[c][p] <= o /\ o < upTo[p]
              /\ \A d \in members \ {c} : batch'[d] = batch[d] /\ position'[d] = position[d]
            BY <1>1, <2>2, <3>1 DEF Consume, TypeOK
        <3>3. \A p \in Partition : position[c][p] \in Nat /\ upTo[p] \in Nat
            BY DEF TypeOK
        <3>4. \A p \in Partition, o \in Offset : <<p, o>> \in batch'[c] => owner[p] = c
            BY <3>1, <3>2, <3>3 DEF Offset
        <3>5. c \in members => \A p \in Partition :
                owner[p] = c => committed[p] <= position'[c][p]
            BY <1>1, <3>1, <3>2, <3>3 DEF MemberInv, OwnerIsAhead
        <3> QED
            BY <3>2, <3>4, <3>5 DEF MemberInv, InHandIsOwned, OwnerIsAhead
    <2>3. CASE SendDeadLetters(c) \/ Store(c)
        BY <1>2, <2>3 DEF SendDeadLetters, Store
    <2>4. CASE Evict(c)
        BY <2>4 DEF Evict, MemberInv, InHandIsOwned, OwnerIsAhead
    <2>5. CASE EmptyPollEnds(c) \/ Stop(c) \/ DeadLettersFail(c) \/ StoreRefused(c) \/ Crash(c)
        BY <2>5, MembersLeave
            DEF EmptyPollEnds, Stop, DeadLettersFail, StoreRefused, Crash
    <2>6. CASE StoreFails(c)
        <3>1. CASE Leave(c)
            BY <2>6, <3>1, MembersLeave DEF StoreFails
        <3>2. CASE ~Leave(c)
            BY <1>2, <2>6, <3>2 DEF StoreFails
        <3> QED
            BY <3>1, <3>2
    <2>7. CASE Commit(c)
        <3>1. /\ c \in members /\ UNCHANGED <<members, rebalancing, owner, position>>
              /\ batch'[c] = {}
              /\ \A d \in members \ {c} : batch'[d] = batch[d]
            BY <1>1, <2>7 DEF Commit, MayCommit, TypeOK
        <3>2. \A p \in Partition :
                \/ committed'[p] = committed[p]
                \/ owner[p] = c /\ committed'[p] = position[c][p]
            BY <2>7, CommitMovesOwn
        <3>3. \A p \in Partition : position[c][p] \in Nat
            BY DEF TypeOK
        <3> QED
            BY <3>1, <3>2, <3>3 DEF MemberInv, InHandIsOwned, OwnerIsAhead
    <2>8. CASE CommitFails(c)
        <3>1. /\ members' = members \ {c} /\ UNCHANGED owner
              /\ rebalancing' = (rebalancing \/ c \in members)
              /\ \A d \in members' : batch'[d] = batch[d] /\ position'[d] = position[d]
            BY <1>1, <2>8, OthersUntouched DEF CommitFails, Leave
        <3>2. \A p \in Partition :
                \/ committed'[p] = committed[p]
                \/ c \in members /\ owner[p] = c
            BY <2>8, CommitMovesOwn
        <3>3. InHandIsOwned'
            <4> SUFFICES ASSUME NEW d \in members', NEW p \in Partition, NEW o \in Offset,
                                <<p, o>> \in batch[d]
                         PROVE  owner[p] = d /\ committed'[p] <= position[d][p]
                BY <3>1 DEF InHandIsOwned
            <4>1. d \in members /\ d # c /\ owner[p] = d /\ committed[p] <= position[d][p]
                BY <3>1 DEF MemberInv, InHandIsOwned
            <4> QED
                BY <3>2, <4>1
        <3>4. OwnerIsAhead'
            <4> SUFFICES ASSUME ~rebalancing', NEW d \in members', NEW p \in Partition,
                                owner[p] = d
                         PROVE  committed'[p] <= position[d][p]
                BY <3>1 DEF OwnerIsAhead
            <4>1. ~rebalancing /\ c \notin members /\ d \in members
                BY <3>1
            <4> QED
                BY <3>2, <4>1 DEF MemberInv, OwnerIsAhead
        <3> QED
            BY <3>3, <3>4 DEF MemberInv
    <2> QED
        BY <1>6, <2>1, <2>2, <2>3, <2>4, <2>5, <2>6, <2>7, <2>8 DEF Step, Work
<1> QED
    BY <1>3, <1>4, <1>5, <1>6 DEF Next, GroupNext

LEMMA ConsumerMembers == Spec => []MemberInv
<1>1. Init => MemberInv
    BY DEF Init, MemberInv, InHandIsOwned, OwnerIsAhead
<1>2. (TypeOK /\ NoLossInv) /\ MemberInv /\ [Next]_vars => MemberInv'
    BY MemberStep, MeterAssumption
<1> QED
    BY <1>1, <1>2, ConsumerInvariant, PTL DEF Spec

(* No process moves the group's offset back, however many share the group: *)
(* one that lost its session, holds an old batch or comes back after a     *)
(* rebalance commits nothing others have committed past                    *)
(* (consumer.py:161-171).                                                  *)
THEOREM NoProcessRewinds == Spec => OffsetsOnlyRewound
<1>1. TypeOK /\ NoLossInv /\ MemberInv /\ [Next]_vars
        => [\A p \in Partition : committed'[p] < committed[p] => members = {}]_vars
    <2> SUFFICES ASSUME TypeOK, NoLossInv, MemberInv, [Next]_vars,
                        NEW p \in Partition, committed'[p] < committed[p]
                 PROVE  members = {}
        OBVIOUS
    <2>1. committed[p] \in Int /\ committed'[p] # committed[p]
        <3>1. committed[p] \in Int
            BY DEF TypeOK, NoOffset
        <3> QED
            BY <3>1
    <2>2. ASSUME NEW c \in Consumer, Commit(c) \/ CommitFails(c)  PROVE FALSE
        <3>1. committed[p] <= position[c][p] /\ committed'[p] = position[c][p]
            BY <2>1, <2>2, CommitMovesOwn, MeterAssumption
        <3>2. position[c][p] \in Int
            BY DEF TypeOK
        <3> QED
            BY <2>1, <3>1, <3>2
    <2>3. PICK q \in Partition, offset \in Offset : Rewind(q, offset)
        BY <2>1, <2>2, TopicSteps DEF topic, Produce
    <2> QED
        BY <2>3 DEF Rewind
<1> QED
    BY <1>1, ConsumerInvariant, ConsumerMembers, PTL DEF Spec, OffsetsOnlyRewound

-----------------------------------------------------------------------------
(* The refinement: what the consumer's variables are as a ledger. *)
delivered == [p \in Partition |-> Len(log[p])]
acknowledged == [p \in Partition |-> Floor(committed[p])]

LEMMA LedgerOffsets ==
    ASSUME TypeOK
    PROVE  /\ acknowledged \in [Partition -> Nat]
           /\ delivered \in [Partition -> Nat]
           /\ settledPositions \subseteq Ledger!Positions
<1>1. \A p \in Partition : Floor(committed[p]) \in Nat /\ Len(log[p]) \in Nat
    BY DEF TypeOK, Floor, NoOffset
<1>2. settledPositions \subseteq Ledger!Positions
    BY DEF settledPositions, Ledger!Positions, Offset
<1> QED
    BY <1>1, <1>2 DEF acknowledged, delivered

(* What has left the topic alone is a ledger step that settles. *)
LEMMA SettlesStep ==
    ASSUME TypeOK, TypeOK', [Next]_vars, UNCHANGED topic
    PROVE  Ledger!Settle
<1>1. UNCHANGED log /\ UNCHANGED committed
    BY DEF topic
<1>2. settledPositions \subseteq settledPositions'
    <2> SUFFICES ASSUME NEW p \in Partition, NEW o \in Offset,
                        o < Len(log[p]), Settled(p, o)
                 PROVE  o < Len(log'[p]) /\ Settled(p, o)'
        BY DEF settledPositions
    <2> QED
        BY SettledStays
<1>3. settledPositions' \subseteq Ledger!Positions
    BY <1>1 DEF settledPositions, Ledger!Positions, Offset
<1> QED
    BY <1>1, <1>2, <1>3 DEF Ledger!Settle

(* An appended message is settled at once when its content is. *)
LEMMA AppendsStep ==
    ASSUME TypeOK, TypeOK', MeterAssumption, [Next]_vars,
           NEW p \in Partition, NEW m \in Payload, Produce(p, m)
    PROVE  Ledger!Deliver(p)
<1> USE DEF topic, sinks, group, process
<1>1. /\ Len(log[p]) < MaxLog /\ log[p] \in Seq(Payload) /\ Len(log[p]) \in Nat
      /\ log' = [log EXCEPT ![p] = Append(log[p], m)]
      /\ log'[p] = Append(log[p], m)
      /\ \A q \in Partition \ {p} : log'[q] = log[q]
      /\ UNCHANGED <<committed, deadLetters, warehouse>>
    BY DEF Produce, TypeOK
<1>2. /\ Len(log'[p]) = Len(log[p]) + 1
      /\ \A o \in Offset : o < Len(log[p]) => log'[p][o + 1] = log[p][o + 1]
    BY <1>1 DEF Offset
<1>3. delivered' = [delivered EXCEPT ![p] = delivered[p] + 1]
    BY <1>1, <1>2 DEF delivered, TypeOK
<1>4. \A q \in Partition, o \in Offset :
        <<q, o>> \in settledPositions' <=>
            \/ <<q, o>> \in settledPositions
            \/ q = p /\ o = Len(log[p]) /\ Settled(p, o)'
    <2> SUFFICES ASSUME NEW q \in Partition, NEW o \in Offset
                 PROVE  o < Len(log'[q]) /\ Settled(q, o)' <=>
                            \/ o < Len(log[q]) /\ Settled(q, o)
                            \/ q = p /\ o = Len(log[p]) /\ Settled(p, o)'
        BY DEF settledPositions
    <2>1. CASE q # p
        BY <1>1, <2>1 DEF Settled, SettledMessage
    <2>2. CASE q = p /\ o < Len(log[p])
        BY <1>1, <1>2, <2>2 DEF Settled, SettledMessage, Offset
    <2>3. CASE q = p /\ ~(o < Len(log[p]))
        <3>1. o < Len(log'[p]) <=> o = Len(log[p])
            BY <1>1, <1>2, <2>3 DEF Offset
        <3> QED
            BY <2>3, <3>1
    <2> QED
        BY <2>1, <2>2, <2>3
<1>5. Len(log[p]) \in Offset
    BY <1>1 DEF Offset, MeterAssumption
<1>6. PICK last \in Offset : last = Len(log[p])
    BY <1>5
<1>7. ASSUME NEW pos \in Partition \X Offset
      PROVE  pos \in settledPositions' <=>
                pos \in settledPositions \/ (pos = <<p, last>> /\ Settled(p, last)')
    <2>1. pos = <<pos[1], pos[2]>> /\ pos[1] \in Partition /\ pos[2] \in Offset
        OBVIOUS
    <2>2. pos = <<p, last>> <=> pos[1] = p /\ pos[2] = last
        BY <2>1
    <2> HIDE DEF Settled
    <2> QED
        BY <1>4, <1>6, <2>1, <2>2
<1>8. settledPositions' \in {settledPositions, settledPositions \cup {<<p, last>>}}
    <2>1. /\ settledPositions \subseteq Partition \X Offset
          /\ settledPositions' \subseteq Partition \X Offset
        BY DEF settledPositions
    <2>2. CASE Settled(p, last)'
        BY <1>7, <2>1, <2>2
    <2>3. CASE ~Settled(p, last)'
        BY <1>7, <2>1, <2>3
    <2> QED
        BY <2>2, <2>3
<1>9. delivered[p] = last
    BY <1>6 DEF delivered
<1> QED
    BY <1>1, <1>3, <1>8, <1>9 DEF Ledger!Deliver, delivered

(* The group goes forward over settled positions. *)
LEMMA AcknowledgesStep ==
    ASSUME TypeOK, TypeOK', NoLossInv, NoLossInv', MemberInv, MeterAssumption,
           NEW c \in Consumer, Commit(c) \/ CommitFails(c)
    PROVE  Ledger!Acknowledge
<1> USE DEF topic, sinks, group, process
<1>1. UNCHANGED <<log, deadLetters, warehouse>>
    BY DEF Commit, CommitFails
<1>2. settledPositions' = settledPositions
    BY <1>1 DEF settledPositions, Settled, SettledMessage
<1>3. acknowledged' \in [Partition -> Nat]
    BY LedgerOffsets DEF acknowledged, Floor, TypeOK, NoOffset
<1>4. ASSUME NEW p \in Partition
      PROVE  /\ Floor(committed[p]) <= Floor(committed'[p])
             /\ \A o \in 0 .. Floor(committed'[p]) - 1 : <<p, o>> \in settledPositions
    <2>1. /\ committed[p] \in Int /\ committed'[p] \in Int
          /\ Len(log[p]) \in Nat /\ Len(log[p]) <= MaxLog
        BY DEF TypeOK, NoOffset
    <2>2. committed[p] <= committed'[p]
        <3>1. position[c][p] \in Int
            BY DEF TypeOK
        <3> QED
            BY <2>1, <3>1, CommitMovesOwn
    <2>3. committed'[p] <= Len(log[p])
          /\ \A o \in Offset : o < committed'[p] => Settled(p, o)
        BY <1>1 DEF NoLossInv, NoLoss, Settled, SettledMessage
    <2>4. ASSUME NEW o \in 0 .. Floor(committed'[p]) - 1
          PROVE  <<p, o>> \in settledPositions
        <3>1. o \in Nat /\ o < committed'[p]
            BY <2>1 DEF Floor
        <3>2. o \in Offset /\ o < Len(log[p])
            BY <2>1, <2>3, <3>1 DEF Offset, MeterAssumption
        <3> QED
            BY <2>3, <3>1, <3>2 DEF settledPositions
    <2> QED
        BY <2>1, <2>2, <2>4 DEF Floor
<1> QED
    BY <1>1, <1>2, <1>3, <1>4 DEF Ledger!Acknowledge, acknowledged

LEMMA RewindsStep ==
    ASSUME TypeOK, TypeOK', NEW p \in Partition, NEW offset \in Offset, Rewind(p, offset)
    PROVE  Ledger!Rewind
<1> USE DEF topic, sinks, group, process
<1>1. /\ UNCHANGED <<log, deadLetters, warehouse>>
      /\ offset < committed[p] /\ committed' = [committed EXCEPT ![p] = offset]
    BY DEF Rewind
<1>2. \A q \in Partition : committed[q] \in Int /\ committed'[q] \in Int
    BY DEF TypeOK, NoOffset
<1>3. \A q \in Partition : committed'[q] <= committed[q]
    BY <1>1, <1>2 DEF TypeOK
<1>4. \A q \in Partition : /\ Floor(committed'[q]) \in Nat
                           /\ Floor(committed'[q]) <= Floor(committed[q])
    BY <1>2, <1>3 DEF Floor
<1>5. settledPositions' = settledPositions
    BY <1>1 DEF settledPositions, Settled, SettledMessage
<1> QED
    BY <1>1, <1>4, <1>5 DEF Ledger!Rewind, Floor

(* Every step of the consumer is one the ledger knows. *)
LEMMA LedgerStep ==
    ASSUME TypeOK, TypeOK', NoLossInv, NoLossInv', MemberInv, [Next]_vars
    PROVE  Ledger!Next
<1>1. CASE \E p \in Partition, m \in Payload : Produce(p, m)
    BY <1>1, AppendsStep, MeterAssumption DEF Ledger!Next
<1>2. CASE \E p \in Partition, offset \in Offset : Rewind(p, offset)
    BY <1>2, RewindsStep DEF Ledger!Next
<1>3. CASE \E c \in Consumer : Commit(c) \/ CommitFails(c)
    BY <1>3, AcknowledgesStep, MeterAssumption DEF Ledger!Next
<1>4. CASE UNCHANGED topic
    BY <1>4, SettlesStep DEF Ledger!Next
<1> QED
    BY <1>1, <1>2, <1>3, <1>4, TopicSteps

(* The consumer implements the ledger, for any number of processes,        *)
(* partitions and messages: it starts as an empty ledger does, and each of *)
(* its steps delivers, settles, acknowledges or rewinds, or changes        *)
(* nothing a reader of the ledger can see (consumer.py:3-9).               *)
THEOREM ConsumerImplementsLedger == Spec => LedgerSpec
<1>1. Init => Ledger!Init
    BY DEF Init, Ledger!Init, settledPositions, Offset, Floor, NoOffset
<1>2. ASSUME TypeOK, TypeOK', NoLossInv, NoLossInv', MemberInv, [Next]_vars
      PROVE  Ledger!Next
    BY <1>2, LedgerStep
<1>3. (TypeOK /\ NoLossInv) /\ (TypeOK /\ NoLossInv)' /\ MemberInv /\ [Next]_vars
        => Ledger!Next
    BY <1>2
<1> QED
    BY <1>1, <1>3, ConsumerInvariant, ConsumerMembers, PTL
        DEF Spec, LedgerSpec, Ledger!Spec

-----------------------------------------------------------------------------
(* The delivery.                                                           *)

(* What a step of the delivery is for the consumer group. *)
LEMMA DeliveryIsStep ==
    ASSUME DeliveryAssumption, DeliveryTypeOK, [DeliveryNext]_allVars
    PROVE  [Next]_vars
<1>1. ASSUME NEW d \in Day, ProduceMessage(d)  PROVE Next
    <2>1. PICK m \in unsent : Produce(PartitionOf[m], m) /\ unsent' = unsent \ {m}
        BY <1>1 DEF ProduceMessage
    <2>2. m \in Payload /\ PartitionOf[m] \in Partition
        BY DEF DeliveryTypeOK, DeliveryAssumption
    <2> QED
        BY <2>1, <2>2 DEF Next, Arrive
<1>2. ASSUME ProduceByHand  PROVE Next
    <2>1. PICK m \in Stray : Produce(PartitionOf[m], m)
        BY <1>2 DEF ProduceByHand
    <2>2. m \in Payload /\ PartitionOf[m] \in Partition
        BY DEF DeliveryAssumption
    <2> QED
        BY <2>1, <2>2 DEF Next, Arrive
<1>3. ASSUME NEW d \in Day, Progress(d), ~ProduceMessage(d)  PROVE UNCHANGED vars
    BY <1>3 DEF Progress, StartRun, WeatherReady, Produced, Poke, PokeAgain, MarkAsset,
        ReadWatermark
<1>4. ASSUME NEW d \in Day, Fault(d)  PROVE UNCHANGED vars
    BY <1>4 DEF Fault, TaskFails, SensorTimesOut, ClearRun
<1>5. CASE UNCHANGED allVars
    BY <1>5 DEF allVars
<1> QED
    BY <1>1, <1>2, <1>3, <1>4, <1>5 DEF DeliveryNext, Outside, Next

(* The topic only grows, and what is settled stays settled. *)
LEMMA OnTopicStays ==
    ASSUME TypeOK, TypeOK', [Next]_vars, DeliveryAssumption,
           NEW m \in Payload, OnTopic(m)
    PROVE  OnTopic(m)'
<1> DEFINE p == PartitionOf[m]
<1>1. PICK o \in Offset : o < Len(log[p]) /\ log[p][o + 1] = m
    BY DEF OnTopic
<1>2. p \in Partition
    BY DEF DeliveryAssumption
<1>3. o + 1 \in 1 .. Len(log[p]) /\ Len(log[p]) \in Nat /\ Len(log'[p]) \in Nat
    BY <1>1, <1>2 DEF Offset, TypeOK
<1>4. Len(log[p]) <= Len(log'[p]) /\ log'[p][o + 1] = log[p][o + 1]
    BY <1>2, <1>3, NextMonotone
<1>5. o < Len(log'[p]) /\ log'[p][o + 1] = m
    BY <1>1, <1>3, <1>4 DEF Offset
<1> QED
    BY <1>5 DEF OnTopic

LEMMA SettledMessageStays ==
    ASSUME TypeOK, [Next]_vars, NEW m, SettledMessage(m)
    PROVE  SettledMessage(m)'
BY NextMonotone DEF SettledMessage

LEMMA ProducedOnTopic ==
    ASSUME TypeOK, MeterAssumption, DeliveryAssumption, NEW m \in Payload,
           Produce(PartitionOf[m], m)
    PROVE  OnTopic(m)'
<1> DEFINE p == PartitionOf[m]
<1>1. p \in Partition /\ log[p] \in Seq(Payload)
    BY DEF DeliveryAssumption, TypeOK
<1>2. Len(log[p]) \in Offset
    BY <1>1 DEF Produce, Offset, MeterAssumption
<1>3. log'[p] = Append(log[p], m)
    BY <1>1 DEF Produce, TypeOK
<1>4. Len(log'[p]) = Len(log[p]) + 1 /\ log'[p][Len(log[p]) + 1] = m
    BY <1>1, <1>3
<1>5. Len(log[p]) < Len(log'[p])
    BY <1>1, <1>4
<1> QED
    BY <1>2, <1>4, <1>5 DEF OnTopic

(* A snapshot of the offsets that stood above settled positions still does. *)
LEMMA SnapshotStays ==
    ASSUME DeliveryTypeOK, TypeOK', [Next]_vars, SnapshotSettled, seen' = seen
    PROVE  SnapshotSettled'
<1>1. ASSUME NEW p \in Partition
      PROVE  /\ seen'[p] <= Len(log'[p])
             /\ \A o \in Offset : o < seen'[p] => Settled(p, o)'
    <2>0. TypeOK
        BY DEF DeliveryTypeOK
    <2>1. /\ seen[p] \in Int /\ seen[p] <= Len(log[p])
          /\ Len(log[p]) \in Nat /\ Len(log'[p]) \in Nat
          /\ Len(log[p]) <= Len(log'[p])
        <3>1. seen[p] \in Int /\ seen[p] <= Len(log[p])
            BY DEF SnapshotSettled, DeliveryTypeOK, NoOffset
        <3>2. Len(log[p]) \in Nat /\ Len(log'[p]) \in Nat
            BY <2>0 DEF TypeOK
        <3> QED
            BY <2>0, <3>1, <3>2, NextMonotone
    <2>2. ASSUME NEW o \in Offset, o < seen[p]  PROVE Settled(p, o)'
        <3>1. Settled(p, o) /\ o < Len(log[p])
            BY <2>1, <2>2 DEF SnapshotSettled, Offset
        <3> QED
            BY <2>0, <3>1, SettledStays
    <2> QED
        BY <2>1, <2>2
<1> QED
    BY <1>1 DEF SnapshotSettled, Settled, SettledMessage

(* The offsets themselves are such a snapshot. *)
LEMMA SnapshotTaken ==
    ASSUME NoLossInv, UNCHANGED vars, seen' = committed
    PROVE  SnapshotSettled'
BY DEF NoLossInv, NoLoss, SnapshotSettled, Settled, SettledMessage, vars, topic, sinks

-----------------------------------------------------------------------------
(* The consumer's part of the invariant is kept by every step. *)
LEMMA GroupStep ==
    ASSUME DeliveryTypeOK, NoLossInv, MeterAssumption, DeliveryAssumption,
           [DeliveryNext]_allVars
    PROVE  TypeOK' /\ NoLossInv'
BY DeliveryIsStep, TypeStep, NoLossStep DEF DeliveryTypeOK

LEMMA DeliveryTypeStep ==
    ASSUME DeliveryTypeOK, NoLossInv, MeterAssumption, DeliveryAssumption,
           [DeliveryNext]_allVars
    PROVE  DeliveryTypeOK'
<1> USE DEF run, sensor, dag, Running, DeliveryTypeOK
<1>1. TypeOK'
    BY GroupStep
<1>2. 0 \in 0 .. Retries /\ \A d \in Day : Delivery[d] \subseteq Payload
    BY DEF DeliveryAssumption
<1>3. ASSUME NEW d \in Day, StartRun(d)  PROVE DeliveryTypeOK'
    BY <1>1, <1>2, <1>3 DEF StartRun
<1>4. ASSUME NEW d \in Day, WeatherReady(d)  PROVE DeliveryTypeOK'
    BY <1>1, <1>2, <1>4 DEF WeatherReady
<1>5. ASSUME NEW d \in Day, ProduceMessage(d)  PROVE DeliveryTypeOK'
    BY <1>1, <1>5 DEF ProduceMessage
<1>6. ASSUME NEW d \in Day, Produced(d)  PROVE DeliveryTypeOK'
    BY <1>1, <1>2, <1>6 DEF Produced
<1>7. ASSUME NEW d \in Day, Poke(d)  PROVE DeliveryTypeOK'
    <2>1. committed \in [Partition -> Nat \cup {NoOffset}]
        BY DEF TypeOK
    <2> QED
        BY <1>1, <1>7, <2>1 DEF Poke
<1>8. ASSUME NEW d \in Day, PokeAgain(d) \/ MarkAsset(d)  PROVE DeliveryTypeOK'
    BY <1>1, <1>8 DEF PokeAgain, MarkAsset
<1>9. ASSUME NEW d \in Day, NEW p \in Partition, ReadWatermark(d, p)  PROVE DeliveryTypeOK'
    <2>1. Len(log[p]) \in Nat /\ Floor(seen[p]) \in Int
        BY DEF TypeOK, Floor, NoOffset
    <2>2. behind' \in Int /\ left' \subseteq Partition
        BY <1>9, <2>1 DEF ReadWatermark
    <2> QED
        BY <1>1, <1>9, <2>2 DEF ReadWatermark
<1>10. ASSUME NEW d \in Day, TaskFails(d)  PROVE DeliveryTypeOK'
    <2>1. tries' \in 0 .. Retries
        BY <1>10 DEF TaskFails, DeliveryAssumption
    <2>2. status' \in [Day -> {"scheduled", "running", "failed", "marked"}]
        BY <1>10 DEF TaskFails
    <2>3. unsent' \subseteq Payload
        BY <1>2, <1>10 DEF TaskFails
    <2> QED
        BY <1>1, <1>10, <2>1, <2>2, <2>3 DEF TaskFails
<1>11. ASSUME NEW d \in Day, SensorTimesOut(d)  PROVE DeliveryTypeOK'
    BY <1>1, <1>11 DEF SensorTimesOut
<1>12. ASSUME NEW d \in Day, ClearRun(d)  PROVE DeliveryTypeOK'
    <2>1. unsent' \subseteq Payload
        BY <1>2, <1>12 DEF ClearRun
    <2> QED
        BY <1>1, <1>2, <1>12, <2>1 DEF ClearRun
<1>13. CASE UNCHANGED dag
    BY <1>1, <1>13
<1> QED
    BY <1>3, <1>4, <1>5, <1>6, <1>7, <1>8, <1>9, <1>10, <1>11, <1>12, <1>13
    DEF DeliveryNext, Progress, Fault, allVars

-----------------------------------------------------------------------------
(* Where the runs stand: one at a time, poking only while one waits for    *)
(* the storage, and nothing done before the run is started.                *)
Control == OneRun /\ PokesInStorage /\ ScheduledFirst

LEMMA ControlStep ==
    ASSUME DeliveryTypeOK, Control, [DeliveryNext]_allVars
    PROVE  Control'
<1> USE DEF run, sensor, dag, Running, DeliveryTypeOK, Control, OneRun, PokesInStorage,
            ScheduledFirst
<1>1. ASSUME NEW d \in Day, StartRun(d)  PROVE Control'
    BY <1>1 DEF StartRun
<1>2. ASSUME NEW d \in Day, WeatherReady(d) \/ Produced(d)  PROVE Control'
    BY <1>2 DEF WeatherReady, Produced
<1>3. ASSUME NEW d \in Day, ProduceMessage(d)  PROVE Control'
    BY <1>3 DEF ProduceMessage
<1>4. ASSUME NEW d \in Day, Poke(d) \/ PokeAgain(d)  PROVE Control'
    BY <1>4 DEF Poke, PokeAgain
<1>5. ASSUME NEW d \in Day, MarkAsset(d)  PROVE Control'
    BY <1>5 DEF MarkAsset
<1>6. ASSUME NEW d \in Day, NEW p \in Partition, ReadWatermark(d, p)  PROVE Control'
    BY <1>6 DEF ReadWatermark
<1>7. ASSUME NEW d \in Day, TaskFails(d)  PROVE Control'
    BY <1>7 DEF TaskFails
<1>8. ASSUME NEW d \in Day, SensorTimesOut(d)  PROVE Control'
    BY <1>8 DEF SensorTimesOut
<1>9. ASSUME NEW d \in Day, ClearRun(d)  PROVE Control'
    BY <1>9 DEF ClearRun
<1>10. CASE UNCHANGED dag
    BY <1>10
<1> QED
    BY <1>1, <1>2, <1>3, <1>4, <1>5, <1>6, <1>7, <1>8, <1>9, <1>10
    DEF DeliveryNext, Progress, Fault, allVars

-----------------------------------------------------------------------------
(* Nothing of a day is lost between the produce task and the topic: a      *)
(* retry starts with the whole day again.                                  *)
LEMMA SentStep ==
    ASSUME DeliveryTypeOK, TypeOK', Control, SentOrUnsent,
           MeterAssumption, DeliveryAssumption, [DeliveryNext]_allVars
    PROVE  SentOrUnsent'
<1> USE DEF run, sensor, dag, Running
<1>1. TypeOK /\ [Next]_vars
    BY DeliveryIsStep DEF DeliveryTypeOK
<1>2. ASSUME NEW d \in Day, NEW m \in Delivery[d]
      PROVE  m \in Payload /\ (OnTopic(m) => OnTopic(m)')
    <2>1. m \in Payload
        BY DEF DeliveryAssumption
    <2> QED
        BY <1>1, <2>1, OnTopicStays
<1>3. (\A d \in Day : \A m \in Delivery[d] :
        /\ status'[d] = "running" /\ task'[d] = "produce" => m \in unsent' \/ OnTopic(m)'
        /\ status'[d] # "scheduled" /\ task'[d] = "wait_for_storage" => OnTopic(m)')
      => SentOrUnsent'
    BY DEF SentOrUnsent
<1>4. \A d \in Day : \A m \in Delivery[d] :
        /\ status[d] = "running" /\ task[d] = "produce" => m \in unsent \/ OnTopic(m)
        /\ status[d] # "scheduled" /\ task[d] = "wait_for_storage" => OnTopic(m)
    BY DEF SentOrUnsent
<1>5. \A d, e \in Day : status[d] = "running" /\ status[e] = "running" => d = e
    BY DEF Control, OneRun
<1>6. CASE UNCHANGED <<status, task, unsent>>
    BY <1>2, <1>3, <1>4, <1>6
<1>7. ASSUME NEW e \in Day, StartRun(e)  PROVE SentOrUnsent'
    BY <1>2, <1>3, <1>4, <1>7 DEF StartRun, DeliveryTypeOK, Control, ScheduledFirst
<1>8. ASSUME NEW e \in Day, WeatherReady(e)  PROVE SentOrUnsent'
    BY <1>2, <1>3, <1>4, <1>5, <1>8 DEF WeatherReady, DeliveryTypeOK
<1>9. ASSUME NEW e \in Day, ProduceMessage(e)  PROVE SentOrUnsent'
    <2>1. PICK n \in unsent : Produce(PartitionOf[n], n) /\ unsent' = unsent \ {n}
        BY <1>9 DEF ProduceMessage
    <2>2. OnTopic(n)'
        BY <1>1, <2>1, ProducedOnTopic DEF DeliveryTypeOK
    <2> QED
        BY <1>2, <1>3, <1>4, <1>9, <2>1, <2>2 DEF ProduceMessage
<1>10. ASSUME NEW e \in Day, Produced(e)  PROVE SentOrUnsent'
    BY <1>2, <1>3, <1>4, <1>5, <1>10 DEF Produced, DeliveryTypeOK
<1>11. ASSUME NEW e \in Day, MarkAsset(e)  PROVE SentOrUnsent'
    BY <1>2, <1>3, <1>4, <1>11 DEF MarkAsset, DeliveryTypeOK
<1>12. ASSUME NEW e \in Day, TaskFails(e)  PROVE SentOrUnsent'
    BY <1>2, <1>3, <1>4, <1>5, <1>12 DEF TaskFails, DeliveryTypeOK
<1>13. ASSUME NEW e \in Day, SensorTimesOut(e)  PROVE SentOrUnsent'
    BY <1>2, <1>3, <1>4, <1>5, <1>13 DEF SensorTimesOut, DeliveryTypeOK
<1>14. ASSUME NEW e \in Day, ClearRun(e)  PROVE SentOrUnsent'
    BY <1>2, <1>3, <1>4, <1>5, <1>14 DEF ClearRun, DeliveryTypeOK
<1>15. ASSUME NEW e \in Day,
              Poke(e) \/ PokeAgain(e) \/ \E p \in Partition : ReadWatermark(e, p)
       PROVE  UNCHANGED <<status, task, unsent>>
    BY <1>15 DEF Poke, PokeAgain, ReadWatermark
<1> QED
    BY <1>6, <1>7, <1>8, <1>9, <1>10, <1>11, <1>12, <1>13, <1>14, <1>15
    DEF DeliveryNext, Progress, Fault, allVars

-----------------------------------------------------------------------------
(* What a poke has read so far stays true while the group works on.        *)
LEMMA SnapshotStep ==
    ASSUME DeliveryTypeOK, TypeOK', NoLossInv, SnapshotSettled,
           DeliveryAssumption, [DeliveryNext]_allVars
    PROVE  SnapshotSettled'
<1>1. ASSUME NEW d \in Day, Poke(d)  PROVE SnapshotSettled'
    BY <1>1, SnapshotTaken DEF Poke
<1>2. CASE seen' = seen
    BY <1>2, DeliveryIsStep, SnapshotStays
<1>3. ASSUME NEW d \in Day, Progress(d) \/ Fault(d), ~Poke(d)  PROVE seen' = seen
    BY <1>3 DEF Progress, Fault, StartRun, WeatherReady, ProduceMessage, Produced, PokeAgain,
        MarkAsset, ReadWatermark, TaskFails, SensorTimesOut, ClearRun, sensor
<1> QED
    BY <1>1, <1>2, <1>3 DEF DeliveryNext, allVars, dag, sensor

(* One partition's watermark adds nothing negative to the sum, and nothing *)
(* at all only when every position below it is settled.                    *)
LEMMA WatermarkCounts ==
    ASSUME DeliveryTypeOK, SnapshotSettled, BacklogIsCount, NEW d \in Day,
           NEW p \in Partition, ReadWatermark(d, p)
    PROVE  /\ behind' >= behind
           /\ behind' = 0 => behind = 0 /\ \A o \in Offset : o < Len(log[p]) => Settled(p, o)
<1>1. Len(log[p]) \in Nat /\ seen[p] \in Nat \cup {NoOffset} /\ behind \in Int
    BY DEF DeliveryTypeOK, TypeOK
<1>2. seen[p] <= Len(log[p]) /\ \A o \in Offset : o < seen[p] => Settled(p, o)
    BY DEF SnapshotSettled
<1>3. behind' = behind + Len(log[p]) - Floor(seen[p]) /\ behind >= 0
    BY DEF ReadWatermark, BacklogIsCount
<1>4. Floor(seen[p]) \in Nat /\ Floor(seen[p]) <= Len(log[p])
    BY <1>1, <1>2 DEF Floor, NoOffset
<1>5. behind' >= behind
    BY <1>1, <1>3, <1>4
<1>6. ASSUME behind' = 0, NEW o \in Offset, o < Len(log[p])  PROVE Settled(p, o)
    <2>1. Floor(seen[p]) = Len(log[p])
        BY <1>1, <1>3, <1>4, <1>6
    <2>2. o < seen[p]
        BY <1>1, <1>6, <2>1 DEF Floor, Offset, NoOffset
    <2> QED
        BY <1>2, <2>2
<1>7. behind' = 0 => behind = 0
    BY <1>1, <1>3, <1>5
<1> QED
    BY <1>5, <1>6, <1>7

LEMMA BacklogStep ==
    ASSUME DeliveryTypeOK, SnapshotSettled, BacklogIsCount, [DeliveryNext]_allVars
    PROVE  BacklogIsCount'
<1>1. ASSUME NEW d \in Day, NEW p \in Partition, ReadWatermark(d, p)  PROVE BacklogIsCount'
    <2>1. behind \in Int /\ behind' \in Int
        <3>1. Len(log[p]) \in Nat /\ Floor(seen[p]) \in Int /\ behind \in Int
            BY DEF DeliveryTypeOK, TypeOK, Floor, NoOffset
        <3> QED
            BY <1>1, <3>1 DEF ReadWatermark
    <2>2. behind' >= behind
        BY <1>1, WatermarkCounts
    <2> QED
        BY <2>1, <2>2 DEF BacklogIsCount
<1>2. ASSUME NEW d \in Day, Progress(d) \/ Fault(d),
             ~\E p \in Partition : ReadWatermark(d, p)
      PROVE  behind' \in {0, behind}
    BY <1>2 DEF Progress, Fault, StartRun, WeatherReady, ProduceMessage, Produced, Poke,
        PokeAgain, MarkAsset, TaskFails, SensorTimesOut, ClearRun, sensor
<1>3. CASE behind' \in {0, behind}
    BY <1>3 DEF BacklogIsCount
<1> QED
    BY <1>1, <1>2, <1>3 DEF DeliveryNext, allVars, dag, sensor

(* As long as the sum is 0, what has been counted is settled: the day was  *)
(* on the topic before the poke began.                                     *)
LEMMA CountedStep ==
    ASSUME DeliveryTypeOK, TypeOK', Control, SentOrUnsent, SnapshotSettled, BacklogIsCount,
           CountedIsSettled, MeterAssumption, DeliveryAssumption, [DeliveryNext]_allVars
    PROVE  CountedIsSettled'
<1> USE DEF run, sensor, dag, Running
<1>1. \A m : SettledMessage(m) => SettledMessage(m)'
    BY DeliveryIsStep, SettledMessageStays DEF DeliveryTypeOK
<1>2. poking' /\ behind' = 0
      /\ (\A d \in Day : status'[d] = "running" =>
            \A m \in Delivery[d] : PartitionOf[m] \notin left' => SettledMessage(m)')
      => CountedIsSettled'
    BY DEF CountedIsSettled
<1>3. ~(poking' /\ behind' = 0) => CountedIsSettled'
    BY DEF CountedIsSettled
<1>4. poking /\ behind = 0 =>
        \A d \in Day : status[d] = "running" =>
            \A m \in Delivery[d] : PartitionOf[m] \notin left => SettledMessage(m)
    BY DEF CountedIsSettled
<1>5. poking =>
        \A d \in Day : status[d] = "running" =>
            task[d] = "wait_for_storage" /\ \A m \in Delivery[d] : OnTopic(m)
    BY DEF Control, OneRun, PokesInStorage, SentOrUnsent
<1>6. CASE UNCHANGED <<status, poking, behind, left>>
    BY <1>1, <1>2, <1>3, <1>4, <1>6
<1>7. ASSUME NEW d \in Day, Poke(d)  PROVE CountedIsSettled'
    <2>1. ASSUME NEW e \in Day, NEW m \in Delivery[e]  PROVE PartitionOf[m] \in left'
        BY <1>7, <2>1 DEF Poke, DeliveryAssumption
    <2> QED
        BY <1>2, <1>3, <2>1
<1>8. ASSUME NEW d \in Day, NEW p \in Partition, ReadWatermark(d, p)
      PROVE  CountedIsSettled'
    <2> SUFFICES ASSUME behind' = 0, NEW e \in Day, status[e] = "running",
                        NEW m \in Delivery[e], PartitionOf[m] \notin left'
                 PROVE  SettledMessage(m)
        BY <1>1, <1>2, <1>3, <1>8 DEF ReadWatermark
    <2>1. poking /\ behind = 0 /\ left' = left \ {p}
        BY <1>8, WatermarkCounts DEF ReadWatermark
    <2>2. CASE PartitionOf[m] # p
        BY <1>4, <2>1, <2>2
    <2>3. CASE PartitionOf[m] = p
        <3>1. PICK o \in Offset : o < Len(log[p]) /\ log[p][o + 1] = m
            BY <1>5, <2>1, <2>3 DEF OnTopic
        <3>2. Settled(p, o)
            BY <1>8, <3>1, WatermarkCounts
        <3> QED
            BY <3>1, <3>2 DEF Settled
    <2> QED
        BY <2>2, <2>3
<1>9. ASSUME NEW d \in Day, StartRun(d) \/ ClearRun(d)  PROVE ~poking'
    <2>1. \A e \in Day : ~(status[e] = "running")
        BY <1>9 DEF StartRun, ClearRun, DeliveryTypeOK
    <2>2. ~poking
        BY <2>1 DEF Control, PokesInStorage
    <2> QED
        BY <1>9, <2>2 DEF StartRun, ClearRun
<1>10. ASSUME NEW d \in Day,
              MarkAsset(d) \/ PokeAgain(d) \/ TaskFails(d) \/ SensorTimesOut(d)
       PROVE  ~poking'
    BY <1>10 DEF MarkAsset, PokeAgain, TaskFails, SensorTimesOut
<1>11. ASSUME NEW d \in Day, WeatherReady(d) \/ ProduceMessage(d) \/ Produced(d)
       PROVE  UNCHANGED <<status, poking, behind, left>>
    BY <1>11 DEF WeatherReady, ProduceMessage, Produced
<1> QED
    BY <1>3, <1>6, <1>7, <1>8, <1>9, <1>10, <1>11 DEF DeliveryNext, Progress, Fault, allVars

(* The asset is marked on a full count of 0, and a marked day stays        *)
(* settled.                                                                *)
LEMMA AssetStep ==
    ASSUME DeliveryTypeOK, CountedIsSettled, AssetMeansStored,
           DeliveryAssumption, [DeliveryNext]_allVars
    PROVE  AssetMeansStored'
<1> USE DEF run, sensor, dag, Running
<1>1. \A m : SettledMessage(m) => SettledMessage(m)'
    BY DeliveryIsStep, SettledMessageStays DEF DeliveryTypeOK
<1>2. ASSUME NEW e \in Day, MarkAsset(e), NEW m \in Delivery[e]  PROVE SettledMessage(m)
    BY <1>2 DEF MarkAsset, CountedIsSettled
<1>3. ASSUME NEW e \in Day, MarkAsset(e), NEW d \in Day, d # e  PROVE status'[d] = status[d]
    BY <1>3 DEF MarkAsset, DeliveryTypeOK
<1>4. ASSUME NEW e \in Day, Progress(e) \/ Fault(e), ~MarkAsset(e),
             NEW d \in Day, status'[d] = "marked"
      PROVE  status[d] = "marked"
    BY <1>4 DEF Progress, Fault, StartRun, WeatherReady, ProduceMessage, Produced, Poke,
        PokeAgain, ReadWatermark, TaskFails, SensorTimesOut, ClearRun, DeliveryTypeOK
<1>5. ASSUME NEW d \in Day, status'[d] = "marked", NEW m \in Delivery[d]
      PROVE  SettledMessage(m)
    BY <1>2, <1>3, <1>4, <1>5 DEF DeliveryNext, allVars, AssetMeansStored
<1> QED
    BY <1>1, <1>5 DEF AssetMeansStored

-----------------------------------------------------------------------------
LEMMA DeliveryInitInv ==
    ASSUME MeterAssumption, DeliveryAssumption, DeliveryInit
    PROVE  DeliveryTypeOK /\ NoLossInv /\ DeliveryInv
<1>1. TypeOK /\ NoLossInv
    BY InitInv DEF DeliveryInit
<1>2. DeliveryTypeOK
    <2>1. [p \in Partition |-> NoOffset] \in [Partition -> Nat \cup {NoOffset}]
        OBVIOUS
    <2>2. 0 \in 0 .. Retries
        BY DEF DeliveryAssumption
    <2>3. seen \in [Partition -> Nat \cup {NoOffset}]
        BY <2>1 DEF DeliveryInit
    <2>4. status \in [Day -> {"scheduled", "running", "failed", "marked"}]
        BY DEF DeliveryInit
    <2>5. task \in [Day -> {"wait_for_weather", "produce", "wait_for_storage"}]
        BY DEF DeliveryInit
    <2>6. tries \in 0 .. Retries
        BY <2>2 DEF DeliveryInit
    <2>7. unsent \subseteq Payload /\ left \subseteq Partition
        BY DEF DeliveryInit
    <2>8. behind \in Int
        BY DEF DeliveryInit
    <2>9. poking \in BOOLEAN
        BY DEF DeliveryInit
    <2> QED
        BY <1>1, <2>3, <2>4, <2>5, <2>6, <2>7, <2>8, <2>9 DEF DeliveryTypeOK
<1>3. SnapshotSettled
    BY DEF DeliveryInit, Init, SnapshotSettled, NoOffset, Offset
<1>4. OneRun /\ PokesInStorage /\ SentOrUnsent /\ ScheduledFirst
    BY DEF DeliveryInit, OneRun, PokesInStorage, SentOrUnsent, ScheduledFirst, Running
<1>5. BacklogIsCount /\ CountedIsSettled /\ AssetMeansStored
    BY DEF DeliveryInit, BacklogIsCount, CountedIsSettled, AssetMeansStored
<1> QED
    BY <1>1, <1>2, <1>3, <1>4, <1>5 DEF DeliveryInv

LEMMA DeliveryInvStep ==
    ASSUME DeliveryTypeOK, NoLossInv, DeliveryInv, MeterAssumption, DeliveryAssumption,
           [DeliveryNext]_allVars
    PROVE  DeliveryTypeOK' /\ NoLossInv' /\ DeliveryInv'
<1>1. DeliveryTypeOK' /\ TypeOK' /\ NoLossInv'
    BY GroupStep, DeliveryTypeStep
<1>2. Control
    BY DEF Control, DeliveryInv
<1>3. Control'
    BY <1>2, ControlStep
<1>4. SentOrUnsent'
    BY <1>1, <1>2, SentStep DEF DeliveryInv
<1>5. SnapshotSettled'
    BY <1>1, SnapshotStep DEF DeliveryInv
<1>6. BacklogIsCount'
    BY BacklogStep DEF DeliveryInv
<1>7. CountedIsSettled'
    BY <1>1, <1>2, CountedStep DEF DeliveryInv
<1>8. AssetMeansStored'
    BY AssetStep DEF DeliveryInv
<1> QED
    BY <1>1, <1>3, <1>4, <1>5, <1>6, <1>7, <1>8 DEF DeliveryInv, Control

(* The inductive invariant of the delivery, for any number of days,        *)
(* partitions, consumers and retries.                                      *)
THEOREM DeliveryInvariant == DeliverySpec => [](DeliveryTypeOK /\ NoLossInv /\ DeliveryInv)
<1>1. DeliveryInit => DeliveryTypeOK /\ NoLossInv /\ DeliveryInv
    BY DeliveryInitInv, MeterAssumption, DeliveryAssumption
<1>2. (DeliveryTypeOK /\ NoLossInv /\ DeliveryInv) /\ [DeliveryNext]_allVars
        => (DeliveryTypeOK /\ NoLossInv /\ DeliveryInv)'
    BY DeliveryInvStep, MeterAssumption, DeliveryAssumption
<1> QED
    BY <1>1, <1>2, PTL DEF DeliverySpec

(* The build never starts on a day that is not fully stored or recorded,   *)
(* whatever fails, is retried or runs beside it.                           *)
THEOREM MarkedIsStored == DeliverySpec => []AssetMeansStored
<1>1. DeliveryInv => AssetMeansStored
    BY DEF DeliveryInv
<1> QED
    BY <1>1, DeliveryInvariant, PTL
=============================================================================
