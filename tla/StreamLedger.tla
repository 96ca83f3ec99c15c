---------------------------- MODULE StreamLedger ----------------------------
(***************************************************************************)
(* What the meter consumer promises, with no consumer in it: a topic is a  *)
(* ledger of positions, a position is settled once its message is stored   *)
(* or recorded as a dead letter, and the group's offset may only stand     *)
(* above settled positions (the docstring of src/megavolt/consumer.py:     *)
(* "dead letters flushed -> database committed -> offsets committed").     *)
(***************************************************************************)
EXTENDS Naturals

CONSTANTS Partition     \* the partitions of the topic

VARIABLES
    delivered,          \* delivered[p]: how many messages the partition has
    settled,            \* positions <<p, offset>> that can no longer be lost
    acknowledged        \* acknowledged[p]: the offset the group resumes from

vars == <<delivered, settled, acknowledged>>

Positions == {pos \in Partition \X Nat : pos[2] < delivered[pos[1]]}

Init ==
    /\ delivered = [p \in Partition |-> 0]
    /\ settled = {}
    /\ acknowledged = [p \in Partition |-> 0]

(* One message is appended. A copy of a message already stored is settled  *)
(* the moment it arrives.                                                  *)
Deliver(p) ==
    /\ delivered' = [delivered EXCEPT ![p] = @ + 1]
    /\ settled' \in {settled, settled \cup {<<p, delivered[p]>>}}
    /\ UNCHANGED acknowledged

(* Positions become settled, and never stop being settled. *)
Settle ==
    /\ settled \subseteq settled'
    /\ settled' \subseteq Positions
    /\ UNCHANGED <<delivered, acknowledged>>

(* The group moves forward, over settled positions only. *)
Acknowledge ==
    /\ acknowledged' \in [Partition -> Nat]
    /\ \A p \in Partition :
        /\ acknowledged[p] <= acknowledged'[p]
        /\ \A o \in 0 .. acknowledged'[p] - 1 : <<p, o>> \in settled
    /\ UNCHANGED <<delivered, settled>>

(* The operator rewinds the group: everything after is read again. *)
Rewind ==
    /\ acknowledged' \in [Partition -> Nat]
    /\ \A p \in Partition : acknowledged'[p] <= acknowledged[p]
    /\ UNCHANGED <<delivered, settled>>

Next ==
    \/ \E p \in Partition : Deliver(p)
    \/ Settle
    \/ Acknowledge
    \/ Rewind

Spec == Init /\ [][Next]_vars
=============================================================================
