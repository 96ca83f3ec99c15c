-------------------------- MODULE MCMeterConsumer ---------------------------
(* Instances of MeterConsumer for TLC. Neither the processes nor the       *)
(* partitions are told apart by any definition, so both may be exchanged   *)
(* where no liveness is checked.                                           *)
EXTENDS MeterConsumer, TLC

Symmetry == Permutations(Consumer) \cup Permutations(Partition)
=============================================================================
