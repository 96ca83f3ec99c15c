---------------------------- MODULE MCNightShift ----------------------------
(* Instances of NightShift for TLC. No definition tells one run from       *)
(* another, so they may be exchanged where no liveness is checked.         *)
EXTENDS NightShift, TLC

CONSTANTS r1, r2

Symmetry == Permutations({r1, r2})
=============================================================================
