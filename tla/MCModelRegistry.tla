---------------------------- MODULE MCModelRegistry ----------------------------
(***************************************************************************)
(* Instances of ModelRegistry for TLC: trainings t1 and t2, operators o1   *)
(* and o2, the two model families.                                         *)
(***************************************************************************)
EXTENDS ModelRegistry, TLC

CONSTANTS t1, t2, o1, o2, ae, forest

Symmetry == Permutations({t1, t2}) \cup Permutations({o1, o2})
              \cup Permutations({ae, forest})
=============================================================================
