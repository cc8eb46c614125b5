---------------------------- MODULE MCFindingStore ----------------------------
(***************************************************************************)
(* Instances of FindingStore for TLC: runs r1 and r2, analysts a1 and a2.  *)
(***************************************************************************)
EXTENDS FindingStore, TLC

CONSTANTS r1, r2, a1, a2, fp1, fp2

\* Runs, analysts and fingerprints are interchangeable.
Symmetry == Permutations({r1, r2}) \cup Permutations({a1, a2})
              \cup Permutations({fp1, fp2})
=============================================================================
