--------------------------- MODULE MCWorkerLease ---------------------------
(***************************************************************************)
(* Instances of WorkerLease for TLC: workers of the API host (w1, w2), a   *)
(* foreground worker of another process (f1) and a stop call (s1).  Each   *)
(* configuration says which of w1 and w2 the manager starts.               *)
(***************************************************************************)
EXTENDS WorkerLease, TLC

CONSTANTS w1, w2, f1, s1

\* w1 and w2 are treated alike wherever symmetry is declared.
Symmetry == Permutations({w1, w2})

=============================================================================
