---------------------------- MODULE MCDetectionRun ----------------------------
(***************************************************************************)
(* Instances of DetectionRun for TLC: a backfill b1 and a limited run r1,   *)
(* models m1 and m2.                                                       *)
(***************************************************************************)
EXTENDS DetectionRun

CONSTANTS b1, r1, m1, m2
=============================================================================
