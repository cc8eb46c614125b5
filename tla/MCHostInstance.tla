--------------------------- MODULE MCHostInstance ---------------------------
(***************************************************************************)
(* Instances of HostInstance for TLC: hosts h1, h2 and h3 that are started *)
(* one after another, or at the same time.                                 *)
(***************************************************************************)
EXTENDS HostInstance

CONSTANTS h1, h2, h3
=============================================================================
