--------------------------- MODULE EvaluationLedger ---------------------------
(***************************************************************************)
(* What detection runs promise to whoever reads the evaluations: the       *)
(* ledger of evaluations is append-only and an identity is written once,   *)
(* by a run that is in progress; a run ends at most once, and a run that   *)
(* is reported as blocked has evaluated nothing.  A run may also never end *)
(* (its process died).  DetectionRun implements this module.               *)
(***************************************************************************)
CONSTANTS
  Runs,  \* detection runs
  Keys,  \* identities of evaluations
  NoRun

VARIABLES
  status, \* the status of every run
  ledger  \* the run that wrote each identity, or NoRun

vars == <<status, ledger>>

Ends == {"success", "partial", "blocked"}

Init ==
  /\ status = [r \in Runs |-> "none"]
  /\ ledger = [k \in Keys |-> NoRun]

Begin(r) ==
  /\ status[r] = "none"
  /\ status' = [status EXCEPT ![r] = "running"]
  /\ UNCHANGED ledger

Record(r, k) ==
  /\ ledger[k] = NoRun /\ ledger'[k] = r
  /\ status[r] = "running"
  /\ ledger' = [ledger EXCEPT ![k] = r]
  /\ UNCHANGED status

End(r, s) ==
  /\ status[r] = "running"
  /\ s = "blocked" => \A k \in Keys : ledger[k] # r
  /\ status' = [status EXCEPT ![r] = s]
  /\ UNCHANGED ledger

Next == \E r \in Runs :
  \/ Begin(r)
  \/ \E k \in Keys : Record(r, k)
  \/ \E s \in Ends : End(r, s)

Spec == Init /\ [][Next]_vars
=============================================================================
