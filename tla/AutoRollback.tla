---------------------------- MODULE AutoRollback ----------------------------
(***************************************************************************)
(* What Zeerak promises about a firewall change (package comment of        *)
(* internal/stager/stager.go and VISION.md, "Safe by default"): a change   *)
(* becomes the running ruleset for a trial period, after which it is       *)
(* either accepted by the operator or undone.  No goroutine, lock, timer   *)
(* or nft process appears here; Stager is the detailed specification.      *)
(***************************************************************************)

CONSTANTS
  Rulesets,   (* the rulesets an operator may stage             *)
  Boot        (* the ruleset of the configuration read at boot  *)

VARIABLES
  live,       (* the ruleset the kernel enforces                          *)
  accepted,   (* the last ruleset an operator approved: Boot or confirmed *)
  status      (* what the stager reports: "idle", "pending", "confirmed", *)
              (* "rolled-back"                                            *)

vars == << live, accepted, status >>

Init ==
  /\ live = Boot
  /\ accepted = Boot
  /\ status = "idle"

Propose(r) ==
  /\ status # "pending"
  /\ live' = r
  /\ status' = "pending"
  /\ UNCHANGED accepted

Accept ==
  /\ status = "pending"
  /\ accepted' = live
  /\ status' = "confirmed"
  /\ UNCHANGED live

Revert ==
  /\ status = "pending"
  /\ live' = accepted
  /\ status' = "rolled-back"
  /\ UNCHANGED accepted

Next == (\E r \in Rulesets : Propose(r)) \/ Accept \/ Revert

Spec == Init /\ [][Next]_vars

(* The trial period is finite: the timer undoes what nobody accepted.      *)
FairSpec == Spec /\ WF_vars(Revert)
-----------------------------------------------------------------------------
(* Outside the trial period the kernel enforces exactly what an operator   *)
(* approved (VISION.md: the running ruleset must equal the last confirmed  *)
(* configuration).                                                         *)
OnlyAcceptedIsLasting == status # "pending" => live = accepted
=============================================================================
