------------------------------ MODULE Firewall ------------------------------
(***************************************************************************)
(* The stager with the adapter that production wires up: an apply does to  *)
(* the kernel what module Nft says, which is not quite a replacement.      *)
(***************************************************************************)
EXTENDS Nft

CONSTANTS
  Changes, Rollbacks, Rulesets, Boot, None, Faults,   (* as in Stager *)
  Foreign   (* the tables in the kernel that Zeerak was not asked to manage, *)
            (* such as those of Docker or fail2ban                           *)

(* As in Stager.                                                           *)
ASSUME FirewallAssumption ==
  /\ Changes \cap Rollbacks = {}
  /\ None \notin Changes
  /\ Boot \in Rulesets
  /\ None \notin Rulesets
  /\ Faults \subseteq {"stage", "rollback", "timeout", "kill"}

(* No ruleset names a foreign table: a configuration that lists a table    *)
(* makes it Zeerak's.                                                      *)
ASSUME ForeignAssumption == \A r \in Rulesets : DOMAIN r \cap DOMAIN Foreign = {}

VARIABLES state, snapshot, candidate, timer, cancelled, kernel, last, pc, arg, snap, accepted

INSTANCE Stager WITH Install <- Apply, BootKernel <- Apply(Foreign, Boot)
-----------------------------------------------------------------------------
(* "Unowned tables [...] are read-only to this adapter" (nft.go:13-14):    *)
(* no interleaving of calls, timers and failed runs touches one.           *)
ForeignUntouched ==
  \A n \in DOMAIN Foreign : n \in DOMAIN kernel /\ kernel[n] = Foreign[n]

(* Between two calls of a serial history the kernel enforces the ruleset   *)
(* that the adapter's cache says it does, rule for rule, so no rule of an  *)
(* earlier ruleset is left in a table that the current one names.          *)
LastIsEnforced == Quiet => Enforces(kernel, last) /\ OnlyShells(kernel, last)
=============================================================================
