------------------------------ MODULE MCStager ------------------------------
(* TLC instances of Stager in which an apply replaces the ruleset that the *)
(* kernel enforces, as the Applier interface states (stager.go:39).        *)
EXTENDS Stager, TLC

Replace(k, r) == r

Symmetry == Permutations(Changes) \cup Permutations(Rollbacks) \cup Permutations(Rulesets \ {Boot})
=============================================================================
