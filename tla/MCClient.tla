------------------------------ MODULE MCClient ------------------------------
(* As MCStager: an apply replaces the ruleset that the kernel enforces.    *)
EXTENDS Client

Replace(k, r) == r
=============================================================================
