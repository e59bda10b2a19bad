------------------------------ MODULE MCDaemon ------------------------------
(* TLC instances of Daemon in which an apply replaces the ruleset.         *)
EXTENDS Daemon

Replace(k, r) == r
=============================================================================
