------------------------------- MODULE Daemon -------------------------------
(***************************************************************************)
(* The life of zeerak-server (cmd/zeerak-server/main.go): it boots by      *)
(* applying the configuration file directly, serves the panel and the API  *)
(* through the stager, and may die at any moment.  What it kept in memory  *)
(* is then lost and the kernel's tables stay; systemd starts it again.     *)
(***************************************************************************)
EXTENDS Panel, Naturals

CONSTANT MaxCrashes   (* bounds the model *)

ASSUME CrashAssumption == MaxCrashes \in Nat

VARIABLES
  up,        (* the daemon has completed its boot apply *)
  crashes

daemonVars == << vars, panelVars, up, crashes >>

DaemonTypeOK ==
  /\ PanelTypeOK
  /\ up \in BOOLEAN
  /\ up => current \in Rulesets
  /\ crashes \in 0..MaxCrashes

DaemonInit == Init /\ PanelInit /\ up = TRUE /\ crashes = 0

Serve(A) == up /\ A /\ UNCHANGED << up, crashes >>

(* What nft had been told to do when the daemon died.                      *)
InFlight ==
  {arg[ch] : ch \in {c \in Changes : pc[c] = "stage-apply"}}
    \cup {snap[p] : p \in {q \in Procs : pc[q] = "revert-apply"}}

(* Every goroutine and every timer dies.  The nft child is a process of    *)
(* its own and may commit all the same.                                    *)
Crash ==
  /\ up
  /\ crashes < MaxCrashes
  /\ kernel' \in {kernel} \cup {Install(kernel, r) : r \in InFlight}
  /\ state' = "idle"
  /\ snapshot' = None
  /\ candidate' = None
  /\ timer' = None
  /\ cancelled' = {}
  /\ pc' = [p \in Procs |-> IF p \in Rollbacks THEN "idle"
                            ELSE IF pc[p] = "new" THEN "new" ELSE "done"]
  /\ arg' = [ch \in Changes |-> None]
  /\ snap' = [p \in Procs |-> None]
  /\ current' = None
  /\ pendingPresets' = None
  /\ form' = [ch \in Changes |-> None]
  /\ promoting' = FALSE
  /\ clearing' = {}
  /\ up' = FALSE
  /\ crashes' = crashes + 1
  /\ UNCHANGED << last, accepted, apiUsed >>

(* Mutants: run() does not apply the file; the panel is not told of it.    *)
RestartUnapplied ==
  /\ ~up
  /\ last' = Boot
  /\ accepted' = Boot
  /\ current' = Boot
  /\ apiUsed' = FALSE
  /\ up' = TRUE
  /\ UNCHANGED << kernel, stagerVars, cancelled, pc, arg, snap, pendingPresets, handlerVars, crashes >>

RestartUntold ==
  /\ ~up
  /\ kernel' = Install(kernel, Boot)
  /\ last' = Boot
  /\ accepted' = Boot
  /\ apiUsed' = FALSE
  /\ up' = TRUE
  /\ UNCHANGED << stagerVars, cancelled, pc, arg, snap, current, pendingPresets, handlerVars, crashes >>

(* run(): load the file, apply it without a rollback window, because "the  *)
(* operator already approved it by writing the file", and SetCurrent.      *)
Restart ==
  /\ ~up
  /\ kernel' = Install(kernel, Boot)
  /\ last' = Boot
  /\ accepted' = Boot
  /\ current' = Boot
  /\ apiUsed' = FALSE
  /\ up' = TRUE
  /\ UNCHANGED << stagerVars, cancelled, pc, arg, snap, pendingPresets, handlerVars, crashes >>

DaemonNext == Serve(PanelNext) \/ Crash \/ Restart

DaemonSpec == DaemonInit /\ [][DaemonNext]_daemonVars

(* As in Stager; a handler that holds no lock gets its lock; and systemd   *)
(* restarts the daemon (Restart=on-failure).                               *)
FairDaemonSpec ==
  /\ DaemonSpec
  /\ \A ch \in Changes :
       /\ WF_daemonVars(Serve(Behind(StageWork(ch) \/ TimerWork(ch) \/ RevertWork(ch))))
       /\ WF_daemonVars(Serve(Stash(ch)))
  /\ \A b \in Rollbacks :
       /\ WF_daemonVars(Serve(Behind(RollbackFails(b) \/ RevertWork(b))))
       /\ WF_daemonVars(Serve(Clear(b)))
  /\ WF_daemonVars(Serve(Promote))
  /\ WF_daemonVars(Restart)
-----------------------------------------------------------------------------
(* Whatever a crash interrupts, the daemon comes back with the kernel, the *)
(* cache and the stager agreeing on what is approved and nothing pending.  *)
UpIsConsistent ==
  up /\ Quiet =>
    /\ last = kernel
    /\ kernel = (IF state = "pending" THEN candidate ELSE accepted)
    /\ state = "pending" => snapshot = accepted

(* The panel agrees with the stager, however often the daemon has died.    *)
UpPanelShowsAccepted == up => PanelShowsAccepted

(* "If the timer fires first, OR the daemon dies [...] we restore the      *)
(* snapshot" (stager.go:8-9): a change that nobody confirms leaves the     *)
(* kernel, however often the daemon dies meanwhile.                        *)
UnapprovedLeaves == kernel # accepted ~> kernel = accepted
=============================================================================
