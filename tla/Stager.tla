------------------------------- MODULE Stager -------------------------------
(***************************************************************************)
(* The stager of internal/stager together with the adapter it drives       *)
(* (internal/nft).  Every region of the code that holds Stager.mu or       *)
(* linuxAdapter.mu is one action; between two regions the goroutines that  *)
(* serve requests and the goroutines of the rollback timers interleave     *)
(* freely.                                                                 *)
(*                                                                         *)
(* One element of Changes stands for one call of Stage and, once that call *)
(* has armed its timer, for that timer and the goroutine it starts: the    *)
(* two never run at the same time.  A call answered with ErrAlreadyPending *)
(* or ErrNoPending changes nothing and is not an action.                   *)
(*                                                                         *)
(* Time is not modelled: an armed timer may fire at any moment.            *)
(***************************************************************************)

CONSTANTS
  Changes,        (* calls of Stage that pass its check; bounds the model    *)
  Rollbacks,      (* goroutines serving Rollback, one request at a time each *)
  Rulesets,       (* rulesets that may be staged                             *)
  Boot,           (* the ruleset the daemon applied at boot                  *)
  None,           (* the nil pointer                                         *)
  BootKernel,     (* what the kernel holds after the boot apply              *)
  Install(_, _),  (* what the kernel holds after `nft -f -` has committed    *)
  Faults          (* the nft runs that may go wrong, see Refused and Killed  *)

ASSUME ProcessAssumption ==
  /\ Changes \cap Rollbacks = {}
  /\ None \notin Changes

ASSUME RulesetAssumption ==
  /\ Boot \in Rulesets
  /\ None \notin Rulesets

ASSUME FaultAssumption == Faults \subseteq {"stage", "rollback", "timeout", "kill"}

VARIABLES
  state,       (* Stager.state                                              *)
  snapshot,    (* Stager.snapshot                                           *)
  candidate,   (* Stager.candidate                                          *)
  timer,       (* Stager.timer and Stager.cancel, which are set and cleared *)
               (* together: the change whose timer they refer to, or None   *)
  cancelled,   (* the changes whose timerCtx is cancelled                   *)
  kernel,      (* the tables the kernel holds: BootKernel, then what        *)
               (* Install makes of them                                     *)
  last,        (* linuxAdapter.last, the ruleset of the last successful run *)
  pc,          (* where each goroutine is                                   *)
  arg,         (* Stage's parameter candidate                               *)
  snap,        (* the local snap of Stage, Rollback and fireTimeout         *)
  accepted     (* history: the ruleset an operator last approved            *)

stagerVars == << state, snapshot, candidate, timer >>
vars == << stagerVars, cancelled, kernel, last, pc, arg, snap, accepted >>

Procs == Changes \cup Rollbacks

States == {"idle", "pending", "confirmed", "rolled-back"}

(* Where a goroutine can be: inside Stage, inside the revert that Rollback *)
(* and fireTimeout share, or at rest.                                      *)
Staging   == {"snapshot", "stage-apply", "stage-applied", "stage-commit"}
Reverting == {"revert-apply", "revert-applied", "revert-commit"}
AtRest    == {"new", "ticking", "stopped", "idle", "done"}

ChangePhases   == Staging \cup Reverting \cup {"new", "ticking", "stopped", "fired", "done"}
RollbackPhases == Reverting \cup {"idle"}

TypeOK ==
  /\ state \in States
  /\ snapshot \in Rulesets \cup {None}
  /\ candidate \in Rulesets \cup {None}
  /\ timer \in Changes \cup {None}
  /\ cancelled \subseteq Changes
  /\ last \in Rulesets
  /\ pc \in [Procs -> ChangePhases \cup RollbackPhases]
  /\ \A ch \in Changes : pc[ch] \in ChangePhases
  /\ \A b \in Rollbacks : pc[b] \in RollbackPhases
  /\ arg \in [Changes -> Rulesets \cup {None}]
  /\ snap \in [Procs -> Rulesets \cup {None}]
  /\ accepted \in Rulesets

Init ==
  /\ state = "idle"
  /\ snapshot = None
  /\ candidate = None
  /\ timer = None
  /\ cancelled = {}
  /\ kernel = BootKernel
  /\ last = Boot
  /\ pc = [p \in Procs |-> IF p \in Changes THEN "new" ELSE "idle"]
  /\ arg = [ch \in Changes |-> None]
  /\ snap = [p \in Procs |-> None]
  /\ accepted = Boot
-----------------------------------------------------------------------------
(* The adapter: Apply runs nft and, when nft succeeds, records the ruleset *)
(* under the adapter's lock.                                               *)

(* nft may refuse the script, or be killed before it commits, and leave    *)
(* the kernel as it was.  A timer's run always fails that way once its     *)
(* context is cancelled.                                                   *)
Refused(p) ==
  \/ pc[p] = "stage-apply" /\ "stage" \in Faults
  \/ pc[p] = "revert-apply" /\ p \in Rollbacks /\ "rollback" \in Faults
  \/ pc[p] = "revert-apply" /\ p \in Changes /\ ("timeout" \in Faults \/ p \in cancelled)

(* nft may be killed after it has committed: exec.CommandContext kills it  *)
(* when the request's client disconnects or the timer's context is         *)
(* cancelled.  Apply then reports an error and does not touch last.        *)
Killed(p) ==
  \/ pc[p] = "stage-applied" /\ "kill" \in Faults
  \/ pc[p] = "revert-applied" /\ p \in Rollbacks /\ "kill" \in Faults
  \/ pc[p] = "revert-applied" /\ p \in Changes /\ p \in cancelled

Failed(p) == Refused(p) \/ Killed(p)

Commit(p, r, from, to) ==
  /\ pc[p] = from
  /\ kernel' = Install(kernel, r)
  /\ pc' = [pc EXCEPT ![p] = to]
  /\ UNCHANGED << stagerVars, cancelled, last, arg, snap, accepted >>

Remember(p, r, from, to) ==
  /\ pc[p] = from
  /\ last' = r
  /\ pc' = [pc EXCEPT ![p] = to]
  /\ UNCHANGED << stagerVars, cancelled, kernel, arg, snap, accepted >>
-----------------------------------------------------------------------------
(* Stage: check under the lock, snapshot, apply, then arm the timer under  *)
(* the lock without looking at the state again.  A goroutine's locals are  *)
(* None again once it has returned.                                        *)

(* Mutant: Stage does not look at the state.                               *)
StageCheckBlind(ch, r) ==
  /\ pc[ch] = "new"
  /\ arg' = [arg EXCEPT ![ch] = r]
  /\ pc' = [pc EXCEPT ![ch] = "snapshot"]
  /\ UNCHANGED << stagerVars, cancelled, kernel, last, snap, accepted >>

StageCheck(ch, r) ==
  /\ pc[ch] = "new"
  /\ state # "pending"
  /\ arg' = [arg EXCEPT ![ch] = r]
  /\ pc' = [pc EXCEPT ![ch] = "snapshot"]
  /\ UNCHANGED << stagerVars, cancelled, kernel, last, snap, accepted >>

StageSnapshot(ch) ==
  /\ pc[ch] = "snapshot"
  /\ snap' = [snap EXCEPT ![ch] = last]
  /\ pc' = [pc EXCEPT ![ch] = "stage-apply"]
  /\ UNCHANGED << stagerVars, cancelled, kernel, last, arg, accepted >>

StageApply(ch)    == Commit(ch, arg[ch], "stage-apply", "stage-applied")
StageRemember(ch) == Remember(ch, arg[ch], "stage-applied", "stage-commit")

(* Mutant: the adapter records the ruleset before it knows that nft took   *)
(* it.                                                                     *)
StageFailsRemembered(ch) ==
  /\ pc[ch] \in {"stage-apply", "stage-applied"}
  /\ Failed(ch)
  /\ last' = arg[ch]
  /\ pc' = [pc EXCEPT ![ch] = "done"]
  /\ arg' = [arg EXCEPT ![ch] = None]
  /\ snap' = [snap EXCEPT ![ch] = None]
  /\ UNCHANGED << stagerVars, cancelled, kernel, accepted >>

StageFails(ch) ==
  /\ pc[ch] \in {"stage-apply", "stage-applied"}
  /\ Failed(ch)
  /\ pc' = [pc EXCEPT ![ch] = "done"]
  /\ arg' = [arg EXCEPT ![ch] = None]
  /\ snap' = [snap EXCEPT ![ch] = None]
  /\ UNCHANGED << stagerVars, cancelled, kernel, last, accepted >>

(* Mutants: Stage takes its snapshot after the apply; Stage forgets to arm *)
(* the timer.                                                              *)
StageCommitLateSnapshot(ch) ==
  /\ pc[ch] = "stage-commit"
  /\ state' = "pending"
  /\ snapshot' = last
  /\ candidate' = arg[ch]
  /\ timer' = ch
  /\ pc' = [pc EXCEPT ![ch] = "ticking"]
  /\ arg' = [arg EXCEPT ![ch] = None]
  /\ snap' = [snap EXCEPT ![ch] = None]
  /\ UNCHANGED << cancelled, kernel, last, accepted >>

StageCommitUnarmed(ch) ==
  /\ pc[ch] = "stage-commit"
  /\ state' = "pending"
  /\ snapshot' = snap[ch]
  /\ candidate' = arg[ch]
  /\ pc' = [pc EXCEPT ![ch] = "done"]
  /\ arg' = [arg EXCEPT ![ch] = None]
  /\ snap' = [snap EXCEPT ![ch] = None]
  /\ UNCHANGED << timer, cancelled, kernel, last, accepted >>

StageCommit(ch) ==
  /\ pc[ch] = "stage-commit"
  /\ state' = "pending"
  /\ snapshot' = snap[ch]
  /\ candidate' = arg[ch]
  /\ timer' = ch
  /\ pc' = [pc EXCEPT ![ch] = "ticking"]
  /\ arg' = [arg EXCEPT ![ch] = None]
  /\ snap' = [snap EXCEPT ![ch] = None]
  /\ UNCHANGED << cancelled, kernel, last, accepted >>
-----------------------------------------------------------------------------
(* stopTimerLocked: Timer.Stop has an effect only on a timer that has not  *)
(* fired yet; cancel marks the context in any case.                        *)

Silenced == [p \in Procs |-> IF p = timer /\ pc[p] = "ticking" THEN "stopped" ELSE pc[p]]

(* Mutant: stopTimerLocked without its nil checks.                         *)
StopTimerUnchecked ==
  /\ timer' = None
  /\ cancelled' = cancelled \cup {timer}

StopTimer ==
  /\ timer' = None
  /\ cancelled' = cancelled \cup (IF timer = None THEN {} ELSE {timer})

Confirm ==
  /\ state = "pending"
  /\ StopTimer
  /\ pc' = Silenced
  /\ state' = "confirmed"
  /\ snapshot' = None
  /\ candidate' = None
  /\ accepted' = candidate
  /\ UNCHANGED << kernel, last, arg, snap >>

(* The first critical section of Rollback.                                 *)
RollbackCheck(b) ==
  /\ pc[b] = "idle"
  /\ state = "pending"
  /\ StopTimer
  /\ snap' = [snap EXCEPT ![b] = snapshot]
  /\ pc' = [Silenced EXCEPT ![b] = "revert-apply"]
  /\ UNCHANGED << state, snapshot, candidate, kernel, last, arg, accepted >>

(* Mutant: Rollback, like fireTimeout, drops the error of Apply.           *)
RollbackFailsSilently(b) ==
  /\ pc[b] \in {"revert-apply", "revert-applied"}
  /\ Failed(b)
  /\ pc' = [pc EXCEPT ![b] = "revert-commit"]
  /\ UNCHANGED << stagerVars, cancelled, kernel, last, arg, snap, accepted >>

(* Rollback returns the error and leaves the change pending.               *)
RollbackFails(b) ==
  /\ pc[b] \in {"revert-apply", "revert-applied"}
  /\ Failed(b)
  /\ pc' = [pc EXCEPT ![b] = "idle"]
  /\ snap' = [snap EXCEPT ![b] = None]
  /\ UNCHANGED << stagerVars, cancelled, kernel, last, arg, accepted >>
-----------------------------------------------------------------------------
(* fireTimeout, in the goroutine that the timer starts.                    *)

Fire(ch) ==
  /\ pc[ch] = "ticking"
  /\ pc' = [pc EXCEPT ![ch] = "fired"]
  /\ UNCHANGED << stagerVars, cancelled, kernel, last, arg, snap, accepted >>

TimeoutIgnored(ch) ==
  /\ pc[ch] = "fired"
  /\ state # "pending"
  /\ pc' = [pc EXCEPT ![ch] = "done"]
  /\ UNCHANGED << stagerVars, cancelled, kernel, last, arg, snap, accepted >>

(* Mutant: fireTimeout does not re-check the state under the lock.         *)
TimeoutCheckBlind(ch) ==
  /\ pc[ch] = "fired"
  /\ snap' = [snap EXCEPT ![ch] = snapshot]
  /\ pc' = [pc EXCEPT ![ch] = IF ch \in cancelled THEN "revert-commit" ELSE "revert-apply"]
  /\ UNCHANGED << stagerVars, cancelled, kernel, last, arg, accepted >>

(* With a cancelled context Apply fails before nft starts, so the          *)
(* goroutine goes straight to its last critical section.                   *)
TimeoutCheck(ch) ==
  /\ pc[ch] = "fired"
  /\ state = "pending"
  /\ snap' = [snap EXCEPT ![ch] = snapshot]
  /\ pc' = [pc EXCEPT ![ch] = IF ch \in cancelled THEN "revert-commit" ELSE "revert-apply"]
  /\ UNCHANGED << stagerVars, cancelled, kernel, last, arg, accepted >>

(* Mutant: fireTimeout returns when Apply fails.                           *)
TimeoutFailsEarly(ch) ==
  /\ pc[ch] \in {"revert-apply", "revert-applied"}
  /\ Failed(ch)
  /\ pc' = [pc EXCEPT ![ch] = "done"]
  /\ snap' = [snap EXCEPT ![ch] = None]
  /\ UNCHANGED << stagerVars, cancelled, kernel, last, arg, accepted >>

(* The error of Apply is dropped.                                          *)
TimeoutFails(ch) ==
  /\ pc[ch] \in {"revert-apply", "revert-applied"}
  /\ Failed(ch)
  /\ pc' = [pc EXCEPT ![ch] = "revert-commit"]
  /\ UNCHANGED << stagerVars, cancelled, kernel, last, arg, snap, accepted >>
-----------------------------------------------------------------------------
(* What Rollback and fireTimeout have in common: apply the snapshot, then  *)
(* leave the pending state under the lock.                                 *)

RevertApply(p)    == Commit(p, snap[p], "revert-apply", "revert-applied")
RevertRemember(p) == Remember(p, snap[p], "revert-applied", "revert-commit")

RevertCommit(p) ==
  /\ pc[p] = "revert-commit"
  /\ state' = "rolled-back"
  /\ snapshot' = None
  /\ candidate' = None
  /\ pc' = [pc EXCEPT ![p] = IF p \in Changes THEN "done" ELSE "idle"]
  /\ snap' = [snap EXCEPT ![p] = None]
  /\ UNCHANGED << timer, cancelled, kernel, last, arg, accepted >>
-----------------------------------------------------------------------------
(* Requests come from clients; everything else is the daemon's own work.   *)
Request ==
  \/ \E ch \in Changes, r \in Rulesets : StageCheck(ch, r)
  \/ Confirm
  \/ \E b \in Rollbacks : RollbackCheck(b)

StageWork(ch) ==
  \/ StageSnapshot(ch)
  \/ StageApply(ch)
  \/ StageRemember(ch)
  \/ StageFails(ch)
  \/ StageCommit(ch)

TimerWork(ch) ==
  \/ Fire(ch)
  \/ TimeoutIgnored(ch)
  \/ TimeoutCheck(ch)
  \/ TimeoutFails(ch)

RevertWork(p) ==
  \/ RevertApply(p)
  \/ RevertRemember(p)
  \/ RevertCommit(p)

Work ==
  \/ \E ch \in Changes : StageWork(ch) \/ TimerWork(ch)
  \/ \E b \in Rollbacks : RollbackFails(b)
  \/ \E p \in Procs : RevertWork(p)

Next == Request \/ Work

Spec == Init /\ [][Next]_vars

(* Timers expire, the Go scheduler runs every goroutine and every nft run  *)
(* ends; no client has to send another request.                            *)
Fairness ==
  /\ \A ch \in Changes : WF_vars(StageWork(ch) \/ TimerWork(ch) \/ RevertWork(ch))
  /\ \A b \in Rollbacks : WF_vars(RollbackFails(b) \/ RevertWork(b))

FairSpec == Spec /\ Fairness

(* Two assumptions about the clients that the code does not enforce.       *)
(* OneOperator: no request begins while another request is being served,   *)
(* but a timer may fire at any moment.  Serial: moreover no request begins *)
(* while a timer's goroutine runs.                                         *)
OneOperator == \A p \in Procs : pc[p] \notin Staging /\ (p \in Rollbacks => pc[p] = "idle")
Quiet       == \A p \in Procs : pc[p] \in AtRest

OneOperatorSpec == Init /\ [][(OneOperator /\ Request) \/ Work]_vars
SerialNext      == (Quiet /\ Request) \/ Work
SerialSpec      == Init /\ [][SerialNext]_vars
FairSerialSpec  == SerialSpec /\ Fairness
-----------------------------------------------------------------------------
(* Safety under every interleaving and every fault.                        *)

(* No revert runs with a nil snapshot, although Confirm and the other      *)
(* reverts clear Stager.snapshot while it is under way: Apply(nil) would   *)
(* install the empty ruleset.                                              *)
RevertHasTarget ==
  \A p \in Procs : pc[p] \in {"revert-apply", "revert-applied"} => snap[p] # None

(* A pending change is under guard while the timer of the last Stage, or   *)
(* some Rollback, is still going to end it.                                *)
Guarded ==
  state = "pending" =>
    \/ timer # None /\ pc[timer] \in {"ticking", "fired"} \cup Reverting
    \/ \E b \in Rollbacks : pc[b] \in Reverting

(* The one way to lose that guard is a Rollback whose Apply fails after it *)
(* has stopped the timer; neither overlapping calls nor lost nft runs of   *)
(* Stage and of the timer can do it.                                       *)
GuardLostOnlyByFailedRollback ==
  [][Guarded /\ ~Guarded' => \E b \in Rollbacks : RollbackFails(b)]_vars
-----------------------------------------------------------------------------
(* Under Serial, with an Install that replaces the kernel's contents and   *)
(* without nft runs killed after their commit.                             *)

(* Between two calls the adapter's cache is what the kernel enforces, so   *)
(* that the next snapshot is a true one.                                   *)
CacheIsLive == Quiet => last = kernel

(* A rollback goes back to what the operator last approved.                *)
SnapshotIsAccepted == state = "pending" => snapshot = accepted

(* The stager implements the promise of AutoRollback: a trial begins when  *)
(* nft commits the candidate and ends when Confirm takes effect or nft     *)
(* commits the snapshot, both before the stager's state shows it.          *)
TrialStatus ==
  IF \E ch \in Changes : pc[ch] \in {"stage-applied", "stage-commit"} THEN "pending"
  ELSE IF \E p \in Procs : pc[p] \in {"revert-applied", "revert-commit"} THEN "rolled-back"
  ELSE state

Contract == INSTANCE AutoRollback WITH live <- kernel, status <- TrialStatus

KeepsContract     == Contract!Spec
KeepsFairContract == Contract!FairSpec

(* "the running ruleset must always equal the last _confirmed_ config"     *)
(* (VISION.md:151): outside a trial the kernel enforces what the operator  *)
(* last approved.                                                          *)
OnlyAcceptedIsLasting == Contract!OnlyAcceptedIsLasting
-----------------------------------------------------------------------------
(* A statement of the repository that the code does not keep.              *)

(* "Confirm cancels the rollback timer; the staged change becomes          *)
(* permanent" (stager.go:179): nothing but a new Stage ends "confirmed".   *)
ConfirmIsPermanent == [][state = "confirmed" => state' \in {"confirmed", "pending"}]_vars
=============================================================================
