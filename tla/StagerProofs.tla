---------------------------- MODULE StagerProofs ----------------------------
(***************************************************************************)
(* Proofs about Stager, for any sets of calls, rollback goroutines and     *)
(* rulesets, and any Install and Faults unless a theorem restricts them.   *)
(***************************************************************************)
EXTENDS Stager, TLAPS

USE ProcessAssumption, RulesetAssumption

(* The nil pointers: a pending change has its snapshot and candidate, and  *)
(* a goroutine inside a call has the rulesets that the call works on.      *)
PendingHasRulesets == state = "pending" => snapshot # None /\ candidate # None
StageHasCandidate  == \A ch \in Changes : pc[ch] \in Staging => arg[ch] # None
StageHasSnapshot   ==
  \A ch \in Changes : pc[ch] \in {"stage-apply", "stage-applied", "stage-commit"} => snap[ch] # None

NilInv ==
  /\ TypeOK
  /\ PendingHasRulesets
  /\ StageHasCandidate
  /\ StageHasSnapshot
  /\ RevertHasTarget

LEMMA InitNilInv == Init => NilInv
BY DEF Init, NilInv, TypeOK, PendingHasRulesets, StageHasCandidate, StageHasSnapshot,
       RevertHasTarget, Procs, States, Staging, Reverting, ChangePhases, RollbackPhases

LEMMA NextNilInv == NilInv /\ [Next]_vars => NilInv'
<1> SUFFICES ASSUME NilInv, [Next]_vars PROVE NilInv'
  OBVIOUS
<1> USE DEF NilInv, TypeOK, PendingHasRulesets, StageHasCandidate, StageHasSnapshot,
            RevertHasTarget, Procs, States, Staging, Reverting, ChangePhases, RollbackPhases,
            stagerVars
<1>1. ASSUME NEW ch \in Changes, NEW r \in Rulesets, StageCheck(ch, r) PROVE NilInv'
  BY <1>1 DEF StageCheck
<1>2. ASSUME NEW ch \in Changes, StageSnapshot(ch) PROVE NilInv'
  BY <1>2 DEF StageSnapshot
<1>3. ASSUME NEW ch \in Changes, StageApply(ch) PROVE NilInv'
  BY <1>3 DEF StageApply, Commit
<1>4. ASSUME NEW ch \in Changes, StageRemember(ch) PROVE NilInv'
  BY <1>4 DEF StageRemember, Remember
<1>5. ASSUME NEW ch \in Changes, StageFails(ch) PROVE NilInv'
  BY <1>5 DEF StageFails
<1>6. ASSUME NEW ch \in Changes, StageCommit(ch) PROVE NilInv'
  BY <1>6 DEF StageCommit
<1>7. CASE Confirm
  BY <1>7 DEF Confirm, StopTimer, Silenced
<1>8. ASSUME NEW b \in Rollbacks, RollbackCheck(b) PROVE NilInv'
  BY <1>8 DEF RollbackCheck, StopTimer, Silenced
<1>9. ASSUME NEW b \in Rollbacks, RollbackFails(b) PROVE NilInv'
  BY <1>9 DEF RollbackFails
<1>10. ASSUME NEW ch \in Changes, Fire(ch) PROVE NilInv'
  BY <1>10 DEF Fire
<1>11. ASSUME NEW ch \in Changes, TimeoutIgnored(ch) PROVE NilInv'
  BY <1>11 DEF TimeoutIgnored
<1>12. ASSUME NEW ch \in Changes, TimeoutCheck(ch) PROVE NilInv'
  BY <1>12 DEF TimeoutCheck
<1>13. ASSUME NEW ch \in Changes, TimeoutFails(ch) PROVE NilInv'
  BY <1>13 DEF TimeoutFails
<1>14. ASSUME NEW p \in Procs, RevertApply(p) PROVE NilInv'
  BY <1>14 DEF RevertApply, Commit
<1>15. ASSUME NEW p \in Procs, RevertRemember(p) PROVE NilInv'
  BY <1>15 DEF RevertRemember, Remember
<1>16. ASSUME NEW p \in Procs, RevertCommit(p) PROVE NilInv'
  BY <1>16 DEF RevertCommit
<1>17. CASE UNCHANGED vars
  BY <1>17 DEF vars
<1> QED
  BY <1>1, <1>2, <1>3, <1>4, <1>5, <1>6, <1>7, <1>8, <1>9, <1>10, <1>11, <1>12,
     <1>13, <1>14, <1>15, <1>16, <1>17
  DEF Next, Request, Work, StageWork, TimerWork, RevertWork

LEMMA SpecNilInv == Spec => []NilInv
BY InitNilInv, NextNilInv, PTL DEF Spec

(* Type correctness: the stager's fields, the adapter's cache and the      *)
(* locals of every goroutine keep their types in every interleaving; in    *)
(* particular what Confirm approves is always a ruleset.                   *)
THEOREM TypeCorrect == Spec => []TypeOK
<1>1. NilInv => TypeOK
  BY DEF NilInv
<1> QED
  BY <1>1, SpecNilInv, PTL

(* No revert ever passes a nil snapshot to Apply, which would install the  *)
(* empty ruleset (linuxAdapter.Apply), whatever Confirm, Stage and other   *)
(* reverts do while it runs.                                               *)
THEOREM RevertsHaveTarget == Spec => []RevertHasTarget
<1>1. NilInv => RevertHasTarget
  BY DEF NilInv
<1> QED
  BY <1>1, SpecNilInv, PTL
-----------------------------------------------------------------------------
(* One step can take the guard from a pending change only if it is the     *)
(* failing end of a Rollback.                                              *)
LEMMA GuardStep ==
  ASSUME TypeOK, [Next]_vars, Guarded, ~Guarded'
  PROVE  \E b \in Rollbacks : RollbackFails(b)
<1> SUFFICES ASSUME \A b \in Rollbacks : ~RollbackFails(b) PROVE FALSE
  OBVIOUS
<1> USE DEF TypeOK, Guarded, Procs, Reverting, stagerVars
<1>1. ASSUME NEW ch \in Changes, NEW r \in Rulesets, StageCheck(ch, r) PROVE FALSE
  BY <1>1 DEF StageCheck
<1>2. ASSUME NEW ch \in Changes, StageSnapshot(ch) PROVE FALSE
  BY <1>2 DEF StageSnapshot
<1>3. ASSUME NEW ch \in Changes, StageApply(ch) PROVE FALSE
  BY <1>3 DEF StageApply, Commit
<1>4. ASSUME NEW ch \in Changes, StageRemember(ch) PROVE FALSE
  BY <1>4 DEF StageRemember, Remember
<1>5. ASSUME NEW ch \in Changes, StageFails(ch) PROVE FALSE
  BY <1>5 DEF StageFails
<1>6. ASSUME NEW ch \in Changes, StageCommit(ch) PROVE FALSE
  BY <1>6 DEF StageCommit
<1>7. CASE Confirm
  BY <1>7 DEF Confirm
<1>8. ASSUME NEW b \in Rollbacks, RollbackCheck(b) PROVE FALSE
  BY <1>8 DEF RollbackCheck, Silenced
<1>9. ASSUME NEW ch \in Changes, Fire(ch) PROVE FALSE
  BY <1>9 DEF Fire
<1>10. ASSUME NEW ch \in Changes, TimeoutIgnored(ch) PROVE FALSE
  BY <1>10 DEF TimeoutIgnored
<1>11. ASSUME NEW ch \in Changes, TimeoutCheck(ch) PROVE FALSE
  BY <1>11 DEF TimeoutCheck
<1>12. ASSUME NEW ch \in Changes, TimeoutFails(ch) PROVE FALSE
  BY <1>12 DEF TimeoutFails
<1>13. ASSUME NEW p \in Procs, RevertApply(p) PROVE FALSE
  BY <1>13 DEF RevertApply, Commit
<1>14. ASSUME NEW p \in Procs, RevertRemember(p) PROVE FALSE
  BY <1>14 DEF RevertRemember, Remember
<1>15. ASSUME NEW p \in Procs, RevertCommit(p) PROVE FALSE
  BY <1>15 DEF RevertCommit
<1>16. CASE UNCHANGED vars
  BY <1>16 DEF vars
<1> QED
  BY <1>1, <1>2, <1>3, <1>4, <1>5, <1>6, <1>7, <1>8, <1>9, <1>10, <1>11, <1>12,
     <1>13, <1>14, <1>15, <1>16
  DEF Next, Request, Work, StageWork, TimerWork, RevertWork

(* No interleaving of Stage, Confirm, Rollback and timers leaves a pending *)
(* change without a timer or a revert that will end it, except through a   *)
(* Rollback whose Apply failed.                                            *)
THEOREM GuardIsLostOnlyByFailedRollback == Spec => GuardLostOnlyByFailedRollback
<1>1. TypeOK /\ [Next]_vars => [Guarded /\ ~Guarded' => \E b \in Rollbacks : RollbackFails(b)]_vars
  BY GuardStep
<1> QED
  BY <1>1, TypeCorrect, PTL DEF Spec, GuardLostOnlyByFailedRollback

(* Where nft cannot fail under a Rollback, every pending change is under   *)
(* guard.                                                                  *)
THEOREM PendingIsGuarded ==
  ASSUME "rollback" \notin Faults, "kill" \notin Faults
  PROVE  Spec => []Guarded
<1>1. Init => Guarded
  BY DEF Init, Guarded
<1>2. TypeOK /\ [Next]_vars /\ Guarded => Guarded'
  <2> SUFFICES ASSUME TypeOK, [Next]_vars, Guarded, ~Guarded' PROVE FALSE
    OBVIOUS
  <2>1. PICK b \in Rollbacks : RollbackFails(b)
    BY GuardStep
  <2> QED
    BY <2>1 DEF RollbackFails, Failed, Refused, Killed
<1> QED
  BY <1>1, <1>2, TypeCorrect, PTL DEF Spec
-----------------------------------------------------------------------------
(* Under Serial, with an Install that replaces the kernel's contents and   *)
(* with no faults but refused runs of Stage and Rollback, the stager       *)
(* implements AutoRollback.                                                *)

(* Who runs.  At most one goroutine is inside a call; while a timer still  *)
(* ticks nobody is, and its change is the pending one; a revert has a      *)
(* pending change to revert and a Stage has none.                          *)
OneAtWork ==
  \A p, q \in Procs : pc[p] \notin AtRest /\ pc[q] \notin AtRest => p = q

TickingIsCurrent ==
  \A ch \in Changes : pc[ch] = "ticking" =>
    /\ state = "pending"
    /\ timer = ch
    /\ \A p \in Procs : pc[p] \in AtRest

RevertIsPending ==
  \A p \in Procs : pc[p] \in Reverting \cup {"fired"} => state = "pending"

StageIsNotPending ==
  \A ch \in Changes : pc[ch] \in Staging => state # "pending"

(* Contexts.  Only a timer that has been armed can be cancelled, and none  *)
(* that can still act is.                                                  *)
TimerIsArmed == timer # None => pc[timer] \notin {"new"} \cup Staging

LiveIsNotCancelled ==
  \A ch \in cancelled : pc[ch] \in {"stopped", "done"}

(* What the kernel and the cache hold at each stage of a call.             *)
AtPeace ==
  \A p \in Procs : pc[p] \notin {"stage-applied", "stage-commit", "revert-applied", "revert-commit"}

KernelAtPeace ==
  AtPeace => /\ last = kernel
             /\ kernel = (IF state = "pending" THEN candidate ELSE accepted)

SnapshotsAreAccepted ==
  /\ state = "pending" => snapshot = accepted
  /\ \A p \in Procs :
       pc[p] \in Reverting \cup {"stage-apply", "stage-applied", "stage-commit"} => snap[p] = accepted

KernelInStage ==
  \A ch \in Changes : /\ pc[ch] \in {"stage-applied", "stage-commit"} => kernel = arg[ch]
                      /\ pc[ch] = "stage-commit" => last = arg[ch]

KernelInRevert ==
  \A p \in Procs : /\ pc[p] \in {"revert-applied", "revert-commit"} => kernel = accepted
                   /\ pc[p] = "revert-commit" => last = accepted

ControlInv ==
  /\ NilInv
  /\ OneAtWork
  /\ TickingIsCurrent
  /\ RevertIsPending
  /\ StageIsNotPending
  /\ TimerIsArmed
  /\ LiveIsNotCancelled

SerialInv ==
  /\ ControlInv
  /\ KernelAtPeace
  /\ SnapshotsAreAccepted
  /\ KernelInStage
  /\ KernelInRevert

(* The assumptions of this module: an apply replaces what the kernel       *)
(* holds, and only the nft runs of Stage and Rollback fail, before their   *)
(* commit.                                                                 *)
Replacing == BootKernel = Boot /\ \A k, r : Install(k, r) = r
Reliable  == Faults \subseteq {"stage", "rollback"}

(* What is left of SerialNext: no run is lost after its commit, and none   *)
(* of a timer's fails.                                                     *)
LosslessNext ==
  \/ Quiet /\ Request
  \/ \E ch \in Changes :
       \/ StageSnapshot(ch) \/ StageApply(ch) \/ StageRemember(ch) \/ StageCommit(ch)
       \/ StageFails(ch) /\ pc[ch] = "stage-apply"
       \/ Fire(ch) \/ TimeoutIgnored(ch) \/ TimeoutCheck(ch)
  \/ \E b \in Rollbacks : RollbackFails(b) /\ pc[b] = "revert-apply"
  \/ \E p \in Procs : RevertWork(p)
-----------------------------------------------------------------------------
LEMMA InitControlInv == Init => ControlInv
BY InitNilInv
DEF Init, ControlInv, OneAtWork, TickingIsCurrent, RevertIsPending, StageIsNotPending, TimerIsArmed,
    LiveIsNotCancelled, Procs, AtRest, Staging, Reverting

LEMMA InitSerialInv == ASSUME Replacing PROVE Init => SerialInv
BY InitControlInv
DEF Replacing, Init, SerialInv, AtPeace, KernelAtPeace, SnapshotsAreAccepted, KernelInStage,
    KernelInRevert, Procs, Staging, Reverting

(* A timer's run cannot fail here: its context is not cancelled.           *)
LEMMA TimeoutSucceeds ==
  ASSUME Reliable, LiveIsNotCancelled, NEW ch \in Changes
  PROVE  ~TimeoutFails(ch)
<1> SUFFICES ASSUME TimeoutFails(ch) PROVE FALSE
  OBVIOUS
<1>1. pc[ch] \in {"revert-apply", "revert-applied"} /\ Failed(ch)
  BY DEF TimeoutFails
<1>2. ch \notin cancelled
  BY <1>1 DEF LiveIsNotCancelled
<1>3. ch \notin Rollbacks /\ "timeout" \notin Faults
  BY ProcessAssumption DEF Reliable
<1> QED
  BY <1>1, <1>2, <1>3 DEF Failed, Refused, Killed

LEMMA ReliableIsLossless ==
  ASSUME Reliable, LiveIsNotCancelled, [SerialNext]_vars
  PROVE  [LosslessNext]_vars
<1>1. ASSUME NEW ch \in Changes, StageFails(ch) PROVE pc[ch] = "stage-apply"
  BY <1>1 DEF StageFails, Failed, Refused, Killed, Reliable
<1>2. ASSUME NEW b \in Rollbacks, RollbackFails(b) PROVE pc[b] = "revert-apply"
  BY <1>2, ProcessAssumption DEF RollbackFails, Failed, Refused, Killed, Reliable, LiveIsNotCancelled
<1> QED
  BY <1>1, <1>2, TimeoutSucceeds DEF SerialNext, Work, StageWork, TimerWork, LosslessNext

LEMMA LosslessIsNext == [LosslessNext]_vars => [Next]_vars
BY DEF LosslessNext, Next, Work, StageWork, TimerWork

LEMMA NextControlInv ==
  ASSUME ControlInv, [LosslessNext]_vars
  PROVE  ControlInv'
<1>1. NilInv'
  BY NextNilInv, LosslessIsNext DEF ControlInv
<1> USE <1>1
    DEF ControlInv, NilInv, TypeOK, PendingHasRulesets, StageHasCandidate, StageHasSnapshot,
        RevertHasTarget, OneAtWork, TickingIsCurrent, RevertIsPending, StageIsNotPending,
        TimerIsArmed, LiveIsNotCancelled, Procs, AtRest, Staging, Reverting, ChangePhases,
        RollbackPhases, stagerVars
<1>2. ASSUME NEW ch \in Changes, NEW r \in Rulesets, Quiet, StageCheck(ch, r)
      PROVE  ControlInv'
  BY <1>2 DEF StageCheck, Quiet
<1>3. ASSUME NEW ch \in Changes, StageSnapshot(ch)
      PROVE  ControlInv'
  BY <1>3 DEF StageSnapshot
<1>4. ASSUME NEW ch \in Changes, StageApply(ch)
      PROVE  ControlInv'
  BY <1>4 DEF StageApply, Commit
<1>5. ASSUME NEW ch \in Changes, StageRemember(ch)
      PROVE  ControlInv'
  BY <1>5 DEF StageRemember, Remember
<1>6. ASSUME NEW ch \in Changes, StageCommit(ch)
      PROVE  ControlInv'
  BY <1>6 DEF StageCommit
<1>7. ASSUME NEW ch \in Changes, StageFails(ch), pc[ch] = "stage-apply"
      PROVE  ControlInv'
  BY <1>7 DEF StageFails
<1>8. ASSUME NEW ch \in Changes, Fire(ch)
      PROVE  ControlInv'
  BY <1>8 DEF Fire
<1>9. ASSUME NEW ch \in Changes, TimeoutIgnored(ch)
      PROVE  ControlInv'
  BY <1>9 DEF TimeoutIgnored
<1>10. ASSUME NEW ch \in Changes, TimeoutCheck(ch)
      PROVE  ControlInv'
  BY <1>10 DEF TimeoutCheck
<1>11. ASSUME Quiet, Confirm
      PROVE  ControlInv'
  BY <1>11 DEF Confirm, StopTimer, Silenced, Quiet
<1>12. ASSUME NEW b \in Rollbacks, Quiet, RollbackCheck(b)
      PROVE  ControlInv'
  BY <1>12 DEF RollbackCheck, StopTimer, Silenced, Quiet
<1>13. ASSUME NEW b \in Rollbacks, RollbackFails(b), pc[b] = "revert-apply"
      PROVE  ControlInv'
  BY <1>13 DEF RollbackFails
<1>14. ASSUME NEW p \in Procs, RevertApply(p)
      PROVE  ControlInv'
  BY <1>14 DEF RevertApply, Commit
<1>15. ASSUME NEW p \in Procs, RevertRemember(p)
      PROVE  ControlInv'
  BY <1>15 DEF RevertRemember, Remember
<1>16. ASSUME NEW p \in Procs, RevertCommit(p)
      PROVE  ControlInv'
  BY <1>16 DEF RevertCommit
<1>17. CASE UNCHANGED vars
  BY <1>17 DEF vars
<1> QED
  BY <1>2, <1>3, <1>4, <1>5, <1>6, <1>7, <1>8, <1>9, <1>10, <1>11, <1>12, <1>13,
     <1>14, <1>15, <1>16, <1>17
  DEF LosslessNext, Request, RevertWork

LEMMA NextSerialInv ==
  ASSUME Replacing, SerialInv, [LosslessNext]_vars
  PROVE  SerialInv'
<1>1. ControlInv'
  BY NextControlInv DEF SerialInv
<1> USE <1>1
    DEF SerialInv, ControlInv, NilInv, TypeOK, PendingHasRulesets, StageHasCandidate,
        StageHasSnapshot, RevertHasTarget, OneAtWork, TickingIsCurrent, RevertIsPending,
        StageIsNotPending, TimerIsArmed, LiveIsNotCancelled, AtPeace, KernelAtPeace,
        SnapshotsAreAccepted, KernelInStage, KernelInRevert, Procs, AtRest, Staging, Reverting,
        ChangePhases, RollbackPhases, stagerVars
<1>2. ASSUME NEW ch \in Changes, NEW r \in Rulesets, Quiet, StageCheck(ch, r)
      PROVE  SerialInv'
  BY <1>2 DEF StageCheck, Quiet
<1>3. ASSUME NEW ch \in Changes, StageSnapshot(ch)
      PROVE  SerialInv'
  BY <1>3 DEF StageSnapshot
<1>4. ASSUME NEW ch \in Changes, StageApply(ch)
      PROVE  SerialInv'
  BY <1>4 DEF StageApply, Commit, Replacing
<1>5. ASSUME NEW ch \in Changes, StageRemember(ch)
      PROVE  SerialInv'
  BY <1>5 DEF StageRemember, Remember
<1>6. ASSUME NEW ch \in Changes, StageCommit(ch)
      PROVE  SerialInv'
  BY <1>6 DEF StageCommit
<1>7. ASSUME NEW ch \in Changes, StageFails(ch), pc[ch] = "stage-apply"
      PROVE  SerialInv'
  BY <1>7 DEF StageFails
<1>8. ASSUME NEW ch \in Changes, Fire(ch)
      PROVE  SerialInv'
  BY <1>8 DEF Fire
<1>9. ASSUME NEW ch \in Changes, TimeoutIgnored(ch)
      PROVE  SerialInv'
  BY <1>9 DEF TimeoutIgnored
<1>10. ASSUME NEW ch \in Changes, TimeoutCheck(ch)
      PROVE  SerialInv'
  BY <1>10 DEF TimeoutCheck
<1>11. ASSUME Quiet, Confirm
      PROVE  SerialInv'
  BY <1>11 DEF Confirm, StopTimer, Silenced, Quiet
<1>12. ASSUME NEW b \in Rollbacks, Quiet, RollbackCheck(b)
      PROVE  SerialInv'
  BY <1>12 DEF RollbackCheck, StopTimer, Silenced, Quiet
<1>13. ASSUME NEW b \in Rollbacks, RollbackFails(b), pc[b] = "revert-apply"
      PROVE  SerialInv'
  BY <1>13 DEF RollbackFails
<1>14. ASSUME NEW p \in Procs, RevertApply(p)
      PROVE  SerialInv'
  BY <1>14 DEF RevertApply, Commit, Replacing
<1>15. ASSUME NEW p \in Procs, RevertRemember(p)
      PROVE  SerialInv'
  BY <1>15 DEF RevertRemember, Remember
<1>16. ASSUME NEW p \in Procs, RevertCommit(p)
      PROVE  SerialInv'
  BY <1>16 DEF RevertCommit
<1>17. CASE UNCHANGED vars
  BY <1>17 DEF vars
<1> QED
  BY <1>2, <1>3, <1>4, <1>5, <1>6, <1>7, <1>8, <1>9, <1>10, <1>11, <1>12, <1>13,
     <1>14, <1>15, <1>16, <1>17
  DEF LosslessNext, Request, RevertWork

LEMMA SerialSpecInv ==
  ASSUME Replacing, Reliable
  PROVE  SerialSpec => []SerialInv
<1>1. SerialInv /\ [SerialNext]_vars => SerialInv'
  BY ReliableIsLossless, NextSerialInv DEF SerialInv, ControlInv
<1> QED
  BY <1>1, InitSerialInv, PTL DEF SerialSpec

(* Between two calls the adapter's cache is what the kernel enforces.      *)
THEOREM CacheIsAlwaysLive ==
  ASSUME Replacing, Reliable
  PROVE  SerialSpec => []CacheIsLive
<1>1. SerialInv => CacheIsLive
  BY DEF SerialInv, CacheIsLive, Quiet, KernelAtPeace, AtPeace, AtRest
<1> QED
  BY <1>1, SerialSpecInv, PTL

(* What a rollback of the pending change will restore is what the operator *)
(* last approved.                                                          *)
THEOREM SnapshotIsAlwaysAccepted ==
  ASSUME Replacing, Reliable
  PROVE  SerialSpec => []SnapshotIsAccepted
<1>1. SerialInv => SnapshotIsAccepted
  BY DEF SerialInv, SnapshotIsAccepted, SnapshotsAreAccepted
<1> QED
  BY <1>1, SerialSpecInv, PTL

(* Whenever no trial is under way the kernel enforces what the operator    *)
(* last approved: the running ruleset equals the last confirmed one.       *)
THEOREM OnlyAcceptedAlwaysLasts ==
  ASSUME Replacing, Reliable
  PROVE  SerialSpec => []OnlyAcceptedIsLasting
<1>1. SerialInv => OnlyAcceptedIsLasting
  <2> SUFFICES ASSUME SerialInv, TrialStatus # "pending" PROVE kernel = accepted
    BY DEF OnlyAcceptedIsLasting, Contract!OnlyAcceptedIsLasting
  <2>1. \A ch \in Changes : pc[ch] \notin {"stage-applied", "stage-commit"}
    BY DEF TrialStatus
  <2>2. CASE \E p \in Procs : pc[p] \in {"revert-applied", "revert-commit"}
    BY <2>2 DEF SerialInv, KernelInRevert
  <2>3. CASE \A p \in Procs : pc[p] \notin {"revert-applied", "revert-commit"}
    <3>1. state # "pending"
      BY <2>1, <2>3 DEF TrialStatus
    <3>2. \A b \in Rollbacks : pc[b] \notin {"stage-applied", "stage-commit"}
      BY DEF SerialInv, ControlInv, NilInv, TypeOK, RollbackPhases, Reverting
    <3>3. AtPeace
      BY <2>1, <2>3, <3>2 DEF AtPeace, Procs
    <3> QED
      BY <3>1, <3>3 DEF SerialInv, KernelAtPeace
  <2> QED
    BY <2>2, <2>3
<1> QED
  BY <1>1, SerialSpecInv, PTL
-----------------------------------------------------------------------------
(* Refinement: nft's commit of a candidate is Propose, Confirm is Accept,  *)
(* nft's commit of a snapshot is Revert, and every other step stutters.    *)
LEMMA SerialStep ==
  ASSUME Replacing, SerialInv, SerialInv', [LosslessNext]_vars
  PROVE  [Contract!Next]_(Contract!vars)
<1> USE DEF SerialInv, ControlInv, NilInv, TypeOK, OneAtWork, TickingIsCurrent, RevertIsPending,
        StageIsNotPending, SnapshotsAreAccepted, StageHasCandidate, PendingHasRulesets,
        Procs, AtRest, Staging, Reverting, ChangePhases, RollbackPhases, stagerVars, TrialStatus,
        Contract!vars
<1>1. ASSUME NEW ch \in Changes, NEW r \in Rulesets, Quiet, StageCheck(ch, r)
      PROVE  [Contract!Next]_(Contract!vars)
  BY <1>1 DEF StageCheck, Quiet
<1>2. ASSUME NEW ch \in Changes, StageSnapshot(ch)
      PROVE  [Contract!Next]_(Contract!vars)
  BY <1>2 DEF StageSnapshot
<1>3. ASSUME NEW ch \in Changes, StageApply(ch)
      PROVE  [Contract!Next]_(Contract!vars)
  BY <1>3 DEF StageApply, Commit, Replacing, Contract!Next, Contract!Propose
<1>4. ASSUME NEW ch \in Changes, StageRemember(ch)
      PROVE  [Contract!Next]_(Contract!vars)
  BY <1>4 DEF StageRemember, Remember
<1>5. ASSUME NEW ch \in Changes, StageCommit(ch)
      PROVE  [Contract!Next]_(Contract!vars)
  BY <1>5 DEF StageCommit
<1>6. ASSUME NEW ch \in Changes, StageFails(ch), pc[ch] = "stage-apply"
      PROVE  [Contract!Next]_(Contract!vars)
  BY <1>6 DEF StageFails
<1>7. ASSUME NEW ch \in Changes, Fire(ch)
      PROVE  [Contract!Next]_(Contract!vars)
  BY <1>7 DEF Fire
<1>8. ASSUME NEW ch \in Changes, TimeoutIgnored(ch)
      PROVE  [Contract!Next]_(Contract!vars)
  BY <1>8 DEF TimeoutIgnored
<1>9. ASSUME NEW ch \in Changes, TimeoutCheck(ch)
      PROVE  [Contract!Next]_(Contract!vars)
  BY <1>9 DEF TimeoutCheck, LiveIsNotCancelled
<1>10. ASSUME Quiet, Confirm
      PROVE  [Contract!Next]_(Contract!vars)
  BY <1>10 DEF Confirm, Silenced, Quiet, KernelAtPeace, AtPeace, Contract!Next, Contract!Accept
<1>11. ASSUME NEW b \in Rollbacks, Quiet, RollbackCheck(b)
      PROVE  [Contract!Next]_(Contract!vars)
  BY <1>11, ZenonT(30) DEF RollbackCheck, StopTimer, Silenced, Quiet
<1>12. ASSUME NEW b \in Rollbacks, RollbackFails(b), pc[b] = "revert-apply"
      PROVE  [Contract!Next]_(Contract!vars)
  BY <1>12 DEF RollbackFails
<1>13. ASSUME NEW p \in Procs, RevertApply(p)
      PROVE  [Contract!Next]_(Contract!vars)
  BY <1>13 DEF RevertApply, Commit, Replacing, Contract!Next, Contract!Revert
<1>14. ASSUME NEW p \in Procs, RevertRemember(p)
      PROVE  [Contract!Next]_(Contract!vars)
  BY <1>14 DEF RevertRemember, Remember
<1>15. ASSUME NEW p \in Procs, RevertCommit(p)
      PROVE  [Contract!Next]_(Contract!vars)
  BY <1>15 DEF RevertCommit
<1>16. CASE UNCHANGED vars
  BY <1>16 DEF vars
<1> QED
  BY <1>1, <1>2, <1>3, <1>4, <1>5, <1>6, <1>7, <1>8, <1>9, <1>10, <1>11, <1>12,
     <1>13, <1>14, <1>15, <1>16
  DEF LosslessNext, Request, RevertWork

(* The stager keeps the promise of the package comment: with requests that *)
(* do not overlap a running timer or each other, a staged change is live   *)
(* until it is confirmed or undone, and undoing it restores exactly what   *)
(* was approved before.                                                    *)
THEOREM StagerKeepsContract ==
  ASSUME Replacing, Reliable
  PROVE  SerialSpec => KeepsContract
<1>1. Init => Contract!Init
  BY DEF Replacing, Init, Contract!Init, TrialStatus, Procs
<1>2. SerialInv /\ SerialInv' /\ [SerialNext]_vars => [Contract!Next]_(Contract!vars)
  BY SerialStep, ReliableIsLossless DEF SerialInv, ControlInv
<1> QED
  BY <1>1, <1>2, SerialSpecInv, PTL DEF SerialSpec, KeepsContract, Contract!Spec
=============================================================================
