---------------------------- MODULE ClientProofs ----------------------------
(***************************************************************************)
(* Proofs about Client, for any number of clients and any rulesets: what   *)
(* `zeerak apply --yes` confirms, what a client that leaves can harm, and  *)
(* that every pending change is under guard.                               *)
(***************************************************************************)
EXTENDS Client, StagerProofs

(* The actions of Client are calls of the stager, its own work, or nothing *)
(* that the stager notices.                                                *)
LEMMA ClientStep == [ClientNext]_allVars => [Next]_vars
BY DEF ClientNext, ClientRequest, Served, RolledBack, Unanswered, StageSteps, TimerSteps, RollbackSteps,
   Apply, ApplyRefused, Leave, AnswerStaged, AnswerFailed, AutoConfirm, AutoConfirmRefused,
   ConfirmCommand, RollbackCommand, AnswerRolledBack, AnswerRollbackFailed,
   Next, Request, Work, StageWork, TimerWork, RevertWork, Procs, allVars

LEMMA ClientNilInv ==
  /\ ClientInit => NilInv
  /\ NilInv /\ [ClientNext]_allVars => NilInv'
BY InitNilInv, NextNilInv, ClientStep DEF ClientInit
-----------------------------------------------------------------------------
(* While requests do not overlap, at most one Stage is under way; a client *)
(* that is about to confirm is answered, so that none is; and what is      *)
(* pending then is its own change.                                         *)
CliTypeOK == cli \in [Procs -> CliPhases]

OneStage ==
  \A ch, other \in Changes : pc[ch] \in Staging /\ pc[other] \in Staging => ch = other

AnsweredIsOver ==
  \A ch, other \in Changes : cli[ch] = "answered" => pc[other] \notin Staging

AnsweredIsPending ==
  \A ch \in Changes : cli[ch] = "answered" /\ state = "pending" => timer = ch

YesInv == OneStage /\ AnsweredIsOver /\ AnsweredIsPending

LEMMA NextCliTypeOK == CliTypeOK /\ [ClientNext]_allVars => CliTypeOK'
BY DEF CliTypeOK, CliPhases, Procs, Becomes, Answered, ClientNext, ClientRequest, Served, RolledBack,
   Unanswered, Apply, ApplyRefused, Leave, AnswerStaged, AnswerFailed, AutoConfirm, AutoConfirmRefused,
   ConfirmCommand, RollbackCommand, AnswerRolledBack, AnswerRollbackFailed, allVars, clientVars

(* What a request that does not set overlapped may rely on.                *)
LEMMA Unnoticed ==
  ASSUME NEW who, Notice(who), ~overlapped'
  PROVE  ~overlapped /\ Quiet /\ \A ch \in Changes \ {who} : cli[ch] # "answered"
BY Zenon DEF Notice

LEMMA OverlappedStays == [ClientNext]_allVars /\ ~overlapped' => ~overlapped
<1>1. ASSUME NEW who, Notice(who), ~overlapped'
      PROVE  ~overlapped
  BY <1>1, Unnoticed
<1> QED
  BY <1>1 DEF ClientNext, ClientRequest, Served, RolledBack, Unanswered, Apply, ApplyRefused, Leave,
     Answered, AnswerStaged, AnswerFailed, AutoConfirm, AutoConfirmRefused, ConfirmCommand,
     RollbackCommand, AnswerRolledBack, AnswerRollbackFailed, allVars, clientVars, history

LEMMA NextYesInv ==
  ASSUME TypeOK, CliTypeOK, YesInv, [ClientNext]_allVars, ~overlapped'
  PROVE  YesInv'
<1> USE DEF YesInv, TypeOK, CliTypeOK, CliPhases, OneStage, AnsweredIsOver, AnsweredIsPending,
            Procs, Staging, Reverting, ChangePhases, RollbackPhases, stagerVars, Becomes
<1>1. ASSUME NEW ch \in Changes, NEW r \in Rulesets, Apply(ch, r)
      PROVE  YesInv'
  <2>1. Quiet /\ \A c \in Changes \ {ch} : cli[c] # "answered"
    BY <1>1, Unnoticed DEF Apply
  <2> QED
    BY <1>1, <2>1, ProcessAssumption DEF Apply, StageCheck, Quiet, AtRest
<1>2. ASSUME NEW ch \in Changes, ApplyRefused(ch)
      PROVE  YesInv'
  <2>1. Quiet /\ \A c \in Changes \ {ch} : cli[c] # "answered"
    BY <1>2, Unnoticed DEF ApplyRefused
  <2> QED
    BY <1>2, <2>1, ProcessAssumption DEF ApplyRefused, vars
<1>3. ASSUME NEW p \in Procs, Leave(p)
      PROVE  YesInv'
  BY <1>3 DEF Leave, vars
<1>4. ASSUME NEW ch \in Changes, AnswerStaged(ch)
      PROVE  YesInv'
  BY <1>4 DEF AnswerStaged, StageCommit, Answered
<1>5. ASSUME NEW ch \in Changes, AnswerFailed(ch)
      PROVE  YesInv'
  BY <1>5 DEF AnswerFailed, StageFails, Answered
<1>6. ASSUME NEW ch \in Changes, AutoConfirm(ch)
      PROVE  YesInv'
  <2>1. Quiet /\ \A c \in Changes \ {ch} : cli[c] # "answered"
    BY <1>6, Unnoticed DEF AutoConfirm
  <2> QED
    BY <1>6, <2>1, ProcessAssumption DEF AutoConfirm, Confirm, StopTimer, Silenced
<1>7. ASSUME NEW ch \in Changes, AutoConfirmRefused(ch)
      PROVE  YesInv'
  <2>1. Quiet /\ \A c \in Changes \ {ch} : cli[c] # "answered"
    BY <1>7, Unnoticed DEF AutoConfirmRefused
  <2> QED
    BY <1>7, <2>1, ProcessAssumption DEF AutoConfirmRefused, vars
<1>8. CASE ConfirmCommand
  <2>1. Quiet /\ \A c \in Changes \ {None} : cli[c] # "answered"
    BY <1>8, Unnoticed DEF ConfirmCommand
  <2> QED
    BY <1>8, <2>1, ProcessAssumption DEF ConfirmCommand, Confirm, StopTimer, Silenced
<1>9. ASSUME NEW b \in Rollbacks, RollbackCommand(b)
      PROVE  YesInv'
  <2>1. Quiet /\ \A c \in Changes \ {None} : cli[c] # "answered"
    BY <1>9, Unnoticed DEF RollbackCommand
  <2> QED
    BY <1>9, <2>1, ProcessAssumption DEF RollbackCommand, RollbackCheck, StopTimer, Silenced
<1>10. ASSUME NEW b \in Rollbacks, RolledBack(b)
       PROVE  YesInv'
  BY <1>10, ProcessAssumption
  DEF RolledBack, AnswerRolledBack, RevertCommit, AnswerRollbackFailed, RollbackFails
<1>11. CASE Unanswered
  <2>1. UNCHANGED cli
    BY <1>11 DEF Unanswered
  <2>2. ASSUME NEW ch \in Changes, StageSteps(ch)
        PROVE  YesInv'
    BY <2>1, <2>2 DEF StageSteps, StageSnapshot, StageApply, StageRemember, Commit, Remember
  <2>3. ASSUME NEW ch \in Changes, TimerWork(ch)
        PROVE  YesInv'
    BY <2>1, <2>3 DEF TimerWork, Fire, TimeoutIgnored, TimeoutCheck, TimeoutFails
  <2>4. ASSUME NEW p \in Procs, RevertWork(p)
        PROVE  YesInv'
    BY <2>1, <2>4 DEF RevertWork, RevertApply, RevertRemember, RevertCommit, Commit, Remember
  <2> QED
    BY <1>11, <2>2, <2>3, <2>4 DEF Unanswered, TimerSteps, RollbackSteps, RevertWork
<1>12. CASE UNCHANGED allVars
  BY <1>12 DEF allVars, clientVars, vars
<1> QED
  BY <1>1, <1>2, <1>3, <1>4, <1>5, <1>6, <1>7, <1>8, <1>9, <1>10, <1>11, <1>12
  DEF ClientNext, ClientRequest, Served

(* `zeerak apply --yes` confirms its own change and no other, unless       *)
(* somebody else uses the daemon while it runs.                            *)
THEOREM YesAlwaysConfirmsItsOwn == ClientSpec => YesConfirmsItsOwn
<1> DEFINE Inv == NilInv /\ CliTypeOK /\ (~overlapped => YesInv)
<1>1. ClientInit => Inv
  <2> SUFFICES ASSUME ClientInit PROVE Inv
    OBVIOUS
  <2>1. CliTypeOK
    BY DEF ClientInit, CliTypeOK, CliPhases
  <2>2. YesInv
    BY DEF ClientInit, Init, YesInv, OneStage, AnsweredIsOver, AnsweredIsPending, Procs, Staging
  <2> QED
    BY <2>1, <2>2, ClientNilInv
<1>2. Inv /\ [ClientNext]_allVars => Inv'
  BY ClientNilInv, NextCliTypeOK, OverlappedStays, NextYesInv DEF NilInv
<1>3. Inv => [~overlapped => \A ch \in Changes : AutoConfirm(ch) => timer = ch]_allVars
  BY DEF YesInv, AnsweredIsPending, AutoConfirm, Confirm
<1> QED
  BY <1>1, <1>2, <1>3, PTL DEF ClientSpec, YesConfirmsItsOwn
-----------------------------------------------------------------------------
(* A rollback that fails is the one thing that loses the guard of a        *)
(* pending change, and it is noticed.                                      *)
LEMMA FailedRollbackIsNoticed ==
  ASSUME TypeOK, [ClientNext]_allVars, NEW b \in Rollbacks, RollbackFails(b)
  PROVE  stranded'
<1> SUFFICES ASSUME ~stranded' PROVE FALSE
  OBVIOUS
<1> USE DEF TypeOK, Procs
<1>1. /\ b \in Procs /\ b \notin Changes
      /\ pc[b] \in {"revert-apply", "revert-applied"}
      /\ pc'[b] = "idle"
  BY ProcessAssumption DEF RollbackFails
<1>2. ASSUME NEW ch \in Changes, NEW to, pc' = [pc EXCEPT ![ch] = to]
      PROVE  FALSE
  BY <1>1, <1>2
<1>3. ASSUME NEW ch \in Changes, ClientRequest(ch) \/ Served(ch)
      PROVE  FALSE
  BY <1>1, <1>2, <1>3
  DEF ClientRequest, Served, Apply, StageCheck, ApplyRefused, AnswerStaged, StageCommit,
      AnswerFailed, StageFails, AutoConfirm, AutoConfirmRefused, Confirm, Silenced, vars
<1>4. CASE ConfirmCommand
  BY <1>1, <1>4 DEF ConfirmCommand, Confirm, Silenced
<1>5. ASSUME NEW other \in Rollbacks, RollbackCommand(other) \/ RolledBack(other)
      PROVE  FALSE
  <2>1. ~AnswerRollbackFailed(other)
    BY DEF AnswerRollbackFailed
  <2> QED
    BY <1>1, <1>5, <2>1
    DEF RollbackCommand, RollbackCheck, Silenced, RolledBack, AnswerRolledBack, RevertCommit
<1>6. ASSUME NEW ch \in Changes, StageSteps(ch) \/ TimerWork(ch)
      PROVE  FALSE
  BY <1>1, <1>2, <1>6
  DEF StageSteps, StageSnapshot, StageApply, StageRemember, Commit, Remember,
      TimerWork, Fire, TimeoutIgnored, TimeoutCheck, TimeoutFails
<1>7. ASSUME NEW p \in Procs, RevertWork(p)
      PROVE  FALSE
  BY <1>1, <1>7 DEF RevertWork, RevertApply, RevertRemember, RevertCommit, Commit, Remember
<1>8. CASE UNCHANGED allVars \/ \E p \in Procs : Leave(p)
  BY <1>1, <1>8 DEF Leave, allVars, vars
<1> QED
  BY <1>3, <1>4, <1>5, <1>6, <1>7, <1>8 DEF ClientNext, Unanswered, TimerSteps, RollbackSteps, RevertWork

LEMMA ArmedIsGuarded ==
  ASSUME TypeOK, [ClientNext]_allVars, stranded, ~stranded'
  PROVE  Guarded'
<1>1. PICK ch \in Changes : AnswerStaged(ch)
  BY DEF ClientNext, ClientRequest, Served, RolledBack, Unanswered, Apply, ApplyRefused, Leave, Notice,
     AnswerFailed, AutoConfirm, AutoConfirmRefused, ConfirmCommand, RollbackCommand,
     AnswerRolledBack, AnswerRollbackFailed, allVars, clientVars, history
<1>2. timer' = ch /\ pc' = [pc EXCEPT ![ch] = "ticking"]
  BY <1>1 DEF AnswerStaged, StageCommit
<1>3. timer' # None /\ pc'[timer'] = "ticking"
  BY <1>2, ProcessAssumption DEF TypeOK, Procs
<1> QED
  BY <1>3 DEF Guarded

(* However clients overlap, time out and leave, and whatever runs of nft   *)
(* fail with them, a pending change is under guard as long as no Rollback  *)
(* has failed since it was armed.                                          *)
THEOREM ClientsLeaveNoneUnguarded == ClientSpec => []GuardedUnlessStranded
<1>1. ClientInit => GuardedUnlessStranded
  BY DEF ClientInit, Init, Guarded, GuardedUnlessStranded
<1>2. NilInv /\ GuardedUnlessStranded /\ [ClientNext]_allVars => GuardedUnlessStranded'
  <2> SUFFICES ASSUME TypeOK, GuardedUnlessStranded, [ClientNext]_allVars, ~stranded'
               PROVE  Guarded'
    BY DEF GuardedUnlessStranded, NilInv
  <2>1. CASE stranded
    BY <2>1, ArmedIsGuarded
  <2>2. CASE ~stranded
    <3>1. Guarded /\ [Next]_vars /\ \A b \in Rollbacks : ~RollbackFails(b)
      BY <2>2, ClientStep, FailedRollbackIsNoticed DEF GuardedUnlessStranded
    <3> QED
      BY <3>1, GuardStep
  <2> QED
    BY <2>1, <2>2
<1> QED
  BY <1>1, <1>2, ClientNilInv, PTL DEF ClientSpec
-----------------------------------------------------------------------------
(* Until requests overlap or an nft run is lost, the clients' stager takes *)
(* only steps of LosslessNext.                                             *)
LEMMA Unescaped ==
  ASSUME [ClientNext]_allVars, ~overlapped', ~escaped'
  PROVE  [LosslessNext]_vars /\ ~escaped
<1>1. ASSUME NEW ch \in Changes, ClientRequest(ch)
      PROVE  [LosslessNext]_vars /\ ~escaped
  BY <1>1, Unnoticed
  DEF ClientRequest, Apply, ApplyRefused, AutoConfirm, AutoConfirmRefused, Notice,
      LosslessNext, Request
<1>2. ASSUME NEW ch \in Changes, Served(ch)
      PROVE  [LosslessNext]_vars /\ ~escaped
  <2>1. CASE AnswerStaged(ch)
    BY <2>1 DEF AnswerStaged, LosslessNext
  <2>2. CASE AnswerFailed(ch)
    <3>1. ~escaped /\ pc[ch] # "stage-applied"
      BY <2>2, Zenon DEF AnswerFailed
    <3> QED
      BY <2>2, <3>1 DEF AnswerFailed, StageFails, LosslessNext
  <2> QED
    BY <1>2, <2>1, <2>2 DEF Served
<1>3. CASE ConfirmCommand \/ \E b \in Rollbacks : RollbackCommand(b)
  BY <1>3, Unnoticed DEF ConfirmCommand, RollbackCommand, Notice, LosslessNext, Request
<1>4. CASE Unanswered
  <2>1. ~escaped /\ \A ch \in Changes : ~TimeoutFails(ch)
    BY <1>4, Zenon DEF Unanswered
  <2> QED
    BY <1>4, <2>1
    DEF Unanswered, StageSteps, TimerSteps, TimerWork, RollbackSteps, RevertWork, Procs, LosslessNext
<1>5. ASSUME NEW b \in Rollbacks, RolledBack(b)
      PROVE  [LosslessNext]_vars /\ ~escaped
  <2>1. CASE AnswerRolledBack(b)
    BY <2>1 DEF AnswerRolledBack, history, RevertWork, Procs, LosslessNext
  <2>2. CASE AnswerRollbackFailed(b)
    <3>1. ~escaped /\ pc[b] # "revert-applied"
      BY <2>2, Zenon DEF AnswerRollbackFailed
    <3> QED
      BY <2>2, <3>1 DEF AnswerRollbackFailed, RollbackFails, LosslessNext
  <2> QED
    BY <1>5, <2>1, <2>2 DEF RolledBack
<1>6. CASE UNCHANGED allVars \/ \E p \in Procs : Leave(p)
  BY <1>6 DEF Leave, allVars, clientVars, history
<1> QED
  BY <1>1, <1>2, <1>3, <1>4, <1>5, <1>6 DEF ClientNext

(* Where an apply replaces what the kernel holds, a client that leaves its *)
(* apply or its rollback does no harm unless an nft run was lost: outside  *)
(* a trial the kernel holds what was accepted.                             *)
THEOREM NothingElseEscapes ==
  ASSUME Replacing
  PROVE  ClientSpec => []OnlyLostRunsEscape
<1> DEFINE Inv == ~overlapped /\ ~escaped => SerialInv
<1>1. ClientInit => Inv
  BY InitSerialInv DEF ClientInit
<1>2. Inv /\ [ClientNext]_allVars => Inv'
  BY OverlappedStays, Unescaped, NextSerialInv
<1>3. Inv => OnlyLostRunsEscape
  BY DEF OnlyLostRunsEscape, SerialInv, KernelAtPeace, AtPeace, Quiet, AtRest
<1> QED
  BY <1>1, <1>2, <1>3, PTL DEF ClientSpec
=============================================================================
