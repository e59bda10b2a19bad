---------------------------- MODULE DaemonProofs ----------------------------
(***************************************************************************)
(* Proofs about Daemon, for any number of changes, rulesets and crashes:   *)
(* types, and, where an apply replaces the kernel's contents and only nft  *)
(* runs of Stage and Rollback fail, that the daemon, its kernel and its    *)
(* panel agree after every crash.                                          *)
(***************************************************************************)
EXTENDS Daemon, StagerProofs

USE ProcessAssumption, RulesetAssumption

(* Serving takes the steps of SerialNext.                                  *)
LEMMA PanelStep == PanelNext => [SerialNext]_vars
BY DEF PanelNext, PanelQuiet, PanelRequest, ApiRequest, PanelWork, StageForm, Stash,
   ConfirmButton, Promote, RollbackButton, Clear, Behind, SerialNext, Request

LEMMA SerialIsNext == [SerialNext]_vars => [Next]_vars
BY DEF SerialNext, Next

(* What a crash leaves of the goroutines and their locals.                 *)
LEMMA CrashStep ==
  ASSUME NilInv, Crash
  PROVE  /\ state' = "idle" /\ snapshot' = None /\ candidate' = None
         /\ timer' = None /\ cancelled' = {}
         /\ UNCHANGED << last, accepted >>
         /\ pc' \in [Procs -> {"new", "done", "idle"}]
         /\ \A ch \in Changes : pc'[ch] \in {"new", "done"}
         /\ \A b \in Rollbacks : pc'[b] = "idle"
         /\ arg' = [ch \in Changes |-> None] /\ snap' = [p \in Procs |-> None]
<1> USE DEF Crash
<1>1. pc' = [p \in Procs |-> IF p \in Rollbacks THEN "idle"
                             ELSE IF pc[p] = "new" THEN "new" ELSE "done"]
  OBVIOUS
<1>2. UNCHANGED << last, accepted >>
  OBVIOUS
<1>3. /\ pc' \in [Procs -> {"new", "done", "idle"}]
      /\ \A ch \in Changes : pc'[ch] \in {"new", "done"}
      /\ \A b \in Rollbacks : pc'[b] = "idle"
  <2> HIDE DEF Crash
  <2> QED
    BY <1>1 DEF Procs
<1> QED
  BY <1>2, <1>3, Zenon

LEMMA CrashNilInv == NilInv /\ Crash => NilInv'
<1> SUFFICES ASSUME NilInv, Crash PROVE NilInv'
  OBVIOUS
<1> QED
  BY CrashStep
  DEF NilInv, TypeOK, PendingHasRulesets, StageHasCandidate, StageHasSnapshot,
      RevertHasTarget, Procs, States, Staging, Reverting, ChangePhases, RollbackPhases

LEMMA RestartStep ==
  ASSUME Restart
  PROVE  /\ kernel' = Install(kernel, Boot) /\ last' = Boot /\ accepted' = Boot
         /\ UNCHANGED << state, snapshot, candidate, timer, cancelled, pc, arg, snap >>
BY DEF Restart, stagerVars

LEMMA RestartNilInv == NilInv /\ Restart => NilInv'
<1> SUFFICES ASSUME NilInv, Restart PROVE NilInv'
  OBVIOUS
<1> QED
  BY RestartStep
  DEF NilInv, TypeOK, PendingHasRulesets, StageHasCandidate, StageHasSnapshot, RevertHasTarget,
      Procs

(* The types of the panel's presets, of its flags and of the life cycle.   *)
PresetsOK ==
  /\ current \in Rulesets \cup {None}
  /\ pendingPresets \in Rulesets \cup {None}
  /\ form \in [Changes -> Rulesets \cup {None}]
  /\ clearing \subseteq Rollbacks
  /\ up => current \in Rulesets

FlagsOK == promoting \in BOOLEAN /\ apiUsed \in BOOLEAN /\ up \in BOOLEAN

LEMMA DaemonTypes ==
  DaemonTypeOK <=> TypeOK /\ PresetsOK /\ FlagsOK /\ crashes \in 0..MaxCrashes
BY Zenon DEF DaemonTypeOK, PanelTypeOK, PresetsOK, FlagsOK

LEMMA NextPresetsOK ==
  ASSUME PresetsOK, [DaemonNext]_daemonVars
  PROVE  PresetsOK'
<1> USE DEF PresetsOK
<1>1. CASE Serve(PanelNext)
  <2>1. UNCHANGED up
    BY <1>1 DEF Serve
  <2>2. ASSUME NEW ch \in Changes, NEW r \in Rulesets, StageForm(ch, r)
        PROVE  PresetsOK'
    BY <2>1, <2>2 DEF StageForm
  <2>3. CASE ConfirmButton
    BY <2>1, <2>3 DEF ConfirmButton
  <2>4. ASSUME NEW b \in Rollbacks, RollbackButton(b)
        PROVE  PresetsOK'
    BY <2>1, <2>4 DEF RollbackButton
  <2>5. CASE ApiRequest
    BY <2>1, <2>5 DEF ApiRequest, handlerVars
  <2>6. CASE Behind(Work)
    <3>1. /\ form' = [ch \in Changes |-> IF StageFails(ch) THEN None ELSE form[ch]]
          /\ clearing' \subseteq clearing
          /\ UNCHANGED << current, pendingPresets >>
      BY <2>6 DEF Behind
    <3>2. form' \in [Changes -> Rulesets \cup {None}]
      BY <3>1
    <3> QED
      BY <2>1, <3>1, <3>2
  <2>7. ASSUME NEW ch \in Changes, Stash(ch)
        PROVE  PresetsOK'
    BY <2>1, <2>7 DEF Stash
  <2>8. CASE Promote
    BY <2>1, <2>8 DEF Promote
  <2>9. ASSUME NEW b \in Rollbacks, Clear(b)
        PROVE  PresetsOK'
    BY <2>1, <2>9 DEF Clear
  <2> QED
    BY <1>1, <2>2, <2>3, <2>4, <2>5, <2>6, <2>7, <2>8, <2>9
    DEF Serve, PanelNext, PanelRequest, PanelWork
<1>2. CASE Crash
  <2>1. /\ current' = None /\ pendingPresets' = None /\ clearing' = {} /\ ~up'
        /\ form' = [ch \in Changes |-> None]
    BY <1>2, Zenon DEF Crash
  <2> QED
    BY <2>1
<1>3. CASE Restart
  BY <1>3 DEF Restart, handlerVars
<1>4. CASE UNCHANGED daemonVars
  BY <1>4 DEF daemonVars, panelVars, handlerVars
<1> QED
  BY <1>1, <1>2, <1>3, <1>4 DEF DaemonNext

LEMMA NextFlagsOK ==
  ASSUME FlagsOK, [DaemonNext]_daemonVars
  PROVE  FlagsOK'
BY Zenon
DEF FlagsOK, DaemonNext, Serve, PanelNext, PanelRequest, PanelWork, StageForm, ConfirmButton,
    RollbackButton, ApiRequest, Behind, Stash, Promote, Clear, Crash, Restart,
    daemonVars, panelVars, handlerVars

LEMMA NextCrashes ==
  ASSUME crashes \in 0..MaxCrashes, [DaemonNext]_daemonVars
  PROVE  crashes' \in 0..MaxCrashes
<1>1. UNCHANGED crashes \/ (crashes < MaxCrashes /\ crashes' = crashes + 1)
  BY Zenon DEF DaemonNext, Serve, Crash, Restart, daemonVars
<1> QED
  BY <1>1, CrashAssumption

LEMMA NextDaemonTypeOK ==
  ASSUME NilInv', DaemonTypeOK, [DaemonNext]_daemonVars
  PROVE  DaemonTypeOK'
<1>1. TypeOK'
  BY DEF NilInv
<1>2. PresetsOK' /\ FlagsOK' /\ crashes' \in 0..MaxCrashes
  BY DaemonTypes, NextPresetsOK, NextFlagsOK, NextCrashes
<1> QED
  BY <1>1, <1>2, Zenon DEF DaemonTypeOK, PanelTypeOK, PresetsOK, FlagsOK

LEMMA InitDaemon == DaemonInit => NilInv /\ DaemonTypeOK
<1> SUFFICES ASSUME DaemonInit PROVE NilInv /\ DaemonTypeOK
  OBVIOUS
<1>1. NilInv /\ TypeOK
  BY InitNilInv DEF DaemonInit, NilInv
<1>2. PresetsOK
  BY DEF DaemonInit, PanelInit, PresetsOK
<1>3. FlagsOK
  BY Zenon DEF DaemonInit, PanelInit, FlagsOK
<1>4. crashes \in 0..MaxCrashes
  BY CrashAssumption DEF DaemonInit
<1> QED
  BY <1>1, <1>2, <1>3, <1>4, DaemonTypes

LEMMA DaemonNilInv == NilInv /\ [DaemonNext]_daemonVars => NilInv'
<1>1. UNCHANGED daemonVars => [Next]_vars
  BY DEF daemonVars
<1> QED
  BY <1>1, PanelStep, SerialIsNext, NextNilInv, CrashNilInv, RestartNilInv DEF DaemonNext, Serve

(* Every variable keeps its type, whatever crashes.                        *)
THEOREM DaemonTypeCorrect == DaemonSpec => []DaemonTypeOK
BY InitDaemon, DaemonNilInv, NextDaemonTypeOK, PTL DEF DaemonSpec
-----------------------------------------------------------------------------
(* A crash leaves nothing in memory.                                       *)
Blank ==
  /\ state = "idle" /\ snapshot = None /\ candidate = None /\ timer = None /\ cancelled = {}
  /\ \A p \in Procs : pc[p] \in {"new", "done", "idle"} /\ snap[p] = None
  /\ pendingPresets = None /\ ~promoting /\ clearing = {}
  /\ \A ch \in Changes : form[ch] = None

LifeInv ==
  /\ NilInv
  /\ DaemonTypeOK
  /\ up => SerialInv
  /\ ~up => Blank

LEMMA NextLifeInv ==
  ASSUME Replacing, Reliable, LifeInv, [DaemonNext]_daemonVars
  PROVE  LifeInv'
<1>1. NilInv' /\ DaemonTypeOK'
  BY DaemonNilInv, NextDaemonTypeOK DEF LifeInv
<1>2. CASE Serve(PanelNext)
  <2>1. SerialInv'
    BY <1>2, PanelStep, ReliableIsLossless, NextSerialInv DEF Serve, LifeInv, SerialInv, ControlInv
  <2> QED
    BY <1>1, <1>2, <2>1 DEF Serve, LifeInv
<1>3. CASE Crash
  <2>1. /\ pendingPresets' = None /\ ~promoting' /\ clearing' = {} /\ ~up'
        /\ form' = [ch \in Changes |-> None]
    BY <1>3, Zenon DEF Crash
  <2>2. Blank'
    BY <1>3, <2>1, CrashStep DEF LifeInv, Blank
  <2> QED
    BY <1>1, <2>1, <2>2 DEF LifeInv
<1>4. CASE Restart
  <2>1. UNCHANGED << stagerVars, cancelled, pc, arg, snap >> /\ up'
    BY <1>4 DEF Restart
  <2>2. kernel' = Boot /\ last' = Boot /\ accepted' = Boot
    BY <1>4 DEF Restart, Replacing
  <2>3. \A p \in Procs : pc'[p] \in {"new", "done", "idle"}
    BY <1>4, <2>1 DEF Restart, LifeInv, Blank
  <2>4. state' = "idle" /\ timer' = None /\ cancelled' = {}
    BY <1>4, <2>1 DEF Restart, LifeInv, Blank, stagerVars
  <2>5. ControlInv'
    BY <1>1, <2>3, <2>4
    DEF ControlInv, OneAtWork, TickingIsCurrent, RevertIsPending, StageIsNotPending, TimerIsArmed,
        LiveIsNotCancelled, Procs, AtRest, Staging, Reverting
  <2>6. SerialInv'
    BY <2>2, <2>3, <2>4, <2>5
    DEF SerialInv, AtPeace, KernelAtPeace, SnapshotsAreAccepted, KernelInStage, KernelInRevert,
        Procs, Reverting
  <2> QED
    BY <1>1, <2>1, <2>6 DEF LifeInv
<1>5. CASE UNCHANGED daemonVars
  <2>1. SerialInv => SerialInv'
    BY <1>5, NextSerialInv DEF daemonVars
  <2>2. Blank => Blank'
    BY <1>5 DEF daemonVars, vars, stagerVars, panelVars, handlerVars, Blank
  <2> QED
    BY <1>1, <1>5, <2>1, <2>2 DEF daemonVars, LifeInv
<1> QED
  BY <1>2, <1>3, <1>4, <1>5 DEF DaemonNext

LEMMA DaemonSpecLifeInv ==
  ASSUME Replacing, Reliable
  PROVE  DaemonSpec => []LifeInv
<1>1. DaemonInit => LifeInv
  BY InitDaemon, InitSerialInv DEF DaemonInit, LifeInv
<1> QED
  BY <1>1, NextLifeInv, PTL DEF DaemonSpec

(* Whatever a crash interrupts, the daemon comes back consistent.          *)
THEOREM UpIsAlwaysConsistent ==
  ASSUME Replacing, Reliable
  PROVE  DaemonSpec => []UpIsConsistent
<1>1. LifeInv => UpIsConsistent
  BY DEF LifeInv, UpIsConsistent, SerialInv, KernelAtPeace, AtPeace, SnapshotsAreAccepted,
     Quiet, AtRest
<1> QED
  BY <1>1, DaemonSpecLifeInv, PTL
-----------------------------------------------------------------------------
(* While every request comes through the panel: the presets of the one     *)
(* Stage that is under way are in its form, those of a pending change are  *)
(* in the form until they are stashed; a confirm that still has to promote *)
(* and a rollback that still has to clear have nobody beside them.         *)
Forms ==
  \A ch \in Changes :
    /\ pc[ch] \in Staging => form[ch] # None
    /\ form[ch] # None =>
         /\ clearing = {}
         /\ \A other \in Changes : form[other] # None => other = ch
         /\ pc[ch] \in Staging => form[ch] = arg[ch]
         /\ state = "pending" => form[ch] = candidate

Stashed ==
  state = "pending" /\ (\A ch \in Changes : form[ch] = None) => pendingPresets = candidate

Cleared == \A b \in clearing : pc[b] = "idle" => state # "pending"

Promoted ==
  /\ ~promoting => current = accepted
  /\ promoting => /\ Quiet /\ state # "pending" /\ pendingPresets = accepted
                  /\ clearing = {} /\ \A ch \in Changes : form[ch] = None

PanelInv == Forms /\ Stashed /\ Cleared /\ Promoted

(* A step of the stager's own by which no call fails leaves the panel as   *)
(* it is.                                                                  *)
LEMMA Untroubled ==
  ASSUME PresetsOK, Behind(Work),
         \A ch \in Changes : ~StageFails(ch), \A b \in Rollbacks : ~RollbackFails(b)
  PROVE  UNCHANGED panelVars
<1>1. form' = form
  BY DEF Behind, PresetsOK
<1>2. clearing' = clearing
  BY DEF Behind, PresetsOK
<1>3. UNCHANGED << current, pendingPresets, promoting, apiUsed >>
  BY Zenon DEF Behind
<1> QED
  BY <1>1, <1>2, <1>3 DEF panelVars, handlerVars

LEMMA BehindPanelInv ==
  ASSUME PresetsOK, SerialInv, SerialInv', PanelInv, Behind(Work)
  PROVE  PanelInv'
<1>1. ASSUME \A ch \in Changes : ~StageFails(ch), \A b \in Rollbacks : ~RollbackFails(b)
      PROVE  PanelInv'
  <2>1. UNCHANGED << current, pendingPresets, form, promoting, clearing >>
    BY <1>1, Untroubled DEF panelVars, handlerVars
  <2> USE <2>1
      DEF PanelInv, Forms, Stashed, Cleared, Promoted, SerialInv, ControlInv, NilInv, TypeOK,
          PresetsOK, StageHasCandidate, TickingIsCurrent, RevertIsPending, StageIsNotPending, Quiet,
          OneAtWork, Procs, AtRest, Staging, Reverting, ChangePhases, RollbackPhases, stagerVars
  <2>2. ASSUME NEW ch \in Changes, StageSnapshot(ch)
        PROVE  PanelInv'
    BY <2>2 DEF StageSnapshot
  <2>3. ASSUME NEW ch \in Changes, StageApply(ch)
        PROVE  PanelInv'
    BY <2>3 DEF StageApply, Commit
  <2>4. ASSUME NEW ch \in Changes, StageRemember(ch)
        PROVE  PanelInv'
    BY <2>4 DEF StageRemember, Remember
  <2>5. ASSUME NEW ch \in Changes, StageCommit(ch)
        PROVE  PanelInv'
    BY <2>5 DEF StageCommit
  <2>6. ASSUME NEW ch \in Changes, Fire(ch)
        PROVE  PanelInv'
    BY <2>6 DEF Fire
  <2>7. ASSUME NEW ch \in Changes, TimeoutIgnored(ch)
        PROVE  PanelInv'
    BY <2>7 DEF TimeoutIgnored
  <2>8. ASSUME NEW ch \in Changes, TimeoutCheck(ch)
        PROVE  PanelInv'
    BY <2>8 DEF TimeoutCheck
  <2>9. ASSUME NEW ch \in Changes, TimeoutFails(ch)
        PROVE  PanelInv'
    BY <2>9 DEF TimeoutFails
  <2>10. ASSUME NEW p \in Procs, RevertApply(p)
         PROVE  PanelInv'
    BY <2>10 DEF RevertApply, Commit
  <2>11. ASSUME NEW p \in Procs, RevertRemember(p)
         PROVE  PanelInv'
    BY <2>11 DEF RevertRemember, Remember
  <2>12. ASSUME NEW p \in Procs, RevertCommit(p)
         PROVE  PanelInv'
    BY <2>12 DEF RevertCommit
  <2>13. Work
    BY Zenon DEF Behind
  <2> QED
    BY <1>1, <2>2, <2>3, <2>4, <2>5, <2>6, <2>7, <2>8, <2>9, <2>10, <2>11, <2>12, <2>13
    DEF Work, StageWork, TimerWork, RevertWork
<1>2. ASSUME NEW ch \in Changes, StageFails(ch)
      PROVE  PanelInv'
  <2>1. /\ pc[ch] \in Staging /\ pc' = [pc EXCEPT ![ch] = "done"]
        /\ UNCHANGED << state, candidate, accepted >>
    BY <1>2 DEF StageFails, Staging, stagerVars
  <2>2. /\ form[ch] # None /\ clearing = {} /\ state # "pending"
        /\ \A other \in Changes : form[other] # None => other = ch
        /\ \A other \in Changes : pc[other] \in Staging => other = ch
    BY <2>1 DEF PanelInv, Forms, SerialInv, ControlInv, StageIsNotPending
  <2>3. ~promoting /\ current = accepted
    BY <2>2, Zenon DEF PanelInv, Promoted
  <2>4. form' = [c \in Changes |-> IF StageFails(c) THEN None ELSE form[c]]
    BY DEF Behind
  <2>5. \A c \in Changes : form'[c] = None
    BY <1>2, <2>2, <2>4
  <2>6. clearing' = {} /\ UNCHANGED << current, promoting >>
    BY <2>2 DEF Behind
  <2>7. \A c \in Changes : pc'[c] \notin Staging
    BY <2>1, <2>2 DEF SerialInv, ControlInv, NilInv, TypeOK, Procs, Staging
  <2> QED
    BY <2>1, <2>2, <2>3, <2>5, <2>6, <2>7 DEF PanelInv, Forms, Stashed, Cleared, Promoted
<1>3. ASSUME NEW b \in Rollbacks, RollbackFails(b)
      PROVE  PanelInv'
  <2>1. /\ pc[b] \in Reverting /\ pc' = [pc EXCEPT ![b] = "idle"]
        /\ UNCHANGED << state, candidate, accepted, arg >>
    BY <1>3 DEF RollbackFails, Reverting, stagerVars
  <2>2. \A c \in Changes : pc'[c] = pc[c] /\ ~StageFails(c)
    BY <2>1 DEF SerialInv, ControlInv, NilInv, TypeOK, Procs, StageFails
  <2>3. form' = form
    BY <2>2 DEF Behind, PresetsOK
  <2>4. clearing' = {x \in clearing : ~RollbackFails(x)} /\ UNCHANGED << current, pendingPresets, promoting >>
    BY DEF Behind
  <2>5. clearing' \subseteq clearing /\ b \notin clearing'
    BY <1>3, <2>4
  <2>6. \A x \in clearing' : pc'[x] = pc[x]
    BY <2>1, <2>5 DEF SerialInv, ControlInv, NilInv, TypeOK, Procs, PresetsOK
  <2>7. ~promoting
    BY <2>1 DEF PanelInv, Promoted, Quiet, Procs, AtRest, Reverting
  <2>8. Forms'
    BY <2>1, <2>2, <2>3, <2>5 DEF PanelInv, Forms
  <2>9. Stashed' /\ Cleared'
    BY <2>1, <2>3, <2>4, <2>5, <2>6 DEF PanelInv, Stashed, Cleared
  <2>10. Promoted'
    BY <2>1, <2>4, <2>7 DEF PanelInv, Promoted
  <2> QED
    BY <2>8, <2>9, <2>10 DEF PanelInv
<1> QED
  BY <1>1, <1>2, <1>3

LEMMA ApiStaysUsed == PanelNext /\ ~apiUsed' => ~apiUsed
<1>1. ASSUME Behind(Work) PROVE UNCHANGED apiUsed
  BY <1>1 DEF Behind
<1> QED
  BY <1>1, Zenon
  DEF PanelNext, PanelRequest, PanelWork, StageForm, ConfirmButton, RollbackButton, ApiRequest,
      Stash, Promote, Clear

LEMMA NextPanelInv ==
  ASSUME PresetsOK, SerialInv, SerialInv', PanelInv, PanelNext, ~apiUsed'
  PROVE  PanelInv'
<1> USE DEF PanelInv, Forms, Stashed, Cleared, Promoted, SerialInv, ControlInv, NilInv, TypeOK,
            PresetsOK, PendingHasRulesets, TickingIsCurrent, StageIsNotPending, PanelQuiet, Quiet,
            Procs, AtRest, Staging, Reverting, ChangePhases, RollbackPhases, stagerVars
<1>1. ASSUME PanelQuiet, NEW ch \in Changes, NEW r \in Rulesets, StageForm(ch, r)
      PROVE  PanelInv'
  BY <1>1 DEF StageForm, StageCheck
<1>2. CASE PanelQuiet /\ ConfirmButton
  BY <1>2 DEF ConfirmButton, Confirm, Silenced
<1>3. ASSUME PanelQuiet, NEW b \in Rollbacks, RollbackButton(b)
      PROVE  PanelInv'
  BY <1>3 DEF RollbackButton, RollbackCheck, Silenced
<1>4. CASE ApiRequest
  BY <1>4, Zenon DEF ApiRequest
<1>5. CASE Behind(Work)
  BY <1>5, BehindPanelInv
<1>6. ASSUME NEW ch \in Changes, Stash(ch)
      PROVE  PanelInv'
  BY <1>6 DEF Stash, vars
<1>7. CASE Promote
  BY <1>7 DEF Promote, vars
<1>8. ASSUME NEW b \in Rollbacks, Clear(b)
      PROVE  PanelInv'
  BY <1>8 DEF Clear, vars
<1> QED
  BY <1>1, <1>2, <1>3, <1>4, <1>5, <1>6, <1>7, <1>8 DEF PanelNext, PanelRequest, PanelWork

(* While every change comes through the panel it shows what is accepted    *)
(* and remembers what is pending, whatever timers, failed calls and        *)
(* crashes did in between.                                                 *)
THEOREM UpPanelAlwaysShowsAccepted ==
  ASSUME Replacing, Reliable
  PROVE  DaemonSpec => []UpPanelShowsAccepted
<1> DEFINE Inv == up /\ ~apiUsed => PanelInv
<1>1. DaemonInit => Inv
  BY DEF DaemonInit, Init, PanelInit, PanelInv, Forms, Stashed, Cleared, Promoted, Procs, Staging
<1>2. LifeInv /\ LifeInv' /\ Inv /\ [DaemonNext]_daemonVars => Inv'
  <2> SUFFICES ASSUME LifeInv, LifeInv', Inv, [DaemonNext]_daemonVars, up', ~apiUsed'
               PROVE  PanelInv'
    BY Zenon
  <2>1. CASE Serve(PanelNext)
    <3>1. up /\ PanelNext
      BY <2>1, Zenon DEF Serve
    <3>2. SerialInv /\ SerialInv' /\ PresetsOK
      BY <3>1, DaemonTypes, Zenon DEF LifeInv
    <3>3. ~apiUsed
      BY <3>1, ApiStaysUsed
    <3> QED
      BY <3>1, <3>2, <3>3, NextPanelInv
  <2>2. CASE Crash
    BY <2>2, Zenon DEF Crash
  <2>3. CASE Restart
    <3>1. ~up /\ Blank
      BY <2>3, Zenon DEF Restart, LifeInv
    <3>2. /\ current' = accepted'
          /\ UNCHANGED << state, candidate, pc, pendingPresets, form, promoting, clearing, arg >>
      BY <2>3 DEF Restart, stagerVars, handlerVars
    <3> QED
      BY <3>1, <3>2 DEF Blank, PanelInv, Forms, Stashed, Cleared, Promoted, Procs, Staging
  <2>4. CASE UNCHANGED daemonVars
    BY <2>4
    DEF daemonVars, vars, stagerVars, panelVars, handlerVars, PanelInv, Forms, Stashed, Cleared,
        Promoted, Quiet
  <2> QED
    BY <2>1, <2>2, <2>3, <2>4 DEF DaemonNext
<1>3. Inv => UpPanelShowsAccepted
  BY DEF UpPanelShowsAccepted, PanelShowsAccepted, PanelQuiet, PanelInv, Promoted, Stashed
<1> QED
  BY <1>1, <1>2, <1>3, DaemonSpecLifeInv, PTL DEF DaemonSpec
=============================================================================
