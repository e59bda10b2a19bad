-------------------------------- MODULE Panel --------------------------------
(***************************************************************************)
(* The web panel (internal/ui/ui.go) in front of the stager.  It keeps the *)
(* presets it believes to be in force and those it has staged under a lock *)
(* of its own, which a handler takes only after its call of the stager has *)
(* returned.  Clients of the REST API (internal/api/api.go) call the same  *)
(* stager and the panel does not hear of it.                               *)
(*                                                                         *)
(* Presets are identified with the ruleset that they compile to.           *)
(***************************************************************************)
EXTENDS Stager

VARIABLES
  current,         (* Handler.current                                       *)
  pendingPresets,  (* Handler.pendingPresets, None unless pendingPresetsSet *)
  form,            (* the presets of each call of Stage that presetsStage   *)
                   (* makes, until that handler returns; otherwise None     *)
  promoting,       (* a confirm handler is past stg.Confirm; one at a time  *)
  clearing,        (* the goroutines that serve the panel's rollback button *)
  apiUsed          (* history: the API has changed something since boot     *)

handlerVars == << form, promoting, clearing >>
panelVars   == << current, pendingPresets, handlerVars, apiUsed >>

PanelTypeOK ==
  /\ TypeOK
  /\ current \in Rulesets \cup {None}
  /\ pendingPresets \in Rulesets \cup {None}
  /\ form \in [Changes -> Rulesets \cup {None}]
  /\ promoting \in BOOLEAN
  /\ clearing \subseteq Rollbacks
  /\ apiUsed \in BOOLEAN

PanelInit ==
  /\ current = Boot
  /\ pendingPresets = None
  /\ form = [ch \in Changes |-> None]
  /\ promoting = FALSE
  /\ clearing = {}
  /\ apiUsed = FALSE
-----------------------------------------------------------------------------
(* The handlers.  Each calls the stager first and returns at once, leaving *)
(* the presets alone, if the stager reports an error.                      *)

(* presetsStage.                                                           *)
StageForm(ch, r) ==
  /\ StageCheck(ch, r)
  /\ form' = [form EXCEPT ![ch] = r]
  /\ UNCHANGED << current, pendingPresets, promoting, clearing, apiUsed >>

Stash(ch) ==
  /\ form[ch] # None
  /\ pc[ch] \notin Staging
  /\ pendingPresets' = form[ch]
  /\ form' = [form EXCEPT ![ch] = None]
  /\ UNCHANGED << vars, current, promoting, clearing, apiUsed >>

(* confirm.                                                                *)
ConfirmButton ==
  /\ ~promoting
  /\ Confirm
  /\ promoting' = TRUE
  /\ UNCHANGED << current, pendingPresets, form, clearing, apiUsed >>

(* Mutant: confirm clears the pending presets before it promotes them.     *)
PromoteAfterClearing ==
  /\ promoting
  /\ pendingPresets' = None
  /\ promoting' = FALSE
  /\ UNCHANGED << vars, current, form, clearing, apiUsed >>

Promote ==
  /\ promoting
  /\ current' = IF pendingPresets # None THEN pendingPresets ELSE current
  /\ pendingPresets' = None
  /\ promoting' = FALSE
  /\ UNCHANGED << vars, form, clearing, apiUsed >>

(* rollback.                                                               *)
RollbackButton(b) ==
  /\ b \notin clearing
  /\ RollbackCheck(b)
  /\ clearing' = clearing \cup {b}
  /\ UNCHANGED << current, pendingPresets, form, promoting, apiUsed >>

Clear(b) ==
  /\ b \in clearing
  /\ pc[b] = "idle"
  /\ pendingPresets' = None
  /\ clearing' = clearing \ {b}
  /\ UNCHANGED << vars, current, form, promoting, apiUsed >>

(* handleStage, handleConfirm and handleRollback of the API.               *)
ApiRequest ==
  /\ \/ \E ch \in Changes, r \in Rulesets : StageCheck(ch, r)
     \/ Confirm
     \/ \E b \in Rollbacks \ clearing : RollbackCheck(b)
  /\ apiUsed' = TRUE
  /\ UNCHANGED << current, pendingPresets, handlerVars >>

(* A step of the stager's own.  The panel's handler returns when the call  *)
(* it made has failed.                                                     *)
Behind(A) ==
  /\ A
  /\ form' = [ch \in Changes |-> IF StageFails(ch) THEN None ELSE form[ch]]
  /\ clearing' = {b \in clearing : ~RollbackFails(b)}
  /\ UNCHANGED << current, pendingPresets, promoting, apiUsed >>
-----------------------------------------------------------------------------
(* One request at a time, of the panel or of the API, and none while a     *)
(* timer's goroutine runs.                                                 *)
PanelQuiet == Quiet /\ (\A ch \in Changes : form[ch] = None) /\ ~promoting /\ clearing = {}

PanelRequest ==
  \/ \E ch \in Changes, r \in Rulesets : StageForm(ch, r)
  \/ ConfirmButton
  \/ \E b \in Rollbacks : RollbackButton(b)

PanelWork ==
  \/ \E ch \in Changes : Stash(ch)
  \/ Promote
  \/ \E b \in Rollbacks : Clear(b)

PanelNext ==
  \/ PanelQuiet /\ (PanelRequest \/ ApiRequest)
  \/ Behind(Work)
  \/ PanelWork

PanelSpec == Init /\ PanelInit /\ [][PanelNext]_<< vars, panelVars >>
-----------------------------------------------------------------------------
(* As long as every change comes through the panel, it shows the presets   *)
(* that are in force and remembers those that are pending, whatever timers *)
(* and failed calls did in between: the stale presets of a change that the *)
(* timer undid are never promoted.                                         *)
PanelShowsAccepted ==
  PanelQuiet /\ ~apiUsed =>
    /\ current = accepted
    /\ state = "pending" => pendingPresets = candidate
=============================================================================
