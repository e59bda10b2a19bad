------------------------------- MODULE Client -------------------------------
(***************************************************************************)
(* The command line (cmd/zeerak over internal/cliclient) in front of the   *)
(* stager.  A change is one `zeerak apply`: one POST /stage and, with      *)
(* --yes, one POST /confirm once the first is answered.  A client gives up *)
(* after 30 seconds or on Ctrl-C; the daemon then cancels the request's    *)
(* context, which kills an nft run of Stage or Rollback that is still      *)
(* going, but a call that is past its nft run goes on.                     *)
(***************************************************************************)
EXTENDS Stager

VARIABLES
  cli,         (* where each client of Stage or Rollback is                *)
  overlapped,  (* history: a request began while another call or a timer's *)
               (* goroutine was under way, or amid an `apply --yes`        *)
  escaped,     (* history: nft was killed after it had committed, or did   *)
               (* not run the script of a timer                            *)
  stranded     (* history: a Rollback has failed since a change was armed  *)

history    == << overlapped, escaped, stranded >>
clientVars == << cli, history >>
allVars    == << vars, clientVars >>

CliPhases == {"out", "asking", "left", "answered", "over"}

ClientInit ==
  /\ Init
  /\ cli = [p \in Procs |-> "out"]
  /\ overlapped = FALSE
  /\ escaped = FALSE
  /\ stranded = FALSE

Becomes(p, phase) == cli' = [cli EXCEPT ![p] = phase]

(* A request of `who`, which is None for one that is no part of an apply.  *)
Notice(who) ==
  /\ overlapped' = (overlapped \/ ~Quiet \/ \E ch \in Changes \ {who} : cli[ch] = "answered")
  /\ UNCHANGED << escaped, stranded >>
-----------------------------------------------------------------------------
Apply(ch, r) ==
  /\ cli[ch] = "out"
  /\ StageCheck(ch, r)
  /\ Becomes(ch, "asking")
  /\ Notice(ch)

(* Mutant: with --yes the client does not look at Stage's error.           *)
ApplyRefusedUnseen(ch) ==
  /\ cli[ch] = "out"
  /\ state = "pending"
  /\ Becomes(ch, "answered")
  /\ Notice(ch)
  /\ UNCHANGED vars

(* 409: the client prints the error and exits.                             *)
ApplyRefused(ch) ==
  /\ cli[ch] = "out"
  /\ state = "pending"
  /\ Becomes(ch, "over")
  /\ Notice(ch)
  /\ UNCHANGED vars

Leave(p) ==
  /\ cli[p] = "asking"
  /\ Becomes(p, "left")
  /\ UNCHANGED << vars, history >>

(* The answer to the client that waits for it.                             *)
Answered(ch, phase) ==
  /\ Becomes(ch, IF cli[ch] = "asking" THEN phase ELSE "over")
  /\ UNCHANGED overlapped

AnswerStaged(ch) ==
  /\ StageCommit(ch)
  /\ \E phase \in {"answered", "over"} : Answered(ch, phase)
  /\ stranded' = FALSE
  /\ UNCHANGED escaped

(* An nft run that has committed is lost only with its client.             *)
AnswerFailed(ch) ==
  /\ StageFails(ch)
  /\ pc[ch] = "stage-applied" => cli[ch] = "left"
  /\ Answered(ch, "over")
  /\ escaped' = (escaped \/ pc[ch] = "stage-applied")
  /\ UNCHANGED stranded

AutoConfirm(ch) ==
  /\ cli[ch] = "answered"
  /\ Confirm
  /\ Becomes(ch, "over")
  /\ Notice(ch)

AutoConfirmRefused(ch) ==
  /\ cli[ch] = "answered"
  /\ state # "pending"
  /\ Becomes(ch, "over")
  /\ Notice(ch)
  /\ UNCHANGED vars

(* `zeerak confirm` and `zeerak rollback`.                                 *)
ConfirmCommand == Confirm /\ Notice(None) /\ UNCHANGED cli

RollbackCommand(b) ==
  /\ RollbackCheck(b)
  /\ Becomes(b, "asking")
  /\ Notice(None)

AnswerRolledBack(b) ==
  /\ RevertCommit(b)
  /\ Becomes(b, "out")
  /\ UNCHANGED history

AnswerRollbackFailed(b) ==
  /\ RollbackFails(b)
  /\ pc[b] = "revert-applied" => cli[b] = "left"
  /\ Becomes(b, "out")
  /\ escaped' = (escaped \/ pc[b] = "revert-applied")
  /\ stranded' = TRUE
  /\ UNCHANGED overlapped

(* What the daemon does without answering anybody.                         *)
StageSteps(ch)   == StageSnapshot(ch) \/ StageApply(ch) \/ StageRemember(ch)
TimerSteps(ch)   == TimerWork(ch) \/ RevertWork(ch)
RollbackSteps(b) == RevertApply(b) \/ RevertRemember(b)

Unanswered ==
  /\ \/ \E ch \in Changes : StageSteps(ch) \/ TimerSteps(ch)
     \/ \E b \in Rollbacks : RollbackSteps(b)
  /\ escaped' = (escaped \/ \E ch \in Changes : TimeoutFails(ch))
  /\ UNCHANGED << cli, overlapped, stranded >>
-----------------------------------------------------------------------------
Served(ch)     == AnswerStaged(ch) \/ AnswerFailed(ch)
RolledBack(b)  == AnswerRolledBack(b) \/ AnswerRollbackFailed(b)

ClientRequest(ch) ==
  \/ \E r \in Rulesets : Apply(ch, r)
  \/ ApplyRefused(ch)
  \/ AutoConfirm(ch)
  \/ AutoConfirmRefused(ch)

ClientNext ==
  \/ \E ch \in Changes : ClientRequest(ch) \/ Served(ch)
  \/ ConfirmCommand
  \/ \E b \in Rollbacks : RollbackCommand(b) \/ RolledBack(b)
  \/ \E p \in Procs : Leave(p)
  \/ Unanswered

(* As in Stager the daemon's own work goes on, and nothing is asked of the *)
(* clients.                                                                *)
ClientFairness ==
  /\ \A ch \in Changes : WF_allVars(Served(ch) \/ ((StageSteps(ch) \/ TimerSteps(ch)) /\ Unanswered))
  /\ \A b \in Rollbacks : WF_allVars(RolledBack(b) \/ (RollbackSteps(b) /\ Unanswered))

ClientSpec == ClientInit /\ [][ClientNext]_allVars /\ ClientFairness
-----------------------------------------------------------------------------
(* However clients overlap, give up and leave, and whatever runs of nft    *)
(* fail with them, a pending change is under guard unless a Rollback has   *)
(* failed since it was armed.                                              *)
GuardedUnlessStranded == ~stranded => Guarded

(* Liveness: it does not stay pending for ever unless that happens to it.  *)
PendingEnds == state = "pending" ~> state # "pending" \/ stranded

(* `zeerak apply --yes` confirms the change that it staged and no other,   *)
(* as long as nobody else uses the daemon in the meantime: a refused or    *)
(* failed Stage, and a timer that is faster, leave nothing to confirm.     *)
YesConfirmsItsOwn ==
  [][~overlapped => \A ch \in Changes : AutoConfirm(ch) => timer = ch]_allVars

(* A client that leaves does no harm by itself: whether its change is      *)
(* armed without it or dropped, whether its Rollback is done without it or *)
(* refused, and whatever is tried after that, the kernel goes back to what *)
(* was accepted, unless an nft run was lost on the way.                    *)
OnlyLostRunsEscape ==
  ~overlapped /\ ~escaped /\ Quiet /\ state # "pending" => kernel = accepted
=============================================================================
