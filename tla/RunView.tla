------------------------------ MODULE RunView ------------------------------
(***************************************************************************)
(* apps/ui/src/projection/fold.ts: what the user interface knows of a run. *)
(* A second fold of the Run Log, written apart from the kernel's: one      *)
(* operator per event, as in RunKernel.                                    *)
(*                                                                         *)
(* Abstractions: those of RunKernel; the cost lines are their sum, the     *)
(* list of checkpoints is whether there is one, and of `effects` the tool  *)
(* is kept.  JavaScript's numbers are the meters of RunKernel here.        *)
(***************************************************************************)
EXTENDS RunKernel

(* RunView; `budget` is None before run.created *)
RunViews ==
    [status: RunStatuses,
     turn: Nat,
     budget: Option(BudgetSpec),
     budget_used: BudgetUsage,
     awaiting: AwaitReasons,
     intent: BOOLEAN,
     pending_approvals: SUBSET Effects,
     pending_question: BOOLEAN,
     artifacts: SUBSET Effects,
     anchored: BOOLEAN,
     effects: [Effects -> Tools \cup {NoTool}],
     clock_start_ms: Option(Nat)]

(* emptyRun *)
EmptyRun ==
    [status |-> "running",
     turn |-> 0,
     budget |-> None,
     budget_used |-> NoUsage,
     awaiting |-> "nothing",
     intent |-> FALSE,
     pending_approvals |-> {},
     pending_question |-> FALSE,
     artifacts |-> {},
     anchored |-> FALSE,
     effects |-> [e \in Effects |-> NoTool],
     clock_start_ms |-> None]

-----------------------------------------------------------------------------
(* applyEvent, event by event. *)

ViewRunCreated(v, b) == [v EXCEPT !.status = "running", !.budget = b, !.awaiting = "nothing"]

ViewIntentDeclared(v) == [v EXCEPT !.intent = TRUE]

ViewRunSuspended(v, reason) == [v EXCEPT !.status = "suspended", !.awaiting = reason]

(* Faulty (see README, "Sensitivity"): the reason outlives the suspension. *)
ViewRunResumedWaiting(v) == [v EXCEPT !.status = "running"]

ViewRunResumed(v) == [v EXCEPT !.status = "running", !.awaiting = "nothing"]

(* Whatever status the event carries. *)
ViewRunCompleted(v) == [v EXCEPT !.status = "completed", !.awaiting = "nothing"]

ViewRunFailed(v) == [v EXCEPT !.status = "failed", !.awaiting = "nothing"]

ViewEnvSampled(v, turn, wall_clock_ms) ==
    LET start == IF v.clock_start_ms = None THEN wall_clock_ms ELSE v.clock_start_ms
        elapsed == IF wall_clock_ms >= start THEN wall_clock_ms - start ELSE 0
        used == v.budget_used.wall_ms
    IN  [v EXCEPT !.turn = turn,
                  !.clock_start_ms = start,
                  !.budget_used.wall_ms = IF elapsed > used THEN elapsed ELSE used]

ViewModelResponded(v, usage) == [v EXCEPT !.budget_used.tokens = Charged(@, usage)]

(* patchEffect: the card of an approval has the tool of its effect. *)
ViewToolRequested(v, e, tool) == [v EXCEPT !.effects[e] = tool]

ViewApprovalRequested(v, e) == [v EXCEPT !.pending_approvals = @ \cup {e}]

(* approval.granted, approval.denied, approval.expired *)
ViewApprovalClosed(v, e) == [v EXCEPT !.pending_approvals = @ \ {e}]

ViewClarificationRequested(v) == [v EXCEPT !.pending_question = TRUE]

ViewClarificationAnswered(v) == [v EXCEPT !.pending_question = FALSE]

ViewArtifactEmitted(v, e) == [v EXCEPT !.artifacts = @ \cup {e}]

ViewCostCharged(v, amount) == [v EXCEPT !.budget_used.amount = Charged(@, amount)]

ViewBudgetAmended(v, b) == [v EXCEPT !.budget = b]

ViewCheckpoint(v) == [v EXCEPT !.anchored = TRUE]

-----------------------------------------------------------------------------
(* rebuildInbox: what the user is asked for.  Each item is a call that the
   user interface offers to make. *)

Inbox(v) ==
    {[kind |-> "approval", effect |-> e] : e \in v.pending_approvals}
      \cup (IF v.pending_question THEN {[kind |-> "clarification"]} ELSE {})
      \cup (IF v.status = "suspended" /\ v.awaiting = "budget" THEN {[kind |-> "budget"]} ELSE {})

=============================================================================
