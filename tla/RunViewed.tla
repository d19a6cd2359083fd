----------------------------- MODULE RunViewed -----------------------------
(***************************************************************************)
(* A run and its view: the daemon of RunRuntime, and the user interface    *)
(* that has folded every event the daemon appended.  (That each event is   *)
(* handed to the fold once, and in order, is EventStream.)                 *)
(***************************************************************************)
EXTENDS RunRuntime, RunView

VARIABLE view     \* what the user interface knows of the run

Show(v) == view' = v

ViewedInit == Init /\ view = EmptyRun

-----------------------------------------------------------------------------
(* Every step of RunRuntime, by the event it appends. *)

ShownCalls ==
    \/ Start /\ Show(ViewRunCreated(view, st'.budget))
    \/ AnswerClarification /\ Show(ViewClarificationAnswered(view))
    \/ AmendBudget /\ Show(ViewBudgetAmended(view, st'.budget))

ShownRun ==
    \/ DeclareIntent /\ Show(ViewIntentDeclared(view))
    \/ EmitRunResumed /\ Show(ViewRunResumed(view))
    \/ SuspendForBudget /\ Show(ViewRunSuspended(view, "budget"))
    \/ SuspendForAnswer /\ Show(ViewRunSuspended(view, "clarification"))
    \/ HoldRun /\ Show(ViewRunSuspended(view, "approval"))
    \/ Complete /\ Show(ViewRunCompleted(view))
    \/ (TurnLimit \/ Stalled \/ ModelNotPriced \/ UnparseablePlan \/ RefuseRun)
         /\ Show(ViewRunFailed(view))

ShownApprovals ==
    \/ HoldRequest /\ Show(ViewApprovalRequested(view, cur))
    \/ (GrantApproval \/ DenyApproval) /\ Show(ViewApprovalClosed(view, cur))
    \/ ExpireApproval /\ \E e \in todo \ todo' : Show(ViewApprovalClosed(view, e))
    \/ AskClarification /\ Show(ViewClarificationRequested(view))

ShownMeters ==
    \/ SampleEnv /\ Show(ViewEnvSampled(view, st.turn, st'.clock_ms))
    \/ /\ ModelResponds
       /\ \E usage \in 0 .. 1 :
            /\ st' = OnModelResponded(st, usage)
            /\ Show(ViewModelResponded(view, usage))
    \/ (ChargeModel \/ ChargeTool) /\ Show(ViewCostCharged(view, 1))

ShownEffects ==
    \/ RequestEffect /\ Show(ViewToolRequested(view, cur', tool_of'[cur']))
    \/ EmitArtifact /\ Show(ViewArtifactEmitted(view, cur))
    \/ (PeriodicCheckpoint \/ DenyCheckpoint \/ RefuseCheckpoint \/ HoldCheckpoint
          \/ PreWriteCheckpoint) /\ Show(ViewCheckpoint(view))

(* Events the fold keeps in its list and takes nothing from:
   context.assembled, model.requested, plan.step, effect.dispatched,
   tool.result, and the records of the Gateway. *)
ShownInTheTimeline ==
    /\ AssembleContext \/ CallModel \/ PlanStep \/ EmitDispatched \/ ToolResult \/ RefuseResult
    /\ UNCHANGED view

(* Steps without an event. *)
NotShown ==
    /\ \/ Resume \/ DecideApproval \/ ReadClock \/ DecisionTooLate \/ ResumeBlocked
       \/ Redispatch \/ EnterDrive \/ DriveReturns \/ ReturnFailed \/ AssemblePanics
       \/ ModelCallFails \/ Execute \/ EffectDone \/ Crash
    /\ UNCHANGED view

ViewedNext ==
    \/ ShownCalls \/ ShownRun \/ ShownApprovals \/ ShownMeters \/ ShownEffects
    \/ ShownInTheTimeline \/ NotShown

ViewedSpec == ViewedInit /\ [][ViewedNext]_<<vars, view>>

-----------------------------------------------------------------------------
(* The two folds of one Log agree.  What the user sees of a run is what the
   daemon acts on: its budget and meters, its turn, its artifacts, what it
   waits for; and the inbox asks for exactly what the daemon would accept.
   (The status of a run that ended badly is another matter: RunViewClaims.) *)

MetersAgree ==
    /\ view.budget = st.budget \/ (view.budget = None /\ st.budget = NoBudget)
    /\ view.budget_used = st.budget_used
    /\ view.clock_start_ms = st.clock_start_ms
    /\ view.turn = IF st.env_sampled_turn = None THEN 0 ELSE st.env_sampled_turn

StatusesAgree ==
    /\ view.status = st.status \/ (view.status = "completed" /\ st.status = "failed")
    /\ view.awaiting = IF st.status = "suspended" THEN st.awaiting ELSE "nothing"

EffectsAgree ==
    /\ view.effects = tool_of
    /\ view.artifacts = st.artifacts
    /\ view.intent = st.intent /\ view.anchored = st.anchored

Acceptable ==
    {[kind |-> "approval", effect |-> e] : e \in st.pending_approvals}
      \cup (IF st.pending_question THEN {[kind |-> "clarification"]} ELSE {})
      \cup (IF st.status = "suspended" /\ st.awaiting = "budget" THEN {[kind |-> "budget"]} ELSE {})

ViewAgrees == MetersAgree /\ StatusesAgree /\ EffectsAgree /\ Inbox(view) = Acceptable

=============================================================================
