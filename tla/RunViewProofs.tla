---------------------------- MODULE RunViewProofs ----------------------------
(***************************************************************************)
(* The two folds of a Run Log agree, for every set of tools, every policy, *)
(* every budget and every bound: what the user interface shows of a run is *)
(* what the daemon acts on.                                                *)
(***************************************************************************)
EXTENDS RunViewed, RunRuntimeSafety

(* A view `v` tells what there is to tell of a state `s`. *)
Tells(v, s) ==
    /\ v.budget = s.budget \/ (v.budget = None /\ s.budget = NoBudget)
    /\ v.budget_used = s.budget_used
    /\ v.clock_start_ms = s.clock_start_ms
    /\ v.turn = IF s.env_sampled_turn = None THEN 0 ELSE s.env_sampled_turn
    /\ v.status = s.status \/ (v.status = "completed" /\ s.status = "failed")
    /\ v.awaiting = IF s.status = "suspended" THEN s.awaiting ELSE "nothing"
    /\ v.artifacts = s.artifacts /\ v.intent = s.intent /\ v.anchored = s.anchored
    /\ v.pending_approvals = s.pending_approvals
    /\ v.pending_question = s.pending_question

Told(v, s) == v \in RunViews /\ Tells(v, s)

(* An event that changes nothing of a state that a view tells of. *)
SameShown(s, t) ==
    /\ t.budget = s.budget /\ t.budget_used = s.budget_used
    /\ t.clock_start_ms = s.clock_start_ms /\ t.env_sampled_turn = s.env_sampled_turn
    /\ t.status = s.status /\ t.awaiting = s.awaiting
    /\ t.artifacts = s.artifacts /\ t.intent = s.intent /\ t.anchored = s.anchored
    /\ t.pending_approvals = s.pending_approvals /\ t.pending_question = s.pending_question

(* The turn is not shown, *)
LEMMA AdvanceTurnUnshown ==
    ASSUME NEW s \in RunState
    PROVE  SameShown(s, AdvanceTurn(s))
  BY DEF SameShown, AdvanceTurn, RunState

(* nor is the state of an effect. *)
LEMMA SetEffectUnshown ==
    ASSUME NEW s \in RunState, NEW e, NEW x
    PROVE  SameShown(s, SetEffect(s, e, x))
  BY DEF SameShown, SetEffect, RunState

(* context.assembled, model.requested, plan.step, effect.dispatched *)
LEMMA Unshown ==
    ASSUME NEW s \in RunState, NEW x, NEW e
    PROVE  /\ SameShown(s, OnContextAssembled(s, x)) /\ SameShown(s, OnPlanStep(s, x))
           /\ SameShown(s, OnEffectDispatched(s, e)) /\ SameShown(s, OnToolRequested(s, e))
<1>1. SameShown(s, OnContextAssembled(s, x))
  BY DEF SameShown, OnContextAssembled, RunState
<1>2. SameShown(s, OnPlanStep(s, x))
  BY DEF SameShown, OnPlanStep, RunState
<1> QED
  BY <1>1, <1>2, SetEffectUnshown DEF OnEffectDispatched, OnToolRequested

(* tool.result *)
LEMMA ToolResultUnshown ==
    ASSUME NEW s \in RunState, NEW e \in Effects, NEW status, NEW t \in TaintLevels
    PROVE  SameShown(s, OnToolResult(s, e, status, t))
<1> DEFINE r == SetEffect(s, e, IF status = "denied" THEN "denied" ELSE "settled")
           q == [r EXCEPT !.taint = Join(@, t)]
<1>1. r \in RunState /\ SameShown(s, r)
  BY SetEffectType, SetEffectUnshown DEF EffectStates
<1>2. q \in RunState /\ SameShown(r, q)
  <2> HIDE DEF r
  <2> QED BY <1>1, JoinType DEF RunState, SameShown
<1>3. SameShown(q, AdvanceTurn(q))
  <2> HIDE DEF q
  <2> QED BY <1>2, AdvanceTurnUnshown
<1>4. OnToolResult(s, e, status, t) = AdvanceTurn(q)
  BY DEF OnToolResult
<1> QED
  <2> HIDE DEF r, q
  <2> QED BY <1>1, <1>2, <1>3, <1>4 DEF SameShown

(* approval.denied, approval.expired: the approval is closed, if it was open. *)
LEMMA RefusalShown ==
    ASSUME NEW s \in RunState, NEW e \in Effects
    PROVE  SameShown([s EXCEPT !.pending_approvals = @ \ {e}], OnApprovalRefused(s, e))
<1> DEFINE closed == [s EXCEPT !.pending_approvals = @ \ {e}]
           r == [SetEffect(s, e, "denied") EXCEPT !.pending_approvals = @ \ {e}]
<1>1. CASE e \in s.pending_approvals
  <2>1. SetEffect(s, e, "denied") \in RunState /\ SameShown(s, SetEffect(s, e, "denied"))
    BY SetEffectType, SetEffectUnshown DEF EffectStates
  <2>2. r \in RunState /\ SameShown(closed, r)
    BY <2>1 DEF RunState, SameShown
  <2>3. SameShown(r, AdvanceTurn(r))
    <3> HIDE DEF r
    <3> QED BY <2>2, AdvanceTurnUnshown
  <2>4. OnApprovalRefused(s, e) = AdvanceTurn(r)
    BY <1>1 DEF OnApprovalRefused
  <2> QED
    <3> HIDE DEF r
    <3> QED BY <2>2, <2>3, <2>4 DEF SameShown
<1>2. CASE e \notin s.pending_approvals
  BY <1>2 DEF OnApprovalRefused, SameShown, RunState
<1> QED
  BY <1>1, <1>2

(* A grant closes an approval; the rest of it is not shown. *)
LEMMA GrantShown ==
    ASSUME NEW s \in RunState, NEW e \in Effects
    PROVE  SameShown([s EXCEPT !.pending_approvals = @ \ {e}], OnApprovalGranted(s, e))
<1> DEFINE closed == [s EXCEPT !.pending_approvals = @ \ {e}]
<1>1. closed \in RunState
  BY DEF RunState
<1> HIDE DEF closed
<1>2. SameShown(closed, SetEffect(closed, e, "approved")) /\ SameShown(closed, closed)
  BY <1>1, SetEffectUnshown DEF SameShown
<1> QED
  BY <1>2 DEF OnApprovalGranted, closed

(* What is told of a state is told of one that shows the same. *)
LEMMA TellsSame ==
    ASSUME NEW v, NEW s, NEW t, Told(v, s), SameShown(s, t)
    PROVE  Told(v, t)
  BY DEF Told, Tells, SameShown

-----------------------------------------------------------------------------
(* Event by event. *)

(* run.created, intent.declared, budget.amended *)
LEMMA CreatedTold ==
    ASSUME NEW s \in RunState, NEW v, Told(v, s), NEW b \in BudgetSpec,
           s.status = "running"
    PROVE  Told(ViewRunCreated(v, b), OnRunCreated(s, b))
  BY DEF Told, Tells, ViewRunCreated, OnRunCreated, RunState, RunViews, Option, RunStatuses, AwaitReasons

(* intent, budget, checkpoint and questions are told as they are. *)
LEMMA MarksTold ==
    ASSUME NEW s \in RunState, NEW v, Told(v, s), NEW b \in BudgetSpec
    PROVE  /\ Told(ViewIntentDeclared(v), OnIntentDeclared(s))
           /\ Told(ViewBudgetAmended(v, b), OnBudgetAmended(s, b))
           /\ Told(ViewCheckpoint(v), OnCheckpoint(s))
           /\ Told(ViewClarificationRequested(v), OnClarificationRequested(s))
           /\ Told(ViewClarificationAnswered(v), OnClarificationAnswered(s))
<1> USE DEF Told, Tells, RunState, RunViews, Option
<1>1. Told(ViewIntentDeclared(v), OnIntentDeclared(s))
  BY DEF ViewIntentDeclared, OnIntentDeclared
<1>2. Told(ViewBudgetAmended(v, b), OnBudgetAmended(s, b))
  BY DEF ViewBudgetAmended, OnBudgetAmended
<1>3. Told(ViewCheckpoint(v), OnCheckpoint(s))
  BY DEF ViewCheckpoint, OnCheckpoint
<1>4. Told(ViewClarificationRequested(v), OnClarificationRequested(s))
  BY DEF ViewClarificationRequested, OnClarificationRequested
<1>5. Told(ViewClarificationAnswered(v), OnClarificationAnswered(s))
  BY DEF ViewClarificationAnswered, OnClarificationAnswered
<1> QED
  BY <1>1, <1>2, <1>3, <1>4, <1>5

(* run.suspended: an approval suspension without an open approval would be
   told as waiting for one. *)
LEMMA SuspendedTold ==
    ASSUME NEW s \in RunState, NEW v, Told(v, s), NEW reason \in AwaitReasons,
           reason = "approval" => s.pending_approvals # {}
    PROVE  Told(ViewRunSuspended(v, reason), OnRunSuspended(s, reason))
  BY DEF Told, Tells, ViewRunSuspended, OnRunSuspended, RunState, RunViews, RunStatuses, AwaitReasons

(* run.resumed, run.completed, run.failed *)
LEMMA EndingsTold ==
    ASSUME NEW s \in RunState, NEW v, Told(v, s), NEW how
    PROVE  /\ Told(ViewRunResumed(v), OnRunResumed(s))
           /\ Told(ViewRunCompleted(v), OnRunCompleted(s, how))
           /\ Told(ViewRunFailed(v), OnRunFailed(s))
<1> USE DEF Told, Tells, RunState, RunViews, RunStatuses, AwaitReasons
<1>1. Told(ViewRunResumed(v), OnRunResumed(s))
  BY DEF ViewRunResumed, OnRunResumed
<1>2. Told(ViewRunCompleted(v), OnRunCompleted(s, how))
  BY DEF ViewRunCompleted, OnRunCompleted
<1>3. Told(ViewRunFailed(v), OnRunFailed(s))
  BY DEF ViewRunFailed, OnRunFailed
<1> QED
  BY <1>1, <1>2, <1>3

(* model.responded, cost.charged *)
LEMMA MetersTold ==
    ASSUME NEW s \in RunState, NEW v, Told(v, s), NEW n \in Nat
    PROVE  /\ Told(ViewModelResponded(v, n), OnModelResponded(s, n))
           /\ Told(ViewCostCharged(v, n), OnCostCharged(s, n))
<1> USE DEF Told, Tells, RunState, RunViews
<1>1. \A m \in Nat : Charged(m, n) \in Nat
  BY MeterAssumption DEF Charged
<1>2. Told(ViewModelResponded(v, n), OnModelResponded(s, n))
  BY <1>1 DEF ViewModelResponded, OnModelResponded, BudgetUsage
<1>3. Told(ViewCostCharged(v, n), OnCostCharged(s, n))
  BY <1>1 DEF ViewCostCharged, OnCostCharged, BudgetUsage
<1> QED
  BY <1>2, <1>3

(* env.sampled: both folds keep the longest time that has passed. *)
LEMMA SampledTold ==
    ASSUME NEW s \in RunState, NEW v, Told(v, s), NEW now \in Nat
    PROVE  Told(ViewEnvSampled(v, s.turn, now), OnEnvSampled(s, now))
<1> DEFINE start == IF s.clock_start_ms = None THEN now ELSE s.clock_start_ms
           elapsed == IF now >= start THEN now - start ELSE 0
           used == s.budget_used.wall_ms
           wall == IF elapsed > used THEN elapsed ELSE used
           meters == [s.budget_used EXCEPT !.wall_ms = wall]
<1>1. v.clock_start_ms = s.clock_start_ms /\ v.budget_used = s.budget_used
  BY DEF Told, Tells
<1>2. ViewEnvSampled(v, s.turn, now) =
        [v EXCEPT !.turn = s.turn, !.clock_start_ms = start, !.budget_used = meters]
  BY <1>1 DEF ViewEnvSampled, Told, RunViews
<1>3. OnEnvSampled(s, now) =
        [s EXCEPT !.clock_ms = now, !.clock_start_ms = start, !.budget_used = meters,
                  !.env_sampled_turn = s.turn]
  BY DEF OnEnvSampled, RunState
<1>4. OnEnvSampled(s, now) \in RunState
  BY EnvSampledType
<1>5. start \in Option(Nat) /\ meters \in BudgetUsage
  <2> HIDE DEF start, meters
  <2> QED BY <1>3, <1>4 DEF RunState
<1>6. s.turn \in Nat /\ s.turn # None
  BY NoneAssumption DEF RunState
<1> HIDE DEF start, meters
<1>7. [v EXCEPT !.turn = s.turn, !.clock_start_ms = start, !.budget_used = meters] \in RunViews
  BY <1>5, <1>6 DEF Told, RunViews
<1>8. Tells([v EXCEPT !.turn = s.turn, !.clock_start_ms = start, !.budget_used = meters],
            [s EXCEPT !.clock_ms = now, !.clock_start_ms = start, !.budget_used = meters,
                      !.env_sampled_turn = s.turn])
  BY <1>6 DEF Told, Tells, RunState, RunViews
<1> QED
  BY <1>2, <1>3, <1>7, <1>8 DEF Told

(* tool.requested, artifact.emitted *)
LEMMA EffectsTold ==
    ASSUME NEW s \in RunState, NEW v, Told(v, s), NEW e \in Effects, NEW tool \in Tools
    PROVE  /\ Told(ViewToolRequested(v, e, tool), OnToolRequested(s, e))
           /\ ViewToolRequested(v, e, tool).effects = [v.effects EXCEPT ![e] = tool]
           /\ Told(ViewArtifactEmitted(v, e), OnArtifactEmitted(s, e))
<1>1. Told(v, OnToolRequested(s, e))
  BY Unshown, TellsSame
<1>2. ViewToolRequested(v, e, tool) = [v EXCEPT !.effects = [v.effects EXCEPT ![e] = tool]]
  BY DEF ViewToolRequested, Told, RunViews
<1>3. [v.effects EXCEPT ![e] = tool] \in [Effects -> Tools \cup {NoTool}]
  BY DEF Told, RunViews
<1>4. Told(ViewToolRequested(v, e, tool), OnToolRequested(s, e))
  BY <1>1, <1>2, <1>3 DEF Told, Tells, RunViews
<1>5. Told(ViewArtifactEmitted(v, e), OnArtifactEmitted(s, e))
  BY DEF Told, Tells, RunState, RunViews, ViewArtifactEmitted, OnArtifactEmitted
<1>6. ViewToolRequested(v, e, tool).effects = [v.effects EXCEPT ![e] = tool]
  BY <1>2 DEF Told, RunViews
<1> QED
  BY <1>4, <1>5, <1>6

(* approval.requested; approval.granted, approval.denied, approval.expired *)
LEMMA ApprovalsTold ==
    ASSUME NEW s \in RunState, NEW v, Told(v, s), NEW e \in Effects
    PROVE  /\ Told(ViewApprovalRequested(v, e), OnApprovalRequested(s, e))
           /\ Told(ViewApprovalClosed(v, e), OnApprovalGranted(s, e))
           /\ Told(ViewApprovalClosed(v, e), OnApprovalRefused(s, e))
<1>1. Told(ViewApprovalRequested(v, e), OnApprovalRequested(s, e))
  BY DEF Told, Tells, RunState, RunViews, ViewApprovalRequested, OnApprovalRequested
<1>2. Told(ViewApprovalClosed(v, e), [s EXCEPT !.pending_approvals = @ \ {e}])
  BY DEF Told, Tells, RunState, RunViews, ViewApprovalClosed
<1> QED
  BY <1>1, <1>2, GrantShown, RefusalShown, TellsSame

(* Only the tool of an effect is told of it. *)
LEMMA OtherFields ==
    ASSUME NEW v \in RunViews, NEW b, NEW r, NEW n, NEW e
    PROVE  /\ ViewRunCreated(v, b).effects = v.effects
           /\ ViewIntentDeclared(v).effects = v.effects
           /\ ViewRunSuspended(v, r).effects = v.effects
           /\ ViewRunResumed(v).effects = v.effects
           /\ ViewRunCompleted(v).effects = v.effects
           /\ ViewRunFailed(v).effects = v.effects
           /\ ViewEnvSampled(v, r, n).effects = v.effects
           /\ ViewModelResponded(v, n).effects = v.effects
           /\ ViewApprovalRequested(v, e).effects = v.effects
           /\ ViewApprovalClosed(v, e).effects = v.effects
           /\ ViewClarificationRequested(v).effects = v.effects
           /\ ViewClarificationAnswered(v).effects = v.effects
           /\ ViewArtifactEmitted(v, e).effects = v.effects
           /\ ViewCostCharged(v, n).effects = v.effects
           /\ ViewBudgetAmended(v, b).effects = v.effects
           /\ ViewCheckpoint(v).effects = v.effects
  BY DEF RunViews, ViewRunCreated, ViewIntentDeclared, ViewRunSuspended, ViewRunResumed,
         ViewRunCompleted, ViewRunFailed, ViewEnvSampled, ViewModelResponded,
         ViewApprovalRequested, ViewApprovalClosed, ViewClarificationRequested,
         ViewClarificationAnswered, ViewArtifactEmitted, ViewCostCharged, ViewBudgetAmended,
         ViewCheckpoint

-----------------------------------------------------------------------------
(* A run that is shown is a run: all that holds of RunRuntime holds of it. *)
THEOREM ViewedRunsAreRuns == ViewedSpec => Spec
<1>1. ViewedInit => Init
  BY DEF ViewedInit
<1>2. [ViewedNext]_<<vars, view>> => [Next]_vars
  BY DEF ViewedNext, ShownCalls, ShownRun, ShownApprovals, ShownMeters, ShownEffects,
         ShownInTheTimeline, NotShown, Next, Daemon, Calls, ResumeSteps, DriveSteps, EffectSteps
<1> QED
  BY <1>1, <1>2, PTL DEF ViewedSpec, Spec

(* A step appends or leaves the fold alone; and run.suspended{approval}
   follows on approval.requested. *)
LEMMA StepFrame ==
    ASSUME Next
    PROVE  /\ logged' = TRUE \/ UNCHANGED <<st, logged>>
           /\ pc' = "hold_run" => HoldRequest
<1> USE DEF Emit, Goto, Quiet, Return, LogStep, log, Decided
<1>1. CASE Calls
  BY <1>1 DEF Calls, Start, Resume, DecideApproval, AnswerClarification, AmendBudget
<1>2. CASE ResumeSteps
  BY <1>2 DEF ResumeSteps, ReadClock, ExpireApproval, DecisionTooLate, GrantApproval,
    DenyCheckpoint, DenyApproval, ResumeBlocked, EmitRunResumed, Redispatch, EnterDrive
<1>3. CASE DriveSteps
  BY <1>3 DEF DriveSteps, DeclareIntent, TurnLimit, DriveReturns, Stalled, ReturnFailed,
    PeriodicCheckpoint, SuspendForBudget, SampleEnv, AssembleContext, AssemblePanics,
    AskClarification, SuspendForAnswer, Complete, CallModel, ModelCallFails, ModelResponds,
    ModelNotPriced, ChargeModel, UnparseablePlan, PlanStep
<1>4. CASE EffectSteps
  <2>1. CASE HoldRequest
    BY <2>1 DEF HoldRequest
  <2>2. CASE ~HoldRequest
    BY <1>4, <2>2 DEF EffectSteps, RequestEffect, RefuseCheckpoint, RefuseResult, RefuseRun,
      HoldCheckpoint, HoldRun, PreWriteCheckpoint, EmitDispatched, Execute, ToolResult,
      EmitArtifact, ChargeTool, EffectDone
  <2> QED
    BY <2>1, <2>2
<1>5. CASE Crash
  BY <1>5 DEF Crash
<1> QED
  BY <1>1, <1>2, <1>3, <1>4, <1>5 DEF Next, Daemon

(* Before its first event a run is new, and a run that is about to be held
   has its approval open. *)
Beginnings ==
    /\ logged \/ st = NewRun
    /\ pc = "hold_run" => st.pending_approvals # {}

(* What the view relies on when a run begins and when one is held. *)
LEMMA BeginningsHold ==
    ASSUME TypeOK, Beginnings, [Next]_vars
    PROVE  Beginnings'
<1>1. CASE UNCHANGED vars
  BY <1>1 DEF vars, log, Beginnings
<1>2. CASE Next
  <2>1. (logged \/ st = NewRun)'
    BY <1>2, StepFrame DEF Beginnings
  <2>2. CASE pc' = "hold_run"
    <3>1. HoldRequest
      BY <1>2, <2>2, StepFrame
    <3>2. cur \in Effects /\ st' = OnApprovalRequested(st, cur) /\ st \in RunState
      BY <3>1 DEF HoldRequest, Emit, TypeOK, OnAnEffect
    <3>3. cur \in st'.pending_approvals
      BY <3>2 DEF OnApprovalRequested, RunState
    <3> QED
      BY <2>1, <3>3 DEF Beginnings
  <2> QED
    BY <2>1, <2>2 DEF Beginnings
<1> QED
  BY <1>1, <1>2

ShownInv == Told(view, st) /\ view.effects = tool_of

(* The events of the calls are shown as they are folded, *)
LEMMA CallsShown ==
    ASSUME TypeOK, Beginnings, ShownInv, ShownCalls
    PROVE  ShownInv'
<1> USE DEF Show, Emit, Quiet, log, ShownInv
<1>1. st \in RunState /\ view \in RunViews
  BY DEF TypeOK, Told
<1>2. CASE Start /\ Show(ViewRunCreated(view, st'.budget))
  <2>1. PICK b \in Budgets : st' = OnRunCreated(NewRun, b)
    BY <1>2 DEF Start
  <2>2. st = NewRun /\ st.status = "running" /\ b \in BudgetSpec /\ UNCHANGED tool_of
    BY <1>2, BudgetsAssumption DEF Start, Beginnings, NewRun
  <2>3. st'.budget = b
    BY <1>1, <2>1, <2>2 DEF OnRunCreated, RunState
  <2> QED
    BY <1>1, <1>2, <2>1, <2>2, <2>3, CreatedTold, OtherFields
<1>3. CASE AnswerClarification /\ Show(ViewClarificationAnswered(view))
  BY <1>1, <1>3, MarksTold, OtherFields, BudgetsAssumption DEF AnswerClarification, TypeOK, RunState
<1>4. CASE AmendBudget /\ Show(ViewBudgetAmended(view, st'.budget))
  <2>1. PICK b \in Budgets : st' = OnBudgetAmended(st, b)
    BY <1>4 DEF AmendBudget
  <2>2. b \in BudgetSpec /\ UNCHANGED tool_of
    BY <1>4, BudgetsAssumption DEF AmendBudget
  <2>3. st'.budget = b
    BY <1>1, <2>1 DEF OnBudgetAmended, RunState
  <2> QED
    BY <1>1, <1>4, <2>1, <2>2, <2>3, MarksTold, OtherFields
<1> QED
  BY <1>2, <1>3, <1>4 DEF ShownCalls

(* those of the life of the run, *)
LEMMA RunShown ==
    ASSUME TypeOK, Beginnings, ShownInv, ShownRun
    PROVE  ShownInv'
<1> USE DEF Show, Emit, Quiet, log, ShownInv, LogStep
<1>1. st \in RunState /\ view \in RunViews /\ st.budget \in BudgetSpec
  BY DEF TypeOK, Told, RunState
<1>2. CASE DeclareIntent /\ Show(ViewIntentDeclared(view))
  BY <1>1, <1>2, MarksTold, OtherFields DEF DeclareIntent
<1>3. CASE EmitRunResumed /\ Show(ViewRunResumed(view))
  BY <1>1, <1>3, EndingsTold, OtherFields DEF EmitRunResumed
<1>4. CASE SuspendForBudget /\ Show(ViewRunSuspended(view, "budget"))
  BY <1>1, <1>4, SuspendedTold, OtherFields DEF SuspendForBudget, AwaitReasons
<1>5. CASE SuspendForAnswer /\ Show(ViewRunSuspended(view, "clarification"))
  BY <1>1, <1>5, SuspendedTold, OtherFields DEF SuspendForAnswer, AwaitReasons
<1>6. CASE HoldRun /\ Show(ViewRunSuspended(view, "approval"))
  BY <1>1, <1>6, SuspendedTold, OtherFields DEF HoldRun, Beginnings, AwaitReasons
<1>7. CASE Complete /\ Show(ViewRunCompleted(view))
  BY <1>1, <1>7, EndingsTold, OtherFields DEF Complete
<1>8. CASE (TurnLimit \/ Stalled \/ ModelNotPriced \/ UnparseablePlan \/ RefuseRun)
             /\ Show(ViewRunFailed(view))
  BY <1>1, <1>8, EndingsTold, OtherFields
     DEF TurnLimit, Stalled, ModelNotPriced, UnparseablePlan, RefuseRun
<1> QED
  BY <1>2, <1>3, <1>4, <1>5, <1>6, <1>7, <1>8 DEF ShownRun

(* of its approvals, *)
LEMMA ApprovalsShown ==
    ASSUME TypeOK, ShownInv, ShownApprovals
    PROVE  ShownInv'
<1> USE DEF Show, Emit, Quiet, log, ShownInv, LogStep
<1>1. st \in RunState /\ view \in RunViews /\ st.budget \in BudgetSpec /\ todo \subseteq Effects
  BY DEF TypeOK, Told, RunState
<1>2. CASE HoldRequest /\ Show(ViewApprovalRequested(view, cur))
  <2>1. cur \in Effects
    BY <1>2 DEF HoldRequest, TypeOK, OnAnEffect
  <2> QED
    BY <1>1, <1>2, <2>1, ApprovalsTold, OtherFields DEF HoldRequest
<1>3. CASE (GrantApproval \/ DenyApproval) /\ Show(ViewApprovalClosed(view, cur))
  <2>1. cur \in Effects
    BY <1>1, <1>3 DEF GrantApproval, DenyApproval, TypeOK, OnAnEffect, RunState
  <2> QED
    BY <1>1, <1>3, <2>1, ApprovalsTold, OtherFields DEF GrantApproval, DenyApproval
<1>4. CASE ExpireApproval /\ \E e \in todo \ todo' : Show(ViewApprovalClosed(view, e))
  <2>1. PICK e \in todo : st' = OnApprovalRefused(st, e) /\ todo' = todo \ {e}
    BY <1>4 DEF ExpireApproval
  <2>2. view' = ViewApprovalClosed(view, e) /\ e \in Effects /\ UNCHANGED tool_of
    BY <1>1, <1>4, <2>1 DEF ExpireApproval
  <2> QED
    BY <1>1, <2>1, <2>2, ApprovalsTold, OtherFields
<1>5. CASE AskClarification /\ Show(ViewClarificationRequested(view))
  BY <1>1, <1>5, MarksTold, OtherFields DEF AskClarification
<1> QED
  BY <1>2, <1>3, <1>4, <1>5 DEF ShownApprovals

(* of its meters, *)
LEMMA MetersShown ==
    ASSUME TypeOK, ShownInv, ShownMeters
    PROVE  ShownInv'
<1> USE DEF Show, Emit, Quiet, log, ShownInv, LogStep
<1>1. st \in RunState /\ view \in RunViews
  BY DEF TypeOK, Told
<1>2. CASE SampleEnv /\ Show(ViewEnvSampled(view, st.turn, st'.clock_ms))
  <2>1. PICK now \in Times : st' = OnEnvSampled(st, now)
    BY <1>2 DEF SampleEnv
  <2>2. now \in Nat /\ st'.clock_ms = now /\ UNCHANGED tool_of
    BY <1>1, <1>2, <2>1, TimeAssumption DEF SampleEnv, OnEnvSampled, RunState
  <2> QED
    BY <1>1, <1>2, <2>1, <2>2, SampledTold, OtherFields
<1>3. ASSUME ModelResponds, NEW usage \in 0 .. 1, st' = OnModelResponded(st, usage),
             Show(ViewModelResponded(view, usage))
      PROVE  ShownInv'
  <2>1. usage \in Nat /\ UNCHANGED tool_of
    BY <1>3 DEF ModelResponds
  <2> QED
    BY <1>1, <1>3, <2>1, MetersTold, OtherFields
<1>4. CASE (ChargeModel \/ ChargeTool) /\ Show(ViewCostCharged(view, 1))
  <2>1. st' = OnCostCharged(st, 1) /\ view' = ViewCostCharged(view, 1) /\ UNCHANGED tool_of
    BY <1>4 DEF ChargeModel, ChargeTool
  <2>2. Told(view', st')
    BY <1>1, <2>1, MetersTold
  <2>3. view'.effects = view.effects
    BY <1>1, <2>1, OtherFields
  <2> QED
    BY <2>1, <2>2, <2>3
<1> QED
  BY <1>2, <1>3, <1>4 DEF ShownMeters

(* and of its effects. *)
LEMMA EffectsShown ==
    ASSUME TypeOK, ShownInv, ShownEffects
    PROVE  ShownInv'
<1> USE DEF Show, Emit, Quiet, log, ShownInv, LogStep
<1>1. st \in RunState /\ view \in RunViews /\ st.budget \in BudgetSpec
  BY DEF TypeOK, Told, RunState
<1>2. CASE RequestEffect /\ Show(ViewToolRequested(view, cur', tool_of'[cur']))
  <2>1. PICK e \in FreshEffects(st) :
          /\ st' = OnToolRequested(st, e) /\ cur' = e
          /\ tool_of' = [tool_of EXCEPT ![e] = st.last_plan.tool]
    BY <1>2 DEF RequestEffect
  <2>2. e \in Effects
    BY DEF FreshEffects, EffectsIn
  <2>3. PICK tool \in Tools : tool = st.last_plan.tool
    BY <1>1, <1>2 DEF RequestEffect, DecideRequestEffect, RunState, Plans, Option
  <2>4. tool_of'[e] = tool
    BY <2>1, <2>2, <2>3 DEF TypeOK
  <2>5. view' = ViewToolRequested(view, e, tool)
    BY <1>2, <2>1, <2>4
  <2>6. Told(view', st') /\ view'.effects = [view.effects EXCEPT ![e] = tool]
    <3>1. Told(view, st)
      OBVIOUS
    <3>2. Told(ViewToolRequested(view, e, tool), OnToolRequested(st, e))
      BY ONLY <1>1, <2>2, <2>3, <3>1, EffectsTold
    <3>3. ViewToolRequested(view, e, tool).effects = [view.effects EXCEPT ![e] = tool]
      BY ONLY <1>1, <2>2, <2>3, <3>1, EffectsTold
    <3> QED
      BY ONLY <2>1, <2>5, <3>2, <3>3
  <2> QED
    BY <2>1, <2>3, <2>6
<1>3. CASE EmitArtifact /\ Show(ViewArtifactEmitted(view, cur))
  <2>1. cur \in Effects
    BY <1>3 DEF EmitArtifact, TypeOK, OnAnEffect
  <2>2. st' = OnArtifactEmitted(st, cur) /\ UNCHANGED tool_of
    BY <1>3 DEF EmitArtifact
  <2>3. Told(ViewArtifactEmitted(view, cur), OnArtifactEmitted(st, cur))
    BY <1>1, <2>1 DEF Told, Tells, RunState, RunViews, ViewArtifactEmitted, OnArtifactEmitted
  <2> QED
    BY <1>1, <1>3, <2>2, <2>3, OtherFields
<1>4. CASE (PeriodicCheckpoint \/ DenyCheckpoint \/ RefuseCheckpoint \/ HoldCheckpoint
              \/ PreWriteCheckpoint) /\ Show(ViewCheckpoint(view))
  BY <1>1, <1>4, MarksTold, OtherFields
     DEF PeriodicCheckpoint, DenyCheckpoint, RefuseCheckpoint, HoldCheckpoint, PreWriteCheckpoint
<1> QED
  BY <1>2, <1>3, <1>4 DEF ShownEffects

(* What is shown in the timeline only changes nothing of the rest, *)
LEMMA TimelineShown ==
    ASSUME TypeOK, ShownInv, ShownInTheTimeline
    PROVE  ShownInv'
<1> USE DEF Emit, Quiet, log, ShownInv, LogStep
<1>1. st \in RunState /\ UNCHANGED <<view, tool_of>>
  BY DEF TypeOK, ShownInTheTimeline, AssembleContext, CallModel, PlanStep, EmitDispatched,
         ToolResult, RefuseResult
<1>2. SameShown(st, st')
  <2>1. CASE AssembleContext
    BY <1>1, <2>1, Unshown DEF AssembleContext
  <2>2. CASE CallModel
    BY <2>2 DEF CallModel, SameShown
  <2>3. CASE PlanStep
    BY <1>1, <2>3, Unshown DEF PlanStep
  <2>4. CASE EmitDispatched
    BY <1>1, <2>4, Unshown DEF EmitDispatched
  <2>5. CASE ToolResult
    <3>1. PICK status \in {"ok", "error"}, t \in TaintLevels : st' = OnToolResult(st, cur, status, t)
      BY <2>5 DEF ToolResult, TaintLevels
    <3>2. cur \in Effects
      BY <2>5 DEF ToolResult, TypeOK, OnAnEffect
    <3> QED
      BY <1>1, <3>1, <3>2, ToolResultUnshown
  <2>6. CASE RefuseResult
    <3>1. st' = OnToolResult(st, cur, "denied", "clean") /\ "clean" \in TaintLevels
      BY <2>6 DEF RefuseResult, TaintLevels
    <3>2. cur \in Effects
      BY <2>6 DEF RefuseResult, TypeOK, OnAnEffect
    <3> QED
      BY <1>1, <3>1, <3>2, ToolResultUnshown
  <2> QED
    BY <2>1, <2>2, <2>3, <2>4, <2>5, <2>6 DEF ShownInTheTimeline
<1> QED
  BY <1>1, <1>2, TellsSame

(* and a step without an event shows nothing. *)
LEMMA NotShownTells ==
    ASSUME ShownInv, NotShown
    PROVE  ShownInv'
<1>1. UNCHANGED <<st, tool_of, view>>
  BY DEF NotShown, Resume, DecideApproval, ReadClock, DecisionTooLate, ResumeBlocked, Redispatch,
         EnterDrive, DriveReturns, ReturnFailed, AssemblePanics, ModelCallFails, Execute, EffectDone,
         Crash, log
<1> QED
  BY <1>1 DEF ShownInv

(* The two folds agree.  The inbox of the user interface asks for what the
   daemon would accept, no more and no less; its meters, status, budget and
   effects are the daemon's. *)
THEOREM ViewsAgree == ViewedSpec => []ViewAgrees
<1>1. ViewedInit => Beginnings /\ ShownInv
  BY NewRunType DEF ViewedInit, Init, Beginnings, ShownInv, Told, Tells, EmptyRun, NewRun, RunViews,
     RunStatuses, Option, NoUsage, BudgetUsage, AwaitReasons
<1>2. ViewedSpec => [](TypeOK /\ AllAgree)
  BY ViewedRunsAreRuns, AlwaysAgree
<1>3. TypeOK /\ Beginnings /\ ShownInv /\ [ViewedNext]_<<vars, view>> => (Beginnings /\ ShownInv)'
  <2> SUFFICES ASSUME TypeOK, Beginnings, ShownInv, [ViewedNext]_<<vars, view>>
               PROVE  (Beginnings /\ ShownInv)'
    OBVIOUS
  <2>1. [Next]_vars
    BY DEF ViewedNext, ShownCalls, ShownRun, ShownApprovals, ShownMeters, ShownEffects,
           ShownInTheTimeline, NotShown, Next, Daemon, Calls, ResumeSteps, DriveSteps, EffectSteps
  <2>2. Beginnings'
    BY <2>1, BeginningsHold
  <2>3. CASE UNCHANGED <<vars, view>>
    BY <2>2, <2>3 DEF vars, log, ShownInv
  <2> QED
    BY <2>2, <2>3, CallsShown, RunShown, ApprovalsShown, MetersShown, EffectsShown, TimelineShown,
       NotShownTells DEF ViewedNext
<1>4. ShownInv => ViewAgrees
  <2> SUFFICES ASSUME ShownInv PROVE ViewAgrees
    OBVIOUS
  <2>1. MetersAgree /\ StatusesAgree /\ EffectsAgree
    BY DEF ShownInv, Told, Tells, MetersAgree, StatusesAgree, EffectsAgree
  <2>2. Inbox(view) = Acceptable
    BY DEF ShownInv, Told, Tells, Inbox, Acceptable
  <2> QED
    BY <2>1, <2>2 DEF ViewAgrees
<1> QED
  BY <1>1, <1>2, <1>3, <1>4, PTL DEF ViewedSpec

=============================================================================
