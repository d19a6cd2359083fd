-------------------------- MODULE RunRuntimeSafety --------------------------
(***************************************************************************)
(* Types and side effects of a run, for every set of tools, every policy,  *)
(* every budget and every bound: the fold of RunKernel and the runtime     *)
(* over it keep their types; AllAgree is inductive, and with it an effect  *)
(* runs at most once, never without consent and never after a refusal, and *)
(* every step of the daemon is one step in the life of one effect or       *)
(* touches none: RunRuntime implements EffectProtocol.                     *)
(***************************************************************************)
EXTENDS RunRuntime, TLAPS

-----------------------------------------------------------------------------
(* The fold. *)

(* RunState::new is a state. *)
LEMMA NewRunType == NewRun \in RunState
  BY DEF NewRun, RunState, RunStatuses, Option, TaintLevels, EffectStates, AwaitReasons,
         BudgetSpec, NoBudget, BudgetUsage, NoUsage

(* Joining two taint levels gives one. *)
LEMMA JoinType ==
    ASSUME NEW a \in TaintLevels, NEW b \in TaintLevels
    PROVE  Join(a, b) \in TaintLevels
  BY DEF Join, TaintLevels

(* Ending the turn, or not. *)
LEMMA AdvanceTurnType ==
    ASSUME NEW s \in RunState
    PROVE  AdvanceTurn(s) \in RunState
  BY DEF AdvanceTurn, RunState

(* Putting an effect in a state. *)
LEMMA SetEffectType ==
    ASSUME NEW s \in RunState, NEW e \in Effects, NEW x \in EffectStates
    PROVE  SetEffect(s, e, x) \in RunState
  BY DEF SetEffect, RunState

(* run.created *)
LEMMA RunCreatedType ==
    ASSUME NEW s \in RunState, NEW b \in BudgetSpec
    PROVE  OnRunCreated(s, b) \in RunState
  BY DEF OnRunCreated, RunState, RunStatuses

(* intent.declared, checkpoint, clarification.requested, clarification.answered *)
LEMMA MarksType ==
    ASSUME NEW s \in RunState
    PROVE  /\ OnIntentDeclared(s) \in RunState
           /\ OnCheckpoint(s) \in RunState
           /\ OnClarificationRequested(s) \in RunState
           /\ OnClarificationAnswered(s) \in RunState
<1>1. OnIntentDeclared(s) \in RunState
  BY DEF OnIntentDeclared, RunState
<1>2. OnCheckpoint(s) \in RunState
  BY DEF OnCheckpoint, RunState
<1>3. OnClarificationRequested(s) \in RunState
  BY DEF OnClarificationRequested, RunState
<1>4. OnClarificationAnswered(s) \in RunState
  <2>1. None \in Option(Nat)
    BY DEF Option
  <2> QED
    BY <2>1 DEF OnClarificationAnswered, RunState
<1> QED
  BY <1>1, <1>2, <1>3, <1>4

(* env.sampled: the elapsed time stays a number however the clock jumps. *)
LEMMA EnvSampledType ==
    ASSUME NEW s \in RunState, NEW t \in Nat
    PROVE  OnEnvSampled(s, t) \in RunState
<1> DEFINE start == IF s.clock_start_ms = None THEN t ELSE s.clock_start_ms
           elapsed == IF t >= start THEN t - start ELSE 0
           used == s.budget_used.wall_ms
           wall == IF elapsed > used THEN elapsed ELSE used
<1>1. start \in Nat
  BY DEF RunState, Option
<1>2. elapsed \in Nat
  <2> HIDE DEF start
  <2> QED BY <1>1
<1>3. used \in Nat /\ s.budget_used \in BudgetUsage
  BY DEF RunState, BudgetUsage
<1>4. wall \in Nat
  <2> HIDE DEF elapsed, used
  <2> QED BY <1>2, <1>3
<1>5. [s.budget_used EXCEPT !.wall_ms = wall] \in BudgetUsage
  <2> HIDE DEF wall
  <2> QED BY <1>3, <1>4 DEF BudgetUsage
<1>6. OnEnvSampled(s, t) =
        [s EXCEPT !.clock_ms = t, !.clock_start_ms = start,
                  !.budget_used = [s.budget_used EXCEPT !.wall_ms = wall],
                  !.env_sampled_turn = s.turn]
  BY DEF OnEnvSampled, RunState
<1> HIDE DEF start, wall
<1> DEFINE used1 == [s.budget_used EXCEPT !.wall_ms = wall]
<1>7. start \in Option(Nat) /\ s.turn \in Option(Nat) /\ used1 \in BudgetUsage
  BY <1>1, <1>5 DEF RunState, Option
<1> HIDE DEF used1
<1>8. [s EXCEPT !.clock_ms = t, !.clock_start_ms = start,
                !.budget_used = used1, !.env_sampled_turn = s.turn] \in RunState
  BY <1>7 DEF RunState
<1> QED
  BY <1>6, <1>8 DEF used1

(* context.assembled *)
LEMMA ContextAssembledType ==
    ASSUME NEW s \in RunState, NEW t \in TaintLevels
    PROVE  OnContextAssembled(s, t) \in RunState
<1>1. Join(s.taint, t) \in TaintLevels
  BY DEF RunState, Join, TaintLevels
<1>2. s.turn \in Option(Nat)
  BY DEF RunState, Option
<1> QED
  BY <1>1, <1>2 DEF OnContextAssembled, RunState

(* model.responded, cost.charged: the meters stay numbers. *)
LEMMA MetersType ==
    ASSUME NEW s \in RunState, NEW n \in Nat
    PROVE  /\ OnModelResponded(s, n) \in RunState
           /\ OnCostCharged(s, n) \in RunState
  BY MeterAssumption DEF OnModelResponded, OnCostCharged, RunState, Charged, BudgetUsage

(* plan.step *)
LEMMA PlanStepType ==
    ASSUME NEW s \in RunState, NEW plan \in Plans
    PROVE  OnPlanStep(s, plan) \in RunState
  BY DEF OnPlanStep, RunState, Option

(* tool.requested, effect.dispatched *)
LEMMA EffectEventsType ==
    ASSUME NEW s \in RunState, NEW e \in Effects
    PROVE  /\ OnToolRequested(s, e) \in RunState
           /\ OnEffectDispatched(s, e) \in RunState
  BY SetEffectType DEF OnToolRequested, OnEffectDispatched, EffectStates

(* tool.result *)
LEMMA ToolResultType ==
    ASSUME NEW s \in RunState, NEW e \in Effects, NEW status, NEW t \in TaintLevels
    PROVE  OnToolResult(s, e, status, t) \in RunState
<1> DEFINE r == SetEffect(s, e, IF status = "denied" THEN "denied" ELSE "settled")
<1>1. r \in RunState
  BY SetEffectType DEF EffectStates
<1>2. [r EXCEPT !.taint = Join(@, t)] \in RunState
  <2> HIDE DEF r
  <2> QED BY <1>1, JoinType DEF RunState
<1> QED
  BY <1>2, AdvanceTurnType DEF OnToolResult

(* budget.amended *)
LEMMA BudgetAmendedType ==
    ASSUME NEW s \in RunState, NEW b \in BudgetSpec
    PROVE  OnBudgetAmended(s, b) \in RunState
  BY DEF OnBudgetAmended, RunState

(* run.completed, run.failed, run.resumed *)
LEMMA EndingsType ==
    ASSUME NEW s \in RunState, NEW status
    PROVE  /\ OnRunCompleted(s, status) \in RunState
           /\ OnRunFailed(s) \in RunState
           /\ OnRunResumed(s) \in RunState
  BY DEF OnRunCompleted, OnRunFailed, OnRunResumed, RunState, RunStatuses, AwaitReasons

(* run.suspended *)
LEMMA RunSuspendedType ==
    ASSUME NEW s \in RunState, NEW reason \in AwaitReasons
    PROVE  OnRunSuspended(s, reason) \in RunState
  BY DEF OnRunSuspended, RunState, RunStatuses, AwaitReasons

(* approval.requested, artifact.emitted *)
LEMMA LedgersType ==
    ASSUME NEW s \in RunState, NEW e \in Effects
    PROVE  /\ OnApprovalRequested(s, e) \in RunState
           /\ OnArtifactEmitted(s, e) \in RunState
  BY DEF OnApprovalRequested, OnArtifactEmitted, RunState

(* approval.granted *)
LEMMA ApprovalGrantedType ==
    ASSUME NEW s \in RunState, NEW e \in Effects
    PROVE  OnApprovalGranted(s, e) \in RunState
<1> DEFINE closed == [s EXCEPT !.pending_approvals = @ \ {e}]
<1>1. closed \in RunState
  BY DEF RunState
<1>2. SetEffect(closed, e, "approved") \in RunState
  <2> HIDE DEF closed
  <2> QED BY <1>1, SetEffectType DEF EffectStates
<1> QED
  BY <1>1, <1>2 DEF OnApprovalGranted

(* approval.denied, approval.expired *)
LEMMA ApprovalRefusedType ==
    ASSUME NEW s \in RunState, NEW e \in Effects
    PROVE  OnApprovalRefused(s, e) \in RunState
<1> DEFINE r == SetEffect(s, e, "denied")
<1>1. r \in RunState
  BY SetEffectType DEF EffectStates
<1>2. [r EXCEPT !.pending_approvals = @ \ {e}] \in RunState
  <2> HIDE DEF r
  <2> QED BY <1>1 DEF RunState
<1> QED
  BY <1>2, AdvanceTurnType DEF OnApprovalRefused

-----------------------------------------------------------------------------
(* The runtime. *)

(* The types hold at the start. *)
LEMMA InitType == Init => TypeOK
<1> SUFFICES ASSUME Init PROVE TypeOK
  OBVIOUS
<1>1. st \in RunState
  BY NewRunType DEF Init
<1>2. /\ tool_of \in [Effects -> Tools \cup {NoTool}]
      /\ deadline \in [Effects -> Nat]
      /\ ran \in [Effects -> 0 .. 2]
      /\ consent \in [Effects -> {"nobody", "gateway", "human"}]
  BY DEF Init
<1>3. /\ pc \in Labels /\ pc \notin OnAnEffect
      /\ told \in Outcomes /\ cur \in Option(Effects)
  BY DEF Init, Labels, OnAnEffect, Option, Outcomes
<1> QED
  BY <1>1, <1>2, <1>3 DEF Init, TypeOK

(* The calls of the daemon's clients keep the types. *)
LEMMA CallsType ==
    TypeOK /\ Calls => TypeOK'
<1> SUFFICES ASSUME TypeOK, Calls PROVE TypeOK'
  OBVIOUS
<1> USE DEF TypeOK, Labels, OnAnEffect, Outcomes, Option, Emit, Goto, Quiet, Return,
        log, local, seen
<1>1. CASE Start
  BY RunCreatedType, NewRunType, BudgetsAssumption, <1>1 DEF Start
<1>2. CASE Resume
  BY <1>2 DEF Resume
<1>3. CASE DecideApproval
  BY <1>3 DEF DecideApproval, RunState
<1>4. CASE AnswerClarification
  BY MarksType, <1>4 DEF AnswerClarification
<1>5. CASE AmendBudget
  BY BudgetAmendedType, BudgetsAssumption, <1>5 DEF AmendBudget, RunState, RunStatuses
<1> QED
  BY <1>1, <1>2, <1>3, <1>4, <1>5 DEF Calls

(* The steps of resume and decide_approval keep the types. *)
LEMMA ResumeStepsType ==
    TypeOK /\ ResumeSteps => TypeOK'
<1> SUFFICES ASSUME TypeOK, ResumeSteps PROVE TypeOK'
  OBVIOUS
<1> USE DEF TypeOK, Labels, OnAnEffect, Outcomes, Option, Emit, Goto, Quiet, Return,
        log, local, seen
<1>1. CASE ReadClock
  BY TimeAssumption, <1>1 DEF ReadClock, RunState, Overdue
<1>2. CASE ExpireApproval
  BY ApprovalRefusedType, <1>2 DEF ExpireApproval
<1>3. CASE DecisionTooLate
  BY <1>3 DEF DecisionTooLate, Decided
<1>4. CASE GrantApproval
  BY ApprovalGrantedType, <1>4 DEF GrantApproval, Decided, RunState
<1>5. CASE DenyCheckpoint
  <2>1. cur \in Effects
    BY <1>5 DEF DenyCheckpoint, RunState
  <2> QED
    BY MarksType, <1>5, <2>1 DEF DenyCheckpoint, LogStep
<1>6. CASE DenyApproval
  BY ApprovalRefusedType, <1>6 DEF DenyApproval, Decided
<1>7. CASE ResumeBlocked
  BY <1>7 DEF ResumeBlocked
<1>8. CASE EmitRunResumed
  BY EndingsType, <1>8 DEF EmitRunResumed, EffectsIn
<1>9. CASE Redispatch
  BY <1>9 DEF Redispatch
<1>10. CASE EnterDrive
  BY <1>10 DEF EnterDrive
<1> QED
  BY <1>1, <1>2, <1>3, <1>4, <1>5, <1>6, <1>7, <1>8, <1>9, <1>10 DEF ResumeSteps

(* The steps of drive and call_model keep the types. *)
LEMMA DriveStepsType ==
    TypeOK /\ DriveSteps => TypeOK'
<1> SUFFICES ASSUME TypeOK, DriveSteps PROVE TypeOK'
  OBVIOUS
<1> USE DEF TypeOK, Labels, OnAnEffect, Outcomes, Option, Emit, Goto, Quiet, Return,
        log, local, seen
<1>1. CASE DeclareIntent
  BY MarksType, <1>1 DEF DeclareIntent, LogStep
<1>2. CASE TurnLimit
  BY EndingsType, <1>2 DEF TurnLimit, LogStep
<1>3. CASE DriveReturns
  BY <1>3 DEF DriveReturns, RunState, RunState, RunStatuses
<1>4. CASE Stalled
  BY EndingsType, <1>4 DEF Stalled, LogStep
<1>5. CASE ReturnFailed
  BY <1>5 DEF ReturnFailed
<1>6. CASE PeriodicCheckpoint
  BY MarksType, <1>6 DEF PeriodicCheckpoint, LogStep
<1>7. CASE SuspendForBudget
  BY RunSuspendedType, <1>7 DEF SuspendForBudget, LogStep, AwaitReasons
<1>8. CASE SampleEnv
  BY EnvSampledType, TimeAssumption, <1>8 DEF SampleEnv, LogStep
<1>9. CASE AssembleContext
  BY ContextAssembledType, <1>9 DEF AssembleContext, TaintLevels, TaintLevel
<1>10. CASE AssemblePanics
  BY <1>10 DEF AssemblePanics
<1>11. CASE AskClarification
  BY MarksType, <1>11 DEF AskClarification, LogStep
<1>12. CASE SuspendForAnswer
  BY RunSuspendedType, <1>12 DEF SuspendForAnswer, LogStep, AwaitReasons
<1>13. CASE Complete
  BY EndingsType, <1>13 DEF Complete, LogStep
<1>14. CASE CallModel
  BY <1>14 DEF CallModel, LogStep
<1>15. CASE ModelCallFails
  BY <1>15 DEF ModelCallFails
<1>16. CASE ModelResponds
  <2>1. PICK usage \in 0 .. 1 : Emit(OnModelResponded(st, usage))
    BY <1>16 DEF ModelResponds
  <2>2. st' \in RunState
    BY <2>1, MetersType
  <2>3. lines' \in Nat /\ pc' \in {"unpriced", "charge_model"}
    BY BoundAssumption, <1>16 DEF ModelResponds
  <2> QED
    BY <2>2, <2>3, <2>1, <1>16 DEF ModelResponds
<1>17. CASE ModelNotPriced
  BY EndingsType, <1>17 DEF ModelNotPriced, LogStep
<1>18. CASE ChargeModel
  BY MetersType, <1>18 DEF ChargeModel
<1>19. CASE UnparseablePlan
  BY EndingsType, <1>19 DEF UnparseablePlan, LogStep
<1>20. CASE PlanStep
  BY PlanStepType, <1>20 DEF PlanStep, LogStep
<1> QED
  BY <1>1, <1>2, <1>3, <1>4, <1>5, <1>6, <1>7, <1>8, <1>9, <1>10, <1>11, <1>12, <1>13,
     <1>14, <1>15, <1>16, <1>17, <1>18, <1>19, <1>20
  DEF DriveSteps

(* The steps of request_effect and dispatch_effect keep the types. *)
LEMMA EffectStepsType ==
    TypeOK /\ EffectSteps => TypeOK'
<1> SUFFICES ASSUME TypeOK, EffectSteps PROVE TypeOK'
  OBVIOUS
<1> USE DEF TypeOK, Labels, OnAnEffect, Outcomes, Option, Emit, Goto, Quiet, Return,
        log, local, seen
<1>1. CASE RequestEffect
  <2>1. PICK e \in FreshEffects(st) :
            /\ st' = OnToolRequested(st, e)
            /\ cur' = e
            /\ tool_of' = [tool_of EXCEPT ![e] = st.last_plan.tool]
    BY <1>1 DEF RequestEffect
  <2>2. e \in Effects
    BY DEF FreshEffects, EffectsIn
  <2>3. st' \in RunState
    BY <2>1, <2>2, EffectEventsType
  <2>4. st.last_plan.tool \in Tools
    BY <1>1 DEF RequestEffect, DecideRequestEffect, RunState, Plans
  <2>5. tool_of' \in [Effects -> Tools \cup {NoTool}] /\ cur' \in Effects
    BY <2>1, <2>2, <2>4
  <2>6. consent' \in [Effects -> {"nobody", "gateway", "human"}]
    BY <1>1, <2>1 DEF RequestEffect
  <2>7. gated' \subseteq Effects
    BY <1>1, <2>1, <2>2 DEF RequestEffect
  <2> QED
    BY <1>1, <2>3, <2>5, <2>6, <2>7 DEF RequestEffect
<1>2. CASE RefuseCheckpoint
  BY MarksType, <1>2 DEF RefuseCheckpoint, LogStep
<1>3. CASE RefuseResult
  BY ToolResultType, <1>3 DEF RefuseResult, TaintLevels
<1>4. CASE RefuseRun
  BY EndingsType, <1>4 DEF RefuseRun
<1>5. CASE HoldCheckpoint
  BY MarksType, <1>5 DEF HoldCheckpoint, LogStep
<1>6. CASE HoldRequest
  BY LedgersType, TimeAssumption, <1>6 DEF HoldRequest, RunState
<1>7. CASE HoldRun
  BY RunSuspendedType, <1>7 DEF HoldRun, AwaitReasons
<1>8. CASE PreWriteCheckpoint
  BY MarksType, <1>8 DEF PreWriteCheckpoint, LogStep
<1>9. CASE EmitDispatched
  BY EffectEventsType, <1>9 DEF EmitDispatched
<1>10. CASE Execute
  BY <1>10 DEF Execute
<1>11. CASE ToolResult
  BY ToolResultType, <1>11 DEF ToolResult, TaintLevels
<1>12. CASE EmitArtifact
  BY LedgersType, <1>12 DEF EmitArtifact, LogStep
<1>13. CASE ChargeTool
  BY MetersType, <1>13 DEF ChargeTool
<1>14. CASE EffectDone
  BY <1>14 DEF EffectDone
<1> QED
  BY <1>1, <1>2, <1>3, <1>4, <1>5, <1>6, <1>7, <1>8, <1>9, <1>10, <1>11, <1>12, <1>13,
     <1>14
  DEF EffectSteps

(* Every variable of the runtime always has its type, at any number of effects
   and turns and whatever crashes. *)
THEOREM TypeCorrect == Spec => []TypeOK
<1>1. TypeOK /\ [Next]_vars => TypeOK'
  <2> SUFFICES ASSUME TypeOK, [Next]_vars PROVE TypeOK'
    OBVIOUS
  <2>1. CASE Crash
    BY <2>1 DEF Crash, Return, TypeOK, Labels, OnAnEffect, Outcomes, Option, log, seen
  <2>2. CASE UNCHANGED vars
    BY <2>2 DEF vars, log, local, seen, TypeOK
  <2> QED
    BY <2>1, <2>2, CallsType, ResumeStepsType, DriveStepsType, EffectStepsType DEF Next, Daemon
<1> QED
  BY InitType, <1>1, PTL DEF Spec

-----------------------------------------------------------------------------
(* The side effects of a run. *)

(* Nothing about effects changes between two states of the fold. *)
SameEffects(s, t) ==
    t.pending_effects = s.pending_effects /\ t.pending_approvals = s.pending_approvals

(* The events that leave every effect and every approval as it is. *)
LEMMA QuietEvents ==
    ASSUME NEW s \in RunState, NEW x, NEW n
    PROVE  /\ SameEffects(s, OnIntentDeclared(s))
           /\ SameEffects(s, OnEnvSampled(s, n))
           /\ SameEffects(s, OnContextAssembled(s, x))
           /\ SameEffects(s, OnModelResponded(s, n))
           /\ SameEffects(s, OnPlanStep(s, x))
           /\ SameEffects(s, OnCostCharged(s, n))
           /\ SameEffects(s, OnBudgetAmended(s, x))
           /\ SameEffects(s, OnCheckpoint(s))
           /\ SameEffects(s, OnRunCompleted(s, x))
           /\ SameEffects(s, OnRunSuspended(s, x))
           /\ SameEffects(s, OnRunResumed(s))
           /\ SameEffects(s, OnRunFailed(s))
           /\ SameEffects(s, OnClarificationRequested(s))
           /\ SameEffects(s, OnClarificationAnswered(s))
           /\ SameEffects(s, OnArtifactEmitted(s, x))
           /\ SameEffects(s, s)
<1> USE DEF SameEffects, RunState
<1>1. SameEffects(s, OnIntentDeclared(s)) /\ SameEffects(s, OnCheckpoint(s)) /\ SameEffects(s, s)
  BY DEF OnIntentDeclared, OnCheckpoint
<1>2. SameEffects(s, OnEnvSampled(s, n))
  BY DEF OnEnvSampled
<1>3. SameEffects(s, OnContextAssembled(s, x)) /\ SameEffects(s, OnPlanStep(s, x))
  BY DEF OnContextAssembled, OnPlanStep
<1>4. SameEffects(s, OnModelResponded(s, n)) /\ SameEffects(s, OnCostCharged(s, n))
  BY DEF OnModelResponded, OnCostCharged
<1>5. SameEffects(s, OnBudgetAmended(s, x)) /\ SameEffects(s, OnRunCompleted(s, x))
  BY DEF OnBudgetAmended, OnRunCompleted
<1>6. SameEffects(s, OnRunSuspended(s, x)) /\ SameEffects(s, OnRunResumed(s))
  BY DEF OnRunSuspended, OnRunResumed
<1>7. SameEffects(s, OnRunFailed(s)) /\ SameEffects(s, OnArtifactEmitted(s, x))
  BY DEF OnRunFailed, OnArtifactEmitted
<1>8. SameEffects(s, OnClarificationRequested(s)) /\ SameEffects(s, OnClarificationAnswered(s))
  BY DEF OnClarificationRequested, OnClarificationAnswered
<1> QED
  BY <1>1, <1>2, <1>3, <1>4, <1>5, <1>6, <1>7, <1>8

(* Ending the turn does not touch an effect. *)
LEMMA AdvanceTurnKeepsEffects ==
    ASSUME NEW s \in RunState
    PROVE  SameEffects(s, AdvanceTurn(s))
  BY DEF SameEffects, AdvanceTurn, RunState

(* A request, a dispatch and an approval.requested move one effect. *)
LEMMA EffectEvents ==
    ASSUME NEW s \in RunState, NEW e \in Effects
    PROVE  /\ OnToolRequested(s, e).pending_effects = [s.pending_effects EXCEPT ![e] = "requested"]
           /\ OnToolRequested(s, e).pending_approvals = s.pending_approvals
           /\ OnEffectDispatched(s, e).pending_effects = [s.pending_effects EXCEPT ![e] = "dispatched"]
           /\ OnEffectDispatched(s, e).pending_approvals = s.pending_approvals
           /\ OnApprovalRequested(s, e).pending_effects = s.pending_effects
           /\ OnApprovalRequested(s, e).pending_approvals = s.pending_approvals \cup {e}
  BY DEF OnToolRequested, OnEffectDispatched, OnApprovalRequested, SetEffect, RunState

(* A refused call ends its effect as denied, *)
LEMMA RefusedResultEvent ==
    ASSUME NEW s \in RunState, NEW e \in Effects, NEW t \in TaintLevels
    PROVE  /\ OnToolResult(s, e, "denied", t).pending_effects = [s.pending_effects EXCEPT ![e] = "denied"]
           /\ OnToolResult(s, e, "denied", t).pending_approvals = s.pending_approvals
<1> DEFINE r == SetEffect(s, e, "denied")
           q == [r EXCEPT !.taint = Join(@, t)]
<1>1. r \in RunState /\ r.pending_effects = [s.pending_effects EXCEPT ![e] = "denied"]
      /\ r.pending_approvals = s.pending_approvals
  BY SetEffectType DEF SetEffect, EffectStates, RunState
<1>2. q \in RunState /\ SameEffects(r, q)
  <2> HIDE DEF r
  <2> QED BY <1>1, JoinType DEF RunState, SameEffects
<1>3. OnToolResult(s, e, "denied", t) = AdvanceTurn(q)
  BY DEF OnToolResult
<1>4. SameEffects(q, OnToolResult(s, e, "denied", t))
  <2> HIDE DEF q
  <2> QED BY <1>2, <1>3, AdvanceTurnKeepsEffects
<1> QED
  <2> HIDE DEF q, r
  <2> QED BY <1>1, <1>2, <1>4 DEF SameEffects

(* and one that was carried out, well or not, as settled. *)
LEMMA SettledResultEvent ==
    ASSUME NEW s \in RunState, NEW e \in Effects, NEW t \in TaintLevels,
           NEW status \in {"ok", "error"}
    PROVE  /\ OnToolResult(s, e, status, t).pending_effects = [s.pending_effects EXCEPT ![e] = "settled"]
           /\ OnToolResult(s, e, status, t).pending_approvals = s.pending_approvals
<1> DEFINE r == SetEffect(s, e, "settled")
           q == [r EXCEPT !.taint = Join(@, t)]
<1>1. r \in RunState /\ r.pending_effects = [s.pending_effects EXCEPT ![e] = "settled"]
      /\ r.pending_approvals = s.pending_approvals
  BY SetEffectType DEF SetEffect, EffectStates, RunState
<1>2. q \in RunState /\ SameEffects(r, q)
  <2> HIDE DEF r
  <2> QED BY <1>1, JoinType DEF RunState, SameEffects
<1>3. OnToolResult(s, e, status, t) = AdvanceTurn(q)
  BY DEF OnToolResult
<1>4. SameEffects(q, OnToolResult(s, e, status, t))
  <2> HIDE DEF q
  <2> QED BY <1>2, <1>3, AdvanceTurnKeepsEffects
<1> QED
  <2> HIDE DEF q, r
  <2> QED BY <1>1, <1>2, <1>4 DEF SameEffects

(* The end of an open approval: granted, or denied and expired alike. *)
LEMMA ApprovalEvents ==
    ASSUME NEW s \in RunState, NEW e \in s.pending_approvals
    PROVE  /\ s.pending_effects[e] = "requested" =>
                OnApprovalGranted(s, e).pending_effects = [s.pending_effects EXCEPT ![e] = "approved"]
           /\ OnApprovalGranted(s, e).pending_approvals = s.pending_approvals \ {e}
           /\ OnApprovalRefused(s, e).pending_effects = [s.pending_effects EXCEPT ![e] = "denied"]
           /\ OnApprovalRefused(s, e).pending_approvals = s.pending_approvals \ {e}
<1> DEFINE r == SetEffect(s, e, "denied")
           q == [r EXCEPT !.pending_approvals = @ \ {e}]
<1>0. e \in Effects
  BY DEF RunState
<1>1. r \in RunState /\ r.pending_effects = [s.pending_effects EXCEPT ![e] = "denied"]
      /\ r.pending_approvals = s.pending_approvals
  BY <1>0, SetEffectType DEF SetEffect, EffectStates, RunState
<1>2. q \in RunState /\ q.pending_effects = r.pending_effects
      /\ q.pending_approvals = r.pending_approvals \ {e}
  <2> HIDE DEF r
  <2> QED BY <1>1 DEF RunState
<1>3. OnApprovalRefused(s, e) = AdvanceTurn(q)
  BY DEF OnApprovalRefused
<1>4. SameEffects(q, OnApprovalRefused(s, e))
  <2> HIDE DEF q
  <2> QED BY <1>2, <1>3, AdvanceTurnKeepsEffects
<1>5. /\ OnApprovalRefused(s, e).pending_effects = [s.pending_effects EXCEPT ![e] = "denied"]
      /\ OnApprovalRefused(s, e).pending_approvals = s.pending_approvals \ {e}
  <2> HIDE DEF q, r
  <2> QED BY <1>1, <1>2, <1>4 DEF SameEffects
<1>6. /\ s.pending_effects[e] = "requested" =>
            OnApprovalGranted(s, e).pending_effects = [s.pending_effects EXCEPT ![e] = "approved"]
      /\ OnApprovalGranted(s, e).pending_approvals = s.pending_approvals \ {e}
  BY <1>0 DEF OnApprovalGranted, SetEffect, RunState
<1> QED
  BY <1>5, <1>6

(* Whatever policy.toml says, the structural gates hold a call back: it is
   never dispatched without a human. *)
LEMMA GatedIsNotDispatched ==
    ASSUME NEW tool \in Tools, StructurallyGated(tool)
    PROVE  Verdict(tool) # "dispatch"
<1> DEFINE ruling == Judge(Policy, tool, Manifest[tool], st.taint)
<1>1. ruling.kind \in {"deny", "require_approval"}
  <2> DEFINE m == IF Manifest[tool] = None THEN StrictestDefault ELSE Manifest[tool]
             own == Evaluate(Policy, tool, m)
  <2>1. ruling = Tighten(own, 3) \/ ruling = Tighten(own, 2)
    BY DEF Judge, StructurallyGated, Class
  <2>2. \A floor : Tighten(own, floor).kind \in {"deny", "require_approval"}
    <3> HIDE DEF own
    <3> QED BY DEF Tighten, RequireApproval
  <2> HIDE DEF ruling, own
  <2> QED
    BY <2>1, <2>2
<1>2. \A class, mode, est, b, used :
         ruling.kind = "require_approval" => Finish(ruling, class, mode, est, b, used) # "dispatch"
  <2> HIDE DEF ruling
  <2> QED BY DEF Finish
<1>3. ruling.kind = "deny" => Verdict(tool) = "deny"
  BY DEF Verdict, Admit
<1>4. ruling.kind = "require_approval" => Verdict(tool) # "dispatch"
  <2> DEFINE m == IF Manifest[tool] = None THEN StrictestDefault ELSE Manifest[tool]
             answer == Admit(TRUE, Policy, tool, Manifest[tool], st.taint, "live", st.budget, st.budget_used)
  <2>1. ruling.kind = "require_approval" =>
           answer = "need_preview"
           \/ answer = Finish(ruling, m.class, "live", None, st.budget, st.budget_used)
    BY DEF Admit
  <2>2. Verdict(tool) = IF answer = "need_preview"
           THEN Finish(ruling, Class(tool), "live", None, st.budget, st.budget_used)
           ELSE answer
    BY DEF Verdict
  <2> HIDE DEF ruling, answer, m
  <2> QED
    BY <1>2, <2>1, <2>2
<1> QED
  BY <1>1, <1>3, <1>4

-----------------------------------------------------------------------------
(* The steps. *)

SameWorld == UNCHANGED <<ran, consent, refused, gated>>

(* A step that touches no effect keeps the Log in agreement with the world. *)
LEMMA LogFrame ==
    ASSUME LogAgrees, SameEffects(st, st'), SameWorld, logged => logged'
    PROVE  LogAgrees'
  BY DEF LogAgrees, SameEffects, SameWorld

(* The steps that leave every effect and every approval as it is. *)
QuietSteps ==
    \/ Resume \/ DecideApproval \/ AnswerClarification \/ AmendBudget \/ ReadClock
    \/ DecisionTooLate \/ DenyCheckpoint \/ ResumeBlocked \/ EmitRunResumed \/ Redispatch
    \/ EnterDrive \/ DeclareIntent \/ TurnLimit \/ DriveReturns \/ Stalled
    \/ ReturnFailed \/ PeriodicCheckpoint \/ SuspendForBudget \/ SampleEnv \/ AssembleContext
    \/ AssemblePanics \/ AskClarification \/ SuspendForAnswer \/ Complete \/ CallModel
    \/ ModelCallFails \/ ModelResponds \/ ModelNotPriced \/ ChargeModel \/ UnparseablePlan
    \/ PlanStep \/ RefuseCheckpoint \/ RefuseRun \/ HoldCheckpoint \/ HoldRun
    \/ PreWriteCheckpoint \/ EmitArtifact \/ ChargeTool \/ EffectDone \/ Crash

(* They do, and change nothing in the world. *)
LEMMA QuietStepsChangeNothing ==
    ASSUME TypeOK, QuietSteps
    PROVE  SameEffects(st, st') /\ SameWorld /\ (logged => logged')
<1> USE DEF Emit, Goto, Quiet, Return, SameWorld, log, local, seen
<1>0. st \in RunState
  BY DEF TypeOK
<1>1. CASE Resume
  BY <1>0, <1>1, QuietEvents DEF Resume
<1>2. CASE DecideApproval
  BY <1>0, <1>2, QuietEvents DEF DecideApproval
<1>3. CASE AnswerClarification
  BY <1>0, <1>3, QuietEvents DEF AnswerClarification
<1>4. CASE AmendBudget
  BY <1>0, <1>4, QuietEvents DEF AmendBudget
<1>5. CASE ReadClock
  BY <1>0, <1>5, QuietEvents DEF ReadClock
<1>6. CASE DecisionTooLate
  BY <1>0, <1>6, QuietEvents DEF DecisionTooLate, Decided
<1>7. CASE DenyCheckpoint
  BY <1>0, <1>7, QuietEvents DEF DenyCheckpoint, LogStep
<1>8. CASE ResumeBlocked
  BY <1>0, <1>8, QuietEvents DEF ResumeBlocked
<1>9. CASE EmitRunResumed
  BY <1>0, <1>9, QuietEvents DEF EmitRunResumed
<1>10. CASE Redispatch
  BY <1>0, <1>10, QuietEvents DEF Redispatch
<1>11. CASE EnterDrive
  BY <1>0, <1>11, QuietEvents DEF EnterDrive
<1>12. CASE DeclareIntent
  BY <1>0, <1>12, QuietEvents DEF DeclareIntent, LogStep
<1>13. CASE TurnLimit
  BY <1>0, <1>13, QuietEvents DEF TurnLimit, LogStep
<1>14. CASE DriveReturns
  BY <1>0, <1>14, QuietEvents DEF DriveReturns
<1>15. CASE Stalled
  BY <1>0, <1>15, QuietEvents DEF Stalled, LogStep
<1>16. CASE ReturnFailed
  BY <1>0, <1>16, QuietEvents DEF ReturnFailed
<1>17. CASE PeriodicCheckpoint
  BY <1>0, <1>17, QuietEvents DEF PeriodicCheckpoint, LogStep
<1>18. CASE SuspendForBudget
  BY <1>0, <1>18, QuietEvents DEF SuspendForBudget, LogStep
<1>19. CASE SampleEnv
  BY <1>0, <1>19, QuietEvents DEF SampleEnv, LogStep
<1>20. CASE AssembleContext
  BY <1>0, <1>20, QuietEvents DEF AssembleContext
<1>21. CASE AssemblePanics
  BY <1>0, <1>21, QuietEvents DEF AssemblePanics
<1>22. CASE AskClarification
  BY <1>0, <1>22, QuietEvents DEF AskClarification, LogStep
<1>23. CASE SuspendForAnswer
  BY <1>0, <1>23, QuietEvents DEF SuspendForAnswer, LogStep
<1>24. CASE Complete
  BY <1>0, <1>24, QuietEvents DEF Complete, LogStep
<1>25. CASE CallModel
  BY <1>0, <1>25, QuietEvents DEF CallModel, LogStep
<1>26. CASE ModelCallFails
  BY <1>0, <1>26, QuietEvents DEF ModelCallFails
<1>27. CASE ModelResponds
  BY <1>0, <1>27, QuietEvents DEF ModelResponds
<1>28. CASE ModelNotPriced
  BY <1>0, <1>28, QuietEvents DEF ModelNotPriced, LogStep
<1>29. CASE ChargeModel
  BY <1>0, <1>29, QuietEvents DEF ChargeModel
<1>30. CASE UnparseablePlan
  BY <1>0, <1>30, QuietEvents DEF UnparseablePlan, LogStep
<1>31. CASE PlanStep
  BY <1>0, <1>31, QuietEvents DEF PlanStep, LogStep
<1>32. CASE RefuseCheckpoint
  BY <1>0, <1>32, QuietEvents DEF RefuseCheckpoint, LogStep
<1>33. CASE RefuseRun
  BY <1>0, <1>33, QuietEvents DEF RefuseRun
<1>34. CASE HoldCheckpoint
  BY <1>0, <1>34, QuietEvents DEF HoldCheckpoint, LogStep
<1>35. CASE HoldRun
  BY <1>0, <1>35, QuietEvents DEF HoldRun
<1>36. CASE PreWriteCheckpoint
  BY <1>0, <1>36, QuietEvents DEF PreWriteCheckpoint, LogStep
<1>37. CASE EmitArtifact
  BY <1>0, <1>37, QuietEvents DEF EmitArtifact, LogStep
<1>38. CASE ChargeTool
  BY <1>0, <1>38, QuietEvents DEF ChargeTool
<1>39. CASE EffectDone
  BY <1>0, <1>39, QuietEvents DEF EffectDone
<1>40. CASE Crash
  BY <1>0, <1>40, QuietEvents DEF Crash
<1> QED
  BY <1>1, <1>2, <1>3, <1>4, <1>5, <1>6, <1>7, <1>8, <1>9, <1>10, <1>11,
     <1>12, <1>13, <1>14, <1>15, <1>16, <1>17, <1>18, <1>19, <1>20, <1>21,
     <1>22, <1>23, <1>24, <1>25, <1>26, <1>27, <1>28, <1>29, <1>30, <1>31,
     <1>32, <1>33, <1>34, <1>35, <1>36, <1>37, <1>38, <1>39, <1>40 DEF
     QuietSteps

(* So the Log goes on agreeing with the world. *)
LEMMA QuietStepsAgree ==
    ASSUME TypeOK, LogAgrees, QuietSteps
    PROVE  LogAgrees' /\ SameEffects(st, st') /\ SameWorld
  BY QuietStepsChangeNothing, LogFrame

(* The labels at which the call knows nothing of an effect. *)
Calm == {"idle", "declare_intent", "resume", "drive", "drive_failed", "ask", "model_call",
         "unpriced", "charge_model", "refuse_run", "hold_run"}

(* A step into one of them that leaves no effect to do. *)
LEMMA CalmStep ==
    ASSUME pc' \in Calm, todo' = {}
    PROVE  CallAgrees'
  BY DEF CallAgrees, Calm, OnTodo

(* The calls touch no effect; a new run has none. *)
LEMMA CallsAgree ==
    TypeOK /\ AllAgree /\ Calls => AllAgree'
<1> SUFFICES ASSUME TypeOK, LogAgrees, CallAgrees, Calls PROVE LogAgrees' /\ CallAgrees'
  BY DEF AllAgree
<1>0. st \in RunState /\ (pc \notin OnTodo \cup {"expire"} => todo = {})
  BY DEF TypeOK, CallAgrees
<1> USE <1>0 DEF Emit, Goto, Quiet, Return, SameWorld, Calm, OnTodo, log, local, seen
<1>1. CASE Start
  <2>1. /\ pc' = "declare_intent" /\ todo' = {} /\ logged' /\ SameWorld
        /\ st'.pending_effects = NewRun.pending_effects
        /\ st'.pending_approvals = {}
        /\ st.pending_effects = NewRun.pending_effects
    BY <1>1 DEF Start, OnRunCreated, NewRun, LogAgrees
  <2>2. LogAgrees'
    BY <2>1 DEF LogAgrees
  <2> QED
    BY <2>1, <2>2, CalmStep
<1>2. CASE Resume
  <2>1. pc' \in Calm /\ todo' = {}
    BY <1>2 DEF Resume
  <2> QED
    BY <1>2, <2>1, QuietStepsAgree, CalmStep DEF QuietSteps
<1>3. CASE DecideApproval
  <2>1. pc' \in Calm /\ todo' = {}
    BY <1>3 DEF DecideApproval
  <2> QED
    BY <1>3, <2>1, QuietStepsAgree, CalmStep DEF QuietSteps
<1>4. CASE AnswerClarification
  <2>1. pc' \in Calm /\ todo' = {}
    BY <1>4 DEF AnswerClarification
  <2> QED
    BY <1>4, <2>1, QuietStepsAgree, CalmStep DEF QuietSteps
<1>5. CASE AmendBudget
  <2>1. pc' \in Calm /\ todo' = {}
    BY <1>5 DEF AmendBudget
  <2> QED
    BY <1>5, <2>1, QuietStepsAgree, CalmStep DEF QuietSteps
<1> QED
  BY <1>1, <1>2, <1>3, <1>4, <1>5 DEF Calls

(* The steps of resume and decide_approval. *)
LEMMA ResumeStepsAgree ==
    TypeOK /\ AllAgree /\ ResumeSteps => AllAgree'
<1> SUFFICES ASSUME TypeOK, LogAgrees, CallAgrees, ResumeSteps PROVE LogAgrees' /\ CallAgrees'
  BY DEF AllAgree
<1>0. st \in RunState /\ (pc \notin OnTodo \cup {"expire"} => todo = {})
  BY DEF TypeOK, CallAgrees
<1> USE <1>0 DEF Emit, Goto, Quiet, Return, SameWorld, Calm, OnTodo, log, local, seen
<1>1. CASE ReadClock
  <2>1. LogAgrees' /\ SameEffects(st, st') /\ SameWorld
    BY <1>1, QuietStepsAgree DEF QuietSteps
  <2>2. CallAgrees'
    BY <1>1, <2>1 DEF ReadClock, Overdue, CallAgrees, SameEffects, EffectsIn
  <2> QED
    BY <2>1, <2>2
<1>2. CASE ExpireApproval
  <2>1. PICK e \in todo :
            /\ st' = OnApprovalRefused(st, e) /\ logged'
            /\ todo' = todo \ {e}
            /\ refused' = refused \cup {e}
    BY <1>2 DEF ExpireApproval
  <2>2. /\ pc = "expire" /\ pc' = "expire" /\ todo \subseteq st.pending_approvals
        /\ UNCHANGED <<cur, ran, consent, gated>>
    BY <1>2 DEF ExpireApproval, CallAgrees
  <2>3. e \in st.pending_approvals /\ e \in Effects
    BY <2>1, <2>2 DEF RunState
  <2>4. /\ st'.pending_effects = [st.pending_effects EXCEPT ![e] = "denied"]
        /\ st'.pending_approvals = st.pending_approvals \ {e}
    BY <2>1, <2>3, ApprovalEvents
  <2>5. LogAgrees'
    BY <2>1, <2>2, <2>3, <2>4 DEF LogAgrees, RunState
  <2>6. CallAgrees'
    BY <2>1, <2>2, <2>4 DEF CallAgrees
  <2> QED
    BY <2>5, <2>6
<1>3. CASE DecisionTooLate
  <2>1. pc' \in Calm /\ todo' = {}
    BY <1>3 DEF DecisionTooLate, Decided
  <2> QED
    BY <1>3, <2>1, QuietStepsAgree, CalmStep DEF QuietSteps
<1>4. CASE GrantApproval
  <2>1. /\ st' = OnApprovalGranted(st, cur) /\ logged' /\ cur \in st.pending_approvals
        /\ consent' = [consent EXCEPT ![cur] = "human"]
        /\ UNCHANGED <<ran, refused, gated>> /\ pc' = "resume" /\ todo' = {}
    BY <1>4 DEF GrantApproval, Decided
  <2>2. cur \in Effects /\ st.pending_effects[cur] = "requested" /\ consent \in [Effects -> {"nobody", "gateway", "human"}]
    BY <2>1 DEF LogAgrees, RunState, TypeOK
  <2>3. /\ st'.pending_effects = [st.pending_effects EXCEPT ![cur] = "approved"]
        /\ st'.pending_approvals = st.pending_approvals \ {cur}
    BY <2>1, <2>2, ApprovalEvents
  <2>4. LogAgrees'
    BY <2>1, <2>2, <2>3 DEF LogAgrees, RunState
  <2> QED
    BY <2>1, <2>4, CalmStep
<1>5. CASE DenyCheckpoint
  <2>1. LogAgrees' /\ SameEffects(st, st') /\ SameWorld
    BY <1>5, QuietStepsAgree DEF QuietSteps
  <2>2. CallAgrees'
    BY <1>5, <2>1 DEF DenyCheckpoint, LogStep, CallAgrees, SameEffects, EffectsIn
  <2> QED
    BY <2>1, <2>2
<1>6. CASE DenyApproval
  <2>1. /\ st' = OnApprovalRefused(st, cur) /\ logged' /\ cur \in st.pending_approvals
        /\ refused' = refused \cup {cur}
        /\ UNCHANGED <<ran, consent, gated>> /\ pc' = "resume" /\ todo' = {}
    BY <1>6 DEF DenyApproval, Decided, CallAgrees
  <2>2. cur \in Effects
    BY <2>1 DEF RunState
  <2>3. /\ st'.pending_effects = [st.pending_effects EXCEPT ![cur] = "denied"]
        /\ st'.pending_approvals = st.pending_approvals \ {cur}
    BY <2>1, ApprovalEvents
  <2>4. LogAgrees'
    BY <2>1, <2>2, <2>3 DEF LogAgrees, RunState
  <2> QED
    BY <2>1, <2>4, CalmStep
<1>7. CASE ResumeBlocked
  <2>1. pc' \in Calm /\ todo' = {}
    BY <1>7 DEF ResumeBlocked
  <2> QED
    BY <1>7, <2>1, QuietStepsAgree, CalmStep DEF QuietSteps
<1>8. CASE EmitRunResumed
  <2>1. LogAgrees' /\ SameEffects(st, st') /\ SameWorld
    BY <1>8, QuietStepsAgree DEF QuietSteps
  <2>2. CallAgrees'
    BY <1>8, <2>1 DEF EmitRunResumed, CallAgrees, SameEffects, EffectsIn
  <2> QED
    BY <2>1, <2>2
<1>9. CASE Redispatch
  <2>1. LogAgrees' /\ SameEffects(st, st') /\ SameWorld
    BY <1>9, QuietStepsAgree DEF QuietSteps
  <2>2. CallAgrees'
    BY <1>9, <2>1 DEF Redispatch, CallAgrees, LogAgrees, SameEffects, EffectsIn
  <2> QED
    BY <2>1, <2>2
<1>10. CASE EnterDrive
  <2>1. pc' \in Calm /\ todo' = {}
    BY <1>10 DEF EnterDrive
  <2> QED
    BY <1>10, <2>1, QuietStepsAgree, CalmStep DEF QuietSteps
<1> QED
  BY <1>1, <1>2, <1>3, <1>4, <1>5, <1>6, <1>7, <1>8, <1>9, <1>10 DEF ResumeSteps

(* The steps of drive and call_model touch no effect. *)
LEMMA DriveStepsAgree ==
    TypeOK /\ AllAgree /\ DriveSteps => AllAgree'
<1> SUFFICES ASSUME TypeOK, LogAgrees, CallAgrees, DriveSteps PROVE LogAgrees' /\ CallAgrees'
  BY DEF AllAgree
<1>0. st \in RunState /\ (pc \notin OnTodo \cup {"expire"} => todo = {})
  BY DEF TypeOK, CallAgrees
<1> USE <1>0 DEF Emit, Goto, Quiet, Return, SameWorld, Calm, OnTodo, log, local, seen
<1>1. CASE DeclareIntent
  <2>1. pc' \in Calm /\ todo' = {}
    BY <1>1 DEF DeclareIntent, LogStep
  <2> QED
    BY <1>1, <2>1, QuietStepsAgree, CalmStep DEF QuietSteps
<1>2. CASE TurnLimit
  <2>1. pc' \in Calm /\ todo' = {}
    BY <1>2 DEF TurnLimit, LogStep
  <2> QED
    BY <1>2, <2>1, QuietStepsAgree, CalmStep DEF QuietSteps
<1>3. CASE DriveReturns
  <2>1. pc' \in Calm /\ todo' = {}
    BY <1>3 DEF DriveReturns
  <2> QED
    BY <1>3, <2>1, QuietStepsAgree, CalmStep DEF QuietSteps
<1>4. CASE Stalled
  <2>1. pc' \in Calm /\ todo' = {}
    BY <1>4 DEF Stalled, LogStep
  <2> QED
    BY <1>4, <2>1, QuietStepsAgree, CalmStep DEF QuietSteps
<1>5. CASE ReturnFailed
  <2>1. pc' \in Calm /\ todo' = {}
    BY <1>5 DEF ReturnFailed
  <2> QED
    BY <1>5, <2>1, QuietStepsAgree, CalmStep DEF QuietSteps
<1>6. CASE PeriodicCheckpoint
  <2>1. pc' \in Calm /\ todo' = {}
    BY <1>6 DEF PeriodicCheckpoint, LogStep
  <2> QED
    BY <1>6, <2>1, QuietStepsAgree, CalmStep DEF QuietSteps
<1>7. CASE SuspendForBudget
  <2>1. pc' \in Calm /\ todo' = {}
    BY <1>7 DEF SuspendForBudget, LogStep
  <2> QED
    BY <1>7, <2>1, QuietStepsAgree, CalmStep DEF QuietSteps
<1>8. CASE SampleEnv
  <2>1. pc' \in Calm /\ todo' = {}
    BY <1>8 DEF SampleEnv, LogStep
  <2> QED
    BY <1>8, <2>1, QuietStepsAgree, CalmStep DEF QuietSteps
<1>9. CASE AssembleContext
  <2>1. pc' \in Calm /\ todo' = {}
    BY <1>9 DEF AssembleContext
  <2> QED
    BY <1>9, <2>1, QuietStepsAgree, CalmStep DEF QuietSteps
<1>10. CASE AssemblePanics
  <2>1. pc' \in Calm /\ todo' = {}
    BY <1>10 DEF AssemblePanics
  <2> QED
    BY <1>10, <2>1, QuietStepsAgree, CalmStep DEF QuietSteps
<1>11. CASE AskClarification
  <2>1. pc' \in Calm /\ todo' = {}
    BY <1>11 DEF AskClarification, LogStep
  <2> QED
    BY <1>11, <2>1, QuietStepsAgree, CalmStep DEF QuietSteps
<1>12. CASE SuspendForAnswer
  <2>1. pc' \in Calm /\ todo' = {}
    BY <1>12 DEF SuspendForAnswer, LogStep
  <2> QED
    BY <1>12, <2>1, QuietStepsAgree, CalmStep DEF QuietSteps
<1>13. CASE Complete
  <2>1. pc' \in Calm /\ todo' = {}
    BY <1>13 DEF Complete, LogStep
  <2> QED
    BY <1>13, <2>1, QuietStepsAgree, CalmStep DEF QuietSteps
<1>14. CASE CallModel
  <2>1. pc' \in Calm /\ todo' = {}
    BY <1>14 DEF CallModel, LogStep
  <2> QED
    BY <1>14, <2>1, QuietStepsAgree, CalmStep DEF QuietSteps
<1>15. CASE ModelCallFails
  <2>1. pc' \in Calm /\ todo' = {}
    BY <1>15 DEF ModelCallFails
  <2> QED
    BY <1>15, <2>1, QuietStepsAgree, CalmStep DEF QuietSteps
<1>16. CASE ModelResponds
  <2>1. pc' \in Calm /\ todo' = {}
    BY <1>16 DEF ModelResponds
  <2> QED
    BY <1>16, <2>1, QuietStepsAgree, CalmStep DEF QuietSteps
<1>17. CASE ModelNotPriced
  <2>1. pc' \in Calm /\ todo' = {}
    BY <1>17 DEF ModelNotPriced, LogStep
  <2> QED
    BY <1>17, <2>1, QuietStepsAgree, CalmStep DEF QuietSteps
<1>18. CASE ChargeModel
  <2>1. pc' \in Calm /\ todo' = {}
    BY <1>18 DEF ChargeModel
  <2> QED
    BY <1>18, <2>1, QuietStepsAgree, CalmStep DEF QuietSteps
<1>19. CASE UnparseablePlan
  <2>1. pc' \in Calm /\ todo' = {}
    BY <1>19 DEF UnparseablePlan, LogStep
  <2> QED
    BY <1>19, <2>1, QuietStepsAgree, CalmStep DEF QuietSteps
<1>20. CASE PlanStep
  <2>1. pc' \in Calm /\ todo' = {}
    BY <1>20 DEF PlanStep, LogStep
  <2> QED
    BY <1>20, <2>1, QuietStepsAgree, CalmStep DEF QuietSteps
<1> QED
  BY <1>1, <1>2, <1>3, <1>4, <1>5, <1>6, <1>7, <1>8, <1>9, <1>10, <1>11, <1>12, <1>13,
     <1>14, <1>15, <1>16, <1>17, <1>18, <1>19, <1>20
  DEF DriveSteps

(* The steps of request_effect and dispatch_effect. *)
LEMMA EffectStepsAgree ==
    TypeOK /\ AllAgree /\ EffectSteps => AllAgree'
<1> SUFFICES ASSUME TypeOK, LogAgrees, CallAgrees, EffectSteps PROVE LogAgrees' /\ CallAgrees'
  BY DEF AllAgree
<1>0. st \in RunState /\ (pc \notin OnTodo \cup {"expire"} => todo = {})
  BY DEF TypeOK, CallAgrees
<1> USE <1>0 DEF Emit, Goto, Quiet, Return, SameWorld, Calm, OnTodo, log, local, seen
<1>1. CASE RequestEffect
  <2>1. PICK e \in FreshEffects(st) :
            /\ st' = OnToolRequested(st, e) /\ logged'
            /\ cur' = e
            /\ gated' = IF StructurallyGated(st.last_plan.tool) THEN gated \cup {e} ELSE gated
            /\ \/ pc' \in {"refuse", "hold"} /\ consent' = consent
               \/ /\ Verdict(st.last_plan.tool) = "dispatch" /\ pc' = "dispatch"
                  /\ consent' = [consent EXCEPT ![e] = "gateway"]
    BY <1>1 DEF RequestEffect
  <2>2. e \in Effects /\ st.pending_effects[e] = "absent"
    BY DEF FreshEffects, EffectsIn
  <2>3. /\ consent \in [Effects -> {"nobody", "gateway", "human"}]
        /\ consent[e] = "nobody" /\ e \notin gated
        /\ e \notin st.pending_approvals /\ e \notin refused
    BY <2>2 DEF TypeOK, LogAgrees
  <2>4. todo' = {} /\ UNCHANGED <<ran, refused>>
    BY <1>1 DEF RequestEffect
  <2>5. /\ st'.pending_effects = [st.pending_effects EXCEPT ![e] = "requested"]
        /\ st'.pending_approvals = st.pending_approvals
    BY <2>1, <2>2, EffectEvents DEF TaintLevels
  <2>6. st.last_plan.tool \in Tools
    BY <1>1 DEF RequestEffect, DecideRequestEffect, RunState, Option, Plans
  <2>7. pc' = "dispatch" => gated' = gated
    BY <2>1, <2>6, GatedIsNotDispatched
  <2>8. pc' # "dispatch" => consent' = consent
    BY <2>1
  <2>9. LogAgrees'
    BY <2>1, <2>2, <2>3, <2>4, <2>5, <2>7 DEF LogAgrees, RunState
  <2>10. CallAgrees'
    BY <2>1, <2>2, <2>3, <2>4, <2>5 DEF CallAgrees, RunState
  <2> QED
    BY <2>9, <2>10
<1>2. CASE RefuseCheckpoint
  <2>1. LogAgrees' /\ SameEffects(st, st') /\ SameWorld
    BY <1>2, QuietStepsAgree DEF QuietSteps
  <2>2. CallAgrees'
    BY <1>2, <2>1 DEF RefuseCheckpoint, LogStep, CallAgrees, SameEffects, EffectsIn
  <2> QED
    BY <2>1, <2>2
<1>3. CASE RefuseResult
  <2>1. /\ st' = OnToolResult(st, cur, "denied", "clean") /\ logged'
        /\ refused' = refused \cup {cur}
        /\ UNCHANGED <<ran, consent, gated>> /\ pc' = "refuse_run" /\ todo' = {}
    BY <1>3 DEF RefuseResult
  <2>2. /\ cur \in Effects /\ st.pending_effects[cur] = "requested"
        /\ cur \notin st.pending_approvals
    BY <1>3 DEF RefuseResult, CallAgrees, TypeOK, OnAnEffect
  <2>3. /\ st'.pending_effects = [st.pending_effects EXCEPT ![cur] = "denied"]
        /\ st'.pending_approvals = st.pending_approvals
    BY <2>1, <2>2, RefusedResultEvent DEF TaintLevels
  <2>4. LogAgrees'
    BY <2>1, <2>2, <2>3 DEF LogAgrees, RunState
  <2> QED
    BY <2>1, <2>4, CalmStep
<1>4. CASE RefuseRun
  <2>1. pc' \in Calm /\ todo' = {}
    BY <1>4 DEF RefuseRun
  <2> QED
    BY <1>4, <2>1, QuietStepsAgree, CalmStep DEF QuietSteps
<1>5. CASE HoldCheckpoint
  <2>1. LogAgrees' /\ SameEffects(st, st') /\ SameWorld
    BY <1>5, QuietStepsAgree DEF QuietSteps
  <2>2. CallAgrees'
    BY <1>5, <2>1 DEF HoldCheckpoint, LogStep, CallAgrees, SameEffects, EffectsIn
  <2> QED
    BY <2>1, <2>2
<1>6. CASE HoldRequest
  <2>1. /\ st' = OnApprovalRequested(st, cur) /\ logged'
        /\ UNCHANGED <<ran, consent, refused, gated>> /\ pc' = "hold_run" /\ todo' = {}
    BY <1>6 DEF HoldRequest
  <2>2. /\ cur \in Effects /\ st.pending_effects[cur] = "requested"
        /\ consent[cur] = "nobody"
    BY <1>6 DEF HoldRequest, CallAgrees, TypeOK, OnAnEffect
  <2>3. /\ st'.pending_effects = st.pending_effects
        /\ st'.pending_approvals = st.pending_approvals \cup {cur}
    BY <2>1, <2>2, EffectEvents DEF TaintLevels
  <2>4. LogAgrees'
    BY <2>1, <2>2, <2>3 DEF LogAgrees, RunState
  <2> QED
    BY <2>1, <2>4, CalmStep
<1>7. CASE HoldRun
  <2>1. pc' \in Calm /\ todo' = {}
    BY <1>7 DEF HoldRun
  <2> QED
    BY <1>7, <2>1, QuietStepsAgree, CalmStep DEF QuietSteps
<1>8. CASE PreWriteCheckpoint
  <2>1. LogAgrees' /\ SameEffects(st, st') /\ SameWorld
    BY <1>8, QuietStepsAgree DEF QuietSteps
  <2>2. CallAgrees'
    BY <1>8, <2>1 DEF PreWriteCheckpoint, LogStep, CallAgrees, SameEffects, EffectsIn
  <2> QED
    BY <2>1, <2>2
<1>9. CASE EmitDispatched
  <2>1. /\ st' = OnEffectDispatched(st, cur) /\ logged'
        /\ UNCHANGED <<ran, consent, refused, gated, cur, todo>>
        /\ pc \in {"dispatch", "lease"} /\ pc' = "execute"
    BY <1>9 DEF EmitDispatched
  <2>2. /\ cur \in Effects /\ cur \notin todo /\ todo \subseteq EffectsIn(st, {"approved"})
        /\ \/ st.pending_effects[cur] = "approved"
           \/ st.pending_effects[cur] = "requested" /\ consent[cur] = "gateway"
    BY <2>1 DEF CallAgrees, TypeOK, OnAnEffect
  <2>3. /\ st'.pending_effects = [st.pending_effects EXCEPT ![cur] = "dispatched"]
        /\ st'.pending_approvals = st.pending_approvals
    BY <2>1, <2>2, EffectEvents DEF TaintLevels
  <2>4. ran[cur] = 0 /\ consent[cur] # "nobody" /\ cur \notin st.pending_approvals
        /\ cur \notin refused
    BY <2>2 DEF LogAgrees, TypeOK
  <2>5. LogAgrees'
    BY <2>1, <2>2, <2>3, <2>4 DEF LogAgrees, RunState
  <2>6. CallAgrees'
    BY <2>1, <2>2, <2>3, <2>4 DEF CallAgrees, EffectsIn, RunState
  <2> QED
    BY <2>5, <2>6
<1>10. CASE Execute
  <2>1. /\ UNCHANGED <<st, logged, consent, refused, gated, cur, todo>>
        /\ pc' = "result" /\ cur \in Effects
        /\ st.pending_effects[cur] = "dispatched" /\ ran[cur] = 0
        /\ ran \in [Effects -> 0 .. 2]
    BY <1>10 DEF Execute, CallAgrees, TypeOK, OnAnEffect
  <2>2. ran' = [ran EXCEPT ![cur] = 1]
    BY <1>10, <2>1 DEF Execute
  <2>3. LogAgrees'
    BY <2>1, <2>2 DEF LogAgrees
  <2>4. CallAgrees'
    BY <1>10, <2>1, <2>2 DEF CallAgrees, Execute, EffectsIn
  <2> QED
    BY <2>3, <2>4
<1>11. CASE ToolResult
  <2>1. PICK status \in {"ok", "error"}, taint \in TaintLevels :
            st' = OnToolResult(st, cur, status, taint)
    BY <1>11 DEF ToolResult, TaintLevels
  <2>2. /\ UNCHANGED <<ran, consent, refused, gated, cur, todo>> /\ logged'
        /\ pc' \in {"artifact", "charge_tool"}
    BY <1>11 DEF ToolResult
  <2>3. /\ cur \in Effects /\ cur \notin todo /\ todo \subseteq EffectsIn(st, {"approved"})
        /\ st.pending_effects[cur] = "dispatched" /\ ran[cur] = 1
    BY <1>11 DEF ToolResult, CallAgrees, TypeOK, OnAnEffect
  <2>4. /\ st'.pending_effects = [st.pending_effects EXCEPT ![cur] = "settled"]
        /\ st'.pending_approvals = st.pending_approvals
    BY <2>1, <2>3, SettledResultEvent
  <2>5. LogAgrees'
    BY <2>1, <2>2, <2>3, <2>4 DEF LogAgrees, RunState
  <2>6. CallAgrees'
    BY <2>1, <2>2, <2>3, <2>4 DEF CallAgrees, EffectsIn, RunState
  <2> QED
    BY <2>5, <2>6
<1>12. CASE EmitArtifact
  <2>1. LogAgrees' /\ SameEffects(st, st') /\ SameWorld
    BY <1>12, QuietStepsAgree DEF QuietSteps
  <2>2. CallAgrees'
    BY <1>12, <2>1 DEF EmitArtifact, LogStep, CallAgrees, SameEffects, EffectsIn
  <2> QED
    BY <2>1, <2>2
<1>13. CASE ChargeTool
  <2>1. LogAgrees' /\ SameEffects(st, st') /\ SameWorld
    BY <1>13, QuietStepsAgree DEF QuietSteps
  <2>2. CallAgrees'
    BY <1>13, <2>1 DEF ChargeTool, CallAgrees, SameEffects, EffectsIn
  <2> QED
    BY <2>1, <2>2
<1>14. CASE EffectDone
  <2>1. LogAgrees' /\ SameEffects(st, st') /\ SameWorld
    BY <1>14, QuietStepsAgree DEF QuietSteps
  <2>2. CallAgrees'
    BY <1>14, <2>1 DEF EffectDone, CallAgrees, SameEffects, EffectsIn
  <2> QED
    BY <2>1, <2>2
<1> QED
  BY <1>1, <1>2, <1>3, <1>4, <1>5, <1>6, <1>7, <1>8, <1>9, <1>10, <1>11, <1>12, <1>13,
     <1>14
  DEF EffectSteps
-----------------------------------------------------------------------------
(* AllAgree is inductive: Log, world and call agree on every effect, always. *)
THEOREM AlwaysAgree == Spec => [](TypeOK /\ AllAgree)
<1>1. Init => AllAgree
  BY DEF Init, AllAgree, LogAgrees, CallAgrees, OnTodo, NewRun, EffectsIn
<1>2. TypeOK /\ AllAgree /\ [Next]_vars => AllAgree'
  <2> SUFFICES ASSUME TypeOK, AllAgree, [Next]_vars PROVE AllAgree'
    OBVIOUS
  <2>1. CASE Crash
    <3>1. pc' \in Calm /\ todo' = {}
      BY <2>1 DEF Crash, Return, Calm
    <3> QED
      BY <2>1, <3>1, QuietStepsAgree, CalmStep DEF AllAgree, QuietSteps
  <2>2. CASE UNCHANGED vars
    BY <2>2 DEF vars, log, local, seen, AllAgree, LogAgrees, CallAgrees, EffectsIn
  <2> QED
    BY <2>1, <2>2, CallsAgree, ResumeStepsAgree, DriveStepsAgree, EffectStepsAgree
    DEF Next, Daemon
<1> QED
  BY TypeCorrect, <1>1, <1>2, PTL DEF Spec

(* No crash, resumption or decision makes a side effect happen twice. *)
THEOREM EffectsRunAtMostOnce == Spec => []AtMostOnce
<1>1. TypeOK /\ AllAgree => AtMostOnce
  BY DEF TypeOK, AllAgree, LogAgrees, AtMostOnce
<1> QED
  BY AlwaysAgree, <1>1, PTL

(* A side effect was let pass by a human, or by the Gateway on a call no
   structural gate had to stop, whatever the policy says. *)
THEOREM EffectsRunWithConsent == Spec => []RunOnlyWithConsent
<1>1. TypeOK /\ AllAgree => RunOnlyWithConsent
  BY DEF TypeOK, AllAgree, LogAgrees, RunOnlyWithConsent
<1> QED
  BY AlwaysAgree, <1>1, PTL

(* What was refused, by anyone, at any time, never runs. *)
THEOREM RefusedEffectsNeverRun == Spec => []RefusedNeverRuns
<1>1. TypeOK /\ AllAgree => RefusedNeverRuns
  BY DEF TypeOK, AllAgree, LogAgrees, RefusedNeverRuns
<1> QED
  BY AlwaysAgree, <1>1, PTL

-----------------------------------------------------------------------------
(* The runtime implements EffectProtocol. *)

(* Where an effect is in its life, as Lives reads it off the Log. *)
PhaseOf(e) == IF e \in st.pending_approvals THEN "held" ELSE st.pending_effects[e]

Phases == [e \in Effects |-> PhaseOf(e)]

LetPass == {e \in Effects : consent[e] = "gateway"}

(* A step that touches no effect is a stutter of the protocol. *)
LEMMA QuietIsStutter ==
    ASSUME SameEffects(st, st'), SameWorld
    PROVE  UNCHANGED <<Phases, LetPass, ran>>
  BY DEF SameEffects, SameWorld, Phases, PhaseOf, LetPass

(* A step that puts one effect, held by nobody afterwards, in another state
   is a move of that effect. *)
LEMMA EffectMoves ==
    ASSUME TypeOK, NEW e \in Effects, NEW from, NEW to, PhaseOf(e) \in from,
           st'.pending_effects = [st.pending_effects EXCEPT ![e] = to],
           st'.pending_approvals = st.pending_approvals \ {e}
    PROVE  Lives!Move(e, from, to)
<1>1. Phases' = [Phases EXCEPT ![e] = to]
  BY DEF Phases, PhaseOf, TypeOK, RunState
<1>2. Phases[e] \in from
  BY DEF Phases
<1> QED
  BY <1>1, <1>2 DEF Lives!Move, Phases, PhaseOf

(* The Gateway's leave does not change with consent that is not its own. *)
LEMMA SameLeave ==
    ASSUME consent' = consent
    PROVE  LetPass' = LetPass
  BY DEF LetPass

(* A refusal, by human or clock, of an open approval. *)
LEMMA OpenApprovalRefused ==
    ASSUME TypeOK, LogAgrees, NEW e \in st.pending_approvals,
           st' = OnApprovalRefused(st, e), UNCHANGED <<consent, ran>>
    PROVE  Lives!Next
<1>1. e \in Effects /\ st \in RunState
  BY DEF TypeOK, RunState
<1>2. /\ st'.pending_effects = [st.pending_effects EXCEPT ![e] = "denied"]
      /\ st'.pending_approvals = st.pending_approvals \ {e}
  BY <1>1, ApprovalEvents
<1>3. Lives!Move(e, {"requested", "held"}, "denied")
  BY <1>1, <1>2, EffectMoves DEF PhaseOf
<1>4. e \notin LetPass
  BY <1>1 DEF LogAgrees, LetPass
<1>5. Lives!Refuse(e)
  BY <1>3, <1>4, SameLeave DEF Lives!Refuse, LetPass
<1> QED
  BY <1>1, <1>5 DEF Lives!Next

(* The steps that move an effect. *)
MovingSteps ==
    \/ ExpireApproval \/ DenyApproval \/ GrantApproval \/ RequestEffect \/ RefuseResult
    \/ HoldRequest \/ EmitDispatched \/ Execute \/ ToolResult

(* Each is a step of the protocol. *)
LEMMA MovingStepsFollow ==
    ASSUME TypeOK, AllAgree, MovingSteps
    PROVE  Lives!Next
<1>0. /\ st \in RunState /\ LogAgrees /\ CallAgrees
      /\ consent \in [Effects -> {"nobody", "gateway", "human"}]
      /\ ran \in [Effects -> 0 .. 2]
  BY DEF TypeOK, AllAgree
<1>1. CASE ExpireApproval
  <2>1. PICK e \in todo : st' = OnApprovalRefused(st, e)
    BY <1>1 DEF ExpireApproval, Emit
  <2>2. UNCHANGED <<ran, consent>> /\ e \in st.pending_approvals
    BY <1>0, <1>1, <2>1 DEF ExpireApproval, CallAgrees
  <2> QED
    BY <1>0, <2>1, <2>2, OpenApprovalRefused
<1>2. CASE DenyApproval
  <2>1. UNCHANGED <<ran, consent>> /\ cur \in st.pending_approvals /\ st' = OnApprovalRefused(st, cur)
    BY <1>0, <1>2 DEF DenyApproval, CallAgrees, Emit
  <2> QED
    BY <1>0, <2>1, OpenApprovalRefused
<1>3. CASE GrantApproval
  <2>0. PICK e \in Effects : e = cur
    BY <1>0, <1>3 DEF GrantApproval, RunState
  <2>1. /\ e \in st.pending_approvals /\ st' = OnApprovalGranted(st, e)
        /\ consent' = [consent EXCEPT ![e] = "human"] /\ UNCHANGED ran
    BY <1>3, <2>0 DEF GrantApproval, Emit
  <2>2. st.pending_effects[e] = "requested" /\ consent[e] = "nobody"
    BY <1>0, <2>0, <2>1 DEF LogAgrees, RunState
  <2>3. Lives!Move(e, {"held"}, "approved")
    <3>1. /\ st'.pending_effects = [st.pending_effects EXCEPT ![e] = "approved"]
          /\ st'.pending_approvals = st.pending_approvals \ {e}
      BY <1>0, <2>0, <2>1, <2>2, ApprovalEvents
    <3> QED
      BY <2>1, <2>2, <3>1, EffectMoves DEF PhaseOf
  <2>4. LetPass' = LetPass
    BY <1>0, <2>0, <2>1, <2>2 DEF LetPass
  <2>5. Lives!Grant(e)
    BY <2>1, <2>3, <2>4 DEF Lives!Grant, LetPass
  <2> QED
    BY <2>0, <2>2, <2>5 DEF Lives!Next
<1>4. CASE RequestEffect
  <2>1. PICK e \in FreshEffects(st) :
            /\ st' = OnToolRequested(st, e)
            /\ consent' = consent \/ consent' = [consent EXCEPT ![e] = "gateway"]
    BY <1>4 DEF RequestEffect, Emit
  <2>2. e \in Effects /\ st.pending_effects[e] = "absent" /\ UNCHANGED ran
    BY <1>4 DEF FreshEffects, EffectsIn, RequestEffect
  <2>3. e \notin st.pending_approvals
    BY <1>0, <2>2 DEF LogAgrees
  <2>4. Lives!Move(e, {"absent"}, "requested")
    <3>1. /\ st'.pending_effects = [st.pending_effects EXCEPT ![e] = "requested"]
          /\ st'.pending_approvals = st.pending_approvals \ {e}
      BY <1>0, <2>1, <2>2, <2>3, EffectEvents
    <3> QED
      BY <2>2, <2>3, <3>1, EffectMoves DEF PhaseOf
  <2>5. LetPass' \in {LetPass, LetPass \cup {e}}
    BY <1>0, <2>1, <2>2 DEF LetPass
  <2>6. Lives!Request(e)
    BY <2>2, <2>4, <2>5 DEF Lives!Request, LetPass
  <2> QED
    BY <2>2, <2>6 DEF Lives!Next
<1>5. CASE RefuseResult
  <2>0. PICK e \in Effects : e = cur
    BY <1>5 DEF RefuseResult, TypeOK, OnAnEffect
  <2>1. st' = OnToolResult(st, e, "denied", "clean") /\ UNCHANGED <<ran, consent>>
    BY <1>5, <2>0 DEF RefuseResult, Emit
  <2>2. /\ st.pending_effects[e] = "requested"
        /\ e \notin st.pending_approvals /\ consent[e] = "nobody"
    BY <1>0, <1>5, <2>0 DEF RefuseResult, CallAgrees, TypeOK, OnAnEffect
  <2>3. Lives!Move(e, {"requested", "held"}, "denied")
    <3>1. /\ st'.pending_effects = [st.pending_effects EXCEPT ![e] = "denied"]
          /\ st'.pending_approvals = st.pending_approvals \ {e}
      BY <1>0, <2>0, <2>1, <2>2, RefusedResultEvent DEF TaintLevels
    <3> QED
      BY <2>2, <3>1, EffectMoves DEF PhaseOf
  <2>4. Lives!Refuse(e)
    BY <2>1, <2>2, <2>3, SameLeave DEF Lives!Refuse, LetPass
  <2> QED
    BY <2>0, <2>2, <2>4 DEF Lives!Next
<1>6. CASE HoldRequest
  <2>0. PICK e \in Effects : e = cur
    BY <1>6 DEF HoldRequest, TypeOK, OnAnEffect
  <2>1. st' = OnApprovalRequested(st, e) /\ UNCHANGED <<ran, consent>>
    BY <1>6, <2>0 DEF HoldRequest, Emit, seen
  <2>2. /\ st.pending_effects[e] = "requested"
        /\ e \notin st.pending_approvals /\ consent[e] = "nobody"
    BY <1>0, <1>6, <2>0 DEF HoldRequest, CallAgrees, TypeOK, OnAnEffect
  <2>3. Phases' = [Phases EXCEPT ![e] = "held"] /\ Phases[e] = "requested"
    <3>1. /\ st'.pending_effects = st.pending_effects
          /\ st'.pending_approvals = st.pending_approvals \cup {e}
      BY <1>0, <2>1, EffectEvents
    <3>2. PhaseOf(e)' = "held" /\ \A f \in Effects \ {e} : PhaseOf(f)' = PhaseOf(f)
      BY <3>1 DEF PhaseOf
    <3> QED
      BY <2>2, <3>2 DEF Phases, PhaseOf
  <2>4. Lives!Move(e, {"requested"}, "held")
    BY <2>3 DEF Lives!Move, Phases, PhaseOf
  <2>5. Lives!Hold(e)
    BY <2>1, <2>2, <2>4, SameLeave DEF Lives!Hold, LetPass
  <2> QED
    BY <2>0, <2>2, <2>5 DEF Lives!Next
<1>7. CASE EmitDispatched
  <2>0. PICK e \in Effects : e = cur
    BY <1>7 DEF EmitDispatched, TypeOK, OnAnEffect
  <2>1. st' = OnEffectDispatched(st, e) /\ UNCHANGED <<ran, consent>> /\ pc \in {"dispatch", "lease"}
    BY <1>7, <2>0 DEF EmitDispatched, Emit, Quiet, seen
  <2>2. /\ e \notin st.pending_approvals
        /\ st.pending_effects[e] \in {"requested", "approved"}
        /\ st.pending_effects[e] = "requested" => consent[e] = "gateway"
    BY <1>0, <2>0, <2>1 DEF CallAgrees, LogAgrees, TypeOK, OnAnEffect
  <2>3. Lives!Move(e, {"requested", "approved"}, "dispatched")
    <3>1. /\ st'.pending_effects = [st.pending_effects EXCEPT ![e] = "dispatched"]
          /\ st'.pending_approvals = st.pending_approvals \ {e}
      BY <1>0, <2>0, <2>1, <2>2, EffectEvents
    <3> QED
      BY <2>2, <3>1, EffectMoves DEF PhaseOf
  <2>4. Phases[e] = "requested" => e \in LetPass
    BY <2>2 DEF Phases, PhaseOf, LetPass
  <2>5. Lives!Dispatch(e)
    BY <2>1, <2>3, <2>4, SameLeave DEF Lives!Dispatch, LetPass, Phases, PhaseOf
  <2> QED
    BY <2>0, <2>2, <2>5 DEF Lives!Next
<1>8. CASE Execute
  <2>0. PICK e \in Effects : e = cur
    BY <1>8 DEF Execute, TypeOK, OnAnEffect
  <2>1. /\ st.pending_effects[e] = "dispatched" /\ ran[e] = 0
        /\ e \notin st.pending_approvals
    BY <1>0, <1>8, <2>0 DEF Execute, CallAgrees, LogAgrees, TypeOK, OnAnEffect
  <2>2. ran' = [ran EXCEPT ![e] = 1] /\ UNCHANGED <<st, consent>>
    BY <1>0, <1>8, <2>0, <2>1 DEF Execute
  <2>3. Phases' = Phases /\ LetPass' = LetPass /\ Phases[e] = "dispatched"
    BY <2>1, <2>2 DEF Phases, PhaseOf, LetPass
  <2>4. Lives!Happen(e)
    BY <2>1, <2>2, <2>3 DEF Lives!Happen, Phases, PhaseOf, LetPass
  <2> QED
    BY <2>0, <2>1, <2>4 DEF Lives!Next
<1>9. CASE ToolResult
  <2>0. PICK e \in Effects : e = cur
    BY <1>9 DEF ToolResult, TypeOK, OnAnEffect
  <2>1. PICK status \in {"ok", "error"}, taint \in TaintLevels :
            st' = OnToolResult(st, e, status, taint)
    BY <1>9, <2>0 DEF ToolResult, Emit, TaintLevels
  <2>2. /\ UNCHANGED <<ran, consent>>
        /\ st.pending_effects[e] = "dispatched" /\ ran[e] = 1
        /\ e \notin st.pending_approvals
    BY <1>0, <1>9, <2>0 DEF ToolResult, CallAgrees, LogAgrees, TypeOK, OnAnEffect
  <2>3. /\ st'.pending_effects = [st.pending_effects EXCEPT ![e] = "settled"]
        /\ st'.pending_approvals = st.pending_approvals \ {e}
    BY <1>0, <2>0, <2>1, <2>2, SettledResultEvent
  <2>4. Lives!Move(e, {"dispatched"}, "settled")
    BY <2>2, <2>3, EffectMoves DEF PhaseOf
  <2>5. Lives!Settle(e)
    BY <2>2, <2>4, SameLeave DEF Lives!Settle, LetPass
  <2> QED
    BY <2>0, <2>2, <2>5 DEF Lives!Next
<1> QED
  BY <1>1, <1>2, <1>3, <1>4, <1>5, <1>6, <1>7, <1>8, <1>9 DEF MovingSteps

(* Every step of the daemon is a step of the protocol or a stutter. *)
LEMMA StepsFollowTheProtocol ==
    ASSUME TypeOK, AllAgree, [Next]_vars
    PROVE  Lives!Next \/ UNCHANGED <<Phases, LetPass, ran>>
<1>0. st \in RunState /\ LogAgrees
  BY DEF TypeOK, AllAgree
<1>1. CASE QuietSteps
  BY <1>1, QuietStepsChangeNothing, QuietIsStutter
<1>2. CASE UNCHANGED vars
  BY <1>2 DEF vars, log, local, seen, Phases, PhaseOf, LetPass
<1>3. CASE Start
  <2>1. /\ st'.pending_effects = NewRun.pending_effects
        /\ st'.pending_approvals = {}
        /\ st.pending_effects = NewRun.pending_effects
        /\ UNCHANGED <<ran, consent>>
    BY <1>0, <1>3 DEF Start, Emit, Quiet, seen, OnRunCreated, NewRun, LogAgrees
  <2>2. \A e \in Effects : e \notin st.pending_approvals
    BY <1>0, <2>1 DEF NewRun, LogAgrees
  <2> QED
    BY <2>1, <2>2 DEF Phases, PhaseOf, LetPass
<1>4. CASE MovingSteps
  BY <1>4, MovingStepsFollow
<1> QED
  BY <1>1, <1>2, <1>3, <1>4
  DEF Next, Calls, Daemon, ResumeSteps, DriveSteps, EffectSteps, QuietSteps, MovingSteps

(* The runtime implements EffectProtocol, at any number of effects: nothing
   it does, in any order of calls and crashes, is outside the protocol. *)
THEOREM RuntimeImplementsProtocol == Spec => EffectsFollowTheProtocol
<1>1. Init => Lives!Init
  BY DEF Init, NewRun, Lives!Init
<1>2. TypeOK /\ AllAgree /\ [Next]_vars => [Lives!Next]_(Lives!protocolVars)
  BY StepsFollowTheProtocol DEF Lives!protocolVars, Phases, PhaseOf, LetPass
<1> QED
  BY AlwaysAgree, <1>1, <1>2, PTL DEF Spec, EffectsFollowTheProtocol, Lives!Spec

=============================================================================
