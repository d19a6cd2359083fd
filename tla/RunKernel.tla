------------------------------ MODULE RunKernel ------------------------------
(***************************************************************************)
(* crates/evo-kernel: the state of a run, `reduce` (one operator per event *)
(* of the Run Log, each mapping a state to the state after the event) and  *)
(* `decide` (what to do next in a state).                                  *)
(*                                                                         *)
(* Abstractions: an effect is a number; an approval is named by its effect *)
(* (one approval.requested per effect); `awaiting` keeps only the reason;  *)
(* last_checkpoint_seq is `anchored`, whether there is a checkpoint; blobs *)
(* and identifiers are left out, rng and env too.                          *)
(***************************************************************************)
EXTENDS Protocol

CONSTANTS
    MaxEffects,   \* bound: effects are numbered 1 .. MaxEffects
    Tools,        \* the tools a plan may name
    NoTool        \* "the plan wants a tool but names none"

ASSUME EffectsAssumption == MaxEffects \in Nat
ASSUME NoToolAssumption == NoTool \notin Tools

Effects == 1 .. MaxEffects

RunStatuses == {"running", "suspended", "completed", "failed"}

EffectStates == {"absent", "requested", "approved", "dispatched", "settled", "denied"}

AwaitReasons == {"nothing", "approval", "clarification", "budget"}

(* PlanStep: a tool call, a question, or the end.  A clarify plan always
   carries its question and a tool plan names a tool or none. *)
Plans == [intent: {"tool_call"}, tool: Tools \cup {NoTool}]
         \cup [intent: {"clarify", "finish"}, tool: {NoTool}]

ASSUME NoPlanAssumption == None \notin Plans

RunState ==
    [status: RunStatuses,
     turn: Nat,
     clock_ms: Nat,
     clock_start_ms: Option(Nat),
     intent: BOOLEAN,
     taint: TaintLevels,
     last_plan: Option(Plans),
     pending_effects: [Effects -> EffectStates],
     awaiting: AwaitReasons,
     pending_approvals: SUBSET Effects,
     pending_question: BOOLEAN,
     budget: BudgetSpec,
     budget_used: BudgetUsage,
     artifacts: SUBSET Effects,
     env_sampled_turn: Option(Nat),
     context_turn: Option(Nat),
     plan_turn: Option(Nat),
     anchored: BOOLEAN]

(* RunState::new *)
NewRun ==
    [status |-> "running",
     turn |-> 0,
     clock_ms |-> 0,
     clock_start_ms |-> None,
     intent |-> FALSE,
     taint |-> "clean",
     last_plan |-> None,
     pending_effects |-> [e \in Effects |-> "absent"],
     awaiting |-> "nothing",
     pending_approvals |-> {},
     pending_question |-> FALSE,
     budget |-> NoBudget,
     budget_used |-> NoUsage,
     artifacts |-> {},
     env_sampled_turn |-> None,
     context_turn |-> None,
     plan_turn |-> None,
     anchored |-> FALSE]

-----------------------------------------------------------------------------
(* Effects of a run. *)

EffectsIn(s, states) == {e \in Effects : s.pending_effects[e] \in states}

(* The effects the Log has requested and that are in no final state. *)
Unresolved(s) == EffectsIn(s, {"requested", "approved", "dispatched"})

(* Effect ids are fresh: <run>-e<last_seq>. *)
FreshEffects(s) == EffectsIn(s, {"absent"})

(* advance_turn_if_all_effects_resolved *)
AdvanceTurn(s) == IF Unresolved(s) = {} THEN [s EXCEPT !.turn = @ + 1] ELSE s

SetEffect(s, e, state) == [s EXCEPT !.pending_effects[e] = state]

-----------------------------------------------------------------------------
(* reduce, event by event. *)

OnRunCreated(s, b) == [s EXCEPT !.budget = b, !.status = "running"]

OnIntentDeclared(s) == [s EXCEPT !.intent = TRUE]

(* Faulty variants (see README, "Sensitivity"): no saturation, no max. *)
OnEnvSampledRaw(s, wall_clock_ms) ==
    LET start == IF s.clock_start_ms = None THEN wall_clock_ms ELSE s.clock_start_ms
    IN  [s EXCEPT !.clock_ms = wall_clock_ms,
                  !.clock_start_ms = start,
                  !.budget_used.wall_ms = wall_clock_ms - start,
                  !.env_sampled_turn = s.turn]

(* The elapsed time is the largest ever seen: a clock that jumps back takes
   nothing away (saturating_sub, then max). *)
OnEnvSampled(s, wall_clock_ms) ==
    LET start == IF s.clock_start_ms = None THEN wall_clock_ms ELSE s.clock_start_ms
        elapsed == IF wall_clock_ms >= start THEN wall_clock_ms - start ELSE 0
        used == s.budget_used.wall_ms
    IN  [s EXCEPT !.clock_ms = wall_clock_ms,
                  !.clock_start_ms = start,
                  !.budget_used.wall_ms = IF elapsed > used THEN elapsed ELSE used,
                  !.env_sampled_turn = s.turn]

OnContextAssembled(s, taint_level) ==
    [s EXCEPT !.taint = Join(@, taint_level), !.context_turn = s.turn]

OnModelResponded(s, usage) ==
    [s EXCEPT !.budget_used.tokens = Charged(@, usage)]

(* Faulty: the turn's progress is not recorded. *)
OnPlanStepUnmarked(s, plan) == [s EXCEPT !.last_plan = plan]

OnPlanStep(s, plan) ==
    [s EXCEPT !.last_plan = plan, !.plan_turn = s.turn]

OnToolRequested(s, e) == SetEffect(s, e, "requested")

(* Faulty: the fold ignores effect.dispatched. *)
OnEffectDispatchedIgnored(s, e) == s

OnEffectDispatched(s, e) == SetEffect(s, e, "dispatched")

(* Faulty: a refusal is settled like a result; the taint is dropped. *)
OnToolResultSettles(s, e, status, taint) ==
    AdvanceTurn([SetEffect(s, e, "settled") EXCEPT !.taint = Join(@, taint)])

OnToolResultUntainted(s, e, status, taint) ==
    AdvanceTurn(SetEffect(s, e, IF status = "denied" THEN "denied" ELSE "settled"))

OnToolResult(s, e, status, taint) ==
    AdvanceTurn([SetEffect(s, e, IF status = "denied" THEN "denied" ELSE "settled")
                 EXCEPT !.taint = Join(@, taint)])

OnCostCharged(s, amount) ==
    [s EXCEPT !.budget_used.amount = Charged(@, amount)]

OnBudgetAmended(s, b) == [s EXCEPT !.budget = b]

OnCheckpoint(s) == [s EXCEPT !.anchored = TRUE]

OnRunCompleted(s, status) ==
    [s EXCEPT !.status = IF status = "failed" THEN "failed" ELSE "completed"]

(* An approval suspension without an open approval sets no reason. *)
OnRunSuspended(s, reason) ==
    [s EXCEPT !.status = "suspended",
              !.awaiting = IF reason = "approval" /\ s.pending_approvals = {}
                             THEN "nothing" ELSE reason]

OnRunResumed(s) == [s EXCEPT !.status = "running", !.awaiting = "nothing"]

(* run.failed leaves awaiting alone. *)
OnRunFailed(s) == [s EXCEPT !.status = "failed"]

OnApprovalRequested(s, e) == [s EXCEPT !.pending_approvals = @ \cup {e}]

OnApprovalGranted(s, e) ==
    LET closed == [s EXCEPT !.pending_approvals = @ \ {e}]
    IN  IF e \in s.pending_approvals /\ s.pending_effects[e] = "requested"
          THEN SetEffect(closed, e, "approved")
          ELSE closed

(* Faulty: a refusal ends the effect but not the turn. *)
OnApprovalRefusedSameTurn(s, e) ==
    IF e \in s.pending_approvals
      THEN [SetEffect(s, e, "denied") EXCEPT !.pending_approvals = @ \ {e}]
      ELSE s

(* approval.denied and approval.expired do the same. *)
OnApprovalRefused(s, e) ==
    IF e \in s.pending_approvals
      THEN AdvanceTurn([SetEffect(s, e, "denied") EXCEPT !.pending_approvals = @ \ {e}])
      ELSE s

OnClarificationRequested(s) == [s EXCEPT !.pending_question = TRUE]

(* Faulty: the plan stays. *)
OnClarificationAnsweredKeepsPlan(s) ==
    [s EXCEPT !.pending_question = FALSE, !.context_turn = None]

(* The turn goes back to assembling its context, so that the model plans
   again with the answer. *)
OnClarificationAnswered(s) ==
    [s EXCEPT !.pending_question = FALSE, !.context_turn = None, !.plan_turn = None]

OnArtifactEmitted(s, e) == [s EXCEPT !.artifacts = @ \cup {e}]

-----------------------------------------------------------------------------
(* decide: a command per operator, each the condition on which `decide`
   produces it.  decide looks at them in this order. *)

(* Faulty: `>` lets a run with nothing left go on. *)
BudgetExhaustedLate(s) ==
    \/ s.budget.max_tokens # None /\ s.budget_used.tokens > s.budget.max_tokens
    \/ s.budget.max_amount # None /\ s.budget_used.amount > s.budget.max_amount
    \/ s.budget.max_wall # None /\ s.budget_used.wall_ms > SaturatingMul(s.budget.max_wall, MsPerSecond)

BudgetExhausted(s) ==
    \/ Reached(s.budget.max_tokens, s.budget_used.tokens)
    \/ Reached(s.budget.max_amount, s.budget_used.amount)
    \/ s.budget.max_wall # None /\ s.budget_used.wall_ms >= SaturatingMul(s.budget.max_wall, MsPerSecond)

DecideActive(s) == s.status = "running" /\ s.awaiting = "nothing"

DecideSuspend(s) == DecideActive(s) /\ BudgetExhausted(s)

DecideWait(s) == DecideActive(s) /\ ~BudgetExhausted(s) /\ Unresolved(s) # {}

(* Faulty: an open effect does not hold the next decision back. *)
DecideStepEager(s) == DecideActive(s) /\ ~BudgetExhausted(s)

DecideStep(s) == DecideActive(s) /\ ~BudgetExhausted(s) /\ Unresolved(s) = {}

DecideSampleEnv(s) == DecideStep(s) /\ s.env_sampled_turn # s.turn

DecideAssembleContext(s) ==
    DecideStep(s) /\ s.env_sampled_turn = s.turn /\ s.context_turn # s.turn

DecideCallModel(s) ==
    /\ DecideStep(s)
    /\ s.env_sampled_turn = s.turn
    /\ s.context_turn = s.turn
    /\ s.plan_turn # s.turn

(* What the plan of this turn asks for; no plan at all counts as finished. *)
DecideFollowPlan(s) ==
    /\ DecideStep(s)
    /\ s.env_sampled_turn = s.turn
    /\ s.context_turn = s.turn
    /\ s.plan_turn = s.turn

DecideRequestEffect(s) ==
    DecideFollowPlan(s) /\ s.last_plan # None /\ s.last_plan.intent = "tool_call"
                        /\ s.last_plan.tool # NoTool

DecideAskClarification(s) ==
    DecideFollowPlan(s) /\ s.last_plan # None /\ s.last_plan.intent = "clarify"

DecideFail(s) ==
    DecideFollowPlan(s) /\ s.last_plan # None /\ s.last_plan.intent = "tool_call"
                        /\ s.last_plan.tool = NoTool

DecideComplete(s) ==
    DecideFollowPlan(s) /\ (s.last_plan = None \/ s.last_plan.intent = "finish")

=============================================================================
