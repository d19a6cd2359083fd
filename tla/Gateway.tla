------------------------------- MODULE Gateway -------------------------------
(***************************************************************************)
(* crates/evo-gateway (pipeline.rs, manifest.rs, impact.rs) and the policy *)
(* of crates/evo-policy: the verdict on one tool call.  Pure, like the     *)
(* code: everything a verdict depends on is an argument.                   *)
(*                                                                         *)
(* A policy is a sequence of rules, the first that matches wins.  A policy *)
(* decision is "deny", "allow" or "require_approval" with a risk level;    *)
(* `risk` is None in the other two.                                        *)
(***************************************************************************)
EXTENDS Protocol

Manifests == [class: EffectClasses, reversible: BOOLEAN, preview: BOOLEAN]

(* ManifestRegistry::strictest_default: a tool without a manifest *)
StrictestDefault == [class |-> "external", reversible |-> FALSE, preview |-> FALSE]

(* PolicyDecision *)
Allow == [kind |-> "allow", risk |-> None]
Deny == [kind |-> "deny", risk |-> None]
RequireApproval(risk) == [kind |-> "require_approval", risk |-> risk]

Decisions == {Allow, Deny} \cup {RequireApproval(r) : r \in RiskLevels}

(* One [[rule]] of policy.toml: a field left out constrains nothing. *)
Rules(tools) ==
    [tool: Option(tools), class: Option(EffectClasses),
     reversible: Option(BOOLEAN), decision: Decisions]

(* Rule::matches *)
Matches(rule, tool, m) ==
    /\ rule.class \in {None, m.class}
    /\ rule.tool \in {None, tool}
    /\ rule.reversible \in {None, m.reversible}

(* HardcodedPolicy::evaluate_with_trace: no match is an allow. *)
Evaluate(policy, tool, m) ==
    LET hits == {i \in DOMAIN policy : Matches(policy[i], tool, m)}
    IN  IF hits = {} THEN Allow
        ELSE policy[CHOOSE i \in hits : \A j \in hits : i <= j].decision

-----------------------------------------------------------------------------
(* Faulty (see README, "Sensitivity"): the gate's own level replaces a higher
   one. *)
TightenLowers(decision, floor) ==
    IF decision.kind = "deny" THEN decision ELSE RequireApproval(floor)

(* tighten: a structural gate may only make a decision stricter. *)
Tighten(decision, floor) ==
    IF decision.kind = "deny" THEN decision
    ELSE IF decision.kind = "allow" THEN RequireApproval(floor)
    ELSE RequireApproval(IF decision.risk > floor THEN decision.risk ELSE floor)

(* Faulty: reads or not, only a write is held back. *)
JudgeWritesOnly(policy, tool, manifest, taint) ==
    LET m == IF manifest = None THEN StrictestDefault ELSE manifest
        decision == Evaluate(policy, tool, m)
    IN  IF manifest = None THEN Tighten(decision, 3)
        ELSE IF taint = "tainted" /\ m.class = "write" THEN Tighten(decision, 2)
        ELSE decision

(* Steps 3 and 4 of admit.  `manifest` is None for an unknown tool: that gate
   comes first, and its floor is the highest there is. *)
Judge(policy, tool, manifest, taint) ==
    LET m == IF manifest = None THEN StrictestDefault ELSE manifest
        decision == Evaluate(policy, tool, m)
    IN  IF manifest = None THEN Tighten(decision, 3)
        ELSE IF taint = "tainted" /\ m.class # "read" THEN Tighten(decision, 2)
        ELSE decision

(* Faulty: the estimate is not counted. *)
OverBudgetAfterwards(budget, used, est_cost) ==
    \/ Reached(budget.max_tokens, used.tokens)
    \/ budget.max_wall # None /\ used.wall_ms >= SaturatingMul(budget.max_wall, MsPerSecond)
    \/ Reached(budget.max_amount, used.amount)

(* budget_gate, step 5: what is used up, or would be by the estimate. *)
OverBudget(budget, used, est_cost) ==
    \/ Reached(budget.max_tokens, used.tokens)
    \/ budget.max_wall # None /\ used.wall_ms >= SaturatingMul(budget.max_wall, MsPerSecond)
    \/ Reached(budget.max_amount, used.amount)
    \/ /\ budget.max_amount # None /\ est_cost # None
       /\ SaturatingAdd(used.amount, est_cost) > budget.max_amount

(* finish: steps 6 and 5, then the decision, then the execution mode. *)
Finish(decision, class, mode, est_cost, budget, used) ==
    IF OverBudget(budget, used, est_cost) THEN "budget_exceeded"
    ELSE IF decision.kind = "require_approval" THEN "await_approval"
    ELSE IF mode = "dry_run" /\ class \in {"write", "external"} THEN "dry_run"
    ELSE "dispatch"

(* admit, for a capability that may or may not cover the tool.  A declared
   preview stops the pipeline after step 4: "need_preview". *)
Admit(capable, policy, tool, manifest, taint, mode, budget, used) ==
    LET m == IF manifest = None THEN StrictestDefault ELSE manifest
        decision == Judge(policy, tool, manifest, taint)
    IN  IF ~capable \/ decision.kind = "deny" THEN "deny"
        ELSE IF m.preview THEN "need_preview"
        ELSE Finish(decision, m.class, mode, None, budget, used)

=============================================================================
