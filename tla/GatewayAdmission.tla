-------------------------- MODULE GatewayAdmission --------------------------
(***************************************************************************)
(* The admission of one tool call in crates/evo-gateway/src/pipeline.rs as *)
(* it unfolds in time: `admit`, and for a tool with a preview a second     *)
(* half, `admit_with_preview`, after the caller has been away to ask the   *)
(* executor.  PendingAdmit carries what the first half decided; meanwhile  *)
(* the PolicyHook may begin to answer differently.                         *)
(***************************************************************************)
EXTENDS Gateway

CONSTANTS
    Tools,
    Policies,    \* the policies the hook may hold, each a sequence of rules
    Budgets,
    MaxMeter     \* bound: amounts and estimates are 0 .. MaxMeter

ASSUME PolicyAssumption ==
    \A p \in Policies : \A i \in DOMAIN p : i \in Nat /\ p[i] \in Rules(Tools)
ASSUME AdmissionBudgetAssumption == Budgets \subseteq BudgetSpec
ASSUME MeterBoundAssumption == MaxMeter \in Nat

VARIABLES
    policy,     \* what the PolicyHook answers now
    call,       \* the AdmitRequest
    judged,     \* the decision of policy.evaluated, as the Log has it
    pending,    \* the decision frozen in PendingAdmit
    verdict,    \* the GatewayAction
    asked,      \* observer: the policy the first half asked
    estimate    \* observer: est_cost_micros of impact.estimated

admission == <<policy, call, judged, pending, verdict, asked, estimate>>

AdmitRequests ==
    [tool: Tools, manifest: Option(Manifests), capable: BOOLEAN, taint: TaintLevels,
     mode: {"live", "dry_run"}, budget: Budgets,
     used: [tokens: {0}, amount: 0 .. MaxMeter, wall_ms: {0}]]

Verdicts ==
    {"deny", "need_preview", "budget_exceeded", "await_approval", "dry_run", "dispatch"}

(* "No answer yet" is none of the answers. *)
ASSUME NoneIsApart == None \notin Verdicts /\ None \notin Decisions

ManifestOf(c) == IF c.manifest = None THEN StrictestDefault ELSE c.manifest

Init ==
    /\ policy \in Policies
    /\ call \in AdmitRequests
    /\ judged = None /\ pending = None /\ verdict = None
    /\ asked = None /\ estimate = None

(* admit.  Without the capability the policy is never asked; the Log has a
   deny all the same. *)
AdmitCall ==
    /\ verdict = None
    /\ LET decision == Judge(policy, call.tool, call.manifest, call.taint)
           answer == Admit(call.capable, policy, call.tool, call.manifest, call.taint,
                           call.mode, call.budget, call.used)
       IN  /\ verdict' = answer
           /\ judged' = IF call.capable THEN decision ELSE Deny
           /\ pending' = IF answer = "need_preview" THEN decision ELSE None
    /\ asked' = policy
    /\ UNCHANGED <<policy, call, estimate>>

(* The PolicyHook changes its mind. *)
ReloadPolicy ==
    /\ verdict = "need_preview"
    /\ policy' \in Policies
    /\ UNCHANGED <<call, judged, pending, verdict, asked, estimate>>

(* Faulty: the policy is asked again (and the frozen decision ignored). *)
AdmitWithPreviewReevaluates ==
    /\ verdict = "need_preview"
    /\ \E est \in Option(0 .. MaxMeter) :
         /\ estimate' = est
         /\ verdict' = Finish(Judge(policy, call.tool, call.manifest, call.taint),
                              ManifestOf(call).class, call.mode, est, call.budget, call.used)
    /\ pending' = None
    /\ UNCHANGED <<policy, call, judged, asked>>

(* admit_with_preview, with an answer of the executor or without *)
AdmitWithPreview ==
    /\ verdict = "need_preview"
    /\ \E est \in Option(0 .. MaxMeter) :
         /\ estimate' = est
         /\ verdict' = Finish(pending, ManifestOf(call).class, call.mode, est,
                              call.budget, call.used)
    /\ pending' = None
    /\ UNCHANGED <<policy, call, judged, asked>>

Next == AdmitCall \/ ReloadPolicy \/ AdmitWithPreview

Spec == Init /\ [][Next]_admission

-----------------------------------------------------------------------------
TypeOK ==
    /\ policy \in Policies
    /\ call \in AdmitRequests
    /\ judged \in Option(Decisions)
    /\ pending \in Option(Decisions) /\ (verdict = "need_preview" => pending # None)
    /\ verdict \in Option(Verdicts)
    /\ asked \in Option(Policies)
    /\ estimate \in Option(0 .. MaxMeter)

Passes == verdict \in {"dispatch", "dry_run"}

(* The action is the one the logged decision calls for, even if the policy
   changed while the preview was asked for: only an allow passes, only a deny
   is denied. *)
LogDecides ==
    /\ Passes => judged.kind = "allow"
    /\ verdict = "await_approval" => judged.kind = "require_approval"
    /\ verdict # None => (verdict = "deny" <=> judged.kind = "deny")

(* The structural gates only make a decision stricter than the policy's own:
   a deny stays one, a required approval keeps at least its level. *)
NeverLooser ==
    asked # None /\ call.capable =>
        LET own == Evaluate(asked, call.tool, ManifestOf(call))
        IN  /\ own.kind = "deny" => judged = own
            /\ own.kind = "require_approval" =>
                   judged.kind = "require_approval" /\ judged.risk >= own.risk

(* Whatever the policy says, a tainted run gets no effect but reads, and a
   tool without a manifest none at all, without a human; the latter at L3. *)
GatesHold ==
    /\ Passes => call.taint = "clean" \/ ManifestOf(call).class = "read"
    /\ verdict # None /\ call.manifest = None =>
           ~Passes /\ (verdict = "await_approval" => judged.risk = 3)

(* What passes can be paid for: there is something left, and the estimate, if
   there is one, does not go over the limit, in numbers without a width.  (A
   limit of the largest amount there is stops no estimate: the sum saturates.) *)
PaidFor ==
    Passes /\ call.budget.max_amount # None =>
        /\ call.used.amount < call.budget.max_amount
        /\ estimate # None /\ call.budget.max_amount < MAX =>
             call.used.amount + estimate <= call.budget.max_amount

=============================================================================
