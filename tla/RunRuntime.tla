----------------------------- MODULE RunRuntime -----------------------------
(***************************************************************************)
(* crates/evo-daemon/src/runtime.rs: one run, driven by the daemon.        *)
(*                                                                         *)
(* A call (start, resume, decide_approval, answer_clarification,           *)
(* amend_budget) holds the runtime's mutex to its end, so at most one is   *)
(* under way; `pc` says where it is, and a step is one append to the Run   *)
(* Log (or one wait for the model or the executor).  Between any two steps *)
(* the process may die or an append may fail (`?`): what remains is the    *)
(* Log, whose fold is `st`.                                                *)
(***************************************************************************)
EXTENDS RunKernel, Gateway, Context, FiniteSets

CONSTANTS
    FsWrite,     \* the tool whose results carry no content and make artifacts
    Manifest,    \* tool |-> its manifest, or None
    Policy,      \* the rules of policy.toml
    Budgets,     \* the budgets a run is created with or amended to
    Times,       \* the readings of the daemon's clock
    ApprovalTtl, \* APPROVAL_TTL_MS
    MaxTurns,    \* MAX_TURNS
    MaxLines     \* bound: cost lines of one model response

ASSUME BudgetsAssumption == Budgets \subseteq BudgetSpec
ASSUME ManifestAssumption == Manifest \in [Tools -> Option(Manifests)]
ASSUME TimeAssumption == Times \subseteq Nat /\ ApprovalTtl \in Nat
ASSUME BoundAssumption == MaxTurns \in Nat /\ MaxLines \in Nat

VARIABLES
    \* the Run Log, as far as the daemon reads it back
    st,        \* the fold of the Log: a RunState
    logged,    \* the Log has an event of this run
    tool_of,   \* effect |-> the tool of its tool.requested
    deadline,  \* effect |-> expires_at_ms of its approval.requested
    outputs,   \* effects whose tool.result carries an output
    \* the call under way
    pc,
    cur,       \* the effect it works on
    decision,  \* what a human decided, in decide_approval
    todo,      \* effects left in the loop it is in
    lines,     \* cost.charged lines it has left to append
    reading,   \* the clock as it read it in expire_overdue_approvals
    told,      \* how the last call ended, for its caller
    \* observers: nothing in the code reads them
    ran,       \* effect |-> how often its side effect happened
    consent,   \* effect |-> who let it pass: "nobody", "gateway" or "human"
    refused,   \* effects denied by the Gateway, by a human or by time
    gated,     \* effects a structural gate had to send to a human
    stale      \* an answer or an output is newer than the last context

log == <<logged, tool_of, deadline, outputs>>
local == <<cur, decision, todo, lines, reading>>
seen == <<ran, consent, refused, gated, stale>>
vars == <<st, log, pc, local, told, seen>>

Outcomes == {"nothing", "suspended", "completed", "failed", "error", "panic"}

Class(tool) == IF Manifest[tool] = None THEN StrictestDefault.class ELSE Manifest[tool].class

Init ==
    /\ st = NewRun
    /\ logged = FALSE
    /\ tool_of = [e \in Effects |-> NoTool]
    /\ deadline = [e \in Effects |-> 0]
    /\ outputs = {}
    /\ pc = "idle"
    /\ cur = None /\ decision = "none" /\ todo = {} /\ lines = 0 /\ reading = 0
    /\ told = "nothing"
    /\ ran = [e \in Effects |-> 0]
    /\ consent = [e \in Effects |-> "nobody"]
    /\ refused = {} /\ gated = {} /\ stale = FALSE

-----------------------------------------------------------------------------
(* Control. *)

Goto(label) == pc' = label /\ UNCHANGED <<local, told>>

(* The call ends; its caller is told `outcome`. *)
Return(outcome) ==
    /\ pc' = "idle" /\ told' = outcome
    /\ cur' = None /\ decision' = "none" /\ todo' = {} /\ lines' = 0 /\ reading' = 0

(* One event appended and folded. *)
Emit(s) == st' = s /\ logged' = TRUE

Quiet == UNCHANGED <<tool_of, deadline, outputs, seen>>

(* An append that ends one step of a call and touches nothing but the fold. *)
LogStep(from, s, to) == pc = from /\ Emit(s) /\ Goto(to) /\ Quiet

-----------------------------------------------------------------------------
(* The calls. *)

(* start_with_trigger: run.created, intent.declared, drive *)
Start ==
    /\ pc = "idle" /\ ~logged
    /\ \E b \in Budgets : Emit(OnRunCreated(NewRun, b))
    /\ pc' = "declare_intent" /\ told' = "nothing"
    /\ UNCHANGED local /\ Quiet

DeclareIntent == LogStep("declare_intent", OnIntentDeclared(st), "drive")

(* resume, by its caller.  Nothing asks whether the run exists. *)
Resume ==
    /\ pc = "idle"
    /\ pc' = "resume" /\ told' = "nothing"
    /\ UNCHANGED <<st, log, local, seen>>

(* decide_approval; an unknown approval is an error that changes nothing *)
DecideApproval ==
    /\ pc = "idle"
    /\ cur' \in st.pending_approvals
    /\ decision' \in {"grant", "deny"}
    /\ pc' = "resume" /\ told' = "nothing"
    /\ UNCHANGED <<st, log, todo, lines, reading, seen>>

(* answer_clarification; an unknown question is an error *)
AnswerClarification ==
    /\ pc = "idle" /\ st.pending_question
    /\ Emit(OnClarificationAnswered(st))
    /\ stale' = TRUE
    /\ pc' = "resume" /\ told' = "nothing"
    /\ UNCHANGED <<tool_of, deadline, outputs, local, ran, consent, refused, gated>>

(* amend_budget: resumes only a run that waits for money *)
AmendBudget ==
    /\ pc = "idle"
    /\ \E b \in Budgets : Emit(OnBudgetAmended(st, b))
    /\ Quiet
    /\ \/ /\ st.awaiting = "budget"
          /\ pc' = "resume" /\ told' = "nothing" /\ UNCHANGED local
       \/ /\ st.awaiting # "budget"
          /\ st.status = "suspended" /\ st.awaiting # "nothing"
          /\ Return("suspended")
       \/ /\ st.awaiting # "budget"
          /\ st.status \in {"completed", "failed"}
          /\ Return(st.status)
       \/ /\ st.awaiting # "budget"
          /\ (st.status = "running" \/ (st.status = "suspended" /\ st.awaiting = "nothing"))
          /\ pc' = "drive" /\ told' = "nothing" /\ UNCHANGED local

-----------------------------------------------------------------------------
(* expire_overdue_approvals: at the head of resume and of decide_approval,
   one reading of the clock for all pending approvals. *)

(* Faulty: the deadline itself is still in time. *)
OverdueLate(now) == {e \in st.pending_approvals : now > deadline[e]}

Overdue(now) == {e \in st.pending_approvals : now >= deadline[e]}

ReadClock ==
    /\ pc = "resume"
    /\ \E now \in Times : reading' = now /\ todo' = Overdue(now)
    /\ pc' = "expire"
    /\ UNCHANGED <<st, log, cur, decision, lines, told, seen>>

ExpireApproval ==
    /\ pc = "expire"
    /\ \E e \in todo :
         /\ Emit(OnApprovalRefused(st, e))
         /\ todo' = todo \ {e}
         /\ refused' = refused \cup {e}
    /\ UNCHANGED <<tool_of, deadline, outputs, pc, cur, decision, lines, reading,
                   told, ran, consent, gated, stale>>

(* decide_approval after the sweep.  An approval that just expired takes no
   decision; resume finishes either way. *)
Decided(to) ==
    pc' = to /\ cur' = None /\ decision' = "none" /\ reading' = 0 /\ UNCHANGED <<todo, lines, told>>

DecisionTooLate ==
    /\ pc = "expire" /\ todo = {} /\ decision # "none" /\ cur \notin st.pending_approvals
    /\ Decided("resume")
    /\ UNCHANGED <<st, log, seen>>

GrantApproval ==
    /\ pc = "expire" /\ todo = {} /\ decision = "grant" /\ cur \in st.pending_approvals
    /\ Emit(OnApprovalGranted(st, cur))
    /\ consent' = [consent EXCEPT ![cur] = "human"]
    /\ Decided("resume")
    /\ UNCHANGED <<tool_of, deadline, outputs, ran, refused, gated, stale>>

DenyCheckpoint ==
    /\ todo = {} /\ decision = "deny" /\ cur \in st.pending_approvals
    /\ LogStep("expire", OnCheckpoint(st), "deny")

DenyApproval ==
    /\ pc = "deny"
    /\ Emit(OnApprovalRefused(st, cur))
    /\ refused' = refused \cup {cur}
    /\ Decided("resume")
    /\ UNCHANGED <<tool_of, deadline, outputs, ran, consent, gated, stale>>

(* resume after the sweep: an approval still open stops it, with no event. *)
ResumeBlocked ==
    /\ pc = "expire" /\ todo = {} /\ decision = "none" /\ st.pending_approvals # {}
    /\ Return("suspended")
    /\ UNCHANGED <<st, log, seen>>

(* Faulty: what nobody holds back is taken for approved (BL-1); or whatever
   is not final is done again. *)
EmitRunResumedTrusting ==
    /\ pc = "expire" /\ todo = {} /\ decision = "none" /\ st.pending_approvals = {}
    /\ Emit(OnRunResumed(st))
    /\ todo' = EffectsIn(st, {"requested", "approved"})
    /\ pc' = "redispatch" /\ reading' = 0
    /\ UNCHANGED <<cur, decision, lines, told>> /\ Quiet

EmitRunResumedRedoing ==
    /\ pc = "expire" /\ todo = {} /\ decision = "none" /\ st.pending_approvals = {}
    /\ Emit(OnRunResumed(st))
    /\ todo' = EffectsIn(st, {"approved", "dispatched"})
    /\ pc' = "redispatch" /\ reading' = 0
    /\ UNCHANGED <<cur, decision, lines, told>> /\ Quiet

EmitRunResumed ==
    /\ pc = "expire" /\ todo = {} /\ decision = "none" /\ st.pending_approvals = {}
    /\ Emit(OnRunResumed(st))
    /\ todo' = EffectsIn(st, {"approved"})
    /\ pc' = "redispatch" /\ reading' = 0
    /\ UNCHANGED <<cur, decision, lines, told>> /\ Quiet

(* Approved but not dispatched yet: the request is rebuilt from the Log. *)
Redispatch ==
    /\ pc = "redispatch"
    /\ \E e \in todo : cur' = e /\ todo' = todo \ {e}
    /\ pc' = "dispatch"
    /\ UNCHANGED <<st, log, decision, lines, reading, told, seen>>

EnterDrive ==
    /\ pc = "redispatch" /\ todo = {}
    /\ Goto("drive")
    /\ UNCHANGED <<st, log, seen>>

-----------------------------------------------------------------------------
(* drive: the two insurances, then what decide says, until it says nothing.
   (The iteration limit cannot be reached before the turn limit.) *)

TurnLimit ==
    /\ st.turn > MaxTurns
    /\ LogStep("drive", OnRunFailed(st), "drive_failed")

DriveReturns ==
    /\ pc = "drive" /\ st.turn <= MaxTurns
    /\ st.status # "running"
    /\ Return(st.status)
    /\ UNCHANGED <<st, log, seen>>

(* Faulty: the old fallback, which called a stalled run completed (BL-7). *)
StalledCompletes ==
    /\ pc = "drive" /\ st.turn <= MaxTurns
    /\ st.status = "running" /\ ~DecideSuspend(st) /\ ~DecideStep(st)
    /\ Return("completed")
    /\ UNCHANGED <<st, log, seen>>

(* decide waits for an effect nobody will finish. *)
Stalled ==
    /\ st.turn <= MaxTurns
    /\ st.status = "running" /\ ~DecideSuspend(st) /\ ~DecideStep(st)
    /\ LogStep("drive", OnRunFailed(st), "drive_failed")

(* fail_run outside the loop: its event is the last of the call. *)
ReturnFailed ==
    /\ pc = "drive_failed"
    /\ Return("failed")
    /\ UNCHANGED <<st, log, seen>>

InLoop == st.turn <= MaxTurns

(* Every CHECKPOINT_EVERY events; how many have passed is left open.  (A
   second one changes nothing here.) *)
PeriodicCheckpoint ==
    /\ InLoop /\ DecideActive(st) /\ ~st.anchored
    /\ LogStep("drive", OnCheckpoint(st), "drive")

SuspendForBudget ==
    /\ InLoop /\ DecideSuspend(st)
    /\ LogStep("drive", OnRunSuspended(st, "budget"), "drive")

SampleEnv ==
    /\ InLoop /\ DecideSampleEnv(st)
    /\ \E now \in Times : LogStep("drive", OnEnvSampled(st, now), "drive")

(* tool_output_blobs_for: results with content, by the tool that was asked *)
ToolOutputs == {e \in outputs : tool_of[e] # NoTool}

(* The context holds the intent, every answer and every output of the Log.
   (Which answers there are makes no difference to what is kept of it here,
   its taint: one stands for them.) *)
AssembleContext ==
    /\ pc = "drive" /\ InLoop /\ DecideAssembleContext(st) /\ st.intent
    /\ Emit(OnContextAssembled(st, TaintLevel(Blocks(st.turn, "intent", {"answer"}, ToolOutputs))))
    /\ stale' = FALSE
    /\ Goto("drive")
    /\ UNCHANGED <<tool_of, deadline, outputs, ran, consent, refused, gated>>

(* `expect`: no intent to assemble from. *)
AssemblePanics ==
    /\ pc = "drive" /\ InLoop /\ DecideAssembleContext(st) /\ ~st.intent
    /\ Return("panic")
    /\ UNCHANGED <<st, log, seen>>

AskClarification ==
    /\ InLoop /\ DecideAskClarification(st)
    /\ LogStep("drive", OnClarificationRequested(st), "ask")

SuspendForAnswer == LogStep("ask", OnRunSuspended(st, "clarification"), "drive")

Complete ==
    /\ InLoop
    /\ \/ DecideComplete(st) /\ LogStep("drive", OnRunCompleted(st, "ok"), "drive")
       \/ DecideFail(st) /\ LogStep("drive", OnRunCompleted(st, "failed"), "drive")

-----------------------------------------------------------------------------
(* call_model *)

(* model.requested: the fold ignores it *)
CallModel ==
    /\ InLoop /\ DecideCallModel(st)
    /\ LogStep("drive", st, "model_call")

(* `self.model.call(..).await?` *)
ModelCallFails ==
    /\ pc = "model_call"
    /\ Return("error")
    /\ UNCHANGED <<st, log, seen>>

ModelResponds ==
    /\ pc = "model_call"
    /\ \E usage \in 0 .. 1 : Emit(OnModelResponded(st, usage))
    /\ \/ pc' = "unpriced" /\ lines' = 0
       \/ pc' = "charge_model" /\ lines' \in 0 .. MaxLines
    /\ UNCHANGED <<cur, decision, todo, reading, told>> /\ Quiet

(* model_not_priced, unparseable_plan: fail_run inside the loop *)
ModelNotPriced == LogStep("unpriced", OnRunFailed(st), "drive")

ChargeModel ==
    /\ pc = "charge_model" /\ lines > 0
    /\ Emit(OnCostCharged(st, 1))
    /\ lines' = lines - 1
    /\ UNCHANGED <<pc, cur, decision, todo, reading, told>> /\ Quiet

UnparseablePlan ==
    /\ lines = 0
    /\ LogStep("charge_model", OnRunFailed(st), "drive")

PlanStep ==
    /\ lines = 0
    /\ \E plan \in Plans :
         /\ plan.tool \in Tools => FreshEffects(st) # {}      \* bound: MaxEffects
         /\ LogStep("charge_model", OnPlanStep(st, plan), "drive")

-----------------------------------------------------------------------------
(* request_effect and handle_gateway_action *)

(* admit, always live and with every scope; a declared preview is not asked
   for, and the admission goes on without one. *)
Verdict(tool) ==
    LET answer == Admit(TRUE, Policy, tool, Manifest[tool], st.taint, "live",
                        st.budget, st.budget_used)
    IN  IF answer = "need_preview"
          THEN Finish(Judge(Policy, tool, Manifest[tool], st.taint), Class(tool), "live",
                      None, st.budget, st.budget_used)
          ELSE answer

StructurallyGated(tool) ==
    Manifest[tool] = None \/ (st.taint = "tainted" /\ Class(tool) # "read")

(* tool.requested and the events of the verdict, which the fold ignores *)
RequestEffect ==
    LET tool == st.last_plan.tool IN
    /\ pc = "drive" /\ InLoop /\ DecideRequestEffect(st)
    /\ \E e \in FreshEffects(st) :
         /\ \A f \in FreshEffects(st) : e <= f
         /\ Emit(OnToolRequested(st, e))
         /\ tool_of' = [tool_of EXCEPT ![e] = tool]
         /\ cur' = e
         /\ gated' = IF StructurallyGated(tool) THEN gated \cup {e} ELSE gated
         /\ \/ Verdict(tool) = "deny" /\ pc' = "refuse" /\ UNCHANGED consent
            \/ Verdict(tool) = "await_approval" /\ pc' = "hold" /\ UNCHANGED consent
            \/ /\ Verdict(tool) = "dispatch" /\ pc' = "dispatch"
               /\ consent' = [consent EXCEPT ![e] = "gateway"]
    /\ UNCHANGED <<deadline, outputs, decision, todo, lines, reading, told, ran, refused, stale>>

(* Deny: checkpoint, tool.result{denied}, run.failed *)
RefuseCheckpoint == LogStep("refuse", OnCheckpoint(st), "refuse_result")

RefuseResult ==
    /\ pc = "refuse_result"
    /\ Emit(OnToolResult(st, cur, "denied", "clean"))
    /\ refused' = refused \cup {cur}
    /\ Goto("refuse_run")
    /\ UNCHANGED <<tool_of, deadline, outputs, ran, consent, gated, stale>>

RefuseRun ==
    /\ pc = "refuse_run"
    /\ Emit(OnRunFailed(st))
    /\ pc' = "drive" /\ cur' = None
    /\ UNCHANGED <<decision, todo, lines, reading, told>> /\ Quiet

(* AwaitApproval: checkpoint, approval.requested, run.suspended *)
HoldCheckpoint == LogStep("hold", OnCheckpoint(st), "hold_request")

HoldRequest ==
    /\ pc = "hold_request"
    /\ Emit(OnApprovalRequested(st, cur))
    /\ deadline' = [deadline EXCEPT ![cur] = st.clock_ms + ApprovalTtl]
    /\ Goto("hold_run")
    /\ UNCHANGED <<tool_of, outputs, seen>>

HoldRun ==
    /\ pc = "hold_run"
    /\ Emit(OnRunSuspended(st, "approval"))
    /\ pc' = "drive" /\ cur' = None
    /\ UNCHANGED <<decision, todo, lines, reading, told>> /\ Quiet

-----------------------------------------------------------------------------
(* dispatch_effect *)

Writes(e) == Class(tool_of[e]) \in {"write", "external"}

(* pre_write: an anchor before what cannot be undone *)
PreWriteCheckpoint ==
    /\ pc = "dispatch" /\ Writes(cur)
    /\ LogStep("dispatch", OnCheckpoint(st), "lease")

EmitDispatched ==
    /\ pc = "lease" \/ (pc = "dispatch" /\ ~Writes(cur))
    /\ Emit(OnEffectDispatched(st, cur))
    /\ Goto("execute") /\ Quiet

(* The side effect happens.  (Counted up to two.) *)
Execute ==
    /\ pc = "execute"
    /\ ran' = [ran EXCEPT ![cur] = IF @ = 2 THEN 2 ELSE @ + 1]
    /\ Goto("result")
    /\ UNCHANGED <<st, log, consent, refused, gated, stale>>

(* tool.result: an fs.write that worked goes on to its artifact; either way
   the call may cost a line *)
ToolResult ==
    /\ pc = "result"
    /\ \E status \in {"ok", "error"} :
         LET returns == status = "ok" /\ tool_of[cur] # FsWrite IN
         /\ Emit(OnToolResult(st, cur, status,
                              IF tool_of[cur] = FsWrite THEN "clean" ELSE "tainted"))
         /\ outputs' = IF returns THEN outputs \cup {cur} ELSE outputs
         /\ stale' = (stale \/ returns)
         /\ pc' = IF status = "ok" /\ tool_of[cur] = FsWrite THEN "artifact" ELSE "charge_tool"
    /\ lines' \in 0 .. 1
    /\ UNCHANGED <<tool_of, deadline, cur, decision, todo, reading, told, ran, consent, refused, gated>>

EmitArtifact == LogStep("artifact", OnArtifactEmitted(st, cur), "charge_tool")

ChargeTool ==
    /\ pc = "charge_tool" /\ lines > 0
    /\ Emit(OnCostCharged(st, 1))
    /\ lines' = lines - 1
    /\ UNCHANGED <<pc, cur, decision, todo, reading, told>> /\ Quiet

(* Back to the loop of resume, which goes on to drive when it is done; a call
   from drive has nothing to do there. *)
EffectDone ==
    /\ pc = "charge_tool" /\ lines = 0
    /\ pc' = "redispatch" /\ cur' = None
    /\ UNCHANGED <<st, log, decision, todo, lines, reading, told, seen>>

-----------------------------------------------------------------------------
(* The process dies, or an append or another `?` of the call fails: what was
   appended stays, the rest of the call is lost. *)
Crash ==
    /\ pc # "idle"
    /\ Return("nothing")
    /\ UNCHANGED <<st, log, seen>>

Calls == Start \/ Resume \/ DecideApproval \/ AnswerClarification \/ AmendBudget

ResumeSteps ==
    \/ ReadClock \/ ExpireApproval \/ DecisionTooLate \/ GrantApproval
    \/ DenyCheckpoint \/ DenyApproval \/ ResumeBlocked \/ EmitRunResumed
    \/ Redispatch \/ EnterDrive

DriveSteps ==
    \/ DeclareIntent \/ TurnLimit \/ DriveReturns \/ Stalled \/ ReturnFailed
    \/ PeriodicCheckpoint \/ SuspendForBudget \/ SampleEnv \/ AssembleContext
    \/ AssemblePanics \/ AskClarification \/ SuspendForAnswer \/ Complete
    \/ CallModel \/ ModelCallFails \/ ModelResponds \/ ModelNotPriced
    \/ ChargeModel \/ UnparseablePlan \/ PlanStep

EffectSteps ==
    \/ RequestEffect \/ RefuseCheckpoint \/ RefuseResult \/ RefuseRun
    \/ HoldCheckpoint \/ HoldRequest \/ HoldRun \/ PreWriteCheckpoint
    \/ EmitDispatched \/ Execute \/ ToolResult \/ EmitArtifact \/ ChargeTool
    \/ EffectDone

Daemon == ResumeSteps \/ DriveSteps \/ EffectSteps

Next == Calls \/ Daemon \/ Crash

Spec == Init /\ [][Next]_vars

(* A call that holds the mutex goes on: its task is polled until it ends, the
   model answers or fails and the executor returns.  Nobody has to call. *)
FairSpec == Spec /\ WF_vars(Daemon)

-----------------------------------------------------------------------------
Labels ==
    {"idle", "declare_intent", "resume", "expire", "deny", "redispatch",
     "drive", "drive_failed", "ask", "model_call", "unpriced", "charge_model",
     "refuse", "refuse_result", "refuse_run", "hold", "hold_request", "hold_run",
     "dispatch", "lease", "execute", "result", "artifact", "charge_tool"}

(* The steps that work on one effect. *)
OnAnEffect ==
    {"deny", "refuse", "refuse_result", "refuse_run", "hold", "hold_request", "hold_run",
     "dispatch", "lease", "execute", "result", "artifact", "charge_tool"}

(* Every variable has its type, and a step on an effect has one. *)
TypeOK ==
    /\ st \in RunState
    /\ logged \in BOOLEAN
    /\ tool_of \in [Effects -> Tools \cup {NoTool}]
    /\ deadline \in [Effects -> Nat]
    /\ outputs \subseteq Effects
    /\ pc \in Labels
    /\ cur \in Option(Effects) /\ (pc \in OnAnEffect => cur \in Effects)
    /\ decision \in {"none", "grant", "deny"}
    /\ todo \subseteq Effects
    /\ lines \in Nat
    /\ reading \in Nat
    /\ told \in Outcomes
    /\ ran \in [Effects -> 0 .. 2]
    /\ consent \in [Effects -> {"nobody", "gateway", "human"}]
    /\ refused \subseteq Effects
    /\ gated \subseteq Effects
    /\ stale \in BOOLEAN

(* How far an effect is in its life by the Log, and what must be true of it
   in the world: nothing happened before its dispatch, and who let it pass. *)
LogAgrees ==
    /\ logged \/ st.pending_effects = NewRun.pending_effects
    /\ \A e \in Effects :
        LET phase == st.pending_effects[e] IN
        /\ ran[e] <= (IF phase \in {"dispatched", "settled"} THEN 1 ELSE 0)
        /\ phase = "absent" => consent[e] = "nobody" /\ e \notin gated
        /\ phase = "requested" => consent[e] \in {"nobody", "gateway"}
        /\ phase = "approved" => consent[e] = "human"
        /\ phase \in {"dispatched", "settled"} => consent[e] # "nobody"
        /\ e \in st.pending_approvals => phase = "requested" /\ consent[e] = "nobody"
        /\ e \in refused => phase = "denied"
        /\ consent[e] = "gateway" => e \notin gated

(* The steps that may have approved effects left to dispatch. *)
OnTodo == {"redispatch", "dispatch", "lease", "execute", "result", "artifact", "charge_tool"}

(* What the call under way knows without looking at the Log again. *)
CallAgrees ==
    LET phase == st.pending_effects[cur]
        undecided == phase = "requested" /\ consent[cur] = "nobody"
                     /\ cur \notin st.pending_approvals
    IN
    /\ pc \in {"refuse", "refuse_result", "hold", "hold_request"} => undecided
    /\ pc = "deny" => cur \in st.pending_approvals
    /\ pc \in {"dispatch", "lease"} =>
           phase = "approved" \/ (phase = "requested" /\ consent[cur] = "gateway")
    /\ pc = "execute" => phase = "dispatched" /\ ran[cur] = 0
    /\ pc = "result" => phase = "dispatched" /\ ran[cur] = 1
    /\ pc = "expire" => todo \subseteq st.pending_approvals
    /\ pc \in OnTodo => todo \subseteq EffectsIn(st, {"approved"})
    /\ pc \in OnTodo \ {"redispatch"} => cur \notin todo
    /\ pc \notin OnTodo \cup {"expire"} => todo = {}

(* Log, world and call agree on every effect, whatever was lost in a crash
   and however often the run was resumed.  (The inductive invariant.) *)
AllAgree == LogAgrees /\ CallAgrees

(* Whatever crashes, resumptions and decisions come, in any order, the side
   effect of a tool call happens at most once (BL-1: resume dispatches again
   only what it finds approved and not dispatched). *)
AtMostOnce == \A e \in Effects : ran[e] <= 1

(* A side effect was let pass by a human, or by the Gateway on a call that no
   structural gate (no manifest; tainted run, not a read) had to stop. *)
RunOnlyWithConsent ==
    \A e \in Effects :
        ran[e] > 0 => \/ consent[e] = "human"
                      \/ consent[e] = "gateway" /\ e \notin gated

(* What the Gateway, a human or the clock refused never runs, before or after
   the refusal, and stays refused. *)
RefusedNeverRuns ==
    \A e \in refused : ran[e] = 0 /\ st.pending_effects[e] = "denied"

(* At most one effect is open, and an open approval is for an effect that is
   still waiting for it: the loops of resume never have two. *)
OneOpenEffect ==
    /\ \A e, f \in Unresolved(st) : e = f
    /\ \A e \in st.pending_approvals : st.pending_effects[e] = "requested"

(* A turn is over exactly when its effect reaches a final state, however it
   gets there: result, refusal of the Gateway, of a human, or expiry. *)
TurnsCountEffects ==
    st.turn = Cardinality(EffectsIn(st, {"settled", "denied"}))

(* A plan that decide may act on was made from a context of this turn that
   holds every answer and output of the Log (an answer sends the turn back to
   assembling; otherwise the model asks the same question again). *)
PlanSeesEverything ==
    st.plan_turn = st.turn =>
        /\ st.last_plan # None
        /\ st.context_turn = st.turn
        /\ ~stale

(* Once content of a tool is in the Log the run is tainted, whatever happened
   between that result and the next context. *)
OutputsTaint == outputs # {} => st.taint = "tainted"

(* What the caller of the last call was told is what the Log says: a run is
   called completed or failed only with the event that made it so, and
   suspended only if it is, or if an approval is open. *)
ToldTheTruth ==
    pc = "idle" =>
        /\ told \in {"completed", "failed"} => st.status = told
        /\ told = "suspended" => st.status = "suspended" \/ st.pending_approvals # {}

(* The two budget gates agree: what decide lets through to the Gateway is
   never stopped by step 5, which in this daemon gets no estimate. *)
GatesAgree ==
    pc = "drive" /\ InLoop /\ DecideRequestEffect(st)
        => Verdict(st.last_plan.tool) # "budget_exceeded"

(* With the budget used up, only an effect a human approved is executed. *)
BrokeOnlyByApproval ==
    pc = "execute" /\ BudgetExhausted(st) => consent[cur] = "human"

(* An approval is granted only before its deadline, by the reading of the
   clock of the very call that grants it. *)
GrantInTime ==
    [][\A e \in Effects :
           consent[e] # "human" /\ consent'[e] = "human" => reading < deadline[e]]_vars

(* Meters never run backwards, whatever the clock does, and a tainted run
   never becomes clean. *)
NothingIsForgotten ==
    [][/\ \A meter \in DOMAIN st.budget_used : st'.budget_used[meter] >= st.budget_used[meter]
       /\ st.taint = "tainted" => st'.taint = "tainted"]_vars

(* Every effect lives by EffectProtocol: an open approval is "held". *)
Lives ==
    INSTANCE EffectProtocol WITH
        phase <- [e \in Effects |->
                    IF e \in st.pending_approvals THEN "held" ELSE st.pending_effects[e]],
        allowed <- {e \in Effects : consent[e] = "gateway"},
        happened <- ran

EffectsFollowTheProtocol == Lives!Spec

(* Every call ends: within MaxTurns turns drive reaches a suspension or a
   final event, whatever model and tools answer. *)
EveryCallEnds == pc # "idle" ~> pc = "idle"

=============================================================================
