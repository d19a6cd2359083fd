-------------------------- MODULE RunRuntimeTurns ---------------------------
(***************************************************************************)
(* The turns of a run, for every set of tools, every policy, every budget  *)
(* and every bound: one effect is open at a time and each ends its turn,   *)
(* so a plan is made from everything the Log holds and taint and meters    *)
(* only grow (Paced is inductive); what is granted, dispatched and told    *)
(* between two looks at the Log is still true at the second.               *)
(***************************************************************************)
EXTENDS RunRuntimeSafety, FiniteSetTheorems

-----------------------------------------------------------------------------
(* The progress of a run: its turn, what it has read and planned, its taint
   and its meters. *)

(* What an event leaves alone that ends no turn and moves no meter. *)
SameProgress(s, t) ==
    /\ t.turn = s.turn /\ t.context_turn = s.context_turn /\ t.plan_turn = s.plan_turn
    /\ t.last_plan = s.last_plan /\ t.taint = s.taint /\ t.budget_used = s.budget_used

(* Most events do. *)
LEMMA PlainMarks ==
    ASSUME NEW s \in RunState, NEW x
    PROVE  /\ SameProgress(s, OnIntentDeclared(s))
           /\ SameProgress(s, OnBudgetAmended(s, x))
           /\ SameProgress(s, OnCheckpoint(s))
           /\ SameProgress(s, OnRunCompleted(s, x))
           /\ SameProgress(s, OnRunSuspended(s, x))
           /\ SameProgress(s, OnRunResumed(s))
           /\ SameProgress(s, OnRunFailed(s))
           /\ SameProgress(s, OnClarificationRequested(s))
<1> USE DEF SameProgress, RunState
<1>1. SameProgress(s, OnIntentDeclared(s)) /\ SameProgress(s, OnCheckpoint(s))
  BY DEF OnIntentDeclared, OnCheckpoint
<1>2. SameProgress(s, OnBudgetAmended(s, x)) /\ SameProgress(s, OnRunCompleted(s, x))
  BY DEF OnBudgetAmended, OnRunCompleted
<1>3. SameProgress(s, OnRunSuspended(s, x)) /\ SameProgress(s, OnRunResumed(s))
  BY DEF OnRunSuspended, OnRunResumed
<1>4. SameProgress(s, OnRunFailed(s)) /\ SameProgress(s, OnClarificationRequested(s))
  BY DEF OnRunFailed, OnClarificationRequested
<1> QED
  BY <1>1, <1>2, <1>3, <1>4

(* Those about an effect that do not end it. *)
LEMMA PlainEvents ==
    ASSUME NEW s \in RunState, NEW e \in Effects
    PROVE  /\ SameProgress(s, OnToolRequested(s, e))
           /\ SameProgress(s, OnEffectDispatched(s, e))
           /\ SameProgress(s, OnApprovalRequested(s, e))
           /\ SameProgress(s, OnApprovalGranted(s, e))
           /\ SameProgress(s, OnArtifactEmitted(s, e))
<1> USE DEF SameProgress, RunState
<1>1. SameProgress(s, OnToolRequested(s, e)) /\ SameProgress(s, OnEffectDispatched(s, e))
  BY DEF OnToolRequested, OnEffectDispatched, SetEffect
<1>2. SameProgress(s, OnApprovalRequested(s, e)) /\ SameProgress(s, OnApprovalGranted(s, e))
  BY DEF OnApprovalRequested, OnApprovalGranted, SetEffect
<1>3. SameProgress(s, OnArtifactEmitted(s, e))
  BY DEF OnArtifactEmitted
<1> QED
  BY <1>1, <1>2, <1>3

(* The steps that append such an event or none. *)
PlainSteps ==
    \/ Start \/ Resume \/ DecideApproval \/ AmendBudget \/ ReadClock \/ DecisionTooLate
    \/ GrantApproval \/ DenyCheckpoint \/ ResumeBlocked \/ EmitRunResumed \/ Redispatch
    \/ EnterDrive \/ DeclareIntent \/ TurnLimit \/ DriveReturns \/ Stalled \/ ReturnFailed
    \/ PeriodicCheckpoint \/ SuspendForBudget \/ AssemblePanics \/ AskClarification
    \/ SuspendForAnswer \/ Complete \/ CallModel \/ ModelCallFails \/ ModelNotPriced
    \/ UnparseablePlan \/ RequestEffect \/ RefuseCheckpoint \/ RefuseRun \/ HoldCheckpoint
    \/ HoldRequest \/ HoldRun \/ PreWriteCheckpoint \/ EmitDispatched \/ Execute
    \/ EmitArtifact \/ EffectDone \/ Crash

(* Before the first event there is nothing. *)
FreshRun == ~logged => st = NewRun

ModelSteps == {"model_call", "unpriced", "charge_model"}

(* They change nothing of the progress, and lead to the model only from there
   or on decide's word. *)
LEMMA PlainStepsKeepProgress ==
    ASSUME TypeOK, FreshRun, PlainSteps
    PROVE  /\ SameProgress(st, st') /\ UNCHANGED <<stale, outputs>>
           /\ logged' \/ UNCHANGED <<st, logged>>
           /\ pc' \in ModelSteps => pc \in ModelSteps \/ DecideCallModel(st)
<1> USE DEF Emit, Goto, Quiet, Return, log, local, seen, ModelSteps
<1>0. st \in RunState /\ SameProgress(st, st) /\ (pc \in OnAnEffect => cur \in Effects)
  BY DEF TypeOK, SameProgress
<1>1. CASE Start
  <2>1. PICK b \in Budgets : st' = OnRunCreated(st, b)
    BY <1>1 DEF Start, FreshRun
  <2>2. SameProgress(st, OnRunCreated(st, b))
    BY <1>0 DEF SameProgress, OnRunCreated, RunState
  <2> QED
    BY <1>1, <2>1, <2>2 DEF Start
<1>2. CASE Resume
  BY <1>0, <1>2 DEF Resume
<1>3. CASE DecideApproval
  BY <1>0, <1>3 DEF DecideApproval
<1>4. CASE AmendBudget
  BY <1>0, <1>4, PlainMarks DEF AmendBudget
<1>5. CASE ReadClock
  BY <1>0, <1>5 DEF ReadClock
<1>6. CASE DecisionTooLate
  BY <1>0, <1>6 DEF DecisionTooLate, Decided
<1>7. CASE GrantApproval
  <2>1. cur \in Effects
    BY <1>0, <1>7 DEF GrantApproval, RunState
  <2> QED
    BY <1>0, <1>7, <2>1, PlainEvents DEF GrantApproval, Decided
<1>8. CASE DenyCheckpoint
  BY <1>0, <1>8, PlainMarks DEF DenyCheckpoint, LogStep
<1>9. CASE ResumeBlocked
  BY <1>0, <1>9 DEF ResumeBlocked
<1>10. CASE EmitRunResumed
  BY <1>0, <1>10, PlainMarks DEF EmitRunResumed
<1>11. CASE Redispatch
  BY <1>0, <1>11 DEF Redispatch
<1>12. CASE EnterDrive
  BY <1>0, <1>12 DEF EnterDrive
<1>13. CASE DeclareIntent
  BY <1>0, <1>13, PlainMarks DEF DeclareIntent, LogStep
<1>14. CASE TurnLimit
  BY <1>0, <1>14, PlainMarks DEF TurnLimit, LogStep
<1>15. CASE DriveReturns
  BY <1>0, <1>15 DEF DriveReturns
<1>16. CASE Stalled
  BY <1>0, <1>16, PlainMarks DEF Stalled, LogStep
<1>17. CASE ReturnFailed
  BY <1>0, <1>17 DEF ReturnFailed
<1>18. CASE PeriodicCheckpoint
  BY <1>0, <1>18, PlainMarks DEF PeriodicCheckpoint, LogStep
<1>19. CASE SuspendForBudget
  BY <1>0, <1>19, PlainMarks DEF SuspendForBudget, LogStep
<1>20. CASE AssemblePanics
  BY <1>0, <1>20 DEF AssemblePanics
<1>21. CASE AskClarification
  BY <1>0, <1>21, PlainMarks DEF AskClarification, LogStep
<1>22. CASE SuspendForAnswer
  BY <1>0, <1>22, PlainMarks DEF SuspendForAnswer, LogStep
<1>23. CASE Complete
  BY <1>0, <1>23, PlainMarks DEF Complete, LogStep
<1>24. CASE CallModel
  BY <1>0, <1>24 DEF CallModel, LogStep
<1>25. CASE ModelCallFails
  BY <1>0, <1>25 DEF ModelCallFails
<1>26. CASE ModelNotPriced
  BY <1>0, <1>26, PlainMarks DEF ModelNotPriced, LogStep
<1>27. CASE UnparseablePlan
  BY <1>0, <1>27, PlainMarks DEF UnparseablePlan, LogStep
<1>28. CASE RequestEffect
  <2>1. PICK e \in FreshEffects(st) : st' = OnToolRequested(st, e)
    BY <1>28 DEF RequestEffect
  <2>2. e \in Effects
    BY DEF FreshEffects, EffectsIn
  <2> QED
    BY <1>0, <1>28, <2>1, <2>2, PlainEvents DEF RequestEffect
<1>29. CASE RefuseCheckpoint
  BY <1>0, <1>29, PlainMarks DEF RefuseCheckpoint, LogStep
<1>30. CASE RefuseRun
  BY <1>0, <1>30, PlainMarks DEF RefuseRun
<1>31. CASE HoldCheckpoint
  BY <1>0, <1>31, PlainMarks DEF HoldCheckpoint, LogStep
<1>32. CASE HoldRequest
  <2>1. cur \in Effects
    BY <1>0, <1>32 DEF HoldRequest, OnAnEffect
  <2> QED
    BY <1>0, <1>32, <2>1, PlainEvents DEF HoldRequest
<1>33. CASE HoldRun
  BY <1>0, <1>33, PlainMarks DEF HoldRun
<1>34. CASE PreWriteCheckpoint
  BY <1>0, <1>34, PlainMarks DEF PreWriteCheckpoint, LogStep
<1>35. CASE EmitDispatched
  <2>1. cur \in Effects
    BY <1>0, <1>35 DEF EmitDispatched, OnAnEffect
  <2> QED
    BY <1>0, <1>35, <2>1, PlainEvents DEF EmitDispatched
<1>36. CASE Execute
  BY <1>0, <1>36 DEF Execute
<1>37. CASE EmitArtifact
  <2>1. cur \in Effects
    BY <1>0, <1>37 DEF EmitArtifact, LogStep, OnAnEffect
  <2> QED
    BY <1>0, <1>37, <2>1, PlainEvents DEF EmitArtifact, LogStep
<1>38. CASE EffectDone
  BY <1>0, <1>38 DEF EffectDone
<1>39. CASE Crash
  BY <1>0, <1>39 DEF Crash
<1> QED
  BY <1>1, <1>2, <1>3, <1>4, <1>5, <1>6, <1>7, <1>8, <1>9, <1>10, <1>11, <1>12, <1>13,
     <1>14, <1>15, <1>16, <1>17, <1>18, <1>19, <1>20, <1>21, <1>22, <1>23, <1>24, <1>25,
     <1>26, <1>27, <1>28, <1>29, <1>30, <1>31, <1>32, <1>33, <1>34, <1>35, <1>36, <1>37,
     <1>38, <1>39
  DEF PlainSteps

(* The effects that are over. *)
Final(s) == EffectsIn(s, {"settled", "denied"})

(* One effect put in another state, as the sets of open and final ones see it. *)
LEMMA OneEffectMoved ==
    ASSUME NEW s \in RunState, NEW t, NEW e \in Effects, NEW x \in EffectStates,
           t.pending_effects = [s.pending_effects EXCEPT ![e] = x]
    PROVE  /\ Unresolved(t) = IF x \in {"requested", "approved", "dispatched"}
                                THEN Unresolved(s) \cup {e} ELSE Unresolved(s) \ {e}
           /\ Final(t) = IF x \in {"settled", "denied"} THEN Final(s) \cup {e} ELSE Final(s) \ {e}
  BY DEF Unresolved, Final, EffectsIn, EffectStates, RunState

(* An event that ends the turn touches nothing the next one has not made yet. *)
EndsTurn(s, t) ==
    /\ t.turn = s.turn + 1 /\ t.context_turn = s.context_turn /\ t.plan_turn = s.plan_turn
    /\ t.last_plan = s.last_plan /\ t.budget_used = s.budget_used

(* With nothing open, the turn ends. *)
LEMMA AdvanceTurnEnds ==
    ASSUME NEW s \in RunState, Unresolved(s) = {}
    PROVE  EndsTurn(s, AdvanceTurn(s)) /\ AdvanceTurn(s).taint = s.taint
  BY DEF EndsTurn, AdvanceTurn, RunState

(* A result, of the only open effect, ends the turn; *)
LEMMA ResultEndsTurn ==
    ASSUME NEW s \in RunState, NEW e \in Effects, NEW t \in TaintLevels,
           NEW status \in {"ok", "error", "denied"}, Unresolved(s) \subseteq {e}
    PROVE  /\ EndsTurn(s, OnToolResult(s, e, status, t))
           /\ OnToolResult(s, e, status, t).taint = Join(s.taint, t)
<1> DEFINE x == IF status = "denied" THEN "denied" ELSE "settled"
           r == SetEffect(s, e, x)
           q == [r EXCEPT !.taint = Join(@, t)]
<1>0. x \in {"settled", "denied"} /\ x \in EffectStates
  BY DEF EffectStates
<1>1. /\ r \in RunState /\ r.pending_effects = [s.pending_effects EXCEPT ![e] = x]
      /\ SameProgress(s, r)
  <2> HIDE DEF x
  <2> QED BY <1>0, SetEffectType DEF SetEffect, RunState, SameProgress
<1>2. /\ q \in RunState /\ q.pending_effects = r.pending_effects
      /\ q.taint = Join(s.taint, t) /\ q.turn = r.turn /\ q.context_turn = r.context_turn
      /\ q.plan_turn = r.plan_turn /\ q.last_plan = r.last_plan /\ q.budget_used = r.budget_used
  <2> HIDE DEF r
  <2> QED BY <1>1, JoinType DEF RunState, SameProgress
<1>3. Unresolved(q) = {}
  <2> HIDE DEF x, q, r
  <2> QED BY <1>0, <1>1, <1>2, OneEffectMoved
<1>4. OnToolResult(s, e, status, t) = AdvanceTurn(q)
  BY DEF OnToolResult
<1> HIDE DEF x, q, r
<1> QED
  BY <1>1, <1>2, <1>3, <1>4, AdvanceTurnEnds DEF EndsTurn, SameProgress

(* so does a refusal of its approval, by a human or the clock. *)
LEMMA RefusalEndsTurn ==
    ASSUME NEW s \in RunState, NEW e \in s.pending_approvals, Unresolved(s) \subseteq {e}
    PROVE  /\ EndsTurn(s, OnApprovalRefused(s, e))
           /\ OnApprovalRefused(s, e).taint = s.taint
<1> DEFINE r == SetEffect(s, e, "denied")
           q == [r EXCEPT !.pending_approvals = @ \ {e}]
<1>0. e \in Effects
  BY DEF RunState
<1>1. /\ r \in RunState /\ r.pending_effects = [s.pending_effects EXCEPT ![e] = "denied"]
      /\ SameProgress(s, r)
  <2>1. r \in RunState
    BY <1>0, SetEffectType DEF EffectStates
  <2>2. r.pending_effects = [s.pending_effects EXCEPT ![e] = "denied"]
    BY DEF SetEffect, RunState
  <2>3. SameProgress(s, r)
    BY DEF SetEffect, RunState, SameProgress
  <2> HIDE DEF r
  <2> QED
    BY <2>1, <2>2, <2>3
<1>2. q \in RunState /\ q.pending_effects = r.pending_effects /\ SameProgress(s, q)
  <2> HIDE DEF r
  <2> QED BY <1>1 DEF RunState, SameProgress
<1>3. Unresolved(q) = {}
  <2> HIDE DEF q, r
  <2>1. "denied" \in EffectStates /\ q.pending_effects = [s.pending_effects EXCEPT ![e] = "denied"]
    BY <1>1, <1>2 DEF EffectStates
  <2>2. Unresolved(q) = Unresolved(s) \ {e}
    BY <1>0, <2>1, OneEffectMoved
  <2> QED BY <2>2
<1>4. OnApprovalRefused(s, e) = AdvanceTurn(q)
  BY DEF OnApprovalRefused
<1> HIDE DEF q, r
<1> QED
  BY <1>2, <1>3, <1>4, AdvanceTurnEnds DEF EndsTurn, SameProgress

(* The steps that end an effect, *)
EndingSteps == ExpireApproval \/ DenyApproval \/ RefuseResult \/ ToolResult

(* each the only one that is open, and its turn with it. *)
LEMMA EndingStepsEndTheTurn ==
    ASSUME TypeOK, AllAgree, OneOpenEffect, EndingSteps
    PROVE  \E e \in Effects :
               /\ Unresolved(st) = {e} /\ e \notin Final(st)
               /\ EndsTurn(st, st') /\ logged'
               /\ \E x \in {"settled", "denied"} :
                      st'.pending_effects = [st.pending_effects EXCEPT ![e] = x]
               /\ st'.pending_approvals = st.pending_approvals \ {e}
               /\ pc' \notin ModelSteps /\ pc # "idle"
               /\ \/ outputs' = outputs /\ st'.taint = st.taint
                  \/ st'.taint = Join(st.taint, "tainted")
                  \/ outputs' = outputs /\ st'.taint = Join(st.taint, "clean")
<1> USE DEF Emit, Goto, Quiet, log, local, seen, ModelSteps
<1>0. st \in RunState
  BY DEF TypeOK
<1>1. ASSUME NEW e \in Effects, st.pending_effects[e] \in {"requested", "approved", "dispatched"}
      PROVE  Unresolved(st) = {e} /\ e \notin Final(st)
  BY <1>1 DEF OneOpenEffect, Unresolved, Final, EffectsIn
<1>2. ASSUME NEW e \in st.pending_approvals, st' = OnApprovalRefused(st, e), logged',
             pc' \in {"expire", "resume"}, outputs' = outputs, pc # "idle"
      PROVE  \E f \in Effects :
               /\ Unresolved(st) = {f} /\ f \notin Final(st)
               /\ EndsTurn(st, st') /\ logged'
               /\ \E x \in {"settled", "denied"} :
                      st'.pending_effects = [st.pending_effects EXCEPT ![f] = x]
               /\ st'.pending_approvals = st.pending_approvals \ {f}
               /\ pc' \notin ModelSteps /\ pc # "idle"
               /\ outputs' = outputs /\ st'.taint = st.taint
  <2>1. e \in Effects /\ st.pending_effects[e] = "requested"
    BY <1>0, <1>2 DEF RunState, AllAgree, LogAgrees
  <2>2. Unresolved(st) = {e} /\ e \notin Final(st)
    BY <1>1, <2>1
  <2>3. EndsTurn(st, st') /\ st'.taint = st.taint
    BY <1>0, <1>2, <2>2, RefusalEndsTurn
  <2>4. /\ st'.pending_effects = [st.pending_effects EXCEPT ![e] = "denied"]
        /\ st'.pending_approvals = st.pending_approvals \ {e}
    BY <1>0, <1>2, ApprovalEvents
  <2> QED
    BY <1>2, <2>1, <2>2, <2>3, <2>4
<1>3. CASE ExpireApproval
  <2>1. \E e \in st.pending_approvals : st' = OnApprovalRefused(st, e)
    BY <1>3 DEF ExpireApproval, AllAgree, CallAgrees
  <2> QED
    BY <1>2, <1>3, <2>1 DEF ExpireApproval
<1>4. CASE DenyApproval
  <2>1. cur \in st.pending_approvals
    BY <1>4 DEF DenyApproval, AllAgree, CallAgrees
  <2> QED
    BY <1>2, <1>4, <2>1 DEF DenyApproval, Decided
<1>5. CASE RefuseResult
  <2>1. /\ cur \in Effects /\ st.pending_effects[cur] = "requested"
        /\ cur \notin st.pending_approvals
    BY <1>5 DEF RefuseResult, TypeOK, OnAnEffect, AllAgree, CallAgrees
  <2>2. Unresolved(st) = {cur} /\ cur \notin Final(st)
    BY <1>1, <2>1
  <2>3. st' = OnToolResult(st, cur, "denied", "clean") /\ "clean" \in TaintLevels
    BY <1>5 DEF RefuseResult, TaintLevels
  <2>4. EndsTurn(st, st') /\ st'.taint = Join(st.taint, "clean")
    BY <1>0, <2>1, <2>2, <2>3, ResultEndsTurn
  <2>5. /\ st'.pending_effects = [st.pending_effects EXCEPT ![cur] = "denied"]
        /\ st'.pending_approvals = st.pending_approvals
    BY <1>0, <2>1, <2>3, RefusedResultEvent
  <2> QED
    BY <1>5, <2>1, <2>2, <2>4, <2>5 DEF RefuseResult
<1>6. CASE ToolResult
  <2>1. cur \in Effects /\ st.pending_effects[cur] = "dispatched"
    BY <1>6 DEF ToolResult, TypeOK, OnAnEffect, AllAgree, CallAgrees
  <2>2. Unresolved(st) = {cur} /\ cur \notin Final(st) /\ cur \notin st.pending_approvals
    BY <1>1, <2>1 DEF AllAgree, LogAgrees
  <2>3. PICK status \in {"ok", "error"} :
            LET taint == IF tool_of[cur] = FsWrite THEN "clean" ELSE "tainted"
                returns == status = "ok" /\ tool_of[cur] # FsWrite
            IN  /\ st' = OnToolResult(st, cur, status, taint)
                /\ outputs' = IF returns THEN outputs \cup {cur} ELSE outputs
    BY <1>6 DEF ToolResult
  <2>4. PICK taint \in TaintLevels :
            /\ st' = OnToolResult(st, cur, status, taint)
            /\ taint = "tainted" \/ (taint = "clean" /\ outputs' = outputs)
    BY <2>3 DEF TaintLevels
  <2>5. EndsTurn(st, st') /\ st'.taint = Join(st.taint, taint)
    BY <1>0, <2>1, <2>2, <2>4, ResultEndsTurn
  <2>6. /\ st'.pending_effects = [st.pending_effects EXCEPT ![cur] = "settled"]
        /\ st'.pending_approvals = st.pending_approvals
    BY <1>0, <2>1, <2>4, SettledResultEvent
  <2>7. logged' /\ pc' \in {"artifact", "charge_tool"} /\ pc = "result"
    BY <1>6 DEF ToolResult
  <2> QED
    BY <2>1, <2>2, <2>4, <2>5, <2>6, <2>7
<1> QED
  BY <1>3, <1>4, <1>5, <1>6 DEF EndingSteps

(* The other steps end no effect, and open one only when none is open. *)
LEMMA OtherStepsEndNothing ==
    ASSUME TypeOK, AllAgree, FreshRun,
           \/ QuietSteps \/ Start \/ GrantApproval \/ RequestEffect \/ HoldRequest
           \/ EmitDispatched \/ Execute
    PROVE  /\ Final(st') = Final(st)
           /\ \/ Unresolved(st') = Unresolved(st)
              \/ Unresolved(st) = {} /\ \E e \in Effects : Unresolved(st') = {e}
<1> USE DEF Emit, Goto, Quiet, log, local, seen
<1>0. st \in RunState
  BY DEF TypeOK
<1>1. ASSUME st'.pending_effects = st.pending_effects
      PROVE  Final(st') = Final(st) /\ Unresolved(st') = Unresolved(st)
  BY <1>1 DEF Final, Unresolved, EffectsIn
<1>2. ASSUME NEW e \in Effects, NEW x \in {"approved", "dispatched"},
             st.pending_effects[e] \in {"requested", "approved"},
             st'.pending_effects = [st.pending_effects EXCEPT ![e] = x]
      PROVE  Final(st') = Final(st) /\ Unresolved(st') = Unresolved(st)
  <2>1. x \in EffectStates /\ x \notin {"settled", "denied"}
        /\ x \in {"requested", "approved", "dispatched"}
    BY DEF EffectStates
  <2>2. Unresolved(st') = Unresolved(st) \cup {e} /\ Final(st') = Final(st) \ {e}
    BY <1>0, <1>2, <2>1, OneEffectMoved
  <2>3. e \in Unresolved(st) /\ e \notin Final(st)
    BY <1>2 DEF Unresolved, Final, EffectsIn
  <2> QED
    BY <2>2, <2>3
<1>3. CASE QuietSteps
  BY <1>1, <1>3, QuietStepsChangeNothing DEF SameEffects
<1>4. CASE Start
  <2>1. PICK b \in Budgets : st' = OnRunCreated(st, b)
    BY <1>4 DEF Start, FreshRun
  <2>2. st'.pending_effects = st.pending_effects
    BY <1>0, <2>1 DEF OnRunCreated, RunState
  <2> QED
    BY <1>1, <2>2
<1>5. CASE GrantApproval
  <2>1. cur \in st.pending_approvals /\ st' = OnApprovalGranted(st, cur) /\ cur \in Effects
    BY <1>0, <1>5 DEF GrantApproval, RunState
  <2>2. st.pending_effects[cur] = "requested"
    BY <2>1 DEF AllAgree, LogAgrees
  <2>3. st'.pending_effects = [st.pending_effects EXCEPT ![cur] = "approved"]
    BY <1>0, <2>1, <2>2, ApprovalEvents
  <2> QED
    BY <1>2, <2>1, <2>2, <2>3
<1>6. CASE RequestEffect
  <2>1. PICK e \in FreshEffects(st) : st' = OnToolRequested(st, e)
    BY <1>6 DEF RequestEffect
  <2>2. e \in Effects /\ e \notin Final(st)
    BY <2>1 DEF FreshEffects, Final, EffectsIn
  <2>3. st'.pending_effects = [st.pending_effects EXCEPT ![e] = "requested"]
    BY <1>0, <2>1, <2>2, EffectEvents
  <2>4. "requested" \in EffectStates
    BY DEF EffectStates
  <2>5. Unresolved(st') = Unresolved(st) \cup {e} /\ Final(st') = Final(st) \ {e}
    BY <1>0, <2>2, <2>3, <2>4, OneEffectMoved
  <2>6. Unresolved(st) = {}
    BY <1>6 DEF RequestEffect, DecideRequestEffect, DecideFollowPlan, DecideStep
  <2> QED
    BY <2>2, <2>5, <2>6
<1>7. CASE HoldRequest
  <2>1. cur \in Effects /\ st' = OnApprovalRequested(st, cur)
    BY <1>7 DEF HoldRequest, TypeOK, OnAnEffect
  <2> QED
    BY <1>0, <1>1, <2>1, EffectEvents
<1>8. CASE EmitDispatched
  <2>1. /\ cur \in Effects /\ st' = OnEffectDispatched(st, cur)
        /\ st.pending_effects[cur] \in {"requested", "approved"}
    BY <1>8 DEF EmitDispatched, TypeOK, OnAnEffect, AllAgree, CallAgrees
  <2>2. st'.pending_effects = [st.pending_effects EXCEPT ![cur] = "dispatched"]
    BY <1>0, <2>1, EffectEvents
  <2> QED
    BY <1>2, <2>1, <2>2
<1>9. CASE Execute
  BY <1>1, <1>9 DEF Execute
<1> QED
  BY <1>3, <1>4, <1>5, <1>6, <1>7, <1>8, <1>9

(* The steps that end no effect but change the progress of the run. *)
LEMMA ReadingSteps ==
    ASSUME TypeOK, AnswerClarification \/ SampleEnv \/ AssembleContext \/ ModelResponds
                   \/ ChargeModel \/ PlanStep \/ ChargeTool
    PROVE  /\ logged' /\ st'.turn = st.turn /\ outputs' = outputs
           /\ st.taint = "tainted" => st'.taint = "tainted"
           /\ \/ /\ st'.context_turn = st.context_turn /\ st'.plan_turn = st.plan_turn
                 /\ st'.last_plan = st.last_plan /\ stale' = stale
                 /\ pc' \in ModelSteps => pc \in ModelSteps
              \/ /\ st'.context_turn = None /\ st'.plan_turn = None /\ pc' \notin ModelSteps
              \/ /\ DecideAssembleContext(st) /\ st'.context_turn = st.turn /\ ~stale'
                 /\ st'.plan_turn = st.plan_turn /\ pc' \notin ModelSteps
              \/ /\ pc \in ModelSteps /\ pc' \notin ModelSteps /\ stale' = stale
                 /\ st'.context_turn = st.context_turn
                 /\ st'.plan_turn = st.turn /\ st'.last_plan \in Plans
<1> USE DEF Emit, Goto, Quiet, log, local, seen, ModelSteps
<1>0. st \in RunState
  BY DEF TypeOK
<1>1. CASE AnswerClarification
  BY <1>0, <1>1 DEF AnswerClarification, OnClarificationAnswered, RunState
<1>2. CASE SampleEnv
  <2>1. PICK now \in Times : st' = OnEnvSampled(st, now)
    BY <1>2 DEF SampleEnv, LogStep
  <2>2. /\ st'.turn = st.turn /\ st'.context_turn = st.context_turn /\ st'.taint = st.taint
        /\ st'.plan_turn = st.plan_turn /\ st'.last_plan = st.last_plan
    BY <1>0, <2>1 DEF OnEnvSampled, RunState
  <2> QED
    BY <1>2, <2>2 DEF SampleEnv, LogStep
<1>3. CASE AssembleContext
  <2>1. PICK level : st' = OnContextAssembled(st, level)
    BY <1>3 DEF AssembleContext
  <2>2. /\ st'.turn = st.turn /\ st'.context_turn = st.turn
        /\ st'.plan_turn = st.plan_turn
        /\ st.taint = "tainted" => st'.taint = "tainted"
    BY <1>0, <2>1 DEF OnContextAssembled, RunState, Join
  <2> QED
    BY <1>3, <2>2 DEF AssembleContext
<1>4. CASE ModelResponds
  <2>1. PICK usage \in 0 .. 1 : st' = OnModelResponded(st, usage)
    BY <1>4 DEF ModelResponds
  <2> QED
    BY <1>0, <1>4, <2>1 DEF ModelResponds, OnModelResponded, RunState
<1>5. CASE ChargeModel
  BY <1>0, <1>5 DEF ChargeModel, OnCostCharged, RunState
<1>6. CASE PlanStep
  <2>1. PICK plan \in Plans : st' = OnPlanStep(st, plan)
    BY <1>6 DEF PlanStep, LogStep
  <2> QED
    BY <1>0, <1>6, <2>1 DEF PlanStep, LogStep, OnPlanStep, RunState
<1>7. CASE ChargeTool
  BY <1>0, <1>7 DEF ChargeTool, OnCostCharged, RunState
<1> QED
  BY <1>1, <1>2, <1>3, <1>4, <1>5, <1>6, <1>7

(* How far the run has come, and what its marks of progress say. *)
Paced ==
    /\ FreshRun
    /\ OneOpenEffect
    /\ TurnsCountEffects
    /\ OutputsTaint
    /\ st.context_turn = None \/ st.context_turn <= st.turn
    /\ st.plan_turn = None \/ st.plan_turn <= st.turn
    /\ st.context_turn = st.turn => ~stale
    /\ st.plan_turn = st.turn => st.last_plan # None /\ st.context_turn = st.turn
    /\ pc \in ModelSteps => st.context_turn = st.turn

(* A step that ends an effect, *)
LEMMA EndingStepsPaced ==
    ASSUME TypeOK, AllAgree, Paced, EndingSteps, TypeOK', AllAgree'
    PROVE  Paced'
<1>1. PICK e \in Effects :
               /\ Unresolved(st) = {e} /\ e \notin Final(st)
               /\ EndsTurn(st, st') /\ logged'
               /\ \E x \in {"settled", "denied"} :
                      st'.pending_effects = [st.pending_effects EXCEPT ![e] = x]
               /\ st'.pending_approvals = st.pending_approvals \ {e}
               /\ pc' \notin ModelSteps /\ pc # "idle"
               /\ \/ outputs' = outputs /\ st'.taint = st.taint
                  \/ st'.taint = Join(st.taint, "tainted")
                  \/ outputs' = outputs /\ st'.taint = Join(st.taint, "clean")
  BY EndingStepsEndTheTurn DEF Paced
<1>2. PICK x \in {"settled", "denied"} :
               st'.pending_effects = [st.pending_effects EXCEPT ![e] = x]
  BY <1>1
<1>3. st \in RunState /\ x \in EffectStates
  BY DEF TypeOK, EffectStates
<1>4. Unresolved(st') = {} /\ Final(st') = Final(st) \cup {e}
  BY <1>1, <1>2, <1>3, OneEffectMoved
<1>5. OneOpenEffect'
  BY <1>4 DEF OneOpenEffect, AllAgree, LogAgrees, TypeOK, RunState
<1>6. TurnsCountEffects'
  <2>1. IsFiniteSet(Effects)
    BY FS_Interval, EffectsAssumption DEF Effects
  <2>2. IsFiniteSet(Final(st))
    BY <2>1, FS_Subset DEF Final, EffectsIn
  <2>3. Cardinality(Final(st) \cup {e}) = Cardinality(Final(st)) + 1
    BY <1>1, <2>2, FS_AddElement
  <2> QED
    BY <1>1, <1>4, <2>3 DEF TurnsCountEffects, Paced, EndsTurn, Final
<1>7. OutputsTaint'
  BY <1>1 DEF OutputsTaint, Paced, Join
<1>8. st.turn \in Nat /\ st.turn # None /\ st.turn + 1 # None
      /\ st.context_turn \in Option(Nat) /\ st.plan_turn \in Option(Nat)
  BY <1>3, NoneAssumption DEF RunState
<1>9. /\ st'.context_turn = None \/ st'.context_turn <= st'.turn
      /\ st'.plan_turn = None \/ st'.plan_turn <= st'.turn
      /\ st'.context_turn # st'.turn /\ st'.plan_turn # st'.turn
  BY <1>1, <1>8 DEF Paced, EndsTurn, Option
<1> QED
  BY <1>1, <1>5, <1>6, <1>7, <1>9 DEF Paced, FreshRun

(* and one that does not. *)
LEMMA OtherStepsPaced ==
    ASSUME TypeOK, AllAgree, Paced, Next, ~EndingSteps, TypeOK', AllAgree'
    PROVE  Paced'
<1> USE DEF Paced
<1>0. /\ st \in RunState /\ st.turn \in Nat /\ st.turn # None
      /\ st.context_turn \in Option(Nat) /\ st.plan_turn \in Option(Nat)
  BY NoneAssumption DEF TypeOK, RunState
<1>1. /\ Final(st') = Final(st)
      /\ \/ Unresolved(st') = Unresolved(st)
         \/ Unresolved(st) = {} /\ \E e \in Effects : Unresolved(st') = {e}
  BY OtherStepsEndNothing DEF Next, Calls, Daemon, ResumeSteps, DriveSteps, EffectSteps,
     EndingSteps, QuietSteps
<1>2. OneOpenEffect'
  <2>1. \A e, f \in Unresolved(st') : e = f
    BY <1>1 DEF OneOpenEffect
  <2>2. \A e \in st'.pending_approvals : e \in Effects => st'.pending_effects[e] = "requested"
    BY DEF AllAgree, LogAgrees
  <2> QED
    BY <2>1, <2>2 DEF OneOpenEffect, TypeOK, RunState
<1>3. PlainSteps \/ AnswerClarification \/ SampleEnv \/ AssembleContext \/ ModelResponds
      \/ ChargeModel \/ PlanStep \/ ChargeTool
  BY DEF Next, Calls, Daemon, ResumeSteps, DriveSteps, EffectSteps, EndingSteps, PlainSteps
<1>4. CASE PlainSteps
  <2>1. /\ SameProgress(st, st') /\ UNCHANGED <<stale, outputs>>
        /\ logged' \/ UNCHANGED <<st, logged>>
        /\ pc' \in ModelSteps => pc \in ModelSteps \/ DecideCallModel(st)
    BY <1>4, PlainStepsKeepProgress
  <2>2. TurnsCountEffects'
    BY <1>1, <2>1 DEF TurnsCountEffects, SameProgress, Final
  <2>3. pc' \in ModelSteps => st.context_turn = st.turn
    BY <2>1 DEF DecideCallModel
  <2> QED
    BY <1>2, <2>1, <2>2, <2>3 DEF SameProgress, OutputsTaint, FreshRun
<1>5. CASE AnswerClarification \/ SampleEnv \/ AssembleContext \/ ModelResponds
           \/ ChargeModel \/ PlanStep \/ ChargeTool
  <2>1. /\ logged' /\ st'.turn = st.turn /\ outputs' = outputs
        /\ st.taint = "tainted" => st'.taint = "tainted"
        /\ \/ /\ st'.context_turn = st.context_turn /\ st'.plan_turn = st.plan_turn
              /\ st'.last_plan = st.last_plan /\ stale' = stale
              /\ pc' \in ModelSteps => pc \in ModelSteps
           \/ /\ st'.context_turn = None /\ st'.plan_turn = None /\ pc' \notin ModelSteps
           \/ /\ DecideAssembleContext(st) /\ st'.context_turn = st.turn /\ ~stale'
              /\ st'.plan_turn = st.plan_turn /\ pc' \notin ModelSteps
           \/ /\ pc \in ModelSteps /\ pc' \notin ModelSteps /\ stale' = stale
              /\ st'.context_turn = st.context_turn
              /\ st'.plan_turn = st.turn /\ st'.last_plan \in Plans
    BY <1>5, ReadingSteps
  <2>2. TurnsCountEffects'
    BY <1>1, <2>1 DEF TurnsCountEffects, Final
  <2>3. st.context_turn # st.turn => st.plan_turn # st.turn
    OBVIOUS
  <2>4. \A plan \in Plans : plan # None
    BY NoPlanAssumption
  <2> QED
    BY <1>0, <1>2, <2>1, <2>2, <2>3, <2>4 DEF OutputsTaint, FreshRun, DecideAssembleContext
<1> QED
  BY <1>3, <1>4, <1>5

(* The pace is kept from the first event on. *)
LEMMA AlwaysPaced == Spec => [](TypeOK /\ AllAgree /\ Paced)
<1>1. Init => Paced
  <2> SUFFICES ASSUME Init PROVE Paced
    OBVIOUS
  <2>1. st = NewRun /\ outputs = {} /\ stale = FALSE /\ pc = "idle"
    BY DEF Init
  <2>2. Unresolved(st) = {} /\ Final(st) = {}
    BY <2>1 DEF Unresolved, Final, EffectsIn, NewRun
  <2>3. st.turn = 0 /\ st.context_turn = None /\ st.plan_turn = None /\ st.pending_approvals = {}
    BY <2>1 DEF NewRun
  <2>4. OneOpenEffect /\ TurnsCountEffects
    BY <2>2, <2>3, FS_EmptySet DEF OneOpenEffect, TurnsCountEffects, Final
  <2> QED
    BY <2>1, <2>3, <2>4, NoneAssumption DEF Paced, FreshRun, OutputsTaint, ModelSteps
<1>2. TypeOK /\ AllAgree /\ Paced /\ [Next]_vars /\ TypeOK' /\ AllAgree' => Paced'
  <2> SUFFICES ASSUME TypeOK, AllAgree, Paced, [Next]_vars, TypeOK', AllAgree' PROVE Paced'
    OBVIOUS
  <2>1. CASE UNCHANGED vars
    BY <2>1 DEF vars, log, local, seen, Paced, FreshRun, OneOpenEffect, TurnsCountEffects,
       OutputsTaint, Unresolved, EffectsIn
  <2> QED
    BY <2>1, EndingStepsPaced, OtherStepsPaced
<1> QED
  BY AlwaysAgree, <1>1, <1>2, PTL DEF Spec

(* At most one effect is open, and what waits for a human is it. *)
THEOREM OneEffectIsOpen == Spec => []OneOpenEffect
<1>1. Paced => OneOpenEffect
  BY DEF Paced
<1> QED
  BY AlwaysPaced, <1>1, PTL

(* The turn of a run is the number of its effects that ended, by whatever
   road and across however many crashes. *)
THEOREM TurnsAreCounted == Spec => []TurnsCountEffects
<1>1. Paced => TurnsCountEffects
  BY DEF Paced
<1> QED
  BY AlwaysPaced, <1>1, PTL

(* No plan is acted on that was made without an answer or an output. *)
THEOREM PlansSeeEverything == Spec => []PlanSeesEverything
<1>1. Paced => PlanSeesEverything
  BY DEF Paced, PlanSeesEverything
<1> QED
  BY AlwaysPaced, <1>1, PTL

(* The output of a tool taints the run for good. *)
THEOREM OutputsAlwaysTaint == Spec => []OutputsTaint
<1>1. Paced => OutputsTaint
  BY DEF Paced
<1> QED
  BY AlwaysPaced, <1>1, PTL

-----------------------------------------------------------------------------
(* Budgets, deadlines and what the caller is told. *)

(* What decide lets through, step 5 of the Gateway lets through. *)
LEMMA UnspentIsNotOverBudget ==
    ASSUME NEW s, ~BudgetExhausted(s)
    PROVE  ~OverBudget(s.budget, s.budget_used, None)
  BY DEF BudgetExhausted, OverBudget

(* The two budget gates agree on every budget, policy and tool. *)
THEOREM BudgetGatesAgree == Spec => []GatesAgree
<1>1. GatesAgree
  <2> SUFFICES ASSUME DecideRequestEffect(st)
               PROVE  Verdict(st.last_plan.tool) # "budget_exceeded"
    BY DEF GatesAgree
  <2> DEFINE tool == st.last_plan.tool
             answer == Admit(TRUE, Policy, tool, Manifest[tool], st.taint, "live",
                             st.budget, st.budget_used)
  <2>1. ~OverBudget(st.budget, st.budget_used, None)
    BY UnspentIsNotOverBudget DEF DecideRequestEffect, DecideFollowPlan, DecideStep
  <2>2. \A d, class : Finish(d, class, "live", None, st.budget, st.budget_used)
                         # "budget_exceeded"
    BY <2>1 DEF Finish
  <2>3. answer # "budget_exceeded"
    BY <2>2 DEF Admit
  <2>4. Verdict(tool) =
          IF answer = "need_preview"
            THEN Finish(Judge(Policy, tool, Manifest[tool], st.taint), Class(tool), "live",
                        None, st.budget, st.budget_used)
            ELSE answer
    BY DEF Verdict
  <2> HIDE DEF answer, tool
  <2>5. Verdict(tool) # "budget_exceeded"
    BY <2>2, <2>3, <2>4
  <2> QED
    BY <2>5 DEF tool
<1> QED
  BY <1>1, PTL

(* From the Gateway's leave to the dispatch nothing is charged. *)
LeaveIsPaidFor ==
    pc \in {"dispatch", "lease", "execute"} /\ consent[cur] = "gateway" => ~BudgetExhausted(st)

(* It holds through every step. *)
LEMMA LeaveStaysPaidFor ==
    ASSUME TypeOK, AllAgree, LeaveIsPaidFor, Next
    PROVE  LeaveIsPaidFor'
<1> USE DEF Emit, Goto, Quiet, Return, log, local, seen
<1>0. st \in RunState /\ consent \in [Effects -> {"nobody", "gateway", "human"}]
  BY DEF TypeOK
<1>1. ASSUME NEW s, s.budget = st.budget, s.budget_used = st.budget_used,
             st' = s, ~BudgetExhausted(st)
      PROVE  ~BudgetExhausted(st')
  BY <1>1 DEF BudgetExhausted
<1>2. CASE RequestEffect
  <2>1. PICK e \in FreshEffects(st) : st' = OnToolRequested(st, e)
    BY <1>2 DEF RequestEffect
  <2>2. ~BudgetExhausted(st)
    BY <1>2 DEF RequestEffect, DecideRequestEffect, DecideFollowPlan, DecideStep
  <2>3. st'.budget = st.budget /\ st'.budget_used = st.budget_used
    BY <1>0, <2>1 DEF OnToolRequested, SetEffect, RunState
  <2> QED
    BY <1>1, <2>2, <2>3 DEF LeaveIsPaidFor
<1>3. CASE Redispatch
  <2>1. cur' \in todo /\ consent' = consent
    BY <1>3 DEF Redispatch
  <2>2. \A e \in todo : e \in Effects /\ st.pending_effects[e] = "approved"
    BY <1>3 DEF Redispatch, AllAgree, CallAgrees, OnTodo, EffectsIn
  <2>3. consent'[cur'] = "human"
    BY <2>1, <2>2 DEF AllAgree, LogAgrees
  <2> QED
    BY <2>3 DEF LeaveIsPaidFor
<1>4. CASE PreWriteCheckpoint
  <2>1. st'.budget = st.budget /\ st'.budget_used = st.budget_used
    BY <1>0, <1>4 DEF PreWriteCheckpoint, LogStep, OnCheckpoint, RunState
  <2> QED
    BY <1>1, <1>4, <2>1 DEF LeaveIsPaidFor, PreWriteCheckpoint, LogStep
<1>5. CASE EmitDispatched
  <2>1. st'.budget = st.budget /\ st'.budget_used = st.budget_used
    BY <1>0, <1>5 DEF EmitDispatched, OnEffectDispatched, SetEffect, RunState
  <2> QED
    BY <1>1, <1>5, <2>1 DEF LeaveIsPaidFor, EmitDispatched
<1>6. CASE Calls
  BY <1>6 DEF Calls, Start, Resume, DecideApproval, AnswerClarification, AmendBudget, LeaveIsPaidFor
<1>7. CASE ResumeSteps /\ ~Redispatch
  BY <1>7 DEF ResumeSteps, ReadClock, ExpireApproval, DecisionTooLate, GrantApproval,
     DenyCheckpoint, DenyApproval, ResumeBlocked, EmitRunResumed, EnterDrive, LogStep,
     Decided, LeaveIsPaidFor
<1>8. CASE DriveSteps
  BY <1>8 DEF DriveSteps, DeclareIntent, TurnLimit, DriveReturns, Stalled, ReturnFailed,
     PeriodicCheckpoint, SuspendForBudget, SampleEnv, AssembleContext, AssemblePanics,
     AskClarification, SuspendForAnswer, Complete, CallModel, ModelCallFails, ModelResponds,
     ModelNotPriced, ChargeModel, UnparseablePlan, PlanStep, LogStep, LeaveIsPaidFor
<1>9. CASE EffectSteps /\ ~RequestEffect /\ ~PreWriteCheckpoint /\ ~EmitDispatched
  BY <1>9 DEF EffectSteps, RefuseCheckpoint, RefuseResult, RefuseRun, HoldCheckpoint,
     HoldRequest, HoldRun, Execute, ToolResult, EmitArtifact, ChargeTool, EffectDone, LogStep,
     LeaveIsPaidFor
<1>10. CASE Crash
  BY <1>10 DEF Crash, LeaveIsPaidFor
<1> QED
  BY <1>2, <1>3, <1>4, <1>5, <1>6, <1>7, <1>8, <1>9, <1>10 DEF Next, Daemon

(* With the budget used up only a human's approval still runs anything. *)
THEOREM BrokeRunsOnlyApproved == Spec => []BrokeOnlyByApproval
<1>1. Init => LeaveIsPaidFor
  BY DEF Init, LeaveIsPaidFor
<1>2. TypeOK /\ AllAgree /\ LeaveIsPaidFor /\ [Next]_vars => LeaveIsPaidFor'
  <2>1. UNCHANGED vars /\ LeaveIsPaidFor => LeaveIsPaidFor'
    BY DEF vars, log, local, seen, LeaveIsPaidFor, BudgetExhausted
  <2> QED
    BY <2>1, LeaveStaysPaidFor
<1>3. TypeOK /\ AllAgree /\ LeaveIsPaidFor => BrokeOnlyByApproval
  BY DEF TypeOK, OnAnEffect, AllAgree, LogAgrees, CallAgrees, LeaveIsPaidFor, BrokeOnlyByApproval
<1> QED
  BY AlwaysAgree, <1>1, <1>2, <1>3, PTL DEF Spec

(* What the sweep of overdue approvals has left is in time. *)
Swept == pc = "expire" => \A e \in st.pending_approvals \ todo : reading < deadline[e]

(* Every approval left is younger than the reading, at each step of the sweep. *)
LEMMA SweepLeavesNothingOverdue ==
    ASSUME TypeOK, AllAgree, Swept, Next
    PROVE  Swept'
<1> USE DEF Emit, Goto, Quiet, Return, log, local, seen
<1>0. st \in RunState /\ deadline \in [Effects -> Nat]
  BY DEF TypeOK
<1>1. CASE ReadClock
  <2>1. PICK now \in Times : reading' = now /\ todo' = Overdue(now)
    BY <1>1 DEF ReadClock
  <2>2. now \in Nat /\ \A e \in st.pending_approvals : e \in Effects /\ deadline[e] \in Nat
    BY <1>0, TimeAssumption DEF RunState
  <2>3. \A e \in st.pending_approvals \ todo' : now < deadline[e]
    BY <2>1, <2>2 DEF Overdue
  <2> QED
    BY <1>1, <2>1, <2>3 DEF ReadClock, Swept
<1>2. CASE ExpireApproval
  <2>1. PICK e \in todo : st' = OnApprovalRefused(st, e) /\ todo' = todo \ {e}
    BY <1>2 DEF ExpireApproval
  <2>2. e \in st.pending_approvals
    BY <1>2, <2>1 DEF ExpireApproval, AllAgree, CallAgrees
  <2>3. st'.pending_approvals = st.pending_approvals \ {e}
    BY <1>0, <2>1, <2>2, ApprovalEvents
  <2> QED
    BY <1>2, <2>1, <2>3 DEF ExpireApproval, Swept
<1>3. CASE Calls
  BY <1>3 DEF Calls, Start, Resume, DecideApproval, AnswerClarification, AmendBudget, Swept
<1>4. CASE ResumeSteps /\ ~ReadClock /\ ~ExpireApproval
  BY <1>4 DEF ResumeSteps, DecisionTooLate, GrantApproval, DenyCheckpoint, DenyApproval,
     ResumeBlocked, EmitRunResumed, Redispatch, EnterDrive, LogStep, Decided, Swept
<1>5. CASE DriveSteps
  BY <1>5 DEF DriveSteps, DeclareIntent, TurnLimit, DriveReturns, Stalled, ReturnFailed,
     PeriodicCheckpoint, SuspendForBudget, SampleEnv, AssembleContext, AssemblePanics,
     AskClarification, SuspendForAnswer, Complete, CallModel, ModelCallFails, ModelResponds,
     ModelNotPriced, ChargeModel, UnparseablePlan, PlanStep, LogStep, Swept
<1>6. CASE EffectSteps
  BY <1>6 DEF EffectSteps, RequestEffect, RefuseCheckpoint, RefuseResult, RefuseRun,
     HoldCheckpoint, HoldRequest, HoldRun, PreWriteCheckpoint, EmitDispatched, Execute,
     ToolResult, EmitArtifact, ChargeTool, EffectDone, LogStep, Swept
<1>7. CASE Crash
  BY <1>7 DEF Crash, Swept
<1> QED
  BY <1>1, <1>2, <1>3, <1>4, <1>5, <1>6, <1>7 DEF Next, Daemon

(* Only a decision grants, and only what the sweep has left. *)
LEMMA GrantsAreInTime ==
    ASSUME TypeOK, Swept, Next, NEW e \in Effects, consent[e] # "human", consent'[e] = "human"
    PROVE  reading < deadline[e]
<1> USE DEF Goto, Quiet, Return, log, local, seen
<1>0. consent \in [Effects -> {"nobody", "gateway", "human"}]
  BY DEF TypeOK
<1>1. CASE GrantApproval
  <2>1. pc = "expire" /\ todo = {} /\ cur \in st.pending_approvals
        /\ consent' = [consent EXCEPT ![cur] = "human"]
    BY <1>1 DEF GrantApproval
  <2>2. e = cur
    BY <1>0, <2>1
  <2> QED
    BY <2>1, <2>2 DEF Swept
<1>2. CASE RequestEffect
  BY <1>0, <1>2 DEF RequestEffect, FreshEffects, EffectsIn
<1>3. CASE Calls
  BY <1>3 DEF Calls, Start, Resume, DecideApproval, AnswerClarification, AmendBudget
<1>4. CASE ResumeSteps /\ ~GrantApproval
  BY <1>4 DEF ResumeSteps, ReadClock, ExpireApproval, DecisionTooLate, DenyCheckpoint,
     DenyApproval, ResumeBlocked, EmitRunResumed, Redispatch, EnterDrive, LogStep, Decided
<1>5. CASE DriveSteps
  BY <1>5 DEF DriveSteps, DeclareIntent, TurnLimit, DriveReturns, Stalled, ReturnFailed,
     PeriodicCheckpoint, SuspendForBudget, SampleEnv, AssembleContext, AssemblePanics,
     AskClarification, SuspendForAnswer, Complete, CallModel, ModelCallFails, ModelResponds,
     ModelNotPriced, ChargeModel, UnparseablePlan, PlanStep, LogStep
<1>6. CASE EffectSteps /\ ~RequestEffect
  BY <1>6 DEF EffectSteps, RefuseCheckpoint, RefuseResult, RefuseRun,
     HoldCheckpoint, HoldRequest, HoldRun, PreWriteCheckpoint, EmitDispatched, Execute,
     ToolResult, EmitArtifact, ChargeTool, EffectDone, LogStep
<1>7. CASE Crash
  BY <1>7 DEF Crash
<1> QED
  BY <1>1, <1>2, <1>3, <1>4, <1>5, <1>6, <1>7 DEF Next, Daemon

(* No approval is granted at or after its deadline, however the clock jumps. *)
THEOREM GrantsComeInTime == Spec => GrantInTime
<1>1. Init => Swept
  BY DEF Init, Swept
<1>2. TypeOK /\ AllAgree /\ Swept /\ [Next]_vars => Swept'
  <2>1. UNCHANGED vars /\ Swept => Swept'
    BY DEF vars, log, local, seen, Swept
  <2> QED
    BY <2>1, SweepLeavesNothingOverdue
<1>3. TypeOK /\ Swept /\ [Next]_vars
        => [\A e \in Effects :
               consent[e] # "human" /\ consent'[e] = "human" => reading < deadline[e]]_vars
  BY GrantsAreInTime
<1> QED
  BY AlwaysAgree, <1>1, <1>2, <1>3, PTL DEF Spec, GrantInTime

(* What ReturnFailed will say is in the Log already. *)
FailureIsLogged == pc = "drive_failed" => st.status = "failed"

(* A call ends with what the fold says. *)
LEMMA StepsTellTheTruth ==
    ASSUME TypeOK, FailureIsLogged, Next
    PROVE  FailureIsLogged' /\ ToldTheTruth'
<1> USE DEF Emit, Goto, Quiet, Return, log, local, seen, FailureIsLogged, ToldTheTruth
<1>0. st \in RunState
  BY DEF TypeOK
<1>1. CASE AmendBudget
  <2>1. PICK b \in Budgets : st' = OnBudgetAmended(st, b)
    BY <1>1 DEF AmendBudget
  <2>2. st'.status = st.status
    BY <1>0, <2>1 DEF OnBudgetAmended, RunState
  <2> QED
    BY <1>1, <2>2 DEF AmendBudget
<1>2. CASE DriveReturns
  BY <1>0, <1>2 DEF DriveReturns, RunState, RunStatuses
<1>3. CASE TurnLimit \/ Stalled
  <2>1. st' = OnRunFailed(st) /\ pc' = "drive_failed"
    BY <1>3 DEF TurnLimit, Stalled, LogStep
  <2> QED
    BY <1>0, <2>1 DEF OnRunFailed, RunState
<1>4. CASE Calls /\ ~AmendBudget
  BY <1>4 DEF Calls, Start, Resume, DecideApproval, AnswerClarification
<1>5. CASE ResumeSteps
  BY <1>5 DEF ResumeSteps, ReadClock, ExpireApproval, DecisionTooLate, GrantApproval,
     DenyCheckpoint, DenyApproval, ResumeBlocked, EmitRunResumed, Redispatch, EnterDrive,
     LogStep, Decided
<1>6. CASE DriveSteps /\ ~DriveReturns /\ ~TurnLimit /\ ~Stalled
  BY <1>6 DEF DriveSteps, DeclareIntent, ReturnFailed, PeriodicCheckpoint, SuspendForBudget,
     SampleEnv, AssembleContext, AssemblePanics, AskClarification, SuspendForAnswer, Complete,
     CallModel, ModelCallFails, ModelResponds, ModelNotPriced, ChargeModel, UnparseablePlan,
     PlanStep, LogStep
<1>7. CASE EffectSteps
  BY <1>7 DEF EffectSteps, RequestEffect, RefuseCheckpoint, RefuseResult, RefuseRun,
     HoldCheckpoint, HoldRequest, HoldRun, PreWriteCheckpoint, EmitDispatched, Execute,
     ToolResult, EmitArtifact, ChargeTool, EffectDone, LogStep
<1>8. CASE Crash
  BY <1>8 DEF Crash
<1> QED
  BY <1>1, <1>2, <1>3, <1>4, <1>5, <1>6, <1>7, <1>8 DEF Next, Daemon

(* The caller of a call is told what the Log says. *)
THEOREM CallersAreToldTheTruth == Spec => []ToldTheTruth
<1>1. Init => FailureIsLogged /\ ToldTheTruth
  BY DEF Init, FailureIsLogged, ToldTheTruth
<1>2. TypeOK /\ FailureIsLogged /\ ToldTheTruth /\ [Next]_vars => FailureIsLogged' /\ ToldTheTruth'
  <2>1. UNCHANGED vars /\ FailureIsLogged /\ ToldTheTruth => FailureIsLogged' /\ ToldTheTruth'
    BY DEF vars, FailureIsLogged, ToldTheTruth
  <2> QED
    BY <2>1, StepsTellTheTruth
<1> QED
  BY TypeCorrect, <1>1, <1>2, PTL DEF Spec

(* The meters stay under their bound, and a charge moves them forward. *)
Metered == st.budget_used.tokens <= MeterCap /\ st.budget_used.amount <= MeterCap

NoLess(u, v) == v.tokens >= u.tokens /\ v.amount >= u.amount /\ v.wall_ms >= u.wall_ms

(* A charge is never negative and never passes the bound. *)
LEMMA ChargesMoveForward ==
    ASSUME NEW meter \in Nat, meter <= MeterCap, NEW n \in Nat
    PROVE  Charged(meter, n) \in Nat /\ Charged(meter, n) >= meter /\ Charged(meter, n) <= MeterCap
  BY MeterAssumption DEF Charged

(* model.responded, cost.charged, *)
LEMMA ChargeEvents ==
    ASSUME NEW s \in RunState, NEW n \in Nat,
           s.budget_used.tokens <= MeterCap, s.budget_used.amount <= MeterCap,
           NEW t \in {OnModelResponded(s, n), OnCostCharged(s, n)}
    PROVE  /\ NoLess(s.budget_used, t.budget_used)
           /\ t.budget_used.tokens <= MeterCap /\ t.budget_used.amount <= MeterCap
<1>1. /\ s.budget_used \in BudgetUsage /\ s.budget_used.tokens \in Nat
      /\ s.budget_used.amount \in Nat /\ s.budget_used.wall_ms \in Nat
  BY DEF RunState, BudgetUsage
<1>2. CASE t = OnModelResponded(s, n)
  <2>1. t.budget_used = [s.budget_used EXCEPT !.tokens = Charged(s.budget_used.tokens, n)]
    BY <1>2 DEF OnModelResponded, RunState
  <2>2. /\ t.budget_used.tokens = Charged(s.budget_used.tokens, n)
        /\ t.budget_used.amount = s.budget_used.amount
        /\ t.budget_used.wall_ms = s.budget_used.wall_ms
    BY <1>1, <2>1 DEF BudgetUsage
  <2>3. /\ Charged(s.budget_used.tokens, n) >= s.budget_used.tokens
        /\ Charged(s.budget_used.tokens, n) <= MeterCap
    BY <1>1, ChargesMoveForward
  <2> QED
    BY <1>1, <2>2, <2>3 DEF NoLess
<1>3. CASE t = OnCostCharged(s, n)
  <2>1. t.budget_used = [s.budget_used EXCEPT !.amount = Charged(s.budget_used.amount, n)]
    BY <1>3 DEF OnCostCharged, RunState
  <2>2. /\ t.budget_used.amount = Charged(s.budget_used.amount, n)
        /\ t.budget_used.tokens = s.budget_used.tokens
        /\ t.budget_used.wall_ms = s.budget_used.wall_ms
    BY <1>1, <2>1 DEF BudgetUsage
  <2>3. /\ Charged(s.budget_used.amount, n) >= s.budget_used.amount
        /\ Charged(s.budget_used.amount, n) <= MeterCap
    BY <1>1, ChargesMoveForward
  <2> QED
    BY <1>1, <2>2, <2>3 DEF NoLess
<1> QED
  BY <1>2, <1>3

(* and env.sampled, however the clock jumps. *)
LEMMA SampleEvent ==
    ASSUME NEW s \in RunState, NEW now \in Nat
    PROVE  LET t == OnEnvSampled(s, now) IN
           /\ NoLess(s.budget_used, t.budget_used)
           /\ t.budget_used.tokens = s.budget_used.tokens
           /\ t.budget_used.amount = s.budget_used.amount
<1> DEFINE start == IF s.clock_start_ms = None THEN now ELSE s.clock_start_ms
           elapsed == IF now >= start THEN now - start ELSE 0
           used == s.budget_used.wall_ms
           wall == IF elapsed > used THEN elapsed ELSE used
<1>1. start \in Nat
  BY DEF RunState, Option
<1>2. elapsed \in Nat
  <2> HIDE DEF start
  <2> QED BY <1>1
<1>3. /\ s.budget_used \in BudgetUsage /\ used \in Nat
      /\ s.budget_used.tokens \in Nat /\ s.budget_used.amount \in Nat
  BY DEF RunState, BudgetUsage
<1>4. wall \in Nat /\ wall >= used
  <2> HIDE DEF elapsed, used
  <2> QED BY <1>2, <1>3
<1>5. OnEnvSampled(s, now).budget_used = [s.budget_used EXCEPT !.wall_ms = wall]
  BY DEF OnEnvSampled, RunState
<1>6. /\ OnEnvSampled(s, now).budget_used.wall_ms = wall
      /\ OnEnvSampled(s, now).budget_used.tokens = s.budget_used.tokens
      /\ OnEnvSampled(s, now).budget_used.amount = s.budget_used.amount
  <2> HIDE DEF wall
  <2> QED BY <1>3, <1>5 DEF BudgetUsage
<1> HIDE DEF wall
<1> QED
  BY <1>3, <1>4, <1>6 DEF NoLess

(* Every step leaves taint and meters at least where they were. *)
LEMMA StepsForgetNothing ==
    ASSUME TypeOK, AllAgree, Paced, Metered, Next
    PROVE  /\ Metered'
           /\ NoLess(st.budget_used, st'.budget_used)
           /\ st.taint = "tainted" => st'.taint = "tainted"
<1> USE DEF Emit, Goto, Quiet, log, local, seen, Metered
<1>0. /\ st \in RunState /\ st.budget_used \in BudgetUsage /\ st.budget_used.tokens \in Nat
      /\ st.budget_used.amount \in Nat /\ st.budget_used.wall_ms \in Nat
  BY DEF TypeOK, RunState, BudgetUsage
<1>1. ASSUME st'.budget_used = st.budget_used
      PROVE  Metered' /\ NoLess(st.budget_used, st'.budget_used)
  BY <1>0, <1>1 DEF NoLess
<1>2. CASE PlainSteps
  <2>1. SameProgress(st, st')
    BY <1>2, PlainStepsKeepProgress DEF Paced
  <2> QED
    BY <1>1, <2>1 DEF SameProgress
<1>3. CASE EndingSteps
  <2>1. PICK e \in Effects :
               /\ EndsTurn(st, st')
               /\ \/ outputs' = outputs /\ st'.taint = st.taint
                  \/ st'.taint = Join(st.taint, "tainted")
                  \/ outputs' = outputs /\ st'.taint = Join(st.taint, "clean")
    BY <1>3, EndingStepsEndTheTurn DEF Paced
  <2> QED
    BY <1>1, <2>1 DEF EndsTurn, Join
<1>4. CASE AnswerClarification \/ AssembleContext \/ PlanStep
  <2>1. st'.budget_used = st.budget_used
    BY <1>0, <1>4 DEF AnswerClarification, OnClarificationAnswered, AssembleContext,
       OnContextAssembled, PlanStep, LogStep, OnPlanStep, RunState
  <2> QED
    BY <1>1, <1>4, <2>1, ReadingSteps
<1>5. CASE SampleEnv
  <2>1. PICK now \in Times : st' = OnEnvSampled(st, now)
    BY <1>5 DEF SampleEnv, LogStep
  <2>2. now \in Nat
    BY TimeAssumption
  <2> QED
    BY <1>0, <1>5, <2>1, <2>2, SampleEvent, ReadingSteps
<1>6. CASE ModelResponds \/ ChargeModel \/ ChargeTool
  <2>1. PICK n \in {0, 1} : st' \in {OnModelResponded(st, n), OnCostCharged(st, n)}
    <3>1. CASE ModelResponds
      BY <3>1 DEF ModelResponds
    <3>2. CASE ChargeModel \/ ChargeTool
      BY <3>2 DEF ChargeModel, ChargeTool
    <3> QED
      BY <1>6, <3>1, <3>2
  <2>2. n \in Nat
    OBVIOUS
  <2>3. NoLess(st.budget_used, st'.budget_used) /\ Metered'
    BY <1>0, <2>1, <2>2, ChargeEvents
  <2> QED
    BY <1>6, <2>3, ReadingSteps
<1> QED
  BY <1>2, <1>3, <1>4, <1>5, <1>6
  DEF Next, Calls, Daemon, ResumeSteps, DriveSteps, EffectSteps, EndingSteps, PlainSteps

(* No meter runs backwards and no taint is washed off, by any step at all. *)
THEOREM NothingIsEverForgotten == Spec => NothingIsForgotten
<1>1. Init => Metered
  BY MeterAssumption DEF Init, NewRun, NoUsage, Metered
<1>2. TypeOK /\ AllAgree /\ Paced /\ Metered /\ [Next]_vars => Metered'
  <2>1. UNCHANGED vars /\ Metered => Metered'
    BY DEF vars, Metered
  <2> QED
    BY <2>1, StepsForgetNothing
<1>3. TypeOK /\ AllAgree /\ Paced /\ Metered /\ [Next]_vars
        => [/\ \A meter \in DOMAIN st.budget_used : st'.budget_used[meter] >= st.budget_used[meter]
            /\ st.taint = "tainted" => st'.taint = "tainted"]_vars
  <2> SUFFICES ASSUME TypeOK, AllAgree, Paced, Metered, Next
               PROVE  /\ \A meter \in DOMAIN st.budget_used :
                             st'.budget_used[meter] >= st.budget_used[meter]
                      /\ st.taint = "tainted" => st'.taint = "tainted"
    OBVIOUS
  <2>1. NoLess(st.budget_used, st'.budget_used) /\ (st.taint = "tainted" => st'.taint = "tainted")
    BY StepsForgetNothing
  <2>2. DOMAIN st.budget_used = {"tokens", "amount", "wall_ms"}
    BY DEF TypeOK, RunState, BudgetUsage
  <2> QED
    BY <2>1, <2>2 DEF NoLess
<1> QED
  BY AlwaysPaced, <1>1, <1>2, <1>3, PTL DEF Spec, NothingIsForgotten

=============================================================================
