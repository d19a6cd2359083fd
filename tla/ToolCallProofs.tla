--------------------------- MODULE ToolCallProofs ---------------------------
(***************************************************************************)
(* A tool call, for any policies, budgets, prices, commands, leases, caps  *)
(* and file systems.  The admission on its own first: what reaches the     *)
(* executor was allowed, the structural gates hold whatever the policy     *)
(* says, and it can be paid for.  Then the executor: what it answers of a  *)
(* command's output is so, a kill leaves nothing of the process group      *)
(* running, and a file tool works inside the workspace of its run.  Then   *)
(* the turn: it takes the steps of an admission and of an executor and no  *)
(* other, so what holds of them holds of it; and its account is exact.     *)
(***************************************************************************)
EXTENDS ToolCall, WellFoundedInduction, FiniteSetTheorems, SequenceTheorems, TLAPS

(* A set of numbers has a least one: the first rule that matches; and what a
   number is not the first to break, none breaks. *)
LEMMA LeastNatural ==
    ASSUME NEW T, T \subseteq Nat, T # {}
    PROVE  \E x \in T : \A y \in T : x <= y
<1>1. \A a, b \in Nat : a < b => <<a, b>> \in OpToRel(<, Nat)
  <2> SUFFICES ASSUME NEW a \in Nat, NEW b \in Nat, a < b
               PROVE  <<a, b>> \in OpToRel(<, Nat)
    OBVIOUS
  <2> QED
    BY Zenon DEF OpToRel
<1>2. PICK x \in T : \A y \in T : ~ (<<y, x>> \in OpToRel(<, Nat))
  BY NatLessThanWellFounded, WFMin
<1>3. \A y \in T : ~ (y < x)
  BY <1>1, <1>2
<1> QED
  BY <1>3

-----------------------------------------------------------------------------
(* The admission on its own *)

(* Evaluating a policy gives one of the decisions. *)
LEMMA EvaluateType ==
    ASSUME NEW p \in Policies, NEW tool, NEW m
    PROVE  Evaluate(p, tool, m) \in Decisions
<1> DEFINE hits == {i \in DOMAIN p : Matches(p[i], tool, m)}
<1>1. CASE hits = {}
  BY <1>1 DEF Evaluate, Decisions, Allow
<1>2. CASE hits # {}
  <2>1. hits \in SUBSET Nat
    BY PolicyAssumption
  <2>2. \E i \in hits : \A j \in hits : i <= j
    BY <1>2, <2>1, LeastNatural
  <2>3. (CHOOSE i \in hits : \A j \in hits : i <= j) \in hits
    BY <2>2
  <2>4. \A i \in hits : p[i].decision \in Decisions
    BY PolicyAssumption DEF Rules
  <2> QED
    BY <1>2, <2>3, <2>4 DEF Evaluate
<1> QED
  BY <1>1, <1>2

(* What a decision looks like. *)
LEMMA DecisionShape ==
    /\ \A d \in Decisions :
          /\ d.kind \in {"allow", "deny", "require_approval"}
          /\ d.kind = "allow" => d = Allow
          /\ d.kind = "deny" => d = Deny
          /\ d.kind = "require_approval" => d.risk \in RiskLevels
    /\ Deny \in Decisions /\ Deny.kind = "deny"
  BY DEF Decisions, Allow, Deny, RequireApproval

(* A gate only tightens: whatever was decided, a human is asked or it is
   denied; a deny stays, and a required level is never lowered. *)
LEMMA TightenTightens ==
    ASSUME NEW d \in Decisions, NEW floor \in RiskLevels
    PROVE  /\ Tighten(d, floor) \in Decisions
           /\ Tighten(d, floor).kind \in {"deny", "require_approval"}
           /\ d.kind = "deny" => Tighten(d, floor) = d
           /\ Tighten(d, floor).kind = "deny" => d.kind = "deny"
           /\ d.kind = "require_approval" =>
                 Tighten(d, floor).kind = "require_approval" /\ Tighten(d, floor).risk >= d.risk
           /\ Tighten(d, floor).kind = "require_approval" => Tighten(d, floor).risk >= floor
<1>1. CASE d.kind = "deny"
  BY <1>1, DecisionShape DEF Tighten
<1>2. CASE d.kind = "allow"
  BY <1>2, DecisionShape DEF Tighten, RequireApproval, Decisions, RiskLevels
<1>3. CASE d.kind = "require_approval"
  <2> DEFINE level == IF d.risk > floor THEN d.risk ELSE floor
  <2>1. d.risk \in RiskLevels /\ level \in RiskLevels /\ level >= d.risk /\ level >= floor
    BY <1>3, DecisionShape DEF RiskLevels
  <2>2. Tighten(d, floor) = RequireApproval(level)
    BY <1>3 DEF Tighten
  <2> HIDE DEF level
  <2> QED
    BY <1>3, <2>1, <2>2 DEF RequireApproval, Decisions
<1> QED
  BY <1>1, <1>2, <1>3, DecisionShape

(* What admit's steps 3 and 4 make of a policy's own decision. *)
LEMMA JudgeTightens ==
    ASSUME NEW p \in Policies, NEW c \in AdmitRequests
    PROVE  LET own == Evaluate(p, c.tool, ManifestOf(c))
               d == Judge(p, c.tool, c.manifest, c.taint)
           IN  /\ d \in Decisions
               /\ own.kind = "deny" => d = own
               /\ own.kind = "require_approval" => d.kind = "require_approval" /\ d.risk >= own.risk
               /\ c.manifest = None => /\ d.kind # "allow"
                                       /\ d.kind = "require_approval" => d.risk = 3
               /\ c.taint = "tainted" /\ ManifestOf(c).class # "read" => d.kind # "allow"
<1> DEFINE own == Evaluate(p, c.tool, ManifestOf(c))
           d == Judge(p, c.tool, c.manifest, c.taint)
<1>1. own \in Decisions
  BY EvaluateType
<1>2. /\ c.manifest = None => d = Tighten(own, 3)
      /\ c.manifest # None /\ c.taint = "tainted" /\ ManifestOf(c).class # "read" => d = Tighten(own, 2)
      /\ c.manifest # None /\ ~(c.taint = "tainted" /\ ManifestOf(c).class # "read") => d = own
  BY DEF Judge, ManifestOf
<1>3. 3 \in RiskLevels /\ 2 \in RiskLevels /\ \A r \in RiskLevels : r >= 3 => r = 3
  BY DEF RiskLevels
<1>4. /\ own.kind = "require_approval" => own.risk \in RiskLevels /\ own.risk >= own.risk
      /\ d \in Decisions
  <2> HIDE DEF own, d
  <2> QED BY <1>1, <1>2, <1>3, TightenTightens, DecisionShape DEF RiskLevels
<1> HIDE DEF own, d
<1>5. own.kind = "deny" => d = own
  BY <1>1, <1>2, <1>3, TightenTightens
<1>6. own.kind = "require_approval" => d.kind = "require_approval" /\ d.risk >= own.risk
  BY <1>1, <1>2, <1>3, <1>4, TightenTightens
<1>7. c.manifest = None => d.kind # "allow" /\ (d.kind = "require_approval" => d.risk = 3)
  BY <1>1, <1>2, <1>3, <1>4, TightenTightens, DecisionShape
<1>8. c.taint = "tainted" /\ ManifestOf(c).class # "read" => d.kind # "allow"
  BY <1>1, <1>2, <1>3, TightenTightens
<1> QED
  BY <1>4, <1>5, <1>6, <1>7, <1>8 DEF own, d

(* finish lets pass only what was allowed and can be paid for. *)
LEMMA FinishLetsPass ==
    ASSUME NEW d, NEW class, NEW mode, NEW est, NEW b, NEW used
    PROVE  LET answer == Finish(d, class, mode, est, b, used)
           IN  /\ answer \in {"budget_exceeded", "await_approval", "dry_run", "dispatch"}
               /\ answer = "await_approval" => d.kind = "require_approval"
               /\ answer \in {"dispatch", "dry_run"} =>
                     d.kind # "require_approval" /\ ~OverBudget(b, used, est)
  BY DEF Finish

-----------------------------------------------------------------------------
FinishedAs(est) ==
    Finish(judged, ManifestOf(call).class, call.mode, est, call.budget, call.used)

(* What is known of an admission, between its two halves and after. *)
AdmissionInv ==
    /\ TypeOK
    /\ verdict = None => judged = None /\ pending = None /\ asked = None /\ estimate = None
    /\ verdict # None =>
          /\ asked \in Policies
          /\ judged = IF call.capable THEN Judge(asked, call.tool, call.manifest, call.taint) ELSE Deny
          /\ verdict = "deny" <=> judged.kind = "deny"
          /\ verdict = "need_preview" => pending = judged /\ estimate = None
          /\ verdict \notin {"deny", "need_preview"} => verdict = FinishedAs(estimate)

(* It holds before the first half. *)
LEMMA AdmissionInit == Init => AdmissionInv
  BY NoneIsApart DEF Init, AdmissionInv, TypeOK, Option, Verdicts

(* The first half answers itself or freezes its decision. *)
LEMMA AdmitCallInv == AdmissionInv /\ AdmitCall => AdmissionInv'
<1> SUFFICES ASSUME AdmissionInv, AdmitCall PROVE AdmissionInv'
  OBVIOUS
<1> DEFINE d == Judge(policy, call.tool, call.manifest, call.taint)
           answer == Admit(call.capable, policy, call.tool, call.manifest, call.taint,
                           call.mode, call.budget, call.used)
<1>1. /\ policy \in Policies /\ call \in AdmitRequests
      /\ judged = None /\ pending = None /\ estimate = None
  BY DEF AdmissionInv, TypeOK, AdmitCall
<1>2. /\ verdict' = answer /\ judged' = (IF call.capable THEN d ELSE Deny)
      /\ pending' = IF answer = "need_preview" THEN d ELSE None
      /\ asked' = policy /\ UNCHANGED <<policy, call, estimate>>
  BY DEF AdmitCall
<1>3. d \in Decisions
  BY <1>1, JudgeTightens
<1>4. \/ answer = "deny" /\ (~call.capable \/ d.kind = "deny")
      \/ answer = "need_preview" /\ call.capable /\ d.kind # "deny"
      \/ /\ answer = Finish(d, ManifestOf(call).class, call.mode, None, call.budget, call.used)
         /\ call.capable /\ d.kind # "deny"
  BY DEF Admit, ManifestOf
<1> HIDE DEF d, answer
<1>5. answer \in Verdicts /\ answer # None
  BY <1>4, FinishLetsPass, NoneIsApart DEF Verdicts
<1>6. judged' \in Decisions /\ judged'.kind = "deny" <=> (~call.capable \/ d.kind = "deny")
  BY <1>2, <1>3, DecisionShape
<1>7. TypeOK'
  BY <1>1, <1>2, <1>3, <1>5, <1>6, NoneIsApart, DecisionShape DEF AdmissionInv, TypeOK, Option
<1>8. verdict' = "deny" <=> judged'.kind = "deny"
  BY <1>2, <1>3, <1>4, FinishLetsPass, DecisionShape
<1>9. verdict' = "need_preview" => pending' = judged' /\ estimate' = None
  BY <1>1, <1>2, <1>4, FinishLetsPass
<1>10. verdict' \notin {"deny", "need_preview"} => verdict' = FinishedAs(estimate)'
  BY <1>1, <1>2, <1>4 DEF FinishedAs, ManifestOf
<1> QED
  BY <1>1, <1>2, <1>5, <1>7, <1>8, <1>9, <1>10 DEF AdmissionInv, d

(* The second half finishes what was frozen, with any estimate. *)
LEMMA AdmitWithPreviewInv == AdmissionInv /\ AdmitWithPreview => AdmissionInv'
<1> SUFFICES ASSUME AdmissionInv, AdmitWithPreview PROVE AdmissionInv'
  OBVIOUS
<1>1. PICK est \in Option(0 .. MaxMeter) :
          /\ estimate' = est
          /\ verdict' = Finish(pending, ManifestOf(call).class, call.mode, est, call.budget, call.used)
  BY DEF AdmitWithPreview
<1>2. /\ verdict = "need_preview" /\ pending' = None
      /\ UNCHANGED <<policy, call, judged, asked>>
  BY DEF AdmitWithPreview
<1>3. verdict # None /\ TypeOK
  BY <1>2, NoneIsApart DEF Verdicts, AdmissionInv
<1>4. pending = judged /\ judged.kind # "deny"
  BY <1>2, <1>3 DEF AdmissionInv
<1>5. verdict' = FinishedAs(estimate)'
  BY <1>1, <1>2, <1>4 DEF FinishedAs, ManifestOf
<1>6. verdict' \in {"budget_exceeded", "await_approval", "dry_run", "dispatch"}
  BY <1>1, FinishLetsPass
<1>7. TypeOK'
  BY <1>1, <1>2, <1>3, <1>6 DEF TypeOK, Option, Verdicts
<1>8. verdict' # None
  BY <1>6, NoneIsApart DEF Verdicts
<1> QED
  BY <1>2, <1>3, <1>4, <1>5, <1>6, <1>7, <1>8 DEF AdmissionInv

(* A step keeps it, and the policy may be another one after each. *)
LEMMA AdmissionStep ==
    ASSUME AdmissionInv, [Next]_admission PROVE AdmissionInv'
<1>1. CASE ReloadPolicy
  BY <1>1 DEF ReloadPolicy, AdmissionInv, TypeOK, FinishedAs
<1>2. CASE UNCHANGED admission
  BY <1>2 DEF admission, AdmissionInv, TypeOK, FinishedAs
<1> QED
  BY <1>1, <1>2, AdmitCallInv, AdmitWithPreviewInv DEF Next

(* The four properties of an admission, from its invariant. *)
LEMMA AdmittedDecides == AdmissionInv => LogDecides
<1> SUFFICES ASSUME AdmissionInv, verdict # None PROVE LogDecides
  BY NoneIsApart DEF LogDecides, Passes, Verdicts
<1>1. judged \in Decisions
  BY JudgeTightens, DecisionShape DEF AdmissionInv, TypeOK
<1> QED
  BY <1>1, FinishLetsPass, DecisionShape DEF AdmissionInv, LogDecides, Passes, FinishedAs

LEMMA AdmittedTightens == AdmissionInv => NeverLooser
BY JudgeTightens DEF AdmissionInv, TypeOK, NeverLooser

LEMMA AdmittedHolds == AdmissionInv => GatesHold
<1> SUFFICES ASSUME AdmissionInv, verdict # None PROVE GatesHold
  BY NoneIsApart DEF GatesHold, Passes, Verdicts
<1>1. judged \in Decisions /\ call \in AdmitRequests /\ asked \in Policies
  BY JudgeTightens, DecisionShape DEF AdmissionInv, TypeOK
<1>2. ~call.capable => judged.kind = "deny"
  BY DecisionShape DEF AdmissionInv
<1>3. Passes => judged.kind = "allow"
  BY <1>1, FinishLetsPass, DecisionShape DEF AdmissionInv, Passes, FinishedAs
<1>4. call.capable => judged = Judge(asked, call.tool, call.manifest, call.taint)
  BY DEF AdmissionInv
<1>5. verdict = "await_approval" => judged.kind = "require_approval"
  BY FinishLetsPass DEF AdmissionInv, FinishedAs
<1>6. Passes => call.taint = "clean" \/ ManifestOf(call).class = "read"
  BY <1>1, <1>2, <1>3, <1>4, JudgeTightens, DecisionShape DEF AdmitRequests, TaintLevels
<1>7. call.manifest = None => ~Passes /\ (verdict = "await_approval" => judged.risk = 3)
  BY <1>1, <1>2, <1>3, <1>4, <1>5, JudgeTightens
<1> QED
  BY <1>6, <1>7 DEF GatesHold

LEMMA AdmittedIsPaid == AdmissionInv => PaidFor
<1> SUFFICES ASSUME AdmissionInv, Passes, call.budget.max_amount # None PROVE
               /\ call.used.amount < call.budget.max_amount
               /\ estimate # None /\ call.budget.max_amount < MAX =>
                    call.used.amount + estimate <= call.budget.max_amount
  BY DEF PaidFor
<1>1. ~OverBudget(call.budget, call.used, estimate)
  BY FinishLetsPass, NoneIsApart DEF AdmissionInv, Passes, FinishedAs, Verdicts
<1>2. /\ call.used.amount \in Nat /\ call.budget.max_amount \in Nat
      /\ estimate # None => estimate \in Nat
  BY AdmissionBudgetAssumption, MeterBoundAssumption
  DEF AdmissionInv, TypeOK, AdmitRequests, Option, BudgetSpec
<1>3. /\ call.used.amount < call.budget.max_amount
      /\ estimate # None => SaturatingAdd(call.used.amount, estimate) <= call.budget.max_amount
  BY <1>1, <1>2, WidthAssumption DEF OverBudget, Reached, SaturatingAdd
<1> QED
  BY <1>2, <1>3, WidthAssumption DEF SaturatingAdd

-----------------------------------------------------------------------------
(* The invariant of an admission is one, for every policy before and after
   a reload. *)
THEOREM AdmissionAlways == Spec => []AdmissionInv
<1>1. AdmissionInv /\ [Next]_admission => AdmissionInv'
  BY AdmissionStep
<1> QED
  BY AdmissionInit, <1>1, PTL DEF Spec

(* The executor gets what the logged decision allowed, a human is asked what
   it required, and only a deny is denied, whatever the policy says later. *)
THEOREM LogAlwaysDecides == Spec => []LogDecides
  BY AdmissionAlways, AdmittedDecides, PTL

(* No gate loosens what the policy decided. *)
THEOREM GatesNeverLoosen == Spec => []NeverLooser
  BY AdmissionAlways, AdmittedTightens, PTL

(* Whatever the policy says, a tainted run gets nothing but reads and an
   unknown tool nothing at all without a human. *)
THEOREM GatesAlwaysHold == Spec => []GatesHold
  BY AdmissionAlways, AdmittedHolds, PTL

(* What passes can be paid for, estimate included. *)
THEOREM WhatPassesIsPaidFor == Spec => []PaidFor
  BY AdmissionAlways, AdmittedIsPaid, PTL

-----------------------------------------------------------------------------
(* The executor on its own *)

Steps == {"idle", "begin", "select", "wait", "reap", "done"}

ExecTypeOK ==
    /\ step \in Steps /\ late \in BOOLEAN
    /\ alive \subseteq Processes /\ killed \subseteq Processes
    /\ code \in {"own", "signal", None}
    /\ holds \in [Processes -> SUBSET Pipes]
    /\ written \in [Pipes -> Nat] /\ unread \in [Pipes -> Nat]
    /\ buf \in [Pipes -> Nat] /\ read \in [Pipes -> {"eof", "cut", None}]

(* Before the spawn there is nothing. *)
Untouched ==
    step \in {"idle", "begin"} =>
        /\ alive = {} /\ killed = {}
        /\ \A p \in Pipes : written[p] = 0 /\ unread[p] = 0 /\ buf[p] = 0 /\ read[p] = None

(* A byte is collected or in the pipe, unless the reader was cut. *)
BytesAreKept ==
    \A p \in Pipes :
        IF read[p] = "cut" THEN buf[p] = OutputCap /\ OutputCap <= written[p]
        ELSE buf[p] < OutputCap /\ written[p] = buf[p] + unread[p]

(* At the end of a pipe there is nothing in it, and nobody to write to it. *)
EofIsTheEnd ==
    \A p \in Pipes : read[p] = "eof" =>
        unread[p] = 0 /\ \A q \in alive : p \notin holds[q]

GroupIsKilled == alive \cap Group \subseteq killed

(* Who is killed, when, and how the child ended *)
KillsHaveAReason ==
    /\ step = "reap" \/ Truncated => GroupIsKilled
    /\ killed = {} \/ Truncated \/ step \in {"reap", "done"}
    /\ code = "signal" => killed # {}
    /\ step \in {"select", "wait", "reap"} /\ "child" \notin alive => code \in {"own", "signal"}
    /\ step = "wait" => \A p \in Pipes : read[p] # None

ExecInv ==
    /\ ExecTypeOK /\ Untouched /\ BytesAreKept /\ EofIsTheEnd /\ KillsHaveAReason
    /\ OutputIsWhole /\ NothingOutlivesAKill

(* The parts that the end of a step relies on when it leaves them alone. *)
LEMMA NothingNew ==
    ASSUME UNCHANGED <<alive, killed, written, outcome, effect>>,
           step = "done" => step' = "done", step' = "done" => step = "done",
           OutputIsWhole, NothingOutlivesAKill
    PROVE  OutputIsWhole' /\ NothingOutlivesAKill'
  BY DEF OutputIsWhole, NothingOutlivesAKill, Shell, Answered

(* The beginning of an effect: no workspace, a file tool, a refusal, or a child. *)
LEMMA BeginKeeps ==
    ASSUME ExecInv, Begin PROVE ExecInv'
<1> USE DEF ExecInv
<1>0. step = "begin" /\ UNCHANGED <<effect, killed, code, written, unread, buf, read, late>>
  BY DEF Begin, StartCommand, EnsureFails, RunFileTool, UnknownTool, RefuseToSpawn, Spawn, tree, data, readers
<1>1. CASE EnsureFails \/ RunFileTool \/ UnknownTool \/ RefuseToSpawn
  <2>1. step' = "done" /\ UNCHANGED <<alive, holds>>
    BY <1>1 DEF EnsureFails, RunFileTool, UnknownTool, RefuseToSpawn, Finish_, tree
  <2>2. effect.tool = "shell.exec" => outcome' = None \/ outcome'.status = "error"
    BY <1>1 DEF EnsureFails, RunFileTool, UnknownTool, RefuseToSpawn, Finish_, Failed
  <2>3. OutputIsWhole' /\ NothingOutlivesAKill'
    BY <1>0, <2>1, <2>2 DEF OutputIsWhole, NothingOutlivesAKill, Shell, Answered, Untouched
  <2> QED
    BY <1>0, <2>1, <2>3
       DEF ExecTypeOK, Steps, Untouched, BytesAreKept, EofIsTheEnd, KillsHaveAReason, Truncated, GroupIsKilled
<1>2. CASE Spawn
  <2>1. step' = "select" /\ alive' = {"child"} /\ holds' = [holds EXCEPT !["child"] = Pipes]
    BY <1>2 DEF Spawn
  <2>2. OutputIsWhole' /\ NothingOutlivesAKill'
    BY <2>1 DEF OutputIsWhole, NothingOutlivesAKill, Shell, Answered
  <2>3. ExecTypeOK'
    BY <1>0, <2>1 DEF ExecTypeOK, Steps, Processes
  <2> QED
    BY <1>0, <2>1, <2>2, <2>3, ExecutorAssumption
       DEF ExecTypeOK, Untouched, BytesAreKept, EofIsTheEnd, KillsHaveAReason, Truncated
<1> QED
  BY <1>1, <1>2 DEF Begin, StartCommand

(* Whatever the command does, and whenever it dies *)
LEMMA CommandKeeps ==
    ASSUME ExecInv, Command \/ Die PROVE ExecInv'
<1> USE DEF ExecInv
<1>1. CASE Write
  <2>1. PICK p \in Free, pipe \in Pipes :
          /\ pipe \in holds[p] /\ Running
          /\ written' = [written EXCEPT ![pipe] = @ + 1]
          /\ unread' = [unread EXCEPT ![pipe] = @ + 1]
          /\ UNCHANGED <<step, effect, outcome, tree, readers, late>>
    BY <1>1 DEF Write, ExecTypeOK, Free
  <2>2. p \in alive /\ step \in {"select", "wait", "reap"}
    BY <2>1 DEF Free, Running
  <2>3. read[pipe] # "eof"
    BY <2>1, <2>2 DEF EofIsTheEnd
  <2>4. ExecTypeOK'
    BY <2>1 DEF ExecTypeOK, tree, readers
  <2>5. BytesAreKept'
    BY <2>1, ExecutorAssumption DEF BytesAreKept, ExecTypeOK, readers
  <2>6. EofIsTheEnd'
    BY <2>1, <2>3 DEF EofIsTheEnd, ExecTypeOK, readers, tree
  <2>7. Untouched' /\ KillsHaveAReason'
    BY <2>1, <2>2 DEF Untouched, KillsHaveAReason, Truncated, GroupIsKilled, readers, tree
  <2>8. OutputIsWhole' /\ NothingOutlivesAKill'
    BY <2>1, <2>2 DEF OutputIsWhole, NothingOutlivesAKill, Shell, Answered
  <2> QED
    BY <2>4, <2>5, <2>6, <2>7, <2>8
<1>2. CASE Fork
  <2>1. PICK p \in Free, q \in Processes \ (alive \cup {"child"}) :
          /\ q \in Group => p \in Group
          /\ alive' = alive \cup {q}
          /\ holds' = [holds EXCEPT ![q] = holds[p]]
          /\ UNCHANGED <<step, effect, outcome, killed, code, data, readers, late>>
    BY <1>2 DEF Fork
  <2>2. p \in alive /\ p \notin killed /\ p \in Processes
    BY <2>1 DEF Free, ExecTypeOK
  <2>3. ExecTypeOK'
    BY <2>1, <2>2 DEF ExecTypeOK, data, readers
  <2>4. GroupIsKilled => GroupIsKilled'
    BY <2>1, <2>2 DEF GroupIsKilled
  <2>5. holds'[q] = holds[p] /\ \A r \in alive : holds'[r] = holds[r]
    BY <2>1, <2>2 DEF ExecTypeOK
  <2>6. EofIsTheEnd'
    BY <2>1, <2>2, <2>5 DEF EofIsTheEnd, data, readers
  <2>7. BytesAreKept' /\ Untouched'
    BY <2>1, <2>2 DEF BytesAreKept, Untouched, data, readers
  <2>8. KillsHaveAReason'
    BY <2>1, <2>2, <2>4 DEF KillsHaveAReason, Truncated, readers
  <2>9. OutputIsWhole' /\ NothingOutlivesAKill'
    BY <2>1, <2>4 DEF OutputIsWhole, NothingOutlivesAKill, Shell, Answered, data, GroupIsKilled
  <2> QED
    BY <2>3, <2>6, <2>7, <2>8, <2>9
<1>3. CASE ClosePipe
  <2>1. PICK p \in Processes, pipe \in Pipes :
          /\ holds' = [holds EXCEPT ![p] = @ \ {pipe}]
          /\ UNCHANGED <<step, effect, outcome, alive, killed, code, data, readers, late>>
    BY <1>3 DEF ClosePipe, Free, ExecTypeOK
  <2>2. ExecTypeOK' /\ \A q \in Processes : holds'[q] \subseteq holds[q]
    BY <2>1 DEF ExecTypeOK, data, readers
  <2>3. EofIsTheEnd'
    BY <2>1, <2>2 DEF EofIsTheEnd, ExecTypeOK, data, readers
  <2> QED
    BY <2>1, <2>2, <2>3, NothingNew
       DEF Untouched, BytesAreKept, KillsHaveAReason, Truncated, GroupIsKilled, data, readers
<1>4. CASE Exit \/ Die
  <2>1. PICK p \in alive, how \in {"own", "signal"} :
          /\ Ends(p, how)
          /\ how = "signal" => p \in killed
    BY <1>4 DEF Exit, Die, Free
  <2>2. /\ alive' = alive \ {p} /\ holds' = [holds EXCEPT ![p] = {}]
        /\ code' = IF p = "child" THEN how ELSE code
        /\ UNCHANGED <<step, effect, outcome, killed, data, readers, late>>
    BY <2>1 DEF Ends
  <2>3. ExecTypeOK' /\ \A q \in alive' : holds'[q] = holds[q]
    BY <2>2 DEF ExecTypeOK, data, readers
  <2>4. EofIsTheEnd'
    BY <2>2, <2>3 DEF EofIsTheEnd, data, readers
  <2>5. KillsHaveAReason'
    BY <2>1, <2>2 DEF KillsHaveAReason, Truncated, GroupIsKilled, readers
  <2>6. OutputIsWhole' /\ NothingOutlivesAKill'
    BY <2>2 DEF OutputIsWhole, NothingOutlivesAKill, Shell, Answered, data
  <2>7. Untouched' /\ BytesAreKept'
    BY <2>2 DEF Untouched, BytesAreKept, data, readers
  <2> QED
    BY <2>3, <2>4, <2>5, <2>6, <2>7
<1> QED
  BY <1>1, <1>2, <1>3, <1>4 DEF Command

(* The readers *)
LEMMA ReadsKeep ==
    ASSUME ExecInv, NEW pipe \in Pipes, ReadSome(pipe) \/ ReadEnd(pipe)
    PROVE  ExecInv'
<1> USE DEF ExecInv
<1>1. CASE ReadSome(pipe)
  <2>1. PICK n \in 1 .. unread[pipe] :
          /\ unread' = [unread EXCEPT ![pipe] = @ - n]
          /\ buf' = [buf EXCEPT ![pipe] = Filled(pipe, n)]
          /\ read' = [read EXCEPT ![pipe] = EndOfRead(pipe, n)]
          /\ IF EndOfRead(pipe, n) = "cut" THEN KillChildTree ELSE UNCHANGED killed
    BY <1>1 DEF ReadSome
  <2>2. /\ step = "select" /\ read[pipe] = None
        /\ UNCHANGED <<step, effect, outcome, alive, code, holds, written, late>>
    BY <1>1 DEF ReadSome
  <2>3. n \in Nat /\ n <= unread[pipe] /\ unread[pipe] \in Nat /\ buf[pipe] \in Nat /\ OutputCap \in Nat
    BY ExecutorAssumption DEF ExecTypeOK
  <2>4. Filled(pipe, n) \in Nat /\ EndOfRead(pipe, n) \in {"cut", None}
    BY <2>3 DEF Filled, EndOfRead
  <2>5. killed \subseteq killed' /\ killed' \subseteq Processes
    BY <2>1 DEF KillChildTree, ExecTypeOK
  <2>6. ExecTypeOK'
    BY <2>1, <2>2, <2>3, <2>4, <2>5 DEF ExecTypeOK
  <2>7. BytesAreKept'
    <3>1. /\ buf[pipe] < OutputCap /\ written[pipe] = buf[pipe] + unread[pipe]
      BY <2>2, ExecutorAssumption DEF BytesAreKept
    <3>2. EndOfRead(pipe, n) = "cut" => Filled(pipe, n) = OutputCap /\ OutputCap <= written[pipe]
      BY <2>3, <3>1, ExecutorAssumption DEF EndOfRead, Filled
    <3>3. EndOfRead(pipe, n) # "cut" => Filled(pipe, n) = buf[pipe] + n /\ Filled(pipe, n) < OutputCap
      BY <2>3, <3>1, ExecutorAssumption DEF EndOfRead, Filled
    <3>4. /\ unread'[pipe] = unread[pipe] - n /\ buf'[pipe] = Filled(pipe, n)
          /\ read'[pipe] = EndOfRead(pipe, n)
          /\ \A p \in Pipes \ {pipe} : unread'[p] = unread[p] /\ buf'[p] = buf[p] /\ read'[p] = read[p]
      BY <2>1 DEF ExecTypeOK
    <3> HIDE DEF ExecInv
    <3>5. BytesAreKept
      BY DEF ExecInv
    <3> QED
      BY <2>2, <2>3, <3>1, <3>2, <3>3, <3>4, <3>5 DEF BytesAreKept
  <2>8. read'[pipe] # "eof" /\ \A p \in Pipes \ {pipe} : unread'[p] = unread[p] /\ read'[p] = read[p]
    BY <2>1, <2>4, ExecutorAssumption DEF ExecTypeOK
  <2>9. EofIsTheEnd'
    BY <2>2, <2>8 DEF EofIsTheEnd
  <2>10. Truncated' => GroupIsKilled'
    <3>1. CASE EndOfRead(pipe, n) = "cut"
      BY <2>1, <2>2, <3>1 DEF KillChildTree, GroupIsKilled
    <3>2. CASE EndOfRead(pipe, n) # "cut"
      <4>1. Truncated' => Truncated
        BY <2>1, <3>2 DEF Truncated, ExecTypeOK
      <4> QED
        BY <2>1, <2>2, <3>2, <4>1 DEF KillsHaveAReason, GroupIsKilled
    <3> QED
      BY <3>1, <3>2
  <2>11. Truncated => Truncated'
    BY <2>2, <2>8, ExecutorAssumption DEF Truncated
  <2>12. killed' = {} \/ Truncated'
    <3>1. CASE EndOfRead(pipe, n) = "cut"
      BY <2>1, <3>1 DEF Truncated, ExecTypeOK
    <3>2. CASE EndOfRead(pipe, n) # "cut"
      BY <2>1, <2>2, <2>11, <3>2 DEF KillsHaveAReason
    <3> QED
      BY <3>1, <3>2
  <2>13. KillsHaveAReason'
    BY <2>2, <2>5, <2>10, <2>12 DEF KillsHaveAReason
  <2>14. Untouched' /\ OutputIsWhole' /\ NothingOutlivesAKill'
    BY <2>2 DEF Untouched, OutputIsWhole, NothingOutlivesAKill, Shell, Answered
  <2> QED
    BY <2>6, <2>7, <2>9, <2>13, <2>14
<1>2. CASE ReadEnd(pipe)
  <2>1. /\ step = "select" /\ read[pipe] = None /\ unread[pipe] = 0
        /\ \A p \in alive : pipe \notin holds[p]
        /\ read' = [read EXCEPT ![pipe] = "eof"]
        /\ UNCHANGED <<step, effect, outcome, alive, killed, code, holds, written, unread, buf, late>>
    BY <1>2 DEF ReadEnd, tree, data
  <2>2. read'[pipe] = "eof" /\ \A p \in Pipes \ {pipe} : read'[p] = read[p]
    BY <2>1 DEF ExecTypeOK
  <2>3. ExecTypeOK'
    BY <2>1 DEF ExecTypeOK
  <2>4. BytesAreKept' /\ EofIsTheEnd'
    BY <2>1, <2>2, ExecutorAssumption DEF BytesAreKept, EofIsTheEnd
  <2>5. Truncated' <=> Truncated
    BY <2>1, <2>2, ExecutorAssumption DEF Truncated
  <2>6. KillsHaveAReason'
    BY <2>1, <2>5 DEF KillsHaveAReason, GroupIsKilled
  <2>7. Untouched' /\ OutputIsWhole' /\ NothingOutlivesAKill'
    BY <2>1 DEF Untouched, OutputIsWhole, NothingOutlivesAKill, Shell, Answered
  <2> QED
    BY <2>3, <2>4, <2>6, <2>7
<1> QED
  BY <1>1, <1>2

(* The deadline, the end of the reads, the child's end, the caller's *)
LEMMA EndingKeeps ==
    ASSUME ExecInv, Ending \/ Abandoned PROVE ExecInv'
<1> USE DEF ExecInv
<1>1. step \in {"select", "wait", "reap"}
  BY DEF Ending, DeadlineInSelect, BothRead, ChildWaited, DeadlineInWait, Reaped, Abandoned, Running
<1>2. UNCHANGED <<effect, alive, code, holds, written, unread, buf, read, late>>
  BY DEF Ending, DeadlineInSelect, BothRead, ChildWaited, DeadlineInWait, Reaped, Abandoned, tree, data, readers
<1>3. BytesAreKept' /\ EofIsTheEnd' /\ (Truncated' <=> Truncated)
  BY <1>2 DEF BytesAreKept, EofIsTheEnd, Truncated
<1>4. killed \subseteq killed' /\ killed' \subseteq Processes /\ step' \in {"wait", "reap", "done"}
  BY DEF Ending, DeadlineInSelect, BothRead, ChildWaited, DeadlineInWait, Reaped, Abandoned,
         KillChildTree, ExecTypeOK, tree, Finish_
<1>5. ExecTypeOK' /\ Untouched'
  BY <1>2, <1>4 DEF ExecTypeOK, Steps, Untouched
<1>6. CASE DeadlineInSelect \/ DeadlineInWait
  <2>1. step' = "reap" /\ killed' = killed \cup (alive \cap Group) /\ UNCHANGED outcome
    BY <1>6 DEF DeadlineInSelect, DeadlineInWait, KillChildTree
  <2> QED
    BY <1>1, <1>2, <1>3, <1>5, <2>1
       DEF KillsHaveAReason, GroupIsKilled, OutputIsWhole, NothingOutlivesAKill, Shell, Answered
<1>7. CASE BothRead
  <2>1. /\ step' = "wait" /\ UNCHANGED outcome
        /\ \A pipe \in Pipes : read[pipe] # None
        /\ IF Truncated THEN killed' = killed \cup (alive \cap Group) ELSE killed' = killed
        /\ step = "select"
    BY <1>7 DEF BothRead, KillChildTree
  <2> QED
    BY <1>2, <1>3, <1>5, <2>1
       DEF KillsHaveAReason, GroupIsKilled, OutputIsWhole, NothingOutlivesAKill, Shell, Answered
<1>8. CASE ChildWaited
  <2>1. /\ step = "wait" /\ step' = "done" /\ "child" \notin alive /\ UNCHANGED killed
        /\ outcome' = [status |-> "ok", taint |-> OutcomeTaint(effect.tool), truncated |-> Truncated,
                       got |-> buf, exit_code |-> code]
    BY <1>8 DEF ChildWaited, Finish_, tree
  <2>2. outcome'.truncated = Truncated /\ outcome'.got = buf /\ outcome'.exit_code = code /\ outcome'.status = "ok"
    BY <2>1
  <2>3. CASE Truncated
    <3>1. \E pipe \in Pipes : read[pipe] = "cut"
      BY <2>3 DEF Truncated
    <3>2. \A pipe \in Pipes : buf[pipe] <= OutputCap /\ buf[pipe] <= written[pipe]
      BY ExecutorAssumption DEF BytesAreKept, ExecTypeOK
    <3>3. OutputIsWhole'
      BY <1>2, <2>2, <2>3, <3>1, <3>2 DEF OutputIsWhole, BytesAreKept
    <3>4. GroupIsKilled'
      BY <1>2, <2>1, <2>3 DEF KillsHaveAReason, GroupIsKilled
    <3> QED
      BY <1>2, <1>3, <1>5, <2>1, <3>3, <3>4 DEF KillsHaveAReason, GroupIsKilled, NothingOutlivesAKill
  <2>4. CASE ~Truncated
    <3>1. \A pipe \in Pipes : read[pipe] = "eof"
      BY <2>1, <2>4 DEF KillsHaveAReason, Truncated, ExecTypeOK
    <3>2. \A pipe \in Pipes : buf[pipe] = written[pipe]
      BY <3>1 DEF EofIsTheEnd, BytesAreKept, ExecTypeOK
    <3>3. buf = written
      BY <3>2 DEF ExecTypeOK
    <3>4. killed = {} /\ code = "own"
      BY <2>1, <2>4 DEF KillsHaveAReason
    <3>5. OutputIsWhole' /\ NothingOutlivesAKill'
      BY <1>2, <2>1, <2>2, <2>4, <3>3, <3>4 DEF OutputIsWhole, NothingOutlivesAKill
    <3> QED
      BY <1>2, <1>3, <1>5, <2>1, <3>5 DEF KillsHaveAReason, GroupIsKilled
  <2> QED
    BY <2>3, <2>4
<1>9. CASE Reaped
  <2>1. /\ step = "reap" /\ step' = "done" /\ UNCHANGED killed
        /\ outcome' = Failed("lease_expired")
    BY <1>9 DEF Reaped, Finish_, tree
  <2>2. outcome'.status = "error"
    BY <2>1 DEF Failed
  <2>3. GroupIsKilled'
    BY <1>2, <2>1 DEF KillsHaveAReason, GroupIsKilled
  <2> QED
    BY <1>2, <1>3, <1>5, <2>1, <2>2, <2>3
       DEF KillsHaveAReason, GroupIsKilled, OutputIsWhole, NothingOutlivesAKill, Shell
<1>10. CASE Abandoned
  <2>1. step' = "done" /\ outcome' = None
    BY <1>10 DEF Abandoned
  <2> QED
    BY <1>2, <1>3, <1>4, <1>5, <2>1
       DEF KillsHaveAReason, GroupIsKilled, OutputIsWhole, NothingOutlivesAKill, Shell, Answered
<1> QED
  BY <1>6, <1>7, <1>8, <1>9, <1>10 DEF Ending

(* A beginning. *)
LEMMA ExecStart == ASSUME ExecInit PROVE ExecInv
<1>1. ExecTypeOK /\ Untouched
  BY DEF ExecInit, ExecTypeOK, Steps, Untouched
<1>2. BytesAreKept /\ EofIsTheEnd /\ KillsHaveAReason
  BY ExecutorAssumption DEF ExecInit, BytesAreKept, EofIsTheEnd, KillsHaveAReason, Truncated, GroupIsKilled
<1>3. OutputIsWhole /\ NothingOutlivesAKill
  BY DEF ExecInit, OutputIsWhole, NothingOutlivesAKill, Shell, Answered
<1> QED
  BY <1>1, <1>2, <1>3 DEF ExecInv

(* Every step of the executor *)
LEMMA ExecKeeps == ASSUME ExecInv, [ExecNext]_execution PROVE ExecInv'
<1>1. CASE Execute(FileCalls \cup ShellCalls)
  <2>1. step = "idle" /\ step' = "begin"
        /\ UNCHANGED <<outcome, alive, killed, code, holds, written, unread, buf, read, late>>
    BY <1>1 DEF Execute, tree, data, readers
  <2> QED
    BY <2>1 DEF ExecInv, ExecTypeOK, Steps, Untouched, BytesAreKept, EofIsTheEnd, KillsHaveAReason,
                Truncated, GroupIsKilled, OutputIsWhole, NothingOutlivesAKill, Shell, Answered
<1>2. CASE Begin
  BY <1>2, BeginKeeps
<1>3. CASE Reads
  BY <1>3, ReadsKeep DEF Reads
<1>4. CASE Ending \/ Abandoned
  BY <1>4, EndingKeeps
<1>5. CASE Command \/ Die
  BY <1>5, CommandKeeps
<1>6. CASE TimePasses \/ UNCHANGED execution
  <2>1. late' \in BOOLEAN /\ UNCHANGED <<step, effect, outcome, alive, killed, code, holds, written, unread, buf, read>>
    BY <1>6 DEF TimePasses, execution, tree, data, readers, ExecInv, ExecTypeOK
  <2> QED
    BY <2>1, NothingNew
       DEF ExecInv, ExecTypeOK, Untouched, BytesAreKept, EofIsTheEnd, KillsHaveAReason, Truncated, GroupIsKilled
<1> QED
  BY <1>1, <1>2, <1>3, <1>4, <1>5, <1>6 DEF ExecNext, Executing

(* What holds of every execution *)
LEMMA ExecHolds == ExecSpec => []ExecInv
<1>1. ExecInit => ExecInv
  BY ExecStart
<1>2. ExecInv /\ [ExecNext]_execution => ExecInv'
  BY ExecKeeps
<1> QED
  BY <1>1, <1>2, PTL DEF ExecSpec

(* An answer that is not marked truncated has every byte that was written and
   a command nobody interfered with; one that is, a prefix of the cap's
   length. *)
THEOREM OutputIsWholeHolds == ExecSpec => []OutputIsWhole
<1>1. ExecInv => OutputIsWhole
  BY DEF ExecInv
<1> QED
  BY <1>1, ExecHolds, PTL

(* Nothing of the process group outlives an answer that came with a kill. *)
THEOREM NothingOutlivesAKillHolds == ExecSpec => []NothingOutlivesAKill
<1>1. ExecInv => NothingOutlivesAKill
  BY DEF ExecInv
<1> QED
  BY <1>1, ExecHolds, PTL

-----------------------------------------------------------------------------
(* Where a file tool lands.  Sequences first. *)

Paths == Seq(Names)

LEMMA PathsAreJoined ==
    ASSUME NEW p \in Paths, NEW q \in Paths
    PROVE  /\ p \o q \in Paths /\ Len(p \o q) = Len(p) + Len(q)
           /\ p \o <<>> = p /\ <<>> \o q = q
           /\ \A n \in 0 .. Len(p) : SubSeq(p \o q, 1, n) = SubSeq(p, 1, n)
           /\ SubSeq(p, 1, Len(p)) = p /\ SubSeq(p \o q, 1, Len(p)) = p
<1>1. p \o q \in Paths /\ Len(p \o q) = Len(p) + Len(q) /\ p \o <<>> = p /\ <<>> \o q = q
      /\ SubSeq(p, 1, Len(p)) = p
  BY ConcatProperties, ConcatEmptySeq, SubSeqFull DEF Paths
<1>2. ASSUME NEW n \in 0 .. Len(p) PROVE SubSeq(p \o q, 1, n) = SubSeq(p, 1, n)
  <2>1. CASE n = 0
    BY <2>1, SubSeqEmpty
  <2>2. CASE n > 0
    <3>1. 1 \in 1 .. Len(p) /\ n \in 1 .. Len(p)
      BY <2>2, LenProperties DEF Paths
    <3> QED
      BY <3>1, SubSeqOfConcat1 DEF Paths
  <2> QED
    BY <2>1, <2>2, LenProperties DEF Paths
<1>3. Len(p) \in 0 .. Len(p)
  BY LenProperties DEF Paths
<1> QED
  BY <1>1, <1>2, <1>3

LEMMA OneNameOn ==
    ASSUME NEW p \in Paths, NEW q \in Paths, q # <<>>
    PROVE  LET next == Append(p, Head(q))
           IN  /\ Head(q) \in Names /\ Tail(q) \in Paths /\ next \in Paths
               /\ Len(next) = Len(p) + 1 /\ next # <<>>
               /\ next \o Tail(q) = p \o q
               /\ next = SubSeq(p \o q, 1, Len(p) + 1)
               /\ \A k \in 1 .. Len(p) : SubSeq(next, 1, k) = SubSeq(p, 1, k)
               /\ SubSeq(next, 1, Len(p) + 1) = next
<1> DEFINE next == Append(p, Head(q))
<1>1. Head(q) \in Names /\ Tail(q) \in Paths
  BY HeadTailProperties DEF Paths
<1>2. next \in Paths /\ Len(next) = Len(p) + 1 /\ next # <<>> /\ next = p \o <<Head(q)>>
  BY <1>1, AppendProperties, AppendIsConcat DEF Paths
<1>3. <<Head(q)>> \in Paths /\ <<Head(q)>> \o Tail(q) = q
  BY <1>1 DEF Paths
<1>4. next \o Tail(q) = p \o q
  <2>1. (p \o <<Head(q)>>) \o Tail(q) = p \o (<<Head(q)>> \o Tail(q))
    BY <1>1, <1>3, ConcatAssociative DEF Paths
  <2> QED
    BY <1>2, <1>3, <2>1
<1>5. SubSeq(next, 1, Len(p) + 1) = next /\ SubSeq(p \o q, 1, Len(p) + 1) = next
  <2> HIDE DEF next
  <2>1. SubSeq(next, 1, Len(next)) = next /\ SubSeq(next \o Tail(q), 1, Len(next)) = next
    BY <1>1, <1>2, PathsAreJoined
  <2> QED
    BY <1>2, <1>4, <2>1
<1>6. \A k \in 1 .. Len(p) : SubSeq(next, 1, k) = SubSeq(p, 1, k)
  <2>1. Len(p) \in Nat
    BY LenProperties DEF Paths
  <2> QED
    BY <1>2, <1>3, <2>1, PathsAreJoined
<1> QED
  BY <1>1, <1>2, <1>4, <1>5, <1>6

-----------------------------------------------------------------------------
(* A walk, without its recursive function. *)

Start(path) == [at |-> <<>>, rest |-> path, status |-> "walking"]

IsWalk(f, m, fs, path) ==
    f = [n \in 0 .. m |-> IF n = 0 THEN Start(path) ELSE WalkStep(fs, f[n - 1])]

LEMMA WalkExists ==
    ASSUME NEW fs, NEW path, NEW m \in Nat
    PROVE  \E f : IsWalk(f, m, fs, path)
<1> DEFINE T == {n \in Nat : ~ \E f : IsWalk(f, n, fs, path)}
<1> SUFFICES ASSUME T # {} PROVE FALSE
  OBVIOUS
<1>1. PICK x \in T : \A y \in T : x <= y
  BY LeastNatural
<1>2. CASE x = 0
  <2> DEFINE f == [n \in 0 .. 0 |-> Start(path)]
  <2>1. IsWalk(f, 0, fs, path)
    BY DEF IsWalk
  <2> QED
    BY <1>2, <2>1
<1>3. CASE x > 0
  <2>1. x - 1 \in Nat /\ x - 1 \notin T
    BY <1>1, <1>3
  <2>2. PICK g : IsWalk(g, x - 1, fs, path)
    BY <2>1
  <2> DEFINE f == [n \in 0 .. x |-> IF n = x THEN WalkStep(fs, g[x - 1]) ELSE g[n]]
  <2>3. ASSUME NEW n \in 0 .. x
        PROVE  f[n] = IF n = 0 THEN Start(path) ELSE WalkStep(fs, f[n - 1])
    <3>1. CASE n = x
      <4>1. f[n - 1] = g[x - 1] /\ f[n] = WalkStep(fs, g[x - 1])
        BY <1>3, <3>1
      <4> HIDE DEF f
      <4> QED
        BY <1>3, <3>1, <4>1
    <3>2. CASE n # x /\ n # 0
      <4>1. n \in 0 .. x - 1 /\ f[n] = g[n] /\ f[n - 1] = g[n - 1]
        BY <3>2
      <4>2. g[n] = WalkStep(fs, g[n - 1])
        BY <2>2, <3>2, <4>1 DEF IsWalk
      <4> HIDE DEF f
      <4> QED
        BY <3>2, <4>1, <4>2
    <3>3. CASE n # x /\ n = 0
      <4>1. n \in 0 .. x - 1 /\ f[n] = g[n]
        BY <3>3
      <4>2. g[n] = Start(path)
        BY <2>2, <3>3, <4>1 DEF IsWalk
      <4> QED
        BY <3>3, <4>1, <4>2
    <3> QED
      BY <3>1, <3>2, <3>3
  <2>4. IsWalk(f, x, fs, path)
    <3>1. f = [n \in 0 .. x |-> f[n]]
      OBVIOUS
    <3> HIDE DEF f
    <3> QED
      BY <2>3, <3>1 DEF IsWalk
  <2> QED
    BY <2>4
<1> QED
  BY <1>2, <1>3

LEMMA WalkIs ==
    ASSUME NEW fs, NEW path
    PROVE  \E f : IsWalk(f, MaxSteps, fs, path) /\ Walk(fs, path) = f[MaxSteps]
<1> DEFINE f == CHOOSE f : f = [n \in 0 .. MaxSteps |->
                   IF n = 0 THEN [at |-> <<>>, rest |-> path, status |-> "walking"]
                   ELSE WalkStep(fs, f[n - 1])]
<1>1. Walk(fs, path) = f[MaxSteps]
  BY DEF Walk
<1>2. IsWalk(f, MaxSteps, fs, path)
  <2>1. \E h : IsWalk(h, MaxSteps, fs, path)
    BY WalkExists, WorkspaceAssumption
  <2> QED
    BY <2>1, Zenon DEF IsWalk, Start
<1> QED
  BY <1>1, <1>2

-----------------------------------------------------------------------------
(* What a walk keeps. *)

Typed(fs) == \A path \in DOMAIN fs : fs[path] \in Nodes

Walks == [at : Paths, rest : Paths, status : {"walking", "found", "missing", "not_a_directory"}]

(* Where it has come to is real: no link, and nothing under a file. *)
NoLink(fs, at) == \A k \in 1 .. Len(at) : Node(fs, SubSeq(at, 1, k)).kind \in {"dir", "file"}

RealWalk(fs, w) ==
    /\ w \in Walks /\ NoLink(fs, w.at)
    /\ w.rest # <<>> => Node(fs, w.at) = Dir
    /\ w.status = "found" => w.rest = <<>>

(* A walk along a path that has no link on it stays on it. *)
StraightWalk(fs, at, rest, w) ==
    /\ RealWalk(fs, w) /\ Len(w.at) <= Len(at)
    /\ w.at \o w.rest = at \o rest

LEMMA NodeType ==
    ASSUME NEW fs, Typed(fs), NEW path
    PROVE  /\ Node(fs, path) \in Nodes
           /\ Node(fs, path).kind \in {"dir", "file", "link", "nothing"}
           /\ Node(fs, path).kind = "dir" <=> Node(fs, path) = Dir
           /\ Node(fs, path).kind = "nothing" <=> Node(fs, path) = Nothing
           /\ Node(fs, path).kind = "link" => Node(fs, path).target \in Paths
<1>1. Node(fs, path) \in Nodes
  BY DEF Typed, Node, Nodes
<1> QED
  BY <1>1 DEF Nodes, Dir, Nothing, File, HardLinked, Paths

(* One name further *)
LEMMA NoLinkOn ==
    ASSUME NEW fs, NEW p \in Paths, NEW q \in Paths, q # <<>>, NoLink(fs, p),
           Node(fs, Append(p, Head(q))).kind \in {"dir", "file"}
    PROVE  NoLink(fs, Append(p, Head(q)))
<1> DEFINE next == Append(p, Head(q))
<1>1. /\ Len(next) = Len(p) + 1 /\ Len(p) \in Nat
      /\ \A k \in 1 .. Len(p) : SubSeq(next, 1, k) = SubSeq(p, 1, k)
      /\ SubSeq(next, 1, Len(p) + 1) = next
  BY OneNameOn, LenProperties DEF Paths
<1> SUFFICES ASSUME NEW k \in 1 .. Len(next) PROVE Node(fs, SubSeq(next, 1, k)).kind \in {"dir", "file"}
  BY DEF NoLink
<1>2. CASE k = Len(p) + 1
  BY <1>1, <1>2
<1>3. CASE k \in 1 .. Len(p)
  BY <1>1, <1>3 DEF NoLink
<1> HIDE DEF next
<1> QED
  BY <1>1, <1>2, <1>3

(* The cases of a step *)
LEMMA WalkStepIs ==
    ASSUME NEW fs, Typed(fs), NEW w \in Walks, w.status = "walking", w.rest # <<>>
    PROVE  LET next == Append(w.at, Head(w.rest))
               s == WalkStep(fs, w)
           IN  \/ /\ s = [w EXCEPT !.status = "missing"] /\ Node(fs, next) = Nothing
               \/ s = [w EXCEPT !.status = "not_a_directory"]
               \/ /\ Node(fs, next).kind = "link"
                  /\ s = [w EXCEPT !.at = <<>>, !.rest = Node(fs, next).target \o Tail(w.rest)]
               \/ /\ s = [w EXCEPT !.at = next, !.rest = Tail(w.rest)]
                  /\ Node(fs, next) = Dir \/ (Node(fs, next).kind = "file" /\ Tail(w.rest) = <<>>)
<1> DEFINE next == Append(w.at, Head(w.rest))
<1>1. /\ Node(fs, next).kind \in {"dir", "file", "link", "nothing"}
      /\ Node(fs, next).kind = "dir" <=> Node(fs, next) = Dir
      /\ Node(fs, next).kind = "nothing" <=> Node(fs, next) = Nothing
  BY NodeType
<1> HIDE DEF next
<1>2. WalkStep(fs, w) =
        CASE Node(fs, next).kind = "nothing" -> [w EXCEPT !.status = "missing"]
          [] Node(fs, next).kind = "file" /\ Tail(w.rest) # <<>> -> [w EXCEPT !.status = "not_a_directory"]
          [] Node(fs, next).kind = "link" ->
               [w EXCEPT !.at = <<>>, !.rest = Node(fs, next).target \o Tail(w.rest)]
          [] OTHER -> [w EXCEPT !.at = next, !.rest = Tail(w.rest)]
  BY DEF WalkStep, next
<1>3. CASE Node(fs, next).kind = "nothing"
  BY <1>1, <1>2, <1>3 DEF next
<1>4. CASE Node(fs, next).kind = "file" /\ Tail(w.rest) # <<>>
  BY <1>1, <1>2, <1>4 DEF next
<1>5. CASE Node(fs, next).kind = "link"
  BY <1>1, <1>2, <1>5 DEF next
<1>6. CASE Node(fs, next) = Dir \/ (Node(fs, next).kind = "file" /\ Tail(w.rest) = <<>>)
  <2>1. WalkStep(fs, w) = [w EXCEPT !.at = next, !.rest = Tail(w.rest)]
    BY <1>1, <1>2, <1>6
  <2> QED
    BY <1>6, <2>1 DEF next
<1> QED
  BY <1>1, <1>3, <1>4, <1>5, <1>6

LEMMA RealStep ==
    ASSUME NEW fs, Typed(fs), NEW w, RealWalk(fs, w)
    PROVE  RealWalk(fs, WalkStep(fs, w))
<1> DEFINE next == Append(w.at, Head(w.rest))
           s == WalkStep(fs, w)
<1>1. w.at \in Paths /\ w.rest \in Paths /\ w \in Walks
  BY DEF RealWalk, Walks
<1>2. CASE w.status # "walking"
  BY <1>2 DEF WalkStep
<1>3. CASE w.status = "walking" /\ w.rest = <<>>
  BY <1>3 DEF WalkStep, RealWalk, Walks
<1>4. CASE w.status = "walking" /\ w.rest # <<>>
  <2>1. Tail(w.rest) \in Paths /\ next \in Paths
    BY <1>1, <1>4, OneNameOn
  <2>2. CASE s \in {[w EXCEPT !.status = "missing"], [w EXCEPT !.status = "not_a_directory"]}
    BY <2>2 DEF RealWalk, Walks
  <2>3. CASE /\ Node(fs, next).kind = "link"
             /\ s = [w EXCEPT !.at = <<>>, !.rest = Node(fs, next).target \o Tail(w.rest)]
    <3>1. Node(fs, next).target \o Tail(w.rest) \in Paths
      BY <2>1, <2>3, NodeType, PathsAreJoined
    <3>2. <<>> \in Paths /\ NoLink(fs, <<>>) /\ Node(fs, <<>>) = Dir
      BY EmptySeq DEF Paths, NoLink, Node
    <3> HIDE DEF s
    <3>3. s \in Walks /\ s.at = <<>> /\ s.status = "walking"
      BY <1>1, <1>4, <2>3, <3>1, <3>2 DEF Walks
    <3>4. RealWalk(fs, s)
      BY <3>2, <3>3 DEF RealWalk
    <3> QED
      BY <3>4 DEF s
  <2>4. CASE /\ s = [w EXCEPT !.at = next, !.rest = Tail(w.rest)]
             /\ Node(fs, next) = Dir \/ (Node(fs, next).kind = "file" /\ Tail(w.rest) = <<>>)
    <3>1. Node(fs, next).kind \in {"dir", "file"}
      BY <2>4 DEF Dir
    <3>2. NoLink(fs, next)
      BY <1>1, <1>4, <3>1, NoLinkOn DEF RealWalk
    <3> HIDE DEF s, next
    <3>3. s \in Walks /\ s.at = next /\ s.rest = Tail(w.rest) /\ s.status = "walking"
      BY <1>1, <1>4, <2>1, <2>4 DEF Walks
    <3>4. RealWalk(fs, s)
      BY <2>4, <3>2, <3>3 DEF RealWalk
    <3> QED
      BY <3>4 DEF s
  <2> QED
    BY <1>1, <1>4, <2>2, <2>3, <2>4, WalkStepIs
<1> QED
  BY <1>1, <1>2, <1>3, <1>4

LEMMA WalkIsReal ==
    ASSUME NEW fs, Typed(fs), NEW path \in Paths
    PROVE  RealWalk(fs, Walk(fs, path))
<1>1. PICK f : IsWalk(f, MaxSteps, fs, path) /\ Walk(fs, path) = f[MaxSteps]
  BY WalkIs
<1> DEFINE T == {n \in 0 .. MaxSteps : ~RealWalk(fs, f[n])}
<1>2. T = {}
  <2> SUFFICES ASSUME T # {} PROVE FALSE
    OBVIOUS
  <2>1. PICK x \in T : \A y \in T : x <= y
    <3>1. T \subseteq Nat
      OBVIOUS
    <3> QED
      BY <3>1, LeastNatural
  <2>2. CASE x = 0
    <3>1. f[0] = Start(path)
      BY <2>2, <1>1 DEF IsWalk
    <3>2. <<>> \in Paths /\ NoLink(fs, <<>>) /\ Node(fs, <<>>) = Dir
      BY EmptySeq DEF Paths, NoLink, Node
    <3>3. Start(path) \in Walks /\ Start(path).at = <<>> /\ Start(path).status = "walking"
      BY <3>2 DEF Start, Walks
    <3>4. RealWalk(fs, Start(path))
      BY <3>2, <3>3 DEF RealWalk
    <3> QED
      BY <2>2, <3>1, <3>4
  <2>3. CASE x # 0
    <3>1. x \in 0 .. MaxSteps /\ x - 1 \in 0 .. MaxSteps /\ x - 1 \notin T
      BY <2>1, <2>3, WorkspaceAssumption
    <3>2. f[x] = WalkStep(fs, f[x - 1])
      BY <1>1, <2>3, <3>1 DEF IsWalk
    <3>3. RealWalk(fs, f[x - 1])
      BY <3>1
    <3> QED
      BY <3>2, <3>3, RealStep
  <2> QED
    BY <2>2, <2>3
<1>3. MaxSteps \in 0 .. MaxSteps
  BY WorkspaceAssumption
<1> QED
  BY <1>1, <1>2, <1>3

(* On a path with nothing, or a file, where `at` is done, a walk stays. *)
EndsAt(fs, at, rest) ==
    rest = <<>> \/ Node(fs, at) # Dir \/ Node(fs, Append(at, Head(rest))) = Nothing

LEMMA StraightStep ==
    ASSUME NEW fs, Typed(fs), NEW at \in Paths, NEW rest \in Paths, NoLink(fs, at),
           EndsAt(fs, at, rest), NEW w, StraightWalk(fs, at, rest, w)
    PROVE  StraightWalk(fs, at, rest, WalkStep(fs, w))
<1> DEFINE next == Append(w.at, Head(w.rest))
           s == WalkStep(fs, w)
<1>1. w.at \in Paths /\ w.rest \in Paths /\ w \in Walks /\ RealWalk(fs, s)
  BY RealStep DEF StraightWalk, RealWalk, Walks
<1>2. CASE w.status # "walking"
  BY <1>2 DEF WalkStep
<1>3. CASE w.status = "walking" /\ w.rest = <<>>
  <2>1. s.at = w.at /\ s.rest = w.rest
    BY <1>1, <1>3 DEF WalkStep, Walks
  <2> QED
    BY <1>1, <2>1 DEF StraightWalk
<1>4. CASE w.status = "walking" /\ w.rest # <<>>
  <2>1. /\ Tail(w.rest) \in Paths /\ next \in Paths /\ Len(next) = Len(w.at) + 1
        /\ next \o Tail(w.rest) = at \o rest /\ next = SubSeq(at \o rest, 1, Len(w.at) + 1)
    <3>1. w.at \o w.rest = at \o rest
      BY DEF StraightWalk
    <3>2. /\ Tail(w.rest) \in Paths /\ next \in Paths /\ Len(next) = Len(w.at) + 1
          /\ next \o Tail(w.rest) = w.at \o w.rest /\ next = SubSeq(w.at \o w.rest, 1, Len(w.at) + 1)
      BY <1>1, <1>4, OneNameOn
    <3> HIDE DEF next
    <3> QED
      BY <3>1, <3>2
  <2>2. Len(w.at) \in Nat /\ Len(at) \in Nat /\ Len(w.at) <= Len(at)
    BY <1>1, LenProperties DEF StraightWalk, Paths
  <2>3. CASE s \in {[w EXCEPT !.status = "missing"], [w EXCEPT !.status = "not_a_directory"]}
    <3>1. s.at = w.at /\ s.rest = w.rest
      BY <1>1, <2>3 DEF Walks
    <3> QED
      BY <1>1, <3>1 DEF StraightWalk
  <2>4. CASE Len(w.at) < Len(at)
    <3>1. next = SubSeq(at, 1, Len(w.at) + 1) /\ Len(w.at) + 1 \in 1 .. Len(at)
      <4>1. Len(w.at) + 1 \in 0 .. Len(at) /\ Len(w.at) + 1 \in 1 .. Len(at)
        BY <2>2, <2>4
      <4>2. SubSeq(at \o rest, 1, Len(w.at) + 1) = SubSeq(at, 1, Len(w.at) + 1)
        <5> DEFINE n == Len(w.at) + 1
        <5>1. n \in 0 .. Len(at)
          BY <4>1
        <5>2. \A k \in 0 .. Len(at) : SubSeq(at \o rest, 1, k) = SubSeq(at, 1, k)
          BY PathsAreJoined
        <5> HIDE DEF n
        <5>3. SubSeq(at \o rest, 1, n) = SubSeq(at, 1, n)
          BY <5>1, <5>2
        <5> QED
          BY <5>3 DEF n
      <4> HIDE DEF next
      <4> QED
        BY <2>1, <4>1, <4>2
    <3>2. Node(fs, next).kind \in {"dir", "file"}
      BY <3>1 DEF NoLink
    <3>3. CASE s = [w EXCEPT !.at = next, !.rest = Tail(w.rest)]
      <4> HIDE DEF s, next
      <4>1. s.at = next /\ s.rest = Tail(w.rest)
        BY <1>1, <3>3 DEF Walks
      <4>2. Len(s.at) <= Len(at)
        BY <2>1, <2>2, <2>4, <4>1
      <4>3. StraightWalk(fs, at, rest, s)
        BY <1>1, <2>1, <4>1, <4>2 DEF StraightWalk
      <4> QED
        BY <4>3 DEF s
    <3>4. Node(fs, next).kind # "link"
      BY <3>2
    <3> QED
      BY <1>1, <1>4, <2>3, <3>3, <3>4, WalkStepIs
  <2>5. CASE Len(w.at) = Len(at)
    <3>1. w.at = at
      <4>1. SubSeq(w.at \o w.rest, 1, Len(w.at)) = w.at /\ SubSeq(at \o rest, 1, Len(at)) = at
        BY <1>1, PathsAreJoined
      <4> QED
        BY <2>5, <4>1 DEF StraightWalk
    <3>2. w.rest = rest
      <4>1. at \o w.rest = at \o rest
        BY <3>1 DEF StraightWalk
      <4> QED
        BY <1>1, <4>1, ConcatSimplifications DEF Paths
    <3>3. Node(fs, at) = Dir
      BY <1>4, <3>1 DEF StraightWalk, RealWalk
    <3>4. Node(fs, next) = Nothing
      BY <1>4, <3>1, <3>2, <3>3 DEF EndsAt
    <3>5. Node(fs, next).kind = "nothing" /\ Node(fs, next) # Dir
      BY <3>4 DEF Nothing, Dir
    <3> HIDE DEF next, s
    <3> QED
      BY <1>1, <1>4, <2>3, <3>5, WalkStepIs DEF next, s
  <2> QED
    BY <2>2, <2>4, <2>5
<1> QED
  BY <1>1, <1>2, <1>3, <1>4

LEMMA WalkIsStraight ==
    ASSUME NEW fs, Typed(fs), NEW at \in Paths, NEW rest \in Paths, NoLink(fs, at),
           EndsAt(fs, at, rest)
    PROVE  StraightWalk(fs, at, rest, Walk(fs, at \o rest))
<1>1. PICK f : IsWalk(f, MaxSteps, fs, at \o rest) /\ Walk(fs, at \o rest) = f[MaxSteps]
  BY WalkIs
<1> DEFINE T == {n \in 0 .. MaxSteps : ~StraightWalk(fs, at, rest, f[n])}
<1>2. T = {}
  <2> SUFFICES ASSUME T # {} PROVE FALSE
    OBVIOUS
  <2>1. PICK x \in T : \A y \in T : x <= y
    <3>1. T \subseteq Nat
      OBVIOUS
    <3> QED
      BY <3>1, LeastNatural
  <2>2. CASE x = 0
    <3>1. f[0] = Start(at \o rest)
      BY <2>2, <1>1 DEF IsWalk
    <3>2. <<>> \in Paths /\ NoLink(fs, <<>>) /\ Node(fs, <<>>) = Dir /\ Len(<<>>) = 0
      BY EmptySeq DEF Paths, NoLink, Node
    <3>3. at \o rest \in Paths /\ <<>> \o (at \o rest) = at \o rest /\ Len(at) \in Nat
      BY PathsAreJoined, LenProperties DEF Paths
    <3> DEFINE s == Start(at \o rest)
    <3>4. s \in Walks /\ s.at = <<>> /\ s.rest = at \o rest /\ s.status = "walking"
      BY <3>2, <3>3 DEF Start, Walks
    <3> HIDE DEF s
    <3>5. StraightWalk(fs, at, rest, s)
      BY <3>2, <3>3, <3>4 DEF RealWalk, StraightWalk
    <3> QED
      BY <2>2, <3>1, <3>5 DEF s
  <2>3. CASE x # 0
    <3>1. x \in 0 .. MaxSteps /\ x - 1 \in 0 .. MaxSteps /\ x - 1 \notin T
      BY <2>1, <2>3, WorkspaceAssumption
    <3>2. f[x] = WalkStep(fs, f[x - 1])
      BY <1>1, <2>3, <3>1 DEF IsWalk
    <3>3. StraightWalk(fs, at, rest, f[x - 1])
      BY <3>1
    <3> QED
      BY <3>2, <3>3, StraightStep
  <2> QED
    BY <2>2, <2>3
<1>3. MaxSteps \in 0 .. MaxSteps
  BY WorkspaceAssumption
<1> QED
  BY <1>1, <1>2, <1>3

-----------------------------------------------------------------------------
(* What the names alone make of a path. *)

IsLexical(f, m, rel) ==
    f = [n \in 0 .. m |-> IF n = 0 THEN Accepted(<<>>) ELSE LexicalStep(f[n - 1], rel[n])]

LEMMA LexicalExists ==
    ASSUME NEW rel, NEW m \in Nat
    PROVE  \E f : IsLexical(f, m, rel)
<1> DEFINE T == {n \in Nat : ~ \E f : IsLexical(f, n, rel)}
<1> SUFFICES ASSUME T # {} PROVE FALSE
  OBVIOUS
<1>1. PICK x \in T : \A y \in T : x <= y
  BY LeastNatural
<1>2. CASE x = 0
  <2> DEFINE f == [n \in 0 .. 0 |-> Accepted(<<>>)]
  <2>1. IsLexical(f, 0, rel)
    BY DEF IsLexical
  <2> QED
    BY <1>2, <2>1
<1>3. CASE x > 0
  <2>1. x - 1 \in Nat /\ x - 1 \notin T
    BY <1>1, <1>3
  <2>2. PICK g : IsLexical(g, x - 1, rel)
    BY <2>1
  <2> DEFINE f == [n \in 0 .. x |-> IF n = x THEN LexicalStep(g[x - 1], rel[x]) ELSE g[n]]
  <2>3. ASSUME NEW n \in 0 .. x
        PROVE  f[n] = IF n = 0 THEN Accepted(<<>>) ELSE LexicalStep(f[n - 1], rel[n])
    <3>1. CASE n = x
      <4>1. f[n - 1] = g[x - 1] /\ f[n] = LexicalStep(g[x - 1], rel[x])
        BY <1>3, <3>1
      <4> HIDE DEF f
      <4> QED
        BY <1>3, <3>1, <4>1
    <3>2. CASE n # x /\ n # 0
      <4>1. n \in 0 .. x - 1 /\ f[n] = g[n] /\ f[n - 1] = g[n - 1]
        BY <3>2
      <4>2. g[n] = LexicalStep(g[n - 1], rel[n])
        BY <2>2, <3>2, <4>1 DEF IsLexical
      <4> HIDE DEF f
      <4> QED
        BY <3>2, <4>1, <4>2
    <3>3. CASE n # x /\ n = 0
      <4>1. n \in 0 .. x - 1 /\ f[n] = g[n]
        BY <3>3
      <4>2. g[n] = Accepted(<<>>)
        BY <2>2, <3>3, <4>1 DEF IsLexical
      <4> QED
        BY <3>3, <4>1, <4>2
    <3> QED
      BY <3>1, <3>2, <3>3
  <2>4. IsLexical(f, x, rel)
    <3>1. f = [n \in 0 .. x |-> f[n]]
      OBVIOUS
    <3> HIDE DEF f
    <3> QED
      BY <2>3, <3>1 DEF IsLexical
  <2> QED
    BY <2>4
<1> QED
  BY <1>2, <1>3

Resolution(r) == r = Refused \/ \E p \in Paths : r = Accepted(p)

LEMMA LexicalType ==
    ASSUME NEW rel \in ParamPaths
    PROVE  Resolution(Lexical(rel))
<1>0. Len(rel) \in Nat
  BY LenProperties DEF ParamPaths
<1>1. PICK f : IsLexical(f, Len(rel), rel) /\ Lexical(rel) = f[Len(rel)]
  <2> DEFINE f == CHOOSE f : f = [n \in 0 .. Len(rel) |->
                   IF n = 0 THEN Accepted(<<>>) ELSE LexicalStep(f[n - 1], rel[n])]
  <2>1. Lexical(rel) = f[Len(rel)]
    BY DEF Lexical
  <2>2. IsLexical(f, Len(rel), rel)
    <3>1. \E h : IsLexical(h, Len(rel), rel)
      BY <1>0, LexicalExists
    <3> QED
      BY <3>1, Zenon DEF IsLexical
  <2> QED
    BY <2>1, <2>2
<1> DEFINE T == {n \in 0 .. Len(rel) : ~Resolution(f[n])}
<1>2. T = {}
  <2> SUFFICES ASSUME T # {} PROVE FALSE
    OBVIOUS
  <2>1. PICK x \in T : \A y \in T : x <= y
    <3>1. T \subseteq Nat
      OBVIOUS
    <3> QED
      BY <3>1, LeastNatural
  <2>2. CASE x = 0
    <3>1. f[0] = Accepted(<<>>) /\ <<>> \in Paths
      BY <1>0, <1>1, EmptySeq DEF IsLexical, Paths
    <3> QED
      BY <2>2, <3>1 DEF Resolution
  <2>3. CASE x # 0
    <3>1. x \in 1 .. Len(rel) /\ x - 1 \in 0 .. Len(rel) /\ x - 1 \notin T
      BY <1>0, <2>1, <2>3
    <3>2. f[x] = LexicalStep(f[x - 1], rel[x])
      BY <1>1, <2>3, <3>1 DEF IsLexical
    <3>3. Resolution(f[x - 1])
      BY <3>1
    <3>4. rel[x] \in Names \cup {Up}
      BY <3>1, ElementOfSeq DEF ParamPaths
    <3>5. CASE f[x - 1] = Refused
      BY <3>2, <3>5 DEF LexicalStep, Resolution, Refused
    <3>6. ASSUME NEW p \in Paths, f[x - 1] = Accepted(p) PROVE Resolution(f[x])
      <4>1. rel[x] # Up => Append(p, rel[x]) \in Paths
        BY <3>4, AppendProperties DEF Paths
      <4>2. p # <<>> => Front(p) \in Paths
        <5>1. Len(p) \in Nat /\ \A i \in 1 .. Len(p) - 1 : p[i] \in Names
          BY LenProperties, ElementOfSeq DEF Paths
        <5> QED
          BY <5>1, SubSeqProperties DEF Front, Paths
      <4>3. f[x - 1].ok /\ f[x - 1].path = p
        BY <3>6 DEF Accepted
      <4>4. f[x] = IF rel[x] # Up THEN Accepted(Append(p, rel[x]))
                   ELSE IF p = <<>> THEN Refused ELSE Accepted(Front(p))
        BY <3>2, <4>3 DEF LexicalStep
      <4> QED
        BY <4>1, <4>2, <4>4 DEF Resolution
    <3> QED
      BY <3>3, <3>5, <3>6 DEF Resolution
  <2> QED
    BY <2>2, <2>3
<1>3. Len(rel) \in 0 .. Len(rel)
  BY <1>0
<1> QED
  BY <1>1, <1>2, <1>3

-----------------------------------------------------------------------------
(* Where the path that is handed on leads. *)

LEMMA LongestIs ==
    ASSUME NEW fs, NEW path \in Paths
    PROVE  LET n == LongestThere(fs, path)
           IN  /\ n \in 0 .. Len(path) /\ Exists(fs, SubSeq(path, 1, n))
               /\ \A m \in n + 1 .. Len(path) : ~Exists(fs, SubSeq(path, 1, m))
<1> DEFINE There(n) == Exists(fs, SubSeq(path, 1, n))
           T == {k \in 0 .. Len(path) : There(Len(path) - k)}
<1>1. Len(path) \in Nat
  BY LenProperties DEF Paths
<1>2. There(0)
  BY SubSeqEmpty DEF Exists
<1> HIDE DEF There
<1>3. T # {} /\ T \subseteq Nat
  <2>1. Len(path) \in T
    BY <1>1, <1>2
  <2> QED
    BY <2>1
<1>4. PICK x \in T : \A y \in T : x <= y
  BY <1>3, LeastNatural
<1>5. Len(path) - x \in 0 .. Len(path) /\ There(Len(path) - x)
  BY <1>1, <1>4
<1>6. ASSUME NEW m \in Len(path) - x + 1 .. Len(path) PROVE ~There(m)
  <2>1. Len(path) - m \in 0 .. Len(path) /\ Len(path) - m < x /\ Len(path) - (Len(path) - m) = m
    BY <1>1, <1>4
  <2> QED
    BY <1>4, <2>1
<1>7. \E n \in 0 .. Len(path) : There(n) /\ \A m \in n + 1 .. Len(path) : ~There(m)
  BY <1>5, <1>6
<1> QED
  BY <1>7, Zenon DEF LongestThere, There

LEMMA ResolvedLands ==
    ASSUME NEW fs, Typed(fs), NEW ws \in Paths, NEW path \in Paths,
           ResolveThroughSymlinks(fs, ws, path).ok
    PROVE  \E at \in Paths, rest \in Paths :
             /\ ResolveThroughSymlinks(fs, ws, path).path = at \o rest
             /\ NoLink(fs, at) /\ EndsAt(fs, at, rest) /\ IsPrefix(ws, at)
             /\ Node(fs, at) # HardLinked
<1> DEFINE n == LongestThere(fs, path)
           found == SubSeq(path, 1, n)
           real == Walk(fs, found)
           rest == SubSeq(path, n + 1, Len(path))
<1>1. /\ n \in 0 .. Len(path)
      /\ \A m \in n + 1 .. Len(path) : ~Exists(fs, SubSeq(path, 1, m))
      /\ Len(path) \in Nat
  BY LongestIs, LenProperties DEF Paths
<1>2. /\ real.status = "found" /\ IsPrefix(ws, real.at) /\ Node(fs, real.at) # HardLinked
      /\ ResolveThroughSymlinks(fs, ws, path).path = real.at \o rest
  BY DEF ResolveThroughSymlinks, Refused, Accepted
<1> HIDE DEF n
<1>3. found \in Paths /\ rest \in Paths /\ (n < Len(path) => Head(rest) = path[n + 1])
      /\ (rest # <<>> => n < Len(path))
  <2>1. \A i \in 1 .. Len(path) : path[i] \in Names
    BY ElementOfSeq DEF Paths
  <2>2. found \in Paths /\ rest \in Paths
    BY <1>1, <2>1, SubSeqProperties DEF Paths
  <2>3. CASE n < Len(path)
    <3>1. n + 1 \in 1 .. Len(path) /\ Len(path) \in n + 1 .. Len(path)
      BY <1>1, <2>3
    <3> QED
      BY <2>2, <2>3, <3>1, HeadTailOfSubSeq DEF Paths
  <2>4. CASE n = Len(path)
    <3>1. rest = <<>>
      BY <1>1, <2>4, SubSeqEmpty
    <3> QED
      BY <1>1, <2>2, <2>4, <3>1
  <2> QED
    BY <1>1, <2>3, <2>4
<1>4. RealWalk(fs, real)
  BY <1>3, WalkIsReal
<1>5. real.at \in Paths /\ NoLink(fs, real.at)
  BY <1>4 DEF RealWalk, Walks
<1>6. EndsAt(fs, real.at, rest)
  <2> SUFFICES ASSUME rest # <<>> PROVE Node(fs, real.at) # Dir \/ Node(fs, Append(real.at, Head(rest))) = Nothing
    BY DEF EndsAt
  <2> DEFINE further == SubSeq(path, 1, n + 1)
  <2>1. n < Len(path) /\ n + 1 \in n + 1 .. Len(path) /\ ~Exists(fs, further)
    BY <1>1, <1>3
  <2>2. Len(further) = n + 1 /\ further \in Paths /\ further # <<>> /\ further[n + 1] = path[n + 1]
    <3>1. \A i \in 1 .. n + 1 : path[i] \in Names
      BY <1>1, <2>1, ElementOfSeq DEF Paths
    <3>2. Len(further) = n + 1 /\ further \in Paths /\ further[n + 1] = path[n + 1]
      BY <1>1, <3>1, SubSeqProperties DEF Paths
    <3> HIDE DEF further
    <3> QED
      BY <1>1, <3>2, EmptySeq DEF Paths
  <2>3. Front(further) = found
    <3>1. CASE n = 0
      <4>1. found = <<>> /\ SubSeq(further, 1, 0) = <<>>
        BY <3>1, SubSeqEmpty
      <4> HIDE DEF further, found
      <4> QED
        BY <2>2, <3>1, <4>1 DEF Front
    <3>2. CASE n > 0
      <4>1. 1 \in 1 .. Len(path) /\ n + 1 \in 1 .. Len(path) /\ 1 \in 1 .. (n + 1) - 1 + 1 /\ n \in 1 .. (n + 1) - 1 + 1
        BY <1>1, <2>1, <3>2
      <4>2. SubSeq(SubSeq(path, 1, n + 1), 1, n) = SubSeq(path, 1 + 1 - 1, 1 + n - 1)
        BY <4>1, SubSeqOfSubSeq DEF Paths
      <4>3. 1 + 1 - 1 = 1 /\ 1 + n - 1 = n /\ (n + 1) - 1 = n
        BY <1>1
      <4>4. SubSeq(further, 1, n) = found
        BY <4>2, <4>3
      <4> HIDE DEF further, found
      <4> QED
        BY <2>2, <4>3, <4>4 DEF Front
    <3> QED
      BY <1>1, <3>1, <3>2
  <2> HIDE DEF further, found
  <2> QED
    BY <1>2, <1>3, <2>1, <2>2, <2>3 DEF Exists
<1> QED
  BY <1>2, <1>3, <1>5, <1>6

(* Under what is no directory there is nothing. *)
LEMMA NothingUnder ==
    ASSUME NEW fs, IsFileSystem(fs), NEW p \in Paths, NEW q \in Paths, q # <<>>, Node(fs, p) # Dir
    PROVE  Node(fs, p \o q) = Nothing
<1> DEFINE upto(n) == SubSeq(p \o q, 1, n)
           T == {n \in Len(p) .. Len(p) + Len(q) : Node(fs, upto(n)) = Dir \/ (n > Len(p) /\ Node(fs, upto(n)) # Nothing)}
<1>1. Len(p) \in Nat /\ Len(q) \in Nat \ {0}
  BY LenProperties, EmptySeq DEF Paths
<1>2. p \o q \in Paths /\ Len(p \o q) = Len(p) + Len(q) /\ upto(Len(p)) = p /\ upto(Len(p) + Len(q)) = p \o q
  BY PathsAreJoined
<1>3. ASSUME NEW n \in 1 .. Len(p) + Len(q)
      PROVE  upto(n) # <<>> /\ Front(upto(n)) = upto(n - 1)
  <2>1. \A i \in 1 .. n : (p \o q)[i] \in Names
    BY <1>1, <1>2, <1>3, ElementOfSeq DEF Paths
  <2>2. Len(upto(n)) = n /\ upto(n) \in Paths
    BY <1>1, <1>3, <2>1, SubSeqProperties DEF Paths
  <2>3. upto(n) # <<>>
    BY <1>1, <1>3, <2>2, EmptySeq
  <2>4. CASE n = 1
    <3>1. upto(0) = <<>> /\ SubSeq(upto(n), 1, 0) = <<>>
      BY SubSeqEmpty
    <3> HIDE DEF upto
    <3>2. n - 1 = 0 /\ Len(upto(n)) - 1 = 0
      BY <2>2, <2>4
    <3>3. Front(upto(n)) = SubSeq(upto(n), 1, 0)
      BY <3>2 DEF Front
    <3>4. upto(n - 1) = upto(0)
      BY <3>2
    <3> QED
      BY <2>3, <3>1, <3>3, <3>4
  <2>5. CASE n > 1
    <3>1. 1 \in 1 .. Len(p \o q) /\ n \in 1 .. Len(p \o q) /\ 1 \in 1 .. n - 1 + 1 /\ n - 1 \in 1 .. n - 1 + 1
      BY <1>1, <1>2, <1>3, <2>5
    <3>2. SubSeq(SubSeq(p \o q, 1, n), 1, n - 1) = SubSeq(p \o q, 1 + 1 - 1, 1 + (n - 1) - 1)
      BY <1>2, <3>1, SubSeqOfSubSeq DEF Paths
    <3>3. 1 + 1 - 1 = 1 /\ 1 + (n - 1) - 1 = n - 1
      BY <1>1, <1>3
    <3>4. SubSeq(upto(n), 1, n - 1) = upto(n - 1)
      BY <3>2, <3>3
    <3> HIDE DEF upto
    <3> QED
      BY <2>2, <2>3, <3>4 DEF Front
  <2> QED
    BY <1>1, <1>3, <2>4, <2>5
<1> HIDE DEF upto
<1>4. T = {}
  <2> SUFFICES ASSUME T # {} PROVE FALSE
    OBVIOUS
  <2>1. PICK x \in T : \A y \in T : x <= y
    <3>1. T \subseteq Nat
      BY <1>1
    <3> QED
      BY <3>1, LeastNatural
  <2>2. x \in Len(p) .. Len(p) + Len(q) /\ x # Len(p)
    BY <1>1, <1>2
  <2>3. x \in 1 .. Len(p) + Len(q) /\ x - 1 \in Len(p) .. Len(p) + Len(q) /\ x - 1 \notin T
    BY <1>1, <2>1, <2>2
  <2>4. Node(fs, upto(x)) # Nothing
    BY DEF Dir, Nothing
  <2>5. Node(fs, Front(upto(x))) = Dir
    BY <1>3, <2>3, <2>4 DEF Node, IsFileSystem
  <2> QED
    BY <1>3, <2>3, <2>5
<1>5. Len(p) + Len(q) \in Len(p) .. Len(p) + Len(q) /\ Len(p) + Len(q) > Len(p)
  BY <1>1
<1> QED
  BY <1>2, <1>4, <1>5

(* Making the workspace adds its directory at most. *)
LEMMA EnsuredNode ==
    ASSUME NEW fs, IsFileSystem(fs), NEW run \in DirNames
    PROVE  /\ Typed(fs) /\ Typed(EnsuredFs(fs, run)) /\ Append(Base, run) \in Paths
           /\ \A p \in Paths : \/ Node(EnsuredFs(fs, run), p) = Node(fs, p)
                               \/ Node(fs, p) = Nothing /\ Node(EnsuredFs(fs, run), p) = Dir
<1> DEFINE ws == Append(Base, run)
           made == EnsuredFs(fs, run)
<1>1. ws \in Paths /\ ws # <<>>
  BY WorkspaceAssumption, AppendProperties DEF Paths
<1>2. Typed(fs)
  BY DEF IsFileSystem, Typed
<1> HIDE DEF ws
<1>3. CASE Node(fs, ws) # Nothing
  <2>1. made = fs
    BY <1>3 DEF EnsuredFs, ws
  <2> QED
    BY <1>1, <1>2, <2>1 DEF ws
<1>4. CASE Node(fs, ws) = Nothing
  <2>1. made = [p \in DOMAIN fs \cup {ws} |-> IF p = ws THEN Dir ELSE fs[p]]
    BY <1>4 DEF EnsuredFs, ws
  <2> HIDE DEF made
  <2>2. Typed(made)
    BY <1>2, <2>1 DEF Typed, Nodes
  <2>3. ASSUME NEW p \in Paths PROVE Node(made, p) = Node(fs, p) \/ (Node(fs, p) = Nothing /\ Node(made, p) = Dir)
    <3>1. CASE p = ws
      BY <1>1, <1>4, <2>1, <3>1 DEF Node
    <3>2. CASE p # ws
      BY <2>1, <3>2 DEF Node
    <3> QED
      BY <3>1, <3>2
  <2> QED
    BY <1>1, <1>2, <2>2, <2>3 DEF made, ws
<1> QED
  BY <1>3, <1>4

(* What a file tool is handed, it works on there and nowhere else. *)
LEMMA LandsThere ==
    ASSUME NEW fs, IsFileSystem(fs), NEW run \in DirNames, NEW rel \in ParamPaths,
           LET r == ResolveInWorkspace(EnsuredFs(fs, run), Append(Base, run), rel)
           IN  r.ok /\ (CanRead(EnsuredFs(fs, run), r.path) \/ CanWrite(EnsuredFs(fs, run), r.path))
    PROVE  LET r == ResolveInWorkspace(EnsuredFs(fs, run), Append(Base, run), rel)
               ws == Append(Base, run)
           IN  /\ Landing(EnsuredFs(fs, run), r.path) = r.path
               /\ r.path = ws \o TargetOf(ws, r.path)
               /\ Node(fs, r.path) # HardLinked
<1> DEFINE made == EnsuredFs(fs, run)
           ws == Append(Base, run)
           r == ResolveInWorkspace(made, ws, rel)
<1>1. /\ Typed(fs) /\ Typed(made) /\ ws \in Paths
      /\ \A p \in Paths : Node(made, p) = Node(fs, p) \/ (Node(fs, p) = Nothing /\ Node(made, p) = Dir)
  BY EnsuredNode
<1>2. r.ok /\ (CanRead(made, r.path) \/ CanWrite(made, r.path))
  OBVIOUS
<1> HIDE DEF made, ws
<1>3. PICK lexical \in Paths : r = ResolveThroughSymlinks(made, ws, ws \o lexical)
  <2>1. Lexical(rel).ok /\ r = ResolveThroughSymlinks(made, ws, ws \o Lexical(rel).path)
    BY <1>2 DEF ResolveInWorkspace, Refused
  <2>2. Lexical(rel).path \in Paths
    BY <2>1, LexicalType DEF Resolution, Refused, Accepted
  <2> QED
    BY <2>1, <2>2
<1> HIDE DEF r
<1>4. ws \o lexical \in Paths
  BY <1>1, PathsAreJoined
<1>5. PICK at \in Paths, rest \in Paths :
        /\ r.path = at \o rest /\ NoLink(made, at) /\ EndsAt(made, at, rest)
        /\ IsPrefix(ws, at) /\ Node(made, at) # HardLinked
  BY <1>1, <1>2, <1>3, <1>4, ResolvedLands
<1> DEFINE w == Walk(made, r.path)
<1>6. Landing(made, r.path) = r.path
  <2>1. StraightWalk(made, at, rest, w)
    BY <1>1, <1>5, WalkIsStraight
  <2>2. w.at \o w.rest = r.path /\ w.at \in Paths /\ (w.status = "found" => w.rest = <<>>)
    BY <1>5, <2>1 DEF StraightWalk, RealWalk, Walks
  <2>3. w.status \in {"found", "missing"}
    BY <1>2 DEF CanRead, CanWrite
  <2> HIDE DEF w
  <2>4. Landing(made, r.path) = IF w.status = "missing" THEN w.at \o w.rest ELSE w.at
    BY DEF Landing, w
  <2>5. CASE w.status = "missing"
    BY <2>2, <2>4, <2>5
  <2>6. CASE w.status = "found"
    BY <2>2, <2>4, <2>6, PathsAreJoined
  <2> QED
    BY <2>3, <2>5, <2>6
<1>7. r.path = ws \o TargetOf(ws, r.path)
  <2>1. r.path \in Paths /\ Len(r.path) = Len(at) + Len(rest) /\ SubSeq(r.path, 1, Len(r.path)) = r.path
    <3>1. at \o rest \in Paths /\ Len(at \o rest) = Len(at) + Len(rest)
      BY PathsAreJoined
    <3>2. SubSeq(at \o rest, 1, Len(at \o rest)) = at \o rest
      BY <3>1, SubSeqFull DEF Paths
    <3> QED
      BY <1>5, <3>1, <3>2
  <2>2. Len(ws) \in Nat /\ Len(at) \in Nat /\ Len(rest) \in Nat /\ Len(ws) <= Len(at)
    BY <1>1, <1>5, LenProperties DEF IsPrefix, Paths
  <2>3. SubSeq(r.path, 1, Len(ws)) = ws
    <3>1. SubSeq(at \o rest, 1, Len(ws)) = SubSeq(at, 1, Len(ws))
      BY <2>2, PathsAreJoined
    <3>2. SubSeq(at, 1, Len(ws)) = SubSeq(ws, 1, Len(ws)) /\ SubSeq(ws, 1, Len(ws)) = ws
      BY <1>1, <1>5, PathsAreJoined DEF IsPrefix
    <3> QED
      BY <1>5, <3>1, <3>2
  <2>4. SubSeq(r.path, 1, Len(ws)) \o SubSeq(r.path, Len(ws) + 1, Len(r.path)) = SubSeq(r.path, 1, Len(r.path))
    <3>1. 1 \in 1 .. Len(r.path) + 1 /\ Len(ws) \in 1 - 1 .. Len(r.path) /\ Len(r.path) \in Len(ws) .. Len(r.path)
      BY <2>1, <2>2
    <3> QED
      BY <2>1, <3>1, ConcatAdjacentSubSeq DEF Paths
  <2> QED
    BY <2>1, <2>3, <2>4 DEF TargetOf
<1>8. Node(fs, r.path) # HardLinked
  <2>1. CASE rest = <<>>
    <3>1. r.path = at
      BY <1>5, <2>1, PathsAreJoined
    <3>2. Node(fs, at) = Nothing \/ Node(fs, at) = Node(made, at)
      BY <1>1
    <3> QED
      BY <1>5, <3>1, <3>2 DEF Nothing, HardLinked
  <2>2. CASE rest # <<>> /\ Node(made, at) # Dir
    <3>1. Node(fs, at) # Dir
      BY <1>1, <2>2 DEF Nothing, Dir
    <3>2. Node(fs, r.path) = Nothing
      BY <1>5, <2>2, <3>1, NothingUnder
    <3> QED
      BY <3>2 DEF Nothing, HardLinked
  <2>3. CASE rest # <<>> /\ Node(made, Append(at, Head(rest))) = Nothing
    <3> DEFINE next == Append(at, Head(rest))
    <3>1. next \in Paths /\ Tail(rest) \in Paths /\ next \o Tail(rest) = r.path
      BY <1>5, <2>3, OneNameOn
    <3>2. Node(fs, next) = Nothing
      BY <1>1, <2>3, <3>1
    <3> HIDE DEF next
    <3>3. CASE Tail(rest) = <<>>
      <4>1. r.path = next
        BY <3>1, <3>3, PathsAreJoined
      <4> QED
        BY <3>2, <4>1 DEF Nothing, HardLinked
    <3>4. CASE Tail(rest) # <<>>
      <4>1. Node(fs, next) # Dir
        BY <3>2 DEF Nothing, Dir
      <4>2. Node(fs, next \o Tail(rest)) = Nothing
        BY <3>1, <3>4, <4>1, NothingUnder
      <4>3. Node(fs, r.path) = Nothing
        BY <3>1, <4>2, Zenon
      <4> QED
        BY <4>3 DEF Nothing, HardLinked
    <3> QED
      BY <3>3, <3>4
  <2> QED
    BY <1>5, <2>1, <2>2, <2>3 DEF EndsAt
<1> QED
  BY <1>6, <1>7, <1>8 DEF made, ws, r

-----------------------------------------------------------------------------
(* The executor takes the effects it is given, and only a command runs. *)
TakesEffects ==
    /\ step # "idle" => effect \in FileCalls \cup ShellCalls
    /\ step \in {"select", "wait", "reap"} => effect.tool = "shell.exec"

PlaceInv == TakesEffects /\ LandsInWorkspace

LEMMA PlaceKept ==
    ASSUME PlaceInv, UNCHANGED <<effect, outcome>>, TakesEffects',
           step' = "done" => step = "done" \/ effect.tool = "shell.exec"
    PROVE  PlaceInv'
<1>1. LandsInWorkspace'
  BY DEF PlaceInv, LandsInWorkspace, Answered
<1> QED
  BY <1>1 DEF PlaceInv

LEMMA FileToolLands ==
    ASSUME PlaceInv, RunFileTool PROVE PlaceInv'
<1> DEFINE ws == Ensure(effect.fs, effect.run)
           fs == EnsuredFs(effect.fs, effect.run)
           r == ResolveInWorkspace(fs, ws.path, effect.path)
<1>1. /\ step = "begin" /\ effect.tool \in {"fs.write", "fs.read"} /\ UNCHANGED effect
      /\ step' = "done" /\ effect \in FileCalls \cup ShellCalls
  BY DEF RunFileTool, PlaceInv, TakesEffects, Finish_
<1>2. TakesEffects'
  BY <1>1 DEF TakesEffects
<1>3. CASE outcome'.status # "ok"
  BY <1>1, <1>2, <1>3 DEF PlaceInv, LandsInWorkspace
<1>4. CASE outcome'.status = "ok"
  <2>1. /\ ws.ok /\ r.ok /\ (CanRead(fs, r.path) \/ CanWrite(fs, r.path))
        /\ outcome'.path = r.path /\ outcome'.target = TargetOf(ws.path, r.path)
    <3>1. \A why : Failed(why).status # "ok"
      BY DEF Failed
    <3> HIDE DEF ws, fs, r
    <3>2. /\ ws.ok /\ r.ok /\ (CanRead(fs, r.path) \/ CanWrite(fs, r.path))
          /\ outcome' = [status |-> "ok", taint |-> OutcomeTaint(effect.tool),
                         path |-> r.path, target |-> TargetOf(ws.path, r.path)]
      <4>1. RunFileTool =>
              IF ~r.ok THEN Finish_(Failed("path"))
              ELSE \/ /\ IF effect.tool = "fs.read" THEN CanRead(fs, r.path) ELSE CanWrite(fs, r.path)
                      /\ Finish_([status |-> "ok", taint |-> OutcomeTaint(effect.tool),
                                  path |-> r.path, target |-> TargetOf(ws.path, r.path)])
                   \/ Finish_(Failed("io"))
        BY DEF RunFileTool, ws, fs, r
      <4>2. ws.ok
        BY <1>1 DEF RunFileTool, HasWorkspace, ws
      <4> QED
        BY <1>4, <3>1, <4>1, <4>2 DEF Finish_
    <3> QED
      BY <3>2
  <2>2. ws.path = Append(Base, effect.run) /\ effect.run \in DirNames
    <3> DEFINE w == Walk(fs, Append(Base, effect.run))
    <3>1. ws = IF effect.run \in DirNames /\ w.status = "found" /\ w.at = Append(Base, effect.run)
                    /\ Node(effect.fs, w.at).kind # "file"
                 THEN Accepted(w.at) ELSE Refused
      BY DEF Ensure
    <3> HIDE DEF w, ws
    <3> QED
      BY <2>1, <3>1 DEF Accepted, Refused
  <2>3. effect \in FileCalls /\ IsFileSystem(effect.fs) /\ effect.path \in ParamPaths
    <3>1. effect \in ShellCalls => effect.tool = "shell.exec"
      BY ExecutorAssumption
    <3> QED
      BY <1>1, <3>1, ExecutorAssumption
  <2>4. r = ResolveInWorkspace(fs, Append(Base, effect.run), effect.path)
    BY <2>2
  <2> HIDE DEF r, ws
  <2>5. /\ Landing(fs, r.path) = r.path
        /\ r.path = Append(Base, effect.run) \o TargetOf(Append(Base, effect.run), r.path)
        /\ Node(effect.fs, r.path) # HardLinked
    <3> DEFINE rr == ResolveInWorkspace(EnsuredFs(effect.fs, effect.run), Append(Base, effect.run), effect.path)
    <3>1. rr = r /\ rr.ok /\ (CanRead(fs, rr.path) \/ CanWrite(fs, rr.path))
      BY <2>1, <2>4
    <3>2. /\ Landing(fs, rr.path) = rr.path
          /\ rr.path = Append(Base, effect.run) \o TargetOf(Append(Base, effect.run), rr.path)
          /\ Node(effect.fs, rr.path) # HardLinked
      BY <2>2, <2>3, <3>1, LandsThere
    <3> HIDE DEF rr
    <3> QED
      BY <3>1, <3>2
  <2>6. LandsInWorkspace'
    BY <1>1, <2>1, <2>2, <2>5 DEF LandsInWorkspace
  <2> QED
    BY <1>2, <2>6 DEF PlaceInv
<1> QED
  BY <1>3, <1>4

LEMMA PlaceNext ==
    ASSUME PlaceInv, [ExecNext]_execution PROVE PlaceInv'
<1>1. CASE Execute(FileCalls \cup ShellCalls)
  BY <1>1 DEF Execute, PlaceInv, TakesEffects, LandsInWorkspace, Answered
<1>2. CASE RunFileTool
  BY <1>2, FileToolLands
<1>3. CASE UnknownTool
  BY <1>3 DEF UnknownTool, PlaceInv, TakesEffects, LandsInWorkspace, Answered, Finish_
<1>10. CASE EnsureFails
  BY <1>10 DEF EnsureFails, PlaceInv, TakesEffects, LandsInWorkspace, Answered
<1>4. CASE StartCommand
  BY <1>4 DEF StartCommand, RefuseToSpawn, Spawn, PlaceInv, TakesEffects, LandsInWorkspace, Answered, Finish_
<1>5. CASE Reads
  BY <1>5, PlaceKept DEF Reads, ReadSome, ReadEnd, PlaceInv, TakesEffects
<1>6. CASE Ending
  BY <1>6 DEF Ending, DeadlineInSelect, BothRead, ChildWaited, DeadlineInWait, Reaped,
              PlaceInv, TakesEffects, LandsInWorkspace, Answered, Finish_
<1>7. CASE Abandoned
  BY <1>7 DEF Abandoned, Running, PlaceInv, TakesEffects, LandsInWorkspace, Answered
<1>8. CASE Command \/ Die
  BY <1>8, PlaceKept DEF Command, Write, Fork, ClosePipe, Exit, Die, Ends, PlaceInv, TakesEffects
<1>9. CASE TimePasses \/ UNCHANGED execution
  BY <1>9, PlaceKept DEF TimePasses, execution, PlaceInv, TakesEffects
<1> QED
  BY <1>1, <1>2, <1>3, <1>4, <1>5, <1>6, <1>7, <1>8, <1>9, <1>10 DEF ExecNext, Executing, Begin

LEMMA PlaceStart == ASSUME ExecInit PROVE PlaceInv
  BY DEF ExecInit, PlaceInv, TakesEffects, LandsInWorkspace, Answered

LEMMA PlaceHolds == ExecSpec => []PlaceInv
<1>1. ExecInit => PlaceInv
  BY PlaceStart
<1>2. PlaceInv /\ [ExecNext]_execution => PlaceInv'
  BY PlaceNext
<1> QED
  BY <1>1, <1>2, PTL DEF ExecSpec

(* A file tool that answers ok has worked inside the workspace of its run, at
   the place it reports, and not through another name: on every file system
   whose things are in directories, whatever links it has, and for every path
   that can be asked for. *)
THEOREM FileToolsLandInWorkspace == ExecSpec => []LandsInWorkspace
<1>1. PlaceInv => LandsInWorkspace
  BY DEF PlaceInv
<1> QED
  BY <1>1, PlaceHolds, PTL

-----------------------------------------------------------------------------
(* The turn.  Before its request there is no admission, and after its dispatch
   nothing of it but the tool. *)
TurnAdmission ==
    /\ call # None => AdmissionInv
    /\ call = None =>
         /\ verdict = None /\ asked = None /\ judged = None
         /\ stage \in {"answered", "planned"} => policy \in Policies /\ pending = None /\ estimate = None

TurnInv == TurnAdmission /\ ExecInv /\ PlaceInv

(* A step of the turn is one of the executor, or leaves it alone. *)
LEMMA TurnExecutes ==
    ASSUME [TurnNext]_toolcall PROVE [ExecNext]_execution
<1>1. CASE ExecuteStep
  BY <1>1 DEF ExecuteStep, ExecNext, Execute
<1>2. CASE Leftovers
  BY <1>2 DEF Leftovers, ExecNext, Executing
<1>3. CASE UNCHANGED toolcall
  BY <1>3 DEF toolcall
<1> QED
  BY <1>1, <1>2, <1>3 DEF TurnNext, ChargeAnswer, RequestEffect, AdmitStep, Dispatch, ChargeEffect

(* A step of the turn is one of the admission, or begins it, or is after it. *)
LEMMA TurnAdmits ==
    ASSUME TurnAdmission, [TurnNext]_toolcall PROVE TurnAdmission'
<1>1. CASE AdmitStep
  <2>1. AdmissionInv'
    BY <1>1, AdmissionStep DEF AdmitStep, TurnAdmission
  <2>2. call' = call
    BY <1>1 DEF AdmitStep, Next, AdmitCall, ReloadPolicy, AdmitWithPreview
  <2> QED
    BY <1>1, <2>1, <2>2 DEF AdmitStep, TurnAdmission
<1>2. CASE RequestEffect
  <2>1. /\ verdict = None /\ asked = None /\ judged = None /\ policy \in Policies
        /\ pending = None /\ estimate = None /\ call' \in AdmitRequests
        /\ UNCHANGED <<policy, judged, pending, verdict, asked, estimate>>
    BY <1>2 DEF RequestEffect, TurnAdmission
  <2>2. AdmissionInv'
    BY <2>1, NoneIsApart DEF AdmissionInv, TypeOK, Option, Verdicts
  <2> QED
    BY <2>1, <2>2 DEF TurnAdmission
<1>3. CASE Dispatch
  BY <1>3 DEF Dispatch, TurnAdmission
<1>4. CASE ChargeAnswer \/ ExecuteStep \/ ChargeEffect \/ Leftovers \/ UNCHANGED toolcall
  <2>1. UNCHANGED admission /\ (stage' \in {"answered", "planned"} => stage \in {"answered", "planned"})
    BY <1>4 DEF ChargeAnswer, ExecuteStep, ChargeEffect, Leftovers, turn, toolcall
  <2>2. AdmissionInv => AdmissionInv'
    BY <2>1, AdmissionStep
  <2> QED
    BY <2>1, <2>2 DEF TurnAdmission, admission
<1> QED
  BY <1>1, <1>2, <1>3, <1>4 DEF TurnNext

LEMMA TurnInvHolds == TurnSpec => []TurnInv
<1>1. TurnInit => TurnInv
  <2> SUFFICES ASSUME TurnInit PROVE TurnInv
    OBVIOUS
  <2>1. TurnAdmission
    BY DEF TurnInit, TurnAdmission
  <2>2. ExecInv /\ PlaceInv
    BY ExecStart, PlaceStart DEF TurnInit
  <2> QED
    BY <2>1, <2>2 DEF TurnInv
<1>2. TurnInv /\ [TurnNext]_toolcall => TurnInv'
  BY TurnExecutes, TurnAdmits, ExecKeeps, PlaceNext DEF TurnInv
<1> QED
  BY <1>1, <1>2, PTL DEF TurnSpec

(* What was admitted on its own is in force in a turn too: the logged decision
   decides, whatever the policy says by then. *)
THEOREM TurnFollowsLog == TurnSpec => []LogDecides
<1>1. TurnInv => LogDecides
  BY AdmittedDecides, NoneIsApart DEF TurnInv, TurnAdmission, LogDecides, Passes, Verdicts
<1> QED
  BY <1>1, TurnInvHolds, PTL

(* No gate of a turn loosens the policy's decision. *)
THEOREM TurnNeverLooser == TurnSpec => []NeverLooser
<1>1. TurnInv => NeverLooser
  BY AdmittedTightens DEF TurnInv, TurnAdmission, NeverLooser
<1> QED
  BY <1>1, TurnInvHolds, PTL

(* The structural gates hold in every turn. *)
THEOREM TurnGatesHold == TurnSpec => []GatesHold
<1>1. TurnInv => GatesHold
  BY AdmittedHolds, NoneIsApart DEF TurnInv, TurnAdmission, GatesHold, Passes, Verdicts
<1> QED
  BY <1>1, TurnInvHolds, PTL

(* What a turn admits can be paid for, with what its answer has cost. *)
THEOREM TurnIsPaidFor == TurnSpec => []PaidFor
<1>1. TurnInv => PaidFor
  BY AdmittedIsPaid, NoneIsApart DEF TurnInv, TurnAdmission, PaidFor, Passes, Verdicts
<1> QED
  BY <1>1, TurnInvHolds, PTL

(* In a turn, and after it as long as the command goes on, what the answer
   says of the output is so. *)
THEOREM TurnOutputIsWhole == TurnSpec => []OutputIsWhole
<1>1. TurnInv => OutputIsWhole
  BY DEF TurnInv, ExecInv
<1> QED
  BY <1>1, TurnInvHolds, PTL

(* And a kill spares nothing of the process group. *)
THEOREM TurnLeavesNothing == TurnSpec => []NothingOutlivesAKill
<1>1. TurnInv => NothingOutlivesAKill
  BY DEF TurnInv, ExecInv
<1> QED
  BY <1>1, TurnInvHolds, PTL

(* The file tool of a turn has worked in the workspace of its run. *)
THEOREM TurnLandsInWorkspace == TurnSpec => []LandsInWorkspace
<1>1. TurnInv => LandsInWorkspace
  BY DEF TurnInv, PlaceInv
<1> QED
  BY <1>1, TurnInvHolds, PTL

-----------------------------------------------------------------------------
(* The account.  A sum, without its recursive function. *)

Lines == [unit : Units \cup {"call"}, quantity : Nat \ {0}, unit_price : Nat, amount : 0 .. MAX]

IsTotal(f, m, how, lines) ==
    f = [n \in 0 .. m |-> IF n = 0 THEN 0 ELSE Plus(how, f[n - 1], lines[n].amount)]

LEMMA TotalExists ==
    ASSUME NEW how, NEW lines, NEW m \in Nat
    PROVE  \E f : IsTotal(f, m, how, lines)
<1> DEFINE T == {n \in Nat : ~ \E f : IsTotal(f, n, how, lines)}
<1> SUFFICES ASSUME T # {} PROVE FALSE
  OBVIOUS
<1>1. PICK x \in T : \A y \in T : x <= y
  BY LeastNatural
<1>2. CASE x = 0
  <2> DEFINE f == [n \in 0 .. 0 |-> 0]
  <2>1. IsTotal(f, 0, how, lines)
    BY DEF IsTotal
  <2> QED
    BY <1>2, <2>1
<1>3. CASE x > 0
  <2>1. x - 1 \in Nat /\ x - 1 \notin T
    BY <1>1, <1>3
  <2>2. PICK g : IsTotal(g, x - 1, how, lines)
    BY <2>1
  <2> DEFINE f == [n \in 0 .. x |-> IF n = x THEN Plus(how, g[x - 1], lines[x].amount) ELSE g[n]]
  <2>3. ASSUME NEW n \in 0 .. x
        PROVE  f[n] = IF n = 0 THEN 0 ELSE Plus(how, f[n - 1], lines[n].amount)
    <3>1. CASE n = x
      <4>1. f[n - 1] = g[x - 1] /\ f[n] = Plus(how, g[x - 1], lines[x].amount)
        BY <1>3, <3>1
      <4> HIDE DEF f
      <4> QED
        BY <1>3, <3>1, <4>1
    <3>2. CASE n # x /\ n # 0
      <4>1. n \in 0 .. x - 1 /\ f[n] = g[n] /\ f[n - 1] = g[n - 1]
        BY <3>2
      <4>2. g[n] = Plus(how, g[n - 1], lines[n].amount)
        BY <2>2, <3>2, <4>1 DEF IsTotal
      <4> HIDE DEF f
      <4> QED
        BY <3>2, <4>1, <4>2
    <3>3. CASE n # x /\ n = 0
      <4>1. n \in 0 .. x - 1 /\ f[n] = g[n]
        BY <3>3
      <4>2. g[n] = 0
        BY <2>2, <3>3, <4>1 DEF IsTotal
      <4> QED
        BY <3>3, <4>1, <4>2
    <3> QED
      BY <3>1, <3>2, <3>3
  <2>4. IsTotal(f, x, how, lines)
    <3>1. f = [n \in 0 .. x |-> f[n]]
      OBVIOUS
    <3> HIDE DEF f
    <3> QED
      BY <2>3, <3>1 DEF IsTotal
  <2> QED
    BY <2>4
<1> QED
  BY <1>2, <1>3

LEMMA TotalIs ==
    ASSUME NEW how, NEW lines, Len(lines) \in Nat
    PROVE  \E f : IsTotal(f, Len(lines), how, lines) /\ Total(how, lines) = f[Len(lines)]
<1> DEFINE f == CHOOSE f : f = [n \in 0 .. Len(lines) |->
                   IF n = 0 THEN 0 ELSE Plus(how, f[n - 1], lines[n].amount)]
<1>1. Total(how, lines) = f[Len(lines)]
  BY DEF Total
<1>2. IsTotal(f, Len(lines), how, lines)
  <2>1. \E h : IsTotal(h, Len(lines), how, lines)
    BY TotalExists
  <2> QED
    BY <2>1, Zenon DEF IsTotal
<1> QED
  BY <1>1, <1>2

(* As long as the exact sum fits, the kernel's meter is it; and what
   saturates stops there. *)
LEMMA SumsAgree ==
    ASSUME NEW lines \in Seq(Lines), MAX \in Nat
    PROVE  /\ Total("exact", lines) \in Nat
           /\ Total("exact", lines) <= MAX => Total("wrapping", lines) = Total("exact", lines)
           /\ Total("saturating", lines) =
                 IF Total("exact", lines) > MAX THEN MAX ELSE Total("exact", lines)
<1>0. Len(lines) \in Nat /\ \A n \in 1 .. Len(lines) : lines[n].amount \in 0 .. MAX
  <2>1. \A n \in 1 .. Len(lines) : lines[n] \in Lines
    BY ElementOfSeq
  <2> QED
    BY <2>1, LenProperties DEF Lines
<1>1. PICK e : IsTotal(e, Len(lines), "exact", lines) /\ Total("exact", lines) = e[Len(lines)]
  BY <1>0, TotalIs
<1>2. PICK w : IsTotal(w, Len(lines), "wrapping", lines) /\ Total("wrapping", lines) = w[Len(lines)]
  BY <1>0, TotalIs
<1>3. PICK s : IsTotal(s, Len(lines), "saturating", lines) /\ Total("saturating", lines) = s[Len(lines)]
  BY <1>0, TotalIs
<1> DEFINE Agree(n) == /\ e[n] \in Nat
                       /\ e[n] <= MAX => w[n] = e[n]
                       /\ s[n] = IF e[n] > MAX THEN MAX ELSE e[n]
           T == {n \in 0 .. Len(lines) : ~Agree(n)}
<1>4. T = {}
  <2> SUFFICES ASSUME T # {} PROVE FALSE
    OBVIOUS
  <2>1. PICK x \in T : \A y \in T : x <= y
    <3>1. T \subseteq Nat
      OBVIOUS
    <3> QED
      BY <3>1, LeastNatural
  <2>2. CASE x = 0
    <3>1. e[0] = 0 /\ w[0] = 0 /\ s[0] = 0
      BY <1>0, <1>1, <1>2, <1>3 DEF IsTotal
    <3> QED
      BY <2>2, <3>1
  <2>3. CASE x # 0
    <3>1. x \in 1 .. Len(lines) /\ x \in 0 .. Len(lines) /\ x - 1 \in 0 .. Len(lines) /\ x - 1 \notin T
      BY <1>0, <2>1, <2>3
    <3> DEFINE a == lines[x].amount
    <3>2. /\ e[x] = Plus("exact", e[x - 1], a)
          /\ w[x] = Plus("wrapping", w[x - 1], a)
          /\ s[x] = Plus("saturating", s[x - 1], a)
      BY <1>1, <1>2, <1>3, <2>3, <3>1 DEF IsTotal
    <3>3. a \in 0 .. MAX /\ Agree(x - 1)
      BY <1>0, <3>1
    <3>4. /\ e[x] = e[x - 1] + a
          /\ w[x] = (w[x - 1] + a) % (MAX + 1)
          /\ s[x] = IF s[x - 1] + a > MAX THEN MAX ELSE s[x - 1] + a
      BY <3>2 DEF Plus, WrappingAdd, SaturatingAdd
    <3> HIDE DEF a
    <3>5. \A k \in 0 .. MAX : k % (MAX + 1) = k
      OBVIOUS
    <3>6. e[x] \in Nat /\ (e[x] <= MAX => e[x - 1] <= MAX /\ e[x] \in 0 .. MAX)
      BY <3>3, <3>4
    <3>7. e[x] <= MAX => w[x] = e[x]
      BY <3>3, <3>4, <3>5, <3>6
    <3>8. s[x] = IF e[x] > MAX THEN MAX ELSE e[x]
      BY <3>3, <3>4
    <3> QED
      BY <3>6, <3>7, <3>8
  <2> QED
    BY <2>2, <2>3
<1>5. Agree(Len(lines))
  BY <1>0, <1>4
<1> QED
  BY <1>1, <1>2, <1>3, <1>5

(* One more line, or none, adds its amount, or nothing. *)
AmountOf(t) == IF t = <<>> THEN 0 ELSE t[1].amount

LEMMA TotalOfOneMore ==
    ASSUME NEW lines \in Seq(Lines), NEW t \in Seq(Lines), Len(t) <= 1, MAX \in Nat
    PROVE  /\ lines \o t \in Seq(Lines)
           /\ Total("exact", lines \o t) = Total("exact", lines) + AmountOf(t)
<1> DEFINE all == lines \o t
           n == Len(lines)
<1>1. /\ all \in Seq(Lines) /\ Len(all) = n + Len(t) /\ n \in Nat /\ Len(t) \in Nat
      /\ \A i \in 1 .. n + Len(t) : all[i] = IF i <= n THEN lines[i] ELSE t[i - n]
  BY ConcatProperties, LenProperties
<1> HIDE DEF all, n
<1>2. PICK e : IsTotal(e, Len(all), "exact", all) /\ Total("exact", all) = e[Len(all)]
  <2>1. Len(all) \in Nat
    BY <1>1
  <2> QED
    BY <2>1, TotalIs
<1>3. PICK f : IsTotal(f, n, "exact", lines) /\ Total("exact", lines) = f[n]
  <2>1. Len(lines) \in Nat
    BY LenProperties
  <2> QED
    BY <2>1, TotalIs DEF n
<1> DEFINE T == {i \in 0 .. n : e[i] # f[i]}
<1>4. T = {}
  <2> SUFFICES ASSUME T # {} PROVE FALSE
    OBVIOUS
  <2>1. PICK x \in T : \A y \in T : x <= y
    <3>1. T \subseteq Nat
      OBVIOUS
    <3> QED
      BY <3>1, LeastNatural
  <2>2. CASE x = 0
    <3>1. e[0] = 0 /\ f[0] = 0
      BY <1>1, <1>2, <1>3 DEF IsTotal
    <3> QED
      BY <2>2, <3>1
  <2>3. CASE x # 0
    <3>1. x \in 1 .. n /\ x \in 0 .. Len(all) /\ x \in 0 .. n /\ x - 1 \in 0 .. n /\ x - 1 \notin T
      BY <1>1, <2>1, <2>3
    <3>2. e[x] = Plus("exact", e[x - 1], all[x].amount) /\ f[x] = Plus("exact", f[x - 1], lines[x].amount)
      BY <1>2, <1>3, <2>3, <3>1 DEF IsTotal
    <3>3. all[x] = lines[x]
      BY <1>1, <3>1
    <3>4. e[x - 1] = f[x - 1]
      BY <3>1
    <3> QED
      BY <3>2, <3>3, <3>4
  <2> QED
    BY <2>2, <2>3
<1>5. e[n] = Total("exact", lines) /\ Total("exact", lines) \in Nat
  BY <1>1, <1>3, <1>4, SumsAgree
<1>6. CASE t = <<>>
  <2>1. Len(t) = 0
    BY <1>6, EmptySeq
  <2> QED
    BY <1>1, <1>2, <1>5, <1>6, <2>1 DEF AmountOf, all
<1>7. CASE t # <<>>
  <2>1. Len(t) = 1
    <3>1. Len(t) \in Nat \ {0}
      BY <1>7, EmptySeq
    <3>2. \A k \in Nat \ {0} : k <= 1 => k = 1
      OBVIOUS
    <3> QED
      BY <3>1, <3>2, Zenon
  <2>2. all[n + 1] = t[1] /\ Len(all) = n + 1 /\ n + 1 \in 0 .. Len(all) /\ (n + 1) - 1 = n /\ n + 1 # 0
    BY <1>1, <2>1
  <2>3. e[n + 1] = Plus("exact", e[n], all[n + 1].amount)
    BY <1>2, <2>2 DEF IsTotal
  <2>4. e[n + 1] = e[n] + t[1].amount
    BY <2>2, <2>3 DEF Plus
  <2> QED
    BY <1>1, <1>2, <1>5, <1>7, <2>2, <2>4 DEF AmountOf, all
<1> QED
  BY <1>6, <1>7

(* What a line says *)
LEMMA LineOfUnit ==
    ASSUME NEW u \in Units \cup {"call"}, NEW quantity \in Nat, NEW price \in Nat,
           quantity * price \in 0 .. MAX
    PROVE  LET t == ChargedLine(u, quantity, price)
           IN  t \in Seq(Lines) /\ Len(t) <= 1 /\ AmountOf(t) = quantity * price
<1>1. CASE quantity = 0
  <2>1. ChargedLine(u, quantity, price) = <<>> /\ quantity * price = 0
    BY <1>1 DEF ChargedLine
  <2> QED
    BY <2>1, EmptySeq DEF AmountOf
<1>2. CASE quantity > 0
  <2> DEFINE amount == quantity * price
             line == [unit |-> u, quantity |-> quantity, unit_price |-> price, amount |-> amount]
  <2>1. ChargedLine(u, quantity, price) = <<line>>
    BY <1>2 DEF ChargedLine, Line
  <2>2. amount \in 0 .. MAX
    OBVIOUS
  <2> HIDE DEF amount
  <2>3. line \in Lines /\ line.amount = amount
    BY <1>2, <2>2 DEF Lines
  <2> HIDE DEF line
  <2>4. <<line>> \in Seq(Lines) /\ Len(<<line>>) = 1 /\ <<line>> # <<>> /\ <<line>>[1] = line
    BY <2>3
  <2> QED
    BY <2>1, <2>3, <2>4 DEF AmountOf, amount
<1> QED
  BY <1>1, <1>2

(* The lines of an answer add up to what each unit of it costs. *)
LEMMA LinesOfAnswer ==
    ASSUME MAX \in Nat, NEW prices \in [Units -> 0 .. MAX], NEW used \in [Units -> 0 .. MAX],
           \A u \in Units : ~Overflows(used[u], prices[u])
    PROVE  /\ ChargedLines(prices, used) \in Seq(Lines)
           /\ Total("exact", ChargedLines(prices, used)) =
                used["input_token"] * prices["input_token"] + used["output_token"] * prices["output_token"]
                  + used["cache_read"] * prices["cache_read"] + used["cache_write"] * prices["cache_write"]
<1> DEFINE line(u) == ChargedLine(u, used[u], prices[u])
           cost(u) == used[u] * prices[u]
           two == line("input_token") \o line("output_token")
           three == two \o line("cache_read")
           four == three \o line("cache_write")
<1>1. \A u \in Units : cost(u) \in 0 .. MAX /\ used[u] \in Nat /\ prices[u] \in Nat
  <2> SUFFICES ASSUME NEW u \in Units PROVE cost(u) \in 0 .. MAX /\ used[u] \in Nat /\ prices[u] \in Nat
    OBVIOUS
  <2>1. used[u] \in Nat /\ prices[u] \in Nat
    OBVIOUS
  <2>2. cost(u) \in Nat
    BY <2>1
  <2> QED
    BY <2>1, <2>2 DEF Overflows
<1>2. \A u \in Units : line(u) \in Seq(Lines) /\ Len(line(u)) <= 1 /\ AmountOf(line(u)) = cost(u)
  BY <1>1, LineOfUnit
<1>3. ChargedLines(prices, used) = four
  BY DEF ChargedLines
<1> HIDE DEF line, cost
<1>4. \A u \in {"input_token", "output_token", "cache_read", "cache_write"} :
        line(u) \in Seq(Lines) /\ Len(line(u)) <= 1 /\ AmountOf(line(u)) = cost(u) /\ cost(u) \in Nat
  <2>1. \A u \in Units : cost(u) \in Nat
    BY <1>1
  <2>2. {"input_token", "output_token", "cache_read", "cache_write"} \subseteq Units
    BY DEF Units
  <2> QED
    BY <1>2, <2>1, <2>2, Zenon
<1>5. <<>> \in Seq(Lines) /\ <<>> \o line("input_token") = line("input_token") /\ Total("exact", <<>>) = 0
  <2>1. <<>> \in Seq(Lines) /\ Len(<<>>) = 0
    BY EmptySeq
  <2>2. PICK f : IsTotal(f, Len(<<>>), "exact", <<>>) /\ Total("exact", <<>>) = f[Len(<<>>)]
    BY <2>1, TotalIs
  <2> QED
    BY <1>4, <2>1, <2>2, ConcatEmptySeq DEF IsTotal
<1>6. Total("exact", line("input_token")) = cost("input_token")
  <2> DEFINE one == line("input_token")
  <2>1. one \in Seq(Lines) /\ Len(one) <= 1 /\ AmountOf(one) = cost("input_token") /\ cost("input_token") \in Nat
    BY <1>4
  <2> HIDE DEF one
  <2>2. Total("exact", <<>> \o one) = Total("exact", <<>>) + AmountOf(one)
    BY <1>5, <2>1, TotalOfOneMore
  <2>3. <<>> \o one = one
    BY <1>5 DEF one
  <2>4. Total("exact", one) = 0 + cost("input_token")
    BY <1>5, <2>1, <2>2, <2>3
  <2> QED
    BY <2>1, <2>4 DEF one
<1>7. two \in Seq(Lines) /\ Total("exact", two) = cost("input_token") + cost("output_token")
  BY <1>4, <1>6, TotalOfOneMore
<1> HIDE DEF two
<1>8. three \in Seq(Lines) /\ Total("exact", three) = cost("input_token") + cost("output_token") + cost("cache_read")
  BY <1>4, <1>7, TotalOfOneMore
<1> HIDE DEF three
<1>9. /\ four \in Seq(Lines)
      /\ Total("exact", four) =
           cost("input_token") + cost("output_token") + cost("cache_read") + cost("cache_write")
  BY <1>4, <1>8, TotalOfOneMore
<1> QED
  BY <1>3, <1>9 DEF cost, two, three

(* What the account is, at each stage of the turn *)
Priced ==
    /\ Covers(table, Model) /\ ~CostOverflow(table, Model, usage)
    /\ \A u \in Units : ~Overflows(usage[u], table.models[Model][u])

AnswerLines == ChargedLines(table.models[Model], usage)

AccountInv ==
    /\ table \in Tables /\ usage \in Usages
    /\ stage \in {"answered", "failed", "planned", "dispatched", "settled"}
    /\ stage \in {"answered", "failed"} => account = <<>>
    /\ stage \in {"planned", "dispatched"} => Priced /\ account = AnswerLines
    /\ stage = "settled" => Priced /\ account = AnswerLines \o EffectCharges(table, dispatched, None)

LEMMA AccountKept ==
    ASSUME AccountInv, [TurnNext]_toolcall PROVE AccountInv'
<1>1. CASE ChargeAnswer
  <2>1. UNCHANGED <<table, usage, dispatched>> /\ stage = "answered" /\ account = <<>>
    BY <1>1 DEF ChargeAnswer, AccountInv
  <2>2. CASE stage' = "failed" /\ UNCHANGED account
    BY <2>1, <2>2 DEF AccountInv
  <2>3. CASE /\ Covers(table, Model) /\ Charges(table, Model, usage).ok
             /\ stage' = "planned" /\ account' = Charges(table, Model, usage).lines
    <3>1. ~CostOverflow(table, Model, usage) /\ account' = AnswerLines
      BY <2>3 DEF Charges, AnswerLines
    <3>2. \A u \in Units : ~Overflows(usage[u], table.models[Model][u])
      BY <2>3, <3>1 DEF CostOverflow
    <3>3. Priced /\ Priced' /\ AnswerLines' = AnswerLines
      BY <2>1, <2>3, <3>1, <3>2 DEF Priced, AnswerLines
    <3> QED
      BY <2>1, <2>3, <3>1, <3>3 DEF AccountInv
  <2> QED
    BY <1>1, <2>2, <2>3 DEF ChargeAnswer
<1>2. CASE ChargeEffect
  <2>1. /\ UNCHANGED <<table, usage, dispatched>> /\ stage = "dispatched" /\ stage' = "settled"
        /\ account' = account \o EffectCharges(table, dispatched, None)
    BY <1>2 DEF ChargeEffect
  <2>2. Priced' /\ AnswerLines' = AnswerLines /\ account = AnswerLines
    BY <2>1 DEF AccountInv, Priced, AnswerLines
  <2>3. EffectCharges(table, dispatched, None)' = EffectCharges(table, dispatched, None)
    BY <2>1
  <2> QED
    BY <2>1, <2>2, <2>3 DEF AccountInv
<1>3. CASE Dispatch
  BY <1>3 DEF Dispatch, AccountInv, Priced, AnswerLines
<1>4. CASE RequestEffect \/ AdmitStep \/ ExecuteStep \/ Leftovers \/ UNCHANGED toolcall
  <2>1. UNCHANGED <<stage, dispatched, table, usage, account>>
    BY <1>4 DEF RequestEffect, AdmitStep, ExecuteStep, Leftovers, turn, toolcall
  <2> QED
    BY <2>1 DEF AccountInv, Priced, AnswerLines
<1> QED
  BY <1>1, <1>2, <1>3, <1>4 DEF TurnNext

(* The sum of the lines is the cost of the turn. *)
LEMMA AccountSum ==
    ASSUME AccountInv
    PROVE  account \in Seq(Lines) /\ Total("exact", account) = Cost
<1>1. /\ MAX \in Nat /\ usage \in [Units -> 0 .. MAX]
      /\ Covers(table, Model) => table.models[Model] \in [Units -> 0 .. MAX]
      /\ \A tool \in DOMAIN table.tools : table.tools[tool] \in 0 .. MAX
  BY PricesAssumption, WidthAssumption DEF AccountInv, Covers
<1>2. ASSUME Priced
      PROVE  AnswerLines \in Seq(Lines) /\ Total("exact", AnswerLines) = AnswerCost
  <2>1. table.models[Model] \in [Units -> 0 .. MAX]
    BY <1>1, <1>2 DEF Priced
  <2> QED
    BY <1>1, <1>2, <2>1, LinesOfAnswer DEF Priced, AnswerLines, AnswerCost, UnitCost
<1>3. CASE stage \in {"answered", "failed"}
  <2>1. <<>> \in Seq(Lines) /\ Len(<<>>) = 0
    BY EmptySeq
  <2>2. PICK f : IsTotal(f, Len(<<>>), "exact", <<>>) /\ Total("exact", <<>>) = f[Len(<<>>)]
    BY <2>1, TotalIs
  <2>3. Total("exact", <<>>) = 0
    BY <2>1, <2>2 DEF IsTotal
  <2>4. Cost = 0 /\ account = <<>>
    BY <1>3 DEF Cost, AccountInv
  <2> QED
    BY <2>1, <2>3, <2>4
<1>4. CASE stage \in {"planned", "dispatched"}
  BY <1>2, <1>4 DEF AccountInv, Cost
<1>5. CASE stage = "settled"
  <2> DEFINE price == ToolPrice(table, dispatched, None)
             t == EffectCharges(table, dispatched, None)
  <2>1. price \in 0 .. MAX
    BY <1>1 DEF ToolPrice
  <2>2. t = IF price = 0 THEN <<>> ELSE <<Line("call", 1, price)>>
    BY DEF EffectCharges
  <2>3. t = ChargedLine("call", IF price = 0 THEN 0 ELSE 1, price)
    BY <2>1, <2>2 DEF ChargedLine
  <2> HIDE DEF price, t
  <2>4. t \in Seq(Lines) /\ Len(t) <= 1 /\ AmountOf(t) = price
    <3>1. CASE price = 0
      <4>1. t = <<>>
        BY <2>2, <3>1
      <4> QED
        BY <3>1, <4>1, EmptySeq DEF AmountOf
    <3>2. CASE price # 0
      <4>1. 1 * price = price
        BY <2>1
      <4> QED
        BY <1>1, <2>1, <2>3, <3>2, <4>1, LineOfUnit
    <3> QED
      BY <3>1, <3>2
  <2>5. account = AnswerLines \o t /\ Priced
    BY <1>5 DEF AccountInv, t
  <2>6. /\ AnswerLines \o t \in Seq(Lines)
        /\ Total("exact", AnswerLines \o t) = Total("exact", AnswerLines) + price
    BY <1>1, <1>2, <2>4, <2>5, TotalOfOneMore
  <2>7. Cost = AnswerCost + price
    BY <1>5 DEF Cost, price
  <2> QED
    BY <1>2, <2>5, <2>6, <2>7
<1> QED
  BY <1>3, <1>4, <1>5 DEF AccountInv

(* The account of a turn says what it has cost, to the last micro, for any
   prices, any usage and any width of the numbers: no amount that does not fit
   leaves a line, the kernel's meter is right as long as the sum fits, and
   cost.query never falls back. *)
THEOREM AccountsAreExact == TurnSpec => []AccountIsExact
<1>1. TurnInit => AccountInv
  BY DEF TurnInit, AccountInv
<1>2. AccountInv /\ [TurnNext]_toolcall => AccountInv'
  BY AccountKept
<1>3. AccountInv => AccountIsExact
  <2> SUFFICES ASSUME AccountInv PROVE AccountIsExact
    OBVIOUS
  <2>1. account \in Seq(Lines) /\ Total("exact", account) = Cost /\ MAX \in Nat
    BY AccountSum, PricesAssumption, WidthAssumption
  <2>2. \A i \in DOMAIN account : account[i].quantity > 0 /\ account[i].amount \in 0 .. MAX
    <3>1. \A i \in DOMAIN account : account[i] \in Lines
      BY <2>1, LenProperties, ElementOfSeq
    <3> QED
      BY <3>1 DEF Lines
  <2>3. /\ Cost <= MAX => Total("wrapping", account) = Cost
        /\ Total("saturating", account) = IF Cost > MAX THEN MAX ELSE Cost
    BY <2>1, SumsAgree
  <2> QED
    BY <2>1, <2>2, <2>3 DEF AccountIsExact, AmountUsed, CostQuery
<1> QED
  BY <1>1, <1>2, <1>3, PTL DEF TurnSpec

=============================================================================
