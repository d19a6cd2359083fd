------------------------------ MODULE ToolCall ------------------------------
(***************************************************************************)
(* One turn of a run from the model's answer to the end of its tool call:  *)
(* the answer is charged (call_model of runtime.rs), the Gateway admits    *)
(* the call with what was used so far (request_effect), the executor runs  *)
(* what was dispatched (dispatch_effect), and the effect is charged        *)
(* (charge_effect).                                                        *)
(***************************************************************************)
EXTENDS GatewayAdmission, LocalExecutor, Pricing

CONSTANTS
    Model,      \* the model of the run
    Tables,     \* price tables
    Usages      \* unit |-> how much of it an answer used

(* Prices and usages are u64. *)
ASSUME PricesAssumption ==
    /\ \A t \in Tables :
         /\ \A m \in DOMAIN t.models : t.models[m] \in [Units -> 0 .. MAX]
         /\ \A tool \in DOMAIN t.tools : t.tools[tool] \in 0 .. MAX
    /\ Usages \subseteq [Units -> 0 .. MAX]

VARIABLES
    stage,      \* where the turn is
    dispatched, \* the tool of the call that was admitted, or None
    table,      \* the PriceTable
    usage,      \* of the answer
    account     \* the cost.charged lines of the Log

turn == <<stage, dispatched, table, usage, account>>
toolcall == <<admission, execution, turn>>

TurnInit ==
    /\ policy \in Policies /\ call = None /\ judged = None /\ pending = None
    /\ verdict = None /\ asked = None /\ estimate = None
    /\ ExecInit
    /\ stage = "answered" /\ dispatched = None /\ account = <<>>
    /\ table \in Tables /\ usage \in Usages

(* call_model, from model.responded on: a model without a price fails the run
   ("model_not_priced"), an amount that does not fit is an error. *)
ChargeAnswer ==
    LET charges == Charges(table, Model, usage)
    IN  /\ stage = "answered"
        /\ IF Covers(table, Model) /\ charges.ok
             THEN stage' = "planned" /\ account' = charges.lines
             ELSE stage' = "failed" /\ UNCHANGED account
        /\ UNCHANGED <<admission, execution, dispatched, table, usage>>

(* request_effect: with what is used by now *)
RequestEffect ==
    /\ stage = "planned" /\ call = None
    /\ call' \in {c \in AdmitRequests : c.used.amount = AmountUsed(account)}
    /\ UNCHANGED <<policy, judged, pending, verdict, asked, estimate, execution, turn>>

AdmitStep == call # None /\ Next /\ UNCHANGED <<execution, turn>>

(* GatewayAction::Dispatch: the admission is over, and nothing of it is read
   again but its tool. *)
Dispatch ==
    /\ stage = "planned" /\ verdict = "dispatch"
    /\ stage' = "dispatched" /\ dispatched' = call.tool
    /\ policy' = <<>> /\ call' = None /\ judged' = None /\ verdict' = None /\ asked' = None /\ estimate' = None
    /\ UNCHANGED <<pending, execution, table, usage, account>>

ExecuteStep ==
    /\ stage = "dispatched"
    /\ \/ Execute({c \in FileCalls \cup ShellCalls : c.tool = dispatched})
       \/ Executing
    /\ UNCHANGED <<admission, turn>>

(* charge_effect, with no cost reported, as the local executor does; an error
   is charged like an answer.  What the command left behind goes on. *)
ChargeEffect ==
    /\ stage = "dispatched" /\ step = "done" /\ outcome # None
    /\ stage' = "settled"
    /\ account' = account \o EffectCharges(table, dispatched, None)
    /\ UNCHANGED <<admission, execution, dispatched, table, usage>>

Leftovers == stage = "settled" /\ (Command \/ Die) /\ UNCHANGED <<admission, turn>>

TurnNext == ChargeAnswer \/ RequestEffect \/ AdmitStep \/ Dispatch \/ ExecuteStep \/ ChargeEffect \/ Leftovers

TurnFairness ==
    /\ WF_toolcall(StartCommand /\ UNCHANGED <<admission, turn>>)
    /\ WF_toolcall(Reads /\ UNCHANGED <<admission, turn>>)
    /\ WF_toolcall(Ending /\ UNCHANGED <<admission, turn>>)
    /\ WF_toolcall(Die /\ UNCHANGED <<admission, turn>>)
    /\ WF_toolcall(TimePasses /\ UNCHANGED <<admission, turn>>)

TurnSpec == TurnInit /\ [][TurnNext]_toolcall /\ TurnFairness

-----------------------------------------------------------------------------
(* What the turn has cost, in numbers without a width. *)
UnitCost(u) == usage[u] * table.models[Model][u]

AnswerCost ==
    UnitCost("input_token") + UnitCost("output_token") + UnitCost("cache_read") + UnitCost("cache_write")

Cost ==
    CASE stage \in {"answered", "failed"}    -> 0
      [] stage \in {"planned", "dispatched"} -> AnswerCost
      [] stage = "settled"                   -> AnswerCost + ToolPrice(table, dispatched, None)

(* Safety: the account says what the turn has cost, to the last micro: an
   answer with an amount that does not fit, or without a price, leaves no line
   and the run does not go on; and as long as the sum fits, the meter the
   budget is held against and the answer of cost.query are that sum (pricing.rs:
   "the books have to balance").  Where it does not, cost.query stops at the
   largest number. *)
AccountIsExact ==
    /\ Total("exact", account) = Cost
    /\ \A i \in DOMAIN account : account[i].quantity > 0 /\ account[i].amount \in 0 .. MAX
    /\ Cost <= MAX => AmountUsed(account) = Cost
    /\ CostQuery(account).amount = IF Cost > MAX THEN MAX ELSE Cost

=============================================================================
