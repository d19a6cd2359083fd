------------------------------ MODULE Pricing ------------------------------
(***************************************************************************)
(* What a call costs: crates/evo-model/src/pricing.rs, and what the run    *)
(* runtime and the cost query make of it.  Amounts are unsigned integers   *)
(* of a fixed width: MAX is the largest.                                   *)
(*                                                                         *)
(* A table gives the models it covers their unit prices, and tools a price *)
(* per call: [models |-> model |-> unit |-> price, tools |-> tool |-> price].*)
(* A line of the account is a cost.charged event.                          *)
(***************************************************************************)
EXTENDS Protocol, Sequences

Units == {"input_token", "output_token", "cache_read", "cache_write"}

(* Rust's checked_mul, and `+` without overflow checks, which is what a release
   build does. *)
Overflows(a, b) == a * b > MAX
WrappingAdd(a, b) == (a + b) % (MAX + 1)

Line(unit, quantity, price) ==
    [unit |-> unit, quantity |-> quantity, unit_price |-> price, amount |-> quantity * price]

(* PriceTable::covers *)
Covers(table, model) == model \in DOMAIN table.models

(* PriceTable::charges: a line for each unit of which something was used, or
   no line at all if one of them overflows. *)
CostOverflow(table, model, usage) ==
    Covers(table, model) /\ \E u \in Units : Overflows(usage[u], table.models[model][u])

ChargedLine(unit, quantity, price) == IF quantity > 0 THEN <<Line(unit, quantity, price)>> ELSE <<>>

ChargedLines(prices, usage) ==
    LET line(u) == ChargedLine(u, usage[u], prices[u])
    IN  line("input_token") \o line("output_token") \o line("cache_read") \o line("cache_write")

(* Faulty (see README, "Sensitivity"): an amount that overflows wraps. *)
ChargesWrapping(table, model, usage) ==
    LET lines == ChargedLines(table.models[model], usage)
    IN  [ok |-> TRUE,
         lines |-> [i \in DOMAIN lines |-> [lines[i] EXCEPT !.amount = @ % (MAX + 1)]]]

Charges(table, model, usage) ==
    [ok |-> ~CostOverflow(table, model, usage),
     lines |-> IF ~Covers(table, model) \/ CostOverflow(table, model, usage) THEN <<>>
               ELSE ChargedLines(table.models[model], usage)]

(* charge_effect: what the executor reports goes before the table's price; a
   price of 0 makes no line, whoever gives it. *)
ToolPrice(table, tool, reported) ==
    IF reported # None THEN reported
    ELSE IF tool \in DOMAIN table.tools THEN table.tools[tool] ELSE 0

EffectCharges(table, tool, reported) ==
    LET price == ToolPrice(table, tool, reported)
    IN  IF price = 0 THEN <<>> ELSE <<Line("call", 1, price)>>

-----------------------------------------------------------------------------
(* The lines of an account added up, in numbers without a width or as one of
   Rust's additions does it. *)
Plus(how, a, b) ==
    CASE how = "exact" -> a + b
      [] how = "wrapping" -> WrappingAdd(a, b)
      [] how = "saturating" -> SaturatingAdd(a, b)

Total(how, lines) ==
    LET after[n \in 0 .. Len(lines)] ==
          IF n = 0 THEN 0 ELSE Plus(how, after[n - 1], lines[n].amount)
    IN  after[Len(lines)]

(* The kernel's meter: each line is added as it is folded. *)
AmountUsed(lines) == Total("wrapping", lines)

(* cost.query: the lines of the Log are added, and the sum does not wrap. *)
CostQuery(lines) == [amount |-> Total("saturating", lines), entries |-> Len(lines)]

=============================================================================
