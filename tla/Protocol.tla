------------------------------ MODULE Protocol ------------------------------
(***************************************************************************)
(* The vocabulary of crates/evo-protocol shared by the kernel, the Gateway *)
(* and the daemon: taint levels, effect classes, budgets.                  *)
(***************************************************************************)
EXTENDS Naturals

CONSTANTS
    None,          \* the absent value of every Option<T> of the code
    MeterCap,      \* bound: the meters of BudgetUsage saturate here
    MsPerSecond,   \* milliseconds in a second (1000 in the code)
    MAX            \* bound: u64::MAX

ASSUME NoneAssumption == None \notin Nat
ASSUME MeterAssumption == MeterCap \in Nat
ASSUME SecondAssumption == MsPerSecond \in Nat \ {0}
ASSUME WidthAssumption == MAX \in Nat

TaintLevels == {"clean", "tainted"}

EffectClasses == {"read", "write", "external", "compute"}

(* RiskLevel L1 < L2 < L3. *)
RiskLevels == 1 .. 3

(* TaintLevel::join *)
Join(a, b) == IF "tainted" \in {a, b} THEN "tainted" ELSE "clean"

Option(S) == S \cup {None}

(* BudgetSpec without the two fields marked [P2], which nothing reads.
   max_wall is max_wall_seconds. *)
BudgetSpec == [max_tokens: Option(Nat), max_amount: Option(Nat), max_wall: Option(Nat)]

NoBudget == [max_tokens |-> None, max_amount |-> None, max_wall |-> None]

(* BudgetUsage *)
BudgetUsage == [tokens: Nat, amount: Nat, wall_ms: Nat]

NoUsage == [tokens |-> 0, amount |-> 0, wall_ms |-> 0]

(* Reached(limit, used): a limit is set and used up; `>=`, because a balance
   of zero pays for nothing. *)
Reached(limit, used) == limit # None /\ used >= limit

(* Rust's saturating_add and saturating_mul *)
SaturatingAdd(a, b) == IF a + b > MAX THEN MAX ELSE a + b
SaturatingMul(a, b) == IF a * b > MAX THEN MAX ELSE a * b

(* A meter never shrinks.  It saturates at MeterCap, which changes no
   comparison with a limit that is at most MeterCap. *)
Charged(meter, n) == IF meter + n > MeterCap THEN MeterCap ELSE meter + n

=============================================================================
