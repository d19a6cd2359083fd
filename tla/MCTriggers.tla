----------------------------- MODULE MCTriggers -----------------------------
(***************************************************************************)
(* Instances of Triggers for TLC: one spec of each kind.                   *)
(***************************************************************************)
EXTENDS Triggers, TLC

MCRunSymmetry == Permutations(Runs)

At(kind, arg) == [kind |-> kind, arg |-> arg]

MCSpecs == {At("once", 1), At("interval", 1), At("calendar", 2), At("webhook", 0)}
MCOnce == {At("once", 1)}
MCWebhook == {At("webhook", 0)}

MCTimes == 0 .. 2
MCShort == 0 .. 1

=============================================================================
