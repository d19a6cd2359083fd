---------------------------- MODULE MCRunRuntime ----------------------------
(***************************************************************************)
(* Instances of RunRuntime for TLC, over the tools of config/tools.toml    *)
(* and the rules of config/policy.toml.                                    *)
(***************************************************************************)
EXTENDS RunRuntime

(* config/tools.toml; "mystery" has no entry there. *)
MCManifest ==
    [t \in Tools |->
        CASE t = "fs.write"   -> [class |-> "write", reversible |-> TRUE, preview |-> FALSE]
          [] t = "fs.read"    -> [class |-> "read", reversible |-> TRUE, preview |-> FALSE]
          [] t = "shell.exec" -> [class |-> "write", reversible |-> FALSE, preview |-> FALSE]
          [] t = "forbidden"  -> [class |-> "compute", reversible |-> TRUE, preview |-> FALSE]
          [] OTHER            -> None]

Rule(tool, class, reversible, outcome) ==
    [tool |-> tool, class |-> class, reversible |-> reversible, decision |-> outcome]

(* config/policy.toml, after a rule that denies one tool: the shipped file
   has none, a customer's may. *)
MCPolicy ==
    << Rule("forbidden", None, None, Deny),
       Rule(None, "read", None, Allow),
       Rule(None, "external", None, RequireApproval(3)),
       Rule(None, "write", FALSE, RequireApproval(2)) >>

Limit(tokens, amount, wall) ==
    [max_tokens |-> tokens, max_amount |-> amount, max_wall |-> wall]

MCUnlimited == {NoBudget}
MCAmountBudgets == {NoBudget, Limit(None, 1, None)}
MCWallBudgets == {NoBudget, Limit(1, None, 1)}

MCTimes == 0 .. 2
MCStill == {0}

=============================================================================
