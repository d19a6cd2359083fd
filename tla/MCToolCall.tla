----------------------------- MODULE MCToolCall -----------------------------
(***************************************************************************)
(* One instance of a tool call for TLC: every manifest, and policies that  *)
(* deny, allow and ask at every level, with rules that shadow one another; *)
(* file systems with links and hard links into, around and out of the      *)
(* workspace; a shell command with leases of every length; a price table   *)
(* with and without the model, and an answer that does not fit.            *)
(***************************************************************************)
EXTENDS ToolCall, TLC

AnyRule(decision) ==
    [tool |-> None, class |-> None, reversible |-> None, decision |-> decision]

WriteRule(decision) ==
    [tool |-> None, class |-> "write", reversible |-> FALSE, decision |-> decision]

ToolRule(decision) ==
    [tool |-> "fs.write", class |-> None, reversible |-> None, decision |-> decision]

MCPolicies ==
    {<<>>}
    \cup {<<AnyRule(d)>> : d \in Decisions}
    \cup {<<WriteRule(d), ToolRule(Deny), AnyRule(Allow)>> : d \in {Allow, RequireApproval(3)}}

MCBudgets ==
    {NoBudget, [NoBudget EXCEPT !.max_amount = 1], [NoBudget EXCEPT !.max_amount = MAX],
     [NoBudget EXCEPT !.max_tokens = 0]}

-----------------------------------------------------------------------------
MCBase == <<"base">>
Mine == <<"base", "w1">>
Other == <<"base", "w2">>
In(path) == Mine \o path

Targets == {<<"out">>, <<"out", "a">>, In(<<"b">>), Other}
Leaves == {Nothing, Dir, File, HardLinked} \cup {Link(t) : t \in Targets}

FileSystem(mine, a, b, ab) ==
    [p \in {<<"base">>, <<"out">>, Other, Mine, In(<<"a">>), In(<<"b">>), In(<<"a", "b">>)} |->
       CASE p = Mine            -> mine
         [] p = In(<<"a">>)      -> a
         [] p = In(<<"b">>)      -> b
         [] p = In(<<"a", "b">>) -> ab
         [] OTHER               -> Dir]

(* What is under a path that is no directory is not there. *)
MCFileSystems ==
    {FileSystem(Dir, a, b, Nothing) : a \in Leaves, b \in Leaves}
    \cup {FileSystem(Dir, Dir, b, ab) :
            b \in Leaves, ab \in {File, Link(<<"out">>), Link(<<"out", "b">>)}}
    \cup {FileSystem(m, Nothing, Nothing, Nothing) : m \in {Nothing, Link(Other), Link(<<"out">>)}}

MCPaths == UNION {[1 .. n -> {"a", "b", Up}] : n \in 1 .. 3}
MCSensitive == {<<"b", "b">>}

MCFileCalls ==
    [tool: {"fs.write"}, fs: MCFileSystems, run: {"w1"}, path: MCPaths]
    \cup [tool: {"fs.read", "other"}, fs: {FileSystem(Dir, Dir, File, File)},
          run: {"w1", "odd"}, path: MCPaths]

(* A lease that is over, one that is short, one that is cut to the cap. *)
MCShellCalls ==
    [tool: {"shell.exec"}, program: {"sh", "rm"},
     lease: {[issued |-> 1, expires |-> e] : e \in {0, 1, 2, 9}}]

-----------------------------------------------------------------------------
Use(input, output) ==
    [input_token |-> input, output_token |-> output, cache_read |-> 0, cache_write |-> 0]

Priced(input, output) ==
    "m" :> [input_token |-> input, output_token |-> output, cache_read |-> 1, cache_write |-> 1]

MCTables ==
    {[models |-> Priced(1, 2), tools |-> "shell.exec" :> 1],
     [models |-> Priced(3, 0), tools |-> "fs.write" :> 3],
     [models |-> <<>>, tools |-> <<>>]}

MCUsages == {Use(0, 0), Use(1, 0), Use(2, 1)}

=============================================================================
