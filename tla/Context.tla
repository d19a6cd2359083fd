------------------------------ MODULE Context ------------------------------
(***************************************************************************)
(* crates/evo-context: the blocks a context is assembled from, and how far *)
(* it is trusted because of them.  A block is named by its turn and its    *)
(* content alone, so that a replay assembles the same one.                 *)
(***************************************************************************)
EXTENDS Protocol

TrustLevels == {"user_direct", "org_trusted", "untrusted"}

(* TrustLevel::taint *)
TaintOf(trust) == IF trust = "untrusted" THEN "tainted" ELSE "clean"

BlockSources == {"user_intent", "clarification_answer", "tool_result"}

(* BlockSource::trust: by where it comes from, never by what it says. *)
Trust(source) == IF source = "tool_result" THEN "untrusted" ELSE "user_direct"

(* intent_block, clarification_block, tool_result_block *)
Block(turn, source, content) ==
    [cite |-> <<turn, source, content>>, source |-> source, trust |-> Trust(source)]

(* Assembler::assemble, its blocks and its taint_level *)
Blocks(turn, intent, answers, outputs) ==
    {Block(turn, "user_intent", intent)}
    \cup {Block(turn, "clarification_answer", a) : a \in answers}
    \cup {Block(turn, "tool_result", o) : o \in outputs}

TaintLevel(blocks) ==
    IF \E b \in blocks : TaintOf(b.trust) = "tainted" THEN "tainted" ELSE "clean"

=============================================================================
