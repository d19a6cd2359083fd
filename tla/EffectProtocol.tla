--------------------------- MODULE EffectProtocol ---------------------------
(***************************************************************************)
(* What the daemon promises about the side effects of one run, with no     *)
(* word about calls, events, turns or crashes: the life of every effect    *)
(* from request to its end.  RunRuntime implements it.                     *)
(***************************************************************************)
EXTENDS Naturals

CONSTANT Effects

VARIABLES
    phase,     \* effect |-> where it is in its life
    allowed,   \* the effects the Gateway let pass when they were requested
    happened   \* effect |-> how often its side effect happened

protocolVars == <<phase, allowed, happened>>

Phases == {"absent", "requested", "held", "approved", "dispatched", "settled", "denied"}

Init ==
    /\ phase = [e \in Effects |-> "absent"]
    /\ allowed = {}
    /\ happened = [e \in Effects |-> 0]

Move(e, from, to) ==
    /\ phase[e] \in from
    /\ phase' = [phase EXCEPT ![e] = to]

(* A requested effect is allowed, or must be held or refused. *)
Request(e) ==
    /\ Move(e, {"absent"}, "requested")
    /\ allowed' \in {allowed, allowed \cup {e}}
    /\ UNCHANGED happened

Hold(e) == e \notin allowed /\ Move(e, {"requested"}, "held") /\ UNCHANGED <<allowed, happened>>

Grant(e) == Move(e, {"held"}, "approved") /\ UNCHANGED <<allowed, happened>>

(* By the Gateway, by a human, by the clock. *)
Refuse(e) ==
    /\ e \notin allowed
    /\ Move(e, {"requested", "held"}, "denied")
    /\ UNCHANGED <<allowed, happened>>

Dispatch(e) ==
    /\ phase[e] = "requested" => e \in allowed
    /\ Move(e, {"requested", "approved"}, "dispatched")
    /\ UNCHANGED <<allowed, happened>>

(* The side effect: once, and only between dispatch and result. *)
Happen(e) ==
    /\ phase[e] = "dispatched" /\ happened[e] = 0
    /\ happened' = [happened EXCEPT ![e] = 1]
    /\ UNCHANGED <<phase, allowed>>

Settle(e) ==
    /\ happened[e] = 1
    /\ Move(e, {"dispatched"}, "settled")
    /\ UNCHANGED <<allowed, happened>>

Next ==
    \E e \in Effects :
        \/ Request(e) \/ Hold(e) \/ Grant(e) \/ Refuse(e)
        \/ Dispatch(e) \/ Happen(e) \/ Settle(e)

Spec == Init /\ [][Next]_protocolVars

=============================================================================
