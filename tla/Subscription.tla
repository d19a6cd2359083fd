----------------------------- MODULE Subscription -----------------------------
(***************************************************************************)
(* What a subscription promises: every run has a Log that only grows, and  *)
(* a reader that moves along it, from the seq it asked for on, one event   *)
(* at a time.  A reader of all runs may be put back to the beginning, and  *)
(* keeps a view meanwhile, to which only an event it does not know adds.   *)
(* No connections, no bus, no backlog: those are EventStream's.            *)
(***************************************************************************)
EXTENDS Naturals, Sequences

CONSTANTS None, Runs, Subscriptions

VARIABLES
    log,    \* run |-> how many events its Log has
    asked,  \* what the reader asked for: a run, or None for all, and a seq
    got,    \* run |-> the seqs it got, since it was put back
    view    \* run |-> the seqs in the view of a reader of all

vars == <<log, asked, got, view>>

Nowhere == [r \in Runs |-> <<>>]

Init ==
    /\ log = [r \in Runs |-> 0]
    /\ asked \in Subscriptions
    /\ got = Nowhere /\ view = Nowhere

Publish(r) ==
    /\ log' = [log EXCEPT ![r] = @ + 1]
    /\ UNCHANGED <<asked, got, view>>

Due(r) == asked.from + Len(got[r])

Deliver(r) ==
    /\ asked.run \in {None, r} /\ Due(r) < log[r]
    /\ got' = [got EXCEPT ![r] = Append(@, Due(r))]
    /\ view' = IF asked.run = None /\ Due(r) = Len(view[r])
               THEN [view EXCEPT ![r] = Append(@, Due(r))] ELSE view
    /\ UNCHANGED <<log, asked>>

PutBack ==
    /\ asked.run = None
    /\ got' = Nowhere
    /\ view' \in {view, Nowhere}
    /\ UNCHANGED <<log, asked>>

Next == (\E r \in Runs : Publish(r) \/ Deliver(r)) \/ PutBack

Spec == Init /\ [][Next]_vars

=============================================================================
