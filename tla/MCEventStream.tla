--------------------------- MODULE MCEventStream ---------------------------
(***************************************************************************)
(* An instance of EventStream for TLC: all runs, and one run from its      *)
(* first and from its second event.                                        *)
(***************************************************************************)
EXTENDS EventStream

CONSTANTS r1, r2

MCRuns == {r1, r2}
MCSubscriptions ==
    {[run |-> None, from |-> 0], [run |-> r1, from |-> 0], [run |-> r1, from |-> 1]}

=============================================================================
