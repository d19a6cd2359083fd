--------------------------- MODULE TriggersClaims ---------------------------
(***************************************************************************)
(* What a comment of the repository says of triggers, and the daemon does  *)
(* not keep.                                                               *)
(***************************************************************************)
EXTENDS MCTriggers

(* http.rs, last_run_active: rather miss a fire than fire the same trigger
   again while it may still be running.  (Two requests to one webhook both
   pass: the run that the first one recorded has no event in the Log until the
   request gets the runtime's mutex, and counts as not active.) *)
NeverOverlaps ==
    \A t \in Triggers : Cardinality({r \in Runs : active[r] = t}) <= 1

=============================================================================
