-------------------------- MODULE RunRuntimeClaims --------------------------
(***************************************************************************)
(* What comments of the repository say of a run, and the runtime does not  *)
(* keep.  Each is checked alone, and found violated.                       *)
(***************************************************************************)
EXTENDS MCRunRuntime

(* Some of the behaviours of Spec: a run that is started, and resumed whenever
   the call that drives it has ended or its process died.  No other call is
   made, and none of a run that does not exist. *)
StartedThenResumed ==
    Init /\ [][Start \/ (logged /\ Resume) \/ (pc # "idle" /\ Next)]_vars

(* runtime.rs, AssembleContext: the intent is there whenever a context is
   assembled, because start and resume made sure of it.  (A crash between
   run.created and intent.declared leaves a run without one, and resume does
   not look.) *)
NeverPanics == told # "panic"

(* runtime.rs, drive: a run is failed as stalled over effects that nobody will
   push any more, requested and never approved or dispatched.  (amend_budget
   on a run whose process died goes straight to drive, past the redispatch of
   an approved effect and past an approval that is still open.) *)
StalledMeansStuck ==
    pc = "drive" /\ st.turn <= MaxTurns /\ DecideWait(st)
        => \A e \in Unresolved(st) :
              \/ st.pending_effects[e] = "dispatched"
              \/ st.pending_effects[e] = "requested" /\ e \notin st.pending_approvals

=============================================================================
