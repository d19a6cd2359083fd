--------------------------- MODULE RunViewClaims ---------------------------
(***************************************************************************)
(* What fold.ts says of the view of a run, and the code does not keep.     *)
(***************************************************************************)
EXTENDS MCRunViewed

(* fold.ts: the status of a run in the user interface is a projection of the
   events the daemon wrote.  (run.completed carries a status; the kernel reads
   `failed` from it, the fold does not look.) *)
StatusIsTheRuns == view.status = st.status

=============================================================================
