---------------------------- MODULE MCRunViewed ----------------------------
(* RunViewed over the tools and the policy of MCRunRuntime. *)
EXTENDS MCRunRuntime, RunViewed

=============================================================================
