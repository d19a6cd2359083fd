--------------------------- MODULE MCRunLogReplay ---------------------------
(***************************************************************************)
(* Instances of RunLogReplay for TLC, and what replay.rs says and does not *)
(* keep.                                                                   *)
(***************************************************************************)
EXTENDS RunLogReplay, TLC

MCSymmetry == Permutations(Procs)

(* replay.rs, replay_to_checked: a bad snapshot is dropped and costs nothing;
   an error would turn one damaged row into a run that can never be resumed.
   (A snapshot that does not decode is an error.) *)
DamageCostsNothing == \A p \in Procs : proc[p].reads => proc[p].pc # "failed"

=============================================================================
