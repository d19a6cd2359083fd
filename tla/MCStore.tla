------------------------------ MODULE MCStore ------------------------------
(***************************************************************************)
(* The two halves of the store, the events with their snapshots and the    *)
(* content files, for TLC in one run.  They share no state, so each runs   *)
(* while the other is as it began.                                         *)
(***************************************************************************)
EXTENDS MCRunLogReplay, BlobStore

StoreInit == Init /\ BlobInit

EventsUntouched == log = <<>> /\ acked = {} /\ ~shared /\ \A p \in Procs : proc[p].pc = "idle"
BlobsUntouched == named = {} /\ putting.pc = "idle" /\ \A c \in Contents : tmp[c] = "absent" /\ file[c] = "absent"

StoreNext ==
    \/ BlobsUntouched /\ Next /\ UNCHANGED blobs
    \/ EventsUntouched /\ BlobNext /\ UNCHANGED vars

StoreSpec == StoreInit /\ [][StoreNext]_<<vars, blobs>>

=============================================================================
