------------------------------ MODULE RunHistory ------------------------------
(***************************************************************************)
(* What the store promises to those who use a run: the run has a past, its *)
(* events, and a state at every moment of it.  Who reads asks for a moment *)
(* and is answered, at once, with the state of that moment, or of the      *)
(* present if it has not come.  Who writes takes the run over in the state *)
(* it is in and leads it from there to the next, event by event.  No       *)
(* snapshots, no hashes, no queries one after the other, no seq that is    *)
(* read before it is taken: those are RunLogReplay's.                      *)
(*                                                                         *)
(* This is for one writer at a time.  Once there have been two, only the   *)
(* past is sure: nothing in it is changed or taken back.                   *)
(***************************************************************************)
EXTENDS Naturals, Sequences

CONSTANTS None, Procs, Moments,
          StateAt(_, _)  \* the state after the first n of some events

VARIABLES
    past,    \* the events so far
    desk,    \* what each process is at: its role, the moment it asked for,
             \* and the state it has
    shared   \* whether there were two writers at once

vars == <<past, desk, shared>>

Roles == {"reader", "writer"}
Free == [role |-> "none", moment |-> None, state |-> None]
Present == StateAt(past, Len(past))

Init ==
    /\ past = <<>>
    /\ desk = [p \in Procs |-> Free]
    /\ shared = FALSE

Beside(role) == shared \/ (role = "writer" /\ \E p \in Procs : desk[p].role = "writer")

(* A writer asks for the present. *)
Ask(p) ==
    /\ desk[p].role = "none"
    /\ \E role \in Roles, moment \in Moments :
         /\ role = "writer" => moment >= Len(past)
         /\ desk' = [desk EXCEPT ![p] = [role |-> role, moment |-> moment, state |-> None]]
         /\ shared' = Beside(role)
    /\ UNCHANGED past

Answer(p) ==
    /\ desk[p].moment \in Moments
    /\ LET n == IF desk[p].moment < Len(past) THEN desk[p].moment ELSE Len(past) IN
         desk' = [desk EXCEPT ![p] = [role |-> @.role, moment |-> None, state |-> StateAt(past, n)]]
    /\ UNCHANGED <<past, shared>>

NoAnswer(p) ==
    /\ desk[p].moment \in Moments
    /\ desk' = [desk EXCEPT ![p] = [role |-> @.role, moment |-> None, state |-> None]]
    /\ UNCHANGED <<past, shared>>

(* A new run has nobody to be taken over from. *)
Begin(p) ==
    /\ desk[p].role = "none" /\ past = <<>>
    /\ desk' = [desk EXCEPT ![p] = [role |-> "writer", moment |-> None, state |-> Present]]
    /\ shared' = Beside("writer")
    /\ UNCHANGED past

(* One event more. *)
Happens ==
    /\ Len(past') = Len(past) + 1
    /\ \A n \in 1 .. Len(past) : past'[n] = past[n]

Advance(p) ==
    /\ desk[p].role = "writer" /\ desk[p].state = Present
    /\ Happens
    /\ desk' = [desk EXCEPT ![p].state = Present']
    /\ UNCHANGED shared

Leave(p) ==
    /\ desk' = [desk EXCEPT ![p] = Free]
    /\ UNCHANGED <<past, shared>>

(* What two writers at once may do to each other, but not to the past. *)
Shared ==
    /\ shared /\ shared'
    /\ UNCHANGED past \/ Happens

Next ==
    \/ Shared
    \/ \E p \in Procs : Ask(p) \/ Answer(p) \/ NoAnswer(p) \/ Begin(p) \/ Advance(p) \/ Leave(p)

Spec == Init /\ [][Next]_vars

=============================================================================
