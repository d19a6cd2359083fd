---------------------------- MODULE RunLogReplay ----------------------------
(***************************************************************************)
(* One run in the store of crates/evo-runlog (store.rs, snapshot.rs), the  *)
(* replay of crates/evo-daemon/src/replay.rs, and the two calls of         *)
(* runtime.rs that write to the store, emit and checkpoint.                *)
(*                                                                         *)
(* Every SQL statement, or transaction, is one step: that is all the       *)
(* atomicity there is, since every process has a connection of its own.    *)
(***************************************************************************)
EXTENDS Naturals, Sequences

CONSTANTS
    None,
    Garbage,     \* a snapshot that does not decode
    Procs,       \* processes: each drives the run or reads it
    MaxEvents,   \* bound: events in the Log
    MaxDamage    \* bound: damaged snapshots

ASSUME BoundsAssumption == MaxEvents \in Nat /\ MaxDamage \in Nat

VARIABLES
    log,         \* the events; log[n + 1] has seq n
    snapshots,   \* seq |-> its row in snapshots, or None
    proc,        \* what each process is doing
    \* observers: nothing in the code reads them
    acked,       \* appends that returned Ok
    damage,      \* snapshots damaged so far
    shared       \* whether two processes were ever driving the run at once

vars == <<log, snapshots, proc, acked, damage, shared>>

Seqs == 0 .. MaxEvents - 1

-----------------------------------------------------------------------------
(* The fold, by what an event does to a state: it adds to a meter
   (cost.charged), sets a field (run.suspended), is a checkpoint, or nothing
   but the last event. *)

NewState == [used |-> 0, status |-> "running", last_seq |-> 0, last_checkpoint |-> None]

(* A checkpoint carries the hash of the state before it.  state_hash tells
   states apart, so it is the state. *)
Body(kind, hash) == [kind |-> kind, hash |-> hash]
PlainKinds == {"charged", "suspended", "other"}

Reduce(st, seq, body) ==
    LET s == [st EXCEPT !.last_seq = seq] IN
    CASE body.kind = "charged"    -> [s EXCEPT !.used = @ + 1]
      [] body.kind = "suspended"  -> [s EXCEPT !.status = "suspended"]
      [] body.kind = "checkpoint" -> [s EXCEPT !.last_checkpoint = seq]
      [] body.kind = "other"      -> s

(* `base`, folded with the events from seq `from` up to, not including, `end`. *)
FoldFrom(base, from, end, events) ==
    LET f[n \in from .. end] ==
          IF n = from THEN base ELSE Reduce(f[n - 1], n - 1, events[n].body)
    IN  f[end]

(* The state after the first n events. *)
FoldOf(events, n) == FoldFrom(NewState, 0, n, events)

MinOf(a, b) == IF a < b THEN a ELSE b

-----------------------------------------------------------------------------
Idle == [pc |-> "idle", reads |-> FALSE, target |-> 0, from |-> 0, state |-> NewState, base |-> None,
         body |-> None, next |-> 0]

Init ==
    /\ log = <<>>
    /\ snapshots = [s \in Seqs |-> None]
    /\ proc = [p \in Procs |-> Idle]
    /\ acked = {}
    /\ damage = 0 /\ shared = FALSE

(* Whether a process that sets to work on the run now is the second one. *)
Drives(p) == proc[p].pc # "idle" /\ ~proc[p].reads
NowShared == shared \/ \E p \in Procs : Drives(p)

(* replay_to_checked.  Its three queries see the store at three moments. *)

(* last_seq *)
LastSeq == IF log = <<>> THEN 0 ELSE Len(log) - 1

(* resume and the other calls that go on with a run: to its end. *)
LoadRun(p) ==
    /\ proc[p].pc = "idle"
    /\ proc' = [proc EXCEPT ![p] = [Idle EXCEPT !.pc = "snapshot", !.target = LastSeq]]
    /\ shared' = NowShared
    /\ UNCHANGED <<log, snapshots, acked, damage>>

(* run.get, last_run_active, evo-cli replay: to any seq, or the last. *)
ReadRun(p) ==
    /\ proc[p].pc = "idle"
    /\ \E target \in Seqs \cup {LastSeq}, use_snapshots \in BOOLEAN :
         proc' = [proc EXCEPT ![p] =
                    [Idle EXCEPT !.pc = IF use_snapshots THEN "snapshot" ELSE "events",
                                 !.reads = TRUE, !.target = target]]
    /\ UNCHANGED <<log, snapshots, acked, damage, shared>>

(* snapshot_at_or_before *)
Candidates(target) == {s \in Seqs : s <= target /\ snapshots[s] # None}
Latest(S) == CHOOSE s \in S : \A t \in S : t <= s

NoSnapshot(p) ==
    /\ proc[p].pc = "snapshot"
    /\ Candidates(proc[p].target) = {}
    /\ proc' = [proc EXCEPT ![p].pc = "events"]
    /\ UNCHANGED <<log, snapshots, acked, damage, shared>>

(* Faulty (see README, "Sensitivity"): the hash is not looked at. *)
TakeSnapshotTrusting(p) ==
    /\ proc[p].pc = "snapshot"
    /\ Candidates(proc[p].target) # {}
    /\ LET seq == Latest(Candidates(proc[p].target))  snap == snapshots[seq] IN
         /\ snap.state # Garbage
         /\ proc' = [proc EXCEPT ![p].pc = "events", ![p].state = snap.state, ![p].from = seq]
    /\ UNCHANGED <<log, snapshots, acked, damage, shared>>

(* The snapshot agrees with its own hash: the replay starts from it, and with
   the event it was taken at. *)
TakeSnapshot(p) ==
    /\ proc[p].pc = "snapshot"
    /\ Candidates(proc[p].target) # {}
    /\ LET seq == Latest(Candidates(proc[p].target))  snap == snapshots[seq] IN
         /\ snap.state # Garbage /\ snap.hash = snap.state
         /\ proc' = [proc EXCEPT ![p].pc = "events", ![p].state = snap.state, ![p].from = seq]
    /\ UNCHANGED <<log, snapshots, acked, damage, shared>>

(* It does not: it is dropped, and everything is folded. *)
RejectSnapshot(p) ==
    /\ proc[p].pc = "snapshot"
    /\ Candidates(proc[p].target) # {}
    /\ LET snap == snapshots[Latest(Candidates(proc[p].target))] IN
         snap.state # Garbage /\ snap.hash # snap.state
    /\ proc' = [proc EXCEPT ![p].pc = "events"]
    /\ UNCHANGED <<log, snapshots, acked, damage, shared>>

(* It does not even decode: the replay fails. *)
SnapshotUndecodable(p) ==
    /\ proc[p].pc = "snapshot"
    /\ Candidates(proc[p].target) # {}
    /\ snapshots[Latest(Candidates(proc[p].target))].state = Garbage
    /\ proc' = [proc EXCEPT ![p] = [Idle EXCEPT !.pc = "failed", !.reads = proc[p].reads]]
    /\ UNCHANGED <<log, snapshots, acked, damage, shared>>

(* Faulty: everything there is by now. *)
ReplayEventsToEnd(p) ==
    /\ proc[p].pc = "events"
    /\ LET end == Len(log) IN
         proc' = [proc EXCEPT ![p].pc = "replayed",
                              ![p].state = IF end < proc[p].from THEN @
                                           ELSE FoldFrom(@, proc[p].from, end, log)]
    /\ UNCHANGED <<log, snapshots, acked, damage, shared>>

(* Events from the snapshot's to the target. *)
ReplayEvents(p) ==
    /\ proc[p].pc = "events"
    /\ LET end == MinOf(proc[p].target + 1, Len(log)) IN
         proc' = [proc EXCEPT ![p].pc = "replayed",
                              ![p].state = IF end < proc[p].from THEN @
                                           ELSE FoldFrom(@, proc[p].from, end, log)]
    /\ UNCHANGED <<log, snapshots, acked, damage, shared>>

(* A reader has its answer; a writer goes on from the state. *)
Return(p) ==
    /\ proc[p].pc \in {"replayed", "failed", "ready"}
    /\ proc' = [proc EXCEPT ![p] = Idle]
    /\ UNCHANGED <<log, snapshots, acked, damage, shared>>

-----------------------------------------------------------------------------
(* start: a new run, with an id of its own. *)
Start(w) ==
    /\ proc[w].pc = "idle" /\ log = <<>>
    /\ proc' = [proc EXCEPT ![w] = [Idle EXCEPT !.pc = "ready"]]
    /\ shared' = NowShared
    /\ UNCHANGED <<log, snapshots, acked, damage>>

(* A resumed run starts from the state that was replayed. *)
Resume(w) ==
    /\ proc[w].pc = "replayed" /\ ~proc[w].reads /\ log # <<>>
    /\ proc' = [proc EXCEPT ![w] = [Idle EXCEPT !.pc = "ready", !.state = proc[w].state]]
    /\ UNCHANGED <<log, snapshots, acked, damage, shared>>

(* append: last_seq is read outside the transaction. *)
AppendReads(w, body, base) ==
    /\ proc[w].pc = "ready"
    /\ Len(log) < MaxEvents                                  \* bound: MaxEvents
    /\ proc' = [proc EXCEPT ![w].pc = "insert", ![w].next = Len(log),
                            ![w].body = body, ![w].base = base]
    /\ UNCHANGED <<log, snapshots, acked, damage, shared>>

Emit(w) == \E kind \in PlainKinds : AppendReads(w, Body(kind, None), None)

Checkpoint(w) ==
    AppendReads(w, Body("checkpoint", proc[w].state), proc[w].state)

(* The transaction: the event and the row in runs. *)
Row(w) == [body |-> proc[w].body, writer |-> w]

(* A checkpoint goes on with its snapshot. *)
Applied(w) ==
    [proc EXCEPT ![w].pc = IF proc[w].base = None THEN "ready" ELSE "put_snapshot",
                 ![w].state = Reduce(@, proc[w].next, proc[w].body)]

(* Faulty: OR REPLACE. *)
InsertReplacing(w) ==
    /\ proc[w].pc = "insert"
    /\ log' = IF proc[w].next = Len(log) THEN Append(log, Row(w))
              ELSE [log EXCEPT ![proc[w].next + 1] = Row(w)]
    /\ acked' = acked \cup {[seq |-> proc[w].next, row |-> Row(w)]}
    /\ proc' = Applied(w)
    /\ UNCHANGED <<snapshots, damage, shared>>

Insert(w) ==
    /\ proc[w].pc = "insert" /\ proc[w].next = Len(log)
    /\ log' = Append(log, Row(w))
    /\ acked' = acked \cup {[seq |-> proc[w].next, row |-> Row(w)]}
    /\ proc' = Applied(w)
    /\ UNCHANGED <<snapshots, damage, shared>>

(* SQLITE_CONSTRAINT_PRIMARYKEY: the call ends with the error. *)
InsertConflicts(w) ==
    /\ proc[w].pc = "insert" /\ proc[w].next < Len(log)
    /\ proc' = [proc EXCEPT ![w] = [Idle EXCEPT !.pc = "failed"]]
    /\ UNCHANGED <<log, snapshots, acked, damage, shared>>

(* Faulty: the state after the checkpoint. *)
PutSnapshotAfter(w) ==
    /\ proc[w].pc = "put_snapshot"
    /\ snapshots' = [snapshots EXCEPT ![proc[w].next] =
                       [state |-> proc[w].state, hash |-> proc[w].state]]
    /\ proc' = [proc EXCEPT ![w].pc = "ready", ![w].base = None]
    /\ UNCHANGED <<log, acked, damage, shared>>

(* The state before the checkpoint, at the checkpoint's seq. *)
PutSnapshot(w) ==
    /\ proc[w].pc = "put_snapshot"
    /\ snapshots' = [snapshots EXCEPT ![proc[w].next] =
                       [state |-> proc[w].base, hash |-> proc[w].base]]
    /\ proc' = [proc EXCEPT ![w].pc = "ready", ![w].base = None]
    /\ UNCHANGED <<log, acked, damage, shared>>

-----------------------------------------------------------------------------
(* The process dies. *)
Crash(p) ==
    /\ proc[p].pc # "idle"
    /\ proc' = [proc EXCEPT ![p] = Idle]
    /\ UNCHANGED <<log, snapshots, acked, damage, shared>>

(* evo-cli replay --drop-snapshots *)
DropSnapshots ==
    /\ snapshots' = [s \in Seqs |-> None]
    /\ UNCHANGED <<log, proc, acked, damage, shared>>

(* The file goes bad: a state that is not the hash's, or no state at all. *)
Damage ==
    /\ damage < MaxDamage                                    \* bound: MaxDamage
    /\ \E s \in Seqs :
         /\ snapshots[s] # None
         /\ \E state \in {Garbage, [NewState EXCEPT !.used = MaxEvents + 1]} :
              snapshots' = [snapshots EXCEPT ![s].state = state]
    /\ damage' = damage + 1
    /\ UNCHANGED <<log, proc, acked, shared>>

Replay(p) ==
    \/ LoadRun(p) \/ ReadRun(p) \/ NoSnapshot(p) \/ TakeSnapshot(p) \/ RejectSnapshot(p)
    \/ SnapshotUndecodable(p) \/ ReplayEvents(p) \/ Return(p) \/ Crash(p)

Write(w) ==
    \/ Start(w) \/ Resume(w) \/ Emit(w) \/ Checkpoint(w)
    \/ Insert(w) \/ InsertConflicts(w) \/ PutSnapshot(w)

Next ==
    \/ \E p \in Procs : Replay(p) \/ Write(p)
    \/ DropSnapshots
    \/ Damage

Spec == Init /\ [][Next]_vars

-----------------------------------------------------------------------------
(* verify: the checkpoints whose hash is not that of the fold before them. *)
Mismatches(events) ==
    {n \in 1 .. Len(events) :
        /\ events[n].body.kind = "checkpoint"
        /\ events[n].body.hash # FoldOf(events, n - 1)}

(* With one writer at a time, a replay answers with the fold of the events up
   to its target, whichever snapshot it started from, whatever is wrong with
   the snapshots, and whatever is appended, checkpointed or dropped between its
   queries. *)
ReplayIsFold ==
    [][\A p \in Procs :
         ~shared /\ proc[p].pc = "events" /\ proc'[p].pc = "replayed"
           => proc'[p].state = FoldOf(log, MinOf(proc[p].target + 1, Len(log)))]_vars

(* The Log of one writer at a time verifies: every checkpoint has the hash
   that a replay computes before it; and one taken now would, since what a
   writer has in memory, over crashes, resumptions by another process and
   damaged snapshots, is the fold of the Log. *)
LogVerifies ==
    ~shared =>
        /\ Mismatches(log) = {}
        /\ \A w \in Procs :
             proc[w].pc \in {"ready", "insert", "put_snapshot"}
                 => proc[w].state = FoldOf(log, Len(log))

(* A snapshot that agrees with its own hash is the fold of the events before
   the checkpoint it is filed under; and only damage makes one disagree, so that
   replays of a healthy store never drop one. *)
SnapshotsAreHonest ==
    ~shared => \A s \in Seqs :
        snapshots[s] # None /\ (damage = 0 \/ snapshots[s].state = snapshots[s].hash) =>
            /\ s < Len(log)
            /\ snapshots[s] = [state |-> FoldOf(log, s), hash |-> FoldOf(log, s)]

(* No event is silently swallowed: an append that returned Ok is in the Log at
   the seq it returned, even if a second process writes to the same run. *)
AckedIsKept == \A a \in acked : a.seq < Len(log) /\ log[a.seq + 1] = a.row

-----------------------------------------------------------------------------
(* The history that the tables stand for, and what each process asked for of
   it and has. *)

Desk ==
    [p \in Procs |->
       [role   |-> IF proc[p].pc = "idle" THEN "none"
                   ELSE IF proc[p].reads THEN "reader" ELSE "writer",
        moment |-> IF proc[p].pc \in {"snapshot", "events"} THEN proc[p].target + 1 ELSE None,
        state  |-> IF proc[p].pc \in {"replayed", "ready", "insert", "put_snapshot"}
                   THEN proc[p].state ELSE None]]

History == INSTANCE RunHistory WITH
    past <- log, desk <- Desk, Moments <- 1 .. MaxEvents + 1, StateAt <- FoldOf

(* The store is a history: with one writer at a time a replay, in three
   queries and from whichever snapshot, is as if it had been answered in one
   with the state of its moment, whatever was appended, checkpointed, damaged
   or dropped between them; what a process has in memory when it takes a run
   over, and after every append, is the present; and an append, even beside
   another writer's, adds one event and changes none. *)
KeepsAHistory == History!Spec

=============================================================================
